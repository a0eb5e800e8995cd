------------------------------ MODULE RunProofs ------------------------------
(***************************************************************************)
(* runProduction.  Before the claim: for any policy files, however many, and *)
(* any edits of them, what a run is admitted to stays within every profile   *)
(* that was read, and an extension is permitted by the merged profile        *)
(* exactly if every one of them permits it; for every set of runs, between   *)
(* the preparation of the endpoint and the end of a run the lock is its own, *)
(* and every step that changes the path is taken within these bounds.  After *)
(* it: for any faults, the sandbox is accounted for, and a second signal is  *)
(* never forgotten.                                                          *)
(***************************************************************************)
EXTENDS Startup, ProductionSession, TLAPS

----------------------------------------------------------------------------
\* The life of the sandbox.

\* A stop and a removal may both fail, and then nothing ends the agent.
Unstoppable(F) == "stop" \in F /\ "rm" \in F

PhaseNames == {Phases[i] : i \in 1..9}
Labels == PhaseNames \union {"none", "token", "drain", "diff", "commit", "ack", "end", "exit"}

LeaseTypes ==
    /\ progress \in 0..13 /\ left \subseteq Dirs \union Runtime
    /\ spawned \in BOOLEAN /\ running \in BOOLEAN /\ leaseClosed \in BOOLEAN /\ faulted \in BOOLEAN
    /\ written \in Nat /\ closer \in [Callers -> Labels] /\ owner \in Callers \union {"none"}
    /\ faults \in FaultSets

\* Until the last step of the launch nothing runs, nobody closes, nothing is
\* written, and what exists was made by the steps before.
LaunchInv ==
    /\ progress # 13 => ~running /\ written = 0 /\ closer = [c \in Callers |-> "none"] /\ owner = "none"
    /\ progress \in 1..12 => ~leaseClosed
    /\ progress \in 3..13 => spawned
    /\ progress \in 0..4 => left \intersect Runtime = {}
    /\ progress = 5 => left \intersect Runtime \subseteq {"broker"}

\* Whoever is within a phase holds the token, and the phases behind it have done
\* their work unless one of them failed; the agent survives only where both its
\* stop and its removal did.
CloseInv ==
    /\ owner # "none" => closer[owner] \in PhaseNames /\ ~leaseClosed
    /\ \A c \in Callers : closer[c] \in PhaseNames => owner = c
    /\ \A i, j \in 1..9 : owner # "none" /\ closer[owner] = Phases[i] /\ j < i =>
          /\ ~faulted => left \intersect Removes[Phases[j]] = {}
          /\ running => (j >= 2 => "stop" \in faults /\ faulted) /\ (j >= 5 => "rm" \in faults)
    /\ leaseClosed => (running => Unstoppable(faults) /\ faulted) /\ (~faulted => left \intersect Runtime = {})

\* The collection starts after a Close, and the snapshot it commits is the last.
CollectionInv ==
    /\ closer["final"] \in {"drain", "diff", "commit", "ack"} => leaseClosed
    /\ progress = 13 /\ "upper" \notin left => leaseClosed /\ closer["final"] = "end"
    /\ ~Unstoppable(faults) =>
         /\ closer["final"] \in {"commit", "ack"} => snapshot = written
         /\ closer["final"] = "ack" => fsChanged = {written}
         /\ progress = 13 /\ "upper" \notin left => written \in fsChanged
    /\ progress \in 2..12 => "upper" \in left

LeaseInv == LeaseTypes /\ LaunchInv /\ CloseInv /\ CollectionInv

\* The watcher and the lifecycle.
SignalInv ==
    /\ lifecycleRun => main \in {"wait", "stopping", "waiting", "cleanup", "fallback", "end"}
    /\ main \in {"activate", "adapter", "begin"} => ~secondSignal
    /\ main = "pending" => (secondSignal => escalated)
    /\ main \in {"record", "terminal", "stop", "after"} => (secondSignal => pendingExit)
    /\ secondSignal => watch \in {"hand", "over"}
    /\ reason = "escalated" => secondSignal /\ main \in {"stop", "after"} /\ exit \in {"none", "late"}
    /\ exit = "normal" => main = "after" /\ ~pendingExit

----------------------------------------------------------------------------
\* The tables of the launch and of Close.
LEMMA LaunchTable ==
    /\ Len(Launch) = 12
    /\ \A i \in 1..12 :
         /\ Makes[Launch[i]] \subseteq Dirs \union Runtime
         /\ Launch[i] = "spawn" <=> i = 2
         /\ Launch[i] = "adapter" <=> i = 12
         /\ i \in 1..3 => Makes[Launch[i]] \intersect Runtime = {}
         /\ i = 4 => Makes[Launch[i]] \subseteq {"broker"}
         /\ i = 1 => "upper" \in Makes[Launch[i]]
  <1>1. Len(Launch) = 12
    BY Zenon DEF Launch
  <1>2. ASSUME NEW i \in 1..12
        PROVE  i = 1 \/ i = 2 \/ i = 3 \/ i = 4 \/ i = 5 \/ i = 6 \/ i = 7 \/ i = 8 \/ i = 9
                 \/ i = 10 \/ i = 11 \/ i = 12
    OBVIOUS
  <1>a. /\ Launch[1] = "overlay" /\ Launch[2] = "spawn" /\ Launch[3] = "secret" /\ Launch[4] = "broker"
        /\ Launch[5] = "approval" /\ Launch[6] = "netInt" /\ Launch[7] = "netExt" /\ Launch[8] = "proxy"
        /\ Launch[9] = "ready" /\ Launch[10] = "agent" /\ Launch[11] = "process" /\ Launch[12] = "adapter"
    BY Zenon DEF Launch
  <1>3. \A i \in 1..12 : (Launch[i] = "spawn" <=> i = 2) /\ (Launch[i] = "adapter" <=> i = 12)
    BY <1>2, <1>a
  <1>b. /\ Makes["overlay"] = {"state", "upper", "work"} /\ Makes["spawn"] = {} /\ Makes["secret"] = {}
        /\ Makes["broker"] = {"broker"} /\ Makes["approval"] = {"approval"} /\ Makes["netInt"] = {"netInt"}
        /\ Makes["netExt"] = {"netExt"} /\ Makes["proxy"] = {"proxy"} /\ Makes["ready"] = {}
        /\ Makes["agent"] = {"agent"} /\ Makes["process"] = {"process"} /\ Makes["adapter"] = {}
    BY Zenon DEF Makes
  <1>4. ASSUME NEW i \in 1..12 PROVE Makes[Launch[i]] \subseteq Dirs \union Runtime
    <2>1. /\ {"state", "upper", "work"} \subseteq Dirs \union Runtime /\ {} \subseteq Dirs \union Runtime
          /\ \A x \in Runtime : {x} \subseteq Dirs \union Runtime
      BY Zenon DEF Dirs
    <2>2. /\ "broker" \in Runtime /\ "approval" \in Runtime /\ "netInt" \in Runtime /\ "netExt" \in Runtime
          /\ "proxy" \in Runtime /\ "agent" \in Runtime /\ "process" \in Runtime
      BY Zenon DEF Runtime
    <2> QED BY <1>2, <1>a, <1>b, <2>1, <2>2
  <1>5. ASSUME NEW i \in 1..4
        PROVE  /\ i \in 1..3 => Makes[Launch[i]] \intersect Runtime = {}
               /\ i = 4 => Makes[Launch[i]] \subseteq {"broker"}
               /\ i = 1 => "upper" \in Makes[Launch[i]]
    <2>1. i \in 1..3 \/ i = 4
      OBVIOUS
    <2>2. {"state", "upper", "work"} \intersect Runtime = {} /\ {} \intersect Runtime = {}
      BY Zenon DEF Runtime
    <2>3. CASE i \in 1..3
      <3>1. i # 4 /\ (i = 1 \/ i = 2 \/ i = 3)
        BY <2>3
      <3>2. Makes[Launch[i]] \intersect Runtime = {}
        BY <1>a, <1>b, <2>2, <3>1
      <3> QED BY <1>a, <1>b, <3>1, <3>2
    <2>4. CASE i = 4
      <3>1. i \notin 1..3 /\ i # 1
        BY <2>4
      <3> QED BY <1>a, <1>b, <2>4, <3>1, Zenon
    <2> QED BY <2>1, <2>3, <2>4, Zenon
  <1>6. ASSUME NEW i \in 1..12 PROVE i \in 1..4 \/ (i \notin 1..3 /\ i # 4 /\ i # 1)
    OBVIOUS
  <1> QED BY <1>1, <1>3, <1>4, <1>5, <1>6, Zenon

LEMMA Cleaned ==
    ASSUME NEW i \in 1..12, left \subseteq Dirs \union Runtime,
           i \in 1..4 => left \intersect Runtime = {},
           i = 5 => left \intersect Runtime \subseteq {"broker"}
    PROVE  CleanedUp(Launch[i]) \subseteq left /\ CleanedUp(Launch[i]) \intersect Runtime = {}
  <1>1. CASE i \in 1..3
    <2>1. CleanedUp(Launch[i]) = left \ Dirs
      BY <1>1 DEF CleanedUp, Launch
    <2> QED BY <1>1, <2>1
  <1>2. CASE i \in 4..5
    <2>1. CleanedUp(Launch[i]) = left \ {"broker"}
      BY <1>2 DEF CleanedUp, Launch
    <2> QED BY <1>2, <2>1
  <1>3. CASE i \in 6..11
    <2>1. CleanedUp(Launch[i]) = left \ (Dirs \union Runtime)
      BY <1>3 DEF CleanedUp, Launch
    <2> QED BY <2>1, Zenon
  <1>4. CASE i = 12
    <2>1. CleanedUp(Launch[i]) = left \intersect {"state", "upper"}
      BY <1>4, Zenon DEF CleanedUp, Launch
    <2> QED BY <2>1, Zenon DEF Runtime
  <1> QED BY <1>1, <1>2, <1>3, <1>4

LEMMA PhaseNumbers ==
    /\ DOMAIN Phases = 1..9
    /\ \A i, j \in 1..9 : Phases[i] = Phases[j] => i = j
    /\ Phases[2] = "process" /\ Phases[5] = "agent" /\ Phases[9] = "work"
    /\ Runtime \intersect Removes["work"] = {}
  <1>1. DOMAIN Phases = 1..9
    BY DEF Phases
  <1>2. ASSUME NEW i \in 1..9
        PROVE  i = 1 \/ i = 2 \/ i = 3 \/ i = 4 \/ i = 5 \/ i = 6 \/ i = 7 \/ i = 8 \/ i = 9
    OBVIOUS
  <1>3. \A i, j \in 1..9 : Phases[i] = Phases[j] => i = j
    BY <1>2 DEF Phases
  <1> QED BY <1>1, <1>3, Zenon DEF Phases, Removes, Runtime

LEMMA PhaseTable ==
    ASSUME NEW i \in 1..9
    PROVE  /\ Index(Phases[i]) = i
           /\ Phases[i] \notin {"none", "token", "drain", "diff", "commit", "ack", "end", "exit"}
           /\ "upper" \notin Removes[Phases[i]]
  <1>1. \E k \in DOMAIN Phases : Phases[k] = Phases[i]
    BY PhaseNumbers, Zenon
  <1>2. Index(Phases[i]) \in DOMAIN Phases /\ Phases[Index(Phases[i])] = Phases[i]
    BY <1>1, Zenon DEF Index
  <1>3. Index(Phases[i]) = i
    BY <1>2, PhaseNumbers, Zenon
  <1>4. i = 1 \/ i = 2 \/ i = 3 \/ i = 4 \/ i = 5 \/ i = 6 \/ i = 7 \/ i = 8 \/ i = 9
    OBVIOUS
  <1>a. /\ Phases[1] = "quiesce" /\ Phases[2] = "process" /\ Phases[3] = "proxyStop" /\ Phases[4] = "audit"
        /\ Phases[5] = "agent" /\ Phases[6] = "proxy" /\ Phases[7] = "nets" /\ Phases[8] = "sockets"
        /\ Phases[9] = "work"
    BY Zenon DEF Phases
  <1>5. Phases[i] \notin {"none", "token", "drain", "diff", "commit", "ack", "end", "exit"}
    BY <1>4, <1>a, Zenon
  <1>6. /\ "upper" \notin Removes["quiesce"] /\ "upper" \notin Removes["process"] /\ "upper" \notin Removes["proxyStop"]
        /\ "upper" \notin Removes["audit"] /\ "upper" \notin Removes["agent"] /\ "upper" \notin Removes["proxy"]
        /\ "upper" \notin Removes["nets"] /\ "upper" \notin Removes["sockets"] /\ "upper" \notin Removes["work"]
    BY Zenon DEF Removes
  <1> QED BY <1>3, <1>4, <1>5, <1>6, <1>a, Zenon

\* Close leaves none of the runtime resources to a later phase.
LEMMA AllRemoved ==
    ASSUME NEW L, \A j \in 1..8 : L \intersect Removes[Phases[j]] = {}
    PROVE  L \intersect Runtime = {}
  <1>1. /\ L \intersect Removes[Phases[2]] = {} /\ L \intersect Removes[Phases[4]] = {}
        /\ L \intersect Removes[Phases[5]] = {} /\ L \intersect Removes[Phases[6]] = {}
        /\ L \intersect Removes[Phases[7]] = {} /\ L \intersect Removes[Phases[8]] = {}
    OBVIOUS
  <1> QED BY <1>1 DEF Phases, Removes, Runtime

----------------------------------------------------------------------------
\* The steps of startProductionWorld.
LEMMA LaunchStepInv ==
    ASSUME LeaseInv, launchStep PROVE LeaseInv'
  <1> DEFINE M == Makes[Launch[progress]]
  <1>1. /\ progress \in 1..12 /\ progress' = progress + 1 /\ left' = left \union M
        /\ spawned' = (spawned \/ progress = 2) /\ running' = (running \/ progress = 12)
    BY LaunchTable, Zenon DEF launchStep, Launching, AtSpawn
  <1>b. (spawned \/ progress = 2 => spawned') /\ (running' => running \/ progress = 12)
    BY <1>1, Zenon
  <1>2. /\ UNCHANGED <<written, fsChanged, snapshot, closer, owner, leaseClosed, faulted, faults>>
        /\ M \subseteq Dirs \union Runtime /\ (progress \in 1..3 => M \intersect Runtime = {})
        /\ (progress = 4 => M \subseteq {"broker"}) /\ (progress = 1 => "upper" \in M)
    BY <1>1, LaunchTable, Zenon DEF launchStep, evidenceVars, closingVars
  <1> HIDE DEF M
  <1>3. LeaseTypes'
    BY <1>1, <1>2 DEF LeaseInv, LeaseTypes
  <1>4. closer = [c \in Callers |-> "none"] /\ owner = "none" /\ ~leaseClosed /\ ~running /\ written = 0
    BY <1>1 DEF LeaseInv, LaunchInv
  <1>5. LaunchInv'
    <2>1. progress' \in 2..13 /\ (progress' \in 3..13 => spawned')
      <3>1. progress' \in 2..13 /\ (progress' \in 3..13 => progress = 2 \/ progress \in 3..13)
        BY <1>1
      <3> QED BY <1>b, <3>1, Zenon DEF LeaseInv, LaunchInv
    <2>2. progress' # 13 => ~running'
      <3>1. progress' # 13 => progress # 12
        BY <1>1
      <3> QED BY <1>b, <1>4, <3>1, Zenon
    <2>3. /\ progress' \in 0..4 => left' \intersect Runtime = {}
          /\ progress' = 5 => left' \intersect Runtime \subseteq {"broker"}
      <3>1. (progress' \in 0..4 => progress \in 1..3) /\ (progress' = 5 => progress = 4)
        BY <1>1
      <3>2. progress \in 1..4 => left \intersect Runtime = {}
        BY DEF LeaseInv, LaunchInv
      <3> QED BY <1>1, <1>2, <3>1, <3>2
    <2> QED BY <1>2, <1>4, <2>1, <2>2, <2>3, Zenon DEF LaunchInv
  <1>6. CloseInv'
    <2>1. \A c \in Callers : closer[c] \notin PhaseNames
      BY <1>4, PhaseTable, Zenon DEF PhaseNames
    <2> QED BY <1>2, <1>4, <2>1, Zenon DEF CloseInv
  <1>7. CollectionInv'
    <2>1. closer["final"] = "none"
      BY <1>4, Zenon DEF Callers
    <2> QED BY <1>1, <1>2, <2>1 DEF LeaseInv, CollectionInv
  <1> QED BY <1>3, <1>5, <1>6, <1>7, Zenon DEF LeaseInv

\* A step of the launch fails, and its caller cleans up.
LEMMA LaunchFailsInv ==
    ASSUME LeaseInv, launchFails PROVE LeaseInv'
  <1>1. /\ progress \in 1..12 /\ progress' = 0 /\ left' = CleanedUp(Launch[progress])
        /\ leaseClosed' \in BOOLEAN
    BY LaunchTable, Zenon DEF launchFails, Launching
  <1>2. UNCHANGED <<spawned, running, written, fsChanged, snapshot, closer, owner, faulted, faults>>
    BY Zenon DEF launchFails, evidenceVars
  <1>3. left' \subseteq left /\ left' \intersect Runtime = {}
    BY <1>1, Cleaned DEF LeaseInv, LeaseTypes, LaunchInv
  <1>4. LeaseTypes'
    BY <1>1, <1>2, <1>3 DEF LeaseInv, LeaseTypes
  <1>5. closer = [c \in Callers |-> "none"] /\ owner = "none" /\ ~running /\ written = 0
    BY <1>1 DEF LeaseInv, LaunchInv
  <1>6. LaunchInv'
    BY <1>1, <1>2, <1>3, <1>5 DEF LaunchInv
  <1>7. CloseInv'
    <2>1. \A c \in Callers : closer[c] \notin PhaseNames
      BY <1>5, PhaseTable, Zenon DEF PhaseNames
    <2> QED BY <1>2, <1>3, <1>5, <2>1, Zenon DEF CloseInv
  <1>8. CollectionInv'
    <2>1. closer["final"] = "none"
      BY <1>5, Zenon DEF Callers
    <2> QED BY <1>1, <1>2, <2>1 DEF CollectionInv
  <1> QED BY <1>4, <1>6, <1>7, <1>8 DEF LeaseInv

\* The agent writes, or ends.
LEMMA AgentInv ==
    ASSUME LeaseInv, agentWrites \/ agentEnds PROVE LeaseInv'
  <1>1. /\ running /\ written' \in {written, written + 1} /\ running' \in BOOLEAN /\ (running' => running)
        /\ UNCHANGED <<progress, spawned, left, fsChanged, snapshot, closer, owner, leaseClosed, faulted, faults>>
    BY Zenon DEF agentWrites, agentEnds, life, evidenceVars, closingVars, LeaseInv, LeaseTypes
  <1>2. LeaseTypes'
    BY <1>1 DEF LeaseInv, LeaseTypes
  <1>3. progress = 13 /\ (leaseClosed => Unstoppable(faults))
    BY <1>1, Zenon DEF LeaseInv, LaunchInv, CloseInv
  <1>4. LaunchInv' /\ CloseInv'
    BY <1>1, <1>3, Zenon DEF LeaseInv, LaunchInv, CloseInv
  <1>5. CollectionInv'
    BY <1>1, <1>3, Zenon DEF LeaseInv, CollectionInv
  <1> QED BY <1>2, <1>4, <1>5, Zenon DEF LeaseInv

\* A caller of Close moves on outside its phases and the collection.
LEMMA CallerInv ==
    ASSUME LeaseInv, NEW c \in Callers, callClose(c) \/ takeToken(c) \/ tokenTimeout(c)
    PROVE  LeaseInv'
  <1>1. UNCHANGED <<progress, spawned, left, running, written, fsChanged, snapshot, leaseClosed, faulted, faults>>
    BY Zenon DEF callClose, takeToken, tokenTimeout, life, evidenceVars
  <1>2. closer[c] \notin PhaseNames /\ progress = 13 /\ closer[c] \in {"none", "token"}
    <2>1. closer[c] \in {"none", "token"}
      BY Zenon DEF callClose, takeToken, tokenTimeout, At
    <2>2. CASE closer[c] = "none"
      <3>1. callClose(c)
        BY <2>2, Zenon DEF takeToken, tokenTimeout, At
      <3>2. progress = 13
        <4>1. Len(Launch) = 12 /\ progress = Len(Launch) + 1
          BY <3>1, LaunchTable, Zenon DEF callClose, Active
        <4> QED BY <4>1
      <3>3. "none" \notin PhaseNames
        BY PhaseTable, Zenon DEF PhaseNames
      <3> QED BY <2>1, <2>2, <3>2, <3>3, Zenon
    <2>3. CASE closer[c] = "token"
      BY <2>1, <2>3, PhaseTable DEF LeaseInv, LeaseTypes, LaunchInv, PhaseNames
    <2> QED BY <2>1, <2>2, <2>3, Zenon
  <1>3. PICK l \in Labels :
          /\ closer' = [closer EXCEPT ![c] = l]
          /\ \/ l \in {"token", "end", "exit"} /\ owner' = owner
             \/ l \in {"drain", "exit"} /\ leaseClosed /\ owner' = owner
             \/ l = Phases[1] /\ owner = "none" /\ owner' = c /\ ~leaseClosed
    <2>1. CASE callClose(c)
      BY <2>1, Zenon DEF callClose, Goto, Labels
    <2>2. CASE takeToken(c)
      <3>1. 1 \in 1..9
        OBVIOUS
      <3>2. Phases[1] \in Labels /\ AfterClose(c) \in {"drain", "exit"}
        BY <3>1, Zenon DEF Labels, PhaseNames, AfterClose
      <3> QED BY <2>2, <3>2, Zenon DEF takeToken, Goto, Labels
    <2>3. CASE tokenTimeout(c)
      BY <2>3, Zenon DEF tokenTimeout, Goto, Labels
    <2> QED BY <2>1, <2>2, <2>3, Zenon
  <1>4. LeaseTypes'
    BY <1>1, <1>3, Zenon DEF LeaseInv, LeaseTypes
  <1>5. LaunchInv'
    BY <1>1, <1>2, Zenon DEF LeaseInv, LaunchInv
  <1>6. \A d \in Callers : closer'[d] = IF d = c THEN l ELSE closer[d]
    BY <1>3, Zenon DEF LeaseInv, LeaseTypes
  <1>7. CloseInv'
    <2>1. CASE owner' = owner
      <3>1. l \notin PhaseNames
        BY <1>3, <2>1, PhaseTable, Zenon DEF PhaseNames, LeaseInv, LeaseTypes, Callers
      <3>2. owner # c
        BY <1>2, Zenon DEF LeaseInv, CloseInv, Callers
      <3>3. owner # "none" => owner \in Callers /\ closer'[owner] = closer[owner]
        BY <1>6, <3>2, Zenon DEF LeaseInv, LeaseTypes
      <3> QED BY <1>1, <1>6, <2>1, <3>1, <3>3, Zenon DEF LeaseInv, CloseInv
    <2>2. CASE l = Phases[1] /\ owner = "none" /\ owner' = c /\ ~leaseClosed
      <3>1. c # "none" /\ closer'[c] = Phases[1] /\ Phases[1] \in PhaseNames
        <4>1. 1 \in 1..9
          OBVIOUS
        <4> QED BY <1>6, <2>2, <4>1, Zenon DEF Callers, PhaseNames
      <3>2. \A i \in 1..9 : closer'[c] = Phases[i] => i = 1
        <4>1. 1 \in 1..9
          OBVIOUS
        <4> QED BY <3>1, <4>1, PhaseNumbers, Zenon
      <3>3. \A d \in Callers : closer'[d] \in PhaseNames => d = c
        BY <1>6, <2>2, Zenon DEF LeaseInv, CloseInv, Callers
      <3>4. ASSUME NEW i \in 1..9, NEW j \in 1..9, closer'[c] = Phases[i], j < i PROVE FALSE
        BY <3>2, <3>4
      <3>5. leaseClosed' = leaseClosed
        BY <1>1, Zenon
      <3> QED BY <2>2, <3>1, <3>3, <3>4, <3>5, Zenon DEF CloseInv
    <2> QED BY <1>3, <2>1, <2>2, Zenon
  <1>8. CollectionInv'
    <2>1. l \notin {"commit", "ack", "diff"} /\ (l = "drain" => leaseClosed)
      <3>1. 1 \in 1..9
        OBVIOUS
      <3> QED BY <1>3, <3>1, PhaseTable, Zenon
    <2>2. \/ closer'["final"] = closer["final"]
          \/ closer'["final"] = l /\ closer["final"] \in {"none", "token"}
      BY <1>2, <1>6, Zenon DEF Callers
    <2> QED BY <1>1, <1>2, <2>1, <2>2, Zenon DEF LeaseInv, CollectionInv
  <1> QED BY <1>4, <1>5, <1>7, <1>8, Zenon DEF LeaseInv

\* A phase of Close, whether it succeeds or not.
LEMMA ClosePhaseInv ==
    ASSUME LeaseInv, NEW c \in Callers, closePhase(c) PROVE LeaseInv'
  <1> DEFINE ph == closer[c]
  <1>1. PICK i \in 1..9 : ph = Phases[i]
    BY PhaseNumbers, Zenon DEF closePhase
  <1>2. PICK ok \in BOOLEAN :
          /\ ~ok => FaultOf(ph) \in faults
          /\ left' = IF ok THEN left \ Removes[ph] ELSE left
          /\ running' = RunsOn(ph, ok)
          /\ faulted' = (faulted \/ ~ok)
          /\ \/ ph # "work" /\ Goto(c, Phases[Index(ph) + 1]) /\ UNCHANGED <<owner, leaseClosed>>
             \/ ph = "work" /\ Goto(c, AfterClose(c)) /\ owner' = Returned /\ leaseClosed' = TRUE
    BY Zenon DEF closePhase
  <1>3. UNCHANGED <<progress, spawned, written, fsChanged, snapshot, faults>>
    BY Zenon DEF closePhase, life, evidenceVars
  <1>4. owner = c /\ c # "none" /\ ~leaseClosed /\ closer[owner] = Phases[i]
    BY <1>1, Zenon DEF LeaseInv, CloseInv, PhaseNames, Callers
  <1>5. progress = 13
    BY <1>4, Zenon DEF LeaseInv, LaunchInv
  <1>6. /\ left' \subseteq left /\ ("upper" \in left' <=> "upper" \in left)
        /\ faulted' \in BOOLEAN /\ running' \in BOOLEAN
        /\ (running' => running) /\ (~faulted' => ok /\ ~faulted)
    <2>1. "upper" \notin Removes[ph]
      BY <1>1, PhaseTable, Zenon
    <2>2. running' = (running /\ ~(ok /\ ph \in {"process", "agent"}))
      BY <1>2, Zenon DEF RunsOn
    <2>3. left' \subseteq left /\ ("upper" \in left' <=> "upper" \in left)
      BY <1>2, <2>1, Zenon
    <2> QED BY <1>2, <2>2, <2>3, Zenon DEF LeaseInv, LeaseTypes
  <1>7. ~faulted' => left' \intersect Removes[Phases[i]] = {}
    BY <1>1, <1>2, <1>6, Zenon
  \* What the phases up to this one have done.
  <1>8. ASSUME NEW j \in 1..9, j <= i
        PROVE  /\ ~faulted' => left' \intersect Removes[Phases[j]] = {}
               /\ running' => (j >= 2 => "stop" \in faults /\ faulted') /\ (j >= 5 => "rm" \in faults)
    <2>1. CASE j < i
      <3>1. /\ ~faulted => left \intersect Removes[Phases[j]] = {}
            /\ running => (j >= 2 => "stop" \in faults /\ faulted) /\ (j >= 5 => "rm" \in faults)
        BY <1>4, <2>1, Zenon DEF LeaseInv, CloseInv
      <3> QED BY <1>6, <3>1, Zenon
    <2>2. CASE j = i
      <3>1. ASSUME running' PROVE (j >= 2 => "stop" \in faults /\ faulted') /\ (j >= 5 => "rm" \in faults)
        <4>1. running /\ ~(ok /\ ph \in {"process", "agent"})
          BY <1>2, <3>1, Zenon DEF RunsOn
        <4>2. i = 2 => "stop" \in faults /\ faulted'
          <5>1. i = 2 => ph = "process"
            BY <1>1, PhaseNumbers, Zenon
          <5> QED BY <1>2, <4>1, <5>1, Zenon DEF FaultOf
        <4>3. i = 5 => "rm" \in faults
          <5>1. i = 5 => ph = "agent"
            BY <1>1, PhaseNumbers, Zenon
          <5>2. FaultOf("agent") = "rm"
            BY Zenon DEF FaultOf
          <5> QED BY <1>2, <4>1, <5>1, <5>2, Zenon
        <4>4. i \in 3..9 => "stop" \in faults /\ faulted
          <5>1. i \in 3..9 => 2 \in 1..9 /\ 2 < i /\ 2 >= 2
            OBVIOUS
          <5> QED BY <1>4, <4>1, <5>1, Zenon DEF LeaseInv, CloseInv
        <4>5. i \in 6..9 => "rm" \in faults
          <5>1. i \in 6..9 => 5 \in 1..9 /\ 5 < i /\ 5 >= 5
            OBVIOUS
          <5> QED BY <1>4, <4>1, <5>1, Zenon DEF LeaseInv, CloseInv
        <4> QED BY <1>6, <2>2, <4>2, <4>3, <4>4, <4>5
      <3> QED BY <1>7, <2>2, <3>1, Zenon
    <2>3. j < i \/ j = i
      BY <1>8
    <2> QED BY <2>1, <2>2, <2>3, Zenon
  <1>9. LaunchInv'
    BY <1>3, <1>5 DEF LeaseInv, LaunchInv
  <1> HIDE DEF ph
  <1>10. CASE i # 9
    <2>1. /\ closer' = [closer EXCEPT ![c] = Phases[i + 1]] /\ owner' = owner /\ leaseClosed' = leaseClosed
          /\ i + 1 \in 1..9
      <3>1. ph # "work" /\ Index(ph) = i
        <4>1. 9 \in 1..9
          OBVIOUS
        <4> QED BY <1>1, <1>10, <4>1, PhaseNumbers, PhaseTable, Zenon
      <3>2. i + 1 \in 1..9
        BY <1>10
      <3>3. /\ closer' = [closer EXCEPT ![c] = Phases[i + 1]] /\ owner' = owner /\ leaseClosed' = leaseClosed
        BY <1>2, <3>1, Zenon DEF Goto
      <3> QED BY <3>2, <3>3, Zenon
    <2>2. \A d \in Callers : closer'[d] = IF d = c THEN Phases[i + 1] ELSE closer[d]
      BY <2>1, Zenon DEF LeaseInv, LeaseTypes
    <2>3. Phases[i + 1] \in PhaseNames
      BY <2>1, Zenon DEF PhaseNames
    <2>4. LeaseTypes'
      BY <1>3, <1>6, <2>1, <2>3, Zenon DEF LeaseInv, LeaseTypes, Labels
    <2>5. CloseInv'
      <3>1. ASSUME NEW k \in 1..9, NEW j \in 1..9, closer'[c] = Phases[k], j < k
            PROVE  /\ ~faulted' => left' \intersect Removes[Phases[j]] = {}
                   /\ running' => (j >= 2 => "stop" \in faults /\ faulted') /\ (j >= 5 => "rm" \in faults)
        <4>1. k = i + 1
          <5>1. Phases[k] = Phases[i + 1] /\ i + 1 \in 1..9
            BY <2>1, <2>2, <3>1, Zenon
          <5> QED BY <5>1, PhaseNumbers, Zenon
        <4>2. j <= i
          BY <3>1, <4>1
        <4> QED BY <1>8, <4>2, Zenon
      <3>2. \A d \in Callers : closer'[d] \in PhaseNames => d = c
        BY <1>4, <2>2, Zenon DEF LeaseInv, CloseInv
      <3>3. closer'[c] \in PhaseNames
        BY <2>2, <2>3, Zenon
      <3> QED BY <1>3, <1>4, <2>1, <3>1, <3>2, <3>3, Zenon DEF CloseInv
    <2>6. CollectionInv'
      <3>1. Phases[i + 1] \notin {"none", "token", "drain", "diff", "commit", "ack", "end", "exit"}
        BY <2>1, PhaseTable, Zenon
      <3>2. \/ closer'["final"] = closer["final"]
            \/ closer'["final"] = Phases[i + 1] /\ closer["final"] = Phases[i]
        BY <1>4, <2>2, Zenon DEF Callers
      <3>3. Phases[i] \notin {"none", "token", "drain", "diff", "commit", "ack", "end", "exit"}
        BY PhaseTable, Zenon
      <3> QED BY <1>3, <1>5, <1>6, <2>1, <3>1, <3>2, <3>3, Zenon DEF LeaseInv, CollectionInv
    <2> QED BY <1>9, <2>4, <2>5, <2>6, Zenon DEF LeaseInv
  <1>11. CASE i = 9
    <2>1. closer' = [closer EXCEPT ![c] = AfterClose(c)] /\ owner' = "none" /\ leaseClosed' = TRUE
      <3>1. ph = "work"
        BY <1>1, <1>11, PhaseNumbers, Zenon
      <3> QED BY <1>2, <3>1, Zenon DEF Goto, Returned
    <2>2. \A d \in Callers : closer'[d] = IF d = c THEN AfterClose(c) ELSE closer[d]
      BY <2>1, Zenon DEF LeaseInv, LeaseTypes
    <2>3. AfterClose(c) \in {"drain", "exit"}
      BY Zenon DEF AfterClose
    <2>4. LeaseTypes'
      BY <1>3, <1>6, <2>1, <2>3, Zenon DEF LeaseInv, LeaseTypes, Labels
    <2>5. CloseInv'
      <3>1. running' => Unstoppable(faults) /\ faulted'
        <4>1. 5 \in 1..9 /\ 5 <= i /\ 5 >= 2 /\ 5 >= 5
          BY <1>11
        <4> QED BY <1>8, <4>1, Zenon DEF Unstoppable
      <3>2. ~faulted' => left' \intersect Runtime = {}
        <4>1. ASSUME ~faulted', NEW j \in 1..8 PROVE left' \intersect Removes[Phases[j]] = {}
          <5>1. j \in 1..9 /\ j <= i
            BY <1>11, <4>1
          <5> QED BY <1>8, <4>1, <5>1, Zenon
        <4> QED BY <4>1, AllRemoved, Zenon
      <3>3. \A d \in Callers : closer'[d] \notin PhaseNames
        <4>1. AfterClose(c) \notin PhaseNames
          BY <2>3, PhaseTable, Zenon DEF PhaseNames
        <4> QED BY <1>4, <2>2, <4>1, Zenon DEF LeaseInv, CloseInv
      <3> QED BY <1>3, <2>1, <3>1, <3>2, <3>3, Zenon DEF CloseInv, Unstoppable
    <2>6. CollectionInv'
      <3>1. \/ closer'["final"] = closer["final"]
            \/ closer'["final"] \in {"drain", "exit"} /\ closer["final"] = Phases[i]
        BY <1>4, <2>2, <2>3, Zenon DEF Callers
      <3>2. Phases[i] \notin {"none", "token", "drain", "diff", "commit", "ack", "end", "exit"}
        BY PhaseTable, Zenon
      <3> QED BY <1>3, <1>5, <1>6, <2>1, <3>1, <3>2, Zenon DEF LeaseInv, CollectionInv
    <2> QED BY <1>9, <2>4, <2>5, <2>6 DEF LeaseInv
  <1> QED BY <1>10, <1>11, Zenon

\* FinalizeCollection after its Close.
LEMMA FinalizeInv ==
    ASSUME LeaseInv, drain \/ diff \/ CommitCollection \/ AcknowledgeCollection PROVE LeaseInv'
  <1>1. UNCHANGED <<progress, spawned, running, written, owner, leaseClosed, faulted, faults>>
    BY Zenon DEF drain, diff, CommitCollection, AcknowledgeCollection, life, evidenceVars
  <1>2. leaseClosed /\ progress # 0
    <2>1. closer["final"] \in {"drain", "diff", "commit", "ack"}
      BY Zenon DEF drain, diff, CommitCollection, AcknowledgeCollection, At
    <2> QED BY <2>1 DEF LeaseInv, CollectionInv, LaunchInv, Callers
  <1>3. progress = 13 /\ owner = "none"
    <2>1. progress = 13
      <3>1. progress \in 1..12 \/ progress = 13
        BY <1>2 DEF LeaseInv, LeaseTypes
      <3> QED BY <1>2, <3>1, Zenon DEF LeaseInv, LaunchInv
    <2> QED BY <1>2, <2>1, Zenon DEF LeaseInv, CloseInv
  <1>4. PICK l \in {"diff", "commit", "ack", "end"} : closer' = [closer EXCEPT !["final"] = l]
    BY Zenon DEF drain, diff, CommitCollection, AcknowledgeCollection, Goto, CommitFails
  <1>5. closer'["final"] = l /\ \A d \in Callers : closer'[d] = IF d = "final" THEN l ELSE closer[d]
    BY <1>4, Zenon DEF LeaseInv, LeaseTypes, Callers
  <1>6. left' \subseteq left
    BY Zenon DEF drain, diff, CommitCollection, AcknowledgeCollection
  <1>7. LeaseTypes'
    BY <1>1, <1>4, <1>6, Zenon DEF LeaseInv, LeaseTypes, Labels
  <1>8. LaunchInv'
    BY <1>1, <1>3 DEF LeaseInv, LaunchInv
  <1>9. CloseInv'
    <2>1. l \notin PhaseNames
      BY PhaseTable, Zenon DEF PhaseNames
    <2>2. \A d \in Callers : closer'[d] \in PhaseNames => owner' = d
      BY <1>1, <1>5, <2>1, Zenon DEF LeaseInv, CloseInv
    <2> QED BY <1>1, <1>2, <1>3, <1>6, <2>2, Zenon DEF LeaseInv, CloseInv
  <1>10. CollectionInv'
    <2>1. CASE drain \/ diff
      <3>1. "upper" \in left /\ left' = left
        BY <1>3, <2>1, Zenon DEF drain, diff, At, LeaseInv, CollectionInv
      <3>2. l \in {"diff", "commit", "end"} /\ (l = "commit" => snapshot' = written)
        BY <1>5, <2>1, Zenon DEF drain, diff, Goto, LeaseInv, LeaseTypes, Callers
      <3> QED BY <1>1, <1>2, <1>3, <1>5, <3>1, <3>2, Zenon DEF CollectionInv
    <2>2. CASE CommitCollection
      <3>1. "upper" \in left /\ left' = left /\ (~Unstoppable(faults) => snapshot = written) /\ snapshot' = snapshot
        BY <1>3, <2>2, Zenon DEF CommitCollection, At, LeaseInv, CollectionInv
      <3>2. l = "end" \/ (l = "ack" /\ fsChanged' = {snapshot})
        BY <1>5, <2>2, Zenon DEF CommitCollection, CommitFails, Goto, LeaseInv, LeaseTypes, Callers
      <3> QED BY <1>1, <1>2, <1>3, <1>5, <3>1, <3>2, Zenon DEF CollectionInv
    <2>3. CASE AcknowledgeCollection
      <3>1. (~Unstoppable(faults) => fsChanged = {written}) /\ fsChanged' = fsChanged
        BY <2>3, Zenon DEF AcknowledgeCollection, At, evidenceVars, LeaseInv, CollectionInv
      <3>2. l = "end"
        BY <1>5, <2>3, Zenon DEF AcknowledgeCollection, Goto, LeaseInv, LeaseTypes, Callers
      <3> QED BY <1>1, <1>2, <1>3, <1>5, <3>1, <3>2 DEF CollectionInv
    <2> QED BY <2>1, <2>2, <2>3, Zenon
  <1> QED BY <1>7, <1>8, <1>9, <1>10, Zenon DEF LeaseInv

\* A step that touches none of the variables of the invariant.
LEMMA LeaseStutter ==
    ASSUME LeaseInv, processExits \/ UNCHANGED leaseVars PROVE LeaseInv'
  <1>1. UNCHANGED <<progress, spawned, left, running, written, fsChanged, snapshot, closer, owner,
                    leaseClosed, faulted, faults>>
    BY Zenon DEF processExits, leaseVars, life, evidenceVars, closingVars
  <1>2. LeaseTypes' /\ LaunchInv'
    BY <1>1, Zenon DEF LeaseInv, LeaseTypes, LaunchInv
  <1>3. CloseInv'
    BY <1>1, Zenon DEF LeaseInv, CloseInv
  <1>4. CollectionInv'
    BY <1>1, Zenon DEF LeaseInv, CollectionInv
  <1> QED BY <1>2, <1>3, <1>4, Zenon DEF LeaseInv

LEMMA LeaseStart == LeaseInit => LeaseInv
  <1> SUFFICES ASSUME LeaseInit PROVE LeaseInv
    BY Zenon
  <1>1. \A c \in Callers : closer[c] = "none" /\ closer[c] \notin PhaseNames
    BY PhaseTable, Zenon DEF LeaseInit, PhaseNames
  <1>2. LeaseTypes
    <2>1. closer \in [Callers -> Labels]
      BY Zenon DEF LeaseInit, Labels
    <2>2. /\ spawned \in BOOLEAN /\ running \in BOOLEAN /\ leaseClosed \in BOOLEAN /\ faulted \in BOOLEAN
          /\ owner \in Callers \union {"none"} /\ faults \in FaultSets /\ left \subseteq Dirs \union Runtime
      BY Zenon DEF LeaseInit
    <2>3. progress \in 0..13 /\ written \in Nat
      BY DEF LeaseInit
    <2> QED BY <2>1, <2>2, <2>3, Zenon DEF LeaseTypes
  <1>3. LaunchInv /\ CloseInv /\ CollectionInv
    <2>1. LaunchInv /\ CloseInv
      BY <1>1 DEF LeaseInit, LaunchInv, CloseInv
    <2>2. CollectionInv
      BY <1>1 DEF LeaseInit, CollectionInv, Callers
    <2> QED BY <2>1, <2>2, Zenon
  <1> QED BY <1>2, <1>3, Zenon DEF LeaseInv

LEMMA LeaseNextInv ==
    ASSUME LeaseInv, [LeaseNext]_leaseVars PROVE LeaseInv'
  BY LaunchStepInv, LaunchFailsInv, AgentInv, CallerInv, ClosePhaseInv, FinalizeInv, LeaseStutter, Zenon
     DEF LeaseNext, Exited

\* What the invariant says of the evidence and of the runtime.
LEMMA LeaseInvIsAccounted ==
    LeaseInv => RuntimeIsAccounted /\ (Unstoppable(faults) \/ LeaseIsAccounted) /\ faults \in FaultSets
  <1> SUFFICES ASSUME LeaseInv
               PROVE  RuntimeIsAccounted /\ (Unstoppable(faults) \/ EvidenceIsKept) /\ faults \in FaultSets
    BY Zenon DEF LeaseIsAccounted
  <1>1. Unstoppable(faults) \/ EvidenceIsKept
    BY DEF LeaseInv, LeaseTypes, LaunchInv, CollectionInv, EvidenceIsKept
  <1>2. RuntimeIsAccounted
    <2>1. left \intersect Runtime # {} \/ running => progress \in 5..13
      BY DEF LeaseInv, LeaseTypes, LaunchInv
    <2>2. progress \in 5..13 => progress \in 3..13 /\ progress # 0
      OBVIOUS
    <2> QED BY <2>1, <2>2, Zenon DEF LeaseInv, LaunchInv, CloseInv, RuntimeIsAccounted
  <1> QED BY <1>1, <1>2, Zenon DEF LeaseInv, LeaseTypes

----------------------------------------------------------------------------
\* The watcher and the lifecycle.

\* Every step of the session is a step of the sandbox or leaves it alone.
LEMMA SessionIsLease == ASSUME [SessionNext]_session PROVE [LeaseNext]_leaseVars
  <1>1. CASE LaunchStep \/ LaunchFails
    BY <1>1, Zenon DEF LaunchStep, LaunchFails, LeaseNext
  <1>2. CASE Arm \/ Environment \/ Quiet \/ UNCHANGED session
    BY <1>2, Zenon DEF Arm, Environment, Quiet, session
  <1>3. CASE Cleanup \/ WatchCleans \/ Deadline
    BY <1>3, Zenon DEF Cleanup, WatchCleans, Deadline, LeaseNext, Callers
  <1>4. CASE (\E c \in Callers : ClosePhase(c)) \/ SessionExit
    BY <1>4, Zenon DEF ClosePhase, SessionExit, LeaseNext
  <1>5. CASE Goroutines
    BY <1>5, Zenon DEF Goroutines, LeaseNext
  <1>6. CASE Exited /\ UNCHANGED signals
    BY <1>6, Zenon DEF Exited
  <1> QED BY <1>1, <1>2, <1>3, <1>4, <1>5, <1>6, Zenon DEF SessionNext

LEMMA SignalStart == SessionInit => SignalInv
  BY Zenon DEF SessionInit, Session!Init, SignalInv

\* The watcher gives the second signal to the lifecycle, or keeps it.
LEMMA WatcherInv ==
    ASSUME SignalInv,
           \/ Session!signal \/ Session!watchFirst \/ Session!watchSecond \/ Session!watchStops
           \/ Session!watchDecides \/ Session!watchHands \/ Session!watchCleans \/ Session!watchExits
    PROVE  SignalInv'
  <1>1. UNCHANGED <<lifecycleRun, pendingExit, main, escalated, reason>> /\ exit = "none"
    BY Zenon DEF Session!signal, Session!watchFirst, Session!watchSecond, Session!watchStops, Session!watchDecides,
       Session!watchHands, Session!watchCleans, Session!watchExits, Session!Alive, Session!shared,
       Session!escalation, Session!ending
  <1>2. CASE Session!watchDecides
    <2>1. \/ lifecycleRun /\ secondSignal' = TRUE /\ watch' = "hand" /\ exit' = exit
          \/ secondSignal' = secondSignal /\ watch = "decide" /\ exit' = exit
      BY <1>2, Zenon DEF Session!watchDecides
    <2> QED BY <1>1, <2>1 DEF SignalInv
  <1>3. CASE Session!watchExits
    <2>1. watch = "exit" /\ exit' = "direct" /\ UNCHANGED <<watch, secondSignal>>
      BY <1>3, Zenon DEF Session!watchExits, Session!watcher
    <2> QED BY <1>1, <2>1, Zenon DEF SignalInv
  <1>4. CASE \/ Session!signal \/ Session!watchFirst \/ Session!watchSecond \/ Session!watchStops
             \/ Session!watchHands \/ Session!watchCleans
    <2>1. /\ secondSignal' = secondSignal /\ exit' = exit
          /\ (watch' = watch \/ watch' = "over" \/ watch \in {"first", "second", "cleanup"})
      BY <1>4, Zenon DEF Session!signal, Session!watchFirst, Session!watchSecond, Session!watchStops,
         Session!watchHands, Session!watchCleans
    <2> QED BY <1>1, <2>1, Zenon DEF SignalInv
  <1> QED BY <1>2, <1>3, <1>4, Zenon

\* The lifecycle up to its end.
LEMMA LifecycleInv ==
    ASSUME SignalInv,
           \/ Session!activate \/ Session!activateFails \/ Session!adapterFails
           \/ Session!armForcedLeaseCleanup \/ Session!beginLifecycle \/ Session!waitReturns
           \/ Session!cleanupCloses \/ Session!leaseCloses \/ Session!cleanupReturns
           \/ Session!gotResult \/ Session!gotFirst \/ Session!stopWritten \/ Session!gotSecond
           \/ Session!deadline \/ Session!fallbackExits \/ Session!gotCleanup
    PROVE  SignalInv'
  <1>1. UNCHANGED <<watch, secondSignal, pendingExit, reason>> /\ exit = "none"
    BY Zenon DEF Session!activate, Session!activateFails, Session!adapterFails, Session!armForcedLeaseCleanup,
       Session!beginLifecycle, Session!waitReturns, Session!cleanupCloses, Session!leaseCloses,
       Session!cleanupReturns, Session!gotResult, Session!gotFirst, Session!stopWritten, Session!gotSecond,
       Session!deadline, Session!fallbackExits, Session!gotCleanup, Session!Alive, Session!watcher,
       Session!shared, Session!ending
  <1>2. CASE Session!activate \/ Session!activateFails \/ Session!adapterFails \/ Session!armForcedLeaseCleanup
    <2>1. /\ main \in {"activate", "adapter"} /\ main' \in {"adapter", "record", "begin"}
          /\ UNCHANGED <<lifecycleRun, exit>>
      BY <1>2, Zenon DEF Session!activate, Session!activateFails, Session!adapterFails,
         Session!armForcedLeaseCleanup, Session!shared
    <2> QED BY <1>1, <2>1, Zenon DEF SignalInv
  <1>3. CASE Session!beginLifecycle
    <2>1. main = "begin" /\ main' = "wait" /\ exit' = exit
      BY <1>3, Zenon DEF Session!beginLifecycle
    <2> QED BY <1>1, <2>1, Zenon DEF SignalInv
  <1>4. CASE Session!waitReturns \/ Session!cleanupCloses \/ Session!leaseCloses \/ Session!cleanupReturns
    <2>1. UNCHANGED <<lifecycleRun, main, exit, escalated>>
      BY <1>4, Zenon DEF Session!waitReturns, Session!cleanupCloses, Session!leaseCloses, Session!cleanupReturns,
         Session!shared, Session!escalation
    <2> QED BY <1>1, <2>1, Zenon DEF SignalInv
  <1>5. CASE \/ Session!gotResult \/ Session!gotFirst \/ Session!stopWritten \/ Session!gotSecond
             \/ Session!deadline \/ Session!gotCleanup
    <2>1. /\ main \in {"wait", "stopping", "waiting", "cleanup"}
          /\ main' \in {"wait", "stopping", "waiting", "cleanup", "fallback", "end"}
          /\ UNCHANGED <<lifecycleRun, exit>>
      BY <1>5, Zenon DEF Session!gotResult, Session!gotFirst, Session!stopWritten, Session!gotSecond,
         Session!deadline, Session!gotCleanup, Session!shared, Session!DeadlineLoops
    <2> QED BY <1>1, <2>1, Zenon DEF SignalInv
  <1>6. CASE Session!fallbackExits
    <2>1. main = "fallback" /\ exit' = "fallback" /\ UNCHANGED <<lifecycleRun, main>>
      BY <1>6, Zenon DEF Session!fallbackExits, Session!shared
    <2> QED BY <1>1, <2>1, Zenon DEF SignalInv
  <1> QED BY <1>2, <1>3, <1>4, <1>5, <1>6, Zenon

\* The end of the lifecycle and of runProduction.
LEMMA EndingInv ==
    ASSUME SignalInv,
           \/ Session!endLifecycle \/ Session!setPending \/ Session!sessionEnd \/ Session!terminalReason
           \/ Session!stop \/ Session!forceExitAfterLifecycle
    PROVE  SignalInv'
  <1>1. UNCHANGED <<watch, secondSignal>> /\ exit = "none"
    BY Zenon DEF Session!endLifecycle, Session!setPending, Session!sessionEnd, Session!terminalReason,
       Session!stop, Session!forceExitAfterLifecycle, Session!Alive, Session!watcher
  <1>2. CASE Session!endLifecycle
    <2>1. /\ main = "end" /\ main' = "pending" /\ ~lifecycleRun' /\ UNCHANGED <<pendingExit, reason, exit>>
          /\ (secondSignal => escalated')
      BY <1>2 DEF Session!endLifecycle, Session!LateSecond, Session!escalate, Session!escalation, Session!ending
    <2> QED BY <1>1, <2>1, Zenon DEF SignalInv
  <1>3. CASE Session!setPending
    <2>1. /\ main = "pending" /\ main' = "record" /\ pendingExit' = escalated
          /\ UNCHANGED <<lifecycleRun, reason, exit>>
      BY <1>3, Zenon DEF Session!setPending, Session!ending
    <2> QED BY <1>1, <2>1, Zenon DEF SignalInv
  <1>4. CASE Session!sessionEnd
    <2>1. main = "record" /\ main' = "terminal" /\ UNCHANGED <<lifecycleRun, pendingExit, reason, exit>>
      BY <1>4, Zenon DEF Session!sessionEnd, Session!shared
    <2> QED BY <1>1, <2>1, Zenon DEF SignalInv
  <1>5. CASE Session!terminalReason
    <2>1. /\ main = "terminal" /\ main' = "stop" /\ UNCHANGED <<lifecycleRun, pendingExit, exit>>
          /\ (reason' = "escalated" => secondSignal)
      BY <1>5, Zenon DEF Session!terminalReason, Session!shared
    <2> QED BY <1>1, <2>1, Zenon DEF SignalInv
  <1>6. CASE Session!stop
    <2>1. main = "stop" /\ main' = "after" /\ UNCHANGED <<lifecycleRun, pendingExit, reason, exit>>
      BY <1>6, Zenon DEF Session!stop, Session!ending
    <2> QED BY <1>1, <2>1, Zenon DEF SignalInv
  <1>7. CASE Session!forceExitAfterLifecycle
    <2>1. /\ main = "after" /\ UNCHANGED <<lifecycleRun, main, pendingExit, reason>>
          /\ exit' = IF pendingExit THEN "late" ELSE "normal"
      BY <1>7, Zenon DEF Session!forceExitAfterLifecycle, Session!shared, Session!ending
    <2> QED BY <1>1, <2>1, Zenon DEF SignalInv
  <1> QED BY <1>2, <1>3, <1>4, <1>5, <1>6, <1>7, Zenon

LEMMA SignalNextInv ==
    ASSUME SignalInv, [SessionNext]_session PROVE SignalInv'
  <1>1. ASSUME UNCHANGED signals PROVE SignalInv'
    BY <1>1, Zenon DEF signals, SignalInv
  <1>2. CASE LaunchStep \/ LaunchFails \/ Arm
    BY <1>1, <1>2, LifecycleInv, Zenon DEF LaunchStep, LaunchFails, Arm
  <1>3. CASE Cleanup \/ WatchCleans \/ Deadline
    BY <1>3, LifecycleInv, WatcherInv, Zenon DEF Cleanup, WatchCleans, Deadline
  <1>4. CASE \E c \in Callers : ClosePhase(c)
    BY <1>1, <1>4, LifecycleInv, Zenon DEF ClosePhase
  <1>5. CASE Goroutines \/ (Exited /\ UNCHANGED signals) \/ UNCHANGED session
    BY <1>1, <1>5, Zenon DEF Goroutines, session
  <1>6. CASE SessionExit
    BY <1>6, WatcherInv, LifecycleInv, EndingInv, Zenon DEF SessionExit
  <1>7. CASE Environment
    BY <1>7, WatcherInv, LifecycleInv, Zenon DEF Environment
  <1>8. CASE Quiet
    BY <1>8, WatcherInv, LifecycleInv, EndingInv, Zenon DEF Quiet, Session!Quiet
  <1> QED BY <1>2, <1>3, <1>4, <1>5, <1>6, <1>7, <1>8, Zenon DEF SessionNext

----------------------------------------------------------------------------
\* The sandbox keeps its invariant in a session.
LEMMA SessionKeepsLease == SessionSpec => []LeaseInv
  <1>1. SessionInit => LeaseInv
    BY LeaseStart, Zenon DEF SessionInit
  <1>2. LeaseInv /\ [SessionNext]_session => LeaseInv'
    BY SessionIsLease, LeaseNextInv, Zenon
  <1> QED BY <1>1, <1>2, PTL DEF SessionSpec

\* startProductionWorld and Close as runProduction and its signals call them: a
\* broker, a network or a container exists only after a durable spawn, and neither
\* after a failed launch nor after a Close unless a removal failed, whatever may
\* fail together, a stop and a removal included.
THEOREM RuntimeAlwaysAccounted == SessionSpec => []RuntimeIsAccounted
  BY SessionKeepsLease, LeaseInvIsAccounted, PTL

\* FinalizeCollection too: the upper directory goes only when the log has what the
\* agent wrote to it.  This takes that a stop and a removal do not both fail: an
\* agent that neither ends writes on while it is collected.
THEOREM LeaseAlwaysAccounted ==
    ASSUME \A F \in FaultSets : ~Unstoppable(F) PROVE SessionSpec => []LeaseIsAccounted
  <1>1. LeaseInv => LeaseIsAccounted
    BY LeaseInvIsAccounted, Zenon
  <1> QED BY <1>1, SessionKeepsLease, PTL

\* endLifecycle and forceExitAfterLifecycle: a second signal that the lifecycle
\* was given, however late, decides how the process ends, for any number of
\* signals and whether or not the adapter reads its stdin.
THEOREM SecondIsNeverForgotten == SessionSpec => []SecondIsNotForgotten
  <1>1. SignalInv => SecondIsNotForgotten
    BY Zenon DEF SignalInv, SecondIsNotForgotten, Session!SecondIsNotForgotten
  <1>2. SignalInv /\ [SessionNext]_session => SignalInv'
    BY SignalNextInv, Zenon
  <1> QED BY <1>1, <1>2, SignalStart, PTL DEF SessionSpec

----------------------------------------------------------------------------
Selector == [name : ExtensionNames, source : RawHosts]

\* The parts of a profile that the proofs speak about have their types.
ProfileOK(p) ==
    /\ p.egress \subseteq RawHosts /\ p.reg \subseteq RawHosts /\ p.ext \subseteq Selector
    /\ p.tokens \in Nat /\ p.timeMs \in Nat /\ p.maxDepth \in Nat /\ p.auto \in BOOLEAN

\* q grants nothing p does not.
Narrower(q, p) ==
    /\ q.fs \subseteq p.fs /\ q.egress \subseteq p.egress
    /\ q.tokens <= p.tokens /\ q.timeMs <= p.timeMs /\ q.maxDepth <= p.maxDepth
    /\ q.auto => p.auto

Extension == [name : ExtensionNames, source : Hostnames]

----------------------------------------------------------------------------
\* Canonical selectors are left alone by parsing them again.
LEMMA ParsedSelectors ==
    ASSUME NEW S, S \subseteq Selector
    PROVE  /\ parsedSelectors(S) \subseteq Selector
           /\ parsedSelectors(parsedSelectors(S)) = parsedSelectors(S)
           /\ \A s \in parsedSelectors(S) : validSelector(s) /\ canonicalExtensionSelector(s) = s
<1>1. ASSUME NEW t \in S, validSelector(t)
      PROVE  LET s == canonicalExtensionSelector(t) IN
             /\ s \in Selector /\ canonical[s.source] = s.source /\ validSelector(s)
             /\ canonicalExtensionSelector(s) = s
  <2>1. t.name \in ExtensionNames /\ t.source \in RawHosts
    BY Zenon DEF Selector
  <2>2. canonical[t.source] \in RawHosts /\ canonical[canonical[t.source]] = canonical[t.source]
    BY <2>1, HostAssumption, Zenon
  <2>3. canonical[t.source] = Empty \/ canonical[t.source] \in Hostnames
    BY <1>1, HostAssumption, Zenon DEF validSelector
  <2> QED BY <2>1, <2>2, <2>3, Zenon DEF canonicalExtensionSelector, Selector, validSelector
<1>2. \A s \in parsedSelectors(S) : \E t \in S : validSelector(t) /\ s = canonicalExtensionSelector(t)
  BY Zenon DEF parsedSelectors
<1>3. \A s \in parsedSelectors(S) :
         s \in Selector /\ canonical[s.source] = s.source /\ validSelector(s) /\ canonicalExtensionSelector(s) = s
  BY <1>1, <1>2
<1>4. \A s : s \in parsedSelectors(parsedSelectors(S)) <=> s \in parsedSelectors(S)
  <2>1. \A s : s \in parsedSelectors(parsedSelectors(S)) <=>
                 \E t \in parsedSelectors(S) : validSelector(t) /\ s = canonicalExtensionSelector(t)
    BY Zenon DEF parsedSelectors
  <2> QED BY <2>1, <1>3
<1> QED BY <1>3, <1>4, Zenon

\* The same for sets of hosts.
LEMMA CanonicalHosts ==
    ASSUME NEW H, H \subseteq RawHosts
    PROVE  /\ canonicalHosts(H) \subseteq RawHosts
           /\ \A h \in canonicalHosts(H) : canonical[h] = h /\ h # Empty
BY HostAssumption, Zenon DEF canonicalHosts

LEMMA HostsMonotone ==
    ASSUME NEW G, NEW H, G \subseteq H
    PROVE  canonicalHosts(G) \subseteq canonicalHosts(H)
BY Zenon DEF canonicalHosts

\* The hosts of two canonical sets that meet.
LEMMA CanonicalMeet ==
    ASSUME NEW G, NEW H, G \subseteq RawHosts, H \subseteq RawHosts
    PROVE  canonicalHosts(canonicalHosts(G) \cap canonicalHosts(H)) = canonicalHosts(G) \cap canonicalHosts(H)
<1>1. \A h \in canonicalHosts(G) : canonical[h] = h /\ h # Empty
  BY CanonicalHosts, Zenon
<1> QED BY <1>1, Zenon DEF canonicalHosts

\* Which selectors a merge contains.
LEMMA IntersectedSelectors ==
    ASSUME NEW A, NEW B, A \subseteq Selector, B \subseteq Selector
    PROVE  \A s : s \in intersectExtensionSelectors(A, B) <=>
                \E l \in parsedSelectors(A), r \in parsedSelectors(B) :
                    /\ l.name = r.name
                    /\ l.source = Empty \/ r.source = Empty \/ l.source = r.source
                    /\ s = narrowSelector(l, r)
<1> DEFINE L == parsedSelectors(A)
           R == parsedSelectors(B)
           Meet(l, r) == l.name = r.name /\ (l.source = Empty \/ r.source = Empty \/ l.source = r.source)
           Pairs == {q \in L \X R : Meet(q[1], q[2])}
<1>1. intersectExtensionSelectors(A, B) = {narrowSelector(p[1], p[2]) : p \in Pairs}
  BY Zenon DEF intersectExtensionSelectors
<1>2. \A l \in L, r \in R : <<l, r>> \in L \X R /\ <<l, r>>[1] = l /\ <<l, r>>[2] = r
  BY Zenon
<1>3. \A p \in Pairs : p[1] \in L /\ p[2] \in R /\ Meet(p[1], p[2])
  BY Zenon
<1>4. \A l \in L, r \in R : Meet(l, r) => <<l, r>> \in Pairs
  BY <1>2, Zenon
<1>5. ASSUME NEW s PROVE s \in intersectExtensionSelectors(A, B) <=>
                           \E l \in L, r \in R : Meet(l, r) /\ s = narrowSelector(l, r)
  <2>1. ASSUME s \in intersectExtensionSelectors(A, B)
        PROVE  \E l \in L, r \in R : Meet(l, r) /\ s = narrowSelector(l, r)
    <3>1. PICK p \in Pairs : s = narrowSelector(p[1], p[2])
      BY <1>1, <2>1, Zenon
    <3> QED BY <3>1, <1>3, Zenon
  <2>2. ASSUME NEW l \in L, NEW r \in R, Meet(l, r), s = narrowSelector(l, r)
        PROVE  s \in intersectExtensionSelectors(A, B)
    <3>1. <<l, r>> \in Pairs /\ s = narrowSelector(<<l, r>>[1], <<l, r>>[2])
      BY <1>2, <1>4, <2>2, Zenon
    <3> QED BY <1>1, <3>1, Zenon
  <2> QED BY <2>1, <2>2, Zenon
<1> QED BY <1>5, Zenon

----------------------------------------------------------------------------
\* Merge permits an extension exactly if both profiles do.
LEMMA MergeAuthorizes ==
    ASSUME NEW a, NEW b, ProfileOK(a), ProfileOK(b), NEW e \in Extension
    PROVE  authorized(Merge(a, b), e) <=> authorized(a, e) /\ authorized(b, e)
<1> DEFINE c == canonical[e.source]
           M == intersectExtensionSelectors(a.ext, b.ext)
           Match(s) == s.name = e.name /\ s.source \in {Empty, c}
<1>1. Merge(a, b).ext = M /\ Merge(a, b).reg = canonicalHosts(a.reg) \cap canonicalHosts(b.reg)
  BY Zenon DEF Merge
<1>2. canonicalHosts(Merge(a, b).reg) = canonicalHosts(a.reg) \cap canonicalHosts(b.reg)
  BY <1>1, CanonicalMeet DEF ProfileOK
<1>3. a.ext \subseteq Selector /\ b.ext \subseteq Selector
  BY Zenon DEF ProfileOK
<1>4. parsedSelectors(M) = M
  <2>1. \A s \in M : s \in parsedSelectors(a.ext) \/ s \in parsedSelectors(b.ext)
    BY <1>3, IntersectedSelectors DEF narrowSelector
  <2>2. \A s \in M : validSelector(s) /\ canonicalExtensionSelector(s) = s
    BY <1>3, <2>1, ParsedSelectors, Zenon
  <2> QED BY <2>2, Zenon DEF parsedSelectors
<1>5. ASSUME NEW s \in M, Match(s)
      PROVE  /\ \E l \in parsedSelectors(a.ext) : Match(l)
             /\ \E r \in parsedSelectors(b.ext) : Match(r)
  <2>1. PICK l \in parsedSelectors(a.ext), r \in parsedSelectors(b.ext) :
              /\ l.name = r.name
              /\ l.source = Empty \/ r.source = Empty \/ l.source = r.source
              /\ s = narrowSelector(l, r)
    BY <1>3, IntersectedSelectors
  <2>2. Match(l) /\ Match(r)
    BY <1>5, <2>1, Zenon DEF narrowSelector
  <2> QED BY <2>2, Zenon
<1>6. ASSUME NEW l \in parsedSelectors(a.ext), Match(l), NEW r \in parsedSelectors(b.ext), Match(r)
      PROVE  \E s \in M : Match(s)
  <2>1. l.name = r.name /\ (l.source = Empty \/ r.source = Empty \/ l.source = r.source)
    BY <1>6, Zenon
  <2>2. narrowSelector(l, r) \in M
    BY <1>3, <2>1, IntersectedSelectors, Zenon
  <2>3. Match(narrowSelector(l, r))
    BY <1>6, Zenon DEF narrowSelector
  <2> QED BY <2>2, <2>3, Zenon
<1>7. (\E s \in parsedSelectors(M) : Match(s)) <=>
        (\E l \in parsedSelectors(a.ext) : Match(l)) /\ (\E r \in parsedSelectors(b.ext) : Match(r))
  BY <1>4, <1>5, <1>6, Zenon
<1> HIDE DEF M
<1> QED BY <1>1, <1>2, <1>7, Zenon DEF authorized

LEMMA MergeNarrows ==
    ASSUME NEW a, NEW b, ProfileOK(a), ProfileOK(b)
    PROVE  ProfileOK(Merge(a, b)) /\ Narrower(Merge(a, b), a) /\ Narrower(Merge(a, b), b)
<1>1. canonicalHosts(a.reg) \subseteq RawHosts
  BY CanonicalHosts, Zenon DEF ProfileOK
<1>2. intersectExtensionSelectors(a.ext, b.ext) \subseteq Selector
  <2>1. a.ext \subseteq Selector /\ b.ext \subseteq Selector
    BY Zenon DEF ProfileOK
  <2> QED BY <2>1, IntersectedSelectors, ParsedSelectors DEF narrowSelector
<1>3. \A x, y \in Nat : min64(x, y) \in Nat /\ min64(x, y) <= x /\ min64(x, y) <= y
  BY DEF min64
<1>4. /\ Merge(a, b).tokens = min64(a.tokens, b.tokens)
      /\ Merge(a, b).timeMs = min64(a.timeMs, b.timeMs)
      /\ Merge(a, b).maxDepth = min64(a.maxDepth, b.maxDepth)
      /\ Merge(a, b).auto = (a.auto /\ b.auto)
      /\ Merge(a, b).fs = a.fs \cap b.fs
      /\ Merge(a, b).egress = a.egress \cap b.egress
      /\ Merge(a, b).ext = intersectExtensionSelectors(a.ext, b.ext)
      /\ Merge(a, b).reg = canonicalHosts(a.reg) \cap canonicalHosts(b.reg)
  BY Zenon DEF Merge
<1>5. /\ a.tokens \in Nat /\ a.timeMs \in Nat /\ a.maxDepth \in Nat
      /\ b.tokens \in Nat /\ b.timeMs \in Nat /\ b.maxDepth \in Nat
  BY Zenon DEF ProfileOK
<1>6. a.egress \subseteq RawHosts /\ a.auto \in BOOLEAN /\ b.auto \in BOOLEAN
  BY Zenon DEF ProfileOK
<1>7. Merge(a, b).auto \in BOOLEAN /\ (Merge(a, b).auto => a.auto) /\ (Merge(a, b).auto => b.auto)
  BY <1>4, <1>6, Zenon
<1>8. /\ Merge(a, b).tokens \in Nat /\ Merge(a, b).tokens <= a.tokens /\ Merge(a, b).tokens <= b.tokens
      /\ Merge(a, b).timeMs \in Nat /\ Merge(a, b).timeMs <= a.timeMs /\ Merge(a, b).timeMs <= b.timeMs
      /\ Merge(a, b).maxDepth \in Nat /\ Merge(a, b).maxDepth <= a.maxDepth /\ Merge(a, b).maxDepth <= b.maxDepth
  <2>1. min64(a.tokens, b.tokens) \in Nat /\ min64(a.tokens, b.tokens) <= a.tokens /\ min64(a.tokens, b.tokens) <= b.tokens
    BY <1>3, <1>5, Zenon
  <2>2. min64(a.timeMs, b.timeMs) \in Nat /\ min64(a.timeMs, b.timeMs) <= a.timeMs /\ min64(a.timeMs, b.timeMs) <= b.timeMs
    BY <1>3, <1>5, Zenon
  <2>3. /\ min64(a.maxDepth, b.maxDepth) \in Nat
        /\ min64(a.maxDepth, b.maxDepth) <= a.maxDepth /\ min64(a.maxDepth, b.maxDepth) <= b.maxDepth
    BY <1>3, <1>5, Zenon
  <2> QED BY <1>4, <2>1, <2>2, <2>3, Zenon
<1>9. /\ Merge(a, b).egress \subseteq RawHosts /\ Merge(a, b).reg \subseteq RawHosts
      /\ Merge(a, b).ext \subseteq Selector
      /\ Merge(a, b).fs \subseteq a.fs /\ Merge(a, b).fs \subseteq b.fs
      /\ Merge(a, b).egress \subseteq a.egress /\ Merge(a, b).egress \subseteq b.egress
  BY <1>1, <1>2, <1>4, <1>6, Zenon
<1> QED BY <1>7, <1>8, <1>9, Zenon DEF ProfileOK, Narrower

LEMMA NarrowerTransitive ==
    ASSUME NEW p, NEW q, NEW r, ProfileOK(p), ProfileOK(q), ProfileOK(r), Narrower(p, q), Narrower(q, r)
    PROVE  Narrower(p, r)
<1>1. p.tokens <= r.tokens /\ p.timeMs <= r.timeMs /\ p.maxDepth <= r.maxDepth
  BY DEF ProfileOK, Narrower
<1>2. p.fs \subseteq r.fs /\ p.egress \subseteq r.egress /\ (p.auto => r.auto)
  BY Zenon DEF Narrower
<1> QED BY <1>1, <1>2, Zenon DEF Narrower

LEMMA ParsedProfile ==
    ASSUME NEW raw \in Raws
    PROVE  ProfileOK(ParseProfile(raw))
<1>1. canonicalHosts(raw.reg) \subseteq RawHosts
  BY RawAssumption, CanonicalHosts, Zenon
<1>2. parsedSelectors(raw.ext) \subseteq Selector
  BY RawAssumption, ParsedSelectors, Zenon DEF Selector
<1> QED BY <1>1, <1>2, RawAssumption, Zenon DEF ParseProfile, ProfileOK

----------------------------------------------------------------------------
\* The inductive invariant: the merged profile is narrower than every profile
\* read so far and permits just the extensions all of them permit; a sandbox
\* stays within the merged profile.
ReadOK ==
    /\ files \in [1..Files -> Raws]
    /\ request.budget \in Budgets
    /\ read \in Seq({ParseProfile(raw) : raw \in Raws})

MergedOK ==
    read # <<>> =>
        /\ ProfileOK(effective)
        /\ \A i \in DOMAIN read : Narrower(effective, read[i])
        /\ \A e \in Extension : authorized(effective, e) <=> \A i \in DOMAIN read : authorized(read[i], e)

SandboxOK ==
    /\ stage \in {"merged", "evaluated", "admitted"} => read # <<>>
    /\ stage = "evaluated" => /\ workspaceAllowed(effective.fs, sandbox.workspace)
                           /\ sandbox = Evaluate(effective, spawnRequest)
    /\ stage = "admitted" => /\ sandbox.exts = <<>>
                          /\ sandbox.tokens \in Nat /\ sandbox.timeMs \in Nat /\ sandbox.maxDepth \in Nat
                          /\ Within(sandbox, effective)

AdmissionInv == ReadOK /\ MergedOK /\ SandboxOK

LEMMA ReadProfiles ==
    ASSUME ReadOK, NEW i \in DOMAIN read
    PROVE  ProfileOK(read[i])
<1>1. read[i] \in {ParseProfile(raw) : raw \in Raws}
  BY DEF ReadOK
<1> QED BY <1>1, ParsedProfile, Zenon

LEMMA InitIInv == AdmissionInit => AdmissionInv
<1> SUFFICES ASSUME AdmissionInit PROVE AdmissionInv
  BY Zenon
<1>1. request.budget \in Budgets
  BY DEF AdmissionInit
<1>2. read = <<>> /\ stage = "pin" /\ files \in [1..Files -> Raws]
  BY Zenon DEF AdmissionInit
<1> QED BY <1>1, <1>2 DEF AdmissionInv, ReadOK, MergedOK, SandboxOK

\* One more profile is read and merged.
LEMMA ReadStep ==
    ASSUME AdmissionInv, readProfile
    PROVE  AdmissionInv'
<1> USE DEF AdmissionInv
<1>1. /\ stage = "read" /\ UNCHANGED <<files, edits, request, hashed, sandbox>>
      /\ Len(read) \in Nat /\ Len(read) < Files
  BY DEF readProfile, ReadOK
<1>2. files[Len(read) + 1] \in Raws
  BY <1>1, FilesAssumption DEF ReadOK
<1>3. CASE UNCHANGED <<read, effective>> /\ stage' = "rejected"
  <2>1. ReadOK'
    BY <1>1, <1>3, Zenon DEF ReadOK
  <2>2. MergedOK'
    BY <1>1, <1>3, Zenon DEF MergedOK, Extension, authorized, ProfileOK, Narrower
  <2>3. SandboxOK'
    BY <1>3, Zenon DEF SandboxOK
  <2> QED BY <2>1, <2>2, <2>3, Zenon
<1>4. CASE \E raw \in Raws : read' = Append(read, ParseProfile(raw)) /\ effective' = merged(ParseProfile(raw)) /\ stage' = stage
  <2>1. PICK raw \in Raws : read' = Append(read, ParseProfile(raw)) /\ effective' = merged(ParseProfile(raw)) /\ stage' = stage
    BY <1>4, Zenon
  <2> DEFINE p == ParseProfile(raw)
             n == Len(read)
  <2>2. ProfileOK(p)
    BY ParsedProfile, Zenon
  <2>3. read' \in Seq({ParseProfile(x) : x \in Raws}) /\ Len(read') = n + 1 /\ read'[n + 1] = p
        /\ \A i \in 1..n : read'[i] = read[i]
    BY <2>1 DEF ReadOK
  <2>4. DOMAIN read = 1..n /\ DOMAIN read' = 1..(n + 1) /\ n \in Nat
    BY <2>3 DEF ReadOK
  <2>5. ReadOK'
    BY <1>1, <2>3, Zenon DEF ReadOK
  <2>6. SandboxOK'
    BY <1>1, <2>1, Zenon DEF SandboxOK
  <2>7. CASE n = 0
    <3>1. read = <<>>
      BY <2>7 DEF ReadOK
    <3>2. effective' = p
      BY <2>1, <3>1, Zenon DEF merged
    <3>3. \A i \in DOMAIN read' : read'[i] = p
      BY <2>3, <2>4, <2>7
    <3>4. Narrower(p, p)
      BY <2>2 DEF Narrower, ProfileOK
    <3>5. 1 \in DOMAIN read'
      BY <2>4, <2>7
    <3> HIDE DEF p
    <3> QED BY <2>2, <2>5, <2>6, <3>2, <3>3, <3>4, <3>5, Zenon DEF MergedOK
  <2>8. CASE n # 0
    <3>1. read # <<>>
      BY <2>8 DEF ReadOK
    <3>2. effective' = Merge(effective, p) /\ ProfileOK(effective)
      BY <2>1, <3>1, Zenon DEF merged, MergedOK
    <3>3. /\ ProfileOK(Merge(effective, p))
          /\ Narrower(Merge(effective, p), effective) /\ Narrower(Merge(effective, p), p)
      BY <2>2, <3>2, MergeNarrows, Zenon
    <3>4. ASSUME NEW i \in DOMAIN read' PROVE Narrower(Merge(effective, p), read'[i])
      <4>1. CASE i = n + 1
        BY <2>3, <3>3, <4>1, Zenon
      <4>2. CASE i \in 1..n
        <5>1. ProfileOK(read[i]) /\ Narrower(effective, read[i])
          BY <2>4, <3>1, <4>2, ReadProfiles, Zenon DEF MergedOK
        <5>2. Narrower(Merge(effective, p), read[i])
          BY <3>2, <3>3, <5>1, NarrowerTransitive, Zenon
        <5> QED BY <2>3, <4>2, <5>2, Zenon
      <4> QED BY <2>4, <4>1, <4>2
    <3>5. ASSUME NEW e \in Extension
          PROVE  authorized(Merge(effective, p), e) <=> \A i \in DOMAIN read' : authorized(read'[i], e)
      <4>1. authorized(effective, e) <=> \A i \in DOMAIN read : authorized(read[i], e)
        BY <3>1, Zenon DEF MergedOK
      <4>2. authorized(Merge(effective, p), e) <=> authorized(effective, e) /\ authorized(p, e)
        BY <2>2, <3>2, MergeAuthorizes, Zenon
      <4>3. (\A i \in DOMAIN read' : authorized(read'[i], e)) <=>
              (\A i \in 1..n : authorized(read[i], e)) /\ authorized(p, e)
        <5> HIDE DEF p
        <5>1. ASSUME \A i \in DOMAIN read' : authorized(read'[i], e)
              PROVE  (\A i \in 1..n : authorized(read[i], e)) /\ authorized(p, e)
          <6>1. n + 1 \in DOMAIN read' /\ \A i \in 1..n : i \in DOMAIN read'
            BY <2>4
          <6> QED BY <2>3, <5>1, <6>1, Zenon
        <5>2. ASSUME \A i \in 1..n : authorized(read[i], e), authorized(p, e), NEW i \in DOMAIN read'
              PROVE  authorized(read'[i], e)
          <6>1. i = n + 1 \/ i \in 1..n
            BY <2>4
          <6> QED BY <2>3, <5>2, <6>1, Zenon
        <5> QED BY <5>1, <5>2, Zenon
      <4> QED BY <2>4, <4>1, <4>2, <4>3, Zenon
    <3> HIDE DEF p
    <3> QED BY <2>5, <2>6, <3>2, <3>3, <3>4, <3>5, Zenon DEF MergedOK
  <2> QED BY <2>4, <2>7, <2>8, Zenon
<1> QED BY <1>2, <1>3, <1>4, Zenon DEF readProfile

LEMMA EvaluateStep ==
    ASSUME AdmissionInv, evaluate
    PROVE  AdmissionInv'
<1> USE DEF AdmissionInv
<1>1. stage = "merged" /\ UNCHANGED <<files, edits, request, hashed, read, effective>>
  BY Zenon DEF evaluate
<1>2. ReadOK' /\ MergedOK'
  BY <1>1, Zenon DEF ReadOK, MergedOK, Extension, authorized
<1>3. read' # <<>>
  BY <1>1, Zenon DEF SandboxOK
<1>4. CASE stage' = "rejected"
  BY <1>2, <1>4, Zenon DEF SandboxOK
<1>5. CASE Granted(effective, spawnRequest) /\ sandbox' = Evaluate(effective, spawnRequest) /\ stage' = "evaluated"
  <2>1. workspaceAllowed(effective.fs, Clean(spawnRequest.workspace))
    BY <1>5, Zenon DEF Granted
  <2>2. sandbox'.workspace = Clean(spawnRequest.workspace)
    BY <1>5, Zenon DEF Evaluate
  <2>3. effective' = effective /\ spawnRequest' = spawnRequest
    BY <1>1, Zenon DEF spawnRequest
  <2>4. workspaceAllowed(effective'.fs, sandbox'.workspace)
    BY <2>1, <2>2, <2>3, Zenon
  <2>5. sandbox' = Evaluate(effective', spawnRequest')
    BY <1>5, <2>3, Zenon
  <2> QED BY <1>2, <1>3, <1>5, <2>4, <2>5, Zenon DEF SandboxOK
<1> QED BY <1>4, <1>5, Zenon DEF evaluate

LEMMA BudgetStep ==
    ASSUME AdmissionInv, checkBudget
    PROVE  AdmissionInv'
<1> USE DEF AdmissionInv
<1>1. stage = "evaluated" /\ UNCHANGED <<files, edits, request, hashed, read, effective>>
  BY Zenon DEF checkBudget
<1>2. ReadOK' /\ MergedOK'
  BY <1>1, Zenon DEF ReadOK, MergedOK, Extension, authorized
<1>3. read # <<>> /\ ProfileOK(effective)
  BY <1>1, Zenon DEF SandboxOK, MergedOK
<1>4. CASE stage' = "rejected"
  BY <1>2, <1>4 DEF SandboxOK
<1>5. CASE /\ budgetFits(request.budget) /\ stage' = "admitted"
           /\ sandbox' = [sandbox EXCEPT !.tokens = request.budget.tokens, !.timeMs = request.budget.timeMs,
                                         !.maxDepth = request.budget.maxDepth]
  <2> DEFINE b == request.budget
  <2>1. sandbox = Evaluate(effective, spawnRequest) /\ workspaceAllowed(effective.fs, sandbox.workspace)
    BY <1>1, Zenon DEF SandboxOK
  <2>2. /\ sandbox.tokens = effective.tokens /\ sandbox.timeMs = effective.timeMs
        /\ sandbox.maxDepth = effective.maxDepth /\ sandbox.auto = effective.auto
        /\ sandbox.exts = <<>>
        /\ sandbox.egress = canonicalHosts(requestedEgress(spawnRequest)) \cap canonicalHosts(effective.egress)
    BY <2>1, Zenon DEF Evaluate, spawnRequest
  <2>3. /\ sandbox'.tokens = b.tokens /\ sandbox'.timeMs = b.timeMs /\ sandbox'.maxDepth = b.maxDepth
        /\ sandbox'.auto = sandbox.auto /\ sandbox'.exts = sandbox.exts
        /\ sandbox'.egress = sandbox.egress /\ sandbox'.workspace = sandbox.workspace
    BY <1>5, <2>1, Zenon DEF Evaluate
  <2>4. b.tokens \in Nat /\ b.timeMs \in Nat /\ b.maxDepth \in Nat
    BY BudgetAssumption, Zenon DEF ReadOK
  <2>5. b.tokens <= effective.tokens /\ b.timeMs <= effective.timeMs /\ b.maxDepth <= effective.maxDepth
    BY <1>5, <2>2, Zenon DEF budgetFits
  <2> HIDE DEF b
  <2>6. sandbox'.tokens <= effective.tokens /\ sandbox'.timeMs <= effective.timeMs /\ sandbox'.maxDepth <= effective.maxDepth
    BY <2>3, <2>5, Zenon
  <2>7. workspaceAllowed(effective.fs, sandbox'.workspace)
    BY <2>1, <2>3, Zenon
  <2>8. sandbox'.egress \subseteq canonicalHosts(effective.egress)
    BY <2>2, <2>3, Zenon
  <2>9. sandbox'.auto => effective.auto
    BY <2>2, <2>3, Zenon
  <2>10. sandbox'.exts = <<>>
    BY <2>2, <2>3, Zenon
  <2>11. Within(sandbox', effective)
    BY <2>6, <2>7, <2>8, <2>9, <2>10 DEF Within
  <2>12. Within(sandbox', effective')
    BY <1>1, <2>11, Zenon
  <2>13. sandbox'.tokens \in Nat /\ sandbox'.timeMs \in Nat /\ sandbox'.maxDepth \in Nat
    BY <2>3, <2>4, Zenon
  <2>14. SandboxOK'
    BY <1>1, <1>3, <1>5, <2>10, <2>12, <2>13, Zenon DEF SandboxOK
  <2> QED BY <1>2, <2>14, Zenon
<1> QED BY <1>4, <1>5, Zenon DEF checkBudget

\* A step that leaves the profiles and the sandbox alone.
LEMMA QuietStep ==
    ASSUME AdmissionInv, UNCHANGED <<request, read, effective, sandbox>>, files' \in [1..Files -> Raws],
           stage' \in {stage, "read", "rejected"} \/ (stage' = "merged" /\ read # <<>>)
    PROVE  AdmissionInv'
<1>1. ReadOK' /\ MergedOK'
  BY Zenon DEF AdmissionInv, ReadOK, MergedOK, Extension, authorized
<1>2. SandboxOK'
  BY Zenon DEF AdmissionInv, SandboxOK, spawnRequest, Within, Evaluate
<1> QED BY <1>1, <1>2, Zenon DEF AdmissionInv

LEMMA NextIInv ==
    ASSUME AdmissionInv, [AdmissionNext]_admissionVars
    PROVE  AdmissionInv'
<1>1. files \in [1..Files -> Raws]
  BY Zenon DEF AdmissionInv, ReadOK
<1>2. CASE edit
  <2>1. files' \in [1..Files -> Raws] /\ stage' = stage /\ UNCHANGED <<request, read, effective, sandbox>>
    BY <1>1, <1>2, Zenon DEF edit
  <2> QED BY <2>1, QuietStep, Zenon
<1>3. CASE pinnedProfileHash
  BY <1>1, <1>3, QuietStep, Zenon DEF pinnedProfileHash
<1>4. CASE comparePin
  BY <1>1, <1>4, QuietStep, Zenon DEF comparePin
<1>5. CASE readProfile
  BY <1>5, ReadStep, Zenon
<1>6. CASE checkID
  <2>1. Len(read) # 0
    BY <1>6, FilesAssumption, Zenon DEF checkID
  <2>2. read # <<>>
    BY <2>1
  <2>3. files' = files /\ stage' \in {"merged", "rejected"} /\ UNCHANGED <<request, read, effective, sandbox>>
    BY <1>6, Zenon DEF checkID
  <2> QED BY <1>1, <2>2, <2>3, QuietStep, Zenon
<1>7. CASE evaluate
  BY <1>7, EvaluateStep
<1>8. CASE checkBudget
  BY <1>8, BudgetStep
<1>9. CASE Finished \/ UNCHANGED admissionVars
  <2>1. files' = files /\ stage' = stage /\ UNCHANGED <<request, read, effective, sandbox>>
    BY <1>9, Zenon DEF Finished, admissionVars
  <2> QED BY <1>1, <2>1, QuietStep, Zenon
<1> QED BY <1>2, <1>3, <1>4, <1>5, <1>6, <1>7, <1>8, <1>9, Zenon DEF AdmissionNext

----------------------------------------------------------------------------
\* A sandbox within a profile is within every wider one.
LEMMA WithinWider ==
    ASSUME NEW s, NEW q, NEW p, Within(s, q), Narrower(q, p), ProfileOK(q), ProfileOK(p), s.exts = <<>>,
           s.tokens \in Nat, s.timeMs \in Nat, s.maxDepth \in Nat
    PROVE  Within(s, p)
<1>1. workspaceAllowed(p.fs, s.workspace)
  BY Zenon DEF Within, Narrower, workspaceAllowed
<1>2. s.egress \subseteq canonicalHosts(p.egress)
  BY HostsMonotone, Zenon DEF Within, Narrower
<1>3. s.tokens <= p.tokens /\ s.timeMs <= p.timeMs /\ s.maxDepth <= p.maxDepth
  <2>1. /\ s.tokens <= q.tokens /\ s.timeMs <= q.timeMs /\ s.maxDepth <= q.maxDepth
        /\ q.tokens <= p.tokens /\ q.timeMs <= p.timeMs /\ q.maxDepth <= p.maxDepth
    BY Zenon DEF Within, Narrower
  <2>2. /\ q.tokens \in Nat /\ q.timeMs \in Nat /\ q.maxDepth \in Nat
        /\ p.tokens \in Nat /\ p.timeMs \in Nat /\ p.maxDepth \in Nat
    BY Zenon DEF ProfileOK
  <2>3. \A a, b, c \in Nat : a <= b /\ b <= c => a <= c
    OBVIOUS
  <2> QED BY <2>1, <2>2, <2>3, Zenon
<1>4. s.auto => p.auto
  BY Zenon DEF Within, Narrower
<1>5. DOMAIN s.exts = {}
  <2>1. DOMAIN <<>> = {}
    OBVIOUS
  <2> QED BY <2>1, Zenon
<1> QED BY <1>1, <1>2, <1>3, <1>4, <1>5, Zenon DEF Within

\* The invariant gives both halves of MergeIsSound.
LEMMA SoundMerge == AdmissionInv => MergeIsSound
<1>1. AdmissionInv => MergeOnlyNarrows
  <2> SUFFICES ASSUME AdmissionInv, stage = "admitted", NEW i \in DOMAIN read
               PROVE  Within(sandbox, read[i])
    BY Zenon DEF MergeOnlyNarrows
  <2>1. read # <<>> /\ Within(sandbox, effective) /\ sandbox.exts = <<>>
        /\ sandbox.tokens \in Nat /\ sandbox.timeMs \in Nat /\ sandbox.maxDepth \in Nat
    BY Zenon DEF AdmissionInv, SandboxOK
  <2>2. ProfileOK(effective) /\ Narrower(effective, read[i])
    BY <2>1, Zenon DEF AdmissionInv, MergedOK
  <2>3. ProfileOK(read[i])
    BY ReadProfiles, Zenon DEF AdmissionInv
  <2> QED BY <2>1, <2>2, <2>3, WithinWider, Zenon
<1>2. AdmissionInv => MergeIsExact
  <2> DEFINE E == {[name |-> n, source |-> h] : n \in ExtensionNames, h \in Hostnames}
  <2>1. ASSUME NEW e \in E PROVE e \in Extension
    BY DEF Extension
  <2> HIDE DEF E
  <2>2. ASSUME AdmissionInv, NEW e \in E, read # <<>>
        PROVE  authorized(effective, e) <=> \A i \in DOMAIN read : authorized(read[i], e)
    BY <2>1, <2>2, Zenon DEF AdmissionInv, MergedOK
  <2>3. AdmissionInv => \A e \in E : read # <<>> => (authorized(effective, e) <=> \A i \in DOMAIN read : authorized(read[i], e))
    BY <2>2, Zenon
  <2> QED BY <2>3 DEF E, MergeIsExact
<1> QED BY <1>1, <1>2, Zenon DEF MergeIsSound

\* FR-POL-03 for any number of profiles of any content and any edits of the
\* files: what runProduction admits stays within every profile it read, and the
\* merge of any chain of profiles permits an extension exactly if every profile
\* of the chain does.
THEOREM AdmissionIsSound == AdmissionSpec => []MergeIsSound
<1> QED BY SoundMerge, InitIInv, NextIInv, PTL DEF AdmissionSpec

----------------------------------------------------------------------------
\* The endpoint and its lock.

Steps == {"idle", "lock", "recheck", "probe", "remove", "prepared", "starting", "serve", "close", "closing",
          "returned", "end"}
Listeners == {"none", "stat", "bind", "bound", "listening", "ready", "unlinked", "closed"}

\* The steps between acquireApprovalEndpointLock and the deferred Close of the lock.
Holding == {"recheck", "probe", "remove", "prepared", "starting", "serve", "close", "closing"}

\* Who may still have something at the path.
Binding == {"bound", "listening", "ready"}

EndpointTypes ==
    /\ lock \in Runs \cup {NoRun} /\ step \in [Runs -> Steps] /\ listener \in [Runs -> Listeners]
    /\ closed \in [Runs -> BOOLEAN] /\ meddled \in BOOLEAN

\* The lock is held exactly by the run between its acquisition and its end; a
\* Listen runs only within it; and what a Listen has bound is what is there.
EndpointInv ==
    /\ EndpointTypes
    /\ \A p \in Runs : step[p] \in Holding <=> lock = p
    /\ \A p \in Runs : listener[p] \notin {"none", "closed"} => step[p] \in {"starting", "serve", "close", "closing"}
    /\ \A p \in Runs : step[p] = "serve" => listener[p] = "ready"
    /\ \A p \in Runs : listener[p] \in Binding /\ ~meddled => path = Socket(p)

----------------------------------------------------------------------------
\* The start: nobody holds the lock, nobody listens.
LEMMA EndpointInvInit == EndpointInit => EndpointInv
  BY RunsAssumption, Zenon DEF EndpointInit, EndpointInv, EndpointTypes, Holding, Binding, Steps, Listeners

\* The steps of a run keep the invariant.  Each changes the state of its own run
\* only; whoever touches the path holds the lock, so nobody else has bound it.
LEMMA EndpointInvRun ==
    ASSUME EndpointInv, NEW p \in Runs, Run(p), LateListen = FALSE PROVE EndpointInv'
  <1> USE RunsAssumption DEF EndpointInv, EndpointTypes, Holding, Binding, Steps, Listeners, Go
  <1>1. CASE lstatBefore(p)
    BY <1>1, Zenon DEF lstatBefore
  <1>2. CASE acquireApprovalEndpointLock(p)
    BY <1>2 DEF acquireApprovalEndpointLock
  <1>3. CASE lstatCurrent(p)
    <2>1. /\ step[p] = "recheck" /\ UNCHANGED <<path, before, listener, closed, meddled>>
          /\ \/ lock' = lock /\ (step' = [step EXCEPT ![p] = "prepared"] \/ step' = [step EXCEPT ![p] = "probe"])
             \/ lock' = NoRun /\ step' = [step EXCEPT ![p] = "end"]
      BY <1>3, Zenon DEF lstatCurrent, fail
    <2> QED BY <2>1
  <1>4. CASE probe(p)
    BY <1>4 DEF probe, fail
  <1>5. CASE remove(p)
    BY <1>5 DEF remove, fail
  <1>6. CASE turnedAway(p)
    BY <1>6 DEF turnedAway, fail
  <1>7. CASE startApprovalServer(p)
    BY <1>7 DEF startApprovalServer, LockWhileServing
  <1>8. CASE serverStarted(p)
    BY <1>8 DEF serverStarted
  <1>9. CASE sessionOver(p)
    BY <1>9 DEF sessionOver
  <1>10. CASE closeServer(p)
    BY <1>10 DEF closeServer, unlink
  <1>11. CASE runReturns(p)
    BY <1>11 DEF runReturns
  <1> QED
    BY <1>1, <1>2, <1>3, <1>4, <1>5, <1>6, <1>7, <1>8, <1>9, <1>10, <1>11, Zenon DEF Run

\* The steps of a Listen keep the invariant: its run holds the lock.
LEMMA EndpointInvListen ==
    ASSUME EndpointInv, NEW p \in Runs, Listen(p) PROVE EndpointInv'
  <1> USE RunsAssumption DEF EndpointInv, EndpointTypes, Holding, Binding, Steps, Listeners
  <1>1. CASE listenStat(p)
    BY <1>1 DEF listenStat
  <1>2. CASE listenBind(p)
    BY <1>2 DEF listenBind
  <1>3. CASE listenListens(p)
    BY <1>3 DEF listenListens
  <1>4. CASE listenReady(p)
    BY <1>4 DEF listenReady, unlink
  <1>5. CASE closeSocket(p)
    BY <1>5 DEF closeSocket
  <1> QED
    BY <1>1, <1>2, <1>3, <1>4, <1>5, Zenon DEF Listen

\* The run that dies loses its lock and its listener together, at any step.
LEMMA EndpointInvExit ==
    ASSUME EndpointInv, NEW p \in Runs, Exit(p) PROVE EndpointInv'
  BY RunsAssumption DEF Exit, Go, EndpointInv, EndpointTypes, Holding, Binding, Steps, Listeners

\* Every step of the endpoint keeps the invariant.
LEMMA EndpointStep ==
    ASSUME LateListen = FALSE, EndpointInv, [EndpointNext]_endpointVars PROVE EndpointInv'
  <1>1. CASE Meddle
    BY <1>1, Zenon DEF Meddle, EndpointInv, EndpointTypes
  <1>2. CASE \E p \in Runs : Run(p) \/ Listen(p) \/ Exit(p)
    BY <1>2, EndpointInvRun, EndpointInvListen, EndpointInvExit, Zenon
  <1>3. CASE UNCHANGED endpointVars
    BY <1>3, Zenon DEF endpointVars, EndpointInv, EndpointTypes
  <1> QED BY <1>1, <1>2, <1>3, Zenon DEF EndpointNext

\* With no Listen left behind, any number of runs that start, are turned away,
\* serve, end and die around one endpoint leave the one that serves its lock and
\* its path (lockAndPrepareApprovalEndpoint, Server.Listen, Server.Close).
THEOREM EndpointHasOneServer ==
    ASSUME LateListen = FALSE PROVE EndpointSpec => []OneServer
  <1>1. EndpointInit => EndpointInv
    BY EndpointInvInit, Zenon
  <1>2. EndpointInv /\ [EndpointNext]_endpointVars => EndpointInv'
    BY EndpointStep, Zenon
  <1>3. EndpointInv => OneServer
    BY Zenon DEF EndpointInv, OneServer, Holding, Binding
  <1> QED
    BY <1>1, <1>2, <1>3, PTL DEF EndpointSpec

----------------------------------------------------------------------------
\* Both stages of runProduction, one after the other.

\* Before the second stage nobody listens; in it nothing of the first is left.
StagesInv ==
    /\ EndpointInv
    /\ stage # "endpoint" => AdmissionInv /\ \A p \in Runs : listener[p] = "none"
    /\ stage = "endpoint" => read = <<>>

LEMMA StagesInit == StartupInit => StagesInv
  <1> SUFFICES ASSUME StartupInit PROVE StagesInv
    OBVIOUS
  <1>1. EndpointInv /\ AdmissionInv
    BY EndpointInvInit, InitIInv, Zenon DEF StartupInit
  <1>2. \A p \in Runs : listener[p] = "none"
    BY Zenon DEF StartupInit, EndpointInit
  <1>3. stage = "pin"
    BY Zenon DEF StartupInit, AdmissionInit
  <1> QED BY <1>1, <1>2, <1>3, Zenon DEF StagesInv

LEMMA StagesStep ==
    ASSUME LateListen = FALSE, StagesInv, [StartupNext]_startupVars PROVE StagesInv'
  <1>1. CASE admission
    <2>1. AdmissionInv' /\ EndpointInv'
      BY <1>1, NextIInv, EndpointStep, Zenon DEF admission, StagesInv
    <2>2. stage' # "endpoint"
      BY <1>1, Zenon DEF admission, AdmissionNext, edit, pinnedProfileHash, comparePin, readProfile, checkID, evaluate,
                  checkBudget, Finished, admissionVars
    <2>3. \A p \in Runs : listener'[p] = "none"
      BY <1>1, Zenon DEF admission, StagesInv, endpointVars
    <2> QED BY <2>1, <2>2, <2>3, Zenon DEF StagesInv
  <1>2. CASE prepareEndpoint
    <2>1. stage = "admitted" /\ stage' = "endpoint" /\ read' = <<>> /\ UNCHANGED <<lock, step, listener, closed, meddled>>
      BY <1>2, Zenon DEF prepareEndpoint
    <2>2. EndpointInv'
      BY <2>1, Zenon DEF StagesInv, EndpointInv, EndpointTypes, Binding
    <2> QED BY <2>1, <2>2, Zenon DEF StagesInv
  <1>3. CASE endpoint
    <2>1. EndpointInv'
      BY <1>3, EndpointStep, Zenon DEF endpoint, StagesInv
    <2>2. stage' = "endpoint" /\ read' = <<>>
      BY <1>3, Zenon DEF endpoint, StagesInv, admissionVars
    <2> QED BY <2>1, <2>2, Zenon DEF StagesInv
  <1>4. CASE AllOver \/ UNCHANGED startupVars
    <2>1. UNCHANGED admissionVars /\ UNCHANGED endpointVars
      BY <1>4, Zenon DEF AllOver, startupVars
    <2>2. EndpointInv' /\ (AdmissionInv => AdmissionInv')
      BY <2>1, EndpointStep, NextIInv, Zenon DEF StagesInv
    <2>3. stage' = stage /\ read' = read /\ listener' = listener
      BY <2>1, Zenon DEF admissionVars, endpointVars
    <2> QED BY <2>2, <2>3, Zenon DEF StagesInv
  <1> QED BY <1>1, <1>2, <1>3, <1>4, Zenon DEF StartupNext

\* The two stages together, as runProduction takes them: the admission stays
\* sound and the run that serves keeps its endpoint.
THEOREM StartupIsSound ==
    ASSUME LateListen = FALSE PROVE StartupSpec => [](MergeIsSound /\ OneServer)
  <1>1. StagesInv => MergeIsSound /\ OneServer
    <2> SUFFICES ASSUME StagesInv PROVE MergeIsSound /\ OneServer
      BY Zenon
    <2>1. OneServer
      BY Zenon DEF StagesInv, EndpointInv, OneServer, Holding, Binding
    <2>2. CASE stage # "endpoint"
      BY <2>1, <2>2, SoundMerge, Zenon DEF StagesInv
    <2>3. CASE stage = "endpoint"
      BY <2>1, <2>3 DEF StagesInv, MergeIsSound, MergeOnlyNarrows, MergeIsExact
    <2> QED BY <2>2, <2>3, Zenon
  <1>2. StagesInv /\ [StartupNext]_startupVars => StagesInv'
    BY StagesStep, Zenon
  <1> QED BY <1>1, <1>2, StagesInit, PTL DEF StartupSpec
=============================================================================
