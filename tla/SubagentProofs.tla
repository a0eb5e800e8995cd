--------------------------- MODULE SubagentProofs ---------------------------
(***************************************************************************)
(* The handle of a subagent for any adapter output, any number of approval   *)
(* requests and of calls of Send: the answers it gives are due, what Wait    *)
(* returns is true, and messages are told in the order of the log.           *)
(***************************************************************************)
EXTENDS Subagent, TLAPS, FiniteSetTheorems

Commands ==
    [cmd : {"task"}] \cup [cmd : {"response"}, id : Ids, allow : BOOLEAN]
    \cup [cmd : {"stop"}, by : {"user", "policy"}] \cup [cmd : {"message"}, text : Texts]
Events ==
    [ev : {"spawn"}] \cup [ev : {"ready", "message", "request", "done"}, line : AllLines]
    \cup [ev : {"decision"}, id : Ids, allow : BOOLEAN] \cup [ev : {"user"}, text : Texts]
Requests == [pc : {"decide", "submit", "send", "fatal", "end"}, id : Ids, forced : BOOLEAN,
             decision : {"none", "allow", "deny", "breach"}]

\* The types of what the adapter, the log and the goroutines exchange, and what
\* the pump has in hand at each of its steps.
TypeOK ==
    /\ adapter \in {"run", "exited"} /\ exitOk \in BOOLEAN /\ (reaped => adapter = "exited")
    /\ out \in Seq(AllLines) /\ printed \in Nat /\ session \in Sessions
    /\ cmds \in Seq(Commands) /\ log \in Seq(Events)
    /\ req \in [Reqs -> {NoReq} \cup Requests] /\ pending \subseteq Ids /\ todo \subseteq Ids
    /\ send \in [Texts -> {"idle", "locked", "write", "sent", "failed", "refused"}]
    /\ cur \in AllLines \cup {NoLine}
    /\ pumpPc = "start" => cur.kind = "request"
    /\ pumpPc = "note" => cur.kind = "done"

----------------------------------------------------------------------------
\* How an Append changes a count.
LEMMA CountAppend ==
    ASSUME NEW S, NEW s \in Seq(S), NEW e \in S, NEW T
    PROVE  /\ Count(s, T) \in Nat
           /\ Count(Append(s, e), T) = Count(s, T) + (IF e \in T THEN 1 ELSE 0)
  <1> DEFINE I == {i \in DOMAIN s : s[i] \in T}
             J == {i \in DOMAIN Append(s, e) : Append(s, e)[i] \in T}
  <1>1. DOMAIN s = 1 .. Len(s) /\ Len(s) \in Nat
    OBVIOUS
  <1>2. IsFiniteSet(I)
    <2>1. IsFiniteSet(1 .. Len(s))
      BY <1>1, FS_Interval
    <2>2. I \subseteq 1 .. Len(s)
      BY <1>1, Zenon
    <2> QED BY <2>1, <2>2, FS_Subset, Zenon
  <1>3. J = I \cup (IF e \in T THEN {Len(s) + 1} ELSE {})
    BY <1>1
  <1>4. Len(s) + 1 \notin I
    BY <1>1
  <1>5. Cardinality(I) \in Nat
    BY <1>2, FS_CardinalityType, Zenon
  <1>6. Cardinality(J) = Cardinality(I) + (IF e \in T THEN 1 ELSE 0)
    <2>1. CASE e \in T
      BY <2>1, <1>2, <1>3, <1>4, FS_AddElement, Zenon
    <2>2. CASE e \notin T
      <3>1. J = I
        BY <2>2, <1>3, Zenon
      <3> HIDE DEF I, J
      <3> QED BY <2>2, <3>1, <1>5
    <2> QED BY <2>1, <2>2, Zenon
  <1> QED BY <1>5, <1>6, Zenon DEF Count

\* A set of at most one id, counted.
LEMMA CountOne ==
    ASSUME NEW id, NEW S
    PROVE  Cardinality({id} \cap S) = IF id \in S THEN 1 ELSE 0
  <1>1. CASE id \in S
    BY <1>1, FS_Singleton, {id} \cap S = {id}, Zenon
  <1>2. CASE id \notin S
    BY <1>2, FS_EmptySet, {id} \cap S = {}, Zenon
  <1> QED BY <1>1, <1>2, Zenon

----------------------------------------------------------------------------
\* Types.  The steps change few of them each.

\* What is written to the adapter is a command.
LEMMA WriteTypes ==
    ASSUME cmds \in Seq(Commands), NEW c \in Commands, Write(c)
    PROVE  cmds' \in Seq(Commands)
  BY DEF Write

LEMMA TypesInit == Init => TypeOK
  <1> SUFFICES ASSUME Init PROVE TypeOK
    BY Zenon
  <1>1. [cmd |-> "task"] \in Commands /\ [ev |-> "spawn"] \in Events
    BY Zenon DEF Commands, Events
  <1> QED
    BY <1>1 DEF Init, TypeOK

\* The pump takes a line, logs it and hands it on.
LEMMA TypesPump ==
    ASSUME TypeOK, Pump PROVE TypeOK'
  <1>1. CASE pumpLine
    <2> DEFINE l == Head(out)
    <2>1. l \in AllLines /\ out' \in Seq(AllLines)
      BY <1>1 DEF pumpLine, TypeOK
    <2>2. l.kind \in {"ready", "message", "bad", "done", "request"}
      BY <2>1, Zenon DEF AllLines
    <2> HIDE DEF l
    <2>3. l.kind # "bad" => [ev |-> l.kind, line |-> l] \in Events
      BY <2>1, <2>2, Zenon DEF Events
    <2>4. log' \in Seq(Events)
      <3>1. CASE log' = log
        BY <3>1, Zenon DEF TypeOK
      <3>2. CASE ~Violates(l) /\ log' = Append(log, [ev |-> l.kind, line |-> l])
        BY <3>2, <2>3 DEF TypeOK, Violates
      <3> QED BY <1>1, <3>1, <3>2, Zenon DEF pumpLine, l
    <2>5. /\ cur' \in AllLines \cup {NoLine}
          /\ pumpPc' = "start" => cur'.kind = "request"
          /\ pumpPc' = "note" => cur'.kind = "done"
      BY <1>1, <2>1, Zenon DEF pumpLine, TypeOK, l
    <2>6. adapter' \in {"run", "exited"} /\ exitOk' \in BOOLEAN /\ (reaped' => adapter' = "exited")
      BY <1>1, Zenon DEF pumpLine, TypeOK, Fail, Kill
    <2> QED
      BY <1>1, <2>1, <2>4, <2>5, <2>6, Zenon DEF pumpLine, TypeOK, coordVars, envVars
  <1>2. CASE pumpNoteDone
    BY <1>2, Zenon DEF pumpNoteDone, TypeOK, coordVars, envVars
  <1>3. CASE start
    <2>1. cur.id \in Ids /\ cur.forced \in BOOLEAN
      BY <1>3 DEF start, TypeOK, AllLines, NoLine
    <2>2. req' \in [Reqs -> {NoReq} \cup Requests]
      <3>1. CASE UNCHANGED req
        BY <3>1, Zenon DEF TypeOK
      <3>2. CASE \E r \in Reqs : req' = [req EXCEPT ![r] = [pc |-> "decide", id |-> cur.id,
                                             forced |-> cur.forced, decision |-> "none"]]
        <4>1. [pc |-> "decide", id |-> cur.id, forced |-> cur.forced, decision |-> "none"] \in Requests
          BY <2>1, Zenon DEF Requests
        <4> QED BY <3>2, <4>1, Zenon DEF TypeOK
      <3> QED BY <1>3, <3>1, <3>2, Zenon DEF start
    <2>3. pending' \subseteq Ids /\ todo' \subseteq Ids
      BY <1>3, <2>1, Zenon DEF start, TypeOK, beginTerminate, ToDeny, coordVars
    <2>4. adapter' \in {"run", "exited"} /\ exitOk' \in BOOLEAN /\ (reaped' => adapter' = "exited")
      BY <1>3, Zenon DEF start, TypeOK, Fail, Kill
    <2> QED
      BY <1>3, <2>2, <2>3, <2>4, Zenon DEF start, TypeOK, envVars
  <1>4. CASE startFails
    BY <1>4, Zenon DEF startFails, Fail, Kill, TypeOK, coordVars, envVars
  <1>5. CASE pumpFinish
    BY <1>5, Zenon DEF pumpFinish, TypeOK, coordVars, envVars
  <1> QED BY <1>1, <1>2, <1>3, <1>4, <1>5, Zenon DEF Pump

\* A goroutine that goes on has its request as before.
LEMMA StepTypes ==
    ASSUME NEW q \in Requests, NEW p \in {"decide", "submit", "send", "fatal", "end"}
    PROVE  [q EXCEPT !.pc = p] \in Requests
  BY Zenon DEF Requests

LEMMA LogTypes ==
    ASSUME log \in Seq(Events), NEW e \in Events, log' = Append(log, e) \/ UNCHANGED log
    PROVE  log' \in Seq(Events)
  OBVIOUS

\* A request's goroutine changes its own record and what it logs or writes.
LEMMA TypesResolve ==
    ASSUME TypeOK, NEW r \in Reqs, Resolve(r) PROVE TypeOK'
  <1>1. req[r].pc # "none" => req[r] \in Requests
    BY DEF TypeOK, NoReq
  <1>2. CASE decide(r)
    <2>1. req' \in [Reqs -> {NoReq} \cup Requests]
      BY <1>1, <1>2 DEF decide, TypeOK, Requests, Decisions
    <2> QED BY <1>2, <2>1, Zenon DEF decide, TypeOK, pumpVars, coordVars, envVars
  <1>3. CASE submitDecision(r)
    <2>0. req[r] \in Requests
      BY <1>1, <1>3, Zenon DEF submitDecision
    <2>1. req[r].id \in Ids /\ req' \in [Reqs -> {NoReq} \cup Requests]
      <3>1. req' = [req EXCEPT ![r] = [req[r] EXCEPT !.pc = "send"]] \/ req' = [req EXCEPT ![r] = [req[r] EXCEPT !.pc = "end"]]
        BY <1>3, Zenon DEF submitDecision
      <3>2. req' \in [Reqs -> {NoReq} \cup Requests]
        BY <2>0, <3>1, StepTypes, Zenon DEF TypeOK
      <3> QED BY <2>0, <3>2, Zenon DEF Requests
    <2>2. [ev |-> "decision", id |-> req[r].id, allow |-> Allowed(r)] \in Events
      BY <2>1, Zenon DEF Events, Allowed
    <2>3. log' \in Seq(Events)
      BY <1>3, <2>2, LogTypes, Zenon DEF submitDecision, TypeOK
    <2>4. pending' \subseteq Ids /\ todo' \subseteq Ids
      BY <1>3, Zenon DEF submitDecision, TypeOK, beginTerminate, ToDeny, coordVars
    <2> QED BY <1>3, <2>1, <2>3, <2>4, Zenon DEF submitDecision, TypeOK, pumpVars, envVars
  <1>4. CASE sendResponse(r)
    <2>0. req[r] \in Requests
      BY <1>1, <1>4, Zenon DEF sendResponse
    <2>1. req[r].id \in Ids /\ req' \in [Reqs -> {NoReq} \cup Requests]
      <3>1. \E p \in {"fatal", "end"} : req' = [req EXCEPT ![r] = [req[r] EXCEPT !.pc = p]]
        BY <1>4, Zenon DEF sendResponse
      <3>2. req' \in [Reqs -> {NoReq} \cup Requests]
        BY <2>0, <3>1, StepTypes, ZenonT(30) DEF TypeOK
      <3> QED BY <2>0, <3>2 DEF Requests
    <2>2. [cmd |-> "response", id |-> req[r].id, allow |-> Allowed(r)] \in Commands
      BY <2>1, Zenon DEF Commands, Allowed
    <2>3. cmds' \in Seq(Commands)
      BY <1>4, <2>2, WriteTypes, Zenon DEF sendResponse, TypeOK
    <2> QED BY <1>4, <2>1, <2>3, Zenon DEF sendResponse, TypeOK, pumpVars, envVars
  <1>5. CASE resolveFatal(r)
    <2>1. req' \in [Reqs -> {NoReq} \cup Requests]
      BY <1>1, <1>5, Zenon DEF resolveFatal, TypeOK, Requests
    <2>2. pending' \subseteq Ids /\ todo' \subseteq Ids
      BY <1>5, Zenon DEF resolveFatal, TypeOK, beginTerminate, ToDeny, coordVars
    <2> QED BY <1>5, <2>1, <2>2, Zenon DEF resolveFatal, TypeOK, pumpVars, envVars
  <1> QED BY <1>2, <1>3, <1>4, <1>5, Zenon DEF Resolve

\* terminate(), Send, Stop, the adapter and its surroundings.
LEMMA TypesRest ==
    ASSUME TypeOK,
           \/ AdapterPrints \/ AdapterExits \/ reap \/ Terminate \/ (\E t \in Texts : Send(t))
           \/ Stop \/ WaitCancelled \/ LogFails \/ Deadline \/ UNCHANGED vars
    PROVE  TypeOK'
  <1>1. CASE AdapterPrints
    <2>1. out' \in Seq(AllLines)
      BY <1>1, SessionsAssumption DEF AdapterPrints, TypeOK
    <2> QED BY <1>1, <2>1 DEF AdapterPrints, TypeOK, pumpVars, coordVars, envVars
  <1>2. CASE AdapterExits \/ reap \/ WaitCancelled \/ LogFails \/ Deadline
    <2>1. CASE AdapterExits
      BY <2>1, Zenon DEF AdapterExits, TypeOK, pumpVars, coordVars, envVars
    <2>2. CASE reap
      BY <2>2, Zenon DEF reap, TypeOK, pumpVars, coordVars, envVars
    <2>3. CASE WaitCancelled
      BY <2>3, Zenon DEF WaitCancelled, Kill, TypeOK, pumpVars, coordVars, envVars
    <2>4. CASE LogFails
      BY <2>4, Zenon DEF LogFails, TypeOK, pumpVars, coordVars
    <2>5. CASE Deadline
      BY <2>5, Zenon DEF Deadline, TypeOK, pumpVars, coordVars
    <2> QED BY <1>2, <2>1, <2>2, <2>3, <2>4, <2>5, Zenon
  <1>3. CASE denyNext
    <2>1. \A id \in Ids : [cmd |-> "response", id |-> id, allow |-> FALSE] \in Commands
      BY Zenon DEF Commands
    <2>2. cmds' \in Seq(Commands) /\ todo' \subseteq Ids
      BY <1>3, <2>1, WriteTypes, Zenon DEF denyNext, TypeOK
    <2> QED BY <1>3, <2>2, Zenon DEF denyNext, TypeOK, pumpVars, envVars
  <1>4. CASE policyStop
    <2>1. [cmd |-> "stop", by |-> "policy"] \in Commands
      BY Zenon DEF Commands
    <2>2. cmds' \in Seq(Commands)
      BY <1>4, <2>1, WriteTypes, Zenon DEF policyStop, TypeOK
    <2>3. adapter' \in {"run", "exited"} /\ exitOk' \in BOOLEAN /\ (reaped' => adapter' = "exited")
      BY <1>4, Zenon DEF policyStop, TypeOK, Kill
    <2> QED BY <1>4, <2>2, <2>3, Zenon DEF policyStop, TypeOK, pumpVars, envVars
  <1>5. CASE Stop
    <2>1. [cmd |-> "stop", by |-> "user"] \in Commands
      BY Zenon DEF Commands
    <2>2. cmds' \in Seq(Commands)
      BY <1>5, <2>1, WriteTypes, Zenon DEF Stop, TypeOK
    <2> QED BY <1>5, <2>2, Zenon DEF Stop, TypeOK, pumpVars, coordVars, envVars
  <1>6. CASE \E t \in Texts : Send(t)
    <2> PICK t \in Texts : Send(t)
      BY <1>6, Zenon
    <2>1. Tell(t) \in Commands /\ User(t) \in Events
      BY Zenon DEF Tell, User, Commands, Events
    <2>2. send' \in [Texts -> {"idle", "locked", "write", "sent", "failed", "refused"}]
      BY Zenon DEF Send, sendLock, sendSubmit, sendWrite, TypeOK
    <2>3. cmds' \in Seq(Commands)
      BY <2>1, WriteTypes, Zenon DEF Send, sendLock, sendSubmit, sendWrite, TypeOK
    <2>4. log' \in Seq(Events)
      BY <2>1, LogTypes, Zenon DEF Send, sendLock, sendSubmit, sendWrite, TypeOK
    <2>5. UNCHANGED <<adapter, exitOk, reaped, out, printed, stopRequested, req>>
          /\ UNCHANGED <<pumpVars, coordVars, envVars>>
      BY Zenon DEF Send, sendLock, sendSubmit, sendWrite
    <2> QED BY <2>2, <2>3, <2>4, <2>5, Zenon DEF TypeOK, pumpVars, coordVars, envVars
  <1>7. CASE UNCHANGED vars
    BY <1>7, Zenon DEF vars, TypeOK, pumpVars, coordVars, envVars
  <1> QED BY <1>1, <1>2, <1>3, <1>4, <1>5, <1>6, <1>7, Zenon DEF Terminate

LEMMA TypesNext ==
    ASSUME TypeOK, [Next]_vars PROVE TypeOK'
  BY TypesPump, TypesResolve, TypesRest, Zenon DEF Next

LEMMA Types == Spec => []TypeOK
  BY TypesInit, TypesNext, PTL DEF Spec

----------------------------------------------------------------------------
\* Answers.

Open == {"decide", "submit", "send"}

\* Beside AnsweredOnce: terminate() takes the pending set once and leaves none,
\* and a pending request has a goroutine that has not yet come to its send.
AnswerInv ==
    /\ terminated => pending = {} /\ fatal
    /\ ~terminated => todo = {} /\ termPc = "none"
    /\ \A id \in pending : \E r \in Reqs : req[r].pc \in Open /\ req[r].id = id
    /\ AnsweredOnce

LEMMA Counts ==
    ASSUME TypeOK, NEW id \in Ids
    PROVE  /\ Responses(id, BOOLEAN) \in Nat /\ Started(id) \in Nat
           /\ InFlight(id) = (IF id \in pending THEN 1 ELSE 0) + (IF id \in todo THEN 1 ELSE 0)
  <1>1. Responses(id, BOOLEAN) \in Nat
    <2>1. [cmd |-> "task"] \in Commands
      BY Zenon DEF Commands
    <2> QED BY <2>1, CountAppend DEF TypeOK, Responses
  <1>2. Started(id) \in Nat
    <2>1. {r \in Reqs : req[r] # NoReq /\ req[r].id = id} \subseteq Reqs
      BY Zenon
    <2>2. IsFiniteSet({r \in Reqs : req[r] # NoReq /\ req[r].id = id})
      BY <2>1, ReqsAssumption, FS_Subset, Zenon
    <2> QED BY <2>2, FS_CardinalityType, Zenon DEF Started
  <1>3. InFlight(id) = (IF id \in pending THEN 1 ELSE 0) + (IF id \in todo THEN 1 ELSE 0)
    BY CountOne, Zenon DEF InFlight
  <1> QED BY <1>1, <1>2, <1>3, Zenon

\* A write to a running adapter counts if it is such an answer.
LEMMA WriteCountsIn ==
    ASSUME TypeOK, NEW c \in Commands, Write(c), NEW id \in Ids, NEW A \in SUBSET BOOLEAN
    PROVE  /\ Responses(id, A) \in Nat
           /\ Responses(id, A)' = Responses(id, A)
                + (IF adapter = "run" /\ c.cmd = "response" /\ c.id = id /\ c.allow \in A THEN 1 ELSE 0)
  <1> DEFINE T == [cmd : {"response"}, id : {id}, allow : A]
  <1>1. c \in T <=> c.cmd = "response" /\ c.id = id /\ c.allow \in A
    BY Zenon DEF Commands
  <1> HIDE DEF T
  <1>2. Responses(id, A) = Count(cmds, T) /\ Responses(id, A)' = Count(cmds', T)
    BY Zenon DEF Responses, T, Count
  <1>3. cmds \in Seq(Commands)
    BY Zenon DEF TypeOK
  <1>4. Count(cmds, T) \in Nat /\ Count(Append(cmds, c), T) = Count(cmds, T) + (IF c \in T THEN 1 ELSE 0)
    BY <1>3, CountAppend
  <1>5. CASE adapter = "run"
    <2>1. cmds' = Append(cmds, c)
      BY <1>5, Zenon DEF Write
    <2> QED BY <1>1, <1>2, <1>4, <1>5, <2>1, Zenon
  <1>6. CASE adapter # "run"
    BY <1>2, <1>4, <1>6 DEF Write
  <1> QED BY <1>5, <1>6, Zenon

LEMMA WriteCounts ==
    ASSUME TypeOK, NEW c \in Commands, Write(c), NEW id \in Ids
    PROVE  Responses(id, BOOLEAN)' = Responses(id, BOOLEAN)
              + (IF adapter = "run" /\ c.cmd = "response" /\ c.id = id THEN 1 ELSE 0)
  <1>1. c.cmd = "response" => c.allow \in BOOLEAN
    BY Zenon DEF Commands
  <1> QED BY <1>1, WriteCountsIn

\* A goroutine that steps is still one for its request.
LEMMA StepCounts ==
    ASSUME TypeOK, NEW r \in Reqs, req[r] # NoReq, NEW q \in Requests, q.id = req[r].id,
           req' = [req EXCEPT ![r] = q], NEW id \in Ids
    PROVE  Started(id)' = Started(id)
  <1>1. q # NoReq
    BY DEF Requests, NoReq
  <1>2. {p \in Reqs : req'[p] # NoReq /\ req'[p].id = id} = {p \in Reqs : req[p] # NoReq /\ req[p].id = id}
    BY <1>1, Zenon DEF TypeOK
  <1> QED BY <1>2, Zenon DEF Started

\* One that is launched is one more.
LEMMA LaunchCounts ==
    ASSUME TypeOK, NEW r \in Reqs, req[r] = NoReq, NEW q \in Requests,
           req' = [req EXCEPT ![r] = q], NEW id \in Ids
    PROVE  Started(id)' = Started(id) + (IF q.id = id THEN 1 ELSE 0)
  <1> DEFINE S == {p \in Reqs : req[p] # NoReq /\ req[p].id = id}
             T == {p \in Reqs : req'[p] # NoReq /\ req'[p].id = id}
  <1>1. q # NoReq
    BY DEF Requests, NoReq
  <1>2. T = S \cup (IF q.id = id THEN {r} ELSE {}) /\ r \notin S
    BY <1>1, Zenon DEF TypeOK
  <1>3. IsFiniteSet(S) /\ Cardinality(S) \in Nat
    BY ReqsAssumption, FS_Subset, FS_CardinalityType, S \subseteq Reqs, Zenon
  <1> HIDE DEF S, T
  <1>4. CASE q.id = id
    <2>1. Cardinality(T) = Cardinality(S) + 1
      BY <1>2, <1>3, <1>4, FS_AddElement, Zenon
    <2> QED BY <2>1, <1>4, Zenon DEF Started, S, T
  <1>5. CASE q.id # id
    <2>1. T = S
      BY <1>2, <1>5, Zenon
    <2>2. Cardinality(T) = Cardinality(S) + 0
      BY <2>1, <1>3
    <2> QED BY <2>2, <1>5, Zenon DEF Started, S, T
  <1> QED BY <1>4, <1>5, Zenon

\* Steps that neither write, nor start a goroutine, nor touch the coordinator.
LEMMA AnswersQuiet ==
    ASSUME AnswerInv, UNCHANGED <<cmds, req, coordVars>>, adapter' = "run" => adapter = "run"
    PROVE  AnswerInv'
  BY Zenon DEF AnswerInv, AnsweredOnce, Responses, Started, InFlight, Count, coordVars

\* Writes that are no answers.
LEMMA AnswersWrite ==
    ASSUME TypeOK, AnswerInv, NEW c \in Commands, Write(c), c.cmd # "response",
           UNCHANGED <<req, pending, terminated, fatal, todo>>, adapter' = "run" => adapter = "run",
           termPc # "none" \/ UNCHANGED termPc
    PROVE  AnswerInv'
  <1>1. \A id \in Ids : Responses(id, BOOLEAN)' = Responses(id, BOOLEAN)
    BY WriteCounts, Counts
  <1>2. \A id \in Ids : Started(id)' = Started(id) /\ InFlight(id)' = InFlight(id)
    BY Zenon DEF Started, InFlight
  <1>3. AnsweredOnce'
    BY <1>1, <1>2, Zenon DEF AnswerInv, AnsweredOnce
  <1> QED BY <1>3, Zenon DEF AnswerInv

\* terminate() takes what is pending, except for the id that was responded to:
\* that one is pending again only if it is in use again.
LEMMA AnswersTerminate ==
    ASSUME TypeOK, AnswerInv, NEW id \in Ids, NEW responded \in BOOLEAN, beginTerminate(id, responded),
           \A i \in Ids : Started(i)' = Started(i),
           responded => \A r \in Reqs : req[r].pc \in Open /\ req[r].id = id => Started(id) # 1,
           terminated => \A i \in pending : \E r \in Reqs : req'[r].pc \in Open /\ req'[r].id = i,
           UNCHANGED <<cmds, adapter>>, TypeOK'
    PROVE  AnswerInv'
  <1>1. CASE terminated
    <2>1. UNCHANGED coordVars
      BY <1>1, Zenon DEF beginTerminate
    <2>2. AnsweredOnce'
      BY <2>1, SMTT(20) DEF AnswerInv, AnsweredOnce, Responses, Count, InFlight, coordVars
    <2> QED BY <1>1, <2>1, <2>2, Zenon DEF AnswerInv, coordVars
  <1>2. CASE ~terminated
    <2>1. /\ terminated' = TRUE /\ fatal' = TRUE /\ pending' = {}
          /\ todo' = (IF responded THEN pending \ {id} ELSE pending)
      BY <1>2, Zenon DEF beginTerminate, ToDeny
    <2>2. todo = {}
      BY <1>2, Zenon DEF AnswerInv
    <2>3. ASSUME NEW i \in Ids
          PROVE  /\ InFlight(i)' = IF i \in todo' THEN 1 ELSE 0
                 /\ InFlight(i) = IF i \in pending THEN 1 ELSE 0
                 /\ Responses(i, BOOLEAN)' = Responses(i, BOOLEAN) /\ Responses(i, BOOLEAN) \in Nat
                 /\ Started(i) \in Nat
      <3>1. InFlight(i)' = (IF i \in pending' THEN 1 ELSE 0) + (IF i \in todo' THEN 1 ELSE 0)
        BY CountOne, Zenon DEF InFlight
      <3>2. Responses(i, BOOLEAN)' = Responses(i, BOOLEAN)
        BY Zenon DEF Responses, Count
      <3> QED BY <2>1, <2>2, <3>1, <3>2, Counts
    <2>4. ASSUME NEW i \in Ids
          PROVE  LET n == Responses(i, BOOLEAN)' + InFlight(i)' IN
                 n <= Started(i)' /\ (adapter' = "run" /\ Started(i)' = 1 => n = 1)
      <3>1. /\ Responses(i, BOOLEAN) + InFlight(i) <= Started(i)
            /\ adapter = "run" /\ Started(i) = 1 => Responses(i, BOOLEAN) + InFlight(i) = 1
        BY Zenon DEF AnswerInv, AnsweredOnce
      <3>2. CASE i \in todo' <=> i \in pending
        BY <2>3, <3>1, <3>2, Zenon
      <3>3. CASE responded /\ i = id /\ i \in pending
        <4>1. Started(i) # 1
          BY <3>3, Zenon DEF AnswerInv
        <4> QED BY <2>1, <2>3, <3>1, <3>3, <4>1
      <3> QED BY <2>1, <3>2, <3>3, Zenon
    <2>5. AnsweredOnce'
      BY <2>4, Zenon DEF AnsweredOnce
    <2> QED BY <2>1, <2>5, Zenon DEF AnswerInv
  <1> QED BY <1>1, <1>2, Zenon

\* Two goroutines for one id are more than one.
LEMMA TwoStarted ==
    ASSUME NEW r \in Reqs, NEW p \in Reqs, r # p, req[r] # NoReq, req[p] # NoReq, req[r].id = req[p].id
    PROVE  Started(req[r].id) # 1
  <1> DEFINE S == {q \in Reqs : req[q] # NoReq /\ req[q].id = req[r].id}
  <1>1. IsFiniteSet(S)
    BY ReqsAssumption, FS_Subset, S \subseteq Reqs, Zenon
  <1>2. r \in S /\ p \in S
    BY Zenon
  <1> HIDE DEF S
  <1>3. Cardinality(S) # 1
    BY <1>1, <1>2, FS_Singleton
  <1> QED BY <1>3, Zenon DEF Started, S

\* start: the new request is due and its goroutine is there; a duplicate
\* terminates, with its own id still to deny.
LEMMA AnswersStart ==
    ASSUME TypeOK, AnswerInv, start, TypeOK' PROVE AnswerInv'
  <1>0. cur.id \in Ids /\ cur.forced \in BOOLEAN
    BY SMTT(20) DEF start, TypeOK, AllLines, NoLine
  <1>1. CASE terminated
    BY <1>1, AnswersQuiet, Zenon DEF start, Fail, Kill
  <1>2. CASE ~terminated /\ cur.id \in pending
    <2>1. beginTerminate(cur.id, FALSE) /\ UNCHANGED <<req, cmds, adapter>>
      BY <1>2, Zenon DEF start
    <2>2. \A i \in Ids : Started(i)' = Started(i)
      BY <2>1, Zenon DEF Started
    <2> QED BY <1>0, <1>2, <2>1, <2>2, AnswersTerminate, Zenon
  <1>3. CASE ~terminated /\ cur.id \notin pending
    <2> DEFINE q == [pc |-> "decide", id |-> cur.id, forced |-> cur.forced, decision |-> "none"]
    <2>1. PICK r \in Reqs : req[r] = NoReq /\ req' = [req EXCEPT ![r] = q]
      BY <1>3, Zenon DEF start
    <2>2. q \in Requests /\ q.id = cur.id /\ q.pc \in Open
      BY <1>0, Zenon DEF Requests, Open
    <2>3. /\ pending' = pending \cup {cur.id}
          /\ UNCHANGED <<terminated, fatal, todo, termPc, adapter, cmds>>
      BY <1>3, Zenon DEF start
    <2> HIDE DEF q
    <2>4. ASSUME NEW id \in pending' PROVE \E p \in Reqs : req'[p].pc \in Open /\ req'[p].id = id
      <3>1. CASE id = cur.id
        BY <2>1, <2>2, <3>1, Zenon DEF TypeOK
      <3>2. CASE id \in pending
        <4>1. PICK p \in Reqs : req[p].pc \in Open /\ req[p].id = id
          BY <3>2, Zenon DEF AnswerInv
        <4>2. p # r
          BY <2>1, <4>1 DEF NoReq, Open
        <4> QED BY <2>1, <4>1, <4>2, Zenon DEF TypeOK
      <3> QED BY <2>3, <3>1, <3>2, Zenon
    <2>5. ASSUME NEW i \in Ids
          PROVE  LET n == Responses(i, BOOLEAN)' + InFlight(i)' IN
                 n <= Started(i)' /\ (adapter' = "run" /\ Started(i)' = 1 => n = 1)
      <3>1. /\ Responses(i, BOOLEAN) + InFlight(i) <= Started(i)
            /\ adapter = "run" /\ Started(i) = 1 => Responses(i, BOOLEAN) + InFlight(i) = 1
        BY Zenon DEF AnswerInv, AnsweredOnce
      <3>2. Started(i)' = Started(i) + (IF cur.id = i THEN 1 ELSE 0)
        BY <2>1, <2>2, LaunchCounts, Zenon
      <3>3. Responses(i, BOOLEAN)' = Responses(i, BOOLEAN)
        BY <2>3, Zenon DEF Responses, Count
      <3>4. InFlight(i)' = (IF i \in pending' THEN 1 ELSE 0) + (IF i \in todo' THEN 1 ELSE 0)
        BY CountOne, Zenon DEF InFlight
      <3>5. InFlight(i)' = InFlight(i) + (IF cur.id = i THEN 1 ELSE 0)
        BY <1>3, <2>3, <3>4, Counts
      <3>6. Responses(i, BOOLEAN) \in Nat /\ Started(i) \in Nat /\ InFlight(i) \in Nat
        BY Counts
      <3> QED BY <2>3, <3>1, <3>2, <3>3, <3>5, <3>6
    <2>6. AnsweredOnce'
      BY <2>5, Zenon DEF AnsweredOnce
    <2> QED BY <1>3, <2>3, <2>4, <2>6, Zenon DEF AnswerInv
  <1> QED BY <1>1, <1>2, <1>3, Zenon

\* The goroutines: an answer that is written is no longer pending, and none is
\* withdrawn while the adapter runs.
LEMMA AnswersResolve ==
    ASSUME TypeOK, AnswerInv, NEW r \in Reqs, Resolve(r), TypeOK' PROVE AnswerInv'
  <1>1. req[r].pc # "none" => req[r] \in Requests /\ req[r] # NoReq /\ req[r].id \in Ids
    BY DEF TypeOK, NoReq, Requests
  <1>2. /\ req[r] \in Requests /\ req[r] # NoReq /\ req[r].id \in Ids
        /\ req'[r] \in Requests /\ req'[r].id = req[r].id /\ req' = [req EXCEPT ![r] = req'[r]]
    <2>1. req[r].pc # "none"
      BY Zenon DEF Resolve, decide, submitDecision, sendResponse, resolveFatal
    <2>2. \E q \in Requests : q.id = req[r].id /\ req' = [req EXCEPT ![r] = q]
      <3>1. ASSUME NEW p \in {"decide", "submit", "send", "fatal", "end"} PROVE [req[r] EXCEPT !.pc = p] \in Requests /\ [req[r] EXCEPT !.pc = p].id = req[r].id
        BY <1>1, <2>1, Zenon DEF Requests
      <3>2. CASE decide(r)
        <4>1. PICK d \in {"allow", "deny", "breach"} : req' = [req EXCEPT ![r] = [req[r] EXCEPT !.decision = d, !.pc = "submit"]]
          BY <3>2, Zenon DEF decide, Decisions
        <4>2. [req[r] EXCEPT !.decision = d, !.pc = "submit"] \in Requests /\ [req[r] EXCEPT !.decision = d, !.pc = "submit"].id = req[r].id
          BY <1>1, <2>1, Zenon DEF Requests
        <4> QED BY <4>1, <4>2, Zenon
      <3>3. CASE ~decide(r)
        <4>1. \E p \in {"send", "fatal", "end"} : req' = [req EXCEPT ![r] = [req[r] EXCEPT !.pc = p]]
          BY <3>3, Zenon DEF Resolve, submitDecision, sendResponse, resolveFatal
        <4> QED BY <3>1, <4>1, Zenon
      <3> QED BY <3>2, <3>3, Zenon
    <2> QED BY <1>1, <2>1, <2>2, Zenon DEF TypeOK
  <1>3. \A i \in Ids : Started(i)' = Started(i)
    BY <1>2, StepCounts, Zenon
  <1>4. \A p \in Reqs : p # r => req'[p] = req[p]
    BY <1>2, Zenon DEF TypeOK
  <1>5. CASE decide(r) \/ (submitDecision(r) /\ logUp)
    <2>1. req'[r].pc \in Open /\ UNCHANGED <<cmds, adapter, coordVars>>
      <3>1. CASE decide(r)
        BY <3>1, <1>2 DEF decide, Open, TypeOK, Requests
      <3>2. CASE submitDecision(r) /\ logUp
        BY <3>2, <1>2 DEF submitDecision, Open, TypeOK, Requests
      <3> QED BY <1>5, <3>1, <3>2, Zenon
    <2>2. AnsweredOnce'
      BY <1>3, <2>1, Zenon DEF AnswerInv, AnsweredOnce, Responses, Count, InFlight, coordVars
    <2>3. \A id \in pending' : \E p \in Reqs : req'[p].pc \in Open /\ req'[p].id = id
      BY <1>2, <1>4, <2>1 DEF AnswerInv, coordVars
    <2> QED BY <2>1, <2>2, <2>3, Zenon DEF AnswerInv, coordVars
  <1>6. CASE submitDecision(r) /\ ~logUp
    BY <1>2, <1>3, <1>6, AnswersTerminate, Zenon DEF submitDecision, AnswerInv
  <1>7. CASE resolveFatal(r)
    <2>1. \A p \in Reqs : req[p].pc \in Open /\ req[p].id = req[r].id => Started(req[r].id) # 1
      BY <1>2, <1>7, TwoStarted DEF resolveFatal, Open, NoReq
    <2> QED BY <1>2, <1>3, <1>7, <2>1, AnswersTerminate, Zenon DEF resolveFatal, AnswerInv
  <1>8. CASE sendResponse(r)
    <2> DEFINE a == req[r].id
               c == [cmd |-> "response", id |-> req[r].id, allow |-> Allowed(r)]
    <2>1. pending' = pending \ {a} /\ UNCHANGED <<terminated, fatal, todo, termPc, adapter>>
      BY <1>8, Zenon DEF sendResponse
    <2>2. \A id \in pending' : \E p \in Reqs : req'[p].pc \in Open /\ req'[p].id = id
      BY <1>4, <2>1, Zenon DEF AnswerInv
    <2>3. ASSUME NEW i \in Ids
          PROVE  LET n == Responses(i, BOOLEAN)' + InFlight(i)' IN
                 n <= Started(i)' /\ (adapter' = "run" /\ Started(i)' = 1 => n = 1)
      <3>1. /\ Responses(i, BOOLEAN) + InFlight(i) <= Started(i)
            /\ adapter = "run" /\ Started(i) = 1 => Responses(i, BOOLEAN) + InFlight(i) = 1
        BY Zenon DEF AnswerInv, AnsweredOnce
      <3>2. InFlight(i)' = (IF i \in pending' THEN 1 ELSE 0) + (IF i \in todo' THEN 1 ELSE 0)
        BY CountOne, Zenon DEF InFlight
      <3>3. /\ Responses(i, BOOLEAN) \in Nat /\ Started(i) \in Nat
            /\ InFlight(i) = (IF i \in pending THEN 1 ELSE 0) + (IF i \in todo THEN 1 ELSE 0)
        BY Counts, Zenon
      <3>4. CASE MayRespond(r)
        <4>1. Write(c) /\ adapter = "run" /\ a \in pending
          BY <1>8, <3>4, Zenon DEF sendResponse, MayRespond
        <4>2. c \in Commands /\ c.cmd = "response" /\ c.id = a
          BY <1>2, Zenon DEF Commands, Allowed
        <4> HIDE DEF c
        <4>3. Responses(i, BOOLEAN)' = Responses(i, BOOLEAN) + (IF a = i THEN 1 ELSE 0)
          BY <4>1, <4>2, WriteCounts, Zenon
        <4> QED BY <1>3, <2>1, <3>1, <3>2, <3>3, <4>1, <4>3
      <3>5. CASE ~MayRespond(r)
        <4>1. Responses(i, BOOLEAN)' = Responses(i, BOOLEAN)
          BY <1>8, <3>5, Zenon DEF sendResponse, Responses, Count
        <4>2. adapter # "run" \/ a \notin pending
          BY <3>5, Zenon DEF MayRespond, AnswerInv
        <4> QED BY <1>3, <2>1, <3>1, <3>2, <3>3, <4>1, <4>2
      <3> QED BY <3>4, <3>5, Zenon
    <2>4. AnsweredOnce'
      BY <2>3, Zenon DEF AnsweredOnce
    <2> QED BY <2>1, <2>2, <2>4, Zenon DEF AnswerInv
  <1> QED BY <1>5, <1>6, <1>7, <1>8, Zenon DEF Resolve

\* terminate(): what it denies was still due.
LEMMA AnswersDeny ==
    ASSUME TypeOK, AnswerInv, denyNext PROVE AnswerInv'
  <1>1. terminated /\ UNCHANGED <<terminated, fatal, pending, req, adapter>>
    BY Zenon DEF denyNext, AnswerInv
  <1>2. CASE todo = {} /\ UNCHANGED <<todo, cmds>>
    <2>1. AnsweredOnce'
      BY <1>1, <1>2, Zenon DEF AnswerInv, AnsweredOnce, Responses, Count, InFlight, Started
    <2> QED BY <1>1, <2>1, Zenon DEF AnswerInv
  <1>3. ASSUME NEW a \in todo, todo' = todo \ {a}, Write([cmd |-> "response", id |-> a, allow |-> FALSE])
        PROVE  AnswerInv'
    <2>1. ASSUME NEW i \in Ids
          PROVE  LET n == Responses(i, BOOLEAN)' + InFlight(i)' IN
                 n <= Started(i)' /\ (adapter' = "run" /\ Started(i)' = 1 => n = 1)
      <3>1. /\ Responses(i, BOOLEAN) + InFlight(i) <= Started(i)
            /\ adapter = "run" /\ Started(i) = 1 => Responses(i, BOOLEAN) + InFlight(i) = 1
        BY Zenon DEF AnswerInv, AnsweredOnce
      <3>2. InFlight(i)' = (IF i \in pending' THEN 1 ELSE 0) + (IF i \in todo' THEN 1 ELSE 0)
        BY CountOne, Zenon DEF InFlight
      <3>3. /\ Responses(i, BOOLEAN) \in Nat /\ Started(i) \in Nat
            /\ InFlight(i) = (IF i \in pending THEN 1 ELSE 0) + (IF i \in todo THEN 1 ELSE 0)
        BY Counts, Zenon
      <3>4. [cmd |-> "response", id |-> a, allow |-> FALSE] \in Commands
        BY Zenon DEF Commands, TypeOK
      <3>5. Responses(i, BOOLEAN)' = Responses(i, BOOLEAN) + (IF adapter = "run" /\ a = i THEN 1 ELSE 0)
        BY <1>3, <3>4, WriteCounts, Zenon
      <3>6. Started(i)' = Started(i)
        BY <1>1, Zenon DEF Started
      <3> QED BY <1>1, <1>3, <3>1, <3>2, <3>3, <3>5, <3>6, SMTT(20)
    <2>2. AnsweredOnce'
      BY <2>1, Zenon DEF AnsweredOnce
    <2> QED BY <1>1, <2>2, Zenon DEF AnswerInv
  <1> QED BY <1>2, <1>3, Zenon DEF denyNext

LEMMA AnswersNext ==
    ASSUME TypeOK, AnswerInv, [Next]_vars, TypeOK' PROVE AnswerInv'
  <1>1. CASE AdapterPrints \/ AdapterExits \/ reap \/ WaitCancelled \/ LogFails \/ Deadline \/ UNCHANGED vars
    BY <1>1, AnswersQuiet, Zenon DEF AdapterPrints, AdapterExits, reap, WaitCancelled, Kill, LogFails, Deadline, vars, coordVars
  <1>2. CASE pumpLine \/ pumpNoteDone \/ startFails \/ pumpFinish
    BY <1>2, AnswersQuiet, Zenon DEF pumpLine, pumpNoteDone, startFails, pumpFinish, Fail, Kill
  <1>3. CASE start
    BY <1>3, AnswersStart, Zenon
  <1>4. CASE \E r \in Reqs : Resolve(r)
    BY <1>4, AnswersResolve, Zenon
  <1>5. CASE denyNext
    BY <1>5, AnswersDeny, Zenon
  <1>6. CASE policyStop
    <2>1. [cmd |-> "stop", by |-> "policy"] \in Commands /\ [cmd |-> "stop", by |-> "policy"].cmd # "response"
      BY Zenon DEF Commands
    <2> QED BY <1>6, <2>1, AnswersWrite, Zenon DEF policyStop, Kill
  <1>7. CASE Stop
    <2>1. [cmd |-> "stop", by |-> "user"] \in Commands /\ [cmd |-> "stop", by |-> "user"].cmd # "response"
      BY Zenon DEF Commands
    <2> QED BY <1>7, <2>1, AnswersWrite, Zenon DEF Stop, coordVars
  <1>8. CASE \E t \in Texts : Send(t)
    <2> PICK t \in Texts : Send(t)
      BY <1>8, Zenon
    <2>1. CASE sendLock(t) \/ sendSubmit(t)
      BY <2>1, AnswersQuiet, Zenon DEF sendLock, sendSubmit
    <2>2. CASE sendWrite(t)
      <3>1. Tell(t) \in Commands /\ Tell(t).cmd # "response"
        BY Zenon DEF Commands, Tell
      <3> QED BY <2>2, <3>1, AnswersWrite, Zenon DEF sendWrite, coordVars
    <2> QED BY <2>1, <2>2, Zenon DEF Send
  <1> QED BY <1>1, <1>2, <1>3, <1>4, <1>5, <1>6, <1>7, <1>8, Zenon DEF Next, Pump, Terminate

----------------------------------------------------------------------------
\* Allowing answers.

Logged(id) == Count(log, [ev : {"decision"}, id : {id}, allow : {TRUE}])

\* The goroutines that have logged an allow and not yet told it.
Allowing(id) == {r \in Reqs : req[r].pc = "send" /\ req[r].id = id /\ Allowed(r)}

\* Every allow that was or may still be told has a record of its own.
AllowInv ==
    \A id \in Ids : Responses(id, {TRUE}) + Cardinality(Allowing(id)) <= Logged(id)

\* What is logged is only added to.
LEMMA LoggedGrows ==
    ASSUME TypeOK, NEW e \in Events, log' = Append(log, e) \/ UNCHANGED log, NEW id \in Ids
    PROVE  Logged(id) \in Nat /\ Logged(id)' \in Nat /\ Logged(id) <= Logged(id)'
  <1> DEFINE T == [ev : {"decision"}, id : {id}, allow : {TRUE}]
  <1> HIDE DEF T
  <1>1. Logged(id) = Count(log, T) /\ Logged(id)' = Count(log', T)
    BY Zenon DEF Logged, T, Count
  <1>2. Count(log, T) \in Nat /\ Count(Append(log, e), T) = Count(log, T) + (IF e \in T THEN 1 ELSE 0)
    BY CountAppend DEF TypeOK
  <1>3. CASE log' = Append(log, e)
    BY <1>1, <1>2, <1>3
  <1>4. CASE UNCHANGED log
    BY <1>1, <1>2, <1>4
  <1> QED BY <1>3, <1>4, Zenon

LEMMA AllowingCounts ==
    ASSUME NEW id \in Ids
    PROVE  IsFiniteSet(Allowing(id)) /\ Cardinality(Allowing(id)) \in Nat
  BY ReqsAssumption, FS_Subset, FS_CardinalityType, Allowing(id) \subseteq Reqs, Zenon DEF Allowing

\* Steps that tell no allow and make none ready to be told.
LEMMA AllowsKept ==
    ASSUME TypeOK, AllowInv, NEW e \in Events, log' = Append(log, e) \/ UNCHANGED log,
           NEW c \in Commands, Write(c) \/ UNCHANGED cmds, c.cmd = "response" => ~c.allow,
           \A r \in Reqs : req'[r].pc = "send" => req'[r] = req[r]
    PROVE  AllowInv'
  <1> SUFFICES ASSUME NEW id \in Ids
               PROVE  Responses(id, {TRUE})' + Cardinality(Allowing(id)') <= Logged(id)'
    BY Zenon DEF AllowInv
  <1>1. Responses(id, {TRUE}) \in Nat /\ Responses(id, {TRUE})' = Responses(id, {TRUE})
    <2>1. CASE Write(c)
      <3>1. c.cmd = "response" => c.allow \notin {TRUE}
        BY Zenon
      <3>2. {TRUE} \in SUBSET BOOLEAN
        BY Zenon
      <3> DEFINE A == {TRUE}
                 N == adapter = "run" /\ c.cmd = "response" /\ c.id = id /\ c.allow \in A
      <3>3. ~N
        BY <3>1, Zenon
      <3>4. A \in SUBSET BOOLEAN
        BY <3>2, Zenon
      <3> HIDE DEF A
      <3>5. Responses(id, A) \in Nat /\ Responses(id, A)' = Responses(id, A) + (IF N THEN 1 ELSE 0)
        BY <2>1, <3>4, WriteCountsIn
      <3> HIDE DEF N
      <3>6. Responses(id, A) \in Nat /\ Responses(id, A)' = Responses(id, A)
        BY <3>3, <3>5
      <3> QED BY <3>6, Zenon DEF A
    <2>2. CASE UNCHANGED cmds
      <3>1. Responses(id, {TRUE}) \in Nat
        BY CountAppend, SMTT(20) DEF TypeOK, Responses
      <3> QED BY <2>2, <3>1, Zenon DEF Responses, Count
    <2> QED BY <2>1, <2>2, Zenon
  <1>2. Allowing(id)' \subseteq Allowing(id)
    BY Zenon DEF Allowing, Allowed
  <1>3. Cardinality(Allowing(id)') <= Cardinality(Allowing(id)) /\ Cardinality(Allowing(id)') \in Nat
    BY <1>2, AllowingCounts, FS_Subset, FS_CardinalityType, Zenon
  <1>4. Responses(id, {TRUE}) + Cardinality(Allowing(id)) <= Logged(id)
    BY Zenon DEF AllowInv
  <1> QED BY <1>1, <1>3, <1>4, LoggedGrows, AllowingCounts, SMTT(20)

\* resolve(): an allow is told by the goroutine that has logged it, once.
LEMMA AllowsResolve ==
    ASSUME TypeOK, AllowInv, NEW r \in Reqs, Resolve(r) PROVE AllowInv'
  <1> DEFINE task == [cmd |-> "task"]
             spawn == [ev |-> "spawn"]
  <1>0. task \in Commands /\ task.cmd # "response" /\ spawn \in Events
    BY Zenon DEF Commands, Events
  <1> HIDE DEF task, spawn
  <1>1. req[r].pc # "none" => req[r] \in Requests /\ req[r].id \in Ids
    BY DEF TypeOK, NoReq, Requests
  <1>2. CASE decide(r)
    <2>1. UNCHANGED <<log, cmds>> /\ \A p \in Reqs : req'[p].pc = "send" => req'[p] = req[p]
      BY <1>1, <1>2 DEF decide, TypeOK, Requests
    <2> QED BY <1>0, <2>1, AllowsKept, Zenon
  <1>3. CASE resolveFatal(r)
    <2>1. UNCHANGED <<log, cmds>> /\ \A p \in Reqs : req'[p].pc = "send" => req'[p] = req[p]
      BY <1>1, <1>3, Zenon DEF resolveFatal, TypeOK, Requests
    <2> QED BY <1>0, <2>1, AllowsKept
  <1>4. CASE submitDecision(r) /\ ~logUp
    <2>1. UNCHANGED <<log, cmds>> /\ \A p \in Reqs : req'[p].pc = "send" => req'[p] = req[p]
      <3>1. req' = [req EXCEPT ![r] = [req[r] EXCEPT !.pc = "end"]] /\ UNCHANGED <<log, cmds>> /\ req[r] \in Requests
        BY <1>1, <1>4, Zenon DEF submitDecision
      <3>2. [req[r] EXCEPT !.pc = "end"].pc = "end"
        BY <3>1, Zenon DEF Requests
      <3> QED BY <3>1, <3>2, Zenon DEF TypeOK
    <2> QED BY <1>0, <2>1, AllowsKept
  <1>5. CASE submitDecision(r) /\ logUp
    <2> DEFINE e == [ev |-> "decision", id |-> req[r].id, allow |-> Allowed(r)]
    <2>1. /\ req[r].pc = "submit" /\ req[r] \in Requests /\ req[r].id \in Ids
          /\ log' = Append(log, e) /\ UNCHANGED cmds
      BY <1>1, <1>5, Zenon DEF submitDecision
    <2>2. e \in Events
      BY <2>1, Zenon DEF Events, Allowed
    <2>3. /\ \A p \in Reqs : p # r => req'[p] = req[p]
          /\ req'[r].pc = "send" /\ req'[r].id = req[r].id /\ (Allowed(r)' <=> Allowed(r))
      BY <1>5, <2>1 DEF submitDecision, TypeOK, Requests, Allowed
    <2> SUFFICES ASSUME NEW id \in Ids
                 PROVE  Responses(id, {TRUE})' + Cardinality(Allowing(id)') <= Logged(id)'
      BY Zenon DEF AllowInv
    <2>4. Responses(id, {TRUE}) \in Nat /\ Responses(id, {TRUE})' = Responses(id, {TRUE})
      <3>1. Responses(id, {TRUE}) \in Nat
        BY <1>0, CountAppend DEF TypeOK, Responses
      <3> QED BY <2>1, <3>1, Zenon DEF Responses, Count
    <2>5. Responses(id, {TRUE}) + Cardinality(Allowing(id)) <= Logged(id)
      BY Zenon DEF AllowInv
    <2>6. CASE id = req[r].id /\ Allowed(r)
      <3>1. Allowing(id)' = Allowing(id) \cup {r} /\ r \notin Allowing(id)
        BY <2>1, <2>3, <2>6, Zenon DEF Allowing, Allowed
      <3>2. Cardinality(Allowing(id)') = Cardinality(Allowing(id)) + 1
        BY <3>1, AllowingCounts, FS_AddElement, Zenon
      <3>3. Logged(id) \in Nat /\ Logged(id)' = Logged(id) + 1
        <4> DEFINE T == [ev : {"decision"}, id : {id}, allow : {TRUE}]
        <4>1. e \in T
          BY <2>6, Zenon DEF Allowed
        <4>2. Logged(id) = Count(log, T) /\ Logged(id)' = Count(log', T)
          BY Zenon DEF Logged, Count
        <4> HIDE DEF T, e
        <4>3. Count(log, T) \in Nat /\ Count(Append(log, e), T) = Count(log, T) + (IF e \in T THEN 1 ELSE 0)
          BY <2>2, CountAppend DEF TypeOK
        <4> QED BY <2>1, <4>1, <4>2, <4>3, Zenon
      <3> QED BY <2>4, <2>5, <3>2, <3>3, AllowingCounts
    <2>7. CASE ~(id = req[r].id /\ Allowed(r))
      <3>1. Allowing(id)' = Allowing(id)
        BY <2>1, <2>3, <2>7, Zenon DEF Allowing, Allowed
      <3>2. Logged(id) \in Nat /\ Logged(id)' \in Nat /\ Logged(id) <= Logged(id)'
        BY <2>1, <2>2, LoggedGrows, Zenon
      <3>3. Cardinality(Allowing(id)') = Cardinality(Allowing(id)) /\ Cardinality(Allowing(id)) \in Nat
        BY <3>1, AllowingCounts, Zenon
      <3> QED BY <2>4, <2>5, <3>2, <3>3
    <2> QED BY <2>6, <2>7, Zenon
  <1>6. CASE sendResponse(r)
    <2>1. req[r].pc = "send" /\ req[r] \in Requests /\ req[r].id \in Ids /\ UNCHANGED log
      BY <1>1, <1>6, Zenon DEF sendResponse
    <2>2. (\A p \in Reqs : p # r => req'[p] = req[p]) /\ req'[r].pc \in {"fatal", "end"}
      BY <1>6, <2>1 DEF sendResponse, TypeOK, Requests
    <2>3. \A p \in Reqs : req'[p].pc = "send" => req'[p] = req[p]
      BY <2>2, Zenon
    <2>4. CASE UNCHANGED cmds
      BY <1>0, <2>1, <2>3, <2>4, AllowsKept, Zenon
    <2> DEFINE c == [cmd |-> "response", id |-> req[r].id, allow |-> Allowed(r)]
    <2>5. c \in Commands /\ c.id = req[r].id /\ c.cmd = "response" /\ c.allow = Allowed(r)
      BY <2>1, Zenon DEF Commands, Allowed
    <2> HIDE DEF c
    <2>6. CASE Write(c) /\ ~Allowed(r)
      BY <1>0, <2>1, <2>3, <2>5, <2>6, AllowsKept, Zenon
    <2>7. CASE Write(c) /\ Allowed(r)
      <3> SUFFICES ASSUME NEW id \in Ids
                   PROVE  Responses(id, {TRUE})' + Cardinality(Allowing(id)') <= Logged(id)'
        BY DEF AllowInv
      <3> DEFINE A == {TRUE}
      <3>1. A \in SUBSET BOOLEAN /\ c.allow \in A
        BY <2>5, <2>7, Zenon DEF Allowed
      <3>2. Responses(id, A) + Cardinality(Allowing(id)) <= Logged(id) /\ Logged(id)' = Logged(id)
        BY <2>1, Zenon DEF AllowInv, Logged, Count
      <3>3. Logged(id) \in Nat
        BY <1>0, <2>1, LoggedGrows, Zenon
      <3> HIDE DEF A
      <3>4. /\ Responses(id, A) \in Nat
            /\ Responses(id, A)' = Responses(id, A) + (IF adapter = "run" /\ id = req[r].id THEN 1 ELSE 0)
        <4> DEFINE N == adapter = "run" /\ c.cmd = "response" /\ c.id = id /\ c.allow \in A
        <4>1. N <=> adapter = "run" /\ id = req[r].id
          BY <2>5, <3>1, Zenon
        <4>2. Responses(id, A) \in Nat /\ Responses(id, A)' = Responses(id, A) + (IF N THEN 1 ELSE 0)
          <5>1. c \in Commands /\ Write(c) /\ A \in SUBSET BOOLEAN
            BY <2>5, <2>7, <3>1, Zenon
          <5> QED BY <5>1, WriteCountsIn
        <4> HIDE DEF N
        <4> QED BY <4>1, <4>2, Zenon
      <3>5. Allowing(id)' = Allowing(id) \ {r} /\ (id = req[r].id => r \in Allowing(id))
        BY <2>1, <2>2, <2>7, Zenon DEF Allowing, Allowed
      <3>6. Cardinality(Allowing(id)') = Cardinality(Allowing(id)) - (IF r \in Allowing(id) THEN 1 ELSE 0)
        <4>1. Cardinality(Allowing(id) \ {r}) =
                 IF r \in Allowing(id) THEN Cardinality(Allowing(id)) - 1 ELSE Cardinality(Allowing(id))
          BY AllowingCounts, FS_RemoveElement, Zenon
        <4> QED BY <3>5, <4>1, AllowingCounts
      <3>7. Responses(id, A)' + Cardinality(Allowing(id)') <= Logged(id)'
        BY <3>2, <3>3, <3>4, <3>5, <3>6, AllowingCounts
      <3> QED BY <3>7, Zenon DEF A
    <2> QED BY <1>6, <2>4, <2>6, <2>7, Zenon DEF sendResponse, c
  <1> QED BY <1>2, <1>3, <1>4, <1>5, <1>6, Zenon DEF Resolve

LEMMA AllowsNext ==
    ASSUME TypeOK, AllowInv, [Next]_vars, TypeOK' PROVE AllowInv'
  <1> DEFINE task == [cmd |-> "task"]
             spawn == [ev |-> "spawn"]
  <1>0. task \in Commands /\ task.cmd # "response" /\ spawn \in Events
    BY Zenon DEF Commands, Events
  <1> HIDE DEF task, spawn
  <1>1. CASE UNCHANGED <<log, cmds, req>>
    BY <1>0, <1>1, AllowsKept, Zenon
  <1>2. CASE pumpLine
    <2>1. PICK e : (log' = Append(log, e) \/ UNCHANGED log) /\ (UNCHANGED log => e = spawn)
      <3>1. CASE UNCHANGED log
        BY <3>1, Zenon
      <3>2. CASE ~UNCHANGED log
        BY <1>2, <3>2, Zenon DEF pumpLine
      <3> QED BY <3>1, <3>2, Zenon
    <2>2. e \in Events
      <3>1. CASE UNCHANGED log
        BY <1>0, <2>1, <3>1, Zenon
      <3>2. CASE log' = Append(log, e)
        <4>1. Len(log') = Len(log) + 1 /\ log'[Len(log) + 1] = e /\ Len(log) \in Nat
          BY <3>2 DEF TypeOK
        <4> QED BY <4>1 DEF TypeOK
      <3> QED BY <2>1, <3>1, <3>2, Zenon
    <2> QED BY <1>0, <1>2, <2>1, <2>2, AllowsKept, Zenon DEF pumpLine
  <1>3. CASE start
    <2>1. UNCHANGED <<log, cmds>> /\ \A p \in Reqs : req'[p].pc = "send" => req'[p] = req[p]
      <3>1. CASE UNCHANGED req
        BY <1>3, <3>1, Zenon DEF start
      <3>2. CASE \E r \in Reqs : req' = [req EXCEPT ![r] = [pc |-> "decide", id |-> cur.id,
                                             forced |-> cur.forced, decision |-> "none"]]
        <4>1. UNCHANGED <<log, cmds>>
          BY <1>3, Zenon DEF start
        <4>2. ASSUME NEW p \in Reqs, req'[p].pc = "send" PROVE req'[p] = req[p]
          <5>1. req \in [Reqs -> {NoReq} \cup Requests]
            BY Zenon DEF TypeOK
          <5>2. PICK r \in Reqs : req' = [req EXCEPT ![r] = [pc |-> "decide", id |-> cur.id,
                                                   forced |-> cur.forced, decision |-> "none"]]
            BY <3>2, Zenon
          <5> QED BY <4>2, <5>1, <5>2, Zenon
        <4> QED BY <4>1, <4>2, Zenon
      <3> QED BY <1>3, <3>1, <3>2, Zenon DEF start
    <2> QED BY <1>0, <2>1, AllowsKept, Zenon
  <1>4. CASE \E r \in Reqs : Resolve(r)
    BY <1>4, AllowsResolve, Zenon
  <1>5. CASE denyNext
    <2>1. CASE UNCHANGED cmds
      BY <1>0, <1>5, <2>1, AllowsKept, Zenon DEF denyNext
    <2>2. ASSUME NEW id \in todo, Write([cmd |-> "response", id |-> id, allow |-> FALSE]) PROVE AllowInv'
      <3> DEFINE c == [cmd |-> "response", id |-> id, allow |-> FALSE]
      <3>1. c \in Commands /\ ~c.allow
        BY Zenon DEF Commands, TypeOK
      <3>2. Write(c) /\ UNCHANGED <<log, req>>
        BY <1>5, <2>2, Zenon DEF denyNext
      <3> HIDE DEF c
      <3> QED BY <1>0, <3>1, <3>2, AllowsKept, Zenon
    <2> QED BY <1>5, <2>1, <2>2, Zenon DEF denyNext
  <1>6. CASE \E c \in Commands : Write(c) /\ c.cmd # "response" /\ UNCHANGED <<log, req>>
    BY <1>0, <1>6, AllowsKept, Zenon
  <1>7. CASE \E t \in Texts : sendSubmit(t)
    <2> PICK t \in Texts : sendSubmit(t)
      BY <1>7
    <2>1. User(t) \in Events
      BY Zenon DEF User, Events
    <2> QED BY <1>0, <2>1, AllowsKept, Zenon DEF sendSubmit
  <1>8. policyStop \/ Stop => \E c \in Commands : Write(c) /\ c.cmd # "response" /\ UNCHANGED <<log, req>>
    BY Zenon DEF policyStop, Stop, Commands
  <1>9. ASSUME NEW t \in Texts, sendWrite(t)
        PROVE  \E c \in Commands : Write(c) /\ c.cmd # "response" /\ UNCHANGED <<log, req>>
    <2>1. Tell(t) \in Commands /\ Tell(t).cmd # "response"
      BY Zenon DEF Commands, Tell
    <2> QED BY <1>9, <2>1, Zenon DEF sendWrite
  <1>10. CASE AdapterPrints \/ AdapterExits \/ reap \/ WaitCancelled \/ LogFails \/ Deadline \/ UNCHANGED vars
    BY <1>1, <1>10, Zenon DEF AdapterPrints, AdapterExits, reap, WaitCancelled, LogFails, Deadline, vars
  <1>11. CASE pumpNoteDone \/ startFails \/ pumpFinish \/ (\E t \in Texts : sendLock(t))
    BY <1>1, <1>11, Zenon DEF pumpNoteDone, startFails, pumpFinish, sendLock
  <1> QED BY <1>2, <1>3, <1>4, <1>5, <1>6, <1>7, <1>8, <1>9, <1>10, <1>11, Zenon DEF Next, Pump, Terminate, Send

\* The start: nothing asked, nothing told.
LEMMA AnswersInit == Init => AnswerInv /\ AllowInv
  <1> SUFFICES ASSUME Init PROVE AnswerInv /\ AllowInv
    BY Zenon
  <1>1. TypeOK
    BY TypesInit, Zenon
  <1>2. ASSUME NEW id \in Ids
        PROVE  Responses(id, BOOLEAN) = 0 /\ Responses(id, {TRUE}) = 0 /\ Started(id) = 0 /\ InFlight(id) = 0
               /\ Cardinality(Allowing(id)) = 0 /\ Logged(id) \in Nat
    <2>1. \A A : {i \in DOMAIN cmds : cmds[i] \in [cmd : {"response"}, id : {id}, allow : A]} = {}
      <3>1. DOMAIN cmds = {1} /\ cmds[1] = [cmd |-> "task"]
        BY DEF Init
      <3>2. \A A : [cmd |-> "task"] \notin [cmd : {"response"}, id : {id}, allow : A]
        BY Zenon
      <3> QED BY <3>1, <3>2, Zenon
    <2>2. {r \in Reqs : req[r] # NoReq /\ req[r].id = id} = {} /\ Allowing(id) = {}
      BY Zenon DEF Init, Allowing, NoReq
    <2>3. {id} \cap pending = {} /\ {id} \cap todo = {}
      BY Zenon DEF Init
    <2>4. Logged(id) \in Nat
      <3>1. [ev |-> "spawn"] \in Events
        BY Zenon DEF Events
      <3> QED BY <1>1, <3>1, CountAppend DEF Logged, TypeOK
    <2>5. Cardinality({}) = 0
      BY FS_EmptySet, Zenon
    <2>6. Responses(id, BOOLEAN) = 0 /\ Responses(id, {TRUE}) = 0
      BY <2>1, <2>5, Zenon DEF Responses, Count
    <2>7. Started(id) = 0 /\ Cardinality(Allowing(id)) = 0
      BY <2>2, <2>5, Zenon DEF Started
    <2>8. InFlight(id) = 0
      BY <2>3, <2>5 DEF InFlight
    <2> QED BY <2>4, <2>6, <2>7, <2>8, Zenon
  <1>3. AnsweredOnce /\ AllowInv
    BY <1>2 DEF AnsweredOnce, AllowInv
  <1> QED BY <1>3, Zenon DEF Init, AnswerInv

\* AnswersAreDue for every adapter, decider and log: every answer the adapter gets
\* is due, each to one request, an allow only after its own decision is in the
\* log, and while the adapter lives no request is dropped (approval.go's resolve,
\* send and terminate).
THEOREM AnswersAlwaysDue == Spec => []AnswersAreDue
  <1> DEFINE Inv == TypeOK /\ AnswerInv /\ AllowInv
  <1>1. Init => Inv
    BY TypesInit, AnswersInit, Zenon
  <1>2. Inv /\ [Next]_vars => Inv'
    BY TypesNext, AnswersNext, AllowsNext, Zenon
  <1>3. Inv => AnswersAreDue
    <2> SUFFICES ASSUME Inv, NEW id \in Ids PROVE Responses(id, {TRUE}) <= Logged(id)
      BY Zenon DEF AnswersAreDue, AllowIsLogged, AnswerInv, Logged
    <2>1. Responses(id, {TRUE}) \in Nat /\ Logged(id) \in Nat
      <3>1. [ev |-> "spawn"] \in Events /\ [cmd |-> "task"] \in Commands
        BY Zenon DEF Events, Commands
      <3>2. log \in Seq(Events) /\ cmds \in Seq(Commands)
        BY Zenon DEF TypeOK
      <3>3. \A T : Count(log, T) \in Nat
        BY <3>1, <3>2, CountAppend
      <3>4. \A T : Count(cmds, T) \in Nat
        BY <3>1, <3>2, CountAppend
      <3> QED BY <3>3, <3>4, Zenon DEF Logged, Responses
    <2> QED BY <2>1, AllowingCounts DEF AllowInv
  <1> QED
    BY <1>1, <1>2, <1>3, PTL DEF Spec

----------------------------------------------------------------------------
\* What Wait returns.

PolicyStop == [cmd |-> "stop", by |-> "policy"]
Stopped == \E i \in DOMAIN cmds : cmds[i] = PolicyStop
DoneLogged(status) == \E i \in DOMAIN log : log[i].ev = "done" /\ log[i].line.status = status

\* Beside ResultIsTrue: the pump ends after the adapter, a policy stop is the mark
\* of a termination, and done is set to what the log holds.
ResultInv ==
    /\ pumpPc = "finished" => adapter = "exited"
    /\ Stopped => fatal
    /\ pumpPc = "note" => DoneLogged(cur.status)
    /\ done # "none" => DoneLogged(done)
    /\ ResultIsTrue

\* The log and the pipe to the adapter are only added to.
LEMMA LogKeeps ==
    ASSUME TypeOK, [Next]_vars PROVE \A i \in DOMAIN log : i \in DOMAIN log' /\ log'[i] = log[i]
  <1>1. CASE UNCHANGED log
    BY <1>1, Zenon
  <1>2. CASE \E e : log' = Append(log, e)
    BY <1>2, SMTT(20) DEF TypeOK
  <1>3. (\E r \in Reqs : Resolve(r)) => UNCHANGED log \/ \E e : log' = Append(log, e)
    BY Zenon DEF Resolve, decide, submitDecision, sendResponse, resolveFatal
  <1>4. Pump => UNCHANGED log \/ \E e : log' = Append(log, e)
    BY Zenon DEF Pump, pumpLine, pumpNoteDone, start, startFails, pumpFinish
  <1>5. (\E t \in Texts : Send(t)) => UNCHANGED log \/ \E e : log' = Append(log, e)
    BY Zenon DEF Send, sendLock, sendSubmit, sendWrite
  <1> QED
    BY <1>1, <1>2, <1>3, <1>4, <1>5, Zenon DEF Next, AdapterPrints, AdapterExits, reap, Terminate, denyNext, policyStop, Stop, WaitCancelled,
           LogFails, Deadline, vars

\* Only a termination in progress writes a policy stop, and only to an adapter
\* that runs.
LEMMA StopIsFatal ==
    ASSUME TypeOK, AnswerInv, [Next]_vars, Stopped'
    PROVE  Stopped \/ (fatal' /\ adapter = "run")
  <1>1. ASSUME NEW c, cmds' = Append(cmds, c), c # PolicyStop PROVE Stopped
    BY <1>1, SMTT(20) DEF Stopped, TypeOK
  <1>2. ASSUME NEW c, Write(c), c # PolicyStop PROVE Stopped
    BY <1>1, <1>2, Zenon DEF Write, Stopped
  <1>3. CASE UNCHANGED cmds
    BY <1>3, Zenon DEF Stopped
  <1>4. CASE policyStop
    <2>1. fatal' /\ (adapter = "run" \/ UNCHANGED cmds)
      BY <1>4, Zenon DEF policyStop, AnswerInv, Write
    <2> QED BY <1>3, <2>1, Zenon
  <1>5. CASE denyNext
    <2>1. \A id : [cmd |-> "response", id |-> id, allow |-> FALSE] # PolicyStop
      BY Zenon DEF PolicyStop
    <2> QED BY <1>2, <1>3, <1>5, <2>1, Zenon DEF denyNext
  <1>6. CASE Stop
    <2>1. [cmd |-> "stop", by |-> "user"] # PolicyStop
      BY Zenon DEF PolicyStop
    <2> QED BY <1>2, <1>6, <2>1, Zenon DEF Stop
  <1>7. CASE \E t \in Texts : Send(t)
    <2>1. \A t \in Texts : Tell(t) # PolicyStop
      BY Zenon DEF PolicyStop, Tell
    <2> QED BY <1>2, <1>3, <1>7, <2>1, Zenon DEF Send, sendLock, sendSubmit, sendWrite
  <1>8. CASE \E r \in Reqs : Resolve(r)
    <2>1. \A id, a : [cmd |-> "response", id |-> id, allow |-> a] # PolicyStop
      BY Zenon DEF PolicyStop
    <2> QED BY <1>2, <1>3, <1>8, <2>1, Zenon DEF Resolve, decide, submitDecision, sendResponse, resolveFatal
  <1>9. CASE Pump
    BY <1>3, <1>9, Zenon DEF Pump, pumpLine, pumpNoteDone, start, startFails, pumpFinish
  <1> QED
    BY <1>3, <1>4, <1>5, <1>6, <1>7, <1>8, <1>9, Zenon DEF Next, AdapterPrints, AdapterExits, reap, Terminate, WaitCancelled, LogFails, Deadline, vars

\* An exit and its status, and a fatal error, are for good.
LEMMA Stable ==
    ASSUME TypeOK, [Next]_vars
    PROVE  (fatal => fatal') /\ (adapter = "exited" => adapter' = "exited" /\ exitOk' = exitOk)
  <1>0. Kill => adapter' = "exited" /\ (adapter = "exited" => exitOk' = exitOk)
    BY Zenon DEF Kill
  <1>1. CASE Pump
    <2>1. CASE pumpLine
      BY <1>0, <2>1, Zenon DEF pumpLine, Fail, coordVars
    <2>2. CASE start
      <3>1. UNCHANGED <<adapter, exitOk>> \/ Kill
        BY <2>2, Zenon DEF start, Fail
      <3>2. UNCHANGED fatal \/ fatal'
        BY <2>2, Zenon DEF start, beginTerminate, coordVars
      <3> QED BY <1>0, <3>1, <3>2
    <2>3. CASE pumpNoteDone \/ startFails \/ pumpFinish
      BY <1>0, <2>3 DEF pumpNoteDone, startFails, pumpFinish, Fail, coordVars
    <2> QED BY <1>1, <2>1, <2>2, <2>3, Zenon DEF Pump
  <1>2. CASE \E r \in Reqs : Resolve(r)
    BY <1>2, Zenon DEF Resolve, decide, submitDecision, sendResponse, resolveFatal, beginTerminate, coordVars
  <1>3. CASE \E t \in Texts : Send(t)
    BY <1>3, SMTT(20) DEF Send, sendLock, sendSubmit, sendWrite, coordVars
  <1>4. CASE Terminate \/ Stop \/ WaitCancelled \/ AdapterExits
    <2>1. CASE denyNext
      BY <2>1, Zenon DEF denyNext
    <2>2. CASE policyStop
      BY <1>0, <2>2, Zenon DEF policyStop
    <2>3. CASE Stop \/ WaitCancelled \/ AdapterExits
      BY <1>0, <2>3, SMTT(20) DEF Stop, WaitCancelled, AdapterExits, coordVars
    <2> QED BY <1>4, <2>1, <2>2, <2>3, Zenon DEF Terminate
  <1>5. CASE AdapterPrints \/ reap \/ LogFails \/ Deadline \/ UNCHANGED vars
    BY <1>5, SMTT(20) DEF AdapterPrints, reap, LogFails, Deadline, vars, coordVars
  <1> QED BY <1>1, <1>2, <1>3, <1>4, <1>5, Zenon DEF Next

\* The pump's steps, and everybody else's, which leave its variables alone.
LEMMA ResultNext ==
    ASSUME TypeOK, AnswerInv, ResultInv, [Next]_vars PROVE ResultInv'
  <1>1. /\ fatal => fatal'
        /\ adapter = "exited" => adapter' = "exited" /\ exitOk' = exitOk
    BY Stable, Zenon
  <1>2. \A status : DoneLogged(status) => DoneLogged(status)'
    BY LogKeeps, Zenon DEF DoneLogged
  <1>3. Stopped' => fatal'
    BY <1>1, StopIsFatal, Zenon DEF ResultInv
  <1>4. adapter = "exited" /\ Stopped' => Stopped
    BY StopIsFatal, Zenon
  <1>5. CASE UNCHANGED pumpVars
    <2>1. pumpPc' = "finished" => adapter' = "exited"
      BY <1>1, <1>5, Zenon DEF ResultInv, pumpVars
    <2>2. (pumpPc' = "note" => DoneLogged(cur.status)') /\ (done' # "none" => DoneLogged(done)')
      BY <1>2, <1>5, Zenon DEF ResultInv, pumpVars, DoneLogged
    <2>3. ResultIsTrue'
      <3> SUFFICES ASSUME pumpPc' = "finished", result' = "ok"
                   PROVE  exitOk' /\ ~handlerErr' /\ DoneLogged("ok")' /\ ~Stopped'
        BY Zenon DEF ResultIsTrue, DoneLogged, Stopped, PolicyStop
      <3>1. pumpPc = "finished" /\ result = "ok" /\ handlerErr' = handlerErr /\ adapter = "exited"
        BY <1>5, Zenon DEF pumpVars, ResultInv
      <3>2. exitOk /\ ~handlerErr /\ DoneLogged("ok") /\ ~Stopped
        BY <3>1, Zenon DEF ResultInv, ResultIsTrue, DoneLogged, Stopped, PolicyStop
      <3> QED BY <1>1, <1>2, <1>4, <3>1, <3>2, Zenon
    <2> QED BY <1>3, <2>1, <2>2, <2>3, Zenon DEF ResultInv
  <1>6. CASE pumpLine
    <2>1. pumpPc' # "finished" /\ done' = done
      BY <1>6, Zenon DEF pumpLine
    <2>2. pumpPc' = "note" => DoneLogged(cur.status)'
      <3> SUFFICES ASSUME pumpPc' = "note" PROVE DoneLogged(cur.status)'
        BY Zenon
      <3>1. cur' = Head(out) /\ cur'.kind = "done" /\ log' = Append(log, [ev |-> "done", line |-> cur'])
        BY <1>6, Zenon DEF pumpLine
      <3>2. Len(log) \in Nat /\ Len(log) + 1 \in DOMAIN log' /\ log'[Len(log) + 1] = [ev |-> "done", line |-> cur']
        BY <3>1, SMTT(20) DEF TypeOK
      <3> QED BY <3>2, SMTT(20) DEF DoneLogged
    <2>3. done' # "none" => DoneLogged(done)'
      BY <1>2, <2>1, Zenon DEF ResultInv, DoneLogged
    <2> QED BY <1>3, <2>1, <2>2, <2>3, Zenon DEF ResultInv, ResultIsTrue
  <1>7. CASE pumpNoteDone
    <2>1. pumpPc = "note" /\ pumpPc' = "read" /\ done' = cur.status
      BY <1>7, Zenon DEF pumpNoteDone
    <2>2. DoneLogged(done)'
      BY <1>2, <2>1, Zenon DEF ResultInv, DoneLogged
    <2> QED BY <1>3, <2>1, <2>2, Zenon DEF ResultInv, ResultIsTrue
  <1>8. CASE start \/ startFails
    <2>1. pumpPc' \in {"read", "term"} /\ done' = done
      BY <1>8, Zenon DEF start, startFails
    <2>2. done' # "none" => DoneLogged(done)'
      BY <1>2, <2>1, Zenon DEF ResultInv, DoneLogged
    <2> QED BY <1>3, <2>1, <2>2, Zenon DEF ResultInv, ResultIsTrue
  <1>9. CASE pumpFinish
    <2>1. /\ reaped /\ adapter = "exited" /\ pumpPc' = "finished" /\ result' = Outcome
          /\ UNCHANGED <<adapter, exitOk, handlerErr, done, fatal, cmds, log>>
      BY <1>9, Zenon DEF pumpFinish, TypeOK, coordVars
    <2>2. result' = "ok" => exitOk /\ ~handlerErr /\ done = "ok" /\ ~fatal
      BY <2>1, Zenon DEF Outcome
    <2>3. result' = "ok" => exitOk' /\ ~handlerErr' /\ DoneLogged("ok")' /\ ~Stopped'
      BY <1>2, <1>3, <2>1, <2>2, Zenon DEF ResultInv
    <2>4. ResultIsTrue'
      BY <2>3, Zenon DEF ResultIsTrue, DoneLogged, Stopped, PolicyStop
    <2>5. done' # "none" => DoneLogged(done)'
      BY <1>2, <2>1, Zenon DEF ResultInv, DoneLogged
    <2> QED BY <1>3, <2>1, <2>4, <2>5, Zenon DEF ResultInv
  <1>10. (\E r \in Reqs : Resolve(r)) => UNCHANGED pumpVars
    BY Zenon DEF Resolve, decide, submitDecision, sendResponse, resolveFatal
  <1>11. (\E t \in Texts : Send(t)) => UNCHANGED pumpVars
    BY Zenon DEF Send, sendLock, sendSubmit, sendWrite
  <1> QED
    BY <1>5, <1>6, <1>7, <1>8, <1>9, <1>10, <1>11, Zenon DEF Next, Pump, Terminate, denyNext, policyStop, Stop, WaitCancelled, AdapterExits, AdapterPrints, reap,
           LogFails, Deadline, vars

\* ResultIsTrue for every adapter: Wait reports "ok" only after a clean exit, with
\* the done that says so in the log, no handler error and no policy stop told
\* (the pump and its last step in subagent.go, against terminate).
THEOREM ResultAlwaysTrue == Spec => []ResultIsTrue
  <1> DEFINE Inv == TypeOK /\ AnswerInv /\ ResultInv
  <1>1. Init => Inv
    <2> SUFFICES ASSUME Init PROVE Inv
      BY Zenon
    <2>1. TypeOK /\ AnswerInv
      BY TypesInit, AnswersInit, Zenon
    <2>2. ~Stopped
      BY SMTT(20) DEF Init, Stopped, PolicyStop
    <2> QED BY <2>1, <2>2, Zenon DEF Init, ResultInv, ResultIsTrue
  <1>2. Inv /\ [Next]_vars => Inv'
    BY TypesNext, AnswersNext, ResultNext, Zenon
  <1>3. Inv => ResultIsTrue
    BY Zenon DEF ResultInv
  <1> QED
    BY <1>1, <1>2, <1>3, PTL DEF Spec

----------------------------------------------------------------------------
\* Messages.

Locked == {"locked", "write"}
IsLogged(t) == \E k \in DOMAIN log : log[k] = User(t)
IsTold(t) == \E j \in DOMAIN cmds : cmds[j] = Tell(t)

\* Beside MessagesInLogOrder: sendMu has one holder; what a call has logged and
\* told follows from where it is; and while the adapter runs only the message of
\* the holder is logged and not told.
SendInv ==
    /\ \A t, u \in Texts : send[t] \in Locked /\ send[u] \in Locked => t = u
    /\ \A t \in Texts : send[t] \in {"idle", "locked", "refused"} => ~IsLogged(t) /\ ~IsTold(t)
    /\ \A t \in Texts : send[t] = "write" => IsLogged(t) /\ ~IsTold(t)
    /\ \A t \in Texts : \A k, l \in DOMAIN log : log[k] = User(t) /\ log[l] = User(t) => k = l
    /\ adapter = "run" => \A t \in Texts : IsLogged(t) => send[t] = "write" \/ IsTold(t)
    /\ MessagesInLogOrder

\* What a sequence holds after one more entry, and which places lie before one.
Grows(s, r, e) ==
    /\ r[Len(s) + 1] = e /\ Len(s) + 1 \in DOMAIN r /\ Len(s) + 1 \notin DOMAIN s
    /\ \A i \in DOMAIN s : i \in DOMAIN r /\ r[i] = s[i]
    /\ \A i \in DOMAIN r : i \in DOMAIN s \/ i = Len(s) + 1
    /\ \A i \in DOMAIN s : i \in 1 .. (Len(s) + 1) - 1

LEMMA Appended ==
    ASSUME NEW S, NEW s \in Seq(S), NEW e \in S, NEW r, r = Append(s, e)
    PROVE  Grows(s, r, e)
  <1>1. Len(s) \in Nat /\ DOMAIN s = 1 .. Len(s) /\ DOMAIN r = 1 .. Len(s) + 1
    OBVIOUS
  <1>2. r[Len(s) + 1] = e /\ \A i \in 1 .. Len(s) : r[i] = s[i]
    OBVIOUS
  <1>3. \A n \in Nat : /\ n + 1 \in 1 .. n + 1 /\ n + 1 \notin 1 .. n /\ (n + 1) - 1 = n
                       /\ \A i \in 1 .. n : i \in 1 .. n + 1
                       /\ \A i \in 1 .. n + 1 : i \in 1 .. n \/ i = n + 1
    OBVIOUS
  <1> QED BY <1>1, <1>2, <1>3, Zenon DEF Grows

LEMMA Before ==
    ASSUME NEW S, NEW s \in Seq(S), NEW l \in DOMAIN s
    PROVE  \A k \in 1 .. l - 1 : k \in DOMAIN s /\ k # l
  OBVIOUS

\* Steps that leave Send alone and log and write other things.
LEMMA SendFrame ==
    ASSUME TypeOK, SendInv, UNCHANGED send, adapter' = "run" => adapter = "run",
           UNCHANGED log \/ \E e \in Events : e.ev # "user" /\ log' = Append(log, e),
           UNCHANGED cmds \/ \E c \in Commands : c.cmd # "message" /\ cmds' = Append(cmds, c)
    PROVE  SendInv'
  <1>1. \A t : \A k : k \in DOMAIN log' /\ log'[k] = User(t) <=> k \in DOMAIN log /\ log[k] = User(t)
    <2>1. CASE UNCHANGED log
      BY <2>1, Zenon
    <2>2. ASSUME NEW e \in Events, e.ev # "user", log' = Append(log, e)
          PROVE  \A t : \A k : k \in DOMAIN log' /\ log'[k] = User(t) <=> k \in DOMAIN log /\ log[k] = User(t)
      <3>1. \A t : User(t) # e
        BY <2>2 DEF User
      <3>2. log \in Seq(Events)
        BY Zenon DEF TypeOK
      <3>3. Grows(log, log', e)
        BY <2>2, <3>2, Appended, Zenon
      <3> QED BY <3>1, <3>3, Zenon DEF Grows
    <2> QED BY <2>1, <2>2, Zenon
  <1>2. \A t : \A j : j \in DOMAIN cmds' /\ cmds'[j] = Tell(t) <=> j \in DOMAIN cmds /\ cmds[j] = Tell(t)
    <2>1. CASE UNCHANGED cmds
      BY <2>1, Zenon
    <2>2. ASSUME NEW c \in Commands, c.cmd # "message", cmds' = Append(cmds, c)
          PROVE  \A t : \A j : j \in DOMAIN cmds' /\ cmds'[j] = Tell(t) <=> j \in DOMAIN cmds /\ cmds[j] = Tell(t)
      <3>1. \A t : Tell(t) # c
        BY <2>2 DEF Tell
      <3>2. cmds \in Seq(Commands)
        BY Zenon DEF TypeOK
      <3>3. Grows(cmds, cmds', c)
        BY <2>2, <3>2, Appended, Zenon
      <3> QED BY <3>1, <3>3, Zenon DEF Grows
    <2> QED BY <2>1, <2>2, Zenon
  <1>3. \A t : (IsLogged(t)' <=> IsLogged(t)) /\ (IsTold(t)' <=> IsTold(t))
    BY <1>1, <1>2, Zenon DEF IsLogged, IsTold, User, Tell
  <1>4. MessagesInLogOrder'
    <2> SUFFICES ASSUME NEW t \in Texts, NEW j \in DOMAIN cmds', cmds'[j] = Tell(t)
                 PROVE  /\ \A i \in DOMAIN cmds' : cmds'[i] = Tell(t) => i = j
                        /\ \E l \in DOMAIN log' :
                             /\ log'[l] = User(t)
                             /\ \A k \in 1 .. l - 1 : \A u \in Texts :
                                   log'[k] = User(u) => \E i \in 1 .. j - 1 : cmds'[i] = Tell(u)
      BY Zenon DEF MessagesInLogOrder, User, Tell
    <2>1. j \in DOMAIN cmds /\ cmds[j] = Tell(t)
      BY <1>2, Zenon
    <2>2. PICK l \in DOMAIN log : /\ log[l] = User(t)
                                  /\ \A k \in 1 .. l - 1 : \A u \in Texts :
                                        log[k] = User(u) => \E i \in 1 .. j - 1 : cmds[i] = Tell(u)
      BY <2>1, Zenon DEF SendInv, MessagesInLogOrder
    <2>3. \A i \in DOMAIN cmds' : cmds'[i] = Tell(t) => i = j
      <3>1. \A i \in DOMAIN cmds : cmds[i] = Tell(t) => i = j
        BY <2>1, Zenon DEF SendInv, MessagesInLogOrder
      <3> QED BY <1>2, <3>1, Zenon
    <2>4. ASSUME NEW k \in 1 .. l - 1, NEW u \in Texts, log'[k] = User(u)
          PROVE  \E i \in 1 .. j - 1 : cmds'[i] = Tell(u)
      <3>1. DOMAIN log = 1 .. Len(log) /\ DOMAIN cmds = 1 .. Len(cmds) /\ Len(log) \in Nat /\ Len(cmds) \in Nat
        BY DEF TypeOK
      <3>2. k \in DOMAIN log
        BY <3>1
      <3>3. k \in DOMAIN log'
        BY <3>1, <3>2 DEF TypeOK
      <3>4. log[k] = User(u)
        BY <1>1, <2>4, <3>3, Zenon
      <3>5. PICK i \in 1 .. j - 1 : cmds[i] = Tell(u)
        BY <2>2, <3>4, Zenon
      <3>6. i \in DOMAIN cmds
        BY <2>1, <3>1, <3>5
      <3> QED BY <1>2, <3>5, <3>6, Zenon
    <2> QED BY <1>1, <2>2, <2>3, <2>4, Zenon
  <1>5. /\ \A t, u \in Texts : send'[t] \in Locked /\ send'[u] \in Locked => t = u
        /\ \A t \in Texts : send'[t] \in {"idle", "locked", "refused"} => ~IsLogged(t)' /\ ~IsTold(t)'
        /\ \A t \in Texts : send'[t] = "write" => IsLogged(t)' /\ ~IsTold(t)'
    BY <1>3, Zenon DEF SendInv
  <1>6. \A t \in Texts : \A k, l \in DOMAIN log' : log'[k] = User(t) /\ log'[l] = User(t) => k = l
    BY <1>1, Zenon DEF SendInv
  <1>7. adapter' = "run" => \A t \in Texts : IsLogged(t)' => send'[t] = "write" \/ IsTold(t)'
    BY <1>3, Zenon DEF SendInv
  <1> QED BY <1>4, <1>5, <1>6, <1>7, Zenon DEF SendInv, User

\* Send under sendMu.  At the write, all that is logged before the holder's
\* message has been told, because the adapter has been running all along.
LEMMA SendSteps ==
    ASSUME TypeOK, SendInv, NEW t \in Texts, Send(t) PROVE SendInv'
  <1>0. /\ log \in Seq(Events) /\ cmds \in Seq(Commands)
        /\ send \in [Texts -> {"idle", "locked", "write", "sent", "failed", "refused"}]
    BY Zenon DEF TypeOK
  <1>1. CASE sendLock(t)
    <2>1. UNCHANGED <<log, cmds, adapter>> /\ send[t] = "idle" /\ \A u \in Texts : send[u] \notin Locked
      BY <1>1, Zenon DEF sendLock, sendMuFree, Locked
    <2>2. send'[t] \in {"locked", "refused"} /\ \A u \in Texts : u # t => send'[u] = send[u]
      BY <1>0, <1>1, Zenon DEF sendLock
    <2>3. \A u \in Texts : (IsLogged(u)' <=> IsLogged(u)) /\ (IsTold(u)' <=> IsTold(u))
      BY <2>1, Zenon DEF IsLogged, IsTold
    <2>4. MessagesInLogOrder'
      <3>1. MessagesInLogOrder
        BY Zenon DEF SendInv
      <3> QED BY <2>1, <3>1 DEF MessagesInLogOrder
    <2> QED BY <2>1, <2>2, <2>3, <2>4, Zenon DEF SendInv, Locked
  <1>2. CASE sendSubmit(t) /\ ~logUp
    <2>1. UNCHANGED <<log, cmds, adapter>> /\ send[t] = "locked"
      BY <1>2, Zenon DEF sendSubmit
    <2>2. send'[t] = "failed" /\ \A u \in Texts : u # t => send'[u] = send[u]
      BY <1>0, <1>2, Zenon DEF sendSubmit
    <2>3. \A u \in Texts : (IsLogged(u)' <=> IsLogged(u)) /\ (IsTold(u)' <=> IsTold(u))
      BY <2>1, Zenon DEF IsLogged, IsTold
    <2>4. MessagesInLogOrder'
      <3>1. MessagesInLogOrder
        BY Zenon DEF SendInv
      <3> QED BY <2>1, <3>1 DEF MessagesInLogOrder
    <2> QED BY <2>1, <2>2, <2>3, <2>4, Zenon DEF SendInv, Locked
  <1>3. CASE sendSubmit(t) /\ logUp
    <2>1. UNCHANGED <<cmds, adapter>> /\ send[t] = "locked" /\ log' = Append(log, User(t))
      BY <1>3, Zenon DEF sendSubmit
    <2>2. send'[t] = "write" /\ \A u \in Texts : u # t => send'[u] = send[u]
      BY <1>0, <1>3, Zenon DEF sendSubmit
    <2>3. /\ log'[Len(log) + 1] = User(t) /\ Len(log) + 1 \in DOMAIN log'
          /\ \A k \in DOMAIN log : k \in DOMAIN log' /\ log'[k] = log[k]
          /\ \A k \in DOMAIN log' : k \in DOMAIN log \/ k = Len(log) + 1
      <3>1. User(t) \in Events
        BY Zenon DEF User, Events
      <3>2. Grows(log, log', User(t))
        BY <1>0, <2>1, <3>1, Appended, Zenon
      <3> QED BY <3>2, Zenon DEF Grows
    <2>4. \A u \in Texts : User(u) = User(t) => u = t
      BY Zenon DEF User
    <2>5. ~IsLogged(t) /\ ~IsTold(t)
      BY <2>1, Zenon DEF SendInv
    <2>6. \A u \in Texts : u # t => (IsLogged(u)' <=> IsLogged(u))
      BY <2>3, <2>4, Zenon DEF IsLogged
    <2>7. IsLogged(t)' /\ \A u \in Texts : (IsTold(u)' <=> IsTold(u))
      BY <2>1, <2>3, Zenon DEF IsLogged, IsTold
    <2>8. ASSUME NEW u \in Texts, NEW k \in DOMAIN log', NEW l \in DOMAIN log', log'[k] = User(u), log'[l] = User(u)
          PROVE  k = l
      <3>1. CASE u = t
        <4>1. k \notin DOMAIN log /\ l \notin DOMAIN log
          BY <2>3, <2>5, <2>8, <3>1, Zenon DEF IsLogged
        <4> QED BY <2>3, <4>1, Zenon
      <3>2. CASE u # t
        <4>1. k \in DOMAIN log /\ l \in DOMAIN log /\ log[k] = User(u) /\ log[l] = User(u)
          BY <2>3, <2>4, <2>8, <3>2, Zenon
        <4> QED BY <4>1, Zenon DEF SendInv
      <3> QED BY <3>1, <3>2, Zenon
    <2>9. MessagesInLogOrder'
      <3> SUFFICES ASSUME NEW u \in Texts, NEW j \in DOMAIN cmds', cmds'[j] = Tell(u)
                   PROVE  /\ \A i \in DOMAIN cmds' : cmds'[i] = Tell(u) => i = j
                          /\ \E l \in DOMAIN log' :
                               /\ log'[l] = User(u)
                               /\ \A k \in 1 .. l - 1 : \A v \in Texts :
                                     log'[k] = User(v) => \E i \in 1 .. j - 1 : cmds'[i] = Tell(v)
        BY Zenon DEF MessagesInLogOrder, User, Tell
      <3>0. cmds' = cmds
        BY <2>1, Zenon
      <3>1. PICK l \in DOMAIN log : /\ log[l] = User(u)
                                    /\ \A k \in 1 .. l - 1 : \A v \in Texts :
                                          log[k] = User(v) => \E i \in 1 .. j - 1 : cmds[i] = Tell(v)
        BY <3>0, Zenon DEF SendInv, MessagesInLogOrder
      <3>2. \A i \in DOMAIN cmds : cmds[i] = Tell(u) => i = j
        BY <3>0, Zenon DEF SendInv, MessagesInLogOrder
      <3>3. l \in DOMAIN log' /\ log'[l] = User(u) /\ \A k \in 1 .. l - 1 : log'[k] = log[k]
        BY <1>0, <2>3, <3>1, Before, Zenon
      <3> QED BY <3>0, <3>1, <3>2, <3>3, Zenon
    <2> QED BY <2>1, <2>2, <2>5, <2>6, <2>7, <2>8, <2>9, Zenon DEF SendInv, Locked
  <1>4. CASE sendWrite(t) /\ adapter # "run"
    <2>1. UNCHANGED <<log, cmds, adapter>> /\ send[t] = "write"
      BY <1>4, Zenon DEF sendWrite, Write
    <2>2. send'[t] = "failed" /\ \A u \in Texts : u # t => send'[u] = send[u]
      BY <1>0, <1>4, Zenon DEF sendWrite
    <2>3. \A u \in Texts : (IsLogged(u)' <=> IsLogged(u)) /\ (IsTold(u)' <=> IsTold(u))
      BY <2>1, Zenon DEF IsLogged, IsTold
    <2>4. MessagesInLogOrder'
      <3>1. MessagesInLogOrder
        BY Zenon DEF SendInv
      <3> QED BY <2>1, <3>1 DEF MessagesInLogOrder
    <2> QED BY <1>4, <2>1, <2>2, <2>3, <2>4, Zenon DEF SendInv, Locked
  <1>5. CASE sendWrite(t) /\ adapter = "run"
    <2>1. UNCHANGED <<log, adapter>> /\ send[t] = "write" /\ cmds' = Append(cmds, Tell(t))
      BY <1>5, Zenon DEF sendWrite, Write
    <2>2. send'[t] = "sent" /\ \A u \in Texts : u # t => send'[u] = send[u]
      BY <1>0, <1>5, Zenon DEF sendWrite
    <2>3. /\ cmds'[Len(cmds) + 1] = Tell(t) /\ Len(cmds) + 1 \in DOMAIN cmds' /\ Len(cmds) + 1 \notin DOMAIN cmds
          /\ \A j \in DOMAIN cmds : j \in DOMAIN cmds' /\ cmds'[j] = cmds[j]
          /\ \A j \in DOMAIN cmds' : j \in DOMAIN cmds \/ j = Len(cmds) + 1
          /\ \A j \in DOMAIN cmds : j \in 1 .. (Len(cmds) + 1) - 1
      <3>1. Tell(t) \in Commands
        BY Zenon DEF Tell, Commands
      <3>2. Grows(cmds, cmds', Tell(t))
        BY <1>0, <2>1, <3>1, Appended, Zenon
      <3> QED BY <3>2, Zenon DEF Grows
    <2>4. \A u \in Texts : Tell(u) = Tell(t) => u = t
      BY Zenon DEF Tell
    <2>5. IsLogged(t) /\ ~IsTold(t)
      BY <2>1, Zenon DEF SendInv
    <2>6. \A u \in Texts : u # t => (IsTold(u)' <=> IsTold(u))
      BY <2>3, <2>4, Zenon DEF IsTold
    <2>7. IsTold(t)' /\ \A u \in Texts : (IsLogged(u)' <=> IsLogged(u))
      BY <2>1, <2>3, Zenon DEF IsLogged, IsTold
    <2>8. MessagesInLogOrder'
      <3> SUFFICES ASSUME NEW u \in Texts, NEW j \in DOMAIN cmds', cmds'[j] = Tell(u)
                   PROVE  /\ \A i \in DOMAIN cmds' : cmds'[i] = Tell(u) => i = j
                          /\ \E l \in DOMAIN log' :
                               /\ log'[l] = User(u)
                               /\ \A k \in 1 .. l - 1 : \A v \in Texts :
                                     log'[k] = User(v) => \E i \in 1 .. j - 1 : cmds'[i] = Tell(v)
        BY Zenon DEF MessagesInLogOrder, User, Tell
      <3>0. log' = log
        BY <2>1, Zenon
      <3>1. CASE j \in DOMAIN cmds
        <4>1. cmds[j] = Tell(u) /\ u # t
          BY <2>3, <2>5, <3>1, Zenon DEF IsTold
        <4>2. PICK l \in DOMAIN log : /\ log[l] = User(u)
                                      /\ \A k \in 1 .. l - 1 : \A v \in Texts :
                                            log[k] = User(v) => \E i \in 1 .. j - 1 : cmds[i] = Tell(v)
          BY <3>1, <4>1, Zenon DEF SendInv, MessagesInLogOrder
        <4>3. ASSUME NEW i \in DOMAIN cmds', cmds'[i] = Tell(u) PROVE i = j
          <5>1. i \in DOMAIN cmds /\ cmds[i] = Tell(u)
            BY <2>3, <2>4, <4>1, <4>3, Zenon
          <5> QED BY <3>1, <4>1, <5>1, Zenon DEF SendInv, MessagesInLogOrder
        <4>4. \A i \in 1 .. j - 1 : cmds'[i] = cmds[i]
          BY <1>0, <2>3, <3>1, Before, Zenon
        <4>5. ASSUME NEW k \in 1 .. l - 1, NEW v \in Texts, log[k] = User(v)
              PROVE  \E i \in 1 .. j - 1 : cmds'[i] = Tell(v)
          BY <4>2, <4>4, <4>5, Zenon
        <4>6. l \in DOMAIN log' /\ log'[l] = User(u)
          BY <3>0, <4>2, Zenon
        <4> QED BY <3>0, <4>3, <4>5, <4>6, Zenon
      <3>2. CASE j = Len(cmds) + 1
        <4>1. u = t
          BY <2>3, <2>4, <3>2, Zenon
        <4>2. \A i \in DOMAIN cmds' : cmds'[i] = Tell(u) => i = j
          BY <2>3, <2>5, <3>2, <4>1, Zenon DEF IsTold
        <4>3. PICK l \in DOMAIN log : log[l] = User(t)
          BY <2>5, Zenon DEF IsLogged
        <4>4. ASSUME NEW k \in 1 .. l - 1, NEW v \in Texts, log[k] = User(v)
              PROVE  \E i \in 1 .. j - 1 : cmds'[i] = Tell(v)
          <5>1. k \in DOMAIN log /\ k # l
            BY <1>0, <4>3, Before, Zenon
          <5>2. v # t
            BY <4>3, <4>4, <5>1, Zenon DEF SendInv
          <5>3. send[v] # "write"
            BY <2>1, <5>2, Zenon DEF SendInv, Locked
          <5>4. IsTold(v)
            BY <1>5, <4>4, <5>1, <5>3, Zenon DEF SendInv, IsLogged
          <5>5. PICK i \in DOMAIN cmds : cmds[i] = Tell(v)
            BY <5>4, Zenon DEF IsTold
          <5> QED BY <2>3, <3>2, <5>5, Zenon
        <4> QED BY <3>0, <4>1, <4>2, <4>3, <4>4, Zenon
      <3> QED BY <2>3, <3>1, <3>2, Zenon
    <2> QED BY <2>1, <2>2, <2>5, <2>6, <2>7, <2>8, Zenon DEF SendInv, Locked
  <1> QED BY <1>1, <1>2, <1>3, <1>4, <1>5, Zenon DEF Send

LEMMA SendNext ==
    ASSUME TypeOK, SendInv, [Next]_vars PROVE SendInv'
  <1> DEFINE LogOther == UNCHANGED log \/ \E e \in Events : e.ev # "user" /\ log' = Append(log, e)
             TellOther == UNCHANGED cmds \/ \E c \in Commands : c.cmd # "message" /\ cmds' = Append(cmds, c)
  <1>0. ASSUME NEW c \in Commands, c.cmd # "message", Write(c) PROVE TellOther
    BY <1>0, Zenon DEF Write
  <1>1. CASE \E t \in Texts : Send(t)
    BY <1>1, SendSteps, Zenon
  <1>2. CASE AdapterPrints \/ AdapterExits \/ reap \/ WaitCancelled \/ LogFails \/ Deadline \/ UNCHANGED vars
    BY <1>2, SendFrame, Zenon DEF AdapterPrints, AdapterExits, reap, WaitCancelled, Kill, LogFails, Deadline, vars
  <1>3. CASE pumpNoteDone \/ start \/ startFails \/ pumpFinish
    BY <1>3, SendFrame, Zenon DEF pumpNoteDone, start, startFails, pumpFinish, Fail, Kill
  <1>4. CASE pumpLine
    <2> DEFINE l == Head(out)
    <2>1. l \in AllLines /\ l.kind \in {"ready", "message", "bad", "done", "request"}
      BY <1>4 DEF pumpLine, TypeOK, AllLines
    <2> HIDE DEF l
    <2>2. l.kind # "bad" => [ev |-> l.kind, line |-> l] \in Events /\ [ev |-> l.kind, line |-> l].ev # "user"
      BY <2>1, Zenon DEF Events
    <2>3. UNCHANGED log \/ (l.kind # "bad" /\ log' = Append(log, [ev |-> l.kind, line |-> l]))
      BY <1>4, Zenon DEF pumpLine, Violates, l
    <2>4. LogOther
      BY <2>2, <2>3, Zenon
    <2>5. UNCHANGED <<send, cmds>> /\ (adapter' = "run" => adapter = "run")
      BY <1>4, Zenon DEF pumpLine, Fail, Kill
    <2> QED BY <2>4, <2>5, SendFrame, Zenon
  <1>5. ASSUME NEW r \in Reqs, Resolve(r) PROVE SendInv'
    <2>1. req[r].pc # "none" => req[r].id \in Ids
      BY SMTT(20) DEF TypeOK, NoReq, Requests
    <2>2. UNCHANGED <<send, adapter>>
      BY <1>5, Zenon DEF Resolve, decide, submitDecision, sendResponse, resolveFatal
    <2>3. LogOther
      <3>1. CASE UNCHANGED log
        BY <3>1, Zenon
      <3>2. CASE ~UNCHANGED log
        <4>1. req[r].pc = "submit" /\ log' = Append(log, [ev |-> "decision", id |-> req[r].id, allow |-> Allowed(r)])
          BY <1>5, <3>2, Zenon DEF Resolve, decide, submitDecision, sendResponse, resolveFatal
        <4>2. [ev |-> "decision", id |-> req[r].id, allow |-> Allowed(r)] \in Events
          BY <2>1, <4>1, Zenon DEF Events, Allowed
        <4> QED BY <4>1, <4>2, Zenon
      <3> QED BY <3>1, <3>2, Zenon
    <2>4. TellOther
      <3>1. CASE UNCHANGED cmds
        BY <3>1, Zenon
      <3>2. CASE ~UNCHANGED cmds
        <4>1. req[r].pc = "send" /\ Write([cmd |-> "response", id |-> req[r].id, allow |-> Allowed(r)])
          BY <1>5, <3>2, Zenon DEF Resolve, decide, submitDecision, sendResponse, resolveFatal
        <4>2. [cmd |-> "response", id |-> req[r].id, allow |-> Allowed(r)] \in Commands
          BY <2>1, <4>1, Zenon DEF Commands, Allowed
        <4> QED BY <1>0, <4>1, <4>2, Zenon
      <3> QED BY <3>1, <3>2, Zenon
    <2> QED BY <2>2, <2>3, <2>4, SendFrame, Zenon
  <1>6. CASE denyNext
    <2>1. \A id \in todo : [cmd |-> "response", id |-> id, allow |-> FALSE] \in Commands
      BY Zenon DEF Commands, TypeOK
    <2>2. TellOther /\ UNCHANGED <<send, log, adapter>>
      BY <1>0, <1>6, <2>1, Zenon DEF denyNext
    <2> QED BY <2>2, SendFrame, Zenon
  <1>7. CASE policyStop \/ Stop
    <2>1. [cmd |-> "stop", by |-> "policy"] \in Commands /\ [cmd |-> "stop", by |-> "user"] \in Commands
      BY Zenon DEF Commands
    <2>2. TellOther /\ UNCHANGED <<send, log>> /\ (adapter' = "run" => adapter = "run")
      BY <1>0, <1>7, <2>1, Zenon DEF policyStop, Stop, Kill
    <2> QED BY <2>2, SendFrame, Zenon
  <1> QED BY <1>1, <1>2, <1>3, <1>4, <1>5, <1>6, <1>7, Zenon DEF Next, Pump, Terminate

\* MessagesInLogOrder for any number of calls of Send, whatever fails and ends
\* between their steps: what the adapter is told is a prefix of what the log holds,
\* in its order (Send in subagent.go: log, then write, under sendMu).
THEOREM MessagesAlwaysInLogOrder == Spec => []MessagesInLogOrder
  <1> DEFINE Inv == TypeOK /\ SendInv
  <1>1. Init => Inv
    <2> SUFFICES ASSUME Init PROVE Inv
      BY Zenon
    <2>1. \A t \in Texts : ~IsLogged(t) /\ ~IsTold(t)
      <3>1. /\ DOMAIN cmds = {1} /\ cmds[1] = [cmd |-> "task"]
            /\ DOMAIN log = {1} /\ log[1] = [ev |-> "spawn"]
        BY DEF Init
      <3>2. \A t : User(t) # [ev |-> "spawn"] /\ Tell(t) # [cmd |-> "task"]
        BY Zenon DEF User, Tell
      <3> QED BY <3>1, <3>2, Zenon DEF IsLogged, IsTold
    <2>2. MessagesInLogOrder
      BY <2>1, Zenon DEF MessagesInLogOrder, IsTold
    <2>3. \A t \in Texts : \A k, l \in DOMAIN log : log[k] = User(t) /\ log[l] = User(t) => k = l
      BY <2>1, Zenon DEF IsLogged
    <2> QED BY <2>1, <2>2, <2>3, TypesInit, Zenon DEF Init, SendInv, Locked
  <1>2. Inv /\ [Next]_vars => Inv'
    BY TypesNext, SendNext, Zenon
  <1>3. Inv => MessagesInLogOrder
    BY Zenon DEF SendInv
  <1> QED
    BY <1>1, <1>2, <1>3, PTL DEF Spec
=============================================================================
