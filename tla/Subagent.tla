------------------------------ MODULE Subagent ------------------------------
(***************************************************************************)
(* seams/subagent: the parent's handle on an adapter process.  The pump    *)
(* reads the adapter's stdout, checks the protocol and logs each event; the *)
(* approval coordinator decides every request in a goroutine of its own,   *)
(* logs the decision and then answers; Send injects follow-up messages;    *)
(* Stop, cancellation and the adapter's own exit race with all of it.       *)
(* The adapter and the decider are external: the one may print anything    *)
(* and exit at any time, the other may answer anything or hang until its   *)
(* deadline.                                                               *)
(***************************************************************************)
EXTENDS Naturals, Sequences, FiniteSets

CONSTANTS Ids,        \* approval request ids
          Reqs,       \* bound: resolve goroutines, 1 .. n
          Texts,      \* calls of Send, one per text
          PipeCap,    \* lines its stdout pipe holds
          Sessions    \* how the session is wired, and what the adapter prints until it exits

VARIABLES
    adapter,    \* run | exited : the leader process
    exitOk,     \* its exit status
    reaped,     \* procgroup's done channel is closed
    out,        \* stdout: lines written and not yet read
    printed,    \* lines written so far
    cmds,       \* stdin: commands written to the adapter
    logUp,      \* the session log still accepts events
    log,        \* events this handle has made durable
    pumpPc,     \* read | start | term | note | finished
    cur,        \* the event the pump is handling
    sawReady, done, handlerErr,
    doneObserved, stopRequested,
    result,     \* what Wait will return: none | error | the done status
    session,    \* [mode : auto | ask | unwired, multiturn, script]
    expired,    \* the coordinator's deadline has passed
    pending, terminated, fatal,
    req,        \* per goroutine: its request, its decision and where it is
    todo,       \* requests terminate() has still to deny
    termPc,     \* none | deny | stop | end
    send        \* per Send call: idle | locked | write | sent | failed | refused

pumpVars  == <<pumpPc, cur, sawReady, done, handlerErr, doneObserved, result>>
coordVars == <<pending, terminated, fatal, todo, termPc>>
envVars   == <<logUp, session, expired>>
vars == <<adapter, exitOk, reaped, out, printed, cmds, log, stopRequested, req, send,
          pumpVars, coordVars, envVars>>

Statuses == {"ok", "error"}

\* What the pump tells apart in a line of the adapter's stdout.
AllLines == [kind : {"ready", "message", "bad"}] \cup [kind : {"done"}, status : Statuses]
           \cup [kind : {"request"}, id : Ids, forced : BOOLEAN]

ASSUME SessionsAssumption ==
    \A s \in Sessions : s.multiturn \in BOOLEAN /\ s.script \in Seq(AllLines) /\ s.mode \in {"auto", "ask", "unwired"}

ASSUME ReqsAssumption == IsFiniteSet(Reqs) /\ Reqs \subseteq Nat

NoReq == [pc |-> "none"]
NoLine == [kind |-> "none"]

Init ==
    /\ adapter = "run" /\ exitOk = TRUE /\ reaped = FALSE
    /\ out = <<>> /\ printed = 0
    /\ cmds = <<[cmd |-> "task"]>>
    /\ logUp = TRUE /\ log = <<[ev |-> "spawn"]>>
    /\ pumpPc = "read" /\ cur = NoLine
    /\ sawReady = FALSE /\ done = "none" /\ handlerErr = FALSE
    /\ doneObserved = FALSE /\ stopRequested = FALSE /\ result = "none"
    /\ session \in Sessions /\ expired = FALSE
    /\ pending = {} /\ terminated = FALSE /\ fatal = FALSE
    /\ req = [r \in Reqs |-> NoReq]
    /\ todo = {} /\ termPc = "none"
    /\ send = [t \in Texts |-> "idle"]

----------------------------------------------------------------------------
\* The process group (external adapter, procgroup.Process around it).

\* sendCommand -> WriteLine: the write fails once nobody holds the read end.
Write(c) == cmds' = IF adapter = "run" THEN Append(cmds, c) ELSE cmds

Kill ==
    /\ adapter' = "exited"
    /\ exitOk' = IF adapter = "run" THEN FALSE ELSE exitOk

AdapterPrints ==
    /\ adapter = "run" /\ printed < Len(session.script) /\ Len(out) < PipeCap
    /\ out' = Append(out, session.script[printed + 1])
    /\ printed' = printed + 1
    /\ UNCHANGED <<adapter, exitOk, reaped, cmds, log, stopRequested, req, send>>
    /\ UNCHANGED <<pumpVars, coordVars, envVars>>

AdapterExits ==
    /\ adapter = "run"
    /\ adapter' = "exited" /\ exitOk' \in BOOLEAN
    /\ UNCHANGED <<reaped, out, printed, cmds, log, stopRequested, req, send>>
    /\ UNCHANGED <<pumpVars, coordVars, envVars>>

reap ==
    /\ adapter = "exited" /\ ~reaped
    /\ reaped' = TRUE
    /\ UNCHANGED <<adapter, exitOk, out, printed, cmds, log, stopRequested, req, send>>
    /\ UNCHANGED <<pumpVars, coordVars, envVars>>

----------------------------------------------------------------------------
\* The pump: the DrainLines callback and what follows it.

Fail == handlerErr' = TRUE /\ Kill

\* Sequence checks of the callback: blank or invalid lines, output after done,
\* a second ready, anything before the first.
Violates(l) ==
    \/ l.kind = "bad"
    \/ done # "none"
    \/ l.kind = "ready" /\ sawReady
    \/ l.kind # "ready" /\ ~sawReady

pumpLine ==
    /\ pumpPc = "read" /\ out # <<>>
    /\ out' = Tail(out)
    /\ LET l == Head(out) IN
       \/ handlerErr /\ UNCHANGED <<log, pumpPc, cur, sawReady, handlerErr, adapter, exitOk>>
       \/ /\ ~handlerErr /\ (Violates(l) \/ ~logUp)
          /\ Fail
          /\ sawReady' = (sawReady \/ l.kind = "ready")
          /\ UNCHANGED <<log, pumpPc, cur>>
       \/ /\ ~handlerErr /\ ~Violates(l) /\ logUp
          /\ log' = Append(log, [ev |-> l.kind, line |-> l])
          /\ sawReady' = (sawReady \/ l.kind = "ready")
          /\ cur' = l
          /\ pumpPc' = CASE l.kind = "request" -> "start"
                         [] l.kind = "done"    -> "note"
                         [] OTHER              -> "read"
          /\ UNCHANGED <<handlerErr, adapter, exitOk>>
    /\ UNCHANGED <<reaped, printed, cmds, stopRequested, req, send, done, doneObserved, result>>
    /\ UNCHANGED <<coordVars, envVars>>

\* The callback's last step for a done event, after it is durable.
pumpNoteDone ==
    /\ pumpPc = "note"
    /\ done' = cur.status /\ doneObserved' = TRUE
    /\ pumpPc' = "read"
    /\ UNCHANGED <<adapter, exitOk, reaped, out, printed, cmds, log, stopRequested, req, send>>
    /\ UNCHANGED <<cur, sawReady, handlerErr, result, coordVars, envVars>>

\* Slip: the coordinator's error is not asked for.
OutcomeUnasked == IF handlerErr \/ done = "none" THEN "error" ELSE done

\* The outcome Wait returns, errors first.
Outcome ==
    CASE fatal \/ handlerErr \/ done = "none" -> "error"
      [] ~exitOk /\ done # "error"             -> "error"
      [] OTHER                                 -> done

\* True EOF and a reaped leader: publish the outcome.
pumpFinish ==
    /\ pumpPc = "read" /\ out = <<>> /\ reaped
    /\ pumpPc' = "finished" /\ result' = Outcome
    /\ UNCHANGED <<adapter, exitOk, reaped, out, printed, cmds, log, stopRequested, req, send>>
    /\ UNCHANGED <<cur, sawReady, done, handlerErr, doneObserved, coordVars, envVars>>

----------------------------------------------------------------------------
\* The approval coordinator.

\* The triggering id is not denied again when it has been responded to.
ToDeny(id, responded) == IF responded THEN pending \ {id} ELSE pending

\* terminate(): the part under the mutex; nothing if already terminated.
beginTerminate(id, responded) ==
    IF terminated THEN UNCHANGED coordVars
    ELSE /\ terminated' = TRUE /\ fatal' = TRUE
         /\ todo' = ToDeny(id, responded)
         /\ pending' = {}
         /\ termPc' = "deny"

\* start(): refuse after termination, terminate on a duplicate, else register
\* the request and launch its goroutine.
start ==
    /\ pumpPc = "start"
    /\ \/ /\ terminated
          /\ Fail /\ pumpPc' = "read"
          /\ UNCHANGED <<req, coordVars>>
       \/ /\ ~terminated /\ cur.id \in pending
          /\ beginTerminate(cur.id, FALSE)
          /\ pumpPc' = "term"
          /\ UNCHANGED <<req, adapter, exitOk, handlerErr>>
       \/ /\ ~terminated /\ cur.id \notin pending
          /\ pending' = pending \cup {cur.id}
          /\ \E r \in Reqs :
               /\ req[r] = NoReq /\ \A q \in Reqs : req[q] = NoReq => r <= q
               /\ req' = [req EXCEPT ![r] = [pc |-> "decide", id |-> cur.id,
                                             forced |-> cur.forced, decision |-> "none"]]
          /\ pumpPc' = "read"
          /\ UNCHANGED <<terminated, fatal, todo, termPc, adapter, exitOk, handlerErr>>
    /\ UNCHANGED <<reaped, out, printed, cmds, log, stopRequested, send>>
    /\ UNCHANGED <<cur, sawReady, done, doneObserved, result, envVars>>

\* start() returns its error once terminate() is through.
startFails ==
    /\ pumpPc = "term" /\ termPc = "end"
    /\ Fail /\ pumpPc' = "read"
    /\ UNCHANGED <<reaped, out, printed, cmds, log, stopRequested, req, send>>
    /\ UNCHANGED <<cur, sawReady, done, doneObserved, result, coordVars, envVars>>

\* The answers decide() can come to; "breach" is a deny without a reason, which
\* is answered as a deny and then treated as fatal.
Decisions(r) ==
    IF req[r].forced \/ expired \/ reaped \/ session.mode = "unwired" THEN {"deny"}
    ELSE IF session.mode = "auto" THEN {"allow"}
    ELSE {"allow", "deny", "breach"}

decide(r) ==
    /\ req[r].pc = "decide"
    /\ \E d \in Decisions(r) :
         req' = [req EXCEPT ![r].decision = d, ![r].pc = "submit"]
    /\ UNCHANGED <<adapter, exitOk, reaped, out, printed, cmds, log, stopRequested, send>>
    /\ UNCHANGED <<pumpVars, coordVars, envVars>>

Allowed(r) == req[r].decision = "allow"

\* Slip: answer although the decision could not be logged.
submitDecisionAnyway(r) ==
    /\ req[r].pc = "submit"
    /\ log' = IF logUp THEN Append(log, [ev |-> "decision", id |-> req[r].id, allow |-> Allowed(r)]) ELSE log
    /\ req' = [req EXCEPT ![r].pc = "send"]
    /\ UNCHANGED <<adapter, exitOk, reaped, out, printed, cmds, stopRequested, send>>
    /\ UNCHANGED <<pumpVars, coordVars, envVars>>

\* resolve(): make policy/decision durable before anything is answered.
submitDecision(r) ==
    /\ req[r].pc = "submit"
    /\ \/ /\ logUp
          /\ log' = Append(log, [ev |-> "decision", id |-> req[r].id, allow |-> Allowed(r)])
          /\ req' = [req EXCEPT ![r].pc = "send"]
          /\ UNCHANGED coordVars
       \/ /\ ~logUp
          /\ beginTerminate(req[r].id, FALSE)
          /\ req' = [req EXCEPT ![r].pc = "end"]
          /\ UNCHANGED log
    /\ UNCHANGED <<adapter, exitOk, reaped, out, printed, cmds, stopRequested, send>>
    /\ UNCHANGED <<pumpVars, envVars>>

\* Slip: neither terminated nor the pending set is consulted.
MayRespondAnyway(r) == adapter = "run"

MayRespond(r) == ~terminated /\ req[r].id \in pending /\ adapter = "run"

\* send() under the mutex, and what resolve() does with its error.
sendResponse(r) ==
    /\ req[r].pc = "send"
    /\ \/ /\ MayRespond(r)
          /\ Write([cmd |-> "response", id |-> req[r].id, allow |-> Allowed(r)])
          /\ pending' = pending \ {req[r].id}
          /\ req' = [req EXCEPT ![r].pc = IF req[r].decision = "breach" THEN "fatal" ELSE "end"]
          /\ UNCHANGED <<terminated, fatal, todo, termPc>>
       \/ /\ ~MayRespond(r)
          /\ pending' = pending \ {req[r].id}
          /\ req' = [req EXCEPT ![r].pc = IF stopRequested \/ doneObserved THEN "end" ELSE "fatal"]
          /\ UNCHANGED <<cmds, terminated, fatal, todo, termPc>>
    /\ UNCHANGED <<adapter, exitOk, reaped, out, printed, log, stopRequested, send>>
    /\ UNCHANGED <<pumpVars, envVars>>

resolveFatal(r) ==
    /\ req[r].pc = "fatal"
    /\ beginTerminate(req[r].id, TRUE)
    /\ req' = [req EXCEPT ![r].pc = "end"]
    /\ UNCHANGED <<adapter, exitOk, reaped, out, printed, cmds, log, stopRequested, send>>
    /\ UNCHANGED <<pumpVars, envVars>>

\* Slip: return after the denials.
denyNextOnly ==
    /\ termPc = "deny"
    /\ \E id \in todo :
         /\ todo' = todo \ {id}
         /\ Write([cmd |-> "response", id |-> id, allow |-> FALSE])
    /\ UNCHANGED <<adapter, exitOk, reaped, out, printed, log, stopRequested, req, send>>
    /\ UNCHANGED <<pumpVars, pending, terminated, fatal, termPc, envVars>>

\* terminate(), outside the mutex: a deny for every request that was pending ...
denyNext ==
    /\ termPc = "deny"
    /\ \/ \E id \in todo :
            /\ todo' = todo \ {id}
            /\ Write([cmd |-> "response", id |-> id, allow |-> FALSE])
            /\ UNCHANGED termPc
       \/ todo = {} /\ termPc' = "stop" /\ UNCHANGED <<todo, cmds>>
    /\ UNCHANGED <<adapter, exitOk, reaped, out, printed, log, stopRequested, req, send>>
    /\ UNCHANGED <<pumpVars, pending, terminated, fatal, envVars>>

\* ... and only then the policy stop, with the group kill as the fallback.
policyStop ==
    /\ termPc = "stop"
    /\ Write([cmd |-> "stop", by |-> "policy"])
    /\ IF adapter = "run" THEN UNCHANGED <<adapter, exitOk>> ELSE Kill
    /\ termPc' = "end"
    /\ UNCHANGED <<reaped, out, printed, log, stopRequested, req, send>>
    /\ UNCHANGED <<pumpVars, pending, terminated, fatal, todo, envVars>>

----------------------------------------------------------------------------
\* Calls on the handle, and the environment.

Stop ==
    /\ ~stopRequested
    /\ stopRequested' = TRUE
    /\ Write([cmd |-> "stop", by |-> "user"])
    /\ UNCHANGED <<adapter, exitOk, reaped, out, printed, log, req, send>>
    /\ UNCHANGED <<pumpVars, coordVars, envVars>>

\* Wait with a context that ends first, or the context of the spawn.
WaitCancelled ==
    /\ ~reaped /\ adapter = "run"
    /\ Kill
    /\ UNCHANGED <<reaped, out, printed, cmds, log, stopRequested, req, send>>
    /\ UNCHANGED <<pumpVars, coordVars, envVars>>

User(t) == [ev |-> "user", text |-> t]
Tell(t) == [cmd |-> "message", text |-> t]

\* Slip: no sendMu.
sendMuUnused == TRUE

sendMuFree == \A u \in Texts : send[u] \notin {"locked", "write"}

\* Send: lock and check, then log, then write, then unlock.
sendLock(t) ==
    /\ session.multiturn /\ send[t] = "idle" /\ sendMuFree
    /\ send' = [send EXCEPT ![t] =
                  IF doneObserved \/ stopRequested \/ pumpPc = "finished" THEN "refused" ELSE "locked"]
    /\ UNCHANGED <<adapter, exitOk, reaped, out, printed, cmds, log, stopRequested, req>>
    /\ UNCHANGED <<pumpVars, coordVars, envVars>>

sendSubmit(t) ==
    /\ send[t] = "locked"
    /\ IF logUp THEN /\ log' = Append(log, User(t))
                     /\ send' = [send EXCEPT ![t] = "write"]
                ELSE /\ send' = [send EXCEPT ![t] = "failed"] /\ UNCHANGED log
    /\ UNCHANGED <<adapter, exitOk, reaped, out, printed, cmds, stopRequested, req>>
    /\ UNCHANGED <<pumpVars, coordVars, envVars>>

sendWrite(t) ==
    /\ send[t] = "write"
    /\ Write(Tell(t))
    /\ send' = [send EXCEPT ![t] = IF adapter = "run" THEN "sent" ELSE "failed"]
    /\ UNCHANGED <<adapter, exitOk, reaped, out, printed, log, stopRequested, req>>
    /\ UNCHANGED <<pumpVars, coordVars, envVars>>

LogFails ==
    /\ logUp
    /\ logUp' = FALSE
    /\ UNCHANGED <<adapter, exitOk, reaped, out, printed, cmds, log, stopRequested, req, send>>
    /\ UNCHANGED <<pumpVars, coordVars, session, expired>>

Deadline ==
    /\ ~expired
    /\ expired' = TRUE
    /\ UNCHANGED <<adapter, exitOk, reaped, out, printed, cmds, log, stopRequested, req, send>>
    /\ UNCHANGED <<pumpVars, coordVars, logUp, session>>

Pump == pumpLine \/ pumpNoteDone \/ start \/ startFails \/ pumpFinish
Resolve(r) == decide(r) \/ submitDecision(r) \/ sendResponse(r) \/ resolveFatal(r)
Terminate == denyNext \/ policyStop
Send(t) == sendLock(t) \/ sendSubmit(t) \/ sendWrite(t)

Next ==
    \/ AdapterPrints \/ AdapterExits \/ reap \/ Pump \/ Terminate
    \/ \E r \in Reqs : Resolve(r)
    \/ \E t \in Texts : Send(t)
    \/ Stop \/ WaitCancelled \/ LogFails \/ Deadline

Spec == Init /\ [][Next]_vars

\* Goroutines that can run do run, and none of their steps is ever undone, so one
\* of them steps as long as one can; a decider answers by its deadline, because
\* decide() hands it the coordinator's context.  Nothing is assumed of the
\* adapter.
Progress == reap \/ Pump \/ Terminate \/ \E r \in Reqs : Resolve(r)

FairSpec == Spec /\ WF_vars(Progress)

----------------------------------------------------------------------------
\* Properties.

Count(s, T) == Cardinality({i \in DOMAIN s : s[i] \in T})
Responses(id, allows) == Count(cmds, [cmd : {"response"}, id : {id}, allow : allows])
Started(id) == Cardinality({r \in Reqs : req[r] # NoReq /\ req[r].id = id})
InFlight(id) == Cardinality({id} \cap pending) + Cardinality({id} \cap todo)

\* The adapter is never told "allow" more often than the log holds an allowing
\* policy/decision for that request: no unlogged allow, whatever fails.
AllowIsLogged ==
    \A id \in Ids : Responses(id, {TRUE}) <= Count(log, [ev : {"decision"}, id : {id}, allow : {TRUE}])

\* No request is answered twice, by its goroutine and by terminate() both, and
\* while the adapter lives none is dropped: a request whose id is not used again
\* is answered or still due to be.
AnsweredOnce ==
    \A id \in Ids :
        LET n == Responses(id, BOOLEAN) + InFlight(id) IN
        n <= Started(id) /\ (adapter = "run" /\ Started(id) = 1 => n = 1)

\* resolve and terminate: every answer is due, an allow by the log, each to one
\* request, and no live request goes without.
AnswersAreDue == AllowIsLogged /\ AnsweredOnce

\* approval.go:216 says that terminate() denies the triggering request and
\* every other pending one before it stops the adapter.
DeniedBeforePolicyStop ==
    [cmd |-> "stop", by |-> "policy"] \in {cmds[i] : i \in DOMAIN cmds} =>
        \A id \in Ids : Responses(id, BOOLEAN) = Started(id)

\* Wait reports a done status only if that done is durable, no handler error
\* and no termination preceded the end of the output, and a success only after
\* a clean exit.
ResultIsTrue ==
    pumpPc = "finished" /\ result = "ok" =>
        /\ exitOk /\ ~handlerErr
        /\ \E i \in DOMAIN log : log[i].ev = "done" /\ log[i].line.status = "ok"
        /\ \A i \in DOMAIN cmds : cmds[i] # [cmd |-> "stop", by |-> "policy"]

\* Messages reach the adapter in the order in which the log holds them, none twice
\* and none left out: each is logged, and all that were logged before it have
\* been told before it.
MessagesInLogOrder ==
    \A t \in Texts : \A j \in DOMAIN cmds : cmds[j] = Tell(t) =>
        /\ \A i \in DOMAIN cmds : cmds[i] = Tell(t) => i = j
        /\ \E l \in DOMAIN log :
             /\ log[l] = User(t)
             /\ \A k \in 1 .. l - 1 : \A u \in Texts :
                   log[k] = User(u) => \E i \in 1 .. j - 1 : cmds[i] = Tell(u)

\* A terminated session refuses Send and records nothing (SCP-T25-001).
NoMessageAfterDone ==
    \A i, j \in DOMAIN log : log[i].ev = "done" /\ log[j].ev = "user" => j < i

\* Wait gets its answer once the adapter is gone, every registered request
\* leaves the pending set, and a termination reaches the adapter, as a policy
\* stop or as a kill.  (An exit and a termination are for ever.)
WaitReturns ==
    <>[](/\ adapter = "exited" => result # "none"
         /\ pending = {}
         /\ terminated => adapter = "exited" \/ \E i \in DOMAIN cmds : cmds[i].cmd = "stop")
=============================================================================
