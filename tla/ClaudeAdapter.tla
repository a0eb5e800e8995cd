---------------------------- MODULE ClaudeAdapter ----------------------------
(***************************************************************************)
(* seams/subagent/claudecode: one task session of the Claude adapter.  Run   *)
(* reads the agent's output and emits events; monitorCommands reads the      *)
(* core's commands; one handler per approval hook waits for a decision; the  *)
(* goroutine of attach ends the approvals when the process has ended; in a   *)
(* world a timer stops the process when its token expires.  World tells the  *)
(* container branch (world_process.go, approval_world.go) from the host      *)
(* branch (adapter.go, approval_socket.go); both share approvalServer.       *)
(***************************************************************************)
EXTENDS StreamParser, SequencesExt

CONSTANTS Hooks,    \* tool calls of the agent, each with its approval hook
          MaxLines, \* bound: lines in the pipe
          MaxMessages, \* bound: messages of the core to a session of several turns
          Sessions  \* [world, multiturn, expires, hooks, says, usage, sends]: the branch, the
                    \* mode and the token's metadata,
                    \* the calls the agent makes, the other lines it may say, the usage of
                    \* its results, the commands the core may send besides its answers

ASSUME SessionsAssumption ==
    /\ MaxLines \in Nat \ {0} /\ MaxMessages \in Nat /\ MaxTokens \in Nat
    /\ \A s \in Sessions : s.world \in BOOLEAN /\ (s.multiturn => s.world) /\ s.hooks \subseteq Hooks

VARIABLES
    session,    \* one of Sessions, fixed
    native,     \* [st, kill, ok, said]: the agent's process and the lines it has said
    lines,      \* its output, not yet read
    hook,       \* hook -> [st, resp, dec, ans, delivered]
    pending, completed, approved,
    ready, done, closed, firstErr,      \* approvalServer
    attached,   \* steps of attach's goroutine: wait, deny, close, over
    mon,        \* [pc, cause, waits, sent]: monitorCommands; live (history): refused while the agent ran
    cmdErr,     \* its result channel
    parser, stop, sealed,       \* Parser
    run,        \* [pc, handler, result, cmd, stopped, term]: Run; result is pendingDone
    emitted,    \* the events on the wire but the last
    doneEvent,  \* the done event on the wire
    expiry,     \* armed, stopping, expired, over
    core        \* history: hook -> the core's response

approvals == <<pending, completed, ready, done, closed>>
adapter == <<session, mon, cmdErr, parser, stop, sealed, run, attached, expiry, core>>
vars == <<native, lines, hook, approvals, approved, firstErr, adapter, emitted, doneEvent>>

World == session.world

Init ==
    /\ session \in Sessions
    /\ native = [st |-> "running", kill |-> FALSE, ok |-> FALSE, said |-> <<>>]
    /\ lines = <<>>
    /\ hook = [h \in Hooks |-> [st |-> None, resp |-> None, dec |-> None, ans |-> None, delivered |-> FALSE]]
    /\ pending = {} /\ completed = {} /\ approved = {}
    /\ ready = FALSE /\ done = FALSE /\ closed = FALSE /\ firstErr = FALSE
    /\ attached = "wait" /\ mon = [pc |-> "read", cause |-> None, waits |-> {}, sent |-> 0, live |-> FALSE]
    /\ cmdErr = None /\ parser = NewParser(session.multiturn) /\ stop = FALSE /\ sealed = FALSE
    /\ run = [pc |-> "drain", handler |-> None, result |-> NoDone, cmd |-> None, stopped |-> FALSE, term |-> None]
    /\ emitted = {} /\ doneEvent = [status |-> None, api |-> FALSE, why |-> None]
    /\ expiry = IF World /\ session.expires THEN "armed" ELSE "over"
    /\ core = [h \in Hooks |-> None]

Running == native.st = "running"
Killed == IF Running THEN [native EXCEPT !.kill = TRUE] ELSE native

----------------------------------------------------------------------------
\* The agent.  It says init, the lines its session allows, each once, and the
\* calls and results of its hooks.

Said(k, h) == Contains(native.said, <<k, h>>)

Say(k, h) ==
    /\ Running /\ ~Said(k, h) /\ Len(lines) < MaxLines
    /\ native' = [native EXCEPT !.said = Append(@, <<k, h>>)]
    /\ lines' = Append(lines, <<k, h>>)

Ends == SelectSeq(native.said, LAMBDA l : l[1] = "end")

\* It has answered the task and every message.
Ended == Len(Ends) > mon.sent

Answered == \A h \in Hooks : Said("call", h) => hook[h].ans # None

AgentSays ==
    /\ ~Ended
    /\ \/ Say("init", "s1")
       \/ Said("init", "s1") /\ \E l \in session.says :
             /\ l[1] # "late" /\ l[1] # "res" /\ (l[1] = "end" => Answered)
             /\ Say(l[1], l[2])
       \/ \E h \in Hooks : hook[h].ans # None /\ Say("res", h)
    /\ UNCHANGED <<hook, approvals, approved, firstErr, adapter, emitted, doneEvent>>

\* A line that nobody waits for.
AgentSaysLate ==
    /\ Ended /\ <<"late", None>> \in session.says /\ Say("bad", None)
    /\ UNCHANGED <<hook, approvals, approved, firstErr, adapter, emitted, doneEvent>>

\* A tool call: its line, and its hook.
AgentAsks(h) ==
    /\ h \in session.hooks /\ ~Ended /\ Said("init", "s1") /\ hook[h].st = None
    /\ Say("call", h)
    /\ hook' = [hook EXCEPT ![h].st = "asked"]
    /\ UNCHANGED <<approvals, approved, firstErr, adapter, emitted, doneEvent>>

\* A tool that ran although nobody was asked.
AgentBypasses(h) ==
    /\ <<"res", h>> \in session.says /\ ~Ended /\ Said("init", "s1") /\ hook[h].st = None
    /\ Say("res", h)
    /\ hook' = [hook EXCEPT ![h].st = "bypassed"]
    /\ UNCHANGED <<approvals, approved, firstErr, adapter, emitted, doneEvent>>

\* It ends by itself, crashes, or is killed; without a result the code makes no
\* difference between exits.
AgentExits ==
    /\ Running
    /\ \E ok \in BOOLEAN : (ok => ~native.kill /\ Ends # <<>>) /\ native' = [native EXCEPT !.st = "exited", !.ok = ok]
    /\ UNCHANGED <<lines, hook, approvals, approved, firstErr, adapter, emitted, doneEvent>>

----------------------------------------------------------------------------
\* A hook's handler (handle, and pollOne in a world).

ReportKills == Killed

Report == firstErr' = (firstErr \/ ~done) /\ native' = IF done THEN native ELSE ReportKills

\* begin up to the registration, behind the readiness gate.
begin(h) ==
    /\ hook[h].st = "asked" /\ (ready \/ done)
    /\ \/ /\ ready /\ ~closed
          /\ pending' = pending \cup {h}
          /\ hook' = [hook EXCEPT ![h].st = "begun"]
          /\ UNCHANGED <<native, firstErr>>
       \/ /\ (~ready \/ closed) /\ Report
          /\ hook' = [hook EXCEPT ![h].st = "over"]
          /\ UNCHANGED pending
    /\ UNCHANGED <<lines, completed, ready, done, closed, approved, adapter, emitted, doneEvent>>

\* ... and its event.
emitRequest(h) ==
    /\ hook[h].st = "begun"
    /\ emitted' = emitted \cup {<<"req", h>>}
    /\ hook' = [hook EXCEPT ![h].st = "waiting"]
    /\ UNCHANGED <<native, lines, approvals, approved, firstErr, adapter, doneEvent>>

Decision(h) == IF hook[h].resp # None THEN {hook[h].resp} ELSE {}

\* Slip: a decision leaves no mark in the gate's ledger.
markApprovalDecisionSentNot(h) == UNCHANGED approved

markApprovalDecisionSent(h) == approved' = approved \cup {h}

\* The mark precedes the write that lets the agent go on.
awaitDecision(h) ==
    /\ hook[h].st = "waiting"
    /\ \E d \in Decision(h) \cup (IF done THEN {"deny"} ELSE {}) :
          hook' = [hook EXCEPT ![h].st = "marked", ![h].dec = d]
    /\ markApprovalDecisionSent(h)
    /\ UNCHANGED <<native, lines, approvals, firstErr, adapter, emitted, doneEvent>>

HandlerFails(h) == Report /\ hook' = [hook EXCEPT ![h].st = "over"]

writeDecision(h) ==
    /\ hook[h].st = "marked"
    /\ \/ /\ Running /\ ~closed
          /\ hook' = [hook EXCEPT ![h].st = "sent", ![h].ans = hook[h].dec]
          /\ UNCHANGED <<native, firstErr>>
       \/ HandlerFails(h)
    /\ UNCHANGED <<lines, approvals, approved, adapter, emitted, doneEvent>>

\* hxapprove's acknowledgement, or its loss.
readAck(h) ==
    /\ hook[h].st = "sent"
    /\ \/ /\ hook' = [hook EXCEPT ![h].st = "over", ![h].delivered = TRUE]
          /\ pending' = pending \ {h} /\ completed' = completed \cup {h}
          /\ UNCHANGED <<native, firstErr>>
       \/ HandlerFails(h) /\ UNCHANGED <<pending, completed>>
    /\ UNCHANGED <<lines, ready, done, closed, approved, adapter, emitted, doneEvent>>

----------------------------------------------------------------------------
\* denyAll: every pending hook becomes completed, the unanswered are denied.

Unanswered == {h \in pending : hook[h].resp = None}

LeftPending == {}

Denial == "deny"

denyAll ==
    /\ pending' = LeftPending /\ completed' = completed \cup pending
    /\ hook' = [h \in Hooks |-> IF h \in Unanswered THEN [hook[h] EXCEPT !.resp = Denial] ELSE hook[h]]

\* Slip: done is left open.
DoneAtExitNot == done

DoneAtExit == TRUE

\* attach's goroutine: close done, deny, close the network.
attachDone ==
    /\ attached = "wait" /\ ~Running
    /\ attached' = "deny" /\ done' = DoneAtExit
    /\ UNCHANGED <<native, lines, hook, pending, completed, ready, closed, approved, firstErr, mon, cmdErr,
                   parser, stop, sealed, run, expiry, core, emitted, doneEvent, session>>
attachDeny ==
    /\ attached = "deny" /\ attached' = "close" /\ denyAll
    /\ UNCHANGED <<native, lines, ready, done, closed, approved, firstErr, mon, cmdErr, parser, stop, sealed, run,
                   expiry, core, emitted, doneEvent, session>>
attachClose ==
    /\ attached = "close" /\ attached' = "over" /\ closed' = TRUE
    /\ UNCHANGED <<native, lines, hook, pending, completed, ready, done, approved, firstErr, mon, cmdErr,
                   parser, stop, sealed, run, expiry, core, emitted, doneEvent, session>>

----------------------------------------------------------------------------
\* monitorCommands.

\* Slip: a stop is noted although the terminal status is sealed.
NoteStopAlways == TRUE

NoteStop == stop \/ ~sealed

readStop ==
    /\ "stop" \in session.sends /\ mon.pc = "read" /\ run.pc # "returned"
    /\ stop' = NoteStop
    /\ mon' = [mon EXCEPT !.pc = "deny", !.cause = "nil"]
    /\ UNCHANGED <<native, lines, hook, approvals, approved, firstErr, cmdErr, parser, sealed, run, attached, expiry, core, emitted, doneEvent, session>>

\* A command that is refused: invalid, a message, a second task, end of input.
readBad ==
    /\ "bad" \in session.sends /\ mon.pc = "read" /\ run.pc # "returned"
    /\ mon' = [mon EXCEPT !.pc = "deny", !.cause = "error", !.live = Running]
    /\ UNCHANGED <<native, lines, hook, approvals, approved, firstErr, cmdErr, parser, stop, sealed, run, attached, expiry, core, emitted, doneEvent, session>>

\* A message to a session of several turns goes to the agent's stdin once the
\* first turn is there, unless the adapter is through; a write that fails is an
\* error like those of readBad.
readMessage ==
    /\ mon.pc = "read" /\ run.pc # "returned" /\ session.multiturn /\ "message" \in session.sends
    /\ \/ Running /\ mon.sent < MaxMessages /\ mon' = [mon EXCEPT !.sent = @ + 1] /\ UNCHANGED cmdErr
       \/ run.pc # "drain" /\ mon' = [mon EXCEPT !.pc = "over"] /\ cmdErr' = "nil"
    /\ UNCHANGED <<native, lines, hook, approvals, approved, firstErr, parser, stop, sealed, run, attached, expiry, core, emitted, doneEvent, session>>

\* The core answers each request once (see Subagent).
readResponse(h, d) ==
    /\ mon.pc = "read" /\ run.pc # "returned"
    /\ <<"req", h>> \in emitted /\ core[h] = None
    /\ core' = [core EXCEPT ![h] = d]
    /\ \/ /\ h \in pending /\ hook[h].resp = None
          /\ hook' = [hook EXCEPT ![h].resp = d] /\ UNCHANGED mon
       \/ /\ ~(h \in pending /\ hook[h].resp = None)
          /\ mon' = [mon EXCEPT !.pc = "deny", !.cause = "error", !.live = Running] /\ UNCHANGED hook
    /\ UNCHANGED <<native, lines, approvals, approved, firstErr, cmdErr, parser, stop, sealed, run, attached, expiry, emitted, doneEvent, session>>

monDenies ==
    /\ mon.pc = "deny" /\ denyAll
    /\ mon' = [mon EXCEPT !.pc = "wait", !.waits = Unanswered]
    /\ UNCHANGED <<native, lines, ready, done, closed, approved, firstErr, cmdErr, parser, stop, sealed, run, attached,
                   expiry, core, emitted, doneEvent, session>>

WaitEnds == done \/ \A h \in mon.waits : hook[h].delivered

monPublishes ==
    /\ mon.pc = "wait" /\ WaitEnds
    /\ cmdErr' = mon.cause
    /\ mon' = [mon EXCEPT !.pc = "kill"]
    /\ UNCHANGED <<native, lines, hook, approvals, approved, firstErr, parser, stop, sealed, run, attached, expiry, core, emitted, doneEvent, session>>

monKills ==
    /\ mon.pc = "kill" /\ native' = Killed
    /\ mon' = [mon EXCEPT !.pc = "over"]
    /\ UNCHANGED <<lines, hook, approvals, approved, firstErr, cmdErr, parser, stop, sealed, run, attached, expiry, core, emitted, doneEvent, session>>

----------------------------------------------------------------------------
\* The token's expiry: stop the process, then tell.

Expire ==
    /\ expiry = "armed" /\ Running
    /\ expiry' = "stopping" /\ native' = Killed
    /\ UNCHANGED <<lines, hook, approvals, approved, firstErr, mon, cmdErr, parser, stop, sealed, run, attached, core, emitted, doneEvent, session>>
ExpireTells ==
    /\ expiry = "stopping" /\ run.pc # "returned" /\ expiry' = "expired"
    /\ UNCHANGED <<native, lines, hook, approvals, approved, firstErr, mon, cmdErr, parser, stop, sealed, run, attached, core, emitted, doneEvent, session>>

----------------------------------------------------------------------------
\* Run.

Bypasses(e) == e[1] = "res" /\ e[2] \notin approved

HandlerErr(why, events) ==
    run' = [run EXCEPT !.handler = why] /\ emitted' = emitted \cup events /\ native' = Killed /\ UNCHANGED ready

\* registerIntent may fail in a world; done is kept for the end.
forward(events) ==
    LET wire == {e \in events : e[1] # "done"}
        dones == {e[2] : e \in events \ wire}
    IN  \/ World /\ (\E e \in wire : e[1] = "call") /\ HandlerErr("native", {})
        \/ (\E e \in wire : Bypasses(e)) /\ HandlerErr("bypass", wire)
        \/ /\ ~\E e \in wire : Bypasses(e)
           /\ run' = [run EXCEPT !.result = IF dones = {} THEN @ ELSE CHOOSE d \in dones : TRUE]
           /\ emitted' = emitted \cup wire /\ ready' = (ready \/ <<"ready", None>> \in wire)
           /\ UNCHANGED native

\* One line: ParseLine, and its events.
drainLine ==
    /\ run.pc = "drain" /\ lines # <<>>
    /\ lines' = Tail(lines)
    /\ LET r == ParseLine(parser, Head(lines), session.usage, stop)
       IN  \/ run.handler # None /\ UNCHANGED <<native, ready, run, emitted, parser>>
           \/ run.handler = None /\ r.ok /\ parser' = r.parser /\ forward(r.events)
           \/ run.handler = None /\ ~r.ok /\ parser' = r.parser /\ HandlerErr("native", {})
    /\ UNCHANGED <<hook, pending, completed, done, closed, approved, firstErr, mon, cmdErr, stop, sealed,
                   attached, expiry, core, doneEvent, session>>

RunStep(pc, next) == run.pc = pc /\ run' = next
RunLeaves == UNCHANGED <<lines, hook, pending, completed, done, closed, approved, firstErr, mon, stop,
                         attached, expiry, core, session>>
RunKeeps == RunLeaves /\ UNCHANGED parser

\* The output has ended, or (in a world) is given up after an error; the
\* process is awaited.
drained ==
    /\ RunStep("drain", [run EXCEPT !.pc = "select"])
    /\ ~Running /\ (lines = <<>> \/ (World /\ run.handler # None))
    /\ UNCHANGED <<native, cmdErr, sealed, ready, emitted, doneEvent>> /\ RunKeeps

\* The select on commandErr has a default; a session of several turns ends with
\* the last of them.
selectCommandErr ==
    /\ LET turnDone == IF run.result = NoDone /\ run.handler = None THEN TurnDone(parser, stop) ELSE run.result
       IN  /\ RunStep("select", [run EXCEPT !.pc = "seal", !.cmd = cmdErr, !.result = turnDone])
           /\ parser' = [parser EXCEPT !.done = turnDone # NoDone]
    /\ UNCHANGED <<native, cmdErr, sealed, ready, emitted, doneEvent>> /\ RunLeaves

SealTerminal ==
    /\ RunStep("seal", [run EXCEPT !.pc = "judge", !.stopped = stop])
    /\ sealed' = TRUE
    /\ UNCHANGED <<native, cmdErr, ready, emitted, doneEvent>> /\ RunKeeps

\* Handler error, expiry, command error, handshake error, in this order; a
\* bypass survives the expiry.
TerminalErr ==
    IF run.handler = "bypass" THEN "bypass"
    ELSE IF expiry = "expired" THEN "expired"
    ELSE IF run.handler # None THEN run.handler
    ELSE IF run.cmd = "error" THEN "command"
    ELSE IF firstErr THEN "handshake" ELSE None

\* Without ready an error ends silently, except for a failed authentication;
\* without error ready is made up.
judge ==
    /\ \/ /\ TerminalErr # None /\ ~ready
          /\ \/ RunStep("judge", [run EXCEPT !.pc = "close", !.term = TerminalErr])
             \/ World /\ RunStep("judge", [run EXCEPT !.pc = "ready", !.term = "auth"])
       \/ (TerminalErr # None \/ ready) /\ ready /\ RunStep("judge", [run EXCEPT !.pc = "done", !.term = TerminalErr])
       \/ TerminalErr = None /\ ~ready /\ RunStep("judge", [run EXCEPT !.pc = "ready"])
    /\ UNCHANGED <<native, cmdErr, sealed, ready, emitted, doneEvent>> /\ RunKeeps

emitReady ==
    /\ RunStep("ready", [run EXCEPT !.pc = "done"])
    /\ emitted' = emitted \cup {<<"ready", None>>} /\ ready' = TRUE
    /\ UNCHANGED <<native, cmdErr, sealed, doneEvent>> /\ RunKeeps

StoppedWins == run.stopped /\ run.term # "bypass"

finishNative ==
    CASE run.stopped -> [run.result EXCEPT !.status = "stopped"]
      [] ~run.stopped /\ (run.result = NoDone \/ ~native.ok) -> [run.result EXCEPT !.status = "error"]
      [] OTHER -> run.result

emitFailureDone == [status |-> IF StoppedWins THEN "stopped" ELSE "error", api |-> FALSE]

emitDone ==
    /\ RunStep("done", [run EXCEPT !.pc = "close"])
    /\ LET d == IF run.term # None THEN emitFailureDone ELSE WithAPIErrorDone(finishNative, parser.apiError)
       IN  doneEvent' = [status |-> d.status, api |-> d.api, why |-> run.term]
    /\ UNCHANGED <<native, cmdErr, sealed, ready, emitted>> /\ RunKeeps

\* approvals.Close: denies (in a world), closes, and waits for the handlers.
Close ==
    /\ run.pc = "close" /\ run' = [run EXCEPT !.pc = "closing"]
    /\ closed' = TRUE /\ done' = (done \/ World)
    /\ IF World THEN denyAll ELSE UNCHANGED <<pending, completed, hook>>
    /\ UNCHANGED <<native, lines, ready, approved, firstErr, mon, cmdErr, parser, stop, sealed, attached, expiry, core, emitted, doneEvent, session>>

Handling == {"begun", "waiting", "marked", "sent"}

CloseReturns ==
    /\ RunStep("closing", [run EXCEPT !.pc = "returned"])
    /\ \A h \in Hooks : hook[h].st \notin Handling
    /\ UNCHANGED <<native, cmdErr, sealed, ready, emitted, doneEvent>> /\ RunKeeps

----------------------------------------------------------------------------
Handler(h) ==
    \/ begin(h) \/ emitRequest(h) \/ awaitDecision(h)
    \/ writeDecision(h) \/ readAck(h)

\* When Run returns the process ends, and its goroutines with it.
Alive == run.pc # "returned"

Attach == Alive /\ (attachDone \/ attachDeny \/ attachClose)
Monitor == Alive /\ (monDenies \/ monPublishes \/ monKills)
Run == drainLine \/ drained \/ selectCommandErr \/ SealTerminal \/ judge \/ emitReady \/ emitDone \/ Close \/ CloseReturns

Next ==
    \/ AgentSays \/ AgentExits \/ Attach \/ Monitor \/ Run
    \/ AgentSaysLate \/ readStop \/ readBad \/ readMessage \/ Expire \/ ExpireTells
    \/ \E h \in Hooks : \/ AgentAsks(h) \/ AgentBypasses(h) \/ Handler(h)
                        \/ \E d \in {"allow", "deny"} : readResponse(h, d)

Spec == Init /\ [][Next]_vars

\* The adapter's goroutines run; a killed process exits, hxapprove answers or
\* its connection is lost.  The agent and the core may do nothing.
Progress ==
    \/ Attach \/ Monitor \/ Run \/ ExpireTells \/ (native.kill /\ AgentExits)
    \/ \E h \in Hooks : Handler(h)

\* None of these steps is ever undone, so that it is enough that one of them is
\* taken as long as one can be.
FairSpec == Spec /\ WF_vars(Progress)

----------------------------------------------------------------------------
\* Properties.

\* A stop that was accepted before the terminal status was sealed is reported,
\* unless the approval gate was bypassed (adapter.go:424).
StopIsReported ==
    stop /\ doneEvent.status # None => doneEvent.status = "stopped" \/ doneEvent.why = "bypass"

\* A tool result that nobody was asked about ends the session with that error,
\* whatever stop, expiry or command error races it; and a result that follows a
\* hook's decision is never taken for one.
BypassIsReported ==
    /\ \A h \in Hooks : hook[h].st = "bypassed" /\ <<"res", h>> \in emitted /\ doneEvent.status # None
                         => doneEvent.status = "error" /\ doneEvent.why = "bypass"
    /\ run.handler = "bypass" => \E h \in Hooks : hook[h].st = "bypassed"

\* The tools' results on the wire are what happened: a call has at most one, and
\* the tokens of a result are the sum of its fields, never a sum that wrapped.
EventsAreTrue ==
    /\ \A e, f \in emitted : e[1] \in ToolResults /\ f[1] \in ToolResults /\ e[2] = f[2] => e = f
    /\ \A e \in emitted, u \in session.usage : e[1] = "usage" /\ e[2] # NoTokens =>
          /\ e[2].input \in 0 .. MaxTokens
          /\ e[2].input \in {n + c + r : n \in u.input, c \in Field(u.creation), r \in Field(u.read)}

Speaks(l) == l[1] \in {"text", "think", "call"}

\* An error of the API that nothing of the assistant followed, in the turn of the
\* last result or after it, is in the terminal event, and no session ends well
\* over it; a session whose last result is a success without one, and whose
\* process ended well, ends well.
DoneIsTrue ==
    doneEvent.status # None /\ doneEvent.why = None =>
        LET said == native.said
            end == {i \in DOMAIN said : said[i][1] = "end"}
            last == Max(end \cup {0})
            before == Max((end \ {last}) \cup {0})
            Settled(i) == \E j \in i + 1 .. Len(said) : Speaks(said[j]) /\ (i < last => j < last)
            APIError == \E i \in before + 1 .. Len(said) : said[i][1] = "apierr" /\ ~Settled(i)
        IN  /\ doneEvent.api = APIError
            /\ ~run.stopped => (doneEvent.status = "ok" <=> last > 0 /\ said[last][2] = "ok" /\ native.ok /\ ~APIError)

\* Nothing follows done (adapter.go:392).
DoneIsLast == [][doneEvent.status # None => emitted' = emitted]_vars

\* A command that is refused while the agent waits for a hook ends the session
\* with an error: the cause is published before the kill (adapter.go:533).
CommandErrorIsKept == mon.live /\ mon.cause = "error" /\ mon.waits # {} => doneEvent.status # "ok"

\* A session whose token expired says so (docs/t15-smoke-runbook.md:83).
ExpiryIsReported ==
    expiry \in {"stopping", "expired"} /\ doneEvent.status # None => doneEvent.why \in {"expired", "bypass", "auth"}

StopDue == mon.pc \notin {"read", "over"} \/ native.kill \/ ~Running

\* Once a stop or a refused command has been read, or the process is killed or has
\* ended (all of which last), Run returns, after the process.
RunReturns == <>[](StopDue => run.pc = "returned" /\ ~Running)
=============================================================================
