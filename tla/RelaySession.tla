---------------------------- MODULE RelaySession ----------------------------
(***************************************************************************)
(* The session operations of the relay socket (seams/approvalrelay) and the *)
(* part of worldLauncher.Launch that arms them: the server listens before   *)
(* the subagent exists, the stop handler and the message handler are set    *)
(* once it runs, the terminal reference only after its lifecycle.  Any      *)
(* number of connections call stop and send_message meanwhile.              *)
(***************************************************************************)
EXTENDS Naturals, Sequences, FiniteSets

CONSTANTS Calls,      \* bound: connections
          StopIds,    \* stop ids operators may use
          Reasons     \* stop reasons they may give, "parent_done" among them

VARIABLES
    phase,      \* starting | running | done | failed | terminal : Launch
    handlers,   \* which of the handlers are installed
    ref,        \* terminalRef, 0 while unset
    stops,      \* stop id -> receipt
    call,       \* connection -> what it asked, where it is, what it was told
    stopped,    \* history: stop ids whose callback has run, in order
    log         \* user/message and subagent/done of this session

vars == <<phase, handlers, ref, stops, call, stopped, log>>

NoReceipt == [status |-> "none", reason |-> ""]
NoCall == [op |-> "none"]
DoneSeq == 1      \* the seq of subagent/done; only its being set matters

Init ==
    /\ phase = "starting" /\ handlers = {} /\ ref = 0
    /\ stops = [s \in StopIds |-> NoReceipt]
    /\ call = [c \in Calls |-> NoCall]
    /\ stopped = <<>> /\ log = <<>>

----------------------------------------------------------------------------
\* Launch.  After the subagent has started the handlers go in one by one.

StartWorld ==
    /\ phase = "starting"
    /\ phase' \in {"running", "failed"}
    /\ UNCHANGED <<handlers, ref, stops, call, stopped, log>>

SetHandler(h) ==
    /\ phase \in {"running", "done"} /\ h \notin handlers
    /\ h = "message" => "stop" \in handlers
    /\ handlers' = handlers \cup {h}
    /\ UNCHANGED <<phase, ref, stops, call, stopped, log>>

\* subagent/done becomes durable; the lifecycle goes on to its end.
SubagentDone ==
    /\ phase = "running"
    /\ phase' = "done" /\ log' = Append(log, [ev |-> "done"])
    /\ UNCHANGED <<handlers, ref, stops, call, stopped>>

LifecycleFails ==
    /\ phase \in {"running", "done"} /\ handlers = {"stop", "message"}
    /\ phase' = "failed"
    /\ UNCHANGED <<handlers, ref, stops, call, stopped, log>>

MarkTerminal ==
    /\ phase = "done" /\ handlers = {"stop", "message"}
    /\ phase' = "terminal" /\ ref' = DoneSeq
    /\ UNCHANGED <<handlers, stops, call, stopped, log>>

----------------------------------------------------------------------------
\* stop: the receipt under the mutex, the callback outside it, then the reply.

\* budget_exceeded and policy have no validator in production, and parent_done
\* is never an operator's to give.
Authorized(why) == why \notin {"parent_done", "budget_exceeded", "policy"}

NewReceipt(why) ==
    IF ref # 0 THEN [status |-> "already_terminal", reason |-> ""]
    ELSE [status |-> "stop_accepted", reason |-> why]

First(s) == stops[s] = NoReceipt

\* Slip: the callback runs for repeated stops too.
CallbackAlways(s, r) == r.status = "stop_accepted" /\ "stop" \in handlers

\* A callback is due for the first acceptance, if a handler is set.
Callback(s, r) == r.status = "stop_accepted" /\ "stop" \in handlers /\ stops[s] = NoReceipt

handleStop(c, s, why) ==
    /\ call[c] = NoCall
    /\ LET reply(r) == [op |-> "stop", id |-> s, why |-> why, status |-> r.status, reason |-> r.reason,
                        pc |-> IF Callback(s, r) THEN "callback" ELSE "told"]
           error(e) == reply([status |-> "error", reason |-> e])
       IN  \/ /\ ~First(s)
              /\ call' = [call EXCEPT ![c] =
                            IF stops[s].reason = why THEN reply(stops[s]) ELSE error("STOP_CONFLICT")]
              /\ UNCHANGED stops
           \/ /\ First(s) /\ ~Authorized(why)
              /\ call' = [call EXCEPT ![c] = error("UNAUTHORIZED")]
              /\ UNCHANGED stops
           \/ /\ First(s) /\ Authorized(why)
              /\ stops' = [stops EXCEPT ![s] = NewReceipt(why)]
              /\ call' = [call EXCEPT ![c] = reply(NewReceipt(why))]
    /\ UNCHANGED <<phase, handlers, ref, stopped, log>>

runCallback(c) ==
    /\ call[c] # NoCall /\ call[c].pc = "callback"
    /\ stopped' = Append(stopped, call[c].id)
    /\ call' = [call EXCEPT ![c].pc = "told"]
    /\ UNCHANGED <<phase, handlers, ref, stops, log>>

----------------------------------------------------------------------------
\* send_message: a snapshot under the mutex, the handler outside it.

handleSendMessage(c) ==
    /\ call[c] = NoCall
    /\ LET told(why) == [op |-> "send", status |-> "error", reason |-> why, pc |-> "told"] IN
       call' = [call EXCEPT ![c] =
           CASE ref # 0 -> told("SESSION_TERMINAL")
             [] ref = 0 /\ "message" \notin handlers -> told("SESSION_NOT_READY")
             [] OTHER -> [told("") EXCEPT !.pc = "handler"]]
    /\ UNCHANGED <<phase, handlers, ref, stops, stopped, log>>

\* Slip: a recorded message whose delivery failed is reported like one that
\* was never recorded.
UndeliveredVague == "LOG_UNAVAILABLE"

Undelivered == "DELIVERY_FAILED"

\* sessionMessageHandler -> Subagent.Send, its check.  A session stopped
\* through this socket is refused; one stopped by a signal or a budget, or that
\* is done, may be too.
sendCheck(c) ==
    /\ call[c] # NoCall /\ call[c].pc = "handler"
    /\ \/ call' = [call EXCEPT ![c].pc = "told", ![c].reason = "SESSION_TERMINAL"]
       \/ stopped = <<>> /\ call' = [call EXCEPT ![c].pc = "sending"]
    /\ UNCHANGED <<phase, handlers, ref, stops, stopped, log>>

\* The rest of Send under sendMu: not recorded, recorded and not delivered, or
\* delivered.
sendRecord(c) ==
    /\ call[c] # NoCall /\ call[c].pc = "sending"
    /\ LET told(st, why) == call' = [call EXCEPT ![c].pc = "told", ![c].status = st, ![c].reason = why]
           record == log' = Append(log, [ev |-> "user", by |-> c])
       IN  \/ told("error", "LOG_UNAVAILABLE") /\ UNCHANGED log
           \/ told("error", Undelivered) /\ record
           \/ told("message_accepted", "") /\ record
    /\ UNCHANGED <<phase, handlers, ref, stops, stopped>>

----------------------------------------------------------------------------
Launch ==
    \/ StartWorld \/ SubagentDone \/ LifecycleFails \/ MarkTerminal
    \/ \E h \in {"stop", "message"} : SetHandler(h)
Serve(c) ==
    \/ \E s \in StopIds, why \in Reasons : handleStop(c, s, why)
    \/ runCallback(c) \/ handleSendMessage(c) \/ sendCheck(c) \/ sendRecord(c)

Next == Launch \/ \E c \in Calls : Serve(c)

Spec == Init /\ [][Next]_vars

----------------------------------------------------------------------------
\* Connection c has the answer to its op.
Answered(c, op) == call[c] # NoCall /\ call[c].op = op /\ call[c].pc = "told"
=============================================================================
