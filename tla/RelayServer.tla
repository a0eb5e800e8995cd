---------------------------- MODULE RelayServer ----------------------------
(***************************************************************************)
(* The relay's socket as one server: approval decisions (ApprovalRelay) and *)
(* session control (RelaySession) share its connections, each of which      *)
(* carries one call, the session's log and the launch that arms them.       *)
(***************************************************************************)
EXTENDS ApprovalRelay

CONSTANTS StopIds,    \* stop ids operators may use
          Reasons     \* stop reasons they may give

VARIABLES phase, handlers, ref, stops, call, stopped,
          messages    \* user/message and subagent/done of the session log

Session == INSTANCE RelaySession WITH log <- messages

sessionVars == <<phase, handlers, ref, stops, call, stopped, messages>>
serverVars == <<vars, sessionVars>>

ServerInit == Init /\ Session!Init

Unused(c) == msgs[c] = NoMessage /\ call[c] = Session!NoCall

\* A request reaches the coordinator from a subagent that runs.
TakenUp(r) == stage[r] = "none" => phase = "running"

Submit == \E c \in Calls, m \in Messages : Unused(c) /\ submit(c, m) /\ UNCHANGED sessionVars
ResolveStep(r) == TakenUp(r) /\ Resolve(r) /\ UNCHANGED sessionVars
Environment == (LeaseEnds \/ LogFails) /\ UNCHANGED sessionVars

\* Nothing is recorded once the log is down.
Recordable == logUp \/ UNCHANGED messages
LaunchStep == Session!Launch /\ Recordable /\ UNCHANGED vars
SessionCall == \E c \in Calls : msgs[c] = NoMessage /\ Session!Serve(c) /\ Recordable /\ UNCHANGED vars

ServerNext ==
    \/ Submit \/ SessionCall \/ LaunchStep \/ Environment
    \/ \E r \in Requests : ResolveStep(r)

ServerSpec == ServerInit /\ [][ServerNext]_serverVars

----------------------------------------------------------------------------
\* Properties of the session operations, as the socket's users see them.

\* The session is told to stop at most once per stop id, and a receipt, once
\* given, never changes, so that a query repeats what the stop was told.
StopOnce ==
    [][/\ \A i, j \in DOMAIN stopped' : stopped'[i] = stopped'[j] => i = j
       /\ \A s \in StopIds : stops[s] # Session!NoReceipt => stops'[s] = stops[s]]_serverVars

\* An operator can retry safely: the answer tells whether the message is in
\* the log, and it is there at most once, also when the log fails meanwhile.
MessageAnswerIsTrue ==
    \A c \in Calls : Session!Answered(c, "send") =>
        Cardinality({i \in DOMAIN messages : messages[i] = [ev |-> "user", by |-> c]}) =
            IF call[c].status = "message_accepted" \/ call[c].reason = "DELIVERY_FAILED" THEN 1 ELSE 0

\* The stop operation is idempotent per stop id: the same call twice is
\* answered alike.
StopIdempotent ==
    \A c, d \in Calls :
        /\ Session!Answered(c, "stop") /\ Session!Answered(d, "stop")
        /\ call[c].id = call[d].id /\ call[c].why = call[d].why
        => call[c].status = call[d].status

\* Whoever is told stop_accepted knows that the callback has completed.
AcceptedStopDelivered ==
    \A c \in Calls : Session!Answered(c, "stop") /\ call[c].status = "stop_accepted" =>
        \E i \in DOMAIN stopped : stopped[i] = call[c].id
=============================================================================
