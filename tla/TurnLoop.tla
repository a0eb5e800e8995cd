------------------------------ MODULE TurnLoop ------------------------------
(***************************************************************************)
(* core/loop: one session's turn/step state machine and its four hook      *)
(* points.  RunTurn is sequential; what interferes is its context, which a *)
(* caller or a hook may cancel at any point, and the log writer, which may  *)
(* fail for good or refuse an event.  The model, the tools and the hooks   *)
(* are external and return anything.                                       *)
(***************************************************************************)
EXTENDS Naturals, Sequences, FiniteSets, FiniteSetsExt

\* The loops to consider: the hooks registered per point, the step limit of a
\* turn, and as bounds the tool calls of one model response and the calls of
\* RunTurn.
CONSTANT Loops

VARIABLES
    log,        \* durable events
    logUp,      \* the writer still writes
    ctxDone,    \* the context of this RunTurn is cancelled
    loop,       \* [hooks, maxSteps, maxCalls, maxTurns], fixed
    pc, point,  \* where RunTurn is, and the hook point it is at
    failed,     \* RunTurn is on its way out with an error
    steps, asked, calls,    \* steps taken; tool calls of the response, and those left
    subject,    \* the payload in flight: request, call or output
    status,     \* of the tool result to record
    decs, n,    \* verdicts of the point, and how many are recorded
    turns,
    saw,        \* history: requests the model received, with the log length then
    ran         \* history: tool executions, with the log length then

ctlVars == <<steps, asked, calls, decs, n, turns, loop>>
vars == <<log, logUp, ctxDone, pc, point, failed, subject, status, saw, ran, ctlVars>>

Points == {"pre_step", "pre_tool", "post_tool", "turn_stopping"}
ASSUME LoopsAssumption ==
    \A l \in Loops : l.hooks \in [Points -> Nat] /\ {l.maxSteps, l.maxCalls, l.maxTurns} \subseteq Nat

Decisions == {"continue", "rewrite", "reject", "invalid"}

\* Kinds whose payload comes from the model and may fail the writer's schema.
Refusable == {"assistant", "tool/call"}

\* A payload: a request is a history, anything else a token.
Request(msgs) == [msgs |-> msgs, val |-> <<>>]
Token(val) == [msgs |-> <<>>, val |-> val]
Empty == Token(<<>>)

\* The model-visible projection of a log: what it keeps, at its positions.
Visible == {"user", "assistant", "tool/call", "tool/result"}
Messages(l) == [i \in {j \in DOMAIN l : l[j].kind \in Visible} |-> l[i]]

Init ==
    /\ log = <<[kind |-> "session/start"]>> /\ logUp = TRUE /\ ctxDone = FALSE
    /\ loop \in Loops
    /\ pc = "idle" /\ point = "pre_step" /\ failed = FALSE
    /\ steps = 0 /\ asked = 0 /\ calls = 0
    /\ subject = Empty /\ status = "ok" /\ decs = <<>> /\ n = 0 /\ turns = 0
    /\ saw = <<>> /\ ran = <<>>

----------------------------------------------------------------------------
\* Recording an event.

InStep ==
    \/ pc \in {"model", "assistant", "call", "invoke", "result"}
    \/ pc \in {"judge", "record"} /\ point \in {"pre_tool", "post_tool"}

\* An error leaves through the deferred boundaries that are open.
Fail == failed' = TRUE /\ pc' = IF InStep THEN "stepEnd" ELSE "turnEnd"

\* Slip: the caller's context decides about boundaries and verdicts too.
MayLoseAny(e, durable) == ~logUp \/ ctxDone \/ e.kind \in Refusable

\* When Submit may come back without having recorded the event.
MayLose(e, durable) == ~logUp \/ (ctxDone /\ ~durable) \/ e.kind \in Refusable

\* emit: recorded, or an error.
Recorded(e) == logUp /\ log' = Append(log, e)
Lost(e, durable) == MayLose(e, durable) /\ UNCHANGED log

emit(e, next) ==
    \/ Recorded(e) /\ pc' = next /\ UNCHANGED failed
    \/ Lost(e, FALSE) /\ Fail

----------------------------------------------------------------------------
\* RunTurn.

RunTurn ==
    /\ pc = "idle" /\ turns < loop.maxTurns
    /\ turns' = turns + 1 /\ ctxDone' = FALSE /\ failed' = FALSE
    /\ pc' = "turnStart" /\ steps' = 0
    /\ UNCHANGED <<log, logUp, point, subject, status, saw, ran, asked, calls, decs, n, loop>>

turnStart ==
    /\ pc = "turnStart"
    /\ \/ Recorded([kind |-> "turn/start"]) /\ pc' = "user" /\ UNCHANGED failed
       \/ Lost([kind |-> "turn/start"], FALSE) /\ pc' = "idle" /\ failed' = TRUE
    /\ UNCHANGED <<logUp, ctxDone, point, subject, status, saw, ran, ctlVars>>

userMessage ==
    /\ pc = "user"
    /\ emit([kind |-> "user", val |-> Token(<<"input", turns>>)], "preStep")
    /\ UNCHANGED <<logUp, ctxDone, point, subject, status, saw, ran, ctlVars>>

StepsLeft == steps < loop.maxSteps

\* The step limit, and the request as a projection of the log.
buildRequest ==
    /\ pc = "preStep"
    /\ \/ /\ StepsLeft
          /\ subject' = Request(Messages(log)) /\ point' = "pre_step" /\ pc' = "judge"
          /\ UNCHANGED failed
       \/ ~StepsLeft /\ Fail /\ UNCHANGED <<subject, point>>
       \/ ctxDone /\ Fail /\ UNCHANGED <<subject, point>>
    /\ UNCHANGED <<log, logUp, ctxDone, status, saw, ran, ctlVars>>

----------------------------------------------------------------------------
\* runHooks.

Valid(ds) == \A i \in DOMAIN ds : ds[i] # "invalid"

\* Every hook gets the original payload; all decisions are validated first.
judge ==
    /\ pc = "judge"
    /\ \E ds \in [1 .. loop.hooks[point] -> Decisions] :
         \/ Valid(ds) /\ decs' = ds /\ n' = 0 /\ pc' = "record" /\ UNCHANGED failed
         \/ ~Valid(ds) /\ Fail /\ UNCHANGED <<decs, n>>
    /\ UNCHANGED <<log, logUp, ctxDone, point, subject, status, saw, ran, steps, asked, calls, turns, loop>>

Rewrite(i) == Token(<<"rewrite", i>>)
Verdict(i) == [kind |-> "verdict", point |-> point, verdict |-> decs[i],
               val |-> IF decs[i] = "rewrite" THEN Rewrite(i) ELSE Empty]

\* Verdicts are recorded one by one, with a context that is never cancelled.
record ==
    /\ pc = "record" /\ n < Len(decs)
    /\ \/ Recorded(Verdict(n + 1)) /\ n' = n + 1 /\ UNCHANGED <<pc, failed>>
       \/ Lost(Verdict(n + 1), TRUE) /\ Fail /\ UNCHANGED n
    /\ UNCHANGED <<logUp, ctxDone, point, subject, status, saw, ran, steps, asked, calls, decs, turns, loop>>

\* resolveDecisions: any reject rejects; otherwise the last rewrite replaces.
Rejected == \E i \in DOMAIN decs : decs[i] = "reject"
Rewrote == ~Rejected /\ \E i \in DOMAIN decs : decs[i] = "rewrite"

\* Slip: the first rewrite wins.
FinalFirst == IF Rewrote THEN Rewrite(Min({i \in DOMAIN decs : decs[i] = "rewrite"})) ELSE subject

Final == IF Rewrote THEN Rewrite(Max({i \in DOMAIN decs : decs[i] = "rewrite"})) ELSE subject

Judged(p) == pc = "record" /\ point = p /\ n = Len(decs)

preStep ==
    /\ Judged("pre_step")
    /\ pc' = IF Rejected THEN "turnEnd" ELSE "stepStart"
    /\ subject' = Final
    /\ UNCHANGED <<log, logUp, ctxDone, point, failed, status, saw, ran, ctlVars>>

\* Slip: the original call runs.
preToolUnchanged ==
    /\ Judged("pre_tool")
    /\ pc' = IF Rejected THEN "result" ELSE "invoke"
    /\ status' = IF Rejected THEN "rejected" ELSE status
    /\ subject' = IF Rejected THEN Empty ELSE subject
    /\ UNCHANGED <<log, logUp, ctxDone, point, failed, saw, ran, ctlVars>>

preTool ==
    /\ Judged("pre_tool")
    /\ \/ Rejected /\ pc' = "result" /\ status' = "rejected" /\ subject' = Empty
       \/ ~Rejected /\ pc' = "invoke" /\ subject' = Final /\ UNCHANGED status
    /\ UNCHANGED <<log, logUp, ctxDone, point, failed, saw, ran, ctlVars>>

\* Slip: post_tool can rewrite, not reject.
postToolShows ==
    /\ Judged("post_tool")
    /\ pc' = "result" /\ status' = "ok" /\ subject' = Final
    /\ UNCHANGED <<log, logUp, ctxDone, point, failed, saw, ran, ctlVars>>

postTool ==
    /\ Judged("post_tool")
    /\ pc' = "result"
    /\ status' = IF Rejected THEN "rejected" ELSE "ok"
    /\ subject' = IF Rejected THEN Empty ELSE Final
    /\ UNCHANGED <<log, logUp, ctxDone, point, failed, saw, ran, ctlVars>>

turnStopping ==
    /\ Judged("turn_stopping")
    /\ \/ ~Rejected /\ ~Rewrote /\ pc' = "turnEnd" /\ UNCHANGED <<subject, steps>>
       \/ Rejected /\ pc' = "preStep" /\ steps' = steps + 1 /\ UNCHANGED subject
       \/ Rewrote /\ pc' = "inject" /\ subject' = Final /\ UNCHANGED steps
    /\ UNCHANGED <<log, logUp, ctxDone, point, failed, status, saw, ran, asked, calls, decs, n, turns, loop>>

inject ==
    /\ pc = "inject"
    /\ emit([kind |-> "user", val |-> subject], "preStep")
    /\ steps' = steps + 1
    /\ UNCHANGED <<logUp, ctxDone, point, subject, status, saw, ran, asked, calls, decs, n, turns, loop>>

----------------------------------------------------------------------------
\* runStep and runTool.

stepStart ==
    /\ pc = "stepStart"
    /\ emit([kind |-> "step/start"], "model")
    /\ UNCHANGED <<logUp, ctxDone, point, subject, status, saw, ran, ctlVars>>

complete ==
    /\ pc = "model"
    /\ saw' = Append(saw, [req |-> subject, at |-> Len(log)])
    /\ \/ Fail /\ UNCHANGED <<asked, calls>>
       \/ \E k \in 0 .. loop.maxCalls :
            asked' = k /\ calls' = k /\ pc' = "assistant" /\ UNCHANGED failed
    /\ UNCHANGED <<log, logUp, ctxDone, point, subject, status, ran, steps, decs, n, turns, loop>>

NextCall(k) == IF k = 0 THEN "stepEnd" ELSE "call"

assistantMessage ==
    /\ pc = "assistant"
    /\ emit([kind |-> "assistant", val |-> Token(<<"answer">>)], NextCall(calls))
    /\ UNCHANGED <<logUp, ctxDone, point, subject, status, saw, ran, ctlVars>>

toolCall ==
    /\ pc = "call"
    /\ emit([kind |-> "tool/call", val |-> Token(<<"call", calls>>)], "judge")
    /\ subject' = Token(<<"call", calls>>) /\ point' = "pre_tool"
    /\ UNCHANGED <<logUp, ctxDone, status, saw, ran, ctlVars>>

invoke ==
    /\ pc = "invoke"
    /\ ran' = Append(ran, [call |-> subject, at |-> Len(log)])
    /\ \/ pc' = "result" /\ status' = "error" /\ subject' = Empty /\ UNCHANGED point
       \/ pc' = "judge" /\ subject' = Token(<<"output">>) /\ point' = "post_tool" /\ UNCHANGED status
    /\ UNCHANGED <<log, logUp, ctxDone, failed, saw, ctlVars>>

toolResult ==
    /\ pc = "result"
    /\ emit([kind |-> "tool/result", status |-> status, val |-> subject], NextCall(calls - 1))
    /\ calls' = calls - 1
    /\ UNCHANGED <<logUp, ctxDone, point, subject, status, saw, ran, steps, asked, decs, n, turns, loop>>

\* The deferred step/end: emitBoundary, then on with the turn or out of it.
stepEnd ==
    /\ pc = "stepEnd"
    /\ \/ /\ Recorded([kind |-> "step/end"])
          /\ \/ failed /\ pc' = "turnEnd" /\ UNCHANGED <<steps, point, subject>>
             \/ ~failed /\ asked > 0 /\ pc' = "preStep" /\ steps' = steps + 1 /\ UNCHANGED <<point, subject>>
             \/ ~failed /\ asked = 0 /\ pc' = "judge" /\ point' = "turn_stopping" /\ subject' = Empty /\ UNCHANGED steps
          /\ UNCHANGED failed
       \/ Lost([kind |-> "step/end"], TRUE) /\ failed' = TRUE /\ pc' = "turnEnd" /\ UNCHANGED <<steps, point, subject>>
    /\ UNCHANGED <<logUp, ctxDone, status, saw, ran, asked, calls, decs, n, turns, loop>>

turnEnd ==
    /\ pc = "turnEnd"
    /\ \/ Recorded([kind |-> "turn/end"]) /\ UNCHANGED failed
       \/ Lost([kind |-> "turn/end"], TRUE) /\ failed' = TRUE
    /\ pc' = "idle"
    /\ UNCHANGED <<logUp, ctxDone, point, subject, status, saw, ran, ctlVars>>

Cancel ==
    /\ pc # "idle" /\ ~ctxDone
    /\ ctxDone' = TRUE
    /\ UNCHANGED <<log, logUp, pc, point, failed, subject, status, saw, ran, ctlVars>>

LogFails ==
    /\ logUp
    /\ logUp' = FALSE
    /\ UNCHANGED <<log, ctxDone, pc, point, failed, subject, status, saw, ran, ctlVars>>

Step ==
    \/ turnStart \/ userMessage \/ buildRequest \/ judge \/ record
    \/ preStep \/ preTool \/ postTool \/ turnStopping \/ inject
    \/ stepStart \/ complete \/ assistantMessage \/ toolCall \/ invoke \/ toolResult
    \/ stepEnd \/ turnEnd

Next == RunTurn \/ Step \/ Cancel \/ LogFails

Spec == Init /\ [][Next]_vars

----------------------------------------------------------------------------
\* Properties.

\* Reading a log back: the run of verdicts that ends at position k, and what
\* the log says became of a payload judged there.
GroupStart(l, k) == Max({0} \cup {i \in 1 .. k : l[i].kind # "verdict"})
Group(l, k, p) == {i \in (GroupStart(l, k) + 1) .. k : l[i].point = p}
LoggedReject(l, k, p) == \E i \in Group(l, k, p) : l[i].verdict = "reject"
Outcome(l, k, p, original) ==
    LET rw == {i \in Group(l, k, p) : l[i].verdict = "rewrite"} IN
    IF rw = {} THEN original ELSE l[Max(rw)].val

\* The request the log gives at position k, before its verdicts.
LoggedRequest(l, k) == Request(Messages(SubSeq(l, 1, GroupStart(l, k))))

\* Model-visible means logged (FR-LOG-03): whatever the model received can be
\* computed from the log as it stood then, hook rewrites included, and a
\* request that a pre_step hook rejected is never sent.
ModelVisibleIsLogged ==
    \A i \in DOMAIN saw :
        LET k == saw[i].at - 1 IN
        /\ log[saw[i].at].kind = "step/start" /\ ~LoggedReject(log, k, "pre_step")
        /\ saw[i].req = Outcome(log, k, "pre_step", LoggedRequest(log, k))

\* A tool runs only for a logged call that no verdict rejects, with the
\* arguments the log gives, and at most once per call.
ToolRunIsLogged ==
    \A i \in DOMAIN ran :
        LET k == ran[i].at IN
        /\ log[GroupStart(log, k)].kind = "tool/call"
        /\ ~LoggedReject(log, k, "pre_tool")
        /\ ran[i].call = Outcome(log, k, "pre_tool", log[GroupStart(log, k)].val)
        /\ \A j \in DOMAIN ran : j # i => ran[j].at # k

\* A logged tool result tells the truth about the verdicts before it: an
\* output that post_tool rejected never becomes visible.
ResultObeysVerdicts ==
    \A k \in DOMAIN log : log[k].kind = "tool/result" =>
        LET pre  == LoggedReject(log, k - 1, "pre_tool")
            post == LoggedReject(log, k - 1, "post_tool")
        IN  /\ log[k].status = "rejected" <=> (pre \/ post)
            /\ log[k].status = "ok" => log[k].val = Outcome(log, k - 1, "post_tool", Token(<<"output">>))
            /\ log[GroupStart(log, k - 1)].kind = "tool/call"

\* The verdicts in the log decide what runs and what the model is shown, whichever
\* hook gave them.
ToolsObeyVerdicts == ToolRunIsLogged /\ ResultObeysVerdicts

\* turn/start, turn/end, step/start and step/end nest in the log however a
\* turn ends, and an idle loop whose log is alive has left none open.
Open(l) == Cardinality({i \in DOMAIN l : l[i].kind \in {"turn/start", "step/start"}})
           - Cardinality({i \in DOMAIN l : l[i].kind \in {"turn/end", "step/end"}})
FitsIn(kind, open) ==
    /\ kind = "turn/start" => open = 0
    /\ kind \in {"step/start", "turn/end"} => open = 1
    /\ kind \in {"step/end", "assistant", "tool/call", "tool/result"} => open = 2
BoundariesNest ==
    /\ \A k \in DOMAIN log : FitsIn(log[k].kind, Open(SubSeq(log, 1, k - 1)))
    /\ pc = "idle" /\ logUp => Open(log) = 0
=============================================================================
