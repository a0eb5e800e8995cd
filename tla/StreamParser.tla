---------------------------- MODULE StreamParser ----------------------------
(***************************************************************************)
(* seams/subagent/claudecode/parse.go: from the agent's native lines to the  *)
(* events of the adapter.  A line is a pair of its kind and of what it       *)
(* carries; a message holds one block (the code's loops over the blocks of   *)
(* a message do the same for each).                                          *)
(***************************************************************************)
EXTENDS Integers, Sequences, FiniteSets

CONSTANT MaxTokens   \* math.MaxInt64

None == "none"

\* Kinds of lines.
\*   init, with the native session; noise: what is ignored on purpose; bad: no
\*   JSON, too long, empty, unknown, or a breach of the isolation;
\*   text, think, call: an assistant message; apierr: a synthetic one;
\*   denied: permission_denied; res, rejected, invalid: a tool_result that is
\*   plain, marked user-rejected, or wholly a tool_use_error;
\*   end: a result, with its outcome.
ToolResults == {"denied", "res", "rejected", "invalid"}

\* rejected, results: rejectedEmitted and toolResults; last, lastAPI: lastResult
\* (its outcome) and lastAPIError; turns > 0 is the same as last # None.
NewParser(multiturn) ==
    [multiturn |-> multiturn, sawInit |-> FALSE, sessionID |-> None, rejected |-> {}, results |-> {},
     apiError |-> FALSE, last |-> None, lastAPI |-> FALSE, done |-> FALSE]

Refused(p) == [ok |-> FALSE, parser |-> p, events |-> {}]
Parsed(p, events) == [ok |-> TRUE, parser |-> p, events |-> events]

\* An event of the core's protocol that has a native line behind it.
Event(kind, what) == <<kind, what>>

----------------------------------------------------------------------------
\* What a result becomes.

doneStatus(outcome, stop) ==
    CASE stop -> "stopped"
      [] ~stop /\ outcome = "ok" -> "ok"
      [] ~stop /\ outcome = "aborted" -> "stopped"
      [] OTHER -> "error"

\* api: its text names the synthetic error.
terminalDone(outcome, apiErr, stop) ==
    LET status == doneStatus(outcome, stop)
    IN  [status |-> IF apiErr /\ status = "ok" THEN "error" ELSE status, api |-> apiErr]

NoDone == [status |-> None, api |-> FALSE]

\* Slip: the error of a turn is looked up after its result has cleared it.
TurnDoneLate(p, stop) ==
    IF p.multiturn /\ p.last # None /\ ~p.done THEN terminalDone(p.last, p.apiError, stop) ELSE NoDone

\* The done event of a session of several turns is its last result.
TurnDone(p, stop) ==
    IF p.multiturn /\ p.last # None /\ ~p.done THEN terminalDone(p.last, p.lastAPI, stop) ELSE NoDone

WithAPIErrorDone(done, apiErr) ==
    IF ~apiErr THEN done
    ELSE [status |-> IF done.status = "ok" THEN "error" ELSE done.status, api |-> TRUE]

\* The count of tokens; {} is an absent field, and an error as the sum.
Field(x) == IF x = {} THEN {0} ELSE x

addAux(total, aux) ==
    {s[1] + s[2] : s \in {s \in total \X Field(aux) : s[2] >= 0 /\ s[1] <= MaxTokens - s[2]}}

normalizeUsage(u) ==
    {[input |-> t, output |-> o] :
        t \in IF u.input = {} \/ \E n \in u.input : n < 0 THEN {} ELSE addAux(addAux(u.input, u.creation), u.read),
        o \in {n \in u.output : n >= 0}}

----------------------------------------------------------------------------
\* ParseLine, by the type of the line.

parseInit(p, id) ==
    IF ~p.sawInit
    THEN Parsed([p EXCEPT !.sawInit = TRUE, !.sessionID = id], {Event("ready", None)})
    ELSE IF p.multiturn /\ p.last # None /\ id # None /\ id = p.sessionID THEN Parsed(p, {})
    ELSE Refused(p)

\* Slip: a denial is not noted among the results.
deniedResultsNot(p, call) == p.results

deniedResults(p, call) == p.results \cup {call}

permissionDenied(p, call) ==
    IF call \in p.results THEN Refused(p)
    ELSE Parsed([p EXCEPT !.results = deniedResults(p, call), !.rejected = @ \cup {call}], {Event("denied", call)})

\* What an assistant says settles an earlier synthetic error, a thought too.
parseAssistant(p, kind, what) ==
    Parsed([p EXCEPT !.apiError = FALSE], IF kind = "think" THEN {} ELSE {Event(kind, what)})

NoTokens == [input |-> 0, output |-> 0]

parseSyntheticAPIError(p) ==
    Parsed([p EXCEPT !.apiError = TRUE], {Event("usage", NoTokens)})

parseUser(p, kind, call) ==
    IF call \in p.rejected
    THEN IF kind = "rejected" THEN Parsed([p EXCEPT !.rejected = @ \ {call}], {}) ELSE Refused(p)
    ELSE IF call \in p.results THEN Refused(p)
    ELSE Parsed([p EXCEPT !.results = @ \cup {call}], {Event(kind, call)})

\* usage is {} or the only element of it.
parseResult(p, outcome, usage, stop) ==
    LET sums == UNION {normalizeUsage(u) : u \in usage}
        events == {Event("usage", s) : s \in sums}
        next == [p EXCEPT !.apiError = FALSE]
    IN  IF p.rejected # {} \/ (usage # {} /\ sums = {}) THEN Refused(p)
        ELSE IF p.multiturn THEN Parsed([next EXCEPT !.last = outcome, !.lastAPI = p.apiError], events)
        ELSE Parsed([next EXCEPT !.done = TRUE], events \cup {Event("done", terminalDone(outcome, p.apiError, stop))})

ParseLine(p, line, usage, stop) ==
    LET kind == line[1]
        what == line[2]
    IN  IF p.done \/ kind = "bad" THEN Refused(p)
        ELSE IF kind = "noise" THEN Parsed(p, {})
        ELSE IF kind = "init" THEN parseInit(p, what)
        ELSE IF ~p.sawInit THEN Refused(p)
        ELSE CASE kind = "denied" -> permissionDenied(p, what)
               [] kind \in {"text", "think", "call"} -> parseAssistant(p, kind, what)
               [] kind = "apierr" -> parseSyntheticAPIError(p)
               [] kind \in {"res", "rejected", "invalid"} -> parseUser(p, kind, what)
               [] kind = "end" -> parseResult(p, what, usage, stop)
=============================================================================
