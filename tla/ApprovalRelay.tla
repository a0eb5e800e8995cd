--------------------------- MODULE ApprovalRelay ---------------------------
(***************************************************************************)
(* seams/approvalrelay: operators submit decisions over a Unix socket while *)
(* the approval coordinator waits for them.  Everything the server keeps    *)
(* (pending, decided, byID) is guarded by one mutex; each of its critical   *)
(* sections is one action.  The coordinator's side is the part of           *)
(* seams/subagent/approval.go that talks to the relay: decide, log the      *)
(* policy/decision, tell the relay its seq.                                 *)
(***************************************************************************)
EXTENDS Naturals, Sequences, FiniteSets

CONSTANTS Requests,   \* request keys; trace and span are the session's own
          Calls,      \* bound: submit connections
          Responses   \* response ids an operator may use

VARIABLES
    pending,    \* keys with a waiter
    chan,       \* key -> what has been sent to its waiter
    decided,    \* the derived index: key -> Result
    byID,       \* keys RecordApprovalResult can find
    stage,      \* coordinator, per request
    decision,   \* coordinator: what it will log, or has logged
    ctxDone,    \* the coordinator's context has ended
    logUp,
    log,        \* policy/decision events
    msgs, answers       \* per connection: what was asked and answered

coordVars == <<stage, decision>>
vars == <<pending, chan, decided, byID, ctxDone, logUp, log, msgs, answers, coordVars>>

NoResult == [status |-> "none", allow |-> FALSE, reason |-> "", resp |-> "", seq |-> 0]
Result(status, allow, reason, resp) ==
    [status |-> status, allow |-> allow, reason |-> reason, resp |-> resp, seq |-> 0]

\* Slip: an expiry lets the call through.
ExpiredAllows(reason) == Result("expired", TRUE, reason, "")

Expired(reason) == Result("expired", FALSE, reason, "")

\* A well-formed submit: an allow, or a deny with a reason.
Messages ==
    {m \in [req : Requests, allow : BOOLEAN, reason : {"", "no"}, resp : Responses] : m.allow <=> m.reason = ""}
NoMessage == [req |-> "none"]

Init ==
    /\ pending = {} /\ byID = {} /\ ctxDone = FALSE /\ logUp = TRUE /\ log = <<>>
    /\ chan = [r \in Requests |-> NoResult]
    /\ decided = [r \in Requests |-> NoResult]
    /\ stage = [r \in Requests |-> "none"]
    /\ decision = [r \in Requests |-> NoResult]
    /\ msgs = [c \in Calls |-> NoMessage]
    /\ answers = [c \in Calls |-> NoResult]

----------------------------------------------------------------------------
\* The socket.

\* The answer to a submit for a key that is already decided.
AnswerOld(old, m) ==
    IF old.status = "expired" \/ (old.resp = m.resp /\ old.allow = m.allow /\ old.reason = m.reason)
    THEN old ELSE Result("error", FALSE, "RESPONSE_CONFLICT", "")

IsDecided(r) == decided[r].status # "none"

StillPending(r) == pending \ {r}

\* serve(), op submit.
submit(c, m) ==
    /\ msgs[c] = NoMessage
    /\ msgs' = [msgs EXCEPT ![c] = m]
    /\ LET r == m.req
           new == Result("decided", m.allow, m.reason, m.resp)
       IN  \/ /\ IsDecided(r)
              /\ answers' = [answers EXCEPT ![c] = AnswerOld(decided[r], m)]
              /\ UNCHANGED <<decided, chan, pending>>
           \/ /\ ~IsDecided(r)
              /\ decided' = [decided EXCEPT ![r] = new]
              /\ chan' = IF r \in pending THEN [chan EXCEPT ![r] = new] ELSE chan
              /\ pending' = StillPending(r)
              /\ answers' = [answers EXCEPT ![c] = new]
    /\ UNCHANGED <<byID, ctxDone, logUp, log, coordVars>>

----------------------------------------------------------------------------
\* The coordinator and WaitWithMeta.

Settle(r, d) ==
    /\ decision' = [decision EXCEPT ![r] = d]
    /\ stage' = [stage EXCEPT ![r] = "submit"]

\* resolve() without the decider: a forced reason, or a context that is over.
resolveForced(r) ==
    /\ stage[r] = "none"
    /\ \E why \in {"forced"} \cup (IF ctxDone THEN {"deadline"} ELSE {}) :
         Settle(r, Result("decided", FALSE, why, ""))
    /\ UNCHANGED <<pending, chan, decided, byID, ctxDone, logUp, log, msgs, answers>>

\* WaitWithMeta up to its select.
waitBegin(r) ==
    /\ stage[r] = "none" /\ ~ctxDone
    /\ \/ /\ IsDecided(r)
          /\ Settle(r, decided[r])
          /\ UNCHANGED <<pending, byID>>
       \/ /\ ~IsDecided(r)
          /\ pending' = pending \cup {r} /\ byID' = byID \cup {r}
          /\ stage' = [stage EXCEPT ![r] = "wait"]
          /\ UNCHANGED decision
    /\ UNCHANGED <<chan, decided, ctxDone, logUp, log, msgs, answers>>

waitReceive(r) ==
    /\ stage[r] = "wait" /\ chan[r] # NoResult
    /\ Settle(r, chan[r])
    /\ chan' = [chan EXCEPT ![r] = NoResult]
    /\ UNCHANGED <<pending, decided, byID, ctxDone, logUp, log, msgs, answers>>

\* The timer or the context: select may choose it although chan is ready.
waitExpire(r) ==
    /\ stage[r] = "wait"
    /\ \E e \in {Expired("EXPIRED")} \cup (IF ctxDone THEN {Expired("LEASE_ENDED")} ELSE {}) :
         decided' = [decided EXCEPT ![r] = e] /\ Settle(r, e)
    /\ pending' = pending \ {r}
    /\ UNCHANGED <<chan, byID, ctxDone, logUp, log, msgs, answers>>

\* The decision becomes durable, or the coordinator terminates.
commit(r) ==
    /\ stage[r] = "submit"
    /\ IF logUp THEN /\ log' = Append(log, [req |-> r, res |-> decision[r]])
                     /\ stage' = [stage EXCEPT ![r] = "record"]
                ELSE /\ stage' = [stage EXCEPT ![r] = "dead"] /\ UNCHANGED log
    /\ UNCHANGED <<pending, chan, decided, byID, ctxDone, logUp, msgs, answers, decision>>

LoggedSeq(r) == CHOOSE i \in DOMAIN log : log[i].req = r

\* Slip: an expired request is relabelled when its event is recorded.
RecordedAlways(old, d) == [old EXCEPT !.status = "decided", !.allow = d.allow, !.reason = d.reason]

Recorded(old, d) ==
    IF old.status = "expired" THEN old
    ELSE [old EXCEPT !.status = "decided", !.allow = d.allow, !.reason = d.reason]

RecordApprovalResult(r) ==
    /\ stage[r] = "record"
    /\ stage' = [stage EXCEPT ![r] = "end"]
    /\ decided' = IF r \notin byID THEN decided
                  ELSE [decided EXCEPT ![r] = [Recorded(decided[r], decision[r]) EXCEPT !.seq = LoggedSeq(r)]]
    /\ UNCHANGED <<pending, chan, byID, ctxDone, logUp, log, msgs, answers, decision>>

----------------------------------------------------------------------------
LeaseEnds ==
    /\ ~ctxDone
    /\ ctxDone' = TRUE
    /\ UNCHANGED <<pending, chan, decided, byID, logUp, log, msgs, answers, coordVars>>

LogFails ==
    /\ logUp
    /\ logUp' = FALSE
    /\ UNCHANGED <<pending, chan, decided, byID, ctxDone, log, msgs, answers, coordVars>>

Resolve(r) ==
    \/ resolveForced(r) \/ waitBegin(r) \/ waitReceive(r) \/ waitExpire(r)
    \/ commit(r) \/ RecordApprovalResult(r)

Next ==
    \/ \E c \in Calls, m \in Messages : submit(c, m)
    \/ \E r \in Requests : Resolve(r)
    \/ LeaseEnds \/ LogFails

Spec == Init /\ [][Next]_vars

----------------------------------------------------------------------------
\* Properties.

\* Rebuild(): the index derived from the log alone.
Rebuild(r) ==
    LET at == {i \in DOMAIN log : log[i].req = r} IN
    IF at = {} THEN NoResult
    ELSE LET i == CHOOSE i \in at : \A j \in at : j <= i
             d == log[i].res
         IN  [status |-> IF d.reason \in {"EXPIRED", "LEASE_ENDED"} THEN "expired" ELSE "decided",
              allow |-> d.allow, reason |-> d.reason, resp |-> d.resp, seq |-> i]

\* For a request that went through the relay's own wait, what a query says
\* once its seq is known is what the log says.
RelayedMatchesLog ==
    \A r \in Requests : r \in byID /\ stage[r] = "end" => decided[r] = Rebuild(r)

\* The runtime index equals the index rebuilt from the log, for every request
\* that has been dealt with.
RuntimeEqualsRebuild ==
    \A r \in Requests : stage[r] = "end" =>
        decided[r].status = Rebuild(r).status /\ decided[r].allow = Rebuild(r).allow

\* An allow is logged only for a request that some operator allowed.
AllowWasSubmitted ==
    \A i \in DOMAIN log : log[i].res.allow =>
        \E c \in Calls : msgs[c] # NoMessage /\ msgs[c].req = log[i].req /\ msgs[c].allow
                         /\ answers[c].status = "decided"

\* A logged decision is an operator's or a refusal, and a query repeats it.
DecisionsMatchLog == RelayedMatchesLog /\ AllowWasSubmitted

\* The same submit, sent again, is answered alike (response_id idempotence).
SubmitIdempotent ==
    \A c, d \in Calls : msgs[c] # NoMessage /\ msgs[c] = msgs[d] =>
        answers[c].status = answers[d].status
=============================================================================
