--------------------------- MODULE ApprovalClient ---------------------------
(***************************************************************************)
(* The adapters' clients of a lease's approval broker: worldApprovalClient   *)
(* (seams/subagent/claudecode/approval_world.go, Guarded) and approvalClient *)
(* (seams/subagent/worldadapter/approval_client.go, not Guarded).  Pollers   *)
(* dial the broker, block until it hands over a hook, wait for the decision  *)
(* and send it; Close cancels, closes the connections it finds registered    *)
(* and waits for the pollers.                                                *)
(***************************************************************************)
EXTENDS Naturals, FiniteSets

CONSTANTS
    Pollers,        \* 4 workers in claudecode, 1 in worldadapter
    Guarded,        \* does dial refuse to register once the teardown has begun?
    MaxHooks,       \* bound: hooks the broker hands over
    BrokerFails     \* may the broker drop a connection or refuse a request?

Main == "main"      \* the adapter's main goroutine, for RegisterIntent and Close
Users == Pollers \union {Main}

VARIABLES
    pc,         \* of each user of a connection
    sock,       \* none, open, closed: the connection of each
    conns,      \* users whose connection is registered
    closing,    \* claudecode only: set with the snapshot of conns
    canceled,   \* ctx.Done
    err,        \* the first error reported
    hooks       \* hooks handed over so far

vars == <<pc, sock, conns, closing, canceled, err, hooks>>

Init ==
    /\ pc = [u \in Users |-> IF u = Main THEN "idle" ELSE "top"]
    /\ sock = [u \in Users |-> "none"] /\ conns = {}
    /\ closing = FALSE /\ canceled = FALSE /\ err = FALSE /\ hooks = 0

Goto(u, l) == pc' = [pc EXCEPT ![u] = l]
Set(u, s) == sock' = [sock EXCEPT ![u] = s]

release(u) == conns' = conns \ {u} /\ Set(u, "none")

\* pollOne or RegisterIntent fails: poll reports it unless the client closes.
Fails(u) ==
    Goto(u, IF u = Main THEN "idle" ELSE IF canceled THEN "over" ELSE "report")

----------------------------------------------------------------------------
RegisterIntent ==
    /\ pc[Main] = "idle" /\ Goto(Main, "top")
    /\ UNCHANGED <<sock, conns, closing, canceled, err, hooks>>

dial(u) ==
    /\ pc[u] = "top"
    /\ \/ ~canceled /\ Set(u, "open") /\ Goto(u, "dialed")
       \/ (canceled \/ BrokerFails) /\ Fails(u) /\ UNCHANGED sock
    /\ UNCHANGED <<conns, closing, canceled, err, hooks>>

\* Slip: as in the client that has no such test.
RefusedNever == FALSE

Refused == Guarded /\ closing

\* The second half of dial, after the dialer has returned.
register(u) ==
    /\ pc[u] = "dialed"
    /\ \/ Refused /\ Set(u, "none") /\ Fails(u) /\ UNCHANGED conns
       \/ ~Refused /\ conns' = conns \union {u} /\ Goto(u, "read") /\ UNCHANGED sock
    /\ UNCHANGED <<closing, canceled, err, hooks>>

\* The broker answers: a hook for a poller, OK for an intent; or it fails.
brokerAnswers(u) ==
    /\ pc[u] = "read" /\ sock[u] = "open"
    /\ \/ /\ u # Main /\ hooks < MaxHooks /\ hooks' = hooks + 1
          /\ Goto(u, "ask") /\ UNCHANGED sock
       \/ u = Main /\ Goto(u, "release") /\ UNCHANGED <<sock, hooks>>
       \/ BrokerFails /\ Set(u, "closed") /\ UNCHANGED <<pc, hooks>>
    /\ UNCHANGED <<conns, closing, canceled, err>>

readError(u) ==
    /\ pc[u] \in {"read", "ack"} /\ sock[u] = "closed"
    /\ release(u) /\ Fails(u)
    /\ UNCHANGED <<closing, canceled, err, hooks>>

\* The host's decision, or the end of the client, ends the wait.
Resolve(u) ==
    /\ pc[u] = "ask" /\ Goto(u, "decided")
    /\ UNCHANGED <<sock, conns, closing, canceled, err, hooks>>

WaitOver == canceled

askEnds(u) ==
    /\ pc[u] = "ask" /\ WaitOver /\ release(u) /\ Fails(u)
    /\ UNCHANGED <<closing, canceled, err, hooks>>

sendDecision(u) ==
    /\ pc[u] = "decided"
    /\ \/ sock[u] = "open" /\ Goto(u, "ack") /\ UNCHANGED <<sock, conns>>
       \/ sock[u] = "closed" /\ release(u) /\ Fails(u)
    /\ UNCHANGED <<closing, canceled, err, hooks>>
brokerAcks(u) ==
    /\ pc[u] = "ack" /\ sock[u] = "open" /\ Goto(u, "release")
    /\ UNCHANGED <<sock, conns, closing, canceled, err, hooks>>
released(u) ==
    /\ pc[u] = "release" /\ release(u)
    /\ Goto(u, IF u = Main THEN "idle" ELSE IF ~Guarded /\ canceled THEN "over" ELSE "top")
    /\ UNCHANGED <<closing, canceled, err, hooks>>

----------------------------------------------------------------------------
\* report (fail in worldadapter) and Close: cancel, then closeConnections.

closeConnections ==
    /\ closing' = TRUE
    /\ sock' = [u \in Users |-> IF u \in conns THEN "closed" ELSE sock[u]]

report(u) ==
    /\ pc[u] = "report" /\ err' = TRUE /\ canceled' = TRUE /\ Goto(u, "closeAll")
    /\ UNCHANGED <<sock, conns, closing, hooks>>
Close ==
    /\ pc[Main] = "idle" /\ canceled' = TRUE /\ Goto(Main, "closeAll")
    /\ UNCHANGED <<sock, conns, closing, err, hooks>>
closeAll(u) ==
    /\ pc[u] = "closeAll" /\ closeConnections
    /\ Goto(u, IF u = Main THEN "join" ELSE "over")
    /\ UNCHANGED <<conns, canceled, err, hooks>>
join ==
    /\ pc[Main] = "join" /\ Goto(Main, "over")
    /\ \A p \in Pollers : pc[p] = "over"
    /\ UNCHANGED <<sock, conns, closing, canceled, err, hooks>>

Finished == pc[Main] = "over" /\ UNCHANGED vars

Own(u) ==
    \/ dial(u) \/ register(u) \/ readError(u) \/ askEnds(u) \/ sendDecision(u)
    \/ released(u) \/ report(u) \/ closeAll(u)

Next ==
    \/ RegisterIntent \/ Close \/ join \/ Finished
    \/ \E u \in Users : Own(u) \/ brokerAnswers(u) \/ Resolve(u) \/ brokerAcks(u)

Spec == Init /\ [][Next]_vars

\* The adapter's goroutines run.  The broker and the host need not answer: the
\* broker keeps a poller waiting until it has a hook.
FairSpec == Spec /\ WF_vars(join) /\ \A u \in Users : WF_vars(Own(u))

----------------------------------------------------------------------------
\* "its connection would escape the snapshot and could block a poller forever":
\* it must not, so that Close, which waits for the pollers, returns.
CloseReturns == pc[Main] = "closeAll" ~> pc[Main] = "over"
=============================================================================
