-------------------------------- MODULE Egress --------------------------------
(***************************************************************************)
(* An outgoing request of the agent: egressproxy decides on it and submits   *)
(* the attempt to the host's audit broker (audit.go); the collector          *)
(* (world.go) records it; only the acknowledgement of the durable record     *)
(* lets the proxy answer or dial.                                            *)
(***************************************************************************)
EXTENDS Naturals, Sequences, FiniteSets

CONSTANTS
    Requests,
    Networks,           \* records [targets, resolutions, fails]: the target of each request that
                        \* is made, what the domain may resolve to, may the log writer fail?
    Cap,                \* capacity of the broker's queue
    None

ASSUME RequestsAssumption == None \notin Requests

VARIABLES
    net,                \* the network of this session, one of Networks
    dns,                \* what the domain resolves to now: public, private or none
    decision,           \* on each request
    ip,                 \* the address authorize settled on: pinned, public or none
    pc,                 \* proxy: new, submit, await, allowed, dialed, denied, unavailable, gone
    conn,               \* broker: none, backlog, handle, wait, ok, err, closed
    ack,                \* what the collector acknowledged: none, ok, err
    queue, hand,        \* the broker's queue and the attempt dispatch holds
    taken,              \* the attempt the collector works on
    accepted, recorded, \* attempts the broker queued; attempts in the log
    effectsErr, proxyUp, closing, queueClosed, effectsDone

proxy == <<decision, ip, pc>>
broker == <<queue, hand, accepted, closing, queueClosed>>
collector == <<taken, ack, recorded, effectsErr, effectsDone>>
vars == <<net, dns, proxy, conn, broker, collector, proxyUp>>

Resolutions == {"public", "private", "none"}

\* A target is a record [domain, listed, pinned, port]: is there a domain, is it
\* in the allowlist, has it a pin, is the port one the proxy accepts?
target == net.targets

Init ==
    /\ net \in Networks /\ dns \in net.resolutions
    /\ decision = [r \in Requests |-> "none"] /\ ip = [r \in Requests |-> "none"]
    /\ pc = [r \in Requests |-> "new"] /\ conn = [r \in Requests |-> "none"]
    /\ ack = [r \in Requests |-> "none"]
    /\ queue = <<>> /\ hand = None /\ taken = None /\ accepted = {} /\ recorded = {}
    /\ effectsErr = FALSE /\ proxyUp = TRUE
    /\ closing = FALSE /\ queueClosed = FALSE /\ effectsDone = FALSE

----------------------------------------------------------------------------
\* The proxy.

dnsChanges ==
    /\ proxyUp /\ dns' \in net.resolutions \ {dns}
    /\ UNCHANGED <<net, proxy, conn, broker, collector, proxyUp>>

permits(t) == t.domain /\ t.listed /\ t.port /\ (t.pinned \/ dns = "public")

addressOf(t) == IF ~permits(t) THEN "none" ELSE IF t.pinned THEN "pinned" ELSE dns

authorize(r) ==
    /\ proxyUp /\ pc[r] = "new" /\ r \in DOMAIN target
    /\ decision' = [decision EXCEPT ![r] = IF permits(target[r]) THEN "allow" ELSE "deny"]
    /\ ip' = [ip EXCEPT ![r] = addressOf(target[r])]
    /\ pc' = [pc EXCEPT ![r] = "submit"]
    /\ UNCHANGED <<net, dns, conn, broker, collector, proxyUp>>

\* UnixAuditSink.exchange: connect and send the attempt.
exchange(r) ==
    /\ proxyUp /\ pc[r] = "submit"
    /\ pc' = [pc EXCEPT ![r] = "await"] /\ conn' = [conn EXCEPT ![r] = "backlog"]
    /\ UNCHANGED <<net, dns, decision, ip, broker, collector, proxyUp>>

\* 403 for an audited denial, 503 when the audit failed.
AnswerOf(c, d) == IF c # "ok" THEN "unavailable" ELSE IF d = "allow" THEN "allowed" ELSE "denied"

reply(r) ==
    /\ proxyUp /\ pc[r] = "await" /\ conn[r] \in {"ok", "err", "closed"}
    /\ pc' = [pc EXCEPT ![r] = AnswerOf(conn[r], decision[r])]
    /\ UNCHANGED <<net, dns, decision, ip, conn, broker, collector, proxyUp>>

\* auditDeadline.
exchangeTimeout(r) ==
    /\ proxyUp /\ pc[r] = "await" /\ pc' = [pc EXCEPT ![r] = "unavailable"]
    /\ UNCHANGED <<net, dns, decision, ip, conn, broker, collector, proxyUp>>

DialAddress(r) == ip[r]

dial(r) ==
    /\ proxyUp /\ pc[r] = "allowed"
    /\ pc' = [pc EXCEPT ![r] = "dialed"] /\ ip' = [ip EXCEPT ![r] = DialAddress(r)]
    /\ UNCHANGED <<net, dns, decision, conn, broker, collector, proxyUp>>

\* The proxy's container is stopped.
stopProxy ==
    /\ proxyUp /\ proxyUp' = FALSE
    /\ pc' = [r \in Requests |-> IF pc[r] \in {"new", "submit", "await", "allowed"} THEN "gone" ELSE pc[r]]
    /\ UNCHANGED <<net, dns, decision, ip, conn, broker, collector>>

----------------------------------------------------------------------------
\* The broker.

handlers == {r \in Requests : conn[r] \in {"handle", "wait"}}

slotFree == Cardinality(handlers) < Cap + 1

accept(r) ==
    /\ conn[r] = "backlog" /\ ~closing
    /\ conn' = [conn EXCEPT ![r] = IF slotFree THEN "handle" ELSE "closed"]
    /\ UNCHANGED <<net, dns, proxy, broker, collector, proxyUp>>

\* Slip: the handler acknowledges what it queued.
HeldWaitNot == "ok"

\* With the durable acknowledgement the reply is held.
HeldWait == "wait"

handle(r) ==
    /\ conn[r] = "handle"
    /\ \/ /\ Len(queue) < Cap
          /\ queue' = Append(queue, r) /\ accepted' = accepted \union {r}
          /\ conn' = [conn EXCEPT ![r] = HeldWait]
       \/ /\ Len(queue) >= Cap
          /\ conn' = [conn EXCEPT ![r] = "err"] /\ UNCHANGED <<queue, accepted>>
    /\ UNCHANGED <<net, dns, proxy, hand, closing, queueClosed, collector, proxyUp>>

acknowledged(r) ==
    /\ conn[r] = "wait" /\ ack[r] # "none" /\ conn' = [conn EXCEPT ![r] = ack[r]]
    /\ UNCHANGED <<net, dns, proxy, broker, collector, proxyUp>>

\* auditIOTimeout.
ackTimeout(r) ==
    /\ conn[r] = "wait" /\ conn' = [conn EXCEPT ![r] = "err"]
    /\ UNCHANGED <<net, dns, proxy, broker, collector, proxyUp>>

\* Slip: dispatch leaves its loop when the broker is closing.
QueuedOpen == ~closing /\ queue # <<>>

Queued == queue # <<>>

dispatch ==
    /\ hand = None /\ Queued /\ hand' = Head(queue) /\ queue' = Tail(queue)
    /\ UNCHANGED <<net, dns, proxy, conn, accepted, closing, queueClosed, collector, proxyUp>>

\* The effects channel has no buffer.
deliver ==
    /\ hand # None /\ taken = None /\ taken' = hand /\ hand' = None
    /\ UNCHANGED <<net, dns, proxy, conn, queue, accepted, closing, queueClosed, ack, recorded, effectsErr, effectsDone, proxyUp>>

\* Shutdown, once the proxy has stopped: the listener closes, and with it the
\* connections nobody accepted.
Shutdown ==
    /\ ~proxyUp /\ ~closing /\ closing' = TRUE
    /\ conn' = [r \in Requests |-> IF conn[r] = "backlog" THEN "closed" ELSE conn[r]]
    /\ UNCHANGED <<net, dns, proxy, queue, hand, accepted, queueClosed, collector, proxyUp>>

HandlersDone == handlers = {}

closeQueue ==
    /\ closing /\ HandlersDone /\ ~queueClosed /\ queueClosed' = TRUE
    /\ UNCHANGED <<net, dns, proxy, conn, queue, hand, accepted, closing, collector, proxyUp>>

----------------------------------------------------------------------------
\* The collector: record the attempt, acknowledge it.  Submit may fail, before
\* or after the commit.

\* Of what EgressPayload refuses, the proxy can send an attempt without a domain.
EgressPayload(r) == target[r].domain

collect(ok, durable) ==
    /\ taken # None
    /\ ok => durable
    /\ ~ok => net.fails \/ ~EgressPayload(taken)
    /\ durable => EgressPayload(taken)
    /\ recorded' = IF durable THEN recorded \union {taken} ELSE recorded
    /\ ack' = [ack EXCEPT ![taken] = IF ok THEN "ok" ELSE "err"]
    /\ effectsErr' = (effectsErr \/ ~ok)
    /\ taken' = None
    /\ UNCHANGED <<net, dns, proxy, conn, broker, effectsDone, proxyUp>>

Drained == queueClosed /\ queue = <<>> /\ hand = None

collectorEnds ==
    /\ ~effectsDone /\ Drained /\ taken = None /\ effectsDone' = TRUE
    /\ UNCHANGED <<net, dns, proxy, conn, broker, taken, ack, recorded, effectsErr, proxyUp>>

\* Nothing but the broker and the collector moves any more; EgressEnds says they do.
Finished == closing /\ UNCHANGED vars

----------------------------------------------------------------------------
Next ==
    \/ dnsChanges \/ stopProxy \/ Shutdown \/ closeQueue \/ dispatch \/ deliver \/ collectorEnds \/ Finished
    \/ \E r \in Requests :
          \/ authorize(r) \/ exchange(r) \/ reply(r) \/ exchangeTimeout(r) \/ dial(r)
          \/ accept(r) \/ handle(r) \/ acknowledged(r) \/ ackTimeout(r)
    \/ \E ok, durable \in BOOLEAN : collect(ok, durable)

Spec == Init /\ [][Next]_vars

\* The broker's goroutines run, its deadline expires and the proxy reads the
\* reply; neither the proxy's own deadline nor the log writer is relied upon.
Broker ==
    \/ closeQueue \/ dispatch \/ deliver \/ collectorEnds
    \/ \E r \in Requests : accept(r) \/ handle(r) \/ acknowledged(r) \/ ackTimeout(r) \/ reply(r)

FairSpec == Spec /\ WF_vars(Broker)

----------------------------------------------------------------------------
\* "a successful network exchange" does not outrun the append-only log: what
\* the proxy dials or answers as an ordinary denial is durable before, whatever
\* deadline expired in between, and a failure of the audit is neither.  The
\* address it dials is the one it judged, although the name may resolve to
\* another one while the record is made.
AnswerIsRecorded ==
    \A r \in Requests :
        /\ pc[r] \in {"allowed", "dialed", "denied"} => r \in recorded
        /\ pc[r] = "dialed" =>
              target[r].listed /\ target[r].port /\ ip[r] = (IF target[r].pinned THEN "pinned" ELSE "public")

\* The broker answers every attempt although the log writer may hang; if the
\* writer returns, a shutdown drains the stream of effects to its end.
EgressEnds ==
    /\ <>[](\A r \in Requests : pc[r] # "await")
    /\ []<>(taken = None) => <>[](closing => effectsDone)

\* FR-COL-03: the attempts the proxy observed, allowed and denied, are recorded:
\* with a log that works, an attempt the broker accepted is in it at the end.
AttemptsAreRecorded == effectsDone /\ ~net.fails => accepted \subseteq recorded
=============================================================================
