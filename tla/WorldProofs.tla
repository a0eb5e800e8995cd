----------------------------- MODULE WorldProofs -----------------------------
(***************************************************************************)
(* Of the local world: AnswerIsRecorded, EvidenceIsComplete and RowsAreTrue  *)
(* for all requests, networks and workspaces and every capacity of the audit *)
(* broker's queue, and ExitIsReal for all exit codes, settings and outputs   *)
(* of the process broker.                                                    *)
(***************************************************************************)
EXTENDS Evidence, ProcessOutput, TLAPS

Maybe == Requests \cup {None}
InQueue(r) == \E i \in 1 .. Len(queue) : queue[i] = r

TypeOK ==
    /\ decision \in [Requests -> {"none", "allow", "deny"}]
    /\ ip \in [Requests -> {"pinned", "public", "none"}]
    /\ pc \in [Requests -> {"new", "submit", "await", "allowed", "dialed", "denied", "unavailable", "gone"}]
    /\ conn \in [Requests -> {"none", "backlog", "handle", "wait", "ok", "err", "closed"}]
    /\ ack \in [Requests -> {"none", "ok", "err"}]
    /\ queue \in Seq(Requests) /\ hand \in Maybe /\ taken \in Maybe
    /\ accepted \subseteq Requests
    /\ closing \in BOOLEAN /\ queueClosed \in BOOLEAN /\ effectsDone \in BOOLEAN /\ effectsErr \in BOOLEAN

\* An acknowledgement, a reply and an answer each say that the attempt is in the
\* log; an attempt that is let through keeps the address it was judged by.
AnswerInv ==
    \A r \in Requests :
        /\ ack[r] = "ok" => r \in recorded
        /\ conn[r] = "ok" => r \in recorded
        /\ pc[r] \in {"allowed", "dialed", "denied"} => r \in recorded
        /\ pc[r] \in {"allowed", "dialed"} => decision[r] = "allow"
        /\ decision[r] = "allow" =>
              target[r].listed /\ target[r].port /\ ip[r] = (IF target[r].pinned THEN "pinned" ELSE "public")

\* What was accepted is in the log, on its way there, or behind an error; once the
\* queue is closed nothing more is accepted, once the collector ended all has arrived.
StreamInv ==
    /\ ~effectsErr => \A r \in accepted : r \in recorded \/ InQueue(r) \/ r = hand \/ r = taken
    /\ queueClosed => closing /\ handlers = {}
    /\ effectsDone => Drained /\ taken = None

EgressInv == TypeOK /\ AnswerInv /\ StreamInv

\* The trees are trees, and the record of the workspace, if there is one, is exact.
Leaves == Regular \cup Symlink
FilesInv ==
    /\ upper \in [Paths -> Leaves \cup {"absent", "dir", "opaque", "whiteout"}]
    /\ baseline \in [Paths -> Leaves \cup {"none", "dir"}]
    /\ \A p \in Paths : baseline[p] # "none" => \A q \in Above[p] : baseline[q] = "dir"
    /\ Files!DiffIsExact

\* A path has one change, which says what the agent saw last; the rows are its match.
Types == {"added", "modified", "deleted"}
ChangesOK ==
    \A c \in payload.changes :
        /\ c.type \in Types /\ (c.type = "deleted" <=> Files!seenAt(c.path) \notin Leaves)
        /\ \A d \in payload.changes : d.path = c.path => d = c
RowsInv ==
    /\ workspace \in Workspaces /\ intents \in Seq([path : Paths, type : Types])
    /\ Files!collected => ChangesOK /\ rows = Files!Match(payload.changes)

EvidenceInv == EgressInv /\ FilesInv /\ RowsInv /\ (Files!collected => EffectsAreSound)

----------------------------------------------------------------------------
\* The start: nothing decided, nothing queued.
LEMMA EgressInvInit == Init => EgressInv
  <1> SUFFICES ASSUME Init PROVE EgressInv
    BY Zenon
  <1>1. TypeOK
    <2>1. queue \in Seq(Requests)
      BY DEF Init
    <2>2. decision \in [Requests -> {"none", "allow", "deny"}] /\ ip \in [Requests -> {"pinned", "public", "none"}]
      BY Zenon DEF Init
    <2>3. pc \in [Requests -> {"new", "submit", "await", "allowed", "dialed", "denied", "unavailable", "gone"}]
      BY Zenon DEF Init
    <2>4. conn \in [Requests -> {"none", "backlog", "handle", "wait", "ok", "err", "closed"}]
      BY Zenon DEF Init
    <2>5. ack \in [Requests -> {"none", "ok", "err"}]
      BY Zenon DEF Init
    <2>6. hand \in Maybe /\ taken \in Maybe /\ accepted \subseteq Requests
      BY Zenon DEF Init, Maybe
    <2>7. closing \in BOOLEAN /\ queueClosed \in BOOLEAN /\ effectsDone \in BOOLEAN /\ effectsErr \in BOOLEAN
      BY Zenon DEF Init
    <2> QED
      BY <2>1, <2>2, <2>3, <2>4, <2>5, <2>6, <2>7, Zenon DEF TypeOK
  <1>2. AnswerInv
    BY Zenon DEF Init, AnswerInv
  <1>3. StreamInv
    BY Zenon DEF Init, StreamInv
  <1> QED
    BY <1>1, <1>2, <1>3, Zenon DEF EgressInv

\* The stream depends on the broker and the collector only, and survives the end
\* of handlers.
LEMMA StreamKept ==
    ASSUME StreamInv, UNCHANGED <<broker, collector>>, handlers' \subseteq handlers PROVE StreamInv'
  BY Zenon DEF StreamInv, InQueue, Drained, broker, collector

\* A reply that says recorded, or none, keeps the answers true.
LEMMA ReplyIsTrue ==
    ASSUME TypeOK, AnswerInv, NEW r \in Requests,
           NEW s \in {"none", "backlog", "handle", "wait", "ok", "err", "closed"}, s = "ok" => r \in recorded,
           conn' = [conn EXCEPT ![r] = s], UNCHANGED <<decision, ip, pc, ack, recorded, net>>
    PROVE  conn' \in [Requests -> {"none", "backlog", "handle", "wait", "ok", "err", "closed"}] /\ AnswerInv'
  <1>1. conn \in [Requests -> {"none", "backlog", "handle", "wait", "ok", "err", "closed"}]
    BY Zenon DEF TypeOK
  <1>2. conn' \in [Requests -> {"none", "backlog", "handle", "wait", "ok", "err", "closed"}]
    BY <1>1, Zenon
  <1>3. \A q \in Requests : conn'[q] = IF q = r THEN s ELSE conn[q]
    BY <1>1, Zenon
  <1>4. ASSUME NEW q \in Requests, conn'[q] = "ok" PROVE q \in recorded
    <2>1. CASE q = r
      BY <1>3, <1>4, <2>1, Zenon
    <2>2. CASE q # r
      <3>1. conn[q] = "ok"
        BY <1>3, <1>4, <2>2, Zenon
      <3> QED BY <3>1, Zenon DEF AnswerInv
    <2> QED BY <2>1, <2>2, Zenon
  <1>5. AnswerInv'
    BY <1>4, Zenon DEF AnswerInv, target
  <1> QED BY <1>2, <1>5, Zenon

\* The proxy's steps: an answer follows a reply, and a reply follows the record.
LEMMA EgressInvProxy ==
    ASSUME EgressInv, NEW r \in Requests,
           authorize(r) \/ exchange(r) \/ reply(r) \/ exchangeTimeout(r) \/ dial(r)
    PROVE  EgressInv'
  <1> USE DEF EgressInv
  <1>0. StreamInv'
    <2>1. UNCHANGED <<broker, collector>>
      BY Zenon DEF authorize, exchange, reply, exchangeTimeout, dial
    <2>2. handlers' \subseteq handlers
      BY DEF TypeOK, handlers, authorize, exchange, reply, exchangeTimeout, dial
    <2> QED
      BY <2>1, <2>2, StreamKept, Zenon
  <1>1. CASE authorize(r)
    <2>1. TypeOK'
      BY <1>1, Zenon DEF TypeOK, authorize, addressOf, permits, broker, collector
    <2>2. AnswerInv'
      <3>1. UNCHANGED <<ack, conn, recorded, net>> /\ target' = target
        BY <1>1, Zenon DEF authorize, collector, target
      <3>2. \A q \in Requests \ {r} : pc'[q] = pc[q] /\ decision'[q] = decision[q] /\ ip'[q] = ip[q]
        BY <1>1 DEF TypeOK, authorize
      <3>3. /\ pc'[r] = "submit"
            /\ decision'[r] = "allow" => permits(target[r]) /\ ip'[r] = addressOf(target[r])
        BY <1>1, Zenon DEF TypeOK, authorize
      <3>4. permits(target[r]) => /\ target[r].listed /\ target[r].port
                                  /\ addressOf(target[r]) = IF target[r].pinned THEN "pinned" ELSE "public"
        BY Zenon DEF permits, addressOf
      <3> QED BY <3>1, <3>2, <3>3, <3>4 DEF AnswerInv
    <2> QED
      BY <1>0, <2>1, <2>2, Zenon
  <1>2. CASE exchange(r)
    BY <1>0, <1>2 DEF TypeOK, AnswerInv, target, exchange, broker, collector
  <1>3. CASE reply(r)
    BY <1>0, <1>3 DEF TypeOK, AnswerInv, target, reply, AnswerOf, broker, collector
  <1>4. CASE exchangeTimeout(r)
    BY <1>0, <1>4 DEF TypeOK, AnswerInv, target, exchangeTimeout, broker, collector
  <1>5. CASE dial(r)
    BY <1>0, <1>5 DEF TypeOK, AnswerInv, target, dial, DialAddress, broker, collector
  <1> QED
    BY <1>1, <1>2, <1>3, <1>4, <1>5, Zenon

\* The steps of a handler: what it queues is accepted and in the queue at once,
\* and while there is a handler the queue is open.
LEMMA EgressInvHandler ==
    ASSUME EgressInv, NEW r \in Requests,
           accept(r) \/ handle(r) \/ acknowledged(r) \/ ackTimeout(r)
    PROVE  EgressInv'
  <1> USE DEF EgressInv
  <1>1. CASE accept(r)
    <2>1. TypeOK' /\ AnswerInv'
      BY <1>1 DEF TypeOK, AnswerInv, target, accept, proxy, broker, collector
    <2>2. StreamInv'
      BY <1>1, Zenon DEF StreamInv, InQueue, Drained, accept, proxy, broker, collector
    <2> QED
      BY <2>1, <2>2, Zenon
  <1>2. CASE handle(r)
    <2>1. TypeOK' /\ AnswerInv'
      <3>1. queue' \in Seq(Requests) /\ accepted' \subseteq Requests
        <4>1. queue \in Seq(Requests) /\ accepted \subseteq Requests
          BY Zenon DEF TypeOK
        <4>2. CASE UNCHANGED <<queue, accepted>>
          BY <4>1, <4>2, Zenon
        <4>3. CASE queue' = Append(queue, r) /\ accepted' = accepted \union {r}
          BY <4>1, <4>3
        <4> QED
          BY <1>2, <4>2, <4>3, Zenon DEF handle
      <3>a. \E s \in {"wait", "err"} : conn' = [conn EXCEPT ![r] = s]
        BY <1>2, Zenon DEF handle, HeldWait
      <3>b. UNCHANGED <<decision, ip, pc, ack, recorded, net>>
        BY <1>2, Zenon DEF handle, proxy, collector
      <3>2. conn' \in [Requests -> {"none", "backlog", "handle", "wait", "ok", "err", "closed"}] /\ AnswerInv'
        BY <3>a, <3>b, ReplyIsTrue, Zenon
      <3>3. TypeOK'
        BY <1>2, <3>1, <3>2, Zenon DEF TypeOK, handle, proxy, collector
      <3> QED
        BY <3>2, <3>3, Zenon
    <2>2. ~queueClosed /\ ~effectsDone
      BY <1>2, Zenon DEF StreamInv, Drained, handle, handlers
    <2>3. UNCHANGED <<hand, taken, recorded, effectsErr, queueClosed, effectsDone>>
      BY <1>2, Zenon DEF handle, collector
    <2>4. CASE UNCHANGED <<queue, accepted>>
      BY <2>1, <2>2, <2>3, <2>4, Zenon DEF StreamInv, InQueue
    <2>5. CASE queue' = Append(queue, r) /\ accepted' = accepted \union {r}
      <3>1. InQueue(r)'
        BY <2>5 DEF TypeOK, InQueue
      <3>2. ASSUME NEW q, InQueue(q) PROVE InQueue(q)'
        BY <2>5, <3>2 DEF TypeOK, InQueue
      <3> QED
        BY <2>1, <2>2, <2>3, <2>5, <3>1, <3>2, Zenon DEF StreamInv
    <2> QED
      BY <1>2, <2>1, <2>4, <2>5, Zenon DEF handle
  <1>3. CASE acknowledged(r) \/ ackTimeout(r)
    <2>a. /\ UNCHANGED <<decision, ip, pc, ack, queue, hand, taken, accepted, recorded, closing, queueClosed,
                          effectsDone, effectsErr, net>>
          /\ \E s \in {"ok", "err"} : conn' = [conn EXCEPT ![r] = s] /\ (s = "ok" => ack[r] = "ok")
      BY <1>3, Zenon DEF TypeOK, acknowledged, ackTimeout, proxy, broker, collector
    <2>b. PICK s \in {"ok", "err"} : conn' = [conn EXCEPT ![r] = s] /\ (s = "ok" => ack[r] = "ok")
      BY <2>a, Zenon
    <2>c. s = "ok" => r \in recorded
      BY <2>b, Zenon DEF AnswerInv
    <2>d. conn' \in [Requests -> {"none", "backlog", "handle", "wait", "ok", "err", "closed"}] /\ AnswerInv'
      BY <2>a, <2>b, <2>c, ReplyIsTrue, Zenon
    <2>e. TypeOK'
      BY <2>a, <2>d, Zenon DEF TypeOK
    <2>1. TypeOK' /\ AnswerInv'
      BY <2>d, <2>e, Zenon
    <2>2. handlers' \subseteq handlers
      BY <1>3 DEF TypeOK, handlers, acknowledged, ackTimeout
    <2> QED
      BY <1>3, <2>1, <2>2, StreamKept, Zenon DEF acknowledged, ackTimeout
  <1> QED
    BY <1>1, <1>2, <1>3, Zenon

\* The steps that move an attempt from the queue to the collector.
LEMMA EgressInvMove == ASSUME EgressInv, dispatch \/ deliver PROVE EgressInv'
  <1> USE RequestsAssumption DEF EgressInv
  <1>1. CASE dispatch
    <2>0. queue # <<>> /\ hand = None /\ hand' = Head(queue) /\ queue' = Tail(queue)
      BY <1>1, Zenon DEF dispatch, Queued
    <2>1. TypeOK'
      BY <1>1, <2>0 DEF TypeOK, Maybe, dispatch, proxy, collector
    <2>2. AnswerInv'
      BY <1>1, Zenon DEF AnswerInv, target, dispatch, proxy, collector
    <2>3. ASSUME NEW q \in Requests, InQueue(q) PROVE InQueue(q)' \/ q = hand'
      <3>1. PICK i \in 1 .. Len(queue) : queue[i] = q
        BY <2>3, Zenon DEF InQueue
      <3>2. CASE i = 1
        BY <2>0, <3>1, <3>2 DEF TypeOK
      <3>3. CASE i # 1
        <4>1. i - 1 \in 1 .. Len(queue') /\ queue'[i - 1] = q
          BY <2>0, <3>1, <3>3 DEF TypeOK
        <4> QED
          BY <4>1, Zenon DEF InQueue
      <3> QED
        BY <3>2, <3>3, Zenon
    <2>4. ~effectsDone
      BY <2>0, Zenon DEF StreamInv, Drained
    <2>5. StreamInv'
      BY <1>1, <2>0, <2>3, <2>4 DEF TypeOK, StreamInv, handlers, dispatch, collector
    <2> QED
      BY <2>1, <2>2, <2>5, Zenon
  <1>2. CASE deliver
    <2>1. TypeOK' /\ AnswerInv'
      BY <1>2, Zenon DEF TypeOK, Maybe, AnswerInv, target, deliver, proxy
    <2>2. ~effectsDone
      BY <1>2, Zenon DEF StreamInv, Drained, deliver
    <2>3. StreamInv'
      BY <1>2, <2>2, Zenon DEF TypeOK, StreamInv, InQueue, handlers, deliver
    <2> QED
      BY <2>1, <2>3, Zenon
  <1> QED
    BY <1>1, <1>2, Zenon

\* The collector: only a durable record is acknowledged, and what is not
\* acknowledged is an error of the stream.
LEMMA EgressInvCollect ==
    ASSUME EgressInv, NEW ok \in BOOLEAN, NEW durable \in BOOLEAN, collect(ok, durable) PROVE EgressInv'
  <1> USE RequestsAssumption DEF EgressInv
  <1>1. taken \in Requests
    BY Zenon DEF TypeOK, Maybe, collect
  <1>2. TypeOK'
    BY <1>1, Zenon DEF TypeOK, Maybe, collect, proxy, broker
  <1>3. AnswerInv'
    BY <1>1, SMTT(20) DEF TypeOK, AnswerInv, target, collect, proxy, broker
  <1>4. StreamInv'
    BY <1>1, Zenon DEF TypeOK, StreamInv, InQueue, Drained, handlers, collect, broker
  <1> QED
    BY <1>2, <1>3, <1>4, Zenon

\* The end of the proxy, of the broker and of the collector.
LEMMA EgressInvEnd ==
    ASSUME EgressInv, dnsChanges \/ stopProxy \/ Shutdown \/ closeQueue \/ collectorEnds \/ Finished PROVE EgressInv'
  <1> USE DEF EgressInv
  <1>1. CASE dnsChanges
    BY <1>1, StreamKept, Zenon DEF TypeOK, AnswerInv, target, handlers, dnsChanges, proxy, broker, collector
  <1>2. CASE stopProxy
    BY <1>2, StreamKept, Zenon DEF TypeOK, AnswerInv, target, handlers, stopProxy, broker, collector
  <1>3. CASE Shutdown
    <2>1. TypeOK' /\ AnswerInv'
      BY <1>3, Zenon DEF TypeOK, AnswerInv, target, Shutdown, proxy, collector
    <2>2. handlers' \subseteq handlers
      BY <1>3, Zenon DEF TypeOK, handlers, Shutdown
    <2>3. StreamInv'
      BY <1>3, <2>2, Zenon DEF StreamInv, InQueue, Drained, Shutdown, collector
    <2> QED
      BY <2>1, <2>3, Zenon
  <1>4. CASE closeQueue
    <2>1. TypeOK' /\ AnswerInv'
      BY <1>4, Zenon DEF TypeOK, AnswerInv, target, closeQueue, proxy, collector
    <2>2. handlers' = {} /\ closing /\ UNCHANGED <<queue, hand, accepted, closing, collector>> /\ queueClosed'
      BY <1>4, Zenon DEF handlers, HandlersDone, closeQueue
    <2>3. StreamInv'
      BY <2>2, Zenon DEF StreamInv, InQueue, Drained, collector
    <2> QED
      BY <2>1, <2>3, Zenon
  <1>5. CASE collectorEnds
    <2>1. TypeOK' /\ AnswerInv'
      BY <1>5, Zenon DEF TypeOK, AnswerInv, target, collectorEnds, proxy, broker
    <2>2. Drained' /\ taken' = None /\ handlers' = handlers /\ UNCHANGED <<broker, taken, recorded, effectsErr>>
      BY <1>5, Zenon DEF handlers, Drained, collectorEnds, broker
    <2>3. StreamInv'
      BY <2>2, Zenon DEF StreamInv, InQueue, broker
    <2> QED
      BY <2>1, <2>3, Zenon
  <1>6. CASE Finished
    BY <1>6, StreamKept, Zenon DEF TypeOK, AnswerInv, target, handlers, Finished, vars, proxy, broker, collector
  <1> QED
    BY <1>1, <1>2, <1>3, <1>4, <1>5, <1>6, Zenon

\* A step that leaves the egress alone.
LEMMA EgressInvStutter == ASSUME EgressInv, UNCHANGED vars PROVE EgressInv'
  BY StreamKept, Zenon DEF EgressInv, TypeOK, AnswerInv, target, handlers, vars, proxy, broker, collector

\* Every step of the network.
LEMMA EgressInvNext == ASSUME EgressInv, Next PROVE EgressInv'
  BY EgressInvProxy, EgressInvHandler, EgressInvMove, EgressInvCollect, EgressInvEnd, Zenon DEF Next

\* Where a path of the baseline is covered: under a directory that upper hides.
LEMMA LowerCovered ==
    ASSUME FilesInv, lower = baseline, NEW p \in Paths, baseline[p] # "none"
    PROVE  Files!lowerShown(p) <=> Above[p] \intersect Files!opaqueDirs = {}
  <1>1. \A q \in Above[p] : q \in Files!opaqueDirs <=> upper[q] \notin {"absent", "dir"}
    BY WorkspacesAssumption, Zenon DEF FilesInv, Files!opaqueDirs, Files!Leaves, Leaves
  <1> QED
    BY <1>1, Zenon DEF Files!lowerShown

\* What the agent sees at a path, by what upper has there.
LEMMA Seen ==
    ASSUME FilesInv, lower = baseline, NEW p \in Paths
    PROVE  /\ upper[p] \in Leaves => Files!seenAt(p) = upper[p]
           /\ upper[p] \in {"dir", "opaque"} => Files!seenAt(p) = "dir"
           /\ upper[p] = "whiteout" => Files!seenAt(p) = "none"
           /\ upper[p] = "absent" =>
                 Files!seenAt(p) = IF baseline[p] # "none" /\ Above[p] \intersect Files!opaqueDirs = {}
                                   THEN baseline[p] ELSE "none"
  <1>1. upper[p] \in Leaves \cup {"absent", "dir", "opaque", "whiteout"}
    BY Zenon DEF FilesInv
  <1>2. Leaves \intersect {"none", "dir", "absent", "opaque", "whiteout"} = {}
    BY WorkspacesAssumption, Zenon DEF Leaves
  <1>3. Files!lowerShown(p) <=> baseline[p] # "none" /\ Above[p] \intersect Files!opaqueDirs = {}
    BY LowerCovered, Zenon DEF Files!lowerShown
  <1> QED
    BY <1>1, <1>2, <1>3, Zenon DEF Files!seenAt, Files!Leaves, Leaves

\* Diff: the walk over upper and the expansion of the hidden directories find
\* the deletions and the additions exactly, and every content that changed.
LEMMA DiffFindsChanges ==
    ASSUME FilesInv, ~Files!lowerChanged, ~Files!invalidUpper,
           payload' = Files!Diff, UNCHANGED <<lower, baseline, upper>>
    PROVE  Files!DiffIsExact'
  <1> DEFINE All == Files!walkDeleted \cup Files!walkWritten \cup Files!expandOpaque
             Gone == {p \in Paths : baseline[p] \in Leaves /\ Files!seenAt(p) \notin Leaves}
             Come == {p \in Paths : baseline[p] \notin Leaves /\ Files!seenAt(p) \in Leaves}
  <1>1. lower = baseline /\ payload' = [status |-> "ok", changes |-> All]
    BY Zenon DEF Files!lowerChanged, Files!Diff
  <1>2. Leaves \intersect {"none", "dir", "absent", "opaque", "whiteout"} = {} /\ Leaves = Files!Leaves
    BY WorkspacesAssumption, Zenon DEF Leaves, Files!Leaves
  <1>3. \A p \in Paths : /\ upper[p] \in Leaves \cup {"absent", "dir", "opaque", "whiteout"}
                         /\ baseline[p] \in Leaves \cup {"none", "dir"}
    BY Zenon DEF FilesInv
  <1>4. ASSUME NEW p \in Paths, upper[p] \in Leaves
        PROVE  Files!Kind(baseline[p]) = Files!Kind(upper[p]) <=> baseline[p] \in Leaves
    BY <1>2, <1>3, <1>4, Zenon DEF Files!invalidUpper, Files!Kind, Leaves
  <1>5. Gone = {p \in Paths : baseline[p] \in Leaves /\ upper[p] \in {"whiteout", "dir", "opaque"}}
                 \cup {p \in Paths : baseline[p] \in Leaves /\ upper[p] = "absent"
                                       /\ Above[p] \intersect Files!opaqueDirs # {}}
    BY <1>1, <1>2, <1>3, Seen
  <1>10. Files!walkDeleted \cup Files!expandOpaque = {Files!Change(p, baseline[p], "deleted") : p \in Gone}
    BY <1>2, <1>5, Zenon DEF Files!walkDeleted, Files!expandOpaque, Files!Deleted
  <1>6. {c \in All : c.type = "deleted"} = {Files!Change(p, baseline[p], "deleted") : p \in Gone}
    <2>2. \A c \in Files!walkWritten : c.type # "deleted"
      BY DEF Files!walkWritten, Files!Change
    <2>3. \A p \in Gone : Files!Change(p, baseline[p], "deleted").type = "deleted"
      BY Zenon DEF Files!Change
    <2> QED
      BY <1>10, <2>2, <2>3, Zenon
  <1>7. {c \in All : c.type = "added"} = {Files!Change(p, Files!seenAt(p), "added") : p \in Come}
    <2>1. Come = {p \in Paths : baseline[p] \notin Leaves /\ upper[p] \in Leaves}
      BY <1>1, <1>2, <1>3, Seen, Zenon
    <2>2. \A c \in Files!walkDeleted \cup Files!expandOpaque : c.type # "added"
      BY SMTT(20) DEF Files!walkDeleted, Files!expandOpaque, Files!Deleted, Files!Change
    <2>3. ASSUME NEW c \in Files!walkWritten, c.type = "added"
          PROVE  \E p \in Come : c = Files!Change(p, Files!seenAt(p), "added")
      BY <1>1, <1>2, <1>4, <2>1, <2>3, Seen, SMTT(20) DEF Files!walkWritten, Files!Change
    <2>4. ASSUME NEW p \in Come
          PROVE  Files!Change(p, Files!seenAt(p), "added") \in Files!walkWritten
      BY <1>1, <1>2, <1>4, <2>1, Seen, Zenon DEF Files!walkWritten
    <2>5. \A p \in Come : Files!Change(p, Files!seenAt(p), "added").type = "added"
      BY Zenon DEF Files!Change
    <2> QED
      BY <2>2, <2>3, <2>4, <2>5
  <1>8. ASSUME NEW p \in Paths, baseline[p] \in Leaves, Files!seenAt(p) \in Leaves
        PROVE  IF baseline[p] # Files!seenAt(p)
               THEN Files!Change(p, Files!seenAt(p), "modified") \in All
               ELSE {c \in All : c.path = p} \subseteq {Files!Change(p, baseline[p], "modified")}
    <2>1. p \notin Gone
      BY <1>8, Zenon
    <2>2. upper[p] \in Leaves => Files!seenAt(p) = upper[p]
      BY <1>1, Seen, Zenon
    <2>3. baseline[p] # Files!seenAt(p) => upper[p] \in Leaves
      BY <1>1, <1>2, <1>3, <1>8, Seen, Zenon
    <2>4. upper[p] \in Leaves => Files!Change(p, Files!seenAt(p), "modified") \in Files!walkWritten
      BY <1>2, <1>4, <1>8, <2>2, Zenon DEF Files!walkWritten
    <2>5. ASSUME NEW c \in All, c.path = p PROVE c = Files!Change(p, Files!seenAt(p), "modified")
      <3>1. c \in Files!walkWritten
        BY <1>10, <2>1, <2>5 DEF Files!Change
      <3> QED
        <4>1. PICK q \in Paths : /\ upper[q] \in Leaves
                                /\ c = Files!Change(q, upper[q],
                                         IF Files!Kind(baseline[q]) = Files!Kind(upper[q]) THEN "modified" ELSE "added")
          BY <1>2, <3>1, Zenon DEF Files!walkWritten
        <4>2. q = p
          BY <2>5, <4>1, Zenon DEF Files!Change
        <4> QED BY <1>4, <1>8, <2>2, <4>1, <4>2, Zenon
    <2> QED
      BY <2>3, <2>4, <2>5, Zenon
  <1>9. \A p \in Paths : Files!seenAt(p)' = Files!seenAt(p)
    BY Zenon DEF Files!seenAt, Files!lowerShown
  <1> HIDE DEF All, Gone, Come
  <1> QED
    BY <1>1, <1>2, <1>6, <1>7, <1>8, <1>9 DEF Files!DiffIsExact, Files!ofType, Gone, Come

\* What Diff lists: a deletion where a content is gone, else what upper has.
LEMMA DiffListsOnce ==
    ASSUME FilesInv, ~Files!lowerChanged, ~Files!invalidUpper,
           payload' = Files!Diff, UNCHANGED <<lower, baseline, upper>>
    PROVE  ChangesOK'
  <1> DEFINE All == Files!walkDeleted \cup Files!walkWritten \cup Files!expandOpaque
             Written(p) == Files!Change(p, upper[p],
                              IF Files!Kind(baseline[p]) = Files!Kind(upper[p]) THEN "modified" ELSE "added")
  <1>1. lower = baseline /\ payload'.changes = All
    BY Zenon DEF Files!lowerChanged, Files!Diff
  <1>2. Leaves \intersect {"none", "dir", "absent", "opaque", "whiteout"} = {} /\ Leaves = Files!Leaves
    BY WorkspacesAssumption DEF Leaves, Files!Leaves
  <1>3. ASSUME NEW c \in Files!walkDeleted \cup Files!expandOpaque
        PROVE  \E p \in Paths : c = Files!Deleted(p) /\ Files!seenAt(p) \notin Leaves
    <2>1. PICK p \in Paths : /\ c = Files!Deleted(p)
                             /\ \/ upper[p] \in {"whiteout", "dir", "opaque"}
                                \/ upper[p] = "absent" /\ Above[p] \intersect Files!opaqueDirs # {}
      BY Zenon DEF Files!walkDeleted, Files!expandOpaque
    <2>2. Files!seenAt(p) \in {"none", "dir"}
      BY <1>1, <2>1, Seen, Zenon
    <2> QED BY <1>2, <2>1, <2>2, Zenon
  <1>4. ASSUME NEW c \in Files!walkWritten
        PROVE  \E p \in Paths : c = Written(p) /\ Files!seenAt(p) \in Leaves
    <2>1. PICK p \in Paths : c = Written(p) /\ upper[p] \in Leaves
      BY <1>2, Zenon DEF Files!walkWritten
    <2> QED BY <1>1, <2>1, Seen, Zenon
  <1>5. \A p : /\ Files!Deleted(p).path = p /\ Files!Deleted(p).type = "deleted"
               /\ Written(p).path = p /\ Written(p).type \in {"modified", "added"}
    BY Zenon DEF Files!Deleted, Files!Change
  <1> HIDE DEF Written
  <1>6. ASSUME NEW c \in All
        PROVE  /\ c.type \in Types /\ (c.type = "deleted" <=> Files!seenAt(c.path) \notin Leaves)
               /\ c = IF c.type = "deleted" THEN Files!Deleted(c.path) ELSE Written(c.path)
    <2>1. CASE c \in Files!walkWritten
      BY <1>4, <1>5, <2>1 DEF Types
    <2>2. CASE c \in Files!walkDeleted \cup Files!expandOpaque
      BY <1>3, <1>5, <2>2 DEF Types
    <2> QED BY <2>1, <2>2, Zenon
  <1>7. ASSUME NEW c \in All, NEW d \in All, d.path = c.path PROVE d = c
    <2>1. c.type = "deleted" <=> d.type = "deleted"
      BY <1>6, <1>7, Zenon
    <2> QED BY <1>6, <1>7, <2>1, Zenon
  <1>8. \A p : Files!seenAt(p)' = Files!seenAt(p)
    BY Zenon DEF Files!seenAt, Files!lowerShown
  <1> HIDE DEF All
  <1> QED BY <1>1, <1>6, <1>7, <1>8, Zenon DEF ChangesOK

\* Match: every change and every report is in one row.
LEMMA MatchIsTrue ==
    ASSUME RowsInv PROVE Files!RowsAreTrue
  <1> SUFFICES ASSUME Files!collected, payload.changes # {} \/ intents = <<>> PROVE Files!RowsAreTrue
    BY Zenon DEF Files!RowsAreTrue
  <1> DEFINE C == payload.changes
             D == DOMAIN intents
             M(i, c) == Files!Row("matched", c.path, i, c.type)
             R(i) == Files!Row("reported_unobserved", intents[i].path, i, "none")
             O(c) == Files!Row("observed_unreported", c.path, 0, c.type)
  <1>1. /\ \A c \in C : c.type \in Types /\ (c.type = "deleted" <=> Files!seenAt(c.path) \notin Leaves)
        /\ \A c, d \in C : d.path = c.path => d = c
    BY Zenon DEF RowsInv, ChangesOK
  <1>2. D = 1 .. Len(intents) /\ Len(intents) \in Nat
    BY DEF RowsInv
  <1>3. rows = Files!matchedRows(D, C) \cup Files!reportedRows(D, C) \cup Files!observedRows(D, C)
    <2>1. ~Files!ambiguous(C)
      BY <1>1, Zenon DEF Files!ambiguous
    <2>2. \A i \in D : intents[i].path \in Files!matchKeys(C)
      BY Zenon DEF Files!matchKeys
    <2>3. \A c \in C : c.path \in Files!matchKeys(C)
      BY Zenon DEF Files!matchKeys
    <2>4. {i \in D : intents[i].path \in Files!matchKeys(C)} = D
      BY <2>2, Zenon
    <2>5. {c \in C : c.path \in Files!matchKeys(C)} = C
      BY <2>3, Zenon
    <2> QED BY <2>1, <2>4, <2>5, Zenon DEF RowsInv, Files!Match
  <1>4. \A r : r \in rows <=> \/ \E i \in D, c \in C : Files!pair(i, c) /\ r = M(i, c)
                              \/ \E i \in D : (\A c \in C : ~Files!pair(i, c)) /\ r = R(i)
                              \/ \E c \in C : (\A i \in D : ~Files!pair(i, c)) /\ r = O(c)
    <2>1. \A r : r \in Files!matchedRows(D, C) <=> \E i \in D, c \in C : Files!pair(i, c) /\ r = M(i, c)
      <3>1. \A r : r \in Files!matchedRows(D, C) <=>
                \E x \in D \X C : Files!pair(x[1], x[2]) /\ r = M(x[1], x[2])
        BY Zenon DEF Files!matchedRows
      <3>3. \A x \in D \X C : x[1] \in D /\ x[2] \in C
        BY Zenon
      <3> HIDE DEF M
      <3>4. ASSUME NEW r, NEW i \in D, NEW c \in C, Files!pair(i, c), r = M(i, c)
            PROVE  r \in Files!matchedRows(D, C)
        <4> DEFINE x == <<i, c>>
        <4>1. x \in D \X C /\ x[1] = i /\ x[2] = c
          BY Zenon
        <4> HIDE DEF x
        <4>2. Files!pair(x[1], x[2]) /\ r = M(x[1], x[2])
          BY <3>4, <4>1, Zenon
        <4> QED BY <3>1, <4>1, <4>2, Zenon
      <3>5. ASSUME NEW r \in Files!matchedRows(D, C)
            PROVE  \E i \in D, c \in C : Files!pair(i, c) /\ r = M(i, c)
        BY <3>1, <3>3, Zenon
      <3> QED BY <3>4, <3>5, Zenon
    <2>2. \A r : r \in Files!reportedRows(D, C) <=> \E i \in D : (\A c \in C : ~Files!pair(i, c)) /\ r = R(i)
      BY Zenon DEF Files!reportedRows
    <2>3. \A r : r \in Files!observedRows(D, C) <=> \E c \in C : (\A i \in D : ~Files!pair(i, c)) /\ r = O(c)
      BY Zenon DEF Files!observedRows
    <2> HIDE DEF M, R, O
    <2> QED BY <1>3, <2>1, <2>2, <2>3, Zenon
  <1>m. ASSUME NEW i \in D, NEW c \in C
        PROVE  M(i, c).class = "matched" /\ M(i, c).path = c.path /\ M(i, c).intent = i /\ M(i, c).effect = c.type
    BY Zenon DEF Files!Row
  <1>r. ASSUME NEW i \in D
        PROVE  R(i).class # "matched" /\ R(i).path = intents[i].path /\ R(i).intent = i /\ R(i).effect = "none"
    BY Zenon DEF Files!Row
  <1>o. ASSUME NEW c \in C
        PROVE  O(c).class # "matched" /\ O(c).path = c.path /\ O(c).intent = 0 /\ O(c).effect = c.type
    BY Zenon DEF Files!Row
  <1> HIDE DEF M, R, O
  <1>6. \A i, j \in D : \A c \in C : Files!pair(i, c) /\ Files!pair(j, c) => i = j
    BY <1>2 DEF Files!pair
  <1>7. \A i \in D : \A c, d \in C : Files!pair(i, c) /\ Files!pair(i, d) => c = d
    BY <1>1, Zenon DEF Files!pair
  <1>8. \A c \in C : c.type # "none"
    BY <1>1, Zenon DEF Types
  <1> HIDE DEF C, D
  <1>9. ASSUME NEW r \in rows
        PROVE  \/ \E i \in D, c \in C : /\ Files!pair(i, c) /\ r = M(i, c) /\ r.class = "matched"
                                        /\ r.path = c.path /\ r.intent = i
               \/ \E i \in D : /\ \A c \in C : ~Files!pair(i, c)
                               /\ r = R(i) /\ r.class # "matched" /\ r.intent = i /\ r.effect = "none"
               \/ \E c \in C : /\ \A i \in D : ~Files!pair(i, c)
                               /\ r = O(c) /\ r.class # "matched" /\ r.path = c.path /\ r.intent = 0
    <2>1. ASSUME NEW i \in D, NEW c \in C, r = M(i, c)
          PROVE  r.class = "matched" /\ r.path = c.path /\ r.intent = i
      BY <1>m, <2>1, Zenon
    <2>2. ASSUME NEW i \in D, r = R(i) PROVE r.class # "matched" /\ r.intent = i /\ r.effect = "none"
      BY <1>r, <2>2, Zenon
    <2>3. ASSUME NEW c \in C, r = O(c) PROVE r.class # "matched" /\ r.path = c.path /\ r.intent = 0
      BY <1>o, <2>3, Zenon
    <2>4. \/ \E i \in D, c \in C : Files!pair(i, c) /\ r = M(i, c)
          \/ \E i \in D : (\A c \in C : ~Files!pair(i, c)) /\ r = R(i)
          \/ \E c \in C : (\A i \in D : ~Files!pair(i, c)) /\ r = O(c)
      BY <1>4, Zenon
    <2> QED BY <2>1, <2>2, <2>3, <2>4, Zenon
  <1>10. ASSUME NEW c \in C
         PROVE  /\ Files!One({r \in rows : r.path = c.path /\ r.effect # "none"})
                /\ (\A i \in D : intents[i].path # c.path) => O(c) \in rows
    <2> DEFINE S == {r \in rows : r.path = c.path /\ r.effect # "none"}
    <2>0. \A d \in C : d.path = c.path => d = c
      BY <1>1, Zenon
    <2>1. ASSUME NEW i \in D, Files!pair(i, c) PROVE M(i, c) \in S /\ \A r \in S : r = M(i, c)
      <3>1. M(i, c) \in S
        <4>1. M(i, c) \in rows
          BY <1>4, <2>1, Zenon
        <4>2. M(i, c).path = c.path /\ M(i, c).effect = c.type
          BY <1>m, Zenon
        <4> QED BY <1>8, <4>1, <4>2, Zenon
      <3>2. ASSUME NEW r \in S PROVE r = M(i, c)
        <4>1. r \in rows /\ r.path = c.path /\ r.effect # "none"
          BY Zenon
        <4>2. PICK j \in D : Files!pair(j, c) /\ r = M(j, c)
          BY <1>9, <2>0, <2>1, <4>1, Zenon
        <4> QED BY <1>6, <2>1, <4>2, Zenon
      <3> QED BY <3>1, <3>2, Zenon
    <2>2. ASSUME \A i \in D : ~Files!pair(i, c) PROVE O(c) \in S /\ \A r \in S : r = O(c)
      <3>1. O(c) \in S
        <4>1. O(c) \in rows
          BY <1>4, <2>2, Zenon
        <4>2. O(c).path = c.path /\ O(c).effect = c.type
          BY <1>o, Zenon
        <4> QED BY <1>8, <4>1, <4>2, Zenon
      <3>2. ASSUME NEW r \in S PROVE r = O(c)
        BY <1>9, <2>0, <2>2, Zenon
      <3> QED BY <3>1, <3>2, Zenon
    <2>3. \E x \in S : \A r \in S : r = x
      BY <2>1, <2>2, Zenon
    <2>4. (\A i \in D : intents[i].path # c.path) => O(c) \in rows
      BY <2>2, Zenon DEF Files!pair
    <2> HIDE DEF S
    <2>5. Files!One(S)
      BY <2>3, Zenon DEF Files!One
    <2> QED BY <2>4, <2>5, Zenon DEF S
  <1>11. ASSUME NEW i \in D PROVE Files!One({r \in rows : r.intent = i})
    <2> DEFINE S == {r \in rows : r.intent = i}
    <2>0. i # 0
      BY <1>2
    <2>1. ASSUME NEW c \in C, Files!pair(i, c) PROVE M(i, c) \in S /\ \A r \in S : r = M(i, c)
      <3>1. M(i, c) \in S
        <4>1. M(i, c) \in rows
          BY <1>4, <2>1, Zenon
        <4> QED BY <1>m, <4>1, Zenon
      <3>2. ASSUME NEW r \in S PROVE r = M(i, c)
        <4>1. r \in rows /\ r.intent = i
          BY Zenon
        <4>2. PICK d \in C : Files!pair(i, d) /\ r = M(i, d)
          BY <1>9, <2>0, <2>1, <4>1, Zenon
        <4> QED BY <1>7, <2>1, <4>2, Zenon
      <3> QED BY <3>1, <3>2, Zenon
    <2>2. ASSUME \A c \in C : ~Files!pair(i, c) PROVE R(i) \in S /\ \A r \in S : r = R(i)
      <3>1. R(i) \in S
        <4>1. R(i) \in rows
          BY <1>4, <2>2, Zenon
        <4> QED BY <1>r, <4>1, Zenon
      <3>2. ASSUME NEW r \in S PROVE r = R(i)
        BY <1>9, <2>0, <2>2, Zenon
      <3> QED BY <3>1, <3>2, Zenon
    <2>3. \E x \in S : \A r \in S : r = x
      BY <2>1, <2>2, Zenon
    <2> HIDE DEF S
    <2>4. Files!One(S)
      BY <2>3 DEF Files!One
    <2> QED BY <2>4, Zenon DEF S
  <1>12. ASSUME NEW r \in rows, r.class = "matched"
         PROVE  /\ intents[r.intent].path = r.path
                /\ (intents[r.intent].type = "deleted") = (Files!seenAt(r.path) \notin Leaves)
    <2>1. PICK i \in D, c \in C : Files!pair(i, c) /\ r.path = c.path /\ r.intent = i
      BY <1>9, <1>12, Zenon
    <2>2. intents[i].path = c.path /\ (intents[i].type = "deleted" <=> c.type = "deleted")
      BY <2>1, Zenon DEF Files!pair, Files!compatible
    <2> QED BY <1>1, <2>1, <2>2, Zenon
  <1> QED BY <1>10, <1>11, <1>12, Zenon DEF Files!RowsAreTrue, Files!Leaves, Leaves, C, D, O

\* The agent's changes keep upper a tree of marks and contents; there is no record yet.
LEMMA FilesInvAgent == ASSUME FilesInv, Files!agent \/ Files!host PROVE FilesInv' /\ UNCHANGED payload
  <1> DEFINE Marks == Leaves \cup {"absent", "dir", "opaque", "whiteout"}
  <1>1. Files!running
    BY Zenon DEF Files!agent, Files!host, Files!remove, Files!makeDir, Files!claim, Files!put, Files!hostWrites
  <1>2. UNCHANGED <<baseline, payload>> /\ ~Files!collected'
    BY <1>1, Zenon DEF Files!running, Files!Pending, Files!collected
  <1>3. upper' \in [Paths -> Marks]
    <2>1. ASSUME NEW p PROVE Files!withParents(p) \in [Paths -> Marks]
      BY Zenon DEF FilesInv, Files!withParents
    <2>2. ASSUME NEW p, Files!remove(p) PROVE upper' \in [Paths -> Marks]
      BY <2>1, <2>2, Zenon DEF Files!remove
    <2>3. ASSUME NEW p, Files!makeDir(p) PROVE upper' \in [Paths -> Marks]
      BY <2>1, <2>3, Zenon DEF Files!makeDir
    <2>4. ASSUME NEW p, Files!claim(p) PROVE upper' \in [Paths -> Marks]
      BY <2>4, Zenon DEF FilesInv, Files!claim
    <2>5. ASSUME NEW p, NEW v \in Leaves, Files!put(p, v) PROVE upper' \in [Paths -> Marks]
      BY <2>1, <2>5, Zenon DEF Files!put
    <2>6. ASSUME Files!host PROVE upper' \in [Paths -> Marks]
      BY <2>6, Zenon DEF FilesInv, Files!host, Files!hostWrites
    <2> HIDE DEF Marks
    <2> QED
      BY <2>2, <2>3, <2>4, <2>5, <2>6, Zenon DEF Files!agent, Files!Leaves, Leaves
  <1> QED
    BY <1>2, <1>3, Zenon DEF FilesInv, Files!DiffIsExact

\* The record is made of the trees as they are.
LEMMA FilesInvEnd ==
    ASSUME FilesInv, Files!FinalizeCollection \/ Files!collectionFails PROVE FilesInv'
  <1>1. UNCHANGED <<lower, baseline, upper>>
    BY Zenon DEF Files!FinalizeCollection, Files!collectionFails
  <1>2. CASE Files!FinalizeCollection /\ ~Files!lowerChanged /\ ~Files!invalidUpper
    BY <1>1, <1>2, DiffFindsChanges, Zenon DEF FilesInv, Files!FinalizeCollection
  <1>3. CASE Files!collectionFails \/ (Files!FinalizeCollection /\ (Files!lowerChanged \/ Files!invalidUpper))
    <2>1. ~Files!collected'
      BY <1>3, SMTT(20) DEF Files!collectionFails, Files!FinalizeCollection, Files!Diff, Files!collected
    <2> QED
      BY <1>1, <2>1, Zenon DEF FilesInv, Files!DiffIsExact
  <1> QED
    BY <1>2, <1>3, Zenon

\* A step that leaves the files alone.
LEMMA FilesInvStutter == ASSUME FilesInv, UNCHANGED files PROVE FilesInv'
  <1>1. UNCHANGED <<lower, baseline, upper, payload>>
    BY Zenon DEF files
  <1>2. Files!DiffIsExact'
    BY <1>1, SMTT(20) DEF FilesInv, Files!DiffIsExact, Files!collected, Files!ofType, Files!seenAt, Files!lowerShown
  <1> QED
    BY <1>1, <1>2, Zenon DEF FilesInv

\* A report is appended while the agent runs; there are no rows yet.
LEMMA RowsInvAgent == ASSUME RowsInv, Files!agent \/ Files!host PROVE RowsInv'
  <1>1. Files!running
    BY Zenon DEF Files!agent, Files!host, Files!remove, Files!makeDir, Files!claim, Files!put, Files!hostWrites
  <1>2. UNCHANGED workspace /\ ~Files!collected'
    BY <1>1, Zenon DEF Files!running, Files!Pending, Files!collected
  <1>3. intents' \in Seq([path : Paths, type : Types])
    <2>1. ASSUME NEW p \in Paths, NEW ts \in SUBSET Types, Files!report(p, ts)
          PROVE  intents' \in Seq([path : Paths, type : Types])
      <3>1. ASSUME NEW t \in ts, intents' = Append(intents, [path |-> p, type |-> t])
            PROVE  intents' \in Seq([path : Paths, type : Types])
        <4>1. [path |-> p, type |-> t] \in [path : Paths, type : Types]
          BY Zenon
        <4> QED BY <3>1, <4>1 DEF RowsInv
      <3> QED BY <2>1, <3>1, Zenon DEF Files!report, RowsInv
    <2>2. \A p \in workspace.touched : p \in Paths
      BY WorkspacesAssumption, Zenon DEF RowsInv
    <2>3. {"added", "modified"} \in SUBSET Types /\ {"deleted"} \in SUBSET Types /\ {} \in SUBSET Types
          /\ {"added", "modified", "deleted"} \in SUBSET Types
      BY Zenon DEF Types
    <2>4. ASSUME NEW p \in Paths, Files!remove(p) PROVE intents' \in Seq([path : Paths, type : Types])
      BY <2>1, <2>3, <2>4, Zenon DEF Files!remove
    <2>5. ASSUME NEW p \in Paths, NEW v, Files!put(p, v) PROVE intents' \in Seq([path : Paths, type : Types])
      BY <2>1, <2>3, <2>5, Zenon DEF Files!put
    <2>6. ASSUME NEW p \in Paths, Files!claim(p) PROVE intents' \in Seq([path : Paths, type : Types])
      BY <2>1, <2>3, <2>6, Zenon DEF Files!claim
    <2>7. ASSUME NEW p, Files!makeDir(p) \/ \E v : Files!hostWrites(p, v)
          PROVE  intents' \in Seq([path : Paths, type : Types])
      BY <2>7, Zenon DEF Files!makeDir, Files!hostWrites, RowsInv
    <2> QED
      BY <2>2, <2>4, <2>5, <2>6, <2>7, Zenon DEF Files!agent, Files!host
  <1> QED BY <1>2, <1>3, Zenon DEF RowsInv

\* A step that leaves the reports alone leaves their match alone.
LEMMA MatchKept == ASSUME UNCHANGED intents, NEW C PROVE Files!Match(C)' = Files!Match(C)
  <1>1. Files!matchKeys(C)' = Files!matchKeys(C)
    BY Zenon DEF Files!matchKeys
  <1>2. \A is, es : Files!matchedRows(is, es)' = Files!matchedRows(is, es)
    BY Zenon DEF Files!matchedRows, Files!pair
  <1>3. \A is, es : Files!reportedRows(is, es)' = Files!reportedRows(is, es)
    BY DEF Files!reportedRows, Files!pair
  <1>4. \A is, es : Files!observedRows(is, es)' = Files!observedRows(is, es)
    BY DEF Files!observedRows, Files!pair
  <1> QED BY <1>1, <1>2, <1>3, <1>4, Zenon DEF Files!Match, Files!ambiguous

\* The rows are made of the record in the step that makes it.
LEMMA RowsInvEnd ==
    ASSUME FilesInv, RowsInv, Files!FinalizeCollection \/ Files!collectionFails PROVE RowsInv'
  <1>1. UNCHANGED <<workspace, lower, baseline, upper, intents>>
    BY Zenon DEF Files!FinalizeCollection, Files!collectionFails
  <1>2. CASE Files!FinalizeCollection /\ ~Files!lowerChanged /\ ~Files!invalidUpper
    <2>0. Files!Diff.status = "ok"
      BY <1>2, Zenon DEF Files!Diff
    <2>1. payload' = Files!Diff /\ rows' = Files!Match(payload'.changes)
      BY <1>2, <2>0, Zenon DEF Files!FinalizeCollection
    <2>2. ChangesOK'
      BY <1>1, <1>2, <2>1, DiffListsOnce, Zenon
    <2>3. rows' = (Files!Match(payload.changes))'
      BY <1>1, <2>1, MatchKept, Zenon
    <2> QED BY <1>1, <2>2, <2>3, Zenon DEF RowsInv
  <1>3. CASE Files!collectionFails \/ (Files!FinalizeCollection /\ (Files!lowerChanged \/ Files!invalidUpper))
    <2>1. ~Files!collected'
      BY <1>3, SMTT(20) DEF Files!collectionFails, Files!FinalizeCollection, Files!Diff, Files!collected
    <2> QED BY <1>1, <2>1, Zenon DEF RowsInv
  <1> QED BY <1>2, <1>3, Zenon

LEMMA RowsInvStutter == ASSUME RowsInv, UNCHANGED files PROVE RowsInv'
  <1>1. UNCHANGED <<workspace, lower, upper, intents, payload, rows>>
    BY Zenon DEF files
  <1>2. rows = Files!Match(payload.changes) => rows' = (Files!Match(payload.changes))'
    BY <1>1, MatchKept, Zenon
  <1>3. ChangesOK => ChangesOK'
    BY <1>1, Zenon DEF ChangesOK, Files!seenAt, Files!lowerShown
  <1> QED BY <1>1, <1>2, <1>3, Zenon DEF RowsInv, Files!collected

\* A record of the workspace is made only of a stream that has ended without an
\* error, and such a stream never changes again.
LEMMA EvidenceInvNext == ASSUME EvidenceInv, EvidenceNext PROVE EvidenceInv'
  <1> USE DEF EvidenceInv
  <1>1. CASE Network
    <2>1. EgressInv'
      BY <1>1, EgressInvNext, Zenon DEF Network
    <2>2. EffectsAreSound => EffectsAreSound'
      <3>1. SUFFICES ASSUME EffectsAreSound, Next PROVE EffectsAreSound'
        BY <1>1, Zenon DEF Network
      <3>2. effectsDone /\ ~effectsErr /\ taken = None
        BY <3>1, Zenon DEF EffectsAreSound, EgressInv, StreamInv
      <3>3. UNCHANGED <<effectsErr, effectsDone>>
        <4>1. ASSUME NEW r \in Requests,
                     authorize(r) \/ exchange(r) \/ reply(r) \/ exchangeTimeout(r) \/ dial(r)
              PROVE  UNCHANGED collector
          BY <4>1, Zenon DEF authorize, exchange, reply, exchangeTimeout, dial
        <4>2. ASSUME NEW r \in Requests, accept(r) \/ handle(r) \/ acknowledged(r) \/ ackTimeout(r)
              PROVE  UNCHANGED collector
          BY <4>2, Zenon DEF accept, handle, acknowledged, ackTimeout
        <4>3. ASSUME dnsChanges \/ stopProxy \/ Shutdown \/ closeQueue \/ dispatch \/ Finished
              PROVE  UNCHANGED collector
          BY <4>3, Zenon DEF dnsChanges, stopProxy, Shutdown, closeQueue, dispatch, Finished, vars
        <4>4. ~collectorEnds /\ \A ok, durable \in BOOLEAN : ~collect(ok, durable)
          BY <3>2, Zenon DEF collectorEnds, collect
        <4>5. ASSUME deliver PROVE UNCHANGED <<effectsErr, effectsDone>>
          BY <4>5, Zenon DEF deliver
        <4> QED
          BY <3>1, <4>1, <4>2, <4>3, <4>4, <4>5, Zenon DEF Next, collector
      <3> QED
        BY <3>2, <3>3, Zenon DEF EffectsAreSound
    <2>3. UNCHANGED payload /\ FilesInv' /\ RowsInv'
      BY <1>1, FilesInvStutter, RowsInvStutter, Zenon DEF Network, files
    <2> QED
      BY <2>1, <2>2, <2>3, Zenon DEF Files!collected
  <1>2. CASE Agent \/ Host
    <2>1. UNCHANGED vars
      BY <1>2, Zenon DEF Agent, Host
    <2>2. UNCHANGED payload /\ FilesInv' /\ RowsInv'
      BY <1>2, FilesInvAgent, RowsInvAgent, Zenon DEF Agent, Host
    <2> QED
      BY <2>1, <2>2, EgressInvStutter, Zenon DEF Files!collected, EffectsAreSound, vars, collector
  <1>3. CASE drainFails
    BY <1>3, EgressInvStutter, FilesInvEnd, RowsInvEnd, Zenon DEF drainFails, Files!collectionFails, Files!collected
  <1>4. CASE FinalizeCollection
    BY <1>4, EgressInvStutter, FilesInvEnd, RowsInvEnd, Zenon DEF FinalizeCollection, EffectsAreSound, vars, collector, Files!scanFails
  <1> QED
    BY <1>1, <1>2, <1>3, <1>4, Zenon DEF EvidenceNext

\* The invariant holds from the start to the end of every session.
THEOREM EvidenceInvariant == EvidenceSpec => []EvidenceInv
  <1>1. EvidenceInit => EvidenceInv
    <2> SUFFICES ASSUME EvidenceInit PROVE EvidenceInv
      OBVIOUS
    <2>1. EgressInv /\ ~Files!collected
      BY EgressInvInit, Zenon DEF EvidenceInit, Files!Init, Files!Pending, Files!collected
    <2>2. FilesInv
      BY <2>1, WorkspacesAssumption, Zenon DEF EvidenceInit, Files!Init, FilesInv, Files!DiffIsExact, Leaves
    <2>3. RowsInv
      BY <2>1 DEF EvidenceInit, Files!Init, RowsInv
    <2> QED
      BY <2>1, <2>2, <2>3, Zenon DEF EvidenceInv
  <1>2. EvidenceInv /\ [EvidenceNext]_evidence => EvidenceInv'
    <2>1. ASSUME EvidenceInv, UNCHANGED evidence PROVE EvidenceInv'
      BY <2>1, EgressInvStutter, FilesInvStutter, RowsInvStutter, Zenon DEF EvidenceInv, evidence, files, vars, collector, Files!collected, EffectsAreSound
    <2> QED
      BY <2>1, EvidenceInvNext, Zenon
  <1> QED
    BY <1>1, <1>2, PTL DEF EvidenceSpec

\* AnswerIsRecorded: whatever deadlines expire, whenever the proxy, the broker
\* or the log stop, the proxy dials and denies only what is in the log, and dials
\* the address it judged.
THEOREM AnswersAreRecorded == EvidenceSpec => []AnswerIsRecorded
  <1>1. EvidenceInv => AnswerIsRecorded
    BY Zenon DEF EvidenceInv, EgressInv, AnswerInv, AnswerIsRecorded
  <1> QED
    BY <1>1, EvidenceInvariant, PTL

\* EvidenceIsComplete: however the agent, the host, the proxy, the broker and
\* the log interleave, a session with a record of its workspace has an exact one,
\* and has every attempt in its log that the audit broker accepted.
THEOREM CollectedEvidenceIsComplete == EvidenceSpec => []EvidenceIsComplete
  <1>1. EvidenceInv => EvidenceIsComplete
    BY RequestsAssumption, SMTT(20) DEF EvidenceInv, EgressInv, TypeOK, StreamInv, InQueue, Drained, EffectsAreSound, FilesInv, EvidenceIsComplete
  <1> QED
    BY <1>1, EvidenceInvariant, PTL

\* RowsAreTrue: whatever the agent did and whatever of it was reported, the audit
\* that Match makes of the record has every change and every report in one row,
\* hides no change that was not reported, and calls a report matched only if the
\* workspace bears it out.
THEOREM RowsAreAlwaysTrue == EvidenceSpec => []RowsAreTrue
  <1>1. EvidenceInv => RowsAreTrue
    BY MatchIsTrue, Zenon DEF EvidenceInv, RowsAreTrue
  <1> QED
    BY <1>1, EvidenceInvariant, PTL

----------------------------------------------------------------------------
\* The process broker and the exit of the container.

ControlRequests == {"start", "close", "wait", "stop"}
Frames == [k : ControlRequests \union {"exit", Nothing}, code : Int]
ObsPoints == {Nothing, "read", "inspect", "arm", "record", "reissue", "stop", "send", "over"}
CtlPoints == {"read", "do", "started", "stop", "ack", "broken", "acked", "waited", "exit", "end"}

ExitTypes ==
    /\ box \in [st : {"created", "running", "exited"}, code : Nat] /\ (box.st = "created" => box.code = 0)
    /\ waiter \in [st : {Nothing, "armed", "blocked", "answered"}, ans : Nat \union {Failed}]
    /\ obs \in [pc : ObsPoints, after : BOOLEAN, attachExited : BOOLEAN, started : BOOLEAN]
    /\ ctl \in [pc : CtlPoints, frame : ControlRequests \union {Nothing}]
    /\ client \in [next : Nat, asked : BOOLEAN, stop : {Nothing, "asked", "acked"}, exit : Int, gone : BOOLEAN]
    /\ waitResult \in Int /\ req \in Seq(ControlRequests) /\ rsp \in Seq(Frames)

\* An answer of the wait that can be believed is the container's exit.
ObserverInv ==
    /\ obs.started => box.st # "created"
    /\ obs.after => obs.started
    /\ obs.attachExited => attach = "over"
    /\ obs.pc = Nothing => ~obs.started /\ ~obs.attachExited
    /\ waiter.st = "answered" /\ waiter.ans \in Nat =>
         \/ box = [st |-> "exited", code |-> waiter.ans]
         \/ waiter.ans = 0 /\ ~obs.after /\ ~(obs.pc = "record" /\ obs.started)

\* Nothing but a start and stops was asked, and nothing but stops is answered.
Untouched ==
    /\ obs.pc = Nothing /\ client.next = 1
    /\ ctl.frame \in {Nothing, "stop"} \/ (ctl.pc = "do" /\ ctl.frame = "start")
    /\ \A i \in DOMAIN req : req[i] \in {"start", "stop"}
    /\ \A i \in DOMAIN rsp : rsp[i].k = "stop"

\* The container is started at most once.
StartInv ==
    /\ \A i \in DOMAIN req : req[i] = "start" => Untouched /\ client.asked /\ ctl.frame # "start"
    /\ \A i, j \in DOMAIN req : req[i] = "start" /\ req[j] = "start" => i = j
    /\ ctl.pc = "do" /\ ctl.frame = "start" => Untouched /\ client.asked
    /\ client.next = 1 /\ ~client.asked =>
         Untouched /\ ctl.frame # "start" /\ \A i \in DOMAIN req : req[i] # "start"
    /\ client.next # 0
    /\ ctl.pc = "started" => obs.pc = Nothing /\ ctl.frame = "start"
    /\ ctl.frame = Nothing => ctl.pc \in {"read", "end"}

\* What is published is true, and nobody is told anything else.
ResultInv ==
    /\ ExitIsReal
    /\ \A i \in DOMAIN rsp : rsp[i].k = "exit" => rsp[i].code = waitResult /\ waitResult # NoResult
    /\ waitResult = NoResult \/ obs.pc \in {"send", "over"}

ExitInv == ExitTypes /\ ObserverInv /\ StartInv /\ ResultInv

----------------------------------------------------------------------------
\* The handler of a request moves on, within it.
Onwards ==
    \/ ctl' = ctl
    \/ /\ ~(ctl.pc = "do" /\ ctl.frame = "start")
       /\ \E l \in CtlPoints \ {"do", "started"} :
             ctl' = [ctl EXCEPT !.pc = l] /\ (ctl.pc \in {"read", "end"} => l = "end")

\* The container is as it was, or has ended.
Ends == box' = box \/ (box.st = "running" /\ \E c \in Nat : box' = [st |-> "exited", code |-> c])

\* The observer goes on to another point.
LEMMA ObserverGoesOn ==
    ASSUME NEW o \in [pc : ObsPoints, after : BOOLEAN, attachExited : BOOLEAN, started : BOOLEAN], NEW l \in ObsPoints
    PROVE  /\ [o EXCEPT !.pc = l] \in [pc : ObsPoints, after : BOOLEAN, attachExited : BOOLEAN, started : BOOLEAN]
           /\ [o EXCEPT !.pc = l].pc = l /\ [o EXCEPT !.pc = l].after = o.after
           /\ [o EXCEPT !.pc = l].started = o.started /\ [o EXCEPT !.pc = l].attachExited = o.attachExited
  OBVIOUS

\* A step that neither observes, nor starts, nor talks to the client.
LEMMA PlainExit ==
    ASSUME ExitInv, UNCHANGED <<waiter, obs, req, rsp, client, waitResult>>,
           Onwards, Ends, attach = "over" => attach' = "over"
    PROVE  ExitInv'
  <1>1. ExitTypes'
    <2>1. ctl' \in [pc : CtlPoints, frame : ControlRequests \union {Nothing}]
      BY DEF ExitInv, ExitTypes, Onwards
    <2>2. box' \in [st : {"created", "running", "exited"}, code : Nat] /\ (box'.st = "created" => box'.code = 0)
      BY DEF ExitInv, ExitTypes, Ends
    <2> QED BY <2>1, <2>2 DEF ExitInv, ExitTypes
  <1>2. ObserverInv'
    BY DEF ExitInv, ExitTypes, ObserverInv, Ends
  <1>3. Untouched => Untouched'
    BY DEF ExitInv, ExitTypes, Untouched, Onwards
  <1>4. /\ ctl'.frame = ctl.frame /\ (ctl'.pc = "do" => ctl' = ctl)
        /\ (ctl'.pc = "started" => ctl' = ctl)
        /\ (ctl.pc \in {"read", "end"} => ctl'.pc \in {"read", "end"})
    BY Zenon DEF ExitInv, ExitTypes, Onwards
  <1>5. StartInv'
    BY <1>3, <1>4, Zenon DEF ExitInv, StartInv
  <1>6. ResultInv'
    <2>1. waitResult \in Nat \/ waitResult = Unstarted => box' = box
      BY DEF ExitInv, ResultInv, ExitIsReal, Ends
    <2> QED BY <2>1, Zenon DEF ExitInv, ResultInv, ExitIsReal
  <1> QED BY <1>1, <1>2, <1>5, <1>6, Zenon DEF ExitInv

\* Podman: the wait answers, or is killed; the attach client starts the container.
LEMMA WaiterExit ==
    ASSUME ExitInv, UNCHANGED <<box, obs, req, rsp, client, waitResult, ctl>>,
           attach = "over" => attach' = "over",
           \/ waiter' = waiter
           \/ waiter' = [waiter EXCEPT !.st = "blocked"]
           \/ box.st # "running" /\ waiter' = [st |-> "answered", ans |-> box.code]
           \/ waiter' = WaiterKilled(waiter)
    PROVE  ExitInv'
  <1>1. /\ waiter' \in [st : {Nothing, "armed", "blocked", "answered"}, ans : Nat \union {Failed}]
        /\ \/ waiter' = waiter
           \/ waiter'.st # "answered"
           \/ box.st # "running" /\ waiter' = [st |-> "answered", ans |-> box.code]
           \/ waiter'.ans \notin Nat
    BY DEF ExitInv, ExitTypes, WaiterKilled, Failed
  <1>2. ExitTypes'
    BY <1>1 DEF ExitInv, ExitTypes
  <1>3. ObserverInv'
    BY <1>1 DEF ExitInv, ExitTypes, ObserverInv
  <1>4. StartInv' /\ ResultInv'
    BY DEF ExitInv, StartInv, Untouched, ResultInv, ExitIsReal
  <1> QED BY <1>2, <1>3, <1>4, Zenon DEF ExitInv

LEMMA AttachStartsExit ==
    ASSUME ExitInv, AttachStarts PROVE ExitInv'
  <1>1. /\ UNCHANGED <<waiter, obs, req, rsp, client, waitResult, ctl>>
        /\ attach # "over" /\ box.st = "created" /\ box' = [box EXCEPT !.st = "running"]
    BY Zenon DEF AttachStarts, brokerVars, procs, wire
  <1>2. ExitTypes' /\ box'.st = "running"
    BY <1>1 DEF ExitInv, ExitTypes
  <1>3. ObserverInv'
    BY <1>1, <1>2 DEF ExitInv, ExitTypes, ObserverInv
  <1>4. waitResult \notin Nat /\ waitResult # Unstarted
    BY <1>1 DEF ExitInv, ResultInv, ExitIsReal
  <1>5. StartInv' /\ ResultInv'
    BY <1>1, <1>4 DEF ExitInv, StartInv, Untouched, ResultInv, ExitIsReal
  <1> QED BY <1>2, <1>3, <1>5, Zenon DEF ExitInv

\* The client asks, leaves, or reads an answer.
LEMMA ClientExit ==
    ASSUME ExitInv, clientSends \/ clientStops \/ clientCloses \/ clientLeaves \/ readControl PROVE ExitInv'
  <1>1. UNCHANGED <<box, attach, waiter, obs, waitResult, ctl>>
    BY Zenon DEF clientSends, clientStops, clientCloses, clientLeaves, readControl, podman, brokerVars, procs
  <1>2. ObserverInv'
    BY <1>1, Zenon DEF ExitInv, ObserverInv
  <1>3. CASE clientSends
    <2>1. /\ client.next \in 1..3 /\ ~client.asked /\ rsp' = rsp
          /\ req' = Append(req, Script[client.next]) /\ client' = [client EXCEPT !.asked = TRUE]
      BY <1>3 DEF clientSends, Script, ExitInv, ExitTypes, StartInv
    <2>2. Script[client.next] \in ControlRequests /\ (Script[client.next] = "start" <=> client.next = 1)
      BY <2>1 DEF Script, ControlRequests
    <2> DEFINE f == Script[client.next]
    <2> HIDE DEF f
    <2>3. /\ req' \in Seq(ControlRequests) /\ DOMAIN req' = DOMAIN req \union {Len(req) + 1}
          /\ Len(req) + 1 \notin DOMAIN req
          /\ req'[Len(req) + 1] = f /\ \A i \in DOMAIN req : req'[i] = req[i]
      BY <2>1, <2>2 DEF ExitInv, ExitTypes, f
    <2>4. ExitTypes'
      BY <1>1, <2>1, <2>3, Zenon DEF ExitInv, ExitTypes
    <2>5. client'.next = client.next /\ client'.asked /\ client'.exit = client.exit
      BY <2>1, Zenon DEF ExitInv, ExitTypes
    <2>6. CASE client.next = 1
      <3>1. Untouched /\ ctl.frame # "start" /\ \A i \in DOMAIN req : req[i] # "start"
        BY <2>1, <2>6, Zenon DEF ExitInv, StartInv
      <3>2. Untouched'
        BY <1>1, <2>1, <2>2, <2>3, <2>5, <2>6, <3>1, Zenon DEF Untouched, f
      <3>3. StartInv'
        BY <1>1, <2>3, <2>5, <3>1, <3>2 DEF ExitInv, StartInv
      <3> QED BY <1>1, <1>2, <2>1, <2>4, <2>5, <3>3, Zenon DEF ExitInv, ResultInv, ExitIsReal
    <2>7. CASE client.next # 1
      <3>1. f # "start"
        BY <2>2, <2>7, Zenon DEF f
      <3>2. \A i \in DOMAIN req : req[i] # "start"
        BY <2>7, Zenon DEF ExitInv, StartInv, Untouched
      <3>3. ~(ctl.pc = "do" /\ ctl.frame = "start")
        BY <2>7, Zenon DEF ExitInv, StartInv, Untouched
      <3>4. StartInv'
        BY <1>1, <2>3, <2>5, <2>7, <3>1, <3>2, <3>3, Zenon DEF ExitInv, StartInv
      <3> QED BY <1>1, <1>2, <2>1, <2>4, <2>5, <3>4 DEF ExitInv, ResultInv, ExitIsReal
    <2> QED BY <2>6, <2>7, Zenon
  <1>4. CASE clientStops
    <2>1. rsp' = rsp /\ req' = Append(req, "stop") /\ client' = [client EXCEPT !.stop = "asked"]
      BY <1>4, Zenon DEF clientStops
    <2>2. /\ req' \in Seq(ControlRequests) /\ DOMAIN req' = DOMAIN req \union {Len(req) + 1}
          /\ req'[Len(req) + 1] = "stop" /\ \A i \in DOMAIN req : req'[i] = req[i]
      BY <2>1 DEF ExitInv, ExitTypes, ControlRequests
    <2>3. client'.next = client.next /\ client'.asked = client.asked /\ client'.exit = client.exit
      BY <2>1, Zenon DEF ExitInv, ExitTypes
    <2>4. ExitTypes'
      BY <1>1, <2>1, <2>2, Zenon DEF ExitInv, ExitTypes
    <2>5. Untouched => Untouched'
      BY <1>1, <2>1, <2>2, <2>3, Zenon DEF Untouched
    <2>6. StartInv'
      BY <1>1, <2>2, <2>3, <2>5 DEF ExitInv, StartInv
    <2> QED BY <1>1, <1>2, <2>1, <2>3, <2>4, <2>6, Zenon DEF ExitInv, ResultInv, ExitIsReal
  <1>5. CASE clientCloses \/ clientLeaves
    <2>1. rsp' = <<>> /\ req' = req /\ client' = [client EXCEPT !.gone = TRUE]
      BY <1>5, Zenon DEF clientCloses, clientLeaves
    <2>2. client'.next = client.next /\ client'.asked = client.asked /\ client'.exit = client.exit
      BY <2>1, Zenon DEF ExitInv, ExitTypes
    <2>c. client' \in [next : Nat, asked : BOOLEAN, stop : {Nothing, "asked", "acked"}, exit : Int, gone : BOOLEAN]
      BY <2>1, Zenon DEF ExitInv, ExitTypes
    <2>r. rsp' \in Seq(Frames)
      BY <2>1
    <2>3. ExitTypes'
      BY <1>1, <2>1, <2>c, <2>r, Zenon DEF ExitInv, ExitTypes
    <2>4. Untouched => Untouched'
      BY <1>1, <2>1, <2>2 DEF Untouched
    <2>5. StartInv'
      BY <1>1, <2>1, <2>2, <2>4, Zenon DEF ExitInv, StartInv
    <2> QED BY <1>1, <1>2, <2>1, <2>2, <2>3, <2>5 DEF ExitInv, ResultInv, ExitIsReal
  <1>6. CASE readControl
    <2>1. /\ rsp # <<>> /\ rsp' = Tail(rsp) /\ req' = req
          /\ client' = CASE Head(rsp).k = "exit" -> [client EXCEPT !.exit = Head(rsp).code]
                         [] Head(rsp).k = "stop" -> [client EXCEPT !.stop = "acked"]
                         [] OTHER -> [client EXCEPT !.next = @ + 1, !.asked = FALSE]
      BY <1>6, Zenon DEF readControl
    <2>2. /\ rsp' \in Seq(Frames) /\ Head(rsp) = rsp[1] /\ 1 \in DOMAIN rsp
          /\ \A i \in DOMAIN rsp' : i + 1 \in DOMAIN rsp /\ rsp'[i] = rsp[i + 1]
      BY <2>1 DEF ExitInv, ExitTypes
    <2>3. rsp[1].code \in Int
      <3>1. rsp[1] \in Frames
        BY <2>2 DEF ExitInv, ExitTypes
      <3> QED BY <3>1, Zenon DEF Frames
    <2>4. client' \in [next : Nat, asked : BOOLEAN, stop : {Nothing, "asked", "acked"}, exit : Int, gone : BOOLEAN]
      <3>0. client \in [next : Nat, asked : BOOLEAN, stop : {Nothing, "asked", "acked"}, exit : Int, gone : BOOLEAN]
        BY Zenon DEF ExitInv, ExitTypes
      <3>1. \/ client' = [client EXCEPT !.exit = rsp[1].code]
            \/ client' = [client EXCEPT !.stop = "acked"]
            \/ client' = [client EXCEPT !.next = client.next + 1, !.asked = FALSE]
        BY <2>1, <2>2, Zenon
      <3>2. client.next + 1 \in Nat
        BY <3>0
      <3>3. CASE client' = [client EXCEPT !.exit = rsp[1].code]
        BY <2>3, <3>0, <3>3, Zenon
      <3>4. CASE client' = [client EXCEPT !.stop = "acked"]
        BY <3>0, <3>4, Zenon
      <3>5. CASE client' = [client EXCEPT !.next = client.next + 1, !.asked = FALSE]
        BY <3>0, <3>2, <3>5, Zenon
      <3> QED BY <3>1, <3>3, <3>4, <3>5, Zenon
    <2>5. ExitTypes'
      BY <1>1, <2>1, <2>2, <2>4 DEF ExitInv, ExitTypes
    <2>6. /\ \/ client'.next = client.next /\ client'.asked = client.asked
             \/ client'.next = client.next + 1 /\ rsp[1].k # "stop"
          /\ client'.exit = client.exit \/ (client'.exit = rsp[1].code /\ rsp[1].k = "exit")
      BY <2>1, <2>2, Zenon DEF ExitInv, ExitTypes
    <2>7. Untouched => Untouched' /\ client'.asked = client.asked
      BY <1>1, <2>1, <2>2, <2>6, Zenon DEF Untouched
    <2>8. StartInv'
      <3>1. client'.next = 1 /\ ~client'.asked => client.next = 1 /\ ~client.asked
        BY <2>6 DEF ExitInv, ExitTypes, StartInv
      <3>2. client'.next # 0
        BY <2>4, <2>6 DEF ExitInv, ExitTypes, StartInv
      <3> QED BY <1>1, <2>1, <2>7, <3>1, <3>2, Zenon DEF ExitInv, StartInv
    <2>9. ResultInv'
      BY <1>1, <2>2, <2>6, Zenon DEF ExitInv, ResultInv, ExitIsReal
    <2> QED BY <1>2, <2>5, <2>8, <2>9, Zenon DEF ExitInv
  <1> QED BY <1>3, <1>4, <1>5, <1>6, Zenon

\* handleControl reads a request.
LEMMA ReadExit ==
    ASSUME ExitInv, ctlRead PROVE ExitInv'
  <1>1. /\ UNCHANGED <<box, attach, waiter, obs, waitResult, rsp, client>>
        /\ req # <<>> /\ req' = Tail(req) /\ ctl' = [pc |-> "do", frame |-> Head(req)]
    BY Zenon DEF ctlRead, podman
  <1>2. req \in Seq(ControlRequests)
    BY Zenon DEF ExitInv, ExitTypes
  <1>3. /\ req' \in Seq(ControlRequests) /\ Head(req) = req[1] /\ 1 \in DOMAIN req /\ Head(req) \in ControlRequests
        /\ \A i \in DOMAIN req' : i + 1 \in DOMAIN req /\ i + 1 # 1 /\ req'[i] = req[i + 1]
    BY <1>1, <1>2
  <1>4. ctl'.pc = "do" /\ ctl'.frame = req[1] /\ ctl' \in [pc : CtlPoints, frame : ControlRequests \union {Nothing}]
    BY <1>1, <1>3, Zenon DEF CtlPoints
  <1>5. ExitTypes' /\ ObserverInv' /\ ResultInv'
    <2>a. /\ UNCHANGED <<box, waiter, obs, waitResult, rsp, client>> /\ req' \in Seq(ControlRequests)
          /\ ctl' \in [pc : CtlPoints, frame : ControlRequests \union {Nothing}]
      BY <1>1, <1>3, <1>4, Zenon
    <2>1. ExitTypes'
      <3>1. ExitTypes
        BY Zenon DEF ExitInv
      <3>2. box' \in [st : {"created", "running", "exited"}, code : Nat] /\ (box'.st = "created" => box'.code = 0)
        BY <2>a, <3>1, Zenon DEF ExitTypes
      <3>3. /\ waiter' \in [st : {Nothing, "armed", "blocked", "answered"}, ans : Nat \union {Failed}]
            /\ obs' \in [pc : ObsPoints, after : BOOLEAN, attachExited : BOOLEAN, started : BOOLEAN]
        BY <2>a, <3>1, Zenon DEF ExitTypes
      <3>4. /\ client' \in [next : Nat, asked : BOOLEAN, stop : {Nothing, "asked", "acked"}, exit : Int, gone : BOOLEAN]
            /\ waitResult' \in Int /\ rsp' \in Seq(Frames)
        BY <2>a, <3>1, Zenon DEF ExitTypes
      <3> QED BY <2>a, <3>2, <3>3, <3>4, Zenon DEF ExitTypes
    <2>2. ObserverInv'
      BY <1>1, Zenon DEF ExitInv, ObserverInv
    <2>3. ResultInv'
      BY <1>1, Zenon DEF ExitInv, ResultInv, ExitIsReal
    <2> QED BY <2>1, <2>2, <2>3, Zenon
  <1>6. Untouched => Untouched'
    BY <1>1, <1>3, <1>4, Zenon DEF Untouched
  <1>7. Nothing \notin ControlRequests
    BY Zenon DEF Nothing, ControlRequests
  <1>8. \A i \in DOMAIN req' : req'[i] = "start" => Untouched' /\ client'.asked /\ ctl'.frame # "start"
    <2> SUFFICES ASSUME NEW i \in DOMAIN req', req'[i] = "start"
                 PROVE  Untouched' /\ client'.asked /\ ctl'.frame # "start"
      BY Zenon
    <2>1. i + 1 \in DOMAIN req /\ req[i + 1] = "start" /\ i + 1 # 1
      BY <1>3, Zenon
    <2>2. Untouched /\ client.asked /\ req[1] # "start"
      BY <1>3, <2>1, Zenon DEF ExitInv, StartInv
    <2> QED BY <1>1, <1>4, <1>6, <2>2, Zenon
  <1>9. \A i, j \in DOMAIN req' : req'[i] = "start" /\ req'[j] = "start" => i = j
    <2> SUFFICES ASSUME NEW i \in DOMAIN req', NEW j \in DOMAIN req', req'[i] = "start", req'[j] = "start"
                 PROVE  i = j
      BY Zenon
    <2>1. i + 1 = j + 1
      BY <1>3, Zenon DEF ExitInv, StartInv
    <2>2. i \in Int /\ j \in Int
      BY <1>3
    <2> QED BY <2>1, <2>2
  <1>10. ctl'.frame = "start" => Untouched' /\ client'.asked
    BY <1>1, <1>3, <1>4, <1>6, Zenon DEF ExitInv, StartInv
  <1>11. client'.next = 1 /\ ~client'.asked =>
           Untouched' /\ ctl'.frame # "start" /\ \A i \in DOMAIN req' : req'[i] # "start"
    BY <1>1, <1>3, <1>4, <1>6, Zenon DEF ExitInv, StartInv
  <1>12. StartInv'
    BY <1>1, <1>3, <1>4, <1>7, <1>8, <1>9, <1>10, <1>11, Zenon DEF ExitInv, StartInv
  <1> QED BY <1>5, <1>12, Zenon DEF ExitInv

\* The start: of a container nobody observes yet.
LEMMA StartExit ==
    ASSUME ExitInv, ctlStart PROVE ExitInv'
  <1>1. /\ UNCHANGED <<box, obs, waitResult, req, rsp, client>> /\ ctl.pc = "do" /\ ctl.frame = "start"
        /\ \/ waiter' = [st |-> "armed", ans |-> 0] /\ ctl' = [ctl EXCEPT !.pc = "started"]
           \/ UNCHANGED <<waiter, attach>> /\ ctl' = [ctl EXCEPT !.pc = "end"]
    BY Zenon DEF ctlStart, wire
  <1>2. /\ ctl'.pc \in {"started", "end"} /\ ctl'.frame = "start"
        /\ ctl' \in [pc : CtlPoints, frame : ControlRequests \union {Nothing}]
    BY <1>1, Zenon DEF ExitInv, ExitTypes, CtlPoints
  <1>3. /\ waiter' \in [st : {Nothing, "armed", "blocked", "answered"}, ans : Nat \union {Failed}]
        /\ waiter' = waiter \/ waiter'.st # "answered"
    BY <1>1 DEF ExitInv, ExitTypes
  <1>4. ExitTypes'
    BY <1>1, <1>2, <1>3 DEF ExitInv, ExitTypes
  <1>5. obs.pc = Nothing /\ client.asked /\ \A i \in DOMAIN req : req[i] # "start"
    BY <1>1, Zenon DEF ExitInv, StartInv, Untouched
  <1>6. waitResult = NoResult /\ ~obs.started /\ ~obs.attachExited
    BY <1>5, Zenon DEF ExitInv, ObserverInv, ResultInv, Nothing
  <1>7. ObserverInv'
    BY <1>1, <1>3, <1>6, Zenon DEF ExitInv, ObserverInv
  <1>8. StartInv'
    BY <1>1, <1>2, <1>5, Zenon DEF ExitInv, StartInv, Nothing
  <1>9. ResultInv'
    BY <1>1, <1>6 DEF ExitInv, ResultInv, ExitIsReal, NoResult, Unstarted
  <1> QED BY <1>4, <1>7, <1>8, <1>9, Zenon DEF ExitInv

LEMMA StartedExit ==
    ASSUME ExitInv, ctlStarted PROVE ExitInv'
  <1>1. /\ UNCHANGED <<box, waitResult, req, rsp, client>> /\ ctl.pc = "started"
        /\ obs' \in {obs, [obs EXCEPT !.pc = "read"]}
        /\ waiter' \in {waiter, WaiterKilled(waiter)} /\ attach' \in {attach, Killed(attach)}
        /\ \E l \in {"ack", "end"} : ctl' = [ctl EXCEPT !.pc = l]
    BY Zenon DEF ctlStarted, wire
  <1>2. obs.pc = Nothing /\ ctl.frame = "start"
    BY <1>1, Zenon DEF ExitInv, StartInv
  <1>3. /\ ctl'.pc \in {"ack", "end"} /\ ctl'.frame = "start"
        /\ ctl' \in [pc : CtlPoints, frame : ControlRequests \union {Nothing}]
    BY <1>1, <1>2, Zenon DEF ExitInv, ExitTypes, CtlPoints
  <1>4. /\ waiter' \in [st : {Nothing, "armed", "blocked", "answered"}, ans : Nat \union {Failed}]
        /\ waiter' = waiter \/ waiter'.ans \notin Nat
    BY <1>1 DEF ExitInv, ExitTypes, WaiterKilled, Failed
  <1>5. /\ obs' \in [pc : ObsPoints, after : BOOLEAN, attachExited : BOOLEAN, started : BOOLEAN]
        /\ obs'.pc \in {Nothing, "read"} /\ obs'.after = obs.after /\ obs'.started = obs.started
        /\ obs'.attachExited = obs.attachExited
    <2>1. obs \in [pc : ObsPoints, after : BOOLEAN, attachExited : BOOLEAN, started : BOOLEAN] /\ "read" \in ObsPoints
      BY Zenon DEF ExitInv, ExitTypes, ObsPoints
    <2>2. CASE obs' = obs
      BY <1>2, <2>1, <2>2, Zenon
    <2>3. CASE obs' = [obs EXCEPT !.pc = "read"]
      BY <2>1, <2>3, ObserverGoesOn, Zenon
    <2> QED BY <1>1, <2>2, <2>3, Zenon
  <1>6. ExitTypes'
    BY <1>1, <1>3, <1>4, <1>5, Zenon DEF ExitInv, ExitTypes
  <1>7. waitResult = NoResult /\ ~obs.started /\ ~obs.attachExited /\ ~obs.after
    BY <1>2, Zenon DEF ExitInv, ObserverInv, ResultInv, Nothing
  <1>8. ObserverInv'
    BY <1>1, <1>4, <1>5, <1>7, Zenon DEF ExitInv, ObserverInv, Nothing
  <1>9. ~Untouched
    BY <1>1, <1>2, Zenon DEF Untouched, Nothing
  <1>10. StartInv'
    BY <1>1, <1>3, <1>9, Zenon DEF ExitInv, StartInv, Nothing
  <1>11. ResultInv'
    BY <1>1, <1>7 DEF ExitInv, ResultInv, ExitIsReal, NoResult, Unstarted
  <1> QED BY <1>6, <1>8, <1>10, <1>11 DEF ExitInv

\* What the client may be sent: an answer, or the published exit.
Says(k, c) == rsp' = rsp \/ rsp' = Append(rsp, [k |-> k, code |-> c])

LEMMA SaysWhat ==
    ASSUME ExitInv, NEW k \in ControlRequests \union {"exit"}, NEW c \in Int, Says(k, c)
    PROVE  /\ rsp' \in Seq(Frames)
           /\ \A i \in DOMAIN rsp' : \/ i \in DOMAIN rsp /\ rsp'[i] = rsp[i]
                                     \/ rsp'[i].k = k /\ rsp'[i].code = c
  <1>1. rsp \in Seq(Frames)
    BY Zenon DEF ExitInv, ExitTypes
  <1> DEFINE f == [k |-> k, code |-> c]
  <1>2. f \in Frames /\ f.k = k /\ f.code = c
    BY Zenon DEF Frames
  <1> HIDE DEF f
  <1>3. rsp' = rsp \/ rsp' = Append(rsp, f)
    BY Zenon DEF Says, f
  <1>4. CASE rsp' = rsp
    BY <1>1, <1>4, Zenon
  <1>5. CASE rsp' = Append(rsp, f)
    <2>1. rsp' \in Seq(Frames) /\ \A i \in DOMAIN rsp' : (i \in DOMAIN rsp /\ rsp'[i] = rsp[i]) \/ rsp'[i] = f
      BY <1>1, <1>2, <1>5
    <2> QED BY <1>2, <2>1, Zenon
  <1> QED BY <1>3, <1>4, <1>5, Zenon

\* The answer to a request, and the exit that waited for it.
LEMMA AckExit ==
    ASSUME ExitInv, ctlAck PROVE ExitInv'
  <1>1. /\ UNCHANGED <<box, attach, waiter, obs, waitResult, req, client>> /\ ctl.pc = "ack" /\ Says(ctl.frame, 0)
        /\ \E l \in {"broken", "acked"} : ctl' = [ctl EXCEPT !.pc = l]
    BY Zenon DEF ctlAck, Write, Says, podman, brokerVars
  <1>2. /\ ctl'.pc \in {"broken", "acked"} /\ ctl'.frame = ctl.frame
        /\ ctl' \in [pc : CtlPoints, frame : ControlRequests \union {Nothing}]
    BY <1>1, Zenon DEF ExitInv, ExitTypes, CtlPoints
  <1>3. ctl.frame \in ControlRequests /\ ctl.frame # Nothing
    BY <1>1, Zenon DEF ExitInv, ExitTypes, StartInv
  <1>4. /\ rsp' \in Seq(Frames)
        /\ \A i \in DOMAIN rsp' : (i \in DOMAIN rsp /\ rsp'[i] = rsp[i]) \/ rsp'[i].k = ctl.frame
    BY <1>1, <1>3, SaysWhat
  <1>5. ExitTypes' /\ ObserverInv'
    BY <1>1, <1>2, <1>4 DEF ExitInv, ExitTypes, ObserverInv
  <1>6. Untouched => Untouched'
    <2>1. Untouched => ctl.frame = "stop"
      BY <1>1, <1>3, Zenon DEF Untouched
    <2> QED BY <1>1, <1>2, <1>4, <2>1 DEF Untouched
  <1>7. StartInv'
    BY <1>1, <1>2, <1>3, <1>6, Zenon DEF ExitInv, StartInv
  <1>8. ctl.frame # "exit"
    BY <1>3, Zenon DEF ControlRequests
  <1>9. ResultInv'
    BY <1>1, <1>4, <1>8 DEF ExitInv, ResultInv, ExitIsReal
  <1> QED BY <1>5, <1>7, <1>9, Zenon DEF ExitInv

LEMMA CtlExitExit ==
    ASSUME ExitInv, ctlExit PROVE ExitInv'
  <1>1. /\ UNCHANGED <<box, attach, waiter, obs, waitResult, req, client>> /\ ctl.pc = "exit"
        /\ rsp' = rsp \/ (waitResult # NoResult /\ Says("exit", waitResult))
        /\ \E l \in {"broken", "read"} : ctl' = [ctl EXCEPT !.pc = l]
    BY Zenon DEF ctlExit, sendExit, Sendable, Write, Says, podman
  <1>2. /\ ctl'.pc \in {"broken", "read"} /\ ctl'.frame = ctl.frame
        /\ ctl' \in [pc : CtlPoints, frame : ControlRequests \union {Nothing}]
    BY <1>1 DEF ExitInv, ExitTypes, CtlPoints
  <1>3. ctl.frame # Nothing
    BY <1>1, Zenon DEF ExitInv, StartInv
  <1>4. /\ rsp' \in Seq(Frames)
        /\ rsp' # rsp => waitResult # NoResult
        /\ \A i \in DOMAIN rsp' : \/ i \in DOMAIN rsp /\ rsp'[i] = rsp[i]
                                  \/ rsp'[i].k = "exit" /\ rsp'[i].code = waitResult /\ waitResult # NoResult
    <2>1. waitResult \in Int /\ rsp \in Seq(Frames)
      BY Zenon DEF ExitInv, ExitTypes
    <2>2. CASE rsp' = rsp
      BY <2>1, <2>2, Zenon
    <2>3. CASE waitResult # NoResult /\ Says("exit", waitResult)
      BY <2>1, <2>3, SaysWhat, Zenon
    <2> QED BY <1>1, <2>2, <2>3, Zenon
  <1>5. ExitTypes' /\ ObserverInv'
    BY <1>1, <1>2, <1>4 DEF ExitInv, ExitTypes, ObserverInv
  <1>6. Untouched => Untouched'
    <2>1. Untouched => rsp' = rsp
      BY <1>4, Zenon DEF ExitInv, ResultInv, Untouched, Nothing
    <2> QED BY <1>1, <1>2, <2>1, Zenon DEF Untouched
  <1>7. StartInv'
    BY <1>1, <1>2, <1>3, <1>6, Zenon DEF ExitInv, StartInv
  <1>8. ResultInv'
    BY <1>1, <1>4 DEF ExitInv, ResultInv, ExitIsReal
  <1> QED BY <1>5, <1>7, <1>8 DEF ExitInv

\* The observer runs: the container was started, once.
LEMMA ObservedStart ==
    ASSUME ExitInv, obs.pc # Nothing, obs'.pc # Nothing, UNCHANGED <<req, client, ctl>> PROVE StartInv'
  <1>1. ~Untouched /\ ctl.pc # "started"
    BY Zenon DEF ExitInv, StartInv, Untouched
  <1> QED BY <1>1, Zenon DEF ExitInv, StartInv

\* publishWaitResult, of an answer that is true.
LEMMA PublishExit ==
    ASSUME ExitInv, NEW r \in Int, publish(r), obs.pc \notin {Nothing, "send", "over"},
           r \in Nat => box = [st |-> "exited", code |-> r],
           r = Unstarted => box.st = "created" /\ attach = "over",
           UNCHANGED <<box, waiter, req, rsp, client, ctl>>
    PROVE  ExitInv'
  <1>1. /\ waitResult' = r /\ attach' \in {attach, Killed(attach)}
        /\ \E l \in {"send", "over"} : obs' = [obs EXCEPT !.pc = l]
    BY Zenon DEF publish
  <1>2. /\ obs' \in [pc : ObsPoints, after : BOOLEAN, attachExited : BOOLEAN, started : BOOLEAN]
        /\ obs'.pc \in {"send", "over"} /\ obs'.after = obs.after /\ obs'.started = obs.started
        /\ obs'.attachExited = obs.attachExited
    BY <1>1 DEF ExitInv, ExitTypes, ObsPoints
  <1>3. attach = "over" => attach' = "over"
    BY <1>1, Zenon DEF Killed
  <1>4. ExitTypes'
    BY <1>1, <1>2 DEF ExitInv, ExitTypes
  <1>5. ObserverInv'
    BY <1>2, <1>3, Zenon DEF ExitInv, ObserverInv, Nothing
  <1>6. obs'.pc # Nothing
    BY <1>2, Zenon DEF Nothing
  <1>7. StartInv'
    BY <1>6, ObservedStart, Zenon
  <1>8. waitResult = NoResult /\ client.exit = NoResult /\ \A i \in DOMAIN rsp : rsp[i].k # "exit"
    BY Zenon DEF ExitInv, ResultInv, ExitIsReal
  <1>9. ResultInv'
    BY <1>1, <1>2, <1>3, <1>8, Zenon DEF ResultInv, ExitIsReal
  <1> QED BY <1>4, <1>5, <1>7, <1>9, Zenon DEF ExitInv

\* The observer reads an answer, asks podman again, and arms a new wait.
LEMMA ObserverReads ==
    ASSUME ExitInv, obsRead PROVE ExitInv'
  <1>1. /\ UNCHANGED <<box, waiter, req, rsp, client, ctl>> /\ obs.pc = "read" /\ waiter.st = "answered"
    BY Zenon DEF obsRead, wire
  <1>2. CASE ~Ambiguous /\ publish(waiter.ans)
    <2>1. waiter.ans \in Int /\ waiter.ans # Unstarted
      BY DEF ExitInv, ExitTypes, Failed, Unstarted
    <2>2. waiter.ans \in Nat => box = [st |-> "exited", code |-> waiter.ans]
      BY <1>1, <1>2, Zenon DEF ExitInv, ObserverInv, Ambiguous
    <2>3. obs.pc \notin {Nothing, "send", "over"}
      BY <1>1, Zenon DEF Nothing
    <2> QED BY <1>1, <1>2, <2>1, <2>2, <2>3, PublishExit, Zenon
  <1>3. CASE /\ obs' = [obs EXCEPT !.pc = "inspect", !.attachExited = (attach = "over")]
             /\ UNCHANGED <<waitResult, attach>>
    <2>1. /\ obs' \in [pc : ObsPoints, after : BOOLEAN, attachExited : BOOLEAN, started : BOOLEAN]
          /\ obs'.pc = "inspect" /\ obs'.after = obs.after /\ obs'.started = obs.started
          /\ obs'.attachExited = (attach = "over")
      BY <1>3, Zenon DEF ExitInv, ExitTypes, ObsPoints
    <2>2. ExitTypes'
      BY <1>1, <1>3, <2>1 DEF ExitInv, ExitTypes
    <2>3. ObserverInv'
      BY <1>1, <1>3, <2>1, Zenon DEF ExitInv, ObserverInv, Nothing
    <2>4. obs.pc # Nothing /\ obs'.pc # Nothing
      BY <1>1, <2>1, Zenon DEF Nothing
    <2>5. StartInv'
      BY <1>1, <2>4, ObservedStart, Zenon
    <2>6. ResultInv'
      BY <1>1, <1>3, <2>1, Zenon DEF ExitInv, ResultInv, ExitIsReal
    <2> QED BY <2>2, <2>3, <2>5, <2>6 DEF ExitInv
  <1> QED BY <1>2, <1>3, Zenon DEF obsRead

LEMMA ObserverInspects ==
    ASSUME ExitInv, obsInspect PROVE ExitInv'
  <1>1. UNCHANGED <<box, waiter, req, rsp, client, ctl>> /\ obs.pc = "inspect"
    BY Zenon DEF obsInspect, wire
  <1>2. obs.pc \notin {Nothing, "send", "over"}
    BY <1>1, Zenon DEF Nothing
  <1>3. CASE publish(Uninspected)
    <2>1. Uninspected \in Int /\ Uninspected \notin Nat /\ Uninspected # Unstarted
      BY DEF Uninspected, Unstarted
    <2> QED BY <1>1, <1>2, <1>3, <2>1, PublishExit, Zenon
  <1>4. CASE box.st = "created" /\ obs.attachExited /\ publish(Unstarted)
    <2>1. Unstarted \in Int /\ Unstarted \notin Nat
      BY DEF Unstarted
    <2>2. attach = "over"
      BY <1>4, Zenon DEF ExitInv, ObserverInv
    <2> QED BY <1>1, <1>2, <1>4, <2>1, <2>2, PublishExit, Zenon
  <1>5. CASE /\ obs' = [obs EXCEPT !.pc = "arm", !.started = (box.st # "created")]
             /\ UNCHANGED <<waitResult, attach>>
    <2>1. /\ obs' \in [pc : ObsPoints, after : BOOLEAN, attachExited : BOOLEAN, started : BOOLEAN]
          /\ obs'.pc = "arm" /\ obs'.after = obs.after /\ obs'.attachExited = obs.attachExited
          /\ obs'.started = (box.st # "created")
      BY <1>5, Zenon DEF ExitInv, ExitTypes, ObsPoints
    <2>2. ExitTypes'
      BY <1>1, <1>5, <2>1 DEF ExitInv, ExitTypes
    <2>3. ObserverInv'
      BY <1>1, <1>5, <2>1, Zenon DEF ExitInv, ObserverInv, Nothing
    <2>4. obs.pc # Nothing /\ obs'.pc # Nothing
      BY <1>1, <2>1, Zenon DEF Nothing
    <2>5. StartInv'
      BY <1>1, <2>4, ObservedStart, Zenon
    <2>6. ResultInv'
      BY <1>1, <1>5, <2>1, Zenon DEF ExitInv, ResultInv, ExitIsReal
    <2> QED BY <2>2, <2>3, <2>5, <2>6 DEF ExitInv
  <1> QED BY <1>3, <1>4, <1>5, Zenon DEF obsInspect

LEMMA ObserverArms ==
    ASSUME ExitInv, obsArm \/ obsRecord PROVE ExitInv'
  <1>1. UNCHANGED <<box, req, rsp, client, ctl>> /\ obs.pc \in {"arm", "record"}
    BY Zenon DEF obsArm, obsRecord, wire
  <1>2. CASE publish(Failed) /\ UNCHANGED waiter
    <2>1. Failed \in Int /\ Failed \notin Nat /\ Failed # Unstarted /\ obs.pc \notin {Nothing, "send", "over"}
      BY <1>1 DEF Failed, Unstarted, Nothing
    <2> QED BY <1>1, <1>2, <2>1, PublishExit, Zenon
  <1>3. ASSUME UNCHANGED <<waitResult, attach>>,
               \/ waiter' = [st |-> "armed", ans |-> 0] /\ obs' = [obs EXCEPT !.pc = "record"]
               \/ /\ obs.pc = "record" /\ waiter' \in {waiter, WaiterKilled(waiter)}
                  /\ obs' = [obs EXCEPT !.after = obs.started, !.pc = IF obs.started THEN "reissue" ELSE "read"]
        PROVE  ExitInv'
    <2>0. /\ waiter \in [st : {Nothing, "armed", "blocked", "answered"}, ans : Nat \union {Failed}]
          /\ obs \in [pc : ObsPoints, after : BOOLEAN, attachExited : BOOLEAN, started : BOOLEAN]
      BY Zenon DEF ExitInv, ExitTypes
    <2>a. ASSUME waiter' = [st |-> "armed", ans |-> 0] /\ obs' = [obs EXCEPT !.pc = "record"]
          PROVE  /\ waiter' \in [st : {Nothing, "armed", "blocked", "answered"}, ans : Nat \union {Failed}]
                 /\ obs' \in [pc : ObsPoints, after : BOOLEAN, attachExited : BOOLEAN, started : BOOLEAN]
                 /\ obs'.started = obs.started /\ obs'.attachExited = obs.attachExited
                 /\ obs'.pc \in {"record", "reissue", "read"}
                 /\ \/ waiter'.st = "armed" /\ obs'.after = obs.after
                    \/ waiter'.ans = Failed /\ obs'.after = obs.started
                    \/ waiter' = waiter /\ obs.pc = "record" /\ obs'.after = obs.started /\ obs'.pc # "record"
      <3>1. waiter' \in [st : {Nothing, "armed", "blocked", "answered"}, ans : Nat \union {Failed}] /\ waiter'.st = "armed"
        BY <2>a, Zenon
      <3>2. /\ obs' \in [pc : ObsPoints, after : BOOLEAN, attachExited : BOOLEAN, started : BOOLEAN]
            /\ obs'.started = obs.started /\ obs'.attachExited = obs.attachExited
            /\ obs'.pc = "record" /\ obs'.after = obs.after
        BY <2>0, <2>a, Zenon DEF ObsPoints
      <3> QED BY <3>1, <3>2, Zenon
    <2>b. ASSUME /\ obs.pc = "record" /\ waiter' \in {waiter, WaiterKilled(waiter)}
                 /\ obs' = [obs EXCEPT !.after = obs.started, !.pc = IF obs.started THEN "reissue" ELSE "read"]
          PROVE  /\ waiter' \in [st : {Nothing, "armed", "blocked", "answered"}, ans : Nat \union {Failed}]
                 /\ obs' \in [pc : ObsPoints, after : BOOLEAN, attachExited : BOOLEAN, started : BOOLEAN]
                 /\ obs'.started = obs.started /\ obs'.attachExited = obs.attachExited
                 /\ obs'.pc \in {"record", "reissue", "read"}
                 /\ \/ waiter'.st = "armed" /\ obs'.after = obs.after
                    \/ waiter'.ans = Failed /\ obs'.after = obs.started
                    \/ waiter' = waiter /\ obs.pc = "record" /\ obs'.after = obs.started /\ obs'.pc # "record"
      <3>1. /\ waiter' \in [st : {Nothing, "armed", "blocked", "answered"}, ans : Nat \union {Failed}]
            /\ waiter' = waiter \/ waiter'.ans = Failed
        BY <2>0, <2>b DEF WaiterKilled
      <3>2. /\ obs' \in [pc : ObsPoints, after : BOOLEAN, attachExited : BOOLEAN, started : BOOLEAN]
            /\ obs'.started = obs.started /\ obs'.attachExited = obs.attachExited
            /\ obs'.pc \in {"reissue", "read"} /\ obs'.after = obs.started
        BY <2>0, <2>b, Zenon DEF ObsPoints
      <3> QED BY <2>b, <3>1, <3>2, Zenon
    <2>1. /\ waiter' \in [st : {Nothing, "armed", "blocked", "answered"}, ans : Nat \union {Failed}]
          /\ obs' \in [pc : ObsPoints, after : BOOLEAN, attachExited : BOOLEAN, started : BOOLEAN]
      BY <1>3, <2>a, <2>b, Zenon
    <2>2. /\ obs'.started = obs.started /\ obs'.attachExited = obs.attachExited
          /\ obs'.pc \in {"record", "reissue", "read"}
          /\ \/ waiter'.st = "armed" /\ obs'.after = obs.after
             \/ waiter'.ans = Failed /\ obs'.after = obs.started
             \/ waiter' = waiter /\ obs.pc = "record" /\ obs'.after = obs.started /\ obs'.pc # "record"
      BY <1>3, <2>a, <2>b, Zenon
    <2>3. ExitTypes'
      BY <1>1, <1>3, <2>1, Zenon DEF ExitInv, ExitTypes
    <2>4. ObserverInv'
      BY <1>1, <1>3, <2>2 DEF ExitInv, ObserverInv, Nothing, Failed
    <2>5. obs.pc # Nothing /\ obs'.pc # Nothing
      BY <1>1, <2>2, Zenon DEF Nothing
    <2>6. StartInv'
      BY <1>1, <2>5, ObservedStart, Zenon
    <2>7. ResultInv'
      BY <1>1, <1>3, <2>2, Zenon DEF ExitInv, ResultInv, ExitIsReal
    <2> QED BY <2>3, <2>4, <2>6, <2>7, Zenon DEF ExitInv
  <1>4. CASE obsArm
    BY <1>2, <1>3, <1>4, Zenon DEF obsArm
  <1>5. CASE obsRecord
    BY <1>3, <1>5, Zenon DEF obsRecord, Recorded, brokerVars
  <1> QED BY <1>4, <1>5, Zenon

\* The observer moves on, stops the container again, or tells the client.
LEMMA ObserverMoves ==
    ASSUME ExitInv, obsReissue \/ obsStopRuns \/ obsSend PROVE ExitInv'
  <1>1. UNCHANGED <<waiter, attach, waitResult, req, client, ctl>>
    BY Zenon DEF obsReissue, obsStopRuns, obsSend, podman, wire
  <1>2. /\ obs.pc \in {"reissue", "stop", "send"} /\ (obs.pc # "send" => rsp' = rsp)
        /\ \E l \in {"read", "stop", "over"} : obs' = [obs EXCEPT !.pc = l] /\ (obs.pc = "send" => l = "over")
    BY Zenon DEF obsReissue, obsStopRuns, obsSend, wire
  <1>3. rsp' = rsp \/ (waitResult # NoResult /\ Says("exit", waitResult))
    BY Zenon DEF obsReissue, obsStopRuns, obsSend, sendExit, Sendable, Write, Says, wire
  <1>4. Ends
    <2>1. box' = box \/ (box.st = "running" /\ box' = [st |-> "exited", code |-> Stopped])
      BY Zenon DEF obsReissue, obsStopRuns, obsSend, StopDone, StopFails, podman
    <2>2. Stopped \in Nat
      BY DEF Stopped
    <2> QED BY <2>1, <2>2, Zenon DEF Ends
  <1>5. /\ obs' \in [pc : ObsPoints, after : BOOLEAN, attachExited : BOOLEAN, started : BOOLEAN]
        /\ obs'.pc \in {"read", "stop", "over"} /\ obs'.after = obs.after /\ obs'.started = obs.started
        /\ obs'.attachExited = obs.attachExited /\ (obs.pc = "send" => obs'.pc = "over")
    <2>1. PICK l \in {"read", "stop", "over"} : obs' = [obs EXCEPT !.pc = l] /\ (obs.pc = "send" => l = "over")
      BY <1>2, Zenon
    <2>2. obs \in [pc : ObsPoints, after : BOOLEAN, attachExited : BOOLEAN, started : BOOLEAN] /\ l \in ObsPoints
      BY Zenon DEF ExitInv, ExitTypes, ObsPoints
    <2> QED BY <2>1, <2>2, ObserverGoesOn, Zenon
  <1>6. /\ rsp' \in Seq(Frames)
        /\ \A i \in DOMAIN rsp' : \/ i \in DOMAIN rsp /\ rsp'[i] = rsp[i]
                                  \/ rsp'[i].k = "exit" /\ rsp'[i].code = waitResult /\ waitResult # NoResult
    <2>1. waitResult \in Int /\ rsp \in Seq(Frames)
      BY Zenon DEF ExitInv, ExitTypes
    <2>2. CASE rsp' = rsp
      BY <2>1, <2>2, Zenon
    <2>3. CASE waitResult # NoResult /\ Says("exit", waitResult)
      BY <2>1, <2>3, SaysWhat, Zenon
    <2> QED BY <1>3, <2>2, <2>3, Zenon
  <1>7. box' \in [st : {"created", "running", "exited"}, code : Nat] /\ (box'.st = "created" => box'.code = 0)
    BY <1>4 DEF ExitInv, ExitTypes, Ends
  <1>8. ExitTypes'
    BY <1>1, <1>5, <1>6, <1>7 DEF ExitInv, ExitTypes
  <1>9. ObserverInv'
    BY <1>1, <1>4, <1>5 DEF ExitInv, ExitTypes, ObserverInv, Ends, Nothing
  <1>10. obs.pc # Nothing /\ obs'.pc # Nothing
    BY <1>2, <1>5, Zenon DEF Nothing
  <1>11. StartInv'
    BY <1>1, <1>10, ObservedStart, Zenon
  <1>12. ResultInv'
    <2>1. waitResult \in Nat \/ waitResult = Unstarted => box' = box
      BY <1>4 DEF ExitInv, ResultInv, ExitIsReal, Ends
    <2>2. waitResult = NoResult \/ obs'.pc \in {"send", "over"}
      BY <1>2, <1>5, Zenon DEF ExitInv, ResultInv
    <2> QED BY <1>1, <1>6, <2>1, <2>2, Zenon DEF ExitInv, ResultInv, ExitIsReal
  <1> QED BY <1>8, <1>9, <1>11, <1>12, Zenon DEF ExitInv

\* The other steps of the broker, its callers and podman.
LEMMA OthersExit ==
    ASSUME ExitInv,
           \/ BoxExits \/ AttachEnds \/ KillAgent \/ ShutdownBroker \/ Failer \/ ProcessOver
           \/ shutStop \/ shutStopRuns \/ shutJoin
           \/ ctlGone \/ ctlCloseOrWait \/ ctlStop \/ ctlStopRuns \/ ctlBroken \/ ctlAcked \/ ctlWaited
    PROVE  ExitInv'
  <1>1. Codes \subseteq Nat
    BY CodesAssumption, Zenon
  <1>2. ASSUME BoxExits \/ AttachEnds \/ KillAgent \/ ShutdownBroker \/ Failer \/ ProcessOver \/ shutStop \/ shutStopRuns \/ shutJoin
        PROVE  /\ UNCHANGED <<waiter, obs, req, rsp, client, waitResult, ctl>>
               /\ Ends /\ (attach = "over" => attach' = "over")
    <2>1. CASE BoxExits \/ AttachEnds \/ KillAgent \/ ProcessOver
      <3>1. Stopped \in Nat
        BY DEF Stopped
      <3>2. CASE BoxExits
        BY <1>1, <3>2, Zenon DEF BoxExits, Ends, brokerVars, procs, wire
      <3>3. CASE AttachEnds
        BY <3>3, Zenon DEF AttachEnds, Ends, brokerVars, procs, wire
      <3>4. CASE KillAgent
        BY <3>1, <3>4, Zenon DEF KillAgent, Ends, procs, wire
      <3>5. CASE ProcessOver
        BY <3>5, Zenon DEF ProcessOver, Ends, podman, brokerVars, procs, wire, processVars
      <3> QED BY <2>1, <3>2, <3>3, <3>4, <3>5, Zenon
    <2>2. CASE ShutdownBroker \/ shutStop \/ shutStopRuns \/ shutJoin
      <3>1. Stopped \in Nat
        BY DEF Stopped
      <3>2. CASE ShutdownBroker \/ shutStop \/ shutJoin
        BY <3>2, Zenon DEF ShutdownBroker, shutStop, shutJoin, Ends, podman, brokerVars, wire
      <3>3. CASE shutStopRuns
        BY <3>1, <3>3, Zenon DEF shutStopRuns, StopDone, Ends, brokerVars, wire
      <3> QED BY <2>2, <3>2, <3>3, Zenon
    <2>3. CASE Failer
      <3>1. box' = box \/ (box.st = "running" /\ box' = [st |-> "exited", code |-> Stopped])
        BY <2>3, Zenon DEF Failer, failStop, failStopRuns, StopDone, podman
      <3>2. Stopped \in Nat
        BY DEF Stopped
      <3>3. Ends
        BY <3>1, <3>2, Zenon DEF Ends
      <3>4. UNCHANGED <<waiter, obs, req, rsp, client, waitResult, ctl, attach>>
        BY <2>3, Zenon DEF Failer, failStop, failStopRuns, podman, brokerVars, wire
      <3> QED BY <3>3, <3>4, Zenon
    <2> QED BY <1>2, <2>1, <2>2, <2>3, Zenon
  <1>3. ASSUME ctlGone \/ ctlCloseOrWait \/ ctlStop \/ ctlStopRuns \/ ctlBroken \/ ctlAcked \/ ctlWaited
        PROVE  /\ UNCHANGED <<waiter, obs, req, rsp, client, waitResult, attach>>
               /\ Ends /\ Onwards
    <2>1. CASE ctlGone \/ ctlCloseOrWait \/ ctlBroken
      BY <2>1, Zenon DEF ctlGone, ctlCloseOrWait, ctlBroken, Ends, Onwards, CtlPoints, podman, brokerVars, wire
    <2>2. CASE ctlStop \/ ctlStopRuns
      <3>1. box' = box \/ (box.st = "running" /\ box' = [st |-> "exited", code |-> Stopped])
        BY <2>2, Zenon DEF ctlStop, ctlStopRuns, StopDone, podman
      <3>a. Stopped \in Nat
        BY DEF Stopped
      <3>2. Ends
        BY <3>1, <3>a, Zenon DEF Ends
      <3>3. Onwards
        BY <2>2 DEF ctlStop, ctlStopRuns, Onwards, CtlPoints
      <3>4. UNCHANGED <<waiter, obs, req, rsp, client, waitResult, attach>>
        BY <2>2, Zenon DEF ctlStop, ctlStopRuns, podman, wire
      <3> QED BY <3>2, <3>3, <3>4, Zenon
    <2>3. CASE ctlAcked \/ ctlWaited
      BY <2>3, Zenon DEF ctlAcked, ctlWaited, AfterWait, Ends, Onwards, CtlPoints, podman, wire
    <2> QED BY <1>3, <2>1, <2>2, <2>3, Zenon
  <1> QED BY <1>2, <1>3, PlainExit, Zenon DEF Onwards

LEMMA BrokerExit ==
    ASSUME ExitInv, ProcessNext PROVE ExitInv'
  <1>1. CASE WaitAnswers
    BY <1>1, WaiterExit, Zenon DEF WaitAnswers, brokerVars, procs, wire
  <1>2. CASE shutAwait
    <2>1. attach = "over" => attach' = "over"
      BY <1>2, Zenon DEF shutAwait, Killed
    <2> QED BY <1>2, <2>1, WaiterExit, Zenon DEF shutAwait, wire
  <1>3. CASE Observer
    BY <1>3, ObserverReads, ObserverInspects, ObserverArms, ObserverMoves, Zenon DEF Observer
  <1>4. CASE ctlRead \/ ctlStart \/ ctlStarted \/ ctlAck \/ ctlExit
    BY <1>4, ReadExit, StartExit, StartedExit, AckExit, CtlExitExit, Zenon
  <1>5. CASE AttachStarts \/ clientSends \/ clientStops \/ clientCloses \/ readControl
    BY <1>5, AttachStartsExit, ClientExit, Zenon
  <1>6. CASE \/ BoxExits \/ AttachEnds \/ KillAgent \/ ShutdownBroker \/ Failer \/ ProcessOver
             \/ shutStop \/ shutStopRuns \/ shutJoin
             \/ ctlGone \/ ctlCloseOrWait \/ ctlStop \/ ctlStopRuns \/ ctlBroken \/ ctlAcked \/ ctlWaited
    BY <1>6, OthersExit, Zenon
  <1> QED BY <1>1, <1>2, <1>3, <1>4, <1>5, <1>6, Zenon DEF ProcessNext, Podman, Control, Closer

\* The output plane touches none of this but the attach client, which it kills.
LEMMA OutputExit ==
    ASSUME ExitInv, Drain \/ ForcedEnd \/ watchOutputPeer PROVE ExitInv'
  <1>1. CASE attachExits \/ forceTimer
    <2>1. attach = "over" => attach' = "over"
      BY <1>1, Zenon DEF attachExits, forceTimer, Killed
    <2> QED BY <1>1, <2>1, PlainExit, Zenon DEF attachExits, forceTimer, wire, Onwards, Ends
  <1>2. CASE UNCHANGED exceptFail
    BY <1>2, PlainExit, Zenon DEF exceptFail, podman, wire, Onwards, Ends
  <1>3. ASSUME NEW w, End(w) PROVE UNCHANGED exceptFail
    BY <1>3, Zenon DEF End, endTakes, endFlushes, endFrame, endMarks, exceptFail
  <1>4. CASE readOne \/ readersEnd \/ writeOutput \/ written \/ forceWaits \/ watchOutputPeer
    BY <1>2, <1>4, Zenon DEF readOne, readersEnd, writeOutput, written, forceWaits, watchOutputPeer, exceptFail
  <1> QED BY <1>1, <1>2, <1>3, <1>4, Zenon DEF Drain, ForcedEnd

LEMMA ExitStart == OutputInit => ExitInv
  <1> SUFFICES ASSUME OutputInit PROVE ExitInv
    BY Zenon
  <1>1. /\ waitResult = NoResult /\ req = <<>> /\ rsp = <<>> /\ ctl = [pc |-> "read", frame |-> Nothing]
        /\ Fresh \/ Underway
    BY Zenon DEF OutputInit, ProcessInit
  <1>2. req \in Seq(ControlRequests) /\ rsp \in Seq(Frames) /\ DOMAIN req = {} /\ DOMAIN rsp = {}
    BY <1>1
  <1>3. ctl \in [pc : CtlPoints, frame : ControlRequests \union {Nothing}] /\ ctl.pc = "read" /\ ctl.frame = Nothing
    BY <1>1, Zenon DEF CtlPoints
  <1>4. CASE Fresh
    <2>0. 0 \in Nat /\ 1 \in Nat /\ NoResult \in Int
      BY DEF NoResult
    <2>1. ExitTypes
      BY <1>1, <1>2, <1>3, <1>4, <2>0, Zenon DEF Fresh, ExitTypes, ObsPoints
    <2>2. ObserverInv
      BY <1>4, Zenon DEF Fresh, ObserverInv, Nothing
    <2>3. Untouched /\ client.next = 1
      BY <1>2, <1>3, <1>4, Zenon DEF Fresh, Untouched
    <2>4. StartInv
      <3>1. client.next # 0 /\ "none" # "start" /\ "read" # "do" /\ "read" # "started"
        BY <2>3
      <3> QED BY <1>2, <1>3, <2>3, <3>1, Zenon DEF StartInv, Nothing
    <2>5. ResultInv
      <3>1. NoResult \notin Nat /\ NoResult # Unstarted
        BY DEF NoResult, Unstarted
      <3> QED BY <1>1, <1>2, <1>4, <3>1, Zenon DEF Fresh, ResultInv, ExitIsReal
    <2> QED BY <2>1, <2>2, <2>4, <2>5, Zenon DEF ExitInv
  <1>5. CASE Underway
    <2>1. client.next = 4
      BY <1>5 DEF Underway, Script
    <2>0. 0 \in Nat /\ 4 \in Nat /\ NoResult \in Int /\ Len(Script) + 1 = 4
      BY DEF NoResult, Script
    <2>2. ExitTypes
      BY <1>1, <1>2, <1>3, <1>5, <2>0, Zenon DEF Underway, ExitTypes, ObsPoints
    <2>3. ObserverInv
      BY <1>5, Zenon DEF Underway, ObserverInv, Nothing
    <2>4. StartInv
      <3>1. 4 # 1 /\ 4 # 0
        OBVIOUS
      <3> QED BY <1>2, <1>3, <2>1, <3>1, Zenon DEF StartInv, Nothing
    <2>5. ResultInv
      <3>1. NoResult \notin Nat /\ NoResult # Unstarted
        BY DEF NoResult, Unstarted
      <3> QED BY <1>1, <1>2, <1>5, <3>1, Zenon DEF Underway, ResultInv, ExitIsReal
    <2> QED BY <2>2, <2>3, <2>4, <2>5, Zenon DEF ExitInv
  <1> QED BY <1>1, <1>4, <1>5, Zenon

\* ExitIsReal for any exit codes, settings and output: whatever podman's wait
\* answers before the container runs, and however requests, stops, failures,
\* Shutdown and the drain fall between the observer's steps, a published exit
\* code is the container's (observeStartedExit and publishWaitResult).
THEOREM ExitAlwaysReal == OutputSpec => []ExitIsReal
  <1>1. OutputInit => ExitInv
    BY ExitStart, Zenon
  <1>2. ExitInv /\ [OutputNext]_outputVars => ExitInv'
    <2> SUFFICES ASSUME ExitInv, [OutputNext]_outputVars PROVE ExitInv'
      BY Zenon
    <2>1. CASE ExitStep
      BY <2>1, BrokerExit, Zenon DEF ExitStep
    <2>2. CASE Drain \/ ForcedEnd \/ watchOutputPeer
      BY <2>2, OutputExit, Zenon
    <2>3. CASE clientLeaves
      BY <2>3, ClientExit, Zenon
    <2>4. CASE UNCHANGED outputVars
      BY <2>4, PlainExit, Zenon DEF outputVars, processVars, podman, brokerVars, procs, wire, Onwards, Ends
    <2> QED BY <2>1, <2>2, <2>3, <2>4, Zenon DEF OutputNext
  <1>3. ExitInv => ExitIsReal
    BY Zenon DEF ExitInv, ResultInv
  <1> QED BY <1>1, <1>2, <1>3, PTL DEF OutputSpec
=============================================================================
