--------------------------- MODULE ApprovalBroker ---------------------------
(***************************************************************************)
(* seams/world/local/approval.go: the broker of a lease.  Inside the        *)
(* container hxapprove asks for each tool call (a hook); the host adapter   *)
(* registers the tool calls it reads from the agent's output (intents),     *)
(* takes hooks one per worker and answers them.  A call's hook and intent   *)
(* come in either order and are correlated one-shot.  fail() denies         *)
(* everything; Shutdown drains.  A hook's connection is written to by       *)
(* deliverNext and by directDeny, which do not exclude each other.          *)
(***************************************************************************)
EXTENDS Naturals, Sequences, FiniteSets

CONSTANTS Hooks,        \* hook connections
          Calls,        \* call ids
          Args,         \* tool name and canonical arguments
          Capacity, Workers

ASSUME CapacityAssumption == Capacity \in Nat \ {0} /\ Workers \in Nat \ {0}

VARIABLES
    intents,    \* call -> registered intent
    pre,        \* call -> the hook that came before its intent
    hook,       \* hook -> record, see NewHook
    hooks,      \* the pending map
    queue,      \* deliveries
    closing, failed, done, expired,
    connsClosed,    \* fail() has closed the connections
    shutdown,       \* idle | draining | closing | ok | error
    first           \* history: call -> arguments of its first intent

flags == <<closing, failed, done, expired, connsClosed>>
ledger == <<intents, pre, first>>
vars == <<ledger, hook, hooks, queue, flags, shutdown>>

None == "none"
ASSUME ArgsAssumption == None \notin Args \cup Calls
NoIntent == [args |-> None, consumed |-> FALSE]
NoPre == None

\* st: none, accepted, admitted, queued, taken, decided, written, over.  once guards the
\* end of a hook; wire holds the decisions written to hxapprove, which acts on
\* the first and acknowledges it.
NewHook == [st |-> "none", call |-> None, args |-> None, forced |-> FALSE, refused |-> None,
            once |-> "open", decision |-> None, wire |-> <<>>, open |-> TRUE, got |-> None,
            ack |-> FALSE, told |-> FALSE]

Init ==
    /\ intents = [c \in Calls |-> NoIntent] /\ pre = [c \in Calls |-> NoPre]
    /\ first = [c \in Calls |-> None]
    /\ hook = [h \in Hooks |-> NewHook] /\ hooks = {} /\ queue = <<>>
    /\ closing = FALSE /\ failed = FALSE /\ done = FALSE /\ expired = FALSE
    /\ connsClosed = FALSE /\ shutdown = "idle"

Ledger == Cardinality({c \in Calls : intents[c] # NoIntent}) + Cardinality({c \in Calls : pre[c] # NoPre})

\* fail(): the first call closes the broker; the hooks are denied by the steps
\* of directDeny that `failed' enables.
Fail == failed' = TRUE /\ closing' = TRUE

Write(r, d) == IF r.open THEN [r EXCEPT !.wire = Append(@, d)] ELSE r

\* The first half of directDeny: once.Do, and the decision on the wire.
Deny(r) == IF r.once = "open" THEN [Write(r, "deny") EXCEPT !.once = "denying"] ELSE r

\* removeHook.
Without(h) == hooks \ {h}

----------------------------------------------------------------------------
\* The container's side.

Room == Cardinality(hooks) < Capacity

Matches(i, r) == i.args = r.args

\* A connection to the relay socket; the request is read and checked.
acceptRelay(h, c, a) ==
    /\ hook[h].st = "none" /\ shutdown = "idle" /\ ~failed
    /\ hook' = [hook EXCEPT ![h].st = "accepted", ![h].call = c, ![h].args = a]
    /\ UNCHANGED <<ledger, hooks, queue, flags, shutdown>>

\* admitHook up to the unlock.  Forced hooks go to the adapter as well.
admitHook(h) ==
    /\ hook[h].st = "accepted"
    /\ LET r == [hook[h] EXCEPT !.st = "admitted"]
           c == r.call
           admit(x) == hook' = [hook EXCEPT ![h] = x] /\ hooks' = hooks \cup {h} /\ UNCHANGED <<closing, failed>>
           refuse(why) == /\ hook' = [hook EXCEPT ![h] = Deny([r EXCEPT !.st = "over", !.refused = why])]
                          /\ hooks' = IF why = "ledger" THEN hooks \cup {h} ELSE hooks
                          /\ Fail /\ UNCHANGED <<intents, pre>>
       IN  \/ closing /\ refuse(IF failed THEN "failed" ELSE "lease end")
           \/ ~closing /\ ~Room /\ refuse("pending")
           \/ ~closing /\ Room /\ expired /\ admit([r EXCEPT !.forced = TRUE]) /\ UNCHANGED <<intents, pre>>
           \/ /\ ~closing /\ Room /\ ~expired /\ intents[c] = NoIntent
              /\ \/ pre[c] # NoPre /\ admit([r EXCEPT !.forced = TRUE]) /\ UNCHANGED <<intents, pre>>
                 \/ pre[c] = NoPre /\ Ledger >= Capacity /\ refuse("ledger")
                 \/ /\ pre[c] = NoPre /\ Ledger < Capacity /\ admit(r)
                    /\ pre' = [pre EXCEPT ![c] = r.args] /\ UNCHANGED intents
           \/ /\ ~closing /\ Room /\ ~expired /\ intents[c] # NoIntent
              /\ LET ok == Matches(intents[c], r) /\ ~intents[c].consumed IN
                 /\ admit([r EXCEPT !.forced = ~ok])
                 /\ intents' = IF ok THEN [intents EXCEPT ![c].consumed = TRUE] ELSE intents
              /\ UNCHANGED pre
    /\ UNCHANGED <<queue, first, done, expired, connsClosed, shutdown>>

enqueue(h) ==
    /\ hook[h].st = "admitted"
    /\ \/ /\ Len(queue) < Capacity
          /\ queue' = Append(queue, h)
          /\ hook' = [hook EXCEPT ![h].st = "queued"]
          /\ UNCHANGED <<failed, closing>>
       \/ /\ Len(queue) >= Capacity
          /\ hook' = [hook EXCEPT ![h] = Deny([@ EXCEPT !.st = "over"])]
          /\ Fail /\ UNCHANGED queue
    /\ UNCHANGED <<ledger, hooks, done, expired, connsClosed, shutdown>>

\* hxapprove acts on the first decision and acknowledges it, or gives up.
hxapprove(h) ==
    /\ hook[h].got = None /\ hook[h].st # "none"
    /\ \/ /\ hook[h].wire # <<>>
          /\ hook' = [hook EXCEPT ![h].got = Head(hook[h].wire), ![h].ack = hook[h].open]
       \/ hook' = [hook EXCEPT ![h].got = "blocked", ![h].open = FALSE]
    /\ UNCHANGED <<ledger, hooks, queue, flags, shutdown>>

----------------------------------------------------------------------------
\* The adapter's side.

\* Slip: the late intent does not use up the call.
ConsumedByHookNot == FALSE

ConsumedByHook == TRUE

\* registerIntent; an error is fatal.
registerIntent(c, a) ==
    /\ ~connsClosed
    /\ first' = IF first[c] = None THEN [first EXCEPT ![c] = a] ELSE first
    /\ \/ /\ pre[c] # NoPre
          /\ pre' = [pre EXCEPT ![c] = NoPre]
          /\ \/ ~Matches([args |-> a], [args |-> pre[c]]) /\ Fail /\ UNCHANGED intents
             \/ /\ Matches([args |-> a], [args |-> pre[c]])
                /\ intents' = IF expired \/ closing THEN intents
                              ELSE [intents EXCEPT ![c] = [args |-> a, consumed |-> ConsumedByHook]]
                /\ UNCHANGED <<failed, closing>>
       \/ /\ pre[c] = NoPre /\ UNCHANGED pre
          /\ \/ closing /\ Fail /\ UNCHANGED intents
             \/ ~closing /\ expired /\ UNCHANGED <<intents, failed, closing>>
             \/ /\ ~closing /\ ~expired /\ (intents[c] # NoIntent \/ Ledger >= Capacity)
                /\ Fail /\ UNCHANGED intents
             \/ /\ ~closing /\ ~expired /\ intents[c] = NoIntent /\ Ledger < Capacity
                /\ intents' = [intents EXCEPT ![c] = [args |-> a, consumed |-> FALSE]]
                /\ UNCHANGED <<failed, closing>>
    /\ UNCHANGED <<hook, hooks, queue, done, expired, connsClosed, shutdown>>

Busy == {h \in Hooks : hook[h].st \in {"taken", "decided", "written"}}

\* A worker's next: select may take a hook even after done is closed.
deliverNext ==
    /\ queue # <<>> /\ Cardinality(Busy) < Workers
    /\ hook' = [hook EXCEPT ![Head(queue)].st = "taken"]
    /\ queue' = Tail(queue)
    /\ UNCHANGED <<ledger, hooks, flags, shutdown>>

failHook(h) == hook' = [hook EXCEPT ![h] = Deny([@ EXCEPT !.st = "over"])] /\ Fail

MayAllow(h) == ~hook[h].forced

\* The adapter has logged the request and its decision, and answers; or its
\* connection is lost.
adapterDecides(h, d) ==
    /\ hook[h].st = "taken"
    /\ \/ /\ ~connsClosed /\ (d = "allow" => MayAllow(h))
          /\ hook' = [hook EXCEPT ![h].st = "decided", ![h].decision = d]
          /\ UNCHANGED <<failed, closing>>
       \/ (connsClosed \/ (d = "allow" /\ ~MayAllow(h))) /\ failHook(h)
    /\ UNCHANGED <<ledger, hooks, queue, done, expired, connsClosed, shutdown>>

adapterLost(h) ==
    /\ hook[h].st = "taken"
    /\ failHook(h)
    /\ UNCHANGED <<ledger, hooks, queue, done, expired, connsClosed, shutdown>>

relayDecision(h) ==
    /\ hook[h].st = "decided"
    /\ \/ /\ hook[h].open
          /\ hook' = [hook EXCEPT ![h] = [Write(@, hook[h].decision) EXCEPT !.st = "written"]]
          /\ UNCHANGED <<failed, closing>>
       \/ ~hook[h].open /\ failHook(h)
    /\ UNCHANGED <<ledger, hooks, queue, done, expired, connsClosed, shutdown>>

\* Slip: the decision counts as delivered once it is written.
AcknowledgedAlways(h) == TRUE

Acknowledged(h) == hook[h].ack

\* The acknowledgement completes the hook, or its absence fails the broker.
readAck(h) ==
    /\ hook[h].st = "written"
    /\ \/ /\ Acknowledged(h)
          /\ hook' = [hook EXCEPT ![h] =
                         [@ EXCEPT !.st = "over", !.ack = FALSE, !.told = TRUE,
                                   !.once = IF hook[h].once = "open" THEN "closed" ELSE hook[h].once]]
          /\ hooks' = IF hook[h].once = "open" THEN Without(h) ELSE hooks
          /\ UNCHANGED <<failed, closing>>
       \/ ~hook[h].open /\ failHook(h) /\ UNCHANGED hooks
    /\ UNCHANGED <<ledger, queue, done, expired, connsClosed, shutdown>>

----------------------------------------------------------------------------
\* Ends.

\* directDeny by the hook's handler or by fail(), once done is closed.
directDeny(h) ==
    /\ done /\ hook[h].once = "open" /\ (h \in hooks \/ hook[h].st = "admitted")
    /\ hook' = [hook EXCEPT ![h] = Deny(@)]
    /\ UNCHANGED <<ledger, hooks, queue, flags, shutdown>>

\* ... and its second half: the acknowledgement or one second.
denied(h) ==
    /\ hook[h].once = "denying"
    /\ hook' = [hook EXCEPT ![h].once = "closed", ![h].ack = FALSE]
    /\ hooks' = Without(h)
    /\ UNCHANGED <<ledger, queue, flags, shutdown>>

failDone ==
    /\ failed /\ ~done
    /\ done' = TRUE
    /\ UNCHANGED <<ledger, hook, hooks, queue, closing, failed, expired, connsClosed, shutdown>>

\* The end of fail(): close the connections.
failClose ==
    /\ failed /\ done /\ hooks = {} /\ ~connsClosed
    /\ connsClosed' = TRUE
    /\ hook' = [h \in Hooks |-> [hook[h] EXCEPT !.open = FALSE]]
    /\ UNCHANGED <<ledger, hooks, queue, closing, failed, done, expired, shutdown>>

\* A contract violation, the rate limit or an accept error somewhere.
Fatal ==
    /\ ~failed /\ Fail
    /\ UNCHANGED <<ledger, hook, hooks, queue, done, expired, connsClosed, shutdown>>

expireAll ==
    /\ ~expired /\ expired' = TRUE
    /\ UNCHANGED <<ledger, hook, hooks, queue, closing, failed, done, connsClosed, shutdown>>

Shutdown ==
    /\ shutdown = "idle"
    /\ shutdown' = "draining" /\ closing' = TRUE
    /\ UNCHANGED <<ledger, hook, hooks, queue, failed, done, expired, connsClosed>>

Drained == hooks = {}

\* The hooks are gone: close done and the connections, wait for the handlers.
shutdownDrained ==
    /\ shutdown = "draining" /\ Drained
    /\ done' = TRUE
    /\ shutdown' = "closing"
    /\ UNCHANGED <<ledger, hook, hooks, queue, closing, failed, expired, connsClosed>>

shutdownReturns ==
    /\ shutdown = "closing"
    /\ \A h \in Hooks : hook[h].once # "denying" /\ hook[h].st \notin {"accepted", "admitted", "taken", "decided", "written"}
    /\ shutdown' = IF failed THEN "error" ELSE "ok"
    /\ connsClosed' = TRUE
    /\ hook' = [h \in Hooks |-> [hook[h] EXCEPT !.open = FALSE]]
    /\ UNCHANGED <<ledger, hooks, queue, closing, failed, done, expired>>

DrainDeadline == expired

\* The deadline passes while hooks are pending: fail, and return.
shutdownTimesOut ==
    /\ shutdown = "draining" /\ ~Drained /\ DrainDeadline
    /\ Fail /\ shutdown' = "error"
    /\ UNCHANGED <<ledger, hook, hooks, queue, done, expired, connsClosed>>

----------------------------------------------------------------------------
Deliver(h) ==
    \/ \E d \in {"allow", "deny"} : adapterDecides(h, d)
    \/ adapterLost(h) \/ relayDecision(h) \/ readAck(h)
End(h) == directDeny(h) \/ denied(h)
Teardown == failDone \/ failClose \/ shutdownDrained \/ shutdownReturns \/ shutdownTimesOut

Next ==
    \/ \E h \in Hooks : \/ \E c \in Calls, a \in Args : acceptRelay(h, c, a)
                        \/ admitHook(h) \/ enqueue(h) \/ hxapprove(h) \/ Deliver(h) \/ End(h)
    \/ \E c \in Calls, a \in Args : registerIntent(c, a)
    \/ deliverNext \/ Fatal \/ expireAll \/ Shutdown \/ Teardown

Spec == Init /\ [][Next]_vars

----------------------------------------------------------------------------
\* Properties.

Allowed(h) == hook[h].got = "allow"

\* A call is allowed at most once, whatever the order of its hooks and intents,
\* and an allowed hook asked for what the agent announced, or the broker fails.
AllowIsDue ==
    \A h \in Hooks : Allowed(h) =>
        /\ \A g \in Hooks \ {h} : Allowed(g) => hook[h].call # hook[g].call
        /\ first[hook[h].call] # None => first[hook[h].call] = hook[h].args \/ failed

\* As long as the broker has not failed, the adapter is told that its decision
\* was delivered only if hxapprove acted on that decision.
DeliveredIsTrue == ~failed => \A h \in Hooks : hook[h].told => hook[h].got = hook[h].decision

\* What the agent was allowed and what the adapter was told agree with the
\* decisions, in every order of hooks, intents and deliveries.
DecisionsHold == AllowIsDue /\ DeliveredIsTrue

\* The end of the lease is a durable deny: it reaches the adapter, which logs it.
LeaseEndIsDurable ==
    \A h \in Hooks : hook[h].refused = "lease end" /\ intents[hook[h].call] # NoIntent => hook[h].got # "deny"
=============================================================================
