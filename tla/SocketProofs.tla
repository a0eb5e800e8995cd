---------------------------- MODULE SocketProofs ----------------------------
(***************************************************************************)
(* The two ends of the approval socket for any number of hooks, calls and    *)
(* pollers: SnapshotIsComplete for the client that looks before it registers *)
(* a connection, and DecisionsHold of the broker.                            *)
(***************************************************************************)
EXTENDS ApprovalSocket, TLAPS

Users == Client!Users
Connected == {"read", "ask", "decided", "ack", "release"}
Steps == {"idle", "top", "dialed", "report", "closeAll", "join", "over"} \cup Connected

\* A user is registered exactly while it uses its connection, and a snapshot that
\* was taken closed the connections of all who are.
SnapshotInv ==
    /\ pc \in [Users -> Steps] /\ sock \in [Users -> {"none", "open", "closed"}]
    /\ conns = {u \in Users : pc[u] \in Connected}
    /\ teardown => \A u \in conns : sock[u] = "closed"

----------------------------------------------------------------------------
\* One lemma for the steps of a user, one for the rest.
LEMMA SnapshotInvUser ==
    ASSUME SnapshotInv, Guarded = TRUE, NEW u \in Users,
           Client!Own(u) \/ Client!brokerAnswers(u) \/ Client!Resolve(u) \/ Client!brokerAcks(u)
    PROVE  SnapshotInv'
  <1> USE DEF SnapshotInv, Users, Connected, Steps, Client!Goto, Client!Set, Client!release, Client!Fails
  <1>1. CASE Client!dial(u)
    BY <1>1 DEF Client!dial
  <1>2. CASE Client!register(u)
    BY <1>2 DEF Client!register, Client!Refused
  <1>3. CASE Client!readError(u)
    BY <1>3, Zenon DEF Client!readError
  <1>4. CASE Client!askEnds(u)
    BY <1>4, Zenon DEF Client!askEnds
  <1>5. CASE Client!sendDecision(u)
    BY <1>5 DEF Client!sendDecision
  <1>6. CASE Client!released(u)
    BY <1>6, Zenon DEF Client!released
  <1>7. CASE Client!report(u)
    BY <1>7, Zenon DEF Client!report
  <1>8. CASE Client!closeAll(u)
    BY <1>8, Zenon DEF Client!closeAll, Client!closeConnections
  <1>9. CASE Client!brokerAnswers(u)
    BY <1>9, Zenon DEF Client!brokerAnswers
  <1>10. CASE Client!Resolve(u)
    BY <1>10, Zenon DEF Client!Resolve
  <1>11. CASE Client!brokerAcks(u)
    BY <1>11, Zenon DEF Client!brokerAcks
  <1> QED
    BY <1>1, <1>2, <1>3, <1>4, <1>5, <1>6, <1>7, <1>8, <1>9, <1>10, <1>11, Zenon DEF Client!Own

\* RegisterIntent, Close and its wait.
LEMMA SnapshotInvMain ==
    ASSUME SnapshotInv, Client!RegisterIntent \/ Client!Close \/ Client!join \/ UNCHANGED clientVars
    PROVE  SnapshotInv'
  <1> USE DEF SnapshotInv, Users, Connected, Steps, Client!Goto
  <1>1. Client!Main \in Users
    BY Zenon DEF Client!Users
  <1>2. CASE Client!RegisterIntent
    BY <1>1, <1>2, Zenon DEF Client!RegisterIntent
  <1>3. CASE Client!Close
    BY <1>1, <1>3, Zenon DEF Client!Close
  <1>4. CASE Client!join
    BY <1>1, <1>4, Zenon DEF Client!join
  <1>5. CASE UNCHANGED clientVars
    BY <1>5, Zenon DEF clientVars
  <1> QED
    BY <1>2, <1>3, <1>4, <1>5, Zenon

\* SnapshotIsComplete: whatever dials, answers, errors and reports race with
\* Close, no poller of the guarded client is left in a read after the snapshot.
THEOREM GuardedSnapshotIsComplete ==
    ASSUME Guarded = TRUE PROVE SocketSpec => []SnapshotIsComplete
  <1>1. SocketInit => SnapshotInv
    BY Zenon DEF SocketInit, Client!Init, SnapshotInv, Users, Connected, Steps
  <1>2. SnapshotInv /\ [SocketNext]_socketVars => SnapshotInv'
    <2> SUFFICES ASSUME SnapshotInv, [SocketNext]_socketVars PROVE SnapshotInv'
      BY Zenon
    <2>1. CASE UNCHANGED clientVars
      BY <2>1, SnapshotInvMain, Zenon
    <2>2. CASE Client!Next
      BY <2>2, SnapshotInvUser, SnapshotInvMain, Zenon DEF Client!Next, Client!Finished, Client!vars, clientVars, Users
    <2> QED
      BY <2>1, <2>2, Zenon DEF SocketNext, socketVars
  <1>3. SnapshotInv => SnapshotIsComplete
    BY Zenon DEF SnapshotInv, SnapshotIsComplete, Users, Connected
  <1> QED
    BY <1>1, <1>2, <1>3, PTL DEF SocketSpec

----------------------------------------------------------------------------
\* The broker: the record of one hook.

Stages == {"none", "accepted", "admitted", "queued", "taken", "decided", "written", "over"}
Decided == {None, "allow", "deny"}
HookRec == [st : Stages, call : Calls \cup {None}, args : Args \cup {None}, forced : BOOLEAN,
            refused : {None, "failed", "lease end", "pending", "ledger"}, once : {"open", "denying", "closed"},
            decision : Decided, wire : Seq({"allow", "deny"}), open : BOOLEAN, got : Decided \cup {"blocked"},
            ack : BOOLEAN, told : BOOLEAN]

\* A hook that was admitted and may be allowed: it has used up its call.
Claims(r) == r.st \notin {"none", "accepted"} /\ ~r.forced /\ r.refused = None

\* An allow decided, on the wire or acted on.
SaysAllow(r) == r.decision = "allow" \/ r.got = "allow" \/ \E i \in DOMAIN r.wire : r.wire[i] = "allow"

\* What holds of every hook by itself: an allow is for one that may be allowed,
\* and an acknowledgement is of the first decision on the wire.
RecOK(r) ==
    /\ r \in HookRec
    /\ r.st # "none" => r.call \in Calls /\ r.args \in Args
    /\ r.refused # None => r.st = "over"
    /\ r.st \in {"decided", "written"} => r.decision # None
    /\ SaysAllow(r) => Claims(r)
    /\ r.ack => r.wire # <<>> /\ r.got = r.wire[1]
    /\ r.got = None => ~r.ack

\* What a step that leaves the claims alone leaves of a hook.
SameClaim(r, x) ==
    /\ x.call = r.call /\ x.args = r.args /\ x.forced = r.forced /\ x.refused = r.refused
    /\ x.st \notin {"none", "accepted"} <=> r.st \notin {"none", "accepted"}

LEMMA WriteIs ==
    ASSUME NEW r, RecOK(r), NEW d \in {"allow", "deny"}, d = "allow" => Claims(r)
    PROVE  /\ RecOK(Write(r, d)) /\ SameClaim(r, Write(r, d))
           /\ Write(r, d).st = r.st /\ Write(r, d).once = r.once /\ Write(r, d).told = r.told
           /\ Write(r, d).got = r.got /\ Write(r, d).decision = r.decision
           /\ Write(r, d).wire = IF r.open THEN Append(r.wire, d) ELSE r.wire
  <1>1. CASE ~r.open
    BY <1>1, Zenon DEF Write, SameClaim
  <1>2. CASE r.open
    <2> DEFINE x == [r EXCEPT !.wire = Append(@, d)]
    <2>1. Write(r, d) = x
      BY <1>2, Zenon DEF Write
    <2>2. r \in HookRec /\ r.wire \in Seq({"allow", "deny"})
      BY Zenon DEF RecOK, HookRec
    <2>3. Append(r.wire, d) \in Seq({"allow", "deny"})
      BY <2>2
    <2>4. /\ x \in HookRec /\ x.wire = Append(r.wire, d)
          /\ x.st = r.st /\ x.call = r.call /\ x.args = r.args /\ x.forced = r.forced /\ x.refused = r.refused
          /\ x.once = r.once /\ x.decision = r.decision /\ x.got = r.got /\ x.ack = r.ack /\ x.told = r.told
      BY <2>2, <2>3, Zenon DEF HookRec
    <2> HIDE DEF x
    <2>5. /\ Len(r.wire) \in Nat /\ DOMAIN r.wire = 1 .. Len(r.wire)
          /\ DOMAIN x.wire = 1 .. Len(r.wire) + 1
          /\ \A i \in 1 .. Len(r.wire) : x.wire[i] = r.wire[i]
          /\ x.wire[Len(r.wire) + 1] = d
          /\ x.wire # <<>>
      BY <2>2, <2>3, <2>4
    <2>6. SaysAllow(x) => SaysAllow(r) \/ d = "allow"
      BY <2>4, <2>5 DEF SaysAllow
    <2>7. r.wire # <<>> => x.wire[1] = r.wire[1]
      <3>1. r.wire # <<>> => Len(r.wire) # 0
        BY <2>2
      <3> QED BY <2>5, <3>1
    <2>8. RecOK(x)
      BY <2>4, <2>5, <2>6, <2>7 DEF RecOK, Claims
    <2> QED BY <1>2, <2>1, <2>4, <2>8, Zenon DEF SameClaim
  <1> QED BY <1>1, <1>2, Zenon

LEMMA DenyIs ==
    ASSUME NEW r, RecOK(r)
    PROVE  /\ RecOK(Deny(r)) /\ SameClaim(r, Deny(r))
           /\ Deny(r).st = r.st /\ Deny(r).told = r.told /\ Deny(r).got = r.got /\ Deny(r).decision = r.decision
  <1>1. CASE r.once # "open"
    BY <1>1, Zenon DEF Deny, SameClaim
  <1>2. CASE r.once = "open"
    <2> DEFINE w == Write(r, "deny")
               x == [w EXCEPT !.once = "denying"]
    <2>1. Deny(r) = x
      BY <1>2, Zenon DEF Deny
    <2>2. /\ RecOK(w) /\ SameClaim(r, w) /\ w.st = r.st /\ w.told = r.told /\ w.got = r.got
          /\ w.decision = r.decision
      BY WriteIs, Zenon
    <2> HIDE DEF w
    <2>3. w \in HookRec
      BY <2>2, Zenon DEF RecOK
    <2>4. /\ x \in HookRec /\ x.wire = w.wire
          /\ x.st = w.st /\ x.call = w.call /\ x.args = w.args /\ x.forced = w.forced /\ x.refused = w.refused
          /\ x.decision = w.decision /\ x.got = w.got /\ x.ack = w.ack /\ x.told = w.told
      BY <2>3, Zenon DEF HookRec
    <2> HIDE DEF x
    <2>5. RecOK(x)
      BY <2>2, <2>4 DEF RecOK, Claims, SaysAllow
    <2> QED BY <2>1, <2>2, <2>4, <2>5, Zenon DEF SameClaim
  <1> QED BY <1>1, <1>2, Zenon

----------------------------------------------------------------------------
\* The broker's invariant.

BrokerTypes ==
    /\ DOMAIN hook = Hooks /\ hook = [h \in Hooks |-> hook[h]] /\ \A h \in Hooks : RecOK(hook[h])
    /\ hooks \subseteq Hooks /\ queue \in Seq(Hooks)
    /\ {closing, failed, done, expired} \subseteq BOOLEAN
    /\ intents \in [Calls -> [args : Args \cup {None}, consumed : BOOLEAN]]
    /\ pre \in [Calls -> Args \cup {None}] /\ first \in [Calls -> Args \cup {None}]

\* Every delivery is a queued hook, and none is there twice.
QueueInv ==
    /\ \A i \in DOMAIN queue : hook[queue[i]].st = "queued"
    /\ \A i, j \in DOMAIN queue : queue[i] = queue[j] => i = j

\* The ledger remembers who used up a call: by its hook before the intent came
\* (pre), by a consumed intent, or not at all once nothing can be admitted freely.
LedgerInv ==
    /\ failed => closing
    /\ \A c \in Calls :
         /\ intents[c] # NoIntent => first[c] # None /\ intents[c].args = first[c]
         /\ first[c] # None /\ intents[c] = NoIntent => expired \/ closing
         /\ pre[c] # NoPre => first[c] = None
    /\ \A h \in Hooks : Claims(hook[h]) =>
         LET c == hook[h].call IN
         /\ first[c] = None => pre[c] = hook[h].args
         /\ first[c] # None => first[c] = hook[h].args \/ failed
         /\ first[c] # None => intents[c].consumed \/ expired \/ closing
    /\ \A h, g \in Hooks : Claims(hook[h]) /\ Claims(hook[g]) /\ hook[h].call = hook[g].call => h = g

\* While the broker has not failed, a hook in flight is pending, nothing denies
\* it, and its decision is all there is on its wire.
InFlight == {"admitted", "queued", "taken", "decided", "written"}
DeliveryInv ==
    /\ done \/ shutdown # "idle" => closing
    /\ ~failed =>
         /\ done => hooks = {}
         /\ \A h \in Hooks :
              /\ hook[h].st \in InFlight => h \in hooks
              /\ hook[h].st \in InFlight \cup {"none", "accepted"} => hook[h].once = "open"
              /\ hook[h].st \in {"none", "accepted", "admitted", "queued", "taken", "decided"} => hook[h].wire = <<>>
              /\ hook[h].st = "written" => hook[h].wire = <<hook[h].decision>>
              /\ hook[h].told => hook[h].st = "over" /\ hook[h].got = hook[h].decision /\ hook[h].got # None

BrokerInv == BrokerTypes /\ QueueInv /\ LedgerInv /\ DeliveryInv

LEMMA BrokerInit == Init => BrokerInv
  <1> SUFFICES ASSUME Init PROVE BrokerInv
    BY Zenon
  <1>1. NewHook \in HookRec
    BY DEF NewHook, HookRec, Stages, Decided
  <1>2. RecOK(NewHook) /\ ~Claims(NewHook)
    <2>1. DOMAIN <<>> = {}
      OBVIOUS
    <2> QED BY <1>1, <2>1, Zenon DEF RecOK, NewHook, Claims, SaysAllow, None
  <1>3. hook = [h \in Hooks |-> NewHook] /\ \A h \in Hooks : hook[h] = NewHook
    BY Zenon DEF Init
  <1>4. BrokerTypes
    <2>1. NoIntent \in [args : Args \cup {None}, consumed : BOOLEAN]
      BY Zenon DEF NoIntent
    <2>2. queue \in Seq(Hooks)
      BY DEF Init
    <2> QED BY <1>2, <1>3, <2>1, <2>2, Zenon DEF Init, BrokerTypes, NoPre
  <1>5. QueueInv
    BY DEF Init, QueueInv
  <1>6. LedgerInv
    BY <1>2, <1>3, Zenon DEF Init, LedgerInv, NoPre
  <1>7. DeliveryInv
    BY <1>3 DEF Init, DeliveryInv, NewHook, InFlight
  <1> QED BY <1>4, <1>5, <1>6, <1>7, Zenon DEF BrokerInv

----------------------------------------------------------------------------
\* Steps that leave the claims and the ledger alone.

LEMMA QuietLedger ==
    ASSUME BrokerInv, UNCHANGED <<intents, pre, first>>,
           expired => expired', closing => closing', failed => failed', failed' => closing',
           \A h \in Hooks : SameClaim(hook[h], hook'[h])
    PROVE  LedgerInv'
  <1>1. \A h \in Hooks : /\ Claims(hook'[h]) <=> Claims(hook[h])
                         /\ hook'[h].call = hook[h].call /\ hook'[h].args = hook[h].args
    BY Zenon DEF SameClaim, Claims
  <1>2. LedgerInv
    BY Zenon DEF BrokerInv
  <1> QED BY <1>1, <1>2, SMTT(20) DEF LedgerInv

\* One hook changes, to x.
One(h, x) == hook' = [hook EXCEPT ![h] = x]

LEMMA OneHook ==
    ASSUME BrokerInv, NEW h \in Hooks, NEW x, One(h, x), RecOK(x)
    PROVE  /\ hook'[h] = x /\ \A g \in Hooks \ {h} : hook'[g] = hook[g]
           /\ DOMAIN hook' = Hooks /\ hook' = [g \in Hooks |-> hook'[g]] /\ \A g \in Hooks : RecOK(hook'[g])
  BY Zenon DEF One, BrokerInv, BrokerTypes

LEMMA QuietQueue ==
    ASSUME BrokerInv, UNCHANGED queue, \A h \in Hooks : hook[h].st = "queued" => hook'[h].st = "queued"
    PROVE  QueueInv'
  <1>1. \A i \in DOMAIN queue : queue[i] \in Hooks
    BY DEF BrokerInv, BrokerTypes
  <1> QED BY <1>1, Zenon DEF BrokerInv, QueueInv

\* A hook fails the broker: it is denied, whatever it was.
LEMMA FailedHook ==
    ASSUME BrokerInv, NEW h \in Hooks, NEW x, One(h, x), RecOK(x), SameClaim(hook[h], x),
           hook[h].st # "queued" \/ x.st = "queued",
           Fail, UNCHANGED <<intents, pre, first, queue, done, expired, shutdown>>, hooks' \subseteq Hooks
    PROVE  BrokerInv'
  <1>1. /\ hook'[h] = x /\ \A g \in Hooks \ {h} : hook'[g] = hook[g]
        /\ DOMAIN hook' = Hooks /\ hook' = [g \in Hooks |-> hook'[g]] /\ \A g \in Hooks : RecOK(hook'[g])
    BY OneHook, Zenon
  <1>2. failed' = TRUE /\ closing' = TRUE
    BY Zenon DEF Fail
  <1>3. BrokerTypes'
    BY <1>1, <1>2, Zenon DEF BrokerInv, BrokerTypes
  <1>4. \A g \in Hooks : SameClaim(hook[g], hook'[g])
    BY <1>1 DEF SameClaim
  <1>5. LedgerInv'
    BY <1>2, <1>4, QuietLedger, Zenon
  <1>6. QueueInv'
    BY <1>1, QuietQueue, Zenon
  <1>7. DeliveryInv'
    BY <1>2, Zenon DEF DeliveryInv
  <1> QED BY <1>3, <1>5, <1>6, <1>7, Zenon DEF BrokerInv

LEMMA FailHookStep ==
    ASSUME BrokerInv, NEW h \in Hooks, hook[h].st \notin {"none", "accepted", "queued"}, failHook(h),
           UNCHANGED <<intents, pre, first, queue, done, expired, shutdown, hooks>>
    PROVE  BrokerInv'
  <1> DEFINE r == hook[h]
             y == [r EXCEPT !.st = "over"]
             x == Deny(y)
  <1>1. RecOK(r) /\ r \in HookRec
    BY Zenon DEF BrokerInv, BrokerTypes, RecOK
  <1>2. /\ y \in HookRec /\ y.st = "over" /\ y.call = r.call /\ y.args = r.args /\ y.forced = r.forced
        /\ y.refused = r.refused /\ y.decision = r.decision /\ y.got = r.got /\ y.ack = r.ack /\ y.wire = r.wire
    BY <1>1, Zenon DEF HookRec, Stages
  <1>3. One(h, x)
    BY Zenon DEF failHook, One, BrokerInv, BrokerTypes
  <1> HIDE DEF y
  <1>4. RecOK(y) /\ SameClaim(r, y)
    BY <1>1, <1>2, Zenon DEF RecOK, Claims, SaysAllow, SameClaim
  <1>5. RecOK(x) /\ SameClaim(y, x)
    BY <1>4, DenyIs, Zenon
  <1> HIDE DEF x
  <1>6. SameClaim(r, x)
    BY <1>4, <1>5, Zenon DEF SameClaim
  <1>7. Fail /\ hooks' \subseteq Hooks
    BY Zenon DEF failHook, BrokerInv, BrokerTypes
  <1> QED BY <1>3, <1>5, <1>6, <1>7, FailedHook, Zenon

----------------------------------------------------------------------------
\* The steps of a hook that keep its claim.

\* A step of one hook that leaves the broker's flags, the ledger and the queue.
LEMMA HookKept ==
    ASSUME BrokerInv, NEW h \in Hooks, NEW x, One(h, x), RecOK(x), SameClaim(hook[h], x),
           hook[h].st # "queued" \/ x.st = "queued",
           UNCHANGED <<intents, pre, first, queue, closing, failed, done, expired, shutdown, hooks>>,
           ~failed => /\ x.st \in InFlight => h \in hooks
                      /\ x.st \in InFlight \cup {"none", "accepted"} => x.once = "open"
                      /\ x.st \in {"none", "accepted", "admitted", "queued", "taken", "decided"} => x.wire = <<>>
                      /\ x.st = "written" => x.wire = <<x.decision>>
                      /\ x.told => x.st = "over" /\ x.got = x.decision /\ x.got # None
    PROVE  BrokerInv'
  <1>1. /\ hook'[h] = x /\ \A g \in Hooks \ {h} : hook'[g] = hook[g]
        /\ DOMAIN hook' = Hooks /\ hook' = [g \in Hooks |-> hook'[g]] /\ \A g \in Hooks : RecOK(hook'[g])
    BY OneHook, Zenon
  <1>3. BrokerTypes'
    BY <1>1, Zenon DEF BrokerInv, BrokerTypes
  <1>4. \A g \in Hooks : SameClaim(hook[g], hook'[g])
    BY <1>1 DEF SameClaim
  <1>5. LedgerInv'
    BY <1>4, QuietLedger, Zenon DEF BrokerInv, LedgerInv
  <1>6. QueueInv'
    BY <1>1, QuietQueue, Zenon
  <1>7. DeliveryInv'
    BY <1>1 DEF BrokerInv, DeliveryInv
  <1> QED BY <1>3, <1>5, <1>6, <1>7, Zenon DEF BrokerInv

LEMMA AcceptStep ==
    ASSUME BrokerInv, NEW h \in Hooks, NEW c \in Calls, NEW a \in Args, acceptRelay(h, c, a) PROVE BrokerInv'
  <1> DEFINE r == hook[h]
             x == [r EXCEPT !.st = "accepted", !.call = c, !.args = a]
  <1>1. RecOK(r) /\ r \in HookRec /\ r.st = "none"
    BY Zenon DEF BrokerInv, BrokerTypes, RecOK, acceptRelay
  <1>2. /\ x \in HookRec /\ x.st = "accepted" /\ x.call = c /\ x.args = a /\ x.forced = r.forced /\ x.once = r.once
        /\ x.refused = r.refused /\ x.decision = r.decision /\ x.got = r.got /\ x.ack = r.ack /\ x.wire = r.wire
        /\ x.told = r.told
    BY <1>1, Zenon DEF HookRec, Stages
  <1>3. One(h, x)
    BY Zenon DEF acceptRelay, One, BrokerInv, BrokerTypes
  <1> HIDE DEF x
  <1>4. RecOK(x) /\ ~Claims(x) /\ ~Claims(r)
    BY <1>1, <1>2, Zenon DEF RecOK, Claims, SaysAllow
  <1>5. /\ hook'[h] = x /\ \A g \in Hooks \ {h} : hook'[g] = hook[g]
        /\ DOMAIN hook' = Hooks /\ hook' = [g \in Hooks |-> hook'[g]] /\ \A g \in Hooks : RecOK(hook'[g])
    BY <1>3, <1>4, OneHook, Zenon
  <1>6. UNCHANGED <<intents, pre, first, queue, closing, failed, done, expired, shutdown, hooks>>
    BY Zenon DEF acceptRelay, ledger, flags
  <1>7. BrokerTypes'
    BY <1>5, <1>6, Zenon DEF BrokerInv, BrokerTypes
  <1>8. QueueInv'
    BY <1>1, <1>5, <1>6, QuietQueue, Zenon
  <1>9. LedgerInv'
    <2>1. \A g \in Hooks : Claims(hook'[g]) => Claims(hook[g]) /\ hook'[g] = hook[g]
      BY <1>4, <1>5, Zenon
    <2> QED BY <1>6, <2>1, Zenon DEF BrokerInv, LedgerInv
  <1>10. DeliveryInv'
    BY <1>1, <1>2, <1>5, <1>6, SMTT(20) DEF BrokerInv, DeliveryInv, InFlight
  <1> QED BY <1>7, <1>8, <1>9, <1>10, Zenon DEF BrokerInv

LEMMA HxapproveStep == ASSUME BrokerInv, NEW h \in Hooks, hxapprove(h) PROVE BrokerInv'
  <1> DEFINE r == hook[h]
  <1>1. RecOK(r) /\ r \in HookRec /\ r.st # "none" /\ r.got = None
    BY Zenon DEF BrokerInv, BrokerTypes, RecOK, hxapprove
  <1>2. UNCHANGED <<intents, pre, first, queue, closing, failed, done, expired, shutdown, hooks>>
    BY Zenon DEF hxapprove, ledger, flags
  <1>0. ~failed => ~r.told
    BY <1>1, Zenon DEF BrokerInv, DeliveryInv
  <1>3. CASE r.wire # <<>> /\ hook' = [hook EXCEPT ![h].got = Head(hook[h].wire), ![h].ack = hook[h].open]
    <2> DEFINE x == [r EXCEPT !.got = Head(r.wire), !.ack = r.open]
    <2>1. Head(r.wire) \in {"allow", "deny"} /\ Head(r.wire) = r.wire[1] /\ 1 \in DOMAIN r.wire
      <3>1. r.wire \in Seq({"allow", "deny"})
        BY <1>1, Zenon DEF HookRec
      <3> QED BY <1>3, <3>1
    <2>2. /\ x \in HookRec /\ x.st = r.st /\ x.call = r.call /\ x.args = r.args /\ x.forced = r.forced
          /\ x.once = r.once /\ x.refused = r.refused /\ x.decision = r.decision /\ x.got = r.wire[1]
          /\ x.ack = r.open /\ x.wire = r.wire /\ x.told = r.told
      BY <1>1, <2>1, ZenonT(30) DEF HookRec, Decided
    <2>3. One(h, x)
      BY <1>3, Zenon DEF One, BrokerInv, BrokerTypes
    <2> HIDE DEF x
    <2>4. SaysAllow(x) => SaysAllow(r)
      BY <2>1, <2>2, Zenon DEF SaysAllow
    <2>5. RecOK(x) /\ SameClaim(r, x)
      <3>1. x.ack => x.wire # <<>> /\ x.got = x.wire[1]
        BY <1>3, <2>2, Zenon
      <3>2. x.got # None
        BY <2>1, <2>2, Zenon DEF None
      <3> QED BY <1>1, <2>2, <2>4, <3>1, <3>2, Zenon DEF RecOK, Claims, SameClaim
    <2>7. ~failed => /\ x.st \in InFlight => h \in hooks
                     /\ x.st \in InFlight \cup {"none", "accepted"} => x.once = "open"
                     /\ x.st \in {"none", "accepted", "admitted", "queued", "taken", "decided"} => x.wire = <<>>
                     /\ x.st = "written" => x.wire = <<x.decision>>
                     /\ ~x.told
      BY <1>0, <2>2, ZenonT(30) DEF BrokerInv, DeliveryInv
    <2> QED BY <1>2, <2>2, <2>3, <2>5, <2>7, HookKept, ZenonT(30)
  <1>4. CASE hook' = [hook EXCEPT ![h].got = "blocked", ![h].open = FALSE]
    <2> DEFINE x == [r EXCEPT !.got = "blocked", !.open = FALSE]
    <2>2. /\ x \in HookRec /\ x.st = r.st /\ x.call = r.call /\ x.args = r.args /\ x.forced = r.forced
          /\ x.once = r.once /\ x.refused = r.refused /\ x.decision = r.decision /\ x.got = "blocked"
          /\ x.ack = r.ack /\ x.wire = r.wire /\ x.told = r.told
      BY <1>1, Zenon DEF HookRec
    <2>3. One(h, x)
      BY <1>4, Zenon DEF One, BrokerInv, BrokerTypes
    <2> HIDE DEF x
    <2>5. RecOK(x) /\ SameClaim(r, x)
      BY <1>1, <2>2, Zenon DEF RecOK, Claims, SaysAllow, SameClaim
    <2>7. ~failed => /\ x.st \in InFlight => h \in hooks
                     /\ x.st \in InFlight \cup {"none", "accepted"} => x.once = "open"
                     /\ x.st \in {"none", "accepted", "admitted", "queued", "taken", "decided"} => x.wire = <<>>
                     /\ x.st = "written" => x.wire = <<x.decision>>
                     /\ ~x.told
      BY <1>0, <2>2, Zenon DEF BrokerInv, DeliveryInv
    <2> QED BY <1>2, <2>2, <2>3, <2>5, <2>7, HookKept, Zenon
  <1> QED BY <1>3, <1>4, Zenon DEF hxapprove

\* A step of one hook that may also move it in the queue or out of the map.
LEMMA HookMoved ==
    ASSUME BrokerInv, NEW h \in Hooks, NEW x, One(h, x), RecOK(x), SameClaim(hook[h], x),
           queue' \in Seq(Hooks), QueueInv', hooks' = hooks \/ hooks' = Without(h),
           UNCHANGED <<intents, pre, first, closing, failed, done, expired, shutdown>>,
           ~failed => /\ x.st \in InFlight => h \in hooks'
                      /\ x.st \in InFlight \cup {"none", "accepted"} => x.once = "open"
                      /\ x.st \in {"none", "accepted", "admitted", "queued", "taken", "decided"} => x.wire = <<>>
                      /\ x.st = "written" => x.wire = <<x.decision>>
                      /\ x.told => x.st = "over" /\ x.got = x.decision /\ x.got # None
    PROVE  BrokerInv'
  <1>1. /\ hook'[h] = x /\ \A g \in Hooks \ {h} : hook'[g] = hook[g]
        /\ DOMAIN hook' = Hooks /\ hook' = [g \in Hooks |-> hook'[g]] /\ \A g \in Hooks : RecOK(hook'[g])
    BY OneHook, Zenon
  <1>2. hooks' \subseteq hooks /\ \A g \in Hooks \ {h} : g \in hooks => g \in hooks'
    BY Zenon DEF Without
  <1>3. BrokerTypes'
    BY <1>1, <1>2, Zenon DEF BrokerInv, BrokerTypes
  <1>4. \A g \in Hooks : SameClaim(hook[g], hook'[g])
    BY <1>1 DEF SameClaim
  <1>5. LedgerInv'
    BY <1>4, QuietLedger, Zenon DEF BrokerInv, LedgerInv
  <1>7. DeliveryInv'
    BY <1>1, <1>2, SMTT(20) DEF BrokerInv, DeliveryInv
  <1> QED BY <1>3, <1>5, <1>7, Zenon DEF BrokerInv

LEMMA EnqueueStep == ASSUME BrokerInv, NEW h \in Hooks, enqueue(h) PROVE BrokerInv'
  <1> DEFINE r == hook[h]
  <1>1. RecOK(r) /\ r \in HookRec /\ r.st = "admitted"
    BY Zenon DEF BrokerInv, BrokerTypes, RecOK, enqueue
  <1>2. UNCHANGED <<intents, pre, first, done, expired, shutdown, hooks>>
    BY Zenon DEF enqueue, ledger
  <1>3. CASE queue' = Append(queue, h) /\ hook' = [hook EXCEPT ![h].st = "queued"] /\ UNCHANGED <<failed, closing>>
    <2> DEFINE x == [r EXCEPT !.st = "queued"]
    <2>1. /\ x \in HookRec /\ x.st = "queued" /\ x.call = r.call /\ x.args = r.args /\ x.forced = r.forced
          /\ x.once = r.once /\ x.refused = r.refused /\ x.decision = r.decision /\ x.got = r.got
          /\ x.ack = r.ack /\ x.wire = r.wire /\ x.told = r.told
      BY <1>1, Zenon DEF HookRec, Stages
    <2>2. One(h, x)
      BY <1>3, Zenon DEF One, BrokerInv, BrokerTypes
    <2> HIDE DEF x
    <2>3. RecOK(x) /\ SameClaim(r, x)
      BY <1>1, <2>1, Zenon DEF RecOK, Claims, SaysAllow, SameClaim
    <2>4. hook'[h] = x /\ \A g \in Hooks \ {h} : hook'[g] = hook[g]
      BY <2>2, <2>3, OneHook, Zenon
    <2>5. queue \in Seq(Hooks)
      BY Zenon DEF BrokerInv, BrokerTypes
    <2>6. /\ queue' \in Seq(Hooks) /\ Len(queue) \in Nat /\ DOMAIN queue = 1 .. Len(queue)
          /\ DOMAIN queue' = 1 .. Len(queue) + 1 /\ queue'[Len(queue) + 1] = h
          /\ \A i \in 1 .. Len(queue) : queue'[i] = queue[i] /\ queue[i] \in Hooks
      BY <1>3, <2>5
    <2>7. \A i \in DOMAIN queue : hook[queue[i]].st = "queued" /\ queue[i] # h
      BY <1>1, Zenon DEF BrokerInv, QueueInv
    <2>8. QueueInv'
      <3>1. \A i \in DOMAIN queue' : hook'[queue'[i]].st = "queued"
        BY <2>1, <2>4, <2>6, <2>7
      <3>2. \A i, j \in DOMAIN queue' : queue'[i] = queue'[j] => i = j
        BY <2>6, <2>7 DEF BrokerInv, QueueInv
      <3> QED BY <3>1, <3>2, Zenon DEF QueueInv
    <2>9. ~failed => /\ h \in hooks /\ x.once = "open" /\ x.wire = <<>> /\ ~x.told
      BY <1>1, <2>1, Zenon DEF BrokerInv, DeliveryInv, InFlight
    <2> QED BY <1>2, <1>3, <2>1, <2>2, <2>3, <2>6, <2>8, <2>9, HookMoved, Zenon
  <1>4. CASE hook' = [hook EXCEPT ![h] = Deny([@ EXCEPT !.st = "over"])] /\ Fail /\ UNCHANGED queue
    BY <1>1, <1>2, <1>4, FailHookStep, Zenon DEF failHook
  <1> QED BY <1>3, <1>4, Zenon DEF enqueue

LEMMA DeliverNextStep == ASSUME BrokerInv, deliverNext PROVE BrokerInv'
  <1> DEFINE h == Head(queue)
             r == hook[h]
             x == [r EXCEPT !.st = "taken"]
  <1>1. queue \in Seq(Hooks) /\ queue # <<>>
    BY Zenon DEF BrokerInv, BrokerTypes, deliverNext
  <1>2. /\ queue' = Tail(queue) /\ hook' = [hook EXCEPT ![h].st = "taken"]
        /\ UNCHANGED <<intents, pre, first, closing, failed, done, expired, shutdown, hooks>>
    BY Zenon DEF deliverNext, ledger, flags
  <1>3. /\ Len(queue) \in Nat \ {0} /\ DOMAIN queue = 1 .. Len(queue) /\ h = queue[1] /\ h \in Hooks
        /\ queue' \in Seq(Hooks) /\ DOMAIN queue' = 1 .. Len(queue) - 1
        /\ \A i \in 1 .. Len(queue) - 1 : queue'[i] = queue[i + 1] /\ queue[i + 1] \in Hooks
    BY <1>1, <1>2
  <1> HIDE DEF h
  <1>4. RecOK(r) /\ r \in HookRec /\ r.st = "queued"
    <2>1. 1 \in DOMAIN queue
      BY <1>3
    <2>2. r.st = "queued"
      BY <1>3, <2>1, Zenon DEF BrokerInv, QueueInv
    <2> QED BY <1>3, <2>2, Zenon DEF BrokerInv, BrokerTypes, RecOK
  <1>5. /\ x \in HookRec /\ x.st = "taken" /\ x.call = r.call /\ x.args = r.args /\ x.forced = r.forced
        /\ x.once = r.once /\ x.refused = r.refused /\ x.decision = r.decision /\ x.got = r.got
        /\ x.ack = r.ack /\ x.wire = r.wire /\ x.told = r.told
    BY <1>4, Zenon DEF HookRec, Stages
  <1>6. One(h, x)
    BY <1>2, <1>3, Zenon DEF One, BrokerInv, BrokerTypes
  <1> HIDE DEF x
  <1>7. RecOK(x) /\ SameClaim(r, x)
    BY <1>4, <1>5 DEF RecOK, Claims, SaysAllow, SameClaim
  <1>8. hook'[h] = x /\ \A g \in Hooks \ {h} : hook'[g] = hook[g]
    BY <1>3, <1>6, <1>7, OneHook, Zenon
  <1>9. QueueInv'
    <2>1. \A i \in 1 .. Len(queue) - 1 : queue[i + 1] # h /\ hook[queue[i + 1]].st = "queued"
      BY <1>3, SMTT(20) DEF BrokerInv, QueueInv
    <2>2. \A i \in DOMAIN queue' : hook'[queue'[i]].st = "queued"
      <3> SUFFICES ASSUME NEW i \in DOMAIN queue' PROVE hook'[queue'[i]].st = "queued"
        BY Zenon
      <3>1. queue'[i] = queue[i + 1] /\ queue[i + 1] \in Hooks /\ queue[i + 1] # h
            /\ hook[queue[i + 1]].st = "queued"
        BY <1>3, <2>1, Zenon
      <3> QED BY <1>8, <3>1, Zenon
    <2>3. \A i, j \in DOMAIN queue' : queue'[i] = queue'[j] => i = j
      <3> SUFFICES ASSUME NEW i \in DOMAIN queue', NEW j \in DOMAIN queue', queue'[i] = queue'[j] PROVE i = j
        BY Zenon
      <3>1. i \in 1 .. Len(queue) - 1 /\ j \in 1 .. Len(queue) - 1 /\ queue[i + 1] = queue[j + 1]
        BY <1>3, Zenon
      <3>2. i + 1 \in DOMAIN queue /\ j + 1 \in DOMAIN queue
        BY <1>3, <3>1
      <3>3. i + 1 = j + 1
        BY <3>1, <3>2, Zenon DEF BrokerInv, QueueInv
      <3> QED BY <3>1, <3>3
    <2> QED BY <2>2, <2>3, Zenon DEF QueueInv
  <1>10. ~failed => /\ h \in hooks /\ x.once = "open" /\ x.wire = <<>> /\ ~x.told
    BY <1>3, <1>4, <1>5, Zenon DEF BrokerInv, DeliveryInv, InFlight
  <1> QED BY <1>2, <1>3, <1>5, <1>6, <1>7, <1>9, <1>10, HookMoved, Zenon

LEMMA DecideStep ==
    ASSUME BrokerInv, NEW h \in Hooks, NEW d \in {"allow", "deny"}, adapterDecides(h, d) PROVE BrokerInv'
  <1> DEFINE r == hook[h]
  <1>1. RecOK(r) /\ r \in HookRec /\ r.st = "taken"
    BY Zenon DEF BrokerInv, BrokerTypes, RecOK, adapterDecides
  <1>2. UNCHANGED <<intents, pre, first, done, expired, shutdown, hooks, queue>>
    BY Zenon DEF adapterDecides, ledger
  <1>3. CASE /\ d = "allow" => MayAllow(h)
             /\ hook' = [hook EXCEPT ![h].st = "decided", ![h].decision = d] /\ UNCHANGED <<failed, closing>>
    <2> DEFINE x == [r EXCEPT !.st = "decided", !.decision = d]
    <2>1. /\ x \in HookRec /\ x.st = "decided" /\ x.call = r.call /\ x.args = r.args /\ x.forced = r.forced
          /\ x.once = r.once /\ x.refused = r.refused /\ x.decision = d /\ x.got = r.got
          /\ x.ack = r.ack /\ x.wire = r.wire /\ x.told = r.told
      BY <1>1, ZenonT(30) DEF HookRec, Stages, Decided
    <2>2. One(h, x)
      BY <1>3, Zenon DEF One, BrokerInv, BrokerTypes
    <2> HIDE DEF x
    <2>3. r.refused = None /\ (d = "allow" => ~r.forced) /\ d # None
      BY <1>1, <1>3, Zenon DEF RecOK, MayAllow, None
    <2>4. SaysAllow(x) => Claims(x)
      BY <1>1, <2>1, <2>3, ZenonT(30) DEF RecOK, Claims, SaysAllow
    <2>5. RecOK(x) /\ SameClaim(r, x)
      BY <1>1, <2>1, <2>3, <2>4, Zenon DEF RecOK, SameClaim
    <2>6. ~failed => /\ h \in hooks /\ x.once = "open" /\ x.wire = <<>> /\ ~x.told
      BY <1>1, <2>1, Zenon DEF BrokerInv, DeliveryInv, InFlight
    <2> QED BY <1>1, <1>2, <1>3, <2>1, <2>2, <2>5, <2>6, HookKept, Zenon
  <1>4. CASE failHook(h)
    BY <1>1, <1>2, <1>4, FailHookStep, Zenon
  <1> QED BY <1>3, <1>4, Zenon DEF adapterDecides

LEMMA LostStep == ASSUME BrokerInv, NEW h \in Hooks, adapterLost(h) PROVE BrokerInv'
  BY FailHookStep, Zenon DEF adapterLost, ledger

LEMMA RelayStep == ASSUME BrokerInv, NEW h \in Hooks, relayDecision(h) PROVE BrokerInv'
  <1> DEFINE r == hook[h]
  <1>1. RecOK(r) /\ r \in HookRec /\ r.st = "decided"
    BY Zenon DEF BrokerInv, BrokerTypes, RecOK, relayDecision
  <1>2. UNCHANGED <<intents, pre, first, done, expired, shutdown, hooks, queue>>
    BY Zenon DEF relayDecision, ledger
  <1>3. CASE /\ r.open /\ hook' = [hook EXCEPT ![h] = [Write(@, hook[h].decision) EXCEPT !.st = "written"]]
             /\ UNCHANGED <<failed, closing>>
    <2> DEFINE w == Write(r, r.decision)
               x == [w EXCEPT !.st = "written"]
    <2>1. r.decision \in {"allow", "deny"} /\ (r.decision = "allow" => Claims(r))
      BY <1>1, Zenon DEF RecOK, HookRec, Decided, SaysAllow
    <2>2. /\ RecOK(w) /\ SameClaim(r, w) /\ w.st = r.st /\ w.once = r.once /\ w.told = r.told
          /\ w.got = r.got /\ w.decision = r.decision /\ w.wire = Append(r.wire, r.decision)
      BY <1>1, <1>3, <2>1, WriteIs, Zenon
    <2> HIDE DEF w
    <2>3. w \in HookRec
      BY <2>2, Zenon DEF RecOK
    <2>4. /\ x \in HookRec /\ x.st = "written" /\ x.call = w.call /\ x.args = w.args /\ x.forced = w.forced
          /\ x.once = w.once /\ x.refused = w.refused /\ x.decision = w.decision /\ x.got = w.got
          /\ x.ack = w.ack /\ x.wire = w.wire /\ x.told = w.told
      BY <2>3, Zenon DEF HookRec, Stages
    <2>5. One(h, x)
      BY <1>3, Zenon DEF One, BrokerInv, BrokerTypes, w
    <2> HIDE DEF x
    <2>6. RecOK(x) /\ SameClaim(r, x)
      BY <1>1, <2>1, <2>2, <2>4, ZenonT(30) DEF RecOK, Claims, SaysAllow, SameClaim
    <2>7. ~failed => /\ h \in hooks /\ x.once = "open" /\ x.wire = <<x.decision>> /\ ~x.told
      <3>1. ~failed => h \in hooks /\ r.once = "open" /\ r.wire = <<>> /\ ~r.told
        BY <1>1, Zenon DEF BrokerInv, DeliveryInv, InFlight
      <3>2. Append(<<>>, r.decision) = <<r.decision>>
        OBVIOUS
      <3> QED BY <2>2, <2>4, <3>1, <3>2, Zenon
    <2> QED BY <1>1, <1>2, <1>3, <2>4, <2>5, <2>6, <2>7, HookKept, Zenon
  <1>4. CASE failHook(h)
    BY <1>1, <1>2, <1>4, FailHookStep, Zenon
  <1> QED BY <1>3, <1>4, Zenon DEF relayDecision

LEMMA ReadAckStep == ASSUME BrokerInv, NEW h \in Hooks, readAck(h) PROVE BrokerInv'
  <1> DEFINE r == hook[h]
  <1>1. RecOK(r) /\ r \in HookRec /\ r.st = "written"
    BY Zenon DEF BrokerInv, BrokerTypes, RecOK, readAck
  <1>2. UNCHANGED <<intents, pre, first, done, expired, shutdown, queue>>
    BY Zenon DEF readAck, ledger
  <1>3. CASE /\ Acknowledged(h)
             /\ hook' = [hook EXCEPT ![h] =
                            [@ EXCEPT !.st = "over", !.ack = FALSE, !.told = TRUE,
                                      !.once = IF hook[h].once = "open" THEN "closed" ELSE hook[h].once]]
             /\ hooks' = IF hook[h].once = "open" THEN Without(h) ELSE hooks
             /\ UNCHANGED <<failed, closing>>
    <2> DEFINE o == IF r.once = "open" THEN "closed" ELSE r.once
               x == [r EXCEPT !.st = "over", !.ack = FALSE, !.told = TRUE, !.once = o]
    <2>1. o \in {"open", "denying", "closed"}
      BY <1>1, Zenon DEF HookRec
    <2>2. One(h, x)
      BY <1>3, Zenon DEF One
    <2> HIDE DEF o
    <2>3. /\ x \in HookRec /\ x.st = "over" /\ x.call = r.call /\ x.args = r.args /\ x.forced = r.forced
          /\ x.once = o /\ x.refused = r.refused /\ x.decision = r.decision /\ x.got = r.got
          /\ x.ack = FALSE /\ x.wire = r.wire /\ x.told = TRUE
      BY <1>1, <2>1, Zenon DEF HookRec, Stages
    <2> HIDE DEF x
    <2>4. RecOK(x) /\ SameClaim(r, x)
      BY <1>1, <2>3, Zenon DEF RecOK, Claims, SaysAllow, SameClaim
    <2>5. QueueInv'
      <3>1. hook'[h] = x /\ \A g \in Hooks \ {h} : hook'[g] = hook[g]
        BY <2>2, <2>4, OneHook
      <3> QED BY <1>1, <1>2, <3>1, QuietQueue, Zenon
    <2>6. ~failed => x.got = x.decision /\ x.got # None
      <3>1. r.ack /\ r.got = r.wire[1] /\ r.got # None
        BY <1>1, <1>3, Zenon DEF RecOK, Acknowledged
      <3>2. ~failed => r.wire = <<r.decision>>
        BY <1>1, Zenon DEF BrokerInv, DeliveryInv
      <3> QED BY <2>3, <3>1, <3>2
    <2>7. queue' \in Seq(Hooks) /\ (hooks' = hooks \/ hooks' = Without(h))
      BY <1>2, <1>3, Zenon DEF BrokerInv, BrokerTypes
    <2> QED BY <1>2, <1>3, <2>2, <2>3, <2>4, <2>5, <2>6, <2>7, HookMoved, Zenon DEF InFlight
  <1>4. CASE failHook(h) /\ UNCHANGED hooks
    BY <1>1, <1>2, <1>4, FailHookStep, Zenon
  <1> QED BY <1>3, <1>4, Zenon DEF readAck

LEMMA DirectDenyStep == ASSUME BrokerInv, NEW h \in Hooks, directDeny(h) PROVE BrokerInv'
  <1> DEFINE r == hook[h]
             x == Deny(r)
  <1>1. RecOK(r)
    BY Zenon DEF BrokerInv, BrokerTypes
  <1>2. UNCHANGED <<intents, pre, first, queue, closing, failed, done, expired, shutdown, hooks>>
    BY Zenon DEF directDeny, ledger, flags
  <1>3. RecOK(x) /\ SameClaim(r, x) /\ x.st = r.st
    BY <1>1, DenyIs, Zenon
  <1>4. One(h, x)
    BY Zenon DEF directDeny, One
  <1>5. failed
    BY Zenon DEF directDeny, BrokerInv, DeliveryInv, InFlight
  <1> HIDE DEF x
  <1> QED BY <1>2, <1>3, <1>4, <1>5, HookKept, Zenon

LEMMA DeniedStep == ASSUME BrokerInv, NEW h \in Hooks, denied(h) PROVE BrokerInv'
  <1> DEFINE r == hook[h]
             x == [r EXCEPT !.once = "closed", !.ack = FALSE]
  <1>1. RecOK(r) /\ r \in HookRec /\ r.once = "denying"
    BY Zenon DEF BrokerInv, BrokerTypes, RecOK, denied
  <1>2. UNCHANGED <<intents, pre, first, queue, closing, failed, done, expired, shutdown>> /\ hooks' = Without(h)
    BY Zenon DEF denied, ledger, flags
  <1>3. /\ x \in HookRec /\ x.st = r.st /\ x.call = r.call /\ x.args = r.args /\ x.forced = r.forced
        /\ x.once = "closed" /\ x.refused = r.refused /\ x.decision = r.decision /\ x.got = r.got
        /\ x.ack = FALSE /\ x.wire = r.wire /\ x.told = r.told
    BY <1>1, Zenon DEF HookRec
  <1>4. One(h, x)
    BY Zenon DEF denied, One, BrokerInv, BrokerTypes
  <1> HIDE DEF x
  <1>5. RecOK(x) /\ SameClaim(r, x)
    BY <1>1, <1>3, Zenon DEF RecOK, Claims, SaysAllow, SameClaim
  <1>6. QueueInv'
    <2>1. hook'[h] = x /\ \A g \in Hooks \ {h} : hook'[g] = hook[g]
      BY <1>4, <1>5, OneHook
    <2> QED BY <1>2, <1>3, <2>1, QuietQueue, Zenon
  <1>7. ~failed => x.st \notin InFlight \cup {"none", "accepted"}
    BY <1>1, <1>3, Zenon DEF BrokerInv, DeliveryInv
  <1>8. ~failed /\ x.told => x.st = "over" /\ x.got = x.decision /\ x.got # None
    BY <1>3, Zenon DEF BrokerInv, DeliveryInv
  <1>9. queue' \in Seq(Hooks)
    BY <1>2, Zenon DEF BrokerInv, BrokerTypes
  <1> QED BY <1>2, <1>4, <1>5, <1>6, <1>7, <1>8, <1>9, HookMoved, Zenon DEF InFlight

----------------------------------------------------------------------------
\* Admission, and the intents.

LEMMA LedgerKept ==
    ASSUME BrokerInv, UNCHANGED <<intents, pre, first>>,
           expired => expired', closing => closing', failed => failed', failed' => closing',
           \A h \in Hooks : Claims(hook'[h]) => /\ Claims(hook[h])
                                                /\ hook'[h].call = hook[h].call /\ hook'[h].args = hook[h].args
    PROVE  LedgerInv'
  BY Zenon DEF BrokerInv, LedgerInv

\* What admitHook makes of an accepted hook: admitted, forced or not.
Admitted(r, f) == [[r EXCEPT !.st = "admitted"] EXCEPT !.forced = f]

LEMMA AdmittedIs ==
    ASSUME NEW r, RecOK(r), r.st = "accepted", NEW f \in BOOLEAN,
           NEW x, x = Admitted(r, f)
    PROVE  /\ RecOK(x) /\ x.st = "admitted" /\ x.call = r.call /\ x.args = r.args /\ x.forced = f
           /\ x.refused = None /\ x.once = r.once /\ x.wire = r.wire /\ x.told = r.told
  <1>1. /\ x \in HookRec /\ x.st = "admitted" /\ x.call = r.call /\ x.args = r.args /\ x.forced = f
        /\ x.once = r.once /\ x.refused = r.refused /\ x.decision = r.decision /\ x.got = r.got
        /\ x.ack = r.ack /\ x.wire = r.wire /\ x.told = r.told
    BY Zenon DEF RecOK, HookRec, Stages, Admitted
  <1>2. ~Claims(r) /\ r.refused = None
    BY Zenon DEF RecOK, Claims
  <1>3. ~SaysAllow(x)
    BY <1>1, <1>2 DEF RecOK, SaysAllow
  <1>4. RecOK(x)
    BY <1>1, <1>3, Zenon DEF RecOK
  <1> QED BY <1>1, <1>2, <1>4, Zenon

\* ... or refused.
LEMMA RefusedIs ==
    ASSUME NEW r, RecOK(r), r.st = "accepted", NEW why \in {"failed", "lease end", "pending", "ledger"}
    PROVE  LET x == Deny([[r EXCEPT !.st = "admitted"] EXCEPT !.st = "over", !.refused = why]) IN
           RecOK(x) /\ ~Claims(x) /\ x.st = "over"
  <1> DEFINE y == [[r EXCEPT !.st = "admitted"] EXCEPT !.st = "over", !.refused = why]
  <1>1. /\ y \in HookRec /\ y.st = "over" /\ y.call = r.call /\ y.args = r.args /\ y.forced = r.forced
        /\ y.once = r.once /\ y.refused = why /\ y.decision = r.decision /\ y.got = r.got
        /\ y.ack = r.ack /\ y.wire = r.wire /\ y.told = r.told
    BY Zenon DEF RecOK, HookRec, Stages
  <1> HIDE DEF y
  <1>2. why # None
    BY Zenon DEF None
  <1>3. ~SaysAllow(y)
    BY <1>1, Zenon DEF RecOK, SaysAllow, Claims
  <1>4. RecOK(y)
    BY <1>1, <1>2, <1>3, Zenon DEF RecOK
  <1>5. RecOK(Deny(y)) /\ SameClaim(y, Deny(y)) /\ Deny(y).st = y.st
    BY <1>4, DenyIs, Zenon
  <1>6. ~Claims(Deny(y))
    BY <1>1, <1>2, <1>5, Zenon DEF SameClaim, Claims
  <1> QED BY <1>1, <1>5, <1>6, Zenon DEF y

LEMMA RefuseStep ==
    ASSUME BrokerInv, NEW h \in Hooks, hook[h].st = "accepted",
           NEW why \in {"failed", "lease end", "pending", "ledger"},
           One(h, Deny([[hook[h] EXCEPT !.st = "admitted"] EXCEPT !.st = "over", !.refused = why])),
           hooks' = hooks \/ hooks' = hooks \cup {h}, Fail,
           UNCHANGED <<intents, pre, first, queue, done, expired, shutdown>>
    PROVE  BrokerInv'
  <1> DEFINE x == Deny([[hook[h] EXCEPT !.st = "admitted"] EXCEPT !.st = "over", !.refused = why])
  <1>1. RecOK(hook[h])
    BY Zenon DEF BrokerInv, BrokerTypes
  <1>2. RecOK(x) /\ ~Claims(x) /\ x.st = "over"
    BY <1>1, RefusedIs, Zenon
  <1>3. One(h, x)
    BY Zenon
  <1> HIDE DEF x
  <1>4. /\ hook'[h] = x /\ \A g \in Hooks \ {h} : hook'[g] = hook[g]
        /\ DOMAIN hook' = Hooks /\ hook' = [g \in Hooks |-> hook'[g]] /\ \A g \in Hooks : RecOK(hook'[g])
    BY <1>2, <1>3, OneHook, Zenon
  <1>5. failed' = TRUE /\ closing' = TRUE
    BY Zenon DEF Fail
  <1>6. BrokerTypes'
    BY <1>4, <1>5, Zenon DEF BrokerInv, BrokerTypes
  <1>7. QueueInv'
    BY <1>4, QuietQueue, Zenon
  <1>8. LedgerInv'
    BY <1>2, <1>4, <1>5, LedgerKept, Zenon
  <1>9. DeliveryInv'
    BY <1>5, Zenon DEF DeliveryInv
  <1> QED BY <1>6, <1>7, <1>8, <1>9, Zenon DEF BrokerInv

\* Admission while the broker is open: what remains is the ledger's part.
LEMMA AdmitStep ==
    ASSUME BrokerInv, NEW h \in Hooks, hook[h].st = "accepted", NEW f \in BOOLEAN,
           NEW x, x = Admitted(hook[h], f), One(h, x),
           ~closing, hooks' = hooks \cup {h},
           intents' \in [Calls -> [args : Args \cup {None}, consumed : BOOLEAN]],
           pre' \in [Calls -> Args \cup {None}],
           UNCHANGED <<first, queue, closing, failed, done, expired, shutdown>>, LedgerInv'
    PROVE  BrokerInv'
  <1>1. RecOK(hook[h])
    BY Zenon DEF BrokerInv, BrokerTypes
  <1>2. RecOK(x) /\ x.st = "admitted" /\ x.once = hook[h].once /\ x.wire = hook[h].wire /\ x.told = hook[h].told
    BY <1>1, AdmittedIs, SMTT(20)
  <1>4. /\ hook'[h] = x /\ \A g \in Hooks \ {h} : hook'[g] = hook[g]
        /\ DOMAIN hook' = Hooks /\ hook' = [g \in Hooks |-> hook'[g]] /\ \A g \in Hooks : RecOK(hook'[g])
    BY <1>2, OneHook
  <1>6. BrokerTypes'
    BY <1>4, Zenon DEF BrokerInv, BrokerTypes
  <1>7. QueueInv'
    BY <1>4, QuietQueue, Zenon
  <1>8. DeliveryInv'
    <2>1. DeliveryInv
      BY Zenon DEF BrokerInv
    <2> QED BY <1>2, <1>4, <2>1, SMTT(20) DEF DeliveryInv, InFlight
  <1> QED BY <1>6, <1>7, <1>8, Zenon DEF BrokerInv

\* The ledger when h is admitted before its intent: nobody else claims the call.
LEMMA LedgerPre ==
    ASSUME BrokerInv, NEW h \in Hooks, NEW x, hook'[h] = x, \A g \in Hooks \ {h} : hook'[g] = hook[g],
           x.call \in Calls, x.args \in Args, ~closing, ~expired, intents[x.call] = NoIntent, pre[x.call] = NoPre,
           pre' = [pre EXCEPT ![x.call] = x.args], UNCHANGED <<intents, first, expired, closing, failed>>
    PROVE  LedgerInv'
  <1> DEFINE c == x.call
  <1>0. LedgerInv
    BY Zenon DEF BrokerInv
  <1>1. first[c] = None
    BY <1>0, Zenon DEF LedgerInv
  <1>2. \A g \in Hooks : RecOK(hook[g])
    BY Zenon DEF BrokerInv, BrokerTypes
  <1>3. \A g \in Hooks : Claims(hook[g]) => hook[g].call \in Calls /\ hook[g].args \in Args
    BY <1>2, Zenon DEF RecOK, Claims
  <1>4. \A g \in Hooks : Claims(hook[g]) => hook[g].call # c
    <2>1. NoPre \notin Args
      BY ArgsAssumption, Zenon DEF NoPre
    <2>2. \A g \in Hooks : Claims(hook[g]) /\ first[hook[g].call] = None => pre[hook[g].call] = hook[g].args
      BY <1>0, Zenon DEF LedgerInv
    <2> QED BY <1>1, <1>3, <2>1, <2>2, Zenon
  <1>5. pre'[c] = x.args /\ \A d \in Calls \ {c} : pre'[d] = pre[d]
    BY Zenon DEF BrokerInv, BrokerTypes
  <1>6. \A d \in Calls :
         /\ intents'[d] # NoIntent => first'[d] # None /\ intents'[d].args = first'[d]
         /\ first'[d] # None /\ intents'[d] = NoIntent => expired' \/ closing'
         /\ pre'[d] # NoPre => first'[d] = None
    <2> SUFFICES ASSUME NEW d \in Calls
                 PROVE  /\ intents'[d] # NoIntent => first'[d] # None /\ intents'[d].args = first'[d]
                        /\ first'[d] # None /\ intents'[d] = NoIntent => expired' \/ closing'
                        /\ pre'[d] # NoPre => first'[d] = None
      OBVIOUS
    <2>1. /\ intents[d] # NoIntent => first[d] # None /\ intents[d].args = first[d]
          /\ first[d] # None /\ intents[d] = NoIntent => expired \/ closing
          /\ pre[d] # NoPre => first[d] = None
      BY <1>0, Zenon DEF LedgerInv
    <2>2. pre'[d] # NoPre => first[d] = None
      BY <1>1, <1>5, <2>1, Zenon
    <2> QED BY <2>1, <2>2, Zenon
  <1>7. \A g \in Hooks : Claims(hook'[g]) =>
         /\ first'[hook'[g].call] = None => pre'[hook'[g].call] = hook'[g].args
         /\ first'[hook'[g].call] # None => first'[hook'[g].call] = hook'[g].args \/ failed'
         /\ first'[hook'[g].call] # None => intents'[hook'[g].call].consumed \/ expired' \/ closing'
    <2> SUFFICES ASSUME NEW g \in Hooks, Claims(hook'[g])
                 PROVE  /\ first'[hook'[g].call] = None => pre'[hook'[g].call] = hook'[g].args
                        /\ first'[hook'[g].call] # None => first'[hook'[g].call] = hook'[g].args \/ failed'
                        /\ first'[hook'[g].call] # None => intents'[hook'[g].call].consumed \/ expired' \/ closing'
      BY Zenon
    <2>1. CASE g = h
      BY <1>1, <1>5, <2>1, Zenon
    <2>2. CASE g # h
      <3>1. hook'[g] = hook[g] /\ Claims(hook[g]) /\ hook[g].call \in Calls \ {c}
        BY <1>3, <1>4, <2>2, Zenon
      <3>2. /\ first[hook[g].call] = None => pre[hook[g].call] = hook[g].args
            /\ first[hook[g].call] # None => first[hook[g].call] = hook[g].args \/ failed
            /\ first[hook[g].call] # None => intents[hook[g].call].consumed \/ expired \/ closing
        BY <3>1, Zenon DEF BrokerInv, LedgerInv
      <3> QED BY <1>5, <3>1, <3>2, Zenon
    <2> QED BY <2>1, <2>2, Zenon
  <1>8. \A g, k \in Hooks : Claims(hook'[g]) /\ Claims(hook'[k]) /\ hook'[g].call = hook'[k].call => g = k
    BY <1>4, ZenonT(30) DEF BrokerInv, LedgerInv
  <1>9. failed' => closing'
    BY Zenon DEF BrokerInv, LedgerInv
  <1> QED BY <1>6, <1>7, <1>8, <1>9, Zenon DEF LedgerInv

\* ... and when it consumes the intent that was registered before.
LEMMA LedgerConsumed ==
    ASSUME BrokerInv, NEW h \in Hooks, NEW x, hook'[h] = x, \A g \in Hooks \ {h} : hook'[g] = hook[g],
           x.call \in Calls, x.args \in Args, ~closing, ~expired, intents[x.call] # NoIntent,
           intents[x.call].args = x.args, ~intents[x.call].consumed,
           intents' = [intents EXCEPT ![x.call].consumed = TRUE], UNCHANGED <<pre, first, expired, closing, failed>>
    PROVE  LedgerInv'
  <1> DEFINE c == x.call
  <1>1. first[c] = x.args /\ first[c] # None
    BY Zenon DEF BrokerInv, LedgerInv
  <1>2. \A g \in Hooks : RecOK(hook[g])
    BY Zenon DEF BrokerInv, BrokerTypes
  <1>3. \A g \in Hooks : Claims(hook[g]) => hook[g].call \in Calls
    BY <1>2, Zenon DEF RecOK, Claims
  <1>4. \A g \in Hooks : Claims(hook[g]) => hook[g].call # c
    BY <1>1, <1>3 DEF BrokerInv, LedgerInv
  <1>5. /\ intents'[c].consumed = TRUE /\ intents'[c].args = x.args /\ intents'[c] # NoIntent
        /\ \A d \in Calls \ {c} : intents'[d] = intents[d]
    <2>1. intents[c] \in [args : Args \cup {None}, consumed : BOOLEAN]
      BY Zenon DEF BrokerInv, BrokerTypes
    <2>2. intents'[c] = [intents[c] EXCEPT !.consumed = TRUE]
      BY Zenon DEF BrokerInv, BrokerTypes
    <2>3. intents'[c].consumed = TRUE /\ intents'[c].args = x.args
      BY <2>1, <2>2
    <2>4. \A d \in Calls \ {c} : intents'[d] = intents[d]
      BY Zenon DEF BrokerInv, BrokerTypes
    <2> QED BY <2>3, <2>4 DEF NoIntent
  <1>6. \A d \in Calls :
         /\ intents'[d] # NoIntent => first'[d] # None /\ intents'[d].args = first'[d]
         /\ first'[d] # None /\ intents'[d] = NoIntent => expired' \/ closing'
         /\ pre'[d] # NoPre => first'[d] = None
    BY <1>1, <1>5 DEF BrokerInv, LedgerInv
  <1>7. \A g \in Hooks : Claims(hook'[g]) =>
         /\ first'[hook'[g].call] = None => pre'[hook'[g].call] = hook'[g].args
         /\ first'[hook'[g].call] # None => first'[hook'[g].call] = hook'[g].args \/ failed'
         /\ first'[hook'[g].call] # None => intents'[hook'[g].call].consumed \/ expired' \/ closing'
    <2> SUFFICES ASSUME NEW g \in Hooks, Claims(hook'[g])
                 PROVE  /\ first'[hook'[g].call] = None => pre'[hook'[g].call] = hook'[g].args
                        /\ first'[hook'[g].call] # None => first'[hook'[g].call] = hook'[g].args \/ failed'
                        /\ first'[hook'[g].call] # None => intents'[hook'[g].call].consumed \/ expired' \/ closing'
      BY Zenon
    <2>1. CASE g = h
      BY <1>1, <1>5, <2>1, Zenon
    <2>2. CASE g # h
      <3>1. hook'[g] = hook[g] /\ Claims(hook[g]) /\ hook[g].call \in Calls \ {c}
        BY <1>3, <1>4, <2>2, Zenon
      <3>2. /\ first[hook[g].call] = None => pre[hook[g].call] = hook[g].args
            /\ first[hook[g].call] # None => first[hook[g].call] = hook[g].args \/ failed
            /\ first[hook[g].call] # None => intents[hook[g].call].consumed \/ expired \/ closing
        BY <3>1, Zenon DEF BrokerInv, LedgerInv
      <3> QED BY <1>5, <3>1, <3>2
    <2> QED BY <2>1, <2>2, Zenon
  <1>8. \A g, k \in Hooks : Claims(hook'[g]) /\ Claims(hook'[k]) /\ hook'[g].call = hook'[k].call => g = k
    BY <1>4 DEF BrokerInv, LedgerInv
  <1>9. failed' => closing'
    BY Zenon DEF BrokerInv, LedgerInv
  <1> QED BY <1>6, <1>7, <1>8, <1>9, Zenon DEF LedgerInv

LEMMA AdmitHookStep == ASSUME BrokerInv, NEW h \in Hooks, admitHook(h) PROVE BrokerInv'
  <1> DEFINE r == hook[h]
             c == r.call
             y == [r EXCEPT !.st = "admitted"]
             X(f) == Admitted(r, f)
             Why == {"failed", "lease end", "pending", "ledger"}
             Refuse == /\ \E why \in Why : One(h, Deny([y EXCEPT !.st = "over", !.refused = why]))
                       /\ hooks' = hooks \/ hooks' = hooks \cup {h}
                       /\ Fail /\ UNCHANGED <<intents, pre>>
             Admit(f) == One(h, X(f)) /\ hooks' = hooks \cup {h} /\ UNCHANGED <<closing, failed>>
  <1>1. RecOK(r) /\ r \in HookRec /\ r.st = "accepted"
    BY Zenon DEF BrokerInv, BrokerTypes, RecOK, admitHook
  <1>2. UNCHANGED <<first, queue, done, expired, shutdown>>
    BY Zenon DEF admitHook
  <1>3. c \in Calls /\ r.args \in Args /\ r.forced \in BOOLEAN
    BY <1>1, Zenon DEF RecOK, HookRec
  <1>4. y.call = c /\ y.args = r.args /\ y = X(r.forced)
    BY <1>1, Zenon DEF HookRec, Admitted
  <1>5. \/ Refuse
        \/ ~closing /\ Admit(TRUE) /\ UNCHANGED <<intents, pre>>
        \/ /\ ~closing /\ ~expired /\ intents[c] = NoIntent /\ pre[c] = NoPre /\ Admit(r.forced)
           /\ pre' = [pre EXCEPT ![c] = r.args] /\ UNCHANGED intents
        \/ /\ ~closing /\ ~expired /\ intents[c] # NoIntent /\ intents[c].args = r.args /\ ~intents[c].consumed
           /\ Admit(FALSE) /\ intents' = [intents EXCEPT ![c].consumed = TRUE] /\ UNCHANGED pre
    <2> HIDE DEF y
    <2> QED BY <1>4, Zenon DEF admitHook, One, Matches, y, Admitted
  <1>6. CASE Refuse
    <2>1. PICK why \in Why : One(h, Deny([y EXCEPT !.st = "over", !.refused = why]))
      BY <1>6, Zenon
    <2> QED BY <1>1, <1>2, <1>6, <2>1, RefuseStep, Zenon
  <1>7. \A f \in BOOLEAN : \A x : x = X(f) => /\ RecOK(x) /\ x.call = c /\ x.args = r.args /\ x.forced = f
    BY <1>1, AdmittedIs
  <1>8. /\ intents \in [Calls -> [args : Args \cup {None}, consumed : BOOLEAN]]
        /\ pre \in [Calls -> Args \cup {None}]
    BY Zenon DEF BrokerInv, BrokerTypes
  <1>9. CASE ~closing /\ Admit(TRUE) /\ UNCHANGED <<intents, pre>>
    <2> DEFINE x == X(TRUE)
    <2>1. x = X(TRUE) /\ RecOK(x) /\ x.forced = TRUE /\ One(h, x)
      BY <1>7, <1>9, Zenon
    <2> HIDE DEF x
    <2>3. hook'[h] = x /\ \A g \in Hooks \ {h} : hook'[g] = hook[g]
      BY <2>1, OneHook, Zenon
    <2>4. ~Claims(x)
      BY <2>1, Zenon DEF Claims
    <2>5. LedgerInv'
      <3>1. failed' => closing'
        BY <1>9, Zenon DEF BrokerInv, LedgerInv
      <3> QED BY <1>2, <1>9, <2>3, <2>4, <3>1, LedgerKept, Zenon
    <2> QED BY <1>1, <1>2, <1>8, <1>9, <2>1, <2>5, AdmitStep, Zenon
  <1>10. CASE /\ ~closing /\ ~expired /\ intents[c] = NoIntent /\ pre[c] = NoPre /\ Admit(r.forced)
              /\ pre' = [pre EXCEPT ![c] = r.args] /\ UNCHANGED intents
    <2> DEFINE x == X(r.forced)
    <2>1. x = X(r.forced) /\ RecOK(x) /\ x.call = c /\ x.args = r.args /\ One(h, x)
      BY <1>3, <1>7, <1>10, Zenon
    <2> HIDE DEF x
    <2>3. hook'[h] = x /\ \A g \in Hooks \ {h} : hook'[g] = hook[g]
      BY <2>1, OneHook, Zenon
    <2>4. pre' \in [Calls -> Args \cup {None}]
      BY <1>3, <1>8, <1>10, Zenon
    <2>5. LedgerInv'
      BY <1>2, <1>3, <1>10, <2>1, <2>3, LedgerPre, Zenon
    <2> QED BY <1>1, <1>2, <1>3, <1>8, <1>10, <2>1, <2>4, <2>5, AdmitStep, Zenon
  <1>11. CASE /\ ~closing /\ ~expired /\ intents[c] # NoIntent /\ intents[c].args = r.args /\ ~intents[c].consumed
              /\ Admit(FALSE) /\ intents' = [intents EXCEPT ![c].consumed = TRUE] /\ UNCHANGED pre
    <2> DEFINE x == X(FALSE)
    <2>1. x = X(FALSE) /\ RecOK(x) /\ x.call = c /\ x.args = r.args /\ One(h, x)
      BY <1>7, <1>11, Zenon
    <2> HIDE DEF x
    <2>3. hook'[h] = x /\ \A g \in Hooks \ {h} : hook'[g] = hook[g]
      BY <2>1, OneHook, Zenon
    <2>4. intents' \in [Calls -> [args : Args \cup {None}, consumed : BOOLEAN]]
      BY <1>3, <1>8, <1>11, Zenon
    <2>5. LedgerInv'
      BY <1>2, <1>3, <1>11, <2>1, <2>3, LedgerConsumed, Zenon
    <2> QED BY <1>1, <1>2, <1>8, <1>11, <2>1, <2>4, <2>5, AdmitStep, Zenon
  <1> QED BY <1>5, <1>6, <1>9, <1>10, <1>11, Zenon

\* What registerIntent does to the ledger, as seen by a hook that claims a call.
LEMMA RegisterLedger ==
    ASSUME BrokerInv, NEW c \in Calls, NEW a \in Args, registerIntent(c, a) PROVE LedgerInv'
  <1> DEFINE Quiet == UNCHANGED <<failed, closing>>
  <1>1. /\ intents \in [Calls -> [args : Args \cup {None}, consumed : BOOLEAN]]
        /\ pre \in [Calls -> Args \cup {None}] /\ first \in [Calls -> Args \cup {None}]
    BY Zenon DEF BrokerInv, BrokerTypes
  <1>2. UNCHANGED <<hook, expired>> /\ a # None
    BY ArgsAssumption, Zenon DEF registerIntent
  <1>3. /\ first'[c] = IF first[c] = None THEN a ELSE first[c]
        /\ first'[c] # None /\ \A d \in Calls \ {c} : first'[d] = first[d]
    BY <1>1, <1>2, Zenon DEF registerIntent
  <1>4. \A g \in Hooks : RecOK(hook[g])
    BY Zenon DEF BrokerInv, BrokerTypes
  <1>5. \A g \in Hooks : Claims(hook[g]) => hook[g].call \in Calls /\ hook[g].args \in Args
    BY <1>4, Zenon DEF RecOK, Claims
  <1>6. (failed => failed') /\ (closing => closing') /\ (failed' => closing')
    <2>1. Fail \/ UNCHANGED <<failed, closing>>
      BY Zenon DEF registerIntent
    <2>2. failed => closing
      BY Zenon DEF BrokerInv, LedgerInv
    <2> QED BY <2>1, <2>2 DEF Fail
  <1>7. \A d \in Calls \ {c} : pre'[d] = pre[d] /\ intents'[d] = intents[d]
    BY <1>1, Zenon DEF registerIntent
  <1>8. pre'[c] = NoPre
    BY <1>1, Zenon DEF registerIntent
  <1>9. \/ pre[c] # NoPre /\ pre[c] # a /\ failed' = TRUE /\ closing' = TRUE /\ intents'[c] = intents[c]
        \/ pre[c] = a /\ Quiet /\ (expired \/ closing) /\ intents'[c] = intents[c]
        \/ pre[c] = a /\ Quiet /\ intents'[c] = [args |-> a, consumed |-> TRUE]
        \/ pre[c] = NoPre /\ failed' = TRUE /\ closing' = TRUE /\ intents'[c] = intents[c]
        \/ pre[c] = NoPre /\ Quiet /\ expired /\ intents'[c] = intents[c]
        \/ /\ pre[c] = NoPre /\ Quiet /\ ~closing /\ ~expired /\ intents[c] = NoIntent
           /\ intents'[c] = [args |-> a, consumed |-> FALSE]
    BY <1>1, Zenon DEF registerIntent, Matches, Fail, ConsumedByHook
  <1>10. /\ \A k : [args |-> a, consumed |-> k] # NoIntent /\ [args |-> a, consumed |-> k].args = a
         /\ [args |-> a, consumed |-> TRUE].consumed = TRUE
    BY <1>2, Zenon DEF NoIntent
  <1>11. /\ pre[c] # NoPre => first[c] = None
         /\ first[c] = None => intents[c] = NoIntent
         /\ intents[c] # NoIntent => intents[c].args = first[c]
         /\ first[c] # None /\ intents[c] = NoIntent => expired \/ closing
    BY Zenon DEF BrokerInv, LedgerInv
  <1>12. \A d \in Calls :
         /\ intents'[d] # NoIntent => first'[d] # None /\ intents'[d].args = first'[d]
         /\ first'[d] # None /\ intents'[d] = NoIntent => expired' \/ closing'
         /\ pre'[d] # NoPre => first'[d] = None
    <2> SUFFICES ASSUME NEW d \in Calls
                 PROVE  /\ intents'[d] # NoIntent => first'[d] # None /\ intents'[d].args = first'[d]
                        /\ first'[d] # None /\ intents'[d] = NoIntent => expired' \/ closing'
                        /\ pre'[d] # NoPre => first'[d] = None
      BY Zenon
    <2>1. CASE d = c
      <3>1. intents'[c] # NoIntent => intents'[c].args = first'[c]
        BY <1>2, <1>3, <1>9, <1>10, <1>11, Zenon DEF NoPre
      <3>2. intents'[c] = NoIntent => expired' \/ closing'
        BY <1>2, <1>6, <1>9, <1>10, <1>11, Zenon
      <3> QED BY <1>3, <1>8, <2>1, <3>1, <3>2, Zenon
    <2>2. CASE d # c
      BY <1>2, <1>3, <1>6, <1>7, <2>2, Zenon DEF BrokerInv, LedgerInv
    <2> QED BY <2>1, <2>2, Zenon
  <1>13. \A g \in Hooks : Claims(hook'[g]) =>
         /\ first'[hook'[g].call] = None => pre'[hook'[g].call] = hook'[g].args
         /\ first'[hook'[g].call] # None => first'[hook'[g].call] = hook'[g].args \/ failed'
         /\ first'[hook'[g].call] # None => intents'[hook'[g].call].consumed \/ expired' \/ closing'
    <2> SUFFICES ASSUME NEW g \in Hooks, Claims(hook[g])
                 PROVE  /\ first'[hook[g].call] = None => pre'[hook[g].call] = hook[g].args
                        /\ first'[hook[g].call] # None => first'[hook[g].call] = hook[g].args \/ failed'
                        /\ first'[hook[g].call] # None => intents'[hook[g].call].consumed \/ expired' \/ closing'
      BY <1>2, Zenon
    <2>1. /\ hook[g].call \in Calls /\ hook[g].args \in Args
          /\ first[hook[g].call] = None => pre[hook[g].call] = hook[g].args
          /\ first[hook[g].call] # None => first[hook[g].call] = hook[g].args \/ failed
          /\ first[hook[g].call] # None => intents[hook[g].call].consumed \/ expired \/ closing
      BY <1>5, Zenon DEF BrokerInv, LedgerInv
    <2>2. CASE hook[g].call # c
      BY <1>2, <1>3, <1>6, <1>7, <2>1, <2>2, Zenon
    <2>3. CASE hook[g].call = c
      <3>1. pre[c] = NoPre => first[c] # None
        BY <2>1, <2>3, ArgsAssumption, Zenon DEF NoPre
      <3>2. first'[c] = hook[g].args \/ failed'
        BY <1>3, <1>6, <1>9, <2>1, <2>3, <3>1, Zenon DEF NoPre
      <3>3. intents'[c].consumed \/ expired' \/ closing'
        BY <1>2, <1>6, <1>9, <1>10, <1>11, <2>1, <2>3, <3>1, Zenon
      <3> QED BY <1>3, <2>3, <3>2, <3>3, Zenon
    <2> QED BY <2>2, <2>3, Zenon
  <1>14. \A g, k \in Hooks : Claims(hook'[g]) /\ Claims(hook'[k]) /\ hook'[g].call = hook'[k].call => g = k
    BY <1>2, Zenon DEF BrokerInv, LedgerInv
  <1> QED BY <1>6, <1>12, <1>13, <1>14, Zenon DEF LedgerInv

LEMMA RegisterStep ==
    ASSUME BrokerInv, NEW c \in Calls, NEW a \in Args, registerIntent(c, a) PROVE BrokerInv'
  <1>1. LedgerInv'
    BY RegisterLedger, Zenon
  <1>2. UNCHANGED <<hook, hooks, queue, done, expired, shutdown>> /\ (Fail \/ UNCHANGED <<failed, closing>>)
    BY Zenon DEF registerIntent
  <1>3. /\ intents \in [Calls -> [args : Args \cup {None}, consumed : BOOLEAN]]
        /\ pre \in [Calls -> Args \cup {None}] /\ first \in [Calls -> Args \cup {None}]
    BY DEF BrokerInv, BrokerTypes
  <1>4. intents' \in [Calls -> [args : Args \cup {None}, consumed : BOOLEAN]]
    <2>1. [args |-> a, consumed |-> TRUE] \in [args : Args \cup {None}, consumed : BOOLEAN]
      BY Zenon
    <2>2. [args |-> a, consumed |-> FALSE] \in [args : Args \cup {None}, consumed : BOOLEAN]
      BY Zenon
    <2> QED BY <1>3, <2>1, <2>2, Zenon DEF registerIntent, ConsumedByHook
  <1>5. pre' \in [Calls -> Args \cup {None}] /\ first' \in [Calls -> Args \cup {None}]
    BY <1>3, Zenon DEF registerIntent, NoPre
  <1>6. BrokerTypes'
    BY <1>2, <1>4, <1>5, Zenon DEF BrokerInv, BrokerTypes, Fail
  <1>7. QueueInv'
    BY <1>2, Zenon DEF BrokerInv, QueueInv
  <1>8. DeliveryInv'
    BY <1>2, Zenon DEF BrokerInv, DeliveryInv, Fail
  <1> QED BY <1>1, <1>6, <1>7, <1>8, Zenon DEF BrokerInv

----------------------------------------------------------------------------
\* The ends.

LEMMA FlagsStep ==
    ASSUME BrokerInv, UNCHANGED <<intents, pre, first, hook, hooks, queue>>,
           {closing', failed', done', expired'} \subseteq BOOLEAN,
           expired => expired', closing => closing', failed => failed', failed' => closing',
           done' \/ shutdown' # "idle" => closing', ~failed' /\ done' => hooks = {}
    PROVE  BrokerInv'
  <1>1. BrokerTypes'
    BY Zenon DEF BrokerInv, BrokerTypes
  <1>2. QueueInv'
    BY Zenon DEF BrokerInv, QueueInv
  <1>3. LedgerInv'
    BY LedgerKept, Zenon
  <1>4. DeliveryInv'
    BY Zenon DEF BrokerInv, DeliveryInv
  <1> QED BY <1>1, <1>2, <1>3, <1>4, Zenon DEF BrokerInv

LEMMA CloseStep ==
    ASSUME BrokerInv, hook' = [h \in Hooks |-> [hook[h] EXCEPT !.open = FALSE]],
           UNCHANGED <<intents, pre, first, hooks, queue, closing, failed, done, expired>>,
           shutdown' # "idle" => closing
    PROVE  BrokerInv'
  <1>1. \A h \in Hooks :
          /\ RecOK(hook'[h]) /\ SameClaim(hook[h], hook'[h]) /\ hook'[h].st = hook[h].st
          /\ hook'[h].once = hook[h].once /\ hook'[h].wire = hook[h].wire /\ hook'[h].told = hook[h].told
          /\ hook'[h].got = hook[h].got /\ hook'[h].decision = hook[h].decision
    <2> SUFFICES ASSUME NEW h \in Hooks
                 PROVE  /\ RecOK(hook'[h]) /\ SameClaim(hook[h], hook'[h]) /\ hook'[h].st = hook[h].st
                        /\ hook'[h].once = hook[h].once /\ hook'[h].wire = hook[h].wire
                        /\ hook'[h].told = hook[h].told
                        /\ hook'[h].got = hook[h].got /\ hook'[h].decision = hook[h].decision
      BY Zenon
    <2> DEFINE r == hook[h]
               x == [r EXCEPT !.open = FALSE]
    <2>1. RecOK(r) /\ r \in HookRec /\ hook'[h] = x
      BY Zenon DEF BrokerInv, BrokerTypes, RecOK
    <2>2. /\ x \in HookRec /\ x.st = r.st /\ x.call = r.call /\ x.args = r.args /\ x.forced = r.forced
          /\ x.once = r.once /\ x.refused = r.refused /\ x.decision = r.decision /\ x.got = r.got
          /\ x.ack = r.ack /\ x.wire = r.wire /\ x.told = r.told
      BY <2>1, Zenon DEF HookRec
    <2> HIDE DEF x
    <2>3. RecOK(x) /\ SameClaim(r, x)
      BY <2>1, <2>2 DEF RecOK, Claims, SaysAllow, SameClaim
    <2> QED BY <2>1, <2>2, <2>3, Zenon
  <1>2. BrokerTypes'
    <2>1. DOMAIN hook' = Hooks /\ hook' = [h \in Hooks |-> hook'[h]]
      BY Zenon
    <2> QED BY <1>1, <2>1, Zenon DEF BrokerInv, BrokerTypes
  <1>3. QueueInv'
    BY <1>1, QuietQueue, Zenon
  <1>4. LedgerInv'
    <2>1. failed' => closing'
      BY Zenon DEF BrokerInv, LedgerInv
    <2> QED BY <1>1, <2>1, QuietLedger, Zenon
  <1>5. DeliveryInv'
    BY <1>1 DEF BrokerInv, DeliveryInv
  <1> QED BY <1>2, <1>3, <1>4, <1>5, Zenon DEF BrokerInv

LEMMA EndsStep ==
    ASSUME BrokerInv, Fatal \/ expireAll \/ Shutdown \/ Teardown PROVE BrokerInv'
  <1>1. /\ {closing, failed, done, expired} \subseteq BOOLEAN /\ (failed => closing)
        /\ (done \/ shutdown # "idle" => closing) /\ (~failed /\ done => hooks = {})
    BY Zenon DEF BrokerInv, BrokerTypes, LedgerInv, DeliveryInv
  <1>2. CASE Fatal
    BY <1>1, <1>2, FlagsStep, Zenon DEF Fatal, Fail, ledger
  <1>3. CASE expireAll
    BY <1>1, <1>3, FlagsStep, Zenon DEF expireAll, ledger
  <1>4. CASE Shutdown
    BY <1>1, <1>4, FlagsStep, Zenon DEF Shutdown, ledger
  <1>5. CASE failDone
    BY <1>1, <1>5, FlagsStep, Zenon DEF failDone, ledger
  <1>6. CASE shutdownDrained
    BY <1>1, <1>6, FlagsStep, Zenon DEF shutdownDrained, Drained, ledger
  <1>7. CASE shutdownTimesOut
    BY <1>1, <1>7, FlagsStep, Zenon DEF shutdownTimesOut, Fail, ledger
  <1>8. CASE failClose
    BY <1>1, <1>8, CloseStep, Zenon DEF failClose, ledger
  <1>9. CASE shutdownReturns
    BY <1>1, <1>9, CloseStep, Zenon DEF shutdownReturns, ledger
  <1> QED BY <1>2, <1>3, <1>4, <1>5, <1>6, <1>7, <1>8, <1>9, Zenon DEF Teardown

LEMMA BrokerStep == BrokerInv /\ [Next]_vars => BrokerInv'
  <1> SUFFICES ASSUME BrokerInv, [Next]_vars PROVE BrokerInv'
    BY Zenon
  <1>1. CASE UNCHANGED vars
    <2>1. UNCHANGED <<intents, pre, first, hook, hooks, queue, closing, failed, done, expired, shutdown>>
      BY <1>1, Zenon DEF vars, ledger, flags
    <2>2. /\ {closing, failed, done, expired} \subseteq BOOLEAN /\ (failed => closing)
          /\ (done \/ shutdown # "idle" => closing) /\ (~failed /\ done => hooks = {})
      BY Zenon DEF BrokerInv, BrokerTypes, LedgerInv, DeliveryInv
    <2> QED BY <2>1, <2>2, FlagsStep, Zenon
  <1>2. ASSUME NEW h \in Hooks, NEW c \in Calls, NEW a \in Args, acceptRelay(h, c, a) PROVE BrokerInv'
    BY <1>2, AcceptStep, Zenon
  <1>3. ASSUME NEW h \in Hooks, admitHook(h) \/ enqueue(h) \/ hxapprove(h) PROVE BrokerInv'
    BY <1>3, AdmitHookStep, EnqueueStep, HxapproveStep, Zenon
  <1>4. ASSUME NEW h \in Hooks, Deliver(h) PROVE BrokerInv'
    BY <1>4, DecideStep, LostStep, RelayStep, ReadAckStep, Zenon DEF Deliver
  <1>5. ASSUME NEW h \in Hooks, End(h) PROVE BrokerInv'
    BY <1>5, DirectDenyStep, DeniedStep, Zenon DEF End
  <1>6. ASSUME NEW c \in Calls, NEW a \in Args, registerIntent(c, a) PROVE BrokerInv'
    BY <1>6, RegisterStep, Zenon
  <1>7. CASE deliverNext
    BY <1>7, DeliverNextStep, Zenon
  <1>8. CASE Fatal \/ expireAll \/ Shutdown \/ Teardown
    BY <1>8, EndsStep, Zenon
  <1> QED BY <1>1, <1>2, <1>3, <1>4, <1>5, <1>6, <1>7, <1>8, Zenon DEF Next

LEMMA BrokerInvHolds == BrokerInv => DecisionsHold
  <1> SUFFICES ASSUME BrokerInv PROVE DecisionsHold
    BY Zenon
  <1>1. \A h \in Hooks : Allowed(h) => Claims(hook[h])
    BY Zenon DEF Allowed, BrokerInv, BrokerTypes, RecOK, SaysAllow
  <1>2. AllowIsDue
    BY <1>1, Zenon DEF AllowIsDue, BrokerInv, LedgerInv
  <1>3. DeliveredIsTrue
    BY Zenon DEF DeliveredIsTrue, BrokerInv, DeliveryInv
  <1> QED BY <1>2, <1>3, Zenon DEF DecisionsHold

\* The decisions of a lease hold for any number of hooks, calls, arguments and
\* workers and any capacity: a tool call is allowed at most once and as the agent
\* announced it, whatever the order in which hooks and intents reach the broker
\* and whoever denies them, and the adapter hears that a decision was delivered
\* only if hxapprove acted on that decision.
THEOREM DecisionsAlwaysHold == SocketSpec => []DecisionsHold
  <1>1. SocketInit => BrokerInv
    BY BrokerInit, Zenon DEF SocketInit
  <1>2. BrokerInv /\ [SocketNext]_socketVars => BrokerInv'
    <2>1. [SocketNext]_socketVars => [Next]_vars
      BY Zenon DEF SocketNext, socketVars
    <2> QED BY <2>1, BrokerStep, Zenon
  <1> QED BY <1>1, <1>2, BrokerInvHolds, PTL DEF SocketSpec
=============================================================================
