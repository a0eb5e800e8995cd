----------------------------- MODULE RelayProofs -----------------------------
(***************************************************************************)
(* StopOnce and MessageAnswerIsTrue of RelayServer for any number of         *)
(* connections, stop ids and reasons; DecisionsMatchLog for any number of    *)
(* requests, connections and response ids.                                   *)
(***************************************************************************)
EXTENDS RelayServer, FiniteSetTheorems, TLAPS

Receipts == [status : {"none", "already_terminal", "stop_accepted"}, reason : Reasons \cup {""}]
StopCalls ==
    [op : {"stop"}, id : StopIds, why : Reasons, status : {"already_terminal", "stop_accepted", "error", "none"},
     reason : Reasons \cup {"", "STOP_CONFLICT", "UNAUTHORIZED"}, pc : {"callback", "told"}]
SendCalls ==
    [op : {"send"}, status : {"error", "message_accepted"},
     reason : {"", "SESSION_TERMINAL", "SESSION_NOT_READY", "LOG_UNAVAILABLE", "DELIVERY_FAILED"},
     pc : {"handler", "sending", "told"}]
NoCall == Session!NoCall
Written == {[ev |-> "done"]} \cup [ev : {"user"}, by : Calls]

TypeOK ==
    /\ stops \in [StopIds -> Receipts]
    /\ call \in [Calls -> {NoCall} \cup StopCalls \cup SendCalls]
    /\ stopped \in Seq(StopIds)
    /\ messages \in Seq(Written)

\* A stop whose callback is due or has run has its receipt; the callback is due
\* on one connection and has not run, or has run once.
Due(c, s) == call[c] \in StopCalls /\ call[c].id = s /\ call[c].pc = "callback"
Ran(s) == \E i \in DOMAIN stopped : stopped[i] = s
StopInv ==
    /\ \A i, j \in DOMAIN stopped : stopped[i] = stopped[j] => i = j
    /\ \A s \in StopIds : Ran(s) => stops[s] # Session!NoReceipt
    /\ \A c \in Calls, s \in StopIds : Due(c, s) => stops[s] # Session!NoReceipt /\ ~Ran(s)
    /\ \A c, d \in Calls, s \in StopIds : Due(c, s) /\ Due(d, s) => c = d

\* A message is in the log once if its connection was told so, otherwise not.
By(c) == {i \in DOMAIN messages : messages[i] = [ev |-> "user", by |-> c]}
InLog(c) ==
    /\ call[c] \in SendCalls /\ call[c].pc = "told"
    /\ call[c].status = "message_accepted" \/ call[c].reason = "DELIVERY_FAILED"
MessageInv ==
    \A c \in Calls : IF InLog(c) THEN \E i \in Nat : By(c) = {i} ELSE By(c) = {}

\* An operation that has not been answered has not been told anything.
PendingInv ==
    \A c \in Calls : call[c] \in SendCalls /\ call[c].pc # "told" => call[c].status = "error" /\ call[c].reason = ""

RelayInv == TypeOK /\ StopInv /\ MessageInv /\ PendingInv

----------------------------------------------------------------------------
\* Calls of the three kinds are told apart by their operation.
LEMMA Kinds ==
    ASSUME NEW k \in {NoCall} \cup StopCalls \cup SendCalls
    PROVE  /\ k = NoCall <=> k.op = "none"
           /\ k \in StopCalls <=> k.op = "stop"
           /\ k \in SendCalls <=> k.op = "send"
  <1>1. NoCall.op = "none"
    BY Zenon DEF NoCall, Session!NoCall
  <1>2. \A l \in StopCalls : l.op = "stop"
    BY Zenon DEF StopCalls
  <1>3. \A l \in SendCalls : l.op = "send"
    BY Zenon DEF SendCalls
  <1> QED
    BY <1>1, <1>2, <1>3, Zenon

\* The start: no call, no receipt, no message.
LEMMA RelayInvInit == ServerInit => RelayInv
  <1> SUFFICES ASSUME ServerInit PROVE RelayInv
    BY Zenon
  <1>0. /\ stops = [s \in StopIds |-> Session!NoReceipt] /\ call = [c \in Calls |-> NoCall]
        /\ stopped = <<>> /\ messages = <<>>
    BY Zenon DEF ServerInit, Session!Init, NoCall
  <1>1. TypeOK
    <2>1. Session!NoReceipt \in Receipts
      BY Zenon DEF Receipts, Session!NoReceipt
    <2>2. stopped \in Seq(StopIds) /\ messages \in Seq(Written)
      BY <1>0
    <2> QED
      BY <1>0, <2>1, <2>2, Zenon DEF TypeOK
  <1>2. \A c \in Calls : call[c] \notin StopCalls /\ call[c] \notin SendCalls
    BY <1>0, Kinds, Zenon DEF TypeOK, NoCall, Session!NoCall
  <1>3. DOMAIN stopped = {} /\ DOMAIN messages = {}
    BY <1>0
  <1> QED
    BY <1>1, <1>2, <1>3, Zenon DEF RelayInv, StopInv, Ran, Due, MessageInv, InLog, By, PendingInv

\* A stop: the receipt is made once, and only with it is a callback due.
LEMMA RelayInvStop ==
    ASSUME RelayInv, NEW c \in Calls, NEW s \in StopIds, NEW why \in Reasons, Session!handleStop(c, s, why)
    PROVE  RelayInv' /\ \A t \in StopIds : stops[t] # Session!NoReceipt => stops'[t] = stops[t]
  <1> DEFINE New == Session!NewReceipt(why)
             Reply(r) == [op |-> "stop", id |-> s, why |-> why, status |-> r.status, reason |-> r.reason,
                          pc |-> IF Session!Callback(s, r) THEN "callback" ELSE "told"]
             Error(e) == Reply([status |-> "error", reason |-> e])
  <1>1. call[c] = NoCall /\ UNCHANGED <<stopped, messages>>
    BY Zenon DEF Session!handleStop, NoCall
  <1>2. New \in Receipts /\ New # Session!NoReceipt
    BY Zenon DEF Session!NewReceipt, Receipts, Session!NoReceipt
  <1>3. PICK k \in StopCalls :
            /\ call' = [call EXCEPT ![c] = k] /\ k.id = s
            /\ \/ UNCHANGED stops /\ k.pc = "told"
               \/ stops[s] = Session!NoReceipt /\ stops' = [stops EXCEPT ![s] = New]
    <2>1. CASE ~Session!First(s)
      <3>1. \/ call' = [call EXCEPT ![c] = Reply(stops[s])]
            \/ call' = [call EXCEPT ![c] = Error("STOP_CONFLICT")]
        BY <2>1, Zenon DEF Session!handleStop
      <3>2. UNCHANGED stops
        BY <2>1, Zenon DEF Session!handleStop
      <3>3. stops[s] \in Receipts /\ stops[s] # Session!NoReceipt
        BY <2>1, Zenon DEF RelayInv, TypeOK, Session!First
      <3>4. /\ Reply(stops[s]) \in StopCalls /\ Reply(stops[s]).pc = "told" /\ Reply(stops[s]).id = s
            /\ Error("STOP_CONFLICT") \in StopCalls /\ Error("STOP_CONFLICT").pc = "told"
            /\ Error("STOP_CONFLICT").id = s
        BY <3>3, Zenon DEF StopCalls, Receipts, Session!Callback
      <3> HIDE DEF Reply, Error
      <3> QED
        BY <3>1, <3>2, <3>4, Zenon
    <2>2. CASE Session!First(s) /\ ~Session!Authorized(why)
      <3>1. call' = [call EXCEPT ![c] = Error("UNAUTHORIZED")] /\ UNCHANGED stops
        BY <2>2, Zenon DEF Session!handleStop
      <3>2. Error("UNAUTHORIZED") \in StopCalls /\ Error("UNAUTHORIZED").pc = "told" /\ Error("UNAUTHORIZED").id = s
        BY Zenon DEF StopCalls, Session!Callback
      <3> HIDE DEF Reply, Error
      <3> QED
        BY <3>1, <3>2, Zenon
    <2>3. CASE Session!First(s) /\ Session!Authorized(why)
      <3>1. call' = [call EXCEPT ![c] = Reply(New)] /\ stops' = [stops EXCEPT ![s] = New]
        BY <2>3, Zenon DEF Session!handleStop
      <3>2. Reply(New) \in StopCalls /\ Reply(New).id = s
        BY <1>2, Zenon DEF StopCalls, Receipts
      <3> HIDE DEF Reply, New
      <3> QED
        BY <2>3, <3>1, <3>2, Zenon DEF Session!First
    <2> QED
      BY <2>1, <2>2, <2>3, Zenon
  <1> HIDE DEF New, Reply, Error
  <1>4. TypeOK'
    BY <1>1, <1>2, <1>3, Zenon DEF RelayInv, TypeOK
  <1>5. \A t \in StopIds : stops[t] # Session!NoReceipt => stops'[t] = stops[t] /\ stops'[t] # Session!NoReceipt
    BY <1>3, Zenon DEF RelayInv, TypeOK
  <1>6. /\ call'[c] = k /\ \A d \in Calls \ {c} : call'[d] = call[d]
        /\ k \notin SendCalls /\ NoCall \notin SendCalls
    BY <1>3, Kinds DEF RelayInv, TypeOK, NoCall, Session!NoCall
  <1>7. StopInv'
    <2>1. k.pc = "callback" => stops[s] = Session!NoReceipt /\ stops'[s] # Session!NoReceipt
      BY <1>2, <1>3, Zenon DEF RelayInv, TypeOK
    <2>2. \A d \in Calls, t \in StopIds :
              Due(d, t)' => (d # c /\ Due(d, t)) \/ (d = c /\ t = s /\ k.pc = "callback")
      BY <1>3, <1>6, Zenon DEF Due
    <2>3. \A t \in StopIds : Ran(t)' <=> Ran(t)
      BY <1>1, Zenon DEF Ran
    <2>4. \A i, j \in DOMAIN stopped' : stopped'[i] = stopped'[j] => i = j
      BY <1>1, Zenon DEF RelayInv, StopInv
    <2>5. \A t \in StopIds : Ran(t)' => stops'[t] # Session!NoReceipt
      BY <1>5, <2>3, Zenon DEF RelayInv, StopInv
    <2>6. \A d \in Calls, t \in StopIds : Due(d, t)' => stops'[t] # Session!NoReceipt /\ ~Ran(t)'
      BY <1>5, <2>1, <2>2, <2>3, Zenon DEF RelayInv, StopInv
    <2>7. \A d, e \in Calls, t \in StopIds : Due(d, t)' /\ Due(e, t)' => d = e
      BY <2>1, <2>2, Zenon DEF RelayInv, StopInv
    <2> QED
      BY <2>4, <2>5, <2>6, <2>7, Zenon DEF StopInv
  <1>8. MessageInv'
    BY <1>1, <1>6 DEF RelayInv, MessageInv, InLog, By
  <1>9. PendingInv'
    BY <1>6, Zenon DEF RelayInv, PendingInv
  <1> QED
    BY <1>4, <1>5, <1>7, <1>8, <1>9, Zenon DEF RelayInv

\* The callback of a stop runs on the one connection on which it was due.
LEMMA RelayInvCallback ==
    ASSUME RelayInv, NEW c \in Calls, Session!runCallback(c) PROVE RelayInv' /\ UNCHANGED stops
  <1> DEFINE k == [call[c] EXCEPT !.pc = "told"]
             s == call[c].id
  <1>1. /\ call[c] # NoCall /\ call[c].pc = "callback" /\ call' = [call EXCEPT ![c] = k]
        /\ stopped' = Append(stopped, s) /\ UNCHANGED <<stops, messages>>
    BY Zenon DEF Session!runCallback, NoCall
  <1>2. call[c] \in StopCalls
    BY <1>1, Zenon DEF RelayInv, TypeOK, SendCalls
  <1>3. k \in StopCalls /\ k.pc = "told" /\ s \in StopIds
    BY <1>2, Zenon DEF StopCalls
  <1>4. call[c] \notin SendCalls /\ k \notin SendCalls
    BY <1>2, <1>3, Kinds, Zenon
  <1>5. Due(c, s)
    BY <1>1, <1>2, Zenon DEF Due
  <1> HIDE DEF k, s
  <1>6. TypeOK'
    <2>1. stopped' \in Seq(StopIds)
      BY <1>1, <1>3 DEF RelayInv, TypeOK
    <2> QED
      BY <1>1, <1>3, <2>1, Zenon DEF RelayInv, TypeOK
  <1>7. call'[c] = k /\ \A d \in Calls \ {c} : call'[d] = call[d]
    BY <1>1, Zenon DEF RelayInv, TypeOK
  <1>8. StopInv'
    <2>1. /\ DOMAIN stopped' = DOMAIN stopped \cup {Len(stopped) + 1} /\ stopped'[Len(stopped) + 1] = s
          /\ \A i \in DOMAIN stopped : stopped'[i] = stopped[i] /\ i # Len(stopped) + 1
      BY <1>1, <1>3 DEF RelayInv, TypeOK
    <2>2. \A t \in StopIds : Ran(t)' <=> Ran(t) \/ t = s
      BY <2>1, Zenon DEF Ran
    <2>3. \A d \in Calls, t \in StopIds : Due(d, t)' => d # c /\ Due(d, t)
      BY <1>3, <1>7, Zenon DEF Due
    <2>4. ~Ran(s) /\ stops[s] # Session!NoReceipt
      BY <1>3, <1>5, Zenon DEF RelayInv, StopInv
    <2>5. \A i, j \in DOMAIN stopped' : stopped'[i] = stopped'[j] => i = j
      BY <2>1, <2>4, Zenon DEF RelayInv, StopInv, Ran
    <2> QED
      BY <1>1, <1>3, <1>5, <2>2, <2>3, <2>4, <2>5 DEF RelayInv, StopInv
  <1>9. MessageInv' /\ PendingInv'
    <2>1. \A d \in Calls : (InLog(d)' <=> InLog(d)) /\ By(d)' = By(d)
      BY <1>1, <1>4, <1>7 DEF InLog, By
    <2>2. PendingInv'
      BY <1>4, <1>7, Zenon DEF RelayInv, PendingInv
    <2> QED
      BY <2>1, <2>2, Zenon DEF RelayInv, MessageInv
  <1> QED
    BY <1>1, <1>6, <1>8, <1>9, Zenon DEF RelayInv

\* A send_message that is not yet recorded, or is refused, puts nothing in the log.
LEMMA RelayInvRefuse ==
    ASSUME RelayInv, NEW c \in Calls, NEW k \in SendCalls,
           call' = [call EXCEPT ![c] = k], call[c] \notin StopCalls, ~InLog(c), k.status = "error",
           k.reason \in {"", "SESSION_TERMINAL", "SESSION_NOT_READY", "LOG_UNAVAILABLE"},
           k.pc # "told" => k.reason = "",
           UNCHANGED <<stops, stopped, messages>>
    PROVE  RelayInv'
  <1>1. call'[c] = k /\ \A d \in Calls \ {c} : call'[d] = call[d]
    BY Zenon DEF RelayInv, TypeOK
  <1>2. TypeOK'
    BY Zenon DEF RelayInv, TypeOK
  <1>3. k \notin StopCalls
    BY Kinds, Zenon
  <1>4. StopInv'
    <2>1. \A d \in Calls, t \in StopIds : Due(d, t)' => Due(d, t)
      BY <1>1, <1>3, Zenon DEF Due
    <2>2. \A t \in StopIds : Ran(t)' <=> Ran(t)
      BY Zenon DEF Ran
    <2> QED
      BY <2>1, <2>2, Zenon DEF RelayInv, StopInv
  <1>5. MessageInv'
    <2>1. \A d \in Calls : (InLog(d)' <=> InLog(d)) /\ By(d)' = By(d)
      BY <1>1, Zenon DEF InLog, By
    <2> QED
      BY <2>1, Zenon DEF RelayInv, MessageInv
  <1>6. PendingInv'
    BY <1>1, Zenon DEF RelayInv, PendingInv
  <1> QED
    BY <1>2, <1>4, <1>5, <1>6, Zenon DEF RelayInv

\* send_message: the snapshot, and the check of Send.
LEMMA RelayInvSend ==
    ASSUME RelayInv, NEW c \in Calls, Session!handleSendMessage(c) \/ Session!sendCheck(c)
    PROVE  RelayInv' /\ UNCHANGED stops
  <1>0. UNCHANGED <<stops, stopped, messages>>
    BY Zenon DEF Session!handleSendMessage, Session!sendCheck
  <1>1. CASE Session!handleSendMessage(c)
    <2> DEFINE Told(why) == [op |-> "send", status |-> "error", reason |-> why, pc |-> "told"]
               Handed == [Told("") EXCEPT !.pc = "handler"]
               Kept(k) == /\ k \in SendCalls /\ k.status = "error" /\ (k.pc # "told" => k.reason = "")
                          /\ k.reason \in {"", "SESSION_TERMINAL", "SESSION_NOT_READY"}
    <2>1. PICK k \in {Told("SESSION_TERMINAL"), Told("SESSION_NOT_READY"), Handed} : call' = [call EXCEPT ![c] = k]
      <3>1. \/ call' = [call EXCEPT ![c] = Told("SESSION_TERMINAL")]
            \/ call' = [call EXCEPT ![c] = Told("SESSION_NOT_READY")]
            \/ call' = [call EXCEPT ![c] = Handed]
        <4>1. CASE ref # 0
          BY <1>1, <4>1, Zenon DEF Session!handleSendMessage
        <4>2. CASE ref = 0 /\ "message" \notin handlers
          BY <1>1, <4>2, Zenon DEF Session!handleSendMessage
        <4>3. CASE ref = 0 /\ "message" \in handlers
          BY <1>1, <4>3, Zenon DEF Session!handleSendMessage
        <4> QED
          BY <4>1, <4>2, <4>3, Zenon
      <3> HIDE DEF Told, Handed
      <3> QED
        BY <3>1, Zenon
    <2>2. call[c] = NoCall
      BY <1>1, Zenon DEF Session!handleSendMessage, NoCall
    <2>3. Kept(k)
      <3>1. Kept(Told("SESSION_TERMINAL")) /\ Kept(Told("SESSION_NOT_READY"))
        BY Zenon DEF SendCalls
      <3>2. Told("") \in SendCalls /\ Told("").status = "error" /\ Told("").reason = ""
        BY Zenon DEF SendCalls
      <3>3. Kept(Handed)
        BY <3>2, Zenon DEF SendCalls
      <3> HIDE DEF Told, Handed, Kept
      <3> QED
        BY <3>1, <3>3, Zenon
    <2>4. call[c] \notin StopCalls /\ ~InLog(c)
      BY <2>2, Kinds, Zenon DEF RelayInv, TypeOK, InLog, NoCall, Session!NoCall
    <2> QED
      BY <1>0, <2>1, <2>3, <2>4, RelayInvRefuse, Zenon DEF Kept
  <1>2. CASE Session!sendCheck(c)
    <2> DEFINE Told == [call[c] EXCEPT !.pc = "told", !.reason = "SESSION_TERMINAL"]
               Sending == [call[c] EXCEPT !.pc = "sending"]
    <2>1. call[c] \in SendCalls /\ call[c].pc = "handler"
      BY <1>2, Zenon DEF RelayInv, TypeOK, StopCalls, Session!sendCheck, NoCall
    <2>2. call[c].status = "error" /\ call[c].reason = ""
      BY <2>1, Zenon DEF RelayInv, PendingInv
    <2>3. /\ Told \in SendCalls /\ Told.status = "error" /\ Told.reason = "SESSION_TERMINAL" /\ Told.pc = "told"
          /\ Sending \in SendCalls /\ Sending.status = "error" /\ Sending.reason = ""
      BY <2>1, <2>2, Zenon DEF SendCalls
    <2>4. call' = [call EXCEPT ![c] = Told] \/ call' = [call EXCEPT ![c] = Sending]
      BY <1>2, Zenon DEF Session!sendCheck
    <2>5. call[c] \notin StopCalls /\ ~InLog(c)
      BY <2>1, Kinds, Zenon DEF InLog
    <2> HIDE DEF Told, Sending
    <2> QED
      BY <1>0, <2>3, <2>4, <2>5, RelayInvRefuse, Zenon
  <1> QED
    BY <1>0, <1>1, <1>2, Zenon

\* Send under sendMu: the record and the answer.
LEMMA RelayInvRecord ==
    ASSUME RelayInv, NEW c \in Calls, Session!sendRecord(c)
    PROVE  RelayInv' /\ UNCHANGED stops
  <1> DEFINE Told(st, why) == [call[c] EXCEPT !.pc = "told", !.status = st, !.reason = why]
             m == [ev |-> "user", by |-> c]
  <1>1. UNCHANGED <<stops, stopped>>
    BY Zenon DEF Session!sendRecord
  <1>2. call[c] \in SendCalls /\ call[c].pc = "sending"
    BY Zenon DEF RelayInv, TypeOK, StopCalls, Session!sendRecord, NoCall
  <1>3. call[c] \notin StopCalls /\ ~InLog(c)
    BY <1>2, Kinds, Zenon DEF InLog
  <1>4. CASE call' = [call EXCEPT ![c] = Told("error", "LOG_UNAVAILABLE")] /\ UNCHANGED messages
    <2>1. /\ Told("error", "LOG_UNAVAILABLE") \in SendCalls
          /\ Told("error", "LOG_UNAVAILABLE").status = "error"
          /\ Told("error", "LOG_UNAVAILABLE").reason = "LOG_UNAVAILABLE"
          /\ Told("error", "LOG_UNAVAILABLE").pc = "told"
      BY <1>2, Zenon DEF SendCalls
    <2> HIDE DEF Told
    <2> QED
      BY <1>1, <1>3, <1>4, <2>1, RelayInvRefuse, Zenon
  <1>5. ASSUME messages' = Append(messages, m),
               \/ call' = [call EXCEPT ![c] = Told("error", "DELIVERY_FAILED")]
               \/ call' = [call EXCEPT ![c] = Told("message_accepted", "")]
        PROVE  RelayInv'
    <2>1. PICK k \in SendCalls : /\ call' = [call EXCEPT ![c] = k] /\ k.pc = "told"
                                 /\ k.status = "message_accepted" \/ k.reason = "DELIVERY_FAILED"
      <3>1. /\ Told("error", "DELIVERY_FAILED") \in SendCalls
            /\ Told("error", "DELIVERY_FAILED").reason = "DELIVERY_FAILED"
            /\ Told("error", "DELIVERY_FAILED").pc = "told"
        BY <1>2, Zenon DEF SendCalls
      <3>2. /\ Told("message_accepted", "") \in SendCalls
            /\ Told("message_accepted", "").status = "message_accepted"
            /\ Told("message_accepted", "").pc = "told"
        BY <1>2, Zenon DEF SendCalls
      <3> HIDE DEF Told
      <3> QED
        BY <1>5, <3>1, <3>2, Zenon
    <2>2. call'[c] = k /\ \A d \in Calls \ {c} : call'[d] = call[d]
      BY <2>1, Zenon DEF RelayInv, TypeOK
    <2>3. m \in Written
      BY Zenon DEF Written
    <2>4. TypeOK'
      <3>1. messages' \in Seq(Written)
        BY <1>5, <2>3 DEF RelayInv, TypeOK
      <3> QED
        BY <1>1, <2>1, <3>1, Zenon DEF RelayInv, TypeOK
    <2>5. StopInv'
      <3>1. \A d \in Calls, t \in StopIds : Due(d, t)' => Due(d, t)
        BY <2>2, Kinds, Zenon DEF Due
      <3>2. \A t \in StopIds : Ran(t)' <=> Ran(t)
        BY <1>1, Zenon DEF Ran
      <3> QED
        BY <1>1, <3>1, <3>2, Zenon DEF RelayInv, StopInv
    <2>6. MessageInv'
      <3>1. /\ DOMAIN messages' = DOMAIN messages \cup {Len(messages) + 1} /\ messages'[Len(messages) + 1] = m
            /\ Len(messages) + 1 \in Nat
            /\ \A i \in DOMAIN messages : messages'[i] = messages[i] /\ i # Len(messages) + 1
        BY <1>5 DEF RelayInv, TypeOK
      <3>2. \A d \in Calls : d # c => m # [ev |-> "user", by |-> d]
        BY Zenon
      <3> HIDE DEF m
      <3>3. \A d \in Calls \ {c} : By(d)' = By(d) /\ (InLog(d)' <=> InLog(d))
        BY <2>2, <3>1, <3>2 DEF By, InLog
      <3>4. By(c) = {}
        BY <1>3, Zenon DEF RelayInv, MessageInv
      <3>5. By(c)' = {Len(messages) + 1} /\ InLog(c)'
        BY <2>1, <2>2, <3>1, <3>4 DEF By, InLog, m
      <3> QED
        BY <3>1, <3>3, <3>5, Zenon DEF RelayInv, MessageInv
    <2>7. PendingInv'
      BY <2>1, <2>2, Zenon DEF RelayInv, PendingInv
    <2> QED
      BY <2>4, <2>5, <2>6, <2>7, Zenon DEF RelayInv
  <1> QED
    BY <1>1, <1>4, <1>5, Zenon DEF Session!sendRecord, Session!Undelivered

\* A step that touches neither the calls nor the log.
LEMMA RelayInvStutter == ASSUME RelayInv, UNCHANGED <<stops, call, stopped, messages>> PROVE RelayInv'
  <1>1. \A c \in Calls : (InLog(c)' <=> InLog(c)) /\ By(c)' = By(c) /\ \A s \in StopIds : Due(c, s)' <=> Due(c, s)
    BY Zenon DEF InLog, By, Due
  <1>2. \A s \in StopIds : Ran(s)' <=> Ran(s)
    BY Zenon DEF Ran
  <1>3. TypeOK' /\ PendingInv'
    BY Zenon DEF RelayInv, TypeOK, PendingInv
  <1> QED
    BY <1>1, <1>2, <1>3, Zenon DEF RelayInv, StopInv, MessageInv

\* Launch records the end of the subagent and no message.
LEMMA RelayInvLaunch == ASSUME RelayInv, Session!Launch PROVE RelayInv' /\ UNCHANGED stops
  <1>1. UNCHANGED <<stops, call, stopped>> /\ (messages' = Append(messages, [ev |-> "done"]) \/ UNCHANGED messages)
    BY Zenon DEF Session!Launch, Session!StartWorld, Session!SubagentDone, Session!LifecycleFails,
           Session!MarkTerminal, Session!SetHandler
  <1>2. CASE messages' = Append(messages, [ev |-> "done"])
    <2> DEFINE d == [ev |-> "done"]
    <2>1. d \in Written /\ \A c \in Calls : d # [ev |-> "user", by |-> c]
      BY Zenon DEF Written
    <2>2. messages' = Append(messages, d)
      BY <1>2, Zenon
    <2> HIDE DEF d
    <2>3. messages' \in Seq(Written)
      BY <2>1, <2>2 DEF RelayInv, TypeOK
    <2>4. /\ DOMAIN messages' = DOMAIN messages \cup {Len(messages) + 1} /\ messages'[Len(messages) + 1] = d
          /\ \A i \in DOMAIN messages : messages'[i] = messages[i]
      BY <2>2 DEF RelayInv, TypeOK
    <2>5. \A c \in Calls : (InLog(c)' <=> InLog(c)) /\ By(c)' = By(c)
      BY <1>1, <2>1, <2>4, Zenon DEF InLog, By
    <2>6. MessageInv'
      BY <2>5, Zenon DEF RelayInv, MessageInv
    <2>7. TypeOK' /\ PendingInv'
      BY <1>1, <2>3, Zenon DEF RelayInv, TypeOK, PendingInv
    <2>8. StopInv'
      <3>1. \A c \in Calls, s \in StopIds : Due(c, s)' <=> Due(c, s)
        BY <1>1, Zenon DEF Due
      <3>2. \A s \in StopIds : Ran(s)' <=> Ran(s)
        BY <1>1, Zenon DEF Ran
      <3> QED
        BY <1>1, <3>1, <3>2, Zenon DEF RelayInv, StopInv
    <2> QED
      BY <1>1, <2>6, <2>7, <2>8, Zenon DEF RelayInv
  <1> QED
    BY <1>1, <1>2, RelayInvStutter, Zenon

\* Every step of the server; a receipt stays as it is.
LEMMA RelayInvNext ==
    ASSUME RelayInv, [ServerNext]_serverVars
    PROVE  RelayInv' /\ \A s \in StopIds : stops[s] # Session!NoReceipt => stops'[s] = stops[s]
  <1>1. CASE Submit \/ Environment \/ (\E r \in Requests : ResolveStep(r)) \/ UNCHANGED serverVars
    <2>1. UNCHANGED sessionVars
      BY <1>1, Zenon DEF Submit, Environment, ResolveStep, serverVars
    <2> QED
      BY <2>1, RelayInvStutter, Zenon DEF sessionVars
  <1>2. CASE LaunchStep
    BY <1>2, RelayInvLaunch, Zenon DEF LaunchStep
  <1>3. CASE SessionCall
    <2>1. PICK c \in Calls : Session!Serve(c)
      BY <1>3, Zenon DEF SessionCall
    <2> QED
      BY <2>1, RelayInvStop, RelayInvCallback, RelayInvSend, RelayInvRecord, Zenon DEF Session!Serve
  <1> QED
    BY <1>1, <1>2, <1>3, Zenon DEF ServerNext

\* The invariant of the session's operations.
THEOREM RelayInvariant == ServerSpec => []RelayInv
  BY RelayInvInit, RelayInvNext, PTL DEF ServerSpec

\* StopOnce: however many connections stop the session under the same ids, the
\* callback runs once for each, and a receipt never changes.
THEOREM RelayStopsOnce == ServerSpec => StopOnce
  <1>1. RelayInv /\ [ServerNext]_serverVars =>
           [/\ \A i, j \in DOMAIN stopped' : stopped'[i] = stopped'[j] => i = j
            /\ \A s \in StopIds : stops[s] # Session!NoReceipt => stops'[s] = stops[s]]_serverVars
    BY RelayInvNext, Zenon DEF RelayInv, StopInv
  <1> QED
    BY <1>1, RelayInvariant, PTL DEF ServerSpec, StopOnce

\* MessageAnswerIsTrue: the answer to send_message says whether the message is in
\* the log, where it is at most once.
THEOREM RelayAnswersTruly == ServerSpec => []MessageAnswerIsTrue
  <1>1. RelayInv => MessageAnswerIsTrue
    <2> SUFFICES ASSUME RelayInv, NEW c \in Calls, Session!Answered(c, "send")
                 PROVE  Cardinality(By(c)) =
                           IF call[c].status = "message_accepted" \/ call[c].reason = "DELIVERY_FAILED" THEN 1 ELSE 0
      BY Zenon DEF MessageAnswerIsTrue, By
    <2>1. call[c] \in SendCalls /\ call[c].pc = "told"
      BY Kinds, Zenon DEF RelayInv, TypeOK, Session!Answered
    <2>2. CASE InLog(c)
      <3>1. PICK i \in Nat : By(c) = {i}
        BY <2>2, Zenon DEF RelayInv, MessageInv
      <3> QED
        BY <2>2, <3>1, FS_Singleton, Zenon DEF InLog
    <2>3. CASE ~InLog(c)
      <3>1. By(c) = {}
        BY <2>3, Zenon DEF RelayInv, MessageInv
      <3> QED
        BY <2>1, <2>3, <3>1, FS_EmptySet, Zenon DEF InLog
    <2> QED
      BY <2>2, <2>3, Zenon
  <1> QED
    BY <1>1, RelayInvariant, PTL

----------------------------------------------------------------------------
\* The decisions.

Late == {"EXPIRED", "LEASE_ENDED"}
Results ==
    [status : {"none", "decided", "expired", "error"}, allow : BOOLEAN,
     reason : {"", "no", "forced", "deadline", "RESPONSE_CONFLICT"} \cup Late, resp : Responses \cup {""}, seq : Nat]
Stages == {"none", "wait", "submit", "record", "end", "dead"}

DecisionTypes ==
    /\ chan \in [Requests -> Results] /\ decided \in [Requests -> Results] /\ decision \in [Requests -> Results]
    /\ stage \in [Requests -> Stages]
    /\ log \in Seq([req : Requests, res : Results])
    /\ msgs \in [Calls -> Messages \cup {NoMessage}]
    /\ answers \in [Calls -> Results]

\* What the relay knows of a request that waits there is what the coordinator
\* takes over, logs and reports back; an expiry is told by its reason.
Sound(d) == d.status # "error" /\ (d.status = "expired" <=> d.reason \in Late)
IndexInv ==
    /\ pending \subseteq byID
    /\ \A r \in Requests :
        /\ stage[r] = "none" => r \notin byID /\ chan[r] = NoResult
        /\ stage[r] = "wait" => r \in byID /\ (chan[r] # NoResult => chan[r] = decided[r] /\ IsDecided(r))
        /\ Sound(decided[r])
        /\ stage[r] # "end" => decided[r].seq = 0
        /\ r \in byID /\ stage[r] \in {"submit", "record"} => decision[r] = decided[r] /\ IsDecided(r)

\* A request has one decision in the log once it is logged, and none before.
At(r) == {i \in DOMAIN log : log[i].req = r}
Entry(r, i) ==
    /\ At(r) = {i} /\ log[i].res = decision[r]
    /\ r \in byID /\ stage[r] = "end" => decided[r] = [decision[r] EXCEPT !.seq = i] /\ IsDecided(r)
LogInv ==
    \A r \in Requests : IF stage[r] \in {"record", "end"} THEN \E i \in Nat : Entry(r, i) ELSE At(r) = {}

\* Who allows is an operator.
Allowed(r) ==
    \E c \in Calls : msgs[c] # NoMessage /\ msgs[c].req = r /\ msgs[c].allow /\ answers[c].status = "decided"
AllowInv == \A r \in Requests : decided[r].allow \/ decision[r].allow => Allowed(r)

DecisionInv == DecisionTypes /\ IndexInv /\ LogInv /\ AllowInv

----------------------------------------------------------------------------
\* The results the code makes.
LEMMA ResultType ==
    /\ NoResult \in Results /\ NoResult.status = "none" /\ NoResult.allow = FALSE /\ NoResult.seq = 0 /\ Sound(NoResult)
    /\ \A s \in {"decided", "expired", "error"}, a \in BOOLEAN, w \in {"", "no", "forced", "deadline", "RESPONSE_CONFLICT"} \cup Late,
          p \in Responses \cup {""} :
          /\ Result(s, a, w, p) \in Results /\ Result(s, a, w, p).status = s /\ Result(s, a, w, p).allow = a
          /\ Result(s, a, w, p).reason = w /\ Result(s, a, w, p).seq = 0
  <1>1. NoResult \in Results /\ NoResult.status = "none" /\ NoResult.allow = FALSE /\ NoResult.seq = 0
    BY Zenon DEF NoResult, Results, Late
  <1>2. Sound(NoResult)
    BY Zenon DEF NoResult, Sound, Late
  <1>3. ASSUME NEW s \in {"decided", "expired", "error"}, NEW a \in BOOLEAN,
               NEW w \in {"", "no", "forced", "deadline", "RESPONSE_CONFLICT"} \cup Late, NEW p \in Responses \cup {""}
        PROVE  /\ Result(s, a, w, p) \in Results /\ Result(s, a, w, p).status = s /\ Result(s, a, w, p).allow = a
               /\ Result(s, a, w, p).reason = w /\ Result(s, a, w, p).seq = 0
    BY Zenon DEF Result, Results
  <1> QED
    BY <1>1, <1>2, <1>3, Zenon

\* A message names a request and is none of the empty ones.
LEMMA MessageType ==
    ASSUME NEW m \in Messages
    PROVE  /\ m.req \in Requests /\ m.allow \in BOOLEAN /\ m.reason \in {"", "no"} /\ m.resp \in Responses
           /\ m # NoMessage
  <1>1. "allow" \in DOMAIN m /\ "allow" \notin DOMAIN NoMessage
    BY Zenon DEF Messages, NoMessage
  <1> QED
    BY <1>1, Zenon DEF Messages

\* The start: nothing asked, nothing decided.
LEMMA DecisionInvInit == Init => DecisionInv
  <1> SUFFICES ASSUME Init PROVE DecisionInv
    OBVIOUS
  <1>1. DecisionTypes
    <2>1. log \in Seq([req : Requests, res : Results])
      BY DEF Init
    <2>2. NoResult \in Results
      BY ResultType, Zenon
    <2> QED
      BY <2>1, <2>2, Zenon DEF Init, DecisionTypes, Stages
  <1>2. IndexInv
    BY ResultType, Zenon DEF Init, IndexInv
  <1>3. LogInv
    BY DEF Init, LogInv, At
  <1>4. AllowInv
    BY ResultType, Zenon DEF Init, AllowInv
  <1> QED
    BY <1>1, <1>2, <1>3, <1>4, Zenon DEF DecisionInv

\* A submit settles a request that is not decided, for its waiter and for
\* everybody who asks later, and changes nothing of one that is.
LEMMA DecisionInvSubmit ==
    ASSUME DecisionInv, NEW c \in Calls, NEW m \in Messages, submit(c, m) PROVE DecisionInv'
  <1> DEFINE q == m.req
             new == Result("decided", m.allow, m.reason, m.resp)
             error == Result("error", FALSE, "RESPONSE_CONFLICT", "")
  <1>1. /\ q \in Requests /\ m.allow \in BOOLEAN /\ m.reason \in {"", "no"} /\ m.resp \in Responses
        /\ m # NoMessage /\ m.req = q
    BY MessageType, Zenon
  <1>2. new \in Results /\ error \in Results /\ new.status = "decided" /\ new.seq = 0 /\ new.allow = m.allow
        /\ Sound(new)
    <2>1. new \in Results /\ error \in Results /\ new.status = "decided" /\ new.seq = 0 /\ new.allow = m.allow
          /\ new.reason = m.reason
      BY <1>1, Zenon DEF Result, Results, Late
    <2> HIDE DEF new
    <2> QED
      BY <1>1, <2>1, Zenon DEF Sound, Late
  <1>3. /\ msgs[c] = NoMessage /\ msgs' = [msgs EXCEPT ![c] = m]
        /\ UNCHANGED <<byID, log, stage, decision>>
    BY Zenon DEF submit, coordVars
  <1>4. \/ /\ IsDecided(q) /\ UNCHANGED <<decided, chan, pending>>
           /\ answers' = [answers EXCEPT ![c] = AnswerOld(decided[q], m)]
        \/ /\ ~IsDecided(q) /\ decided' = [decided EXCEPT ![q] = new] /\ pending' = pending \ {q}
           /\ chan' = IF q \in pending THEN [chan EXCEPT ![q] = new] ELSE chan
           /\ answers' = [answers EXCEPT ![c] = new]
    BY Zenon DEF submit, StillPending
  <1>5. decided[q] \in Results /\ AnswerOld(decided[q], m) \in {decided[q], error}
    BY <1>1, Zenon DEF DecisionInv, DecisionTypes, AnswerOld
  <1> HIDE DEF q, new, error
  <1>6. DecisionTypes'
    <2>1. msgs' \in [Calls -> Messages \cup {NoMessage}]
      BY <1>3, Zenon DEF DecisionInv, DecisionTypes
    <2>2. answers' \in [Calls -> Results]
      BY <1>2, <1>4, <1>5, Zenon DEF DecisionInv, DecisionTypes
    <2>3. decided' \in [Requests -> Results] /\ chan' \in [Requests -> Results]
      BY <1>2, <1>4, SMTT(20) DEF DecisionInv, DecisionTypes
    <2> QED
      BY <1>3, <2>1, <2>2, <2>3, Zenon DEF DecisionInv, DecisionTypes
  <1>7. \A r \in Requests : Allowed(r) => Allowed(r)'
    BY <1>3, <1>4, Zenon DEF DecisionInv, DecisionTypes, Allowed
  <1>8. \A r \in Requests : IsDecided(r) => decided'[r] = decided[r] /\ IsDecided(r)'
    BY <1>1, <1>4, Zenon DEF DecisionInv, DecisionTypes, IsDecided
  <1>9. \A r \in Requests : decided'[r] = decided[r] \/ (decided'[r] = new /\ r = q /\ ~IsDecided(q))
    BY <1>1, <1>4, Zenon DEF DecisionInv, DecisionTypes
  <1>10. IndexInv'
    <2>1. pending' \subseteq byID'
      BY <1>3, <1>4, Zenon DEF DecisionInv, IndexInv
    <2> SUFFICES ASSUME NEW r \in Requests
                 PROVE  /\ stage[r] = "none" => r \notin byID /\ chan'[r] = NoResult
                        /\ stage[r] = "wait" => r \in byID /\ (chan'[r] # NoResult => chan'[r] = decided'[r] /\ IsDecided(r)')
                        /\ Sound(decided'[r])
                        /\ stage[r] # "end" => decided'[r].seq = 0
                        /\ r \in byID /\ stage[r] \in {"submit", "record"} => decision[r] = decided'[r] /\ IsDecided(r)'
      BY <1>3, <2>1, Zenon DEF IndexInv
    <2>2. chan'[r] = chan[r] \/ (r = q /\ q \in pending /\ chan'[r] = new /\ decided'[r] = new)
      <3>1. CASE UNCHANGED chan
        BY <3>1, Zenon
      <3>2. CASE q \in pending /\ chan' = [chan EXCEPT ![q] = new] /\ decided' = [decided EXCEPT ![q] = new]
        <4>1. chan \in [Requests -> Results] /\ decided \in [Requests -> Results]
          BY Zenon DEF DecisionInv, DecisionTypes
        <4> QED BY <1>1, <3>2, <4>1, Zenon
      <3> QED BY <1>4, <3>1, <3>2, Zenon
    <2>3. decided'[r] = new => IsDecided(r)'
      BY <1>2, Zenon DEF IsDecided
    <2> QED
      BY <1>2, <1>8, <1>9, <2>2, <2>3, Zenon DEF DecisionInv, IndexInv
  <1>11. LogInv'
    <2>1. \A r \in Requests : At(r)' = At(r)
      BY <1>3, Zenon DEF At
    <2> QED
      BY <1>3, <1>8, <2>1, Zenon DEF DecisionInv, LogInv, Entry
  <1>12. AllowInv'
    <2>1. ~IsDecided(q) /\ new.allow => Allowed(q)'
      <3> SUFFICES ASSUME ~IsDecided(q), new.allow PROVE Allowed(q)'
        BY Zenon
      <3>1. msgs'[c] = m /\ answers'[c] = new
        BY <1>3, <1>4, Zenon DEF DecisionInv, DecisionTypes
      <3> QED
        BY <1>1, <1>2, <3>1, Zenon DEF Allowed
    <2> QED
      BY <1>3, <1>7, <1>9, <2>1, Zenon DEF DecisionInv, AllowInv
  <1> QED
    BY <1>6, <1>10, <1>11, <1>12, Zenon DEF DecisionInv

\* The coordinator settles on a decision; if the request waited at the relay, on
\* the one the relay has.
LEMMA DecisionInvSettle ==
    ASSUME DecisionInv, NEW q \in Requests, NEW d \in Results, stage[q] \in {"none", "wait"}, Settle(q, d),
           UNCHANGED <<byID, log, msgs, answers>>, pending' \subseteq byID,
           decided' \in [Requests -> Results], chan' \in [Requests -> Results],
           \A r \in Requests \ {q} : decided'[r] = decided[r] /\ chan'[r] = chan[r],
           Sound(decided'[q]), decided'[q].seq = 0,
           q \in byID => d = decided'[q] /\ d.status # "none",
           d.allow \/ decided'[q].allow => Allowed(q)
    PROVE  DecisionInv'
  <1>1. /\ decision' = [decision EXCEPT ![q] = d] /\ stage' = [stage EXCEPT ![q] = "submit"]
    BY Zenon DEF Settle
  <1>2. DecisionTypes'
    BY <1>1, Zenon DEF DecisionInv, DecisionTypes, Stages
  <1>3. /\ decision'[q] = d /\ stage'[q] = "submit"
        /\ \A r \in Requests \ {q} : decision'[r] = decision[r] /\ stage'[r] = stage[r]
    BY <1>1, Zenon DEF DecisionInv, DecisionTypes
  <1>4. \A r \in Requests \ {q} : IsDecided(r)' <=> IsDecided(r)
    BY Zenon DEF IsDecided
  <1>5. IndexInv'
    <2>1. q \in byID => decision'[q] = decided'[q] /\ IsDecided(q)'
      BY <1>3, Zenon DEF IsDecided
    <2>2. ASSUME NEW r \in Requests \ {q}
          PROVE  /\ stage'[r] = "none" => r \notin byID /\ chan'[r] = NoResult
                 /\ stage'[r] = "wait" => r \in byID /\ (chan'[r] # NoResult => chan'[r] = decided'[r] /\ IsDecided(r)')
                 /\ Sound(decided'[r])
                 /\ stage'[r] # "end" => decided'[r].seq = 0
                 /\ r \in byID /\ stage'[r] \in {"submit", "record"} => decision'[r] = decided'[r] /\ IsDecided(r)'
      <3>1. decision'[r] = decision[r] /\ stage'[r] = stage[r] /\ (IsDecided(r)' <=> IsDecided(r))
        BY <1>3, <1>4, Zenon
      <3>2. /\ stage[r] = "none" => r \notin byID /\ chan[r] = NoResult
            /\ stage[r] = "wait" => r \in byID /\ (chan[r] # NoResult => chan[r] = decided[r] /\ IsDecided(r))
            /\ Sound(decided[r])
            /\ stage[r] # "end" => decided[r].seq = 0
        BY Zenon DEF DecisionInv, IndexInv
      <3>3. r \in byID /\ stage[r] \in {"submit", "record"} => decision[r] = decided[r] /\ IsDecided(r)
        BY Zenon DEF DecisionInv, IndexInv
      <3> QED BY <3>1, <3>2, <3>3, Zenon
    <2> QED
      BY <1>3, <2>1, <2>2, Zenon DEF IndexInv
  <1>6. LogInv'
    <2>1. \A r \in Requests : At(r)' = At(r)
      BY Zenon DEF At
    <2>2. At(q) = {}
      BY Zenon DEF DecisionInv, LogInv
    <2>3. ASSUME NEW r \in Requests \ {q}, stage[r] \in {"record", "end"}
          PROVE  \E i \in Nat : Entry(r, i)'
      <3>1. PICK i \in Nat : Entry(r, i)
        BY <2>3, Zenon DEF DecisionInv, LogInv
      <3>2. Entry(r, i)'
        BY <1>3, <1>4, <2>1, <3>1, Zenon DEF Entry
      <3> QED
        BY <3>2, Zenon
    <2>4. ASSUME NEW r \in Requests \ {q}, stage[r] \notin {"record", "end"} PROVE At(r)' = {}
      BY <2>1, <2>4, Zenon DEF DecisionInv, LogInv
    <2> QED
      BY <1>3, <2>1, <2>2, <2>3, <2>4, Zenon DEF LogInv
  <1>7. AllowInv'
    <2>1. \A r \in Requests : Allowed(r)' <=> Allowed(r)
      BY Zenon DEF Allowed
    <2> QED
      BY <1>3, <2>1, Zenon DEF DecisionInv, AllowInv
  <1> QED
    BY <1>2, <1>5, <1>6, <1>7, Zenon DEF DecisionInv

\* resolve and WaitWithMeta, up to the decision.
LEMMA DecisionInvWait ==
    ASSUME DecisionInv, NEW q \in Requests, resolveForced(q) \/ waitBegin(q) \/ waitReceive(q) \/ waitExpire(q)
    PROVE  DecisionInv'
  <1>0. /\ decided[q] \in Results /\ chan \in [Requests -> Results] /\ decided \in [Requests -> Results]
        /\ Sound(decided[q]) /\ pending \subseteq byID /\ (decided[q].allow => Allowed(q))
    BY Zenon DEF DecisionInv, DecisionTypes, IndexInv, AllowInv
  <1>1. CASE resolveForced(q)
    <2>1. PICK why \in {"forced", "deadline"} : Settle(q, Result("decided", FALSE, why, ""))
      BY <1>1, Zenon DEF resolveForced
    <2>2. Result("decided", FALSE, why, "") \in Results /\ Result("decided", FALSE, why, "").allow = FALSE
      BY Zenon DEF Result, Results, Late
    <2>3. stage[q] = "none" /\ q \notin byID /\ decided[q].seq = 0
      BY <1>1, Zenon DEF resolveForced, DecisionInv, IndexInv
    <2> QED
      BY <1>0, <1>1, <2>1, <2>2, <2>3, DecisionInvSettle, Zenon DEF resolveForced
  <1>2. CASE waitBegin(q) /\ IsDecided(q)
    <2>1. Settle(q, decided[q]) /\ UNCHANGED <<pending, byID, chan, decided, log, msgs, answers>>
      BY <1>2, Zenon DEF waitBegin
    <2>2. stage[q] = "none" /\ q \notin byID /\ decided[q].seq = 0
      BY <1>2, Zenon DEF waitBegin, DecisionInv, IndexInv
    <2> QED
      BY <1>0, <2>1, <2>2, DecisionInvSettle, Zenon
  <1>3. CASE waitBegin(q) /\ ~IsDecided(q)
    <2>1. /\ pending' = pending \cup {q} /\ byID' = byID \cup {q} /\ stage' = [stage EXCEPT ![q] = "wait"]
          /\ UNCHANGED <<decision, chan, decided, log, msgs, answers>> /\ stage[q] = "none"
      BY <1>3, Zenon DEF waitBegin
    <2>2. DecisionTypes'
      BY <2>1, Zenon DEF DecisionInv, DecisionTypes, Stages
    <2>3. stage'[q] = "wait" /\ \A r \in Requests \ {q} : stage'[r] = stage[r]
      BY <2>1, Zenon DEF DecisionInv, DecisionTypes
    <2>4. IndexInv'
      BY <2>1, <2>3, Zenon DEF DecisionInv, IndexInv, IsDecided
    <2>5. LogInv'
      <3>1. \A r \in Requests : At(r)' = At(r)
        BY <2>1, Zenon DEF At
      <3>2. \A r \in Requests \ {q} : r \in byID' <=> r \in byID
        BY <2>1, Zenon
      <3>3. ASSUME NEW r \in Requests \ {q}, NEW i \in Nat, Entry(r, i) PROVE Entry(r, i)'
        BY <2>1, <2>3, <3>1, <3>2, <3>3, Zenon DEF Entry, IsDecided
      <3>4. \A r \in Requests \ {q} : stage[r] \in {"record", "end"} => \E i \in Nat : Entry(r, i)'
        BY <3>3, Zenon DEF DecisionInv, LogInv
      <3>5. \A r \in Requests : stage[r] \notin {"record", "end"} => At(r)' = {}
        BY <3>1, Zenon DEF DecisionInv, LogInv
      <3> QED
        BY <2>1, <2>3, <3>4, <3>5, Zenon DEF LogInv
    <2>6. AllowInv'
      BY <2>1, Zenon DEF DecisionInv, AllowInv, Allowed
    <2> QED
      BY <2>2, <2>4, <2>5, <2>6, Zenon DEF DecisionInv
  <1>4. CASE waitReceive(q)
    <2>1. stage[q] = "wait" /\ chan[q] # NoResult /\ Settle(q, chan[q]) /\ chan' = [chan EXCEPT ![q] = NoResult]
          /\ UNCHANGED <<pending, decided, byID, log, msgs, answers>>
      BY <1>4, Zenon DEF waitReceive
    <2>2. q \in byID /\ chan[q] = decided[q] /\ decided[q].status # "none" /\ decided[q].seq = 0
      BY <2>1, Zenon DEF DecisionInv, IndexInv, IsDecided
    <2>3. chan' \in [Requests -> Results] /\ \A r \in Requests \ {q} : chan'[r] = chan[r]
      <3>1. NoResult \in Results
        BY ResultType, Zenon
      <3> QED
        BY <1>0, <2>1, <3>1, Zenon
    <2> QED
      BY <1>0, <2>1, <2>2, <2>3, DecisionInvSettle, Zenon
  <1>5. CASE waitExpire(q)
    <2>1. PICK why \in Late : decided' = [decided EXCEPT ![q] = Expired(why)] /\ Settle(q, Expired(why))
      BY <1>5, Zenon DEF waitExpire, Late
    <2>2. /\ Expired(why) \in Results /\ Expired(why).allow = FALSE /\ Expired(why).seq = 0
          /\ Expired(why).status = "expired" /\ Expired(why).reason = why
      BY Zenon DEF Expired, Result, Results
    <2>3. Sound(Expired(why))
      BY <2>2, Zenon DEF Sound
    <2>4. /\ stage[q] = "wait" /\ UNCHANGED <<chan, byID, log, msgs, answers>> /\ pending' = pending \ {q}
      BY <1>5, Zenon DEF waitExpire
    <2>5. /\ decided' \in [Requests -> Results] /\ decided'[q] = Expired(why)
          /\ \A r \in Requests \ {q} : decided'[r] = decided[r]
      BY <1>0, <2>1, <2>2, Zenon
    <2> QED
      BY <1>0, <2>1, <2>2, <2>3, <2>4, <2>5, DecisionInvSettle, Zenon
  <1> QED
    BY <1>1, <1>2, <1>3, <1>4, <1>5, Zenon

\* The decision becomes durable: the one entry of its request.
LEMMA DecisionInvCommit == ASSUME DecisionInv, NEW q \in Requests, commit(q) PROVE DecisionInv'
  <1> DEFINE e == [req |-> q, res |-> decision[q]]
  <1>1. /\ stage[q] = "submit" /\ UNCHANGED <<pending, chan, decided, byID, msgs, answers, decision>>
        /\ \/ log' = Append(log, e) /\ stage' = [stage EXCEPT ![q] = "record"]
           \/ UNCHANGED log /\ stage' = [stage EXCEPT ![q] = "dead"]
    BY Zenon DEF commit
  <1>2. e \in [req : Requests, res : Results] /\ e.req = q /\ e.res = decision[q]
    BY Zenon DEF DecisionInv, DecisionTypes
  <1> HIDE DEF e
  <1>3. DecisionTypes'
    <2>1. log' \in Seq([req : Requests, res : Results])
      <3> DEFINE E == [req : Requests, res : Results]
      <3>1. log \in Seq(E) /\ e \in E
        BY <1>2, Zenon DEF DecisionInv, DecisionTypes
      <3> HIDE DEF E
      <3>2. log' \in Seq(E)
        BY <1>1, <3>1
      <3> QED
        BY <3>2, Zenon DEF E
    <2>2. stage' \in [Requests -> Stages]
      BY <1>1, Zenon DEF DecisionInv, DecisionTypes, Stages
    <2> QED
      BY <1>1, <2>1, <2>2, Zenon DEF DecisionInv, DecisionTypes
  <1>4. stage'[q] \in {"record", "dead"} /\ \A r \in Requests \ {q} : stage'[r] = stage[r]
    BY <1>1, Zenon DEF DecisionInv, DecisionTypes
  <1>5. IndexInv'
    BY <1>1, <1>4, Zenon DEF DecisionInv, IndexInv, IsDecided
  <1>6. AllowInv'
    BY <1>1, Zenon DEF DecisionInv, AllowInv, Allowed
  <1>7. At(q) = {}
    BY <1>1, Zenon DEF DecisionInv, LogInv
  <1>8. LogInv'
    <2>1. CASE UNCHANGED log /\ stage'[q] = "dead"
      <3>1. \A r \in Requests : At(r)' = At(r)
        BY <2>1, Zenon DEF At
      <3> QED
        <4>1. \A r \in Requests, i \in Nat : Entry(r, i) /\ r # q => Entry(r, i)'
          BY <1>1, <1>4, <2>1, <3>1, Zenon DEF Entry, IsDecided
        <4>2. LogInv /\ At(q)' = {}
          BY <1>7, <3>1, Zenon DEF DecisionInv
        <4> QED BY <1>4, <2>1, <3>1, <4>1, <4>2, Zenon DEF LogInv
    <2>2. CASE log' = Append(log, e) /\ stage'[q] = "record"
      <3>1. /\ DOMAIN log' = DOMAIN log \cup {Len(log) + 1} /\ log'[Len(log) + 1] = e /\ Len(log) + 1 \in Nat
            /\ \A i \in DOMAIN log : log'[i] = log[i]
        BY <2>2, SMTT(20) DEF DecisionInv, DecisionTypes
      <3>2. \A r \in Requests \ {q} : At(r)' = At(r)
        BY <1>2, <3>1, Zenon DEF At
      <3>3. At(q)' = {Len(log) + 1}
        BY <1>2, <1>7, <3>1, SMTT(20) DEF At
      <3>4. PICK n \in Nat : n = Len(log) + 1
        BY <3>1, Zenon
      <3>5. ASSUME NEW r \in Requests \ {q}, NEW i \in Nat, Entry(r, i) PROVE Entry(r, i)'
        <4>1. i \in DOMAIN log
          BY <3>5, Zenon DEF Entry, At
        <4> QED
          BY <1>1, <1>4, <3>1, <3>2, <3>5, <4>1, Zenon DEF Entry, IsDecided
      <3>6. ASSUME NEW r \in Requests \ {q}, stage[r] \in {"record", "end"} PROVE \E i \in Nat : Entry(r, i)'
        BY <3>5, <3>6, Zenon DEF DecisionInv, LogInv
      <3>7. ASSUME NEW r \in Requests \ {q}, stage[r] \notin {"record", "end"} PROVE At(r)' = {}
        BY <3>2, <3>7, Zenon DEF DecisionInv, LogInv
      <3>8. Entry(q, n)'
        BY <1>1, <1>2, <2>2, <3>1, <3>3, <3>4, Zenon DEF Entry
      <3> QED
        BY <1>4, <2>2, <3>6, <3>7, <3>8, Zenon DEF LogInv
    <2> QED
      BY <1>1, <2>1, <2>2, Zenon DEF DecisionInv, DecisionTypes
  <1> QED
    BY <1>3, <1>5, <1>6, <1>8, Zenon DEF DecisionInv

\* RecordApprovalResult adds the sequence number to what the relay has anyway.
LEMMA DecisionInvRecord ==
    ASSUME DecisionInv, NEW q \in Requests, RecordApprovalResult(q) PROVE DecisionInv'
  <1>1. /\ stage[q] = "record" /\ stage' = [stage EXCEPT ![q] = "end"]
        /\ UNCHANGED <<pending, chan, byID, log, msgs, answers, decision>>
    BY Zenon DEF RecordApprovalResult
  <1>2. PICK i \in Nat : Entry(q, i)
    BY <1>1, Zenon DEF DecisionInv, LogInv
  <1>3. LoggedSeq(q) = i
    BY <1>2, Zenon DEF LoggedSeq, Entry, At
  <1>4. decided \in [Requests -> Results] /\ decided[q] \in Results /\ Sound(decided[q])
    BY Zenon DEF DecisionInv, DecisionTypes, IndexInv
  <1> DEFINE new == [decided[q] EXCEPT !.seq = i]
  <1>5. q \in byID => decision[q] = decided[q] /\ IsDecided(q)
    BY <1>1, Zenon DEF DecisionInv, IndexInv
  <1>6. q \in byID => Recorded(decided[q], decision[q]) = decided[q]
    <2>1. SUFFICES ASSUME q \in byID, decided[q].status # "expired"
                   PROVE  [decided[q] EXCEPT !.status = "decided", !.allow = decision[q].allow,
                                             !.reason = decision[q].reason] = decided[q]
      BY Zenon DEF Recorded
    <2>2. decided[q].status = "decided" /\ decision[q] = decided[q]
      BY <1>4, <1>5, <2>1, Zenon DEF Sound, Results, IsDecided
    <2> QED
      BY <1>4, <2>2, Zenon DEF Results
  <1>7. decided' = IF q \in byID THEN [decided EXCEPT ![q] = new] ELSE decided
    BY <1>3, <1>6, Zenon DEF RecordApprovalResult
  <1>8. /\ new \in Results /\ new.status = decided[q].status /\ new.reason = decided[q].reason
        /\ new.allow = decided[q].allow
    BY <1>4, Zenon DEF Results
  <1>9. q \in byID => new = [decision[q] EXCEPT !.seq = i]
    BY <1>5, Zenon
  <1> HIDE DEF new
  <1>10. /\ stage'[q] = "end" /\ \A r \in Requests \ {q} : stage'[r] = stage[r] /\ decided'[r] = decided[r]
         /\ decided'[q] = IF q \in byID THEN new ELSE decided[q]
    BY <1>1, <1>4, <1>7, Zenon DEF DecisionInv, DecisionTypes
  <1>11. DecisionTypes'
    <2>1. decided' \in [Requests -> Results]
      BY <1>4, <1>7, <1>8, Zenon
    <2> QED
      BY <1>1, <2>1, Zenon DEF DecisionInv, DecisionTypes, Stages
  <1>12. \A r \in Requests : Sound(decided'[r]) /\ (IsDecided(r)' <=> IsDecided(r)) /\ decided'[r].allow = decided[r].allow
    BY <1>8, <1>10, SMTT(20) DEF DecisionInv, IndexInv, Sound, IsDecided
  <1>13. IndexInv'
    <2>1. pending' \subseteq byID'
      BY <1>1, Zenon DEF DecisionInv, IndexInv
    <2>2. ASSUME NEW r \in Requests \ {q}
          PROVE  /\ stage'[r] = "none" => r \notin byID /\ chan[r] = NoResult
                 /\ stage'[r] = "wait" => r \in byID /\ (chan[r] # NoResult => chan[r] = decided'[r] /\ IsDecided(r)')
                 /\ stage'[r] # "end" => decided'[r].seq = 0
                 /\ r \in byID /\ stage'[r] \in {"submit", "record"} => decision[r] = decided'[r] /\ IsDecided(r)'
      <3>1. stage'[r] = stage[r] /\ decided'[r] = decided[r] /\ (IsDecided(r)' <=> IsDecided(r))
        BY <1>10, <1>12, Zenon
      <3> QED BY <3>1, Zenon DEF DecisionInv, IndexInv
    <2>3. byID' = byID /\ chan' = chan /\ decision' = decision
      BY <1>1, Zenon
    <2> QED BY <1>10, <1>12, <2>1, <2>2, <2>3, Zenon DEF IndexInv
  <1>14. LogInv'
    <2>1. \A r \in Requests : At(r)' = At(r)
      BY <1>1, Zenon DEF At
    <2>2. Entry(q, i)'
      BY <1>1, <1>2, <1>5, <1>9, <1>10, <1>12, <2>1, Zenon DEF Entry
    <2>3. ASSUME NEW r \in Requests \ {q}, NEW j \in Nat, Entry(r, j) PROVE Entry(r, j)'
      BY <1>1, <1>10, <1>12, <2>1, <2>3, Zenon DEF Entry
    <2> QED
      BY <1>10, <2>1, <2>2, <2>3, Zenon DEF DecisionInv, LogInv
  <1>15. AllowInv'
    BY <1>1, <1>12, Zenon DEF DecisionInv, AllowInv, Allowed
  <1> QED
    BY <1>11, <1>13, <1>14, <1>15, Zenon DEF DecisionInv

\* A step that leaves the relay and the coordinator alone, the end of the lease
\* and the failure of the log among them.
LEMMA DecisionInvStutter ==
    ASSUME DecisionInv, UNCHANGED <<pending, chan, decided, byID, log, msgs, answers, stage, decision>>
    PROVE  DecisionInv'
  <1>1. \A r \in Requests : At(r)' = At(r) /\ (IsDecided(r)' <=> IsDecided(r)) /\ (Allowed(r)' <=> Allowed(r))
    BY Zenon DEF At, IsDecided, Allowed
  <1> QED
    BY <1>1, SMTT(20) DEF DecisionInv, DecisionTypes, IndexInv, LogInv, Entry, AllowInv

\* The invariant of the approval decisions.
THEOREM DecisionInvariant == ServerSpec => []DecisionInv
  <1>1. ServerInit => DecisionInv
    BY DecisionInvInit, Zenon DEF ServerInit
  <1>2. ASSUME DecisionInv, [ServerNext]_serverVars PROVE DecisionInv'
    <2>1. CASE Submit
      BY <1>2, <2>1, DecisionInvSubmit, Zenon DEF Submit
    <2>2. ASSUME NEW r \in Requests, ResolveStep(r) PROVE DecisionInv'
      BY <1>2, <2>2, DecisionInvWait, DecisionInvCommit, DecisionInvRecord, Zenon DEF ResolveStep, Resolve
    <2>3. CASE Environment \/ SessionCall \/ LaunchStep \/ UNCHANGED serverVars
      <3>1. UNCHANGED <<pending, chan, decided, byID, log, msgs, answers, stage, decision>>
        BY <2>3, Zenon DEF Environment, LeaseEnds, LogFails, SessionCall, LaunchStep, serverVars, vars, coordVars
      <3> QED
        BY <1>2, <3>1, DecisionInvStutter, Zenon
    <2> QED
      BY <1>2, <2>1, <2>2, <2>3, Zenon DEF ServerNext
  <1> QED
    BY <1>1, <1>2, PTL DEF ServerSpec

\* DecisionsMatchLog: in whatever order operators, expiries, the end of the lease
\* and the failure of the log meet, an allow in the log is an operator's, and what
\* a query repeats of a request that waited is what Rebuild finds in the log.
THEOREM RelayedDecisionsMatchLog == ServerSpec => []DecisionsMatchLog
  <1>1. ASSUME DecisionInv PROVE DecisionsMatchLog
    <2>1. AllowWasSubmitted
      <3> SUFFICES ASSUME NEW n \in DOMAIN log, log[n].res.allow PROVE Allowed(log[n].req)
        BY Zenon DEF AllowWasSubmitted, Allowed
      <3>0. log[n] \in [req : Requests, res : Results]
        <4> DEFINE E == [req : Requests, res : Results]
        <4>1. log \in Seq(E)
          BY <1>1, Zenon DEF DecisionInv, DecisionTypes
        <4> HIDE DEF E
        <4>2. log[n] \in E
          BY <4>1
        <4> QED
          BY <4>2, Zenon DEF E
      <3>1. log[n].req \in Requests /\ n \in At(log[n].req)
        BY <3>0, Zenon DEF At
      <3>2. PICK i \in Nat : Entry(log[n].req, i)
        BY <1>1, <3>1, Zenon DEF DecisionInv, LogInv
      <3>3. decision[log[n].req].allow
        BY <3>1, <3>2, Zenon DEF Entry
      <3> QED
        BY <1>1, <3>1, <3>3, Zenon DEF DecisionInv, AllowInv
    <2>2. ASSUME NEW r \in Requests, r \in byID, stage[r] = "end" PROVE decided[r] = Rebuild(r)
      <3>1. PICK i \in Nat : Entry(r, i)
        BY <1>1, <2>2, Zenon DEF DecisionInv, LogInv
      <3>2. At(r) = {i} /\ log[i].res = decision[r] /\ decided[r] = [decision[r] EXCEPT !.seq = i] /\ IsDecided(r)
        BY <2>2, <3>1, Zenon DEF Entry
      <3>3. (CHOOSE j \in At(r) : \A k \in At(r) : k <= j) = i
        BY <3>2
      <3>4. Rebuild(r) = [status |-> IF decision[r].reason \in Late THEN "expired" ELSE "decided",
                          allow |-> decision[r].allow, reason |-> decision[r].reason,
                          resp |-> decision[r].resp, seq |-> i]
        BY <3>2, <3>3, Zenon DEF Rebuild, At, Late
      <3>5. decision[r] \in Results /\ decided[r] \in Results /\ Sound(decided[r])
        BY <1>1, Zenon DEF DecisionInv, DecisionTypes, IndexInv
      <3>6. /\ decided[r].status = IF decision[r].reason \in Late THEN "expired" ELSE "decided"
            /\ decided[r].allow = decision[r].allow /\ decided[r].reason = decision[r].reason
            /\ decided[r].resp = decision[r].resp /\ decided[r].seq = i
        BY <3>2, <3>5, Zenon DEF Results, Sound, IsDecided
      <3> QED
        BY <3>4, <3>5, <3>6, Zenon DEF Results
    <2> QED
      BY <2>1, <2>2, Zenon DEF DecisionsMatchLog, RelayedMatchesLog
  <1> QED
    BY <1>1, DecisionInvariant, PTL
=============================================================================
