--------------------------- MODULE LogWriterProofs ---------------------------
(***************************************************************************)
(* Proofs about the log writer, for any number of calls, any queue         *)
(* capacity, any batch length and any number of crashes.                   *)
(***************************************************************************)
EXTENDS LogWriter, TLAPS

Size(c) == IF op[c].kind = "batch" THEN BatchLen ELSE 1

\* Where the loop's nextSeq stands relative to the store.
SeqInv ==
    /\ loopPc # "down" /\ ~terminal /\ ~committed => nextSeq = Len(log) + 1
    /\ committed => /\ cur # None /\ ~terminal
                    /\ nextSeq + Size(cur) = Len(log) + 1
                    /\ \A i \in 1 .. Len(log) : log[i].call = cur <=> i >= nextSeq
                    /\ op[cur].kind = "batch" => nextSeq = 1

\* Who is where: an admitted call is in the queue, in process() or answered.
CallInv ==
    /\ cur # None => /\ loopPc \in {"run", "drain"}
                     /\ pc[cur] = "queued" /\ ack[cur] = NoAnswer
    /\ loopPc \in {"run", "drain"} =>
         \A i \in 1 .. Len(queue) :
            /\ pc[queue[i]] = "queued" /\ ack[queue[i]] = NoAnswer
            /\ queue[i] # cur
            /\ \A j \in 1 .. Len(queue) : queue[j] = queue[i] => j = i
    /\ loopPc = "down" => /\ queue = <<>>
                          /\ \A c \in Calls : pc[c] \in {"idle", "done"}
    /\ \A c \in Calls : pc[c] \in {"idle", "admit"} => ack[c] = NoAnswer
    /\ \A c \in Calls : pc[c] # "done" => result[c] = NoAnswer

\* A call that has not been answered, or was answered with a definite error,
\* has nothing in the log; an answer ok names the last record of the call.
AnswerInv ==
    \A c \in Calls :
        /\ pc[c] # "done" /\ ack[c] = NoAnswer /\ ~(committed /\ c = cur) => ~Written(c)
        /\ ack[c].st \in Definite => ~Written(c)
        /\ ack[c].st = "ok" =>
             /\ ack[c].seq \in 1 .. Len(log)
             /\ log[ack[c].seq].call = c
             /\ \A i \in 1 .. Len(log) : log[i].call = c => i <= ack[c].seq

IInv ==
    /\ TypeOK /\ SeqContiguous /\ SeqInv /\ CallInv /\ AnswerInv
    /\ AckedIsDurable /\ RefusedIsAbsent /\ WrittenOnce

----------------------------------------------------------------------------

\* A function on an initial segment is a sequence; what Append leaves and adds.
LEMMA SegmentIsSequence ==
    ASSUME NEW S, NEW n \in Nat, NEW f \in [1 .. n -> S]
    PROVE  f \in Seq(S) /\ Len(f) = n
  OBVIOUS

LEMMA Appended ==
    ASSUME NEW S, NEW s \in Seq(S), NEW e \in S
    PROVE  /\ Append(s, e) \in Seq(S) /\ Len(Append(s, e)) = Len(s) + 1
           /\ \A i \in 1 .. Len(s) : Append(s, e)[i] = s[i]
           /\ Append(s, e)[Len(s) + 1] = e
  OBVIOUS

\* Two sequences of one length with the same elements are one.
LEMMA SameSequence ==
    ASSUME NEW S, NEW s \in Seq(S), NEW t \in Seq(S), Len(s) = Len(t), \A i \in 1 .. Len(s) : s[i] = t[i]
    PROVE  s = t
  <1>1. s \in [1 .. Len(s) -> S] /\ t \in [1 .. Len(s) -> S]
    OBVIOUS
  <1> QED BY <1>1

LEMMA LogEntry ==
    ASSUME TypeOK
    PROVE  Len(log) \in Nat /\ \A i \in 1 .. Len(log) : log[i].call \in Calls
<1>1. log \in Seq(Record)
  BY Zenon DEF TypeOK
<1>2. \A i \in 1 .. Len(log) : log[i] \in Record
  BY <1>1
<1> QED BY <1>1, <1>2 DEF Record

\* What one successful Store.Append or Store.AppendBatch does to the log.
LEMMA WriteLog ==
    ASSUME TypeOK, SeqInv, Writable, loopPc # "down", log' = log \o Prepared
    PROVE  /\ log' \in Seq(Record)
           /\ Len(log') = Len(log) + Size(cur)
           /\ \A i \in 1 .. Len(log) : log'[i] = log[i]
           /\ \A i \in Len(log) + 1 .. Len(log') :
                 log'[i].call = cur /\ log'[i].seq = i
<1>1. log \in Seq(Record) /\ cur \in Calls /\ nextSeq = Len(log) + 1 /\ op[cur] \in Ops
  BY Zenon DEF TypeOK, Record, SeqInv, Writable
<1>2. CASE op[cur].kind = "batch"
  <2>1. Len(log) = 0
    BY <1>1, <1>2 DEF Writable
  <2>2. Prepared = [i \in 1 .. BatchLen |-> [call |-> cur, seq |-> i]]
    BY <1>2, Zenon DEF Prepared
  <2>3. /\ Prepared \in Seq(Record)
        /\ Len(Prepared) = BatchLen
        /\ \A i \in 1 .. BatchLen : Prepared[i] = [call |-> cur, seq |-> i]
    <3>1. \A i \in 1 .. BatchLen : [call |-> cur, seq |-> i] \in Record
      BY <1>1, BatchAssumption DEF Record
    <3>2. Prepared \in [1 .. BatchLen -> Record]
      BY <2>2, <3>1, Zenon
    <3>3. Prepared \in Seq(Record)
      BY <3>2, BatchAssumption
    <3>4. DOMAIN Prepared = 1 .. Len(Prepared) /\ Len(Prepared) \in Nat
      BY <3>3
    <3>5. Len(Prepared) = BatchLen
      BY <3>4, <2>2, BatchAssumption
    <3> QED BY <3>3, <3>5, <2>2, Zenon
  <2>4. /\ log \o Prepared \in Seq(Record)
        /\ Len(log \o Prepared) = Len(log) + Len(Prepared)
        /\ \A i \in 1 .. Len(log) + Len(Prepared) : (log \o Prepared)[i] =
              IF i <= Len(log) THEN log[i] ELSE Prepared[i - Len(log)]
    BY <1>1, <2>3
  <2> QED BY <1>2, <2>1, <2>3, <2>4, BatchAssumption DEF Size
<1>3. CASE op[cur].kind # "batch"
  <2>1. Prepared = <<[call |-> cur, seq |-> nextSeq]>>
    BY <1>3, Zenon DEF Prepared
  <2>2. Prepared \in Seq(Record) /\ Len(Prepared) = 1
        /\ Prepared[1] = [call |-> cur, seq |-> nextSeq]
    BY <1>1, <2>1 DEF Record, TypeOK
  <2>3. Prepared \in Seq(Record) /\ log \in Seq(Record)
    BY <1>1, <2>2, Zenon DEF TypeOK
  <2>4. /\ log \o Prepared \in Seq(Record)
        /\ Len(log \o Prepared) = Len(log) + Len(Prepared)
        /\ \A i \in 1 .. Len(log) + Len(Prepared) : (log \o Prepared)[i] =
              IF i <= Len(log) THEN log[i] ELSE Prepared[i - Len(log)]
    BY <2>3
  <2> QED BY <1>1, <1>3, <2>2, <2>4 DEF Size
<1> QED BY <1>2, <1>3, Zenon

LEMMA InitInv == Init => IInv
<1> SUFFICES ASSUME Init PROVE IInv
  BY Zenon
<1>1. Len(log) = 0 /\ log \in Seq(Record) /\ queue \in Seq(Calls) /\ Len(queue) = 0
  <2>1. log = <<>> /\ queue = <<>>
    BY Zenon DEF Init
  <2>2. <<>> \in Seq(Record) /\ Len(<<>>) = 0
    OBVIOUS
  <2>3. <<>> \in Seq(Calls)
    OBVIOUS
  <2> QED BY <2>1, <2>2, <2>3, Zenon
<1>2. TypeOK
  <2>1. NoAnswer \in Answers /\ [kind |-> "submit", valid |-> TRUE] \in Ops
    BY Zenon DEF Answers, Ops
  <2>2. pc \in [Calls -> {"idle", "admit", "queued", "done"}] /\ op \in [Calls -> Ops]
    BY <2>1, Zenon DEF Init
  <2>3. ack \in [Calls -> Answers] /\ result \in [Calls -> Answers]
    BY <2>1, Zenon DEF Init
  <2>4. nextSeq \in Nat \ {0} /\ crashes \in 0 .. MaxCrashes
    BY CrashAssumption DEF Init
  <2> QED BY <1>1, <2>2, <2>3, <2>4, Zenon DEF Init, TypeOK
<1>3. SeqInv /\ SeqContiguous /\ CallInv /\ WrittenOnce
  BY <1>1 DEF Init, SeqInv, SeqContiguous, CallInv, WrittenOnce
<1>4. AnswerInv /\ AckedIsDurable /\ RefusedIsAbsent
  BY <1>1 DEF Init, AnswerInv, AckedIsDurable, RefusedIsAbsent, Written, NoAnswer, Definite
<1> QED BY <1>2, <1>3, <1>4, Zenon DEF IInv

\* The caller side: nothing of the store or the loop moves.
LEMMA CallerStep ==
    ASSUME IInv, NEW c \in Calls,
           (\E o \in Ops : Submit(c, o)) \/ AdmitClosed(c) \/ AdmitCancelled(c) \/ awaitAck(c)
    PROVE  IInv'
<1> USE DEF IInv
<1>1. UNCHANGED <<log, queue, closing, terminal, ack, crashes, nextSeq, loopPc, cur, committed>>
  BY Zenon DEF Submit, AdmitClosed, AdmitCancelled, awaitAck, loopVars
<1>2. /\ \A d \in Calls \ {c} : pc'[d] = pc[d] /\ result'[d] = result[d] /\ op'[d] = op[d]
      /\ pc[c] # "idle" => op'[c] = op[c]
  BY DEF Submit, AdmitClosed, AdmitCancelled, awaitAck, Finish, TypeOK
<1>3. \/ pc[c] = "idle" /\ pc'[c] = "admit" /\ result'[c] = result[c] /\ loopPc # "down"
      \/ pc[c] = "queued" /\ pc'[c] = "done" /\ ack[c] # NoAnswer /\ result'[c] = ack[c]
      \/ /\ pc[c] # "done" /\ pc'[c] = "done" /\ ack[c] = NoAnswer
         /\ pc[c] = "queued" => drained
         /\ result'[c] \in {Err("closed"), Err("cancelled"), Err("terminal")}
  BY DEF Submit, AdmitClosed, AdmitCancelled, awaitAck, Finish, TypeOK, CallInv
<1>4. /\ pc' \in [Calls -> {"idle", "admit", "queued", "done"}]
      /\ op' \in [Calls -> Ops]
      /\ result' \in [Calls -> Answers]
  <2>1. \A e \in {"closed", "cancelled", "terminal"} : Err(e) \in Answers
    BY Zenon DEF Answers, Definite
  <2>2. CASE \E o \in Ops : Submit(c, o)
    <3>1. PICK o \in Ops : Submit(c, o)
      BY <2>2, Zenon
    <3>2. op' \in [Calls -> Ops]
      BY <3>1, Zenon DEF Submit, TypeOK
    <3>3. pc' \in [Calls -> {"idle", "admit", "queued", "done"}]
      BY <3>1, Zenon DEF Submit, Finish, TypeOK
    <3>4. result' \in [Calls -> Answers]
      BY <2>1, <3>1, Zenon DEF Submit, Finish, TypeOK
    <3> QED BY <3>2, <3>3, <3>4, Zenon
  <2>3. CASE AdmitClosed(c) \/ AdmitCancelled(c)
    BY <2>1, <2>3 DEF AdmitClosed, AdmitCancelled, Finish, TypeOK
  <2>4. CASE awaitAck(c)
    BY <2>1, <2>4 DEF awaitAck, Finish, TypeOK
  <2> QED BY <2>2, <2>3, <2>4, Zenon
<1>5. TypeOK' /\ SeqContiguous'
  BY <1>1, <1>4, Zenon DEF TypeOK, SeqContiguous
<1>6. CallInv'
  BY <1>1, <1>2, <1>3 DEF CallInv, TypeOK, drained
<1>7. SeqInv'
  BY <1>1, <1>2 DEF SeqInv, CallInv, Size, TypeOK
<1>8. AnswerInv'
  BY <1>1, <1>2, <1>3 DEF AnswerInv, Written
<1>9. AckedIsDurable' /\ RefusedIsAbsent'
  <2> SUFFICES ASSUME NEW d \in Calls
               PROVE  /\ result'[d].st = "ok" =>
                           /\ result'[d].seq \in 1 .. Len(log)
                           /\ log[result'[d].seq].call = d
                           /\ \A i \in 1 .. Len(log) : log[i].call = d => i <= result'[d].seq
                      /\ result'[d].st \in Definite => ~Written(d)
    BY <1>1, Zenon DEF AckedIsDurable, RefusedIsAbsent, Written
  <2>1. CASE result'[d] = result[d]
    BY <2>1, Zenon DEF AckedIsDurable, RefusedIsAbsent
  <2>2. CASE d = c /\ result'[d] = ack[d]
    BY <2>2, Zenon DEF AnswerInv
  <2>3. CASE /\ d = c /\ pc[c] # "done" /\ ack[c] = NoAnswer
             /\ pc[c] = "queued" => drained
             /\ result'[c] \in {Err("closed"), Err("cancelled"), Err("terminal")}
    BY <2>3 DEF AnswerInv, CallInv, drained, Err, Definite, SeqInv
  <2> QED BY <1>2, <1>3, <2>1, <2>2, <2>3, Zenon
<1>10. WrittenOnce'
  <2>1. \A i \in 1 .. Len(log) : log[i].call \in Calls /\ Written(log[i].call)
    BY LogEntry, Zenon DEF Written
  <2>2. \A d \in Calls : Written(d) => op'[d] = op[d]
    <3>1. \A d \in Calls : pc[d] = "idle" => ~Written(d)
      BY Zenon DEF AnswerInv, CallInv, SeqInv
    <3>2. \A d \in Calls : pc[d] # "idle" => op'[d] = op[d]
      BY <1>2, Zenon
    <3> QED BY <3>1, <3>2, Zenon
  <2> QED BY <1>1, <2>1, <2>2 DEF WrittenOnce
<1> QED BY <1>5, <1>6, <1>7, <1>8, <1>9, <1>10, Zenon

\* Admission: the call joins the queue.
LEMMA AdmitStep ==
    ASSUME IInv, NEW c \in Calls, Admit(c)
    PROVE  IInv'
<1> USE DEF IInv
<1>1. /\ UNCHANGED <<log, closing, terminal, ack, crashes, nextSeq, loopPc, cur, committed, op, result>>
      /\ pc[c] = "admit" /\ pc' = [pc EXCEPT ![c] = "queued"]
      /\ queue \in Seq(Calls) /\ queue' = Append(queue, c)
  BY Zenon DEF Admit, loopVars, TypeOK
<1>2. /\ queue' \in Seq(Calls) /\ Len(queue') = Len(queue) + 1 /\ Len(queue) \in Nat
      /\ \A i \in 1 .. Len(queue) : queue'[i] = queue[i] /\ queue[i] \in Calls
      /\ queue'[Len(queue) + 1] = c
  BY <1>1
<1>3. TypeOK' /\ SeqContiguous' /\ SeqInv' /\ AckedIsDurable' /\ RefusedIsAbsent' /\ WrittenOnce'
  <2>1. pc' \in [Calls -> {"idle", "admit", "queued", "done"}] /\ queue' \in Seq(Calls)
    BY <1>1, <1>2, Zenon DEF TypeOK
  <2>a. UNCHANGED <<log, closing, terminal, ack, crashes, nextSeq, loopPc, cur, committed, op, result>>
    BY <1>1, Zenon
  <2>2. TypeOK'
    BY <2>a, <2>1, Zenon DEF TypeOK
  <2>3. SeqContiguous' /\ SeqInv'
    BY <2>a, Zenon DEF SeqContiguous, SeqInv, Size
  <2>4. AckedIsDurable' /\ RefusedIsAbsent' /\ WrittenOnce'
    BY <2>a, Zenon DEF AckedIsDurable, RefusedIsAbsent, WrittenOnce, Written
  <2> QED BY <2>2, <2>3, <2>4, Zenon
<1>4. CallInv'
  <2>1. /\ cur # None => cur # c
        /\ loopPc \in {"run", "drain"} => \A i \in 1 .. Len(queue) : queue[i] # c
        /\ loopPc # "down" /\ ack[c] = NoAnswer
    BY <1>1, Zenon DEF CallInv, TypeOK
  <2>2. \A d \in Calls : pc'[d] = IF d = c THEN "queued" ELSE pc[d]
    BY <1>1, Zenon DEF TypeOK
  <2>3. (cur # None => /\ loopPc \in {"run", "drain"}
                       /\ pc[cur] = "queued" /\ ack[cur] = NoAnswer)'
    BY <1>1, <2>1, <2>2, Zenon DEF CallInv, TypeOK
  <2>4. c # cur
    BY <2>1, NoneAssumption, Zenon
  <2>5. (loopPc \in {"run", "drain"} =>
         \A i \in 1 .. Len(queue) :
            /\ pc[queue[i]] = "queued" /\ ack[queue[i]] = NoAnswer
            /\ queue[i] # cur
            /\ \A j \in 1 .. Len(queue) : queue[j] = queue[i] => j = i)'
    BY <1>1, <1>2, <2>1, <2>2, <2>4 DEF CallInv
  <2> QED BY <1>1, <2>1, <2>2, <2>3, <2>5 DEF CallInv
<1>5. AnswerInv'
  BY <1>1 DEF AnswerInv, Written, TypeOK
<1> QED BY <1>3, <1>4, <1>5, Zenon

\* The loop takes the next submission, starts draining or ends.
LEMMA ReceiveStep ==
    ASSUME IInv, Dequeue \/ BeginDrain \/ EndDrain
    PROVE  IInv'
<1> USE DEF IInv
<1>1. /\ UNCHANGED <<log, closing, terminal, ack, crashes, nextSeq, committed, op, result, pc>>
      /\ cur = None
      /\ loopPc \in {"run", "drain"} /\ loopPc' \in {"run", "drain", "done"}
      /\ queue \in Seq(Calls)
  BY Zenon DEF Dequeue, BeginDrain, EndDrain, callerVars, TypeOK
<1>2. CASE cur' = None /\ queue' = queue
  <2>1. TypeOK' /\ SeqContiguous' /\ WrittenOnce'
    BY <1>1, <1>2 DEF TypeOK, SeqContiguous, WrittenOnce
  <2>2. SeqInv'
    BY <1>1, <1>2, Zenon DEF SeqInv
  <2>3. CallInv'
    BY <1>1, <1>2 DEF CallInv
  <2>4. AnswerInv' /\ AckedIsDurable' /\ RefusedIsAbsent'
    <3>1. AnswerInv'
      BY <1>1, <1>2, Zenon DEF AnswerInv, Written, SeqInv
    <3>2. AckedIsDurable' /\ RefusedIsAbsent'
      BY <1>1, Zenon DEF AckedIsDurable, RefusedIsAbsent, Written
    <3> QED BY <3>1, <3>2, Zenon
  <2> QED BY <2>1, <2>2, <2>3, <2>4, Zenon
<1>3. CASE Dequeue
  <2>1. /\ queue # <<>> /\ cur' = queue[1] /\ queue' \in Seq(Calls) /\ loopPc' = loopPc
        /\ Len(queue') = Len(queue) - 1 /\ Len(queue) \in Nat /\ Len(queue) > 0
        /\ \A i \in 1 .. Len(queue') : queue'[i] = queue[i + 1]
        /\ queue[1] \in Calls
    BY <1>1, <1>3 DEF Dequeue
  <2>2. TypeOK' /\ SeqContiguous' /\ AckedIsDurable' /\ RefusedIsAbsent' /\ WrittenOnce' /\ SeqInv'
    BY <1>1, <2>1 DEF TypeOK, SeqContiguous, AckedIsDurable, RefusedIsAbsent, WrittenOnce, Written, SeqInv
  <2>3. CallInv'
    <3>1. pc[queue[1]] = "queued" /\ ack[queue[1]] = NoAnswer
          /\ \A j \in 2 .. Len(queue) : queue[j] # queue[1]
      BY <1>1, <2>1 DEF CallInv
    <3>2. \A i \in 1 .. Len(queue') : i + 1 \in 2 .. Len(queue) /\ i + 1 \in 1 .. Len(queue)
      BY <2>1
    <3>3. (loopPc \in {"run", "drain"} =>
         \A i \in 1 .. Len(queue) :
            /\ pc[queue[i]] = "queued" /\ ack[queue[i]] = NoAnswer
            /\ queue[i] # cur
            /\ \A j \in 1 .. Len(queue) : queue[j] = queue[i] => j = i)'
      <4>1. \A i \in 1 .. Len(queue') :
              /\ pc[queue[i + 1]] = "queued" /\ ack[queue[i + 1]] = NoAnswer /\ queue[i + 1] # queue[1]
              /\ \A j \in 1 .. Len(queue') : queue[j + 1] = queue[i + 1] => j + 1 = i + 1
        BY <1>1, <3>1, <3>2, Zenon DEF CallInv
      <4>2. ASSUME NEW i \in 1 .. Len(queue')
            PROVE  /\ pc[queue'[i]] = "queued" /\ ack[queue'[i]] = NoAnswer /\ queue'[i] # cur'
                   /\ \A j \in 1 .. Len(queue') : queue'[j] = queue'[i] => j = i
        <5>1. queue'[i] = queue[i + 1] /\ cur' = queue[1]
          BY <2>1, Zenon
        <5>2. pc[queue'[i]] = "queued" /\ ack[queue'[i]] = NoAnswer /\ queue'[i] # cur'
          BY <4>1, <5>1, Zenon
        <5>3. ASSUME NEW j \in 1 .. Len(queue'), queue'[j] = queue'[i]
              PROVE  j = i
          <6>1. queue[j + 1] = queue[i + 1]
            BY <2>1, <5>1, <5>3, Zenon
          <6>2. j + 1 = i + 1
            BY <4>1, <6>1, Zenon
          <6> QED BY <6>2
        <5> QED BY <5>2, <5>3, Zenon
      <4>3. \A i \in 1 .. Len(queue') :
              /\ pc[queue'[i]] = "queued" /\ ack[queue'[i]] = NoAnswer /\ queue'[i] # cur'
              /\ \A j \in 1 .. Len(queue') : queue'[j] = queue'[i] => j = i
        BY <4>2, Zenon
      <4> QED BY <1>1, <4>3, Zenon
    <3> QED BY <1>1, <2>1, <3>1, <3>3, Zenon DEF CallInv
  <2>4. AnswerInv'
    BY <1>1, Zenon DEF AnswerInv, Written, SeqInv
  <2> QED BY <2>2, <2>3, <2>4, Zenon
<1> QED BY <1>1, <1>2, <1>3, Zenon DEF Dequeue, BeginDrain, EndDrain

\* process() answers without a write: a definite error needs no record in the
\* log, and there is none because the call in hand is not committed.
LEMMA RefuseStep ==
    ASSUME IInv, Refuse
    PROVE  IInv'
<1> USE DEF IInv
<1>1. PICK r \in {Err("terminal"), Err("notEmpty"), Err("rejected")} : Answer(r)
  BY Zenon DEF Refuse
<1>2. /\ UNCHANGED <<log, closing, terminal, crashes, nextSeq, loopPc, committed, op, result, pc, queue>>
      /\ cur \in Calls /\ ~committed /\ cur' = None
      /\ ack' = [ack EXCEPT ![cur] = r] /\ ack \in [Calls -> Answers]
      /\ loopPc \in {"run", "drain"} /\ pc[cur] = "queued"
  BY <1>1, Zenon DEF Refuse, Answer, TypeOK, callerVars, CallInv
<1>3. r \in Answers
  BY Zenon DEF Answers, Definite
<1>4. \A d \in Calls : ack'[d] = IF d = cur THEN r ELSE ack[d]
  BY <1>2, Zenon
<1>5. TypeOK'
  BY <1>2, <1>3, Zenon DEF TypeOK
<1>6. SeqContiguous' /\ SeqInv' /\ AckedIsDurable' /\ RefusedIsAbsent' /\ WrittenOnce'
  BY <1>2 DEF SeqContiguous, SeqInv, AckedIsDurable, RefusedIsAbsent, WrittenOnce, Written
<1>7. CallInv'
  <2>1. \A i \in 1 .. Len(queue) : queue[i] \in Calls /\ queue[i] # cur
    <3>1. \A i \in 1 .. Len(queue) : queue[i] \in Calls
      <4>1. queue \in Seq(Calls)
        BY Zenon DEF TypeOK
      <4> QED BY <4>1
    <3>2. \A i \in 1 .. Len(queue) : queue[i] # cur
      BY <1>2, Zenon DEF CallInv
    <3> QED BY <3>1, <3>2, Zenon
  <2>2. (loopPc \in {"run", "drain"} =>
         \A i \in 1 .. Len(queue) :
            /\ pc[queue[i]] = "queued" /\ ack[queue[i]] = NoAnswer
            /\ queue[i] # cur
            /\ \A j \in 1 .. Len(queue) : queue[j] = queue[i] => j = i)'
    BY <1>2, <1>4, <2>1, NoneAssumption DEF CallInv
  <2> QED BY <1>2, <1>4, <2>2, Zenon DEF CallInv
<1>8. AnswerInv'
  <2>1. r.st # "ok"
    BY DEF Err
  <2>2. ~Written(cur)
    BY <1>2, NoneAssumption, Zenon DEF AnswerInv, CallInv
  <2> QED BY <1>2, <1>4, <2>1, <2>2 DEF AnswerInv, Written
<1> QED BY <1>5, <1>6, <1>7, <1>8, Zenon

\* A write, acknowledged or not: what it does to the invariants of the log.
LEMMA WriteStep ==
    ASSUME IInv, Writable, log' = log \o Prepared, UNCHANGED <<op, result, pc>>
    PROVE  /\ cur \in Calls /\ ~Written(cur) /\ loopPc \in {"run", "drain"}
           /\ pc[cur] = "queued" /\ ack[cur] = NoAnswer
           /\ Len(log) \in Nat /\ Len(log') = Len(log) + Size(cur) /\ Size(cur) \in Nat \ {0}
           /\ nextSeq = Len(log) + 1
           /\ op[cur].kind = "batch" => Len(log) = 0
           /\ \A i \in 1 .. Len(log) : log'[i] = log[i]
           /\ \A i \in Len(log) + 1 .. Len(log') : log'[i].call = cur
           /\ \A d \in Calls \ {cur} : Written(d)' <=> Written(d)
           /\ log' \in Seq(Record) /\ SeqContiguous'
           /\ AckedIsDurable' /\ RefusedIsAbsent' /\ WrittenOnce'
<1> USE DEF IInv
<1>1. /\ cur \in Calls /\ ~Written(cur) /\ loopPc \in {"run", "drain"}
      /\ pc[cur] = "queued" /\ ack[cur] = NoAnswer
  <2>1. cur \in Calls /\ loopPc \in {"run", "drain"} /\ pc[cur] = "queued" /\ ack[cur] = NoAnswer /\ ~committed
    BY Zenon DEF Writable, TypeOK, CallInv
  <2> QED BY <2>1, Zenon DEF AnswerInv
<1>2. /\ log' \in Seq(Record)
      /\ Len(log') = Len(log) + Size(cur)
      /\ \A i \in 1 .. Len(log) : log'[i] = log[i]
      /\ \A i \in Len(log) + 1 .. Len(log') : log'[i].call = cur /\ log'[i].seq = i
  BY <1>1, WriteLog, Zenon
<1>3. Len(log) \in Nat /\ \A i \in 1 .. Len(log) : log[i].call \in Calls
  BY LogEntry, Zenon
<1>4. Size(cur) \in Nat \ {0}
  BY BatchAssumption DEF Size
<1>5. nextSeq = Len(log) + 1 /\ (op[cur].kind = "batch" => Len(log) = 0)
  BY <1>1, <1>3 DEF SeqInv, Writable
<1>6. \A d \in Calls \ {cur} : Written(d)' <=> Written(d)
  <2> SUFFICES ASSUME NEW d \in Calls, d # cur
               PROVE  (\E i \in 1 .. Len(log') : log'[i].call = d) <=> Written(d)
    BY Zenon DEF Written
  <2>1. \A i \in 1 .. Len(log) : i \in 1 .. Len(log')
    BY <1>2, <1>3, <1>4
  <2>2. \A i \in 1 .. Len(log') : log'[i].call = d => i \in 1 .. Len(log)
    BY <1>2, <1>3, <1>4
  <2> QED BY <1>2, <2>1, <2>2, Zenon DEF Written
<1>7. SeqContiguous'
  BY <1>2, <1>3, <1>4 DEF SeqContiguous
<1>8. RefusedIsAbsent'
  <2>1. result[cur].st \notin Definite
    BY <1>1 DEF CallInv, NoAnswer, Definite
  <2> QED BY <1>1, <1>6, <2>1, Zenon DEF RefusedIsAbsent
<1>9. AckedIsDurable'
  <2>1. result[cur].st # "ok"
    BY <1>1 DEF CallInv, NoAnswer
  <2>2. SUFFICES ASSUME NEW d \in Calls, result[d].st = "ok"
                 PROVE  /\ result[d].seq \in 1 .. Len(log')
                        /\ log'[result[d].seq].call = d
                        /\ \A i \in 1 .. Len(log') : log'[i].call = d => i <= result[d].seq
    BY Zenon DEF AckedIsDurable
  <2>3. d # cur
    BY <2>1, <2>2, Zenon
  <2>4. /\ result[d].seq \in 1 .. Len(log)
        /\ log[result[d].seq].call = d
        /\ \A i \in 1 .. Len(log) : log[i].call = d => i <= result[d].seq
    BY <2>2, Zenon DEF AckedIsDurable
  <2> QED BY <1>2, <1>3, <1>4, <2>3, <2>4
<1>10. WrittenOnce'
  <2>1. \A i \in 1 .. Len(log) : log[i].call # cur
    BY <1>1, Zenon DEF Written
  <2>2. CASE op[cur].kind = "batch"
    BY <1>2, <1>3, <1>4, <1>5, <2>2 DEF WrittenOnce, Size
  <2>3. CASE op[cur].kind # "batch"
    <3>1. Len(log') = Len(log) + 1
      BY <1>2, <2>3, Zenon DEF Size
    <3>2. SUFFICES ASSUME NEW i \in 1 .. Len(log')
                   PROVE  IF op[log'[i].call].kind = "batch"
                          THEN /\ i <= BatchLen /\ BatchLen <= Len(log')
                               /\ \A j \in 1 .. BatchLen : log'[j].call = log'[i].call
                          ELSE \A j \in 1 .. Len(log') : log'[j].call = log'[i].call => j = i
      BY Zenon DEF WrittenOnce
    <3>3. CASE i = Len(log) + 1
      BY <1>2, <1>3, <2>1, <2>3, <3>1, <3>3
    <3>4. CASE i \in 1 .. Len(log)
      <4>1. log'[i] = log[i] /\ BatchLen \in Nat /\ Len(log) \in Nat
        BY <1>2, <1>3, <3>4, BatchAssumption, Zenon
      <4>2. CASE op[log[i].call].kind = "batch"
        <5>1. i <= BatchLen /\ BatchLen <= Len(log) /\ \A j \in 1 .. BatchLen : log[j].call = log[i].call
          BY <3>4, <4>2, Zenon DEF WrittenOnce
        <5>2. \A j \in 1 .. BatchLen : log'[j] = log[j]
          BY <1>2, <4>1, <5>1
        <5> QED BY <3>1, <4>1, <4>2, <5>1, <5>2
      <4>3. CASE op[log[i].call].kind # "batch"
        <5>1. \A j \in 1 .. Len(log) : log[j].call = log[i].call => j = i
          BY <3>4, <4>3, Zenon DEF WrittenOnce
        <5>2. \A j \in 1 .. Len(log') : j \in 1 .. Len(log) \/ j = Len(log) + 1
          BY <3>1, <4>1
        <5>3. log'[Len(log) + 1].call # log[i].call /\ \A j \in 1 .. Len(log) : log'[j] = log[j]
          <6>1. Len(log) + 1 \in Len(log) + 1 .. Len(log')
            BY <3>1, <4>1
          <6> QED BY <1>2, <2>1, <3>4, <6>1, Zenon
        <5> QED BY <4>1, <4>3, <5>1, <5>2, <5>3, Zenon
      <4> QED BY <4>2, <4>3, Zenon
    <3>5. i = Len(log) + 1 \/ i \in 1 .. Len(log)
      BY <1>3, <3>1, <3>2
    <3> QED BY <3>3, <3>4, <3>5, Zenon
  <2> QED BY <2>2, <2>3, Zenon
<1> QED BY <1>1, <1>2, <1>3, <1>4, <1>5, <1>6, <1>7, <1>8, <1>9, <1>10, Zenon

LEMMA CommitStep ==
    ASSUME IInv, Commit
    PROVE  IInv'
<1> USE DEF IInv
<1>1. /\ Writable /\ log' = log \o Prepared /\ committed' = TRUE
      /\ UNCHANGED <<nextSeq, queue, closing, terminal, loopPc, cur, ack, crashes, pc, op, result>>
  BY Zenon DEF Commit, callerVars
<1>2. /\ cur \in Calls /\ ~Written(cur) /\ loopPc \in {"run", "drain"}
      /\ Len(log) \in Nat /\ Len(log') = Len(log) + Size(cur) /\ Size(cur) \in Nat \ {0}
      /\ nextSeq = Len(log) + 1
      /\ op[cur].kind = "batch" => Len(log) = 0
      /\ \A i \in 1 .. Len(log) : log'[i] = log[i]
      /\ \A i \in Len(log) + 1 .. Len(log') : log'[i].call = cur
      /\ \A d \in Calls \ {cur} : Written(d)' <=> Written(d)
      /\ log' \in Seq(Record) /\ SeqContiguous'
      /\ AckedIsDurable' /\ RefusedIsAbsent' /\ WrittenOnce'
  BY <1>1, WriteStep, Zenon
<1>3. TypeOK' /\ CallInv'
  BY <1>1, <1>2, Zenon DEF TypeOK, CallInv
<1>4. SeqInv'
  <2>1. \A i \in 1 .. Len(log) : log[i].call # cur
    BY <1>2, Zenon DEF Written
  <2>2. \A i \in 1 .. Len(log') : log'[i].call = cur <=> i >= nextSeq
    <3> SUFFICES ASSUME NEW i \in 1 .. Len(log') PROVE log'[i].call = cur <=> i >= nextSeq
      BY Zenon
    <3>1. CASE i \in 1 .. Len(log)
      BY <1>2, <2>1, <3>1
    <3>2. CASE i \in Len(log) + 1 .. Len(log')
      BY <1>2, <3>2
    <3>3. i \in 1 .. Len(log) \/ i \in Len(log) + 1 .. Len(log')
      BY <1>2
    <3> QED BY <3>1, <3>2, <3>3, Zenon
  <2>3. cur # None /\ ~terminal /\ Size(cur)' = Size(cur)
    BY <1>1, <1>2, NoneAssumption, Zenon DEF Writable, Size
  <2>4. nextSeq + Size(cur) = Len(log') + 1
    <3>1. /\ nextSeq = Len(log) + 1 /\ Len(log') = Len(log) + Size(cur)
          /\ Len(log) \in Nat /\ Size(cur) \in Nat
      BY <1>2, Zenon
    <3> QED BY <3>1
  <2>5. nextSeq' + Size(cur)' = Len(log') + 1
    BY <1>1, <2>3, <2>4, Zenon
  <2>6. op[cur].kind = "batch" => nextSeq = 1
    BY <1>2
  <2> QED BY <1>1, <2>2, <2>3, <2>5, <2>6, Zenon DEF SeqInv
<1>5. AnswerInv'
  <2> SUFFICES ASSUME NEW d \in Calls
               PROVE  /\ pc[d] # "done" /\ ack[d] = NoAnswer /\ d # cur => ~Written(d)'
                      /\ ack[d].st \in Definite => ~Written(d)'
                      /\ ack[d].st = "ok" =>
                           /\ ack[d].seq \in 1 .. Len(log')
                           /\ log'[ack[d].seq].call = d
                           /\ \A i \in 1 .. Len(log') : log'[i].call = d => i <= ack[d].seq
    BY <1>1, Zenon DEF AnswerInv, Written
  <2>1. CASE d = cur
    <3>1. ack[d] = NoAnswer
      BY <1>1, <1>2, <2>1, NoneAssumption, Zenon DEF CallInv
    <3> QED BY <2>1, <3>1 DEF NoAnswer, Definite
  <2>2. CASE d # cur
    <3>1. /\ pc[d] # "done" /\ ack[d] = NoAnswer => ~Written(d)
          /\ ack[d].st \in Definite => ~Written(d)
          /\ ack[d].st = "ok" =>
               /\ ack[d].seq \in 1 .. Len(log)
               /\ log[ack[d].seq].call = d
               /\ \A i \in 1 .. Len(log) : log[i].call = d => i <= ack[d].seq
      BY <2>2, Zenon DEF AnswerInv
    <3> QED BY <1>2, <2>2, <3>1
  <2> QED BY <2>1, <2>2, Zenon
<1> QED BY <1>2, <1>3, <1>4, <1>5, Zenon

LEMMA CommitFailsStep ==
    ASSUME IInv, CommitFails
    PROVE  IInv'
<1> USE DEF IInv
<1>1. /\ Writable /\ (log' = log \/ log' = log \o Prepared) /\ terminal' = TRUE /\ ~committed
      /\ UNCHANGED <<nextSeq, queue, closing, loopPc, crashes, committed, pc, op, result>>
      /\ ack' = [ack EXCEPT ![cur] = Err("terminal")] /\ cur' = None
  BY Zenon DEF CommitFails, callerVars, Answer, Writable
<1>2. /\ cur \in Calls /\ loopPc \in {"run", "drain"} /\ pc[cur] = "queued"
      /\ log' \in Seq(Record) /\ Len(log) \in Nat /\ Len(log') \in Nat /\ Len(log) <= Len(log')
      /\ \A i \in 1 .. Len(log) : log'[i] = log[i]
      /\ \A i \in Len(log) + 1 .. Len(log') : log'[i].call = cur
      /\ \A d \in Calls \ {cur} : Written(d)' <=> Written(d)
      /\ SeqContiguous' /\ AckedIsDurable' /\ RefusedIsAbsent' /\ WrittenOnce'
  <2>1. CASE log' = log \o Prepared
    BY <1>1, <2>1, WriteStep
  <2>2. CASE log' = log
    <3>1. /\ cur \in Calls /\ loopPc \in {"run", "drain"} /\ pc[cur] = "queued"
          /\ log' \in Seq(Record)
      BY <1>1, <2>2, Zenon DEF TypeOK, CallInv, Writable
    <3>2. /\ Len(log) \in Nat /\ Len(log') \in Nat /\ Len(log) <= Len(log')
          /\ \A i \in Len(log) + 1 .. Len(log') : log'[i].call = cur
      BY <2>2, LogEntry
    <3>3. SeqContiguous' /\ AckedIsDurable' /\ RefusedIsAbsent' /\ WrittenOnce'
          /\ \A d \in Calls : Written(d)' <=> Written(d)
      BY <1>1, <2>2, Zenon DEF SeqContiguous, AckedIsDurable, RefusedIsAbsent, WrittenOnce, Written
    <3> QED BY <2>2, <3>1, <3>2, <3>3, Zenon
  <2> QED BY <1>1, <2>1, <2>2, Zenon
<1>3. \A d \in Calls : ack'[d] = IF d = cur THEN Err("terminal") ELSE ack[d]
  BY <1>1, <1>2, Zenon DEF TypeOK
<1>4. TypeOK'
  <2>1. Err("terminal") \in Answers
    BY Zenon DEF Answers
  <2> QED BY <1>1, <1>2, <2>1, Zenon DEF TypeOK
<1>5. SeqInv'
  BY <1>1, Zenon DEF SeqInv
<1>6. CallInv'
  <2>1. \A i \in 1 .. Len(queue) : queue[i] \in Calls /\ queue[i] # cur
    <3>1. \A i \in 1 .. Len(queue) : queue[i] \in Calls
      <4>1. queue \in Seq(Calls)
        BY Zenon DEF TypeOK
      <4> QED BY <4>1
    <3>2. \A i \in 1 .. Len(queue) : queue[i] # cur
      BY <1>2, Zenon DEF CallInv
    <3> QED BY <3>1, <3>2, Zenon
  <2>2. (loopPc \in {"run", "drain"} =>
         \A i \in 1 .. Len(queue) :
            /\ pc[queue[i]] = "queued" /\ ack[queue[i]] = NoAnswer
            /\ queue[i] # cur
            /\ \A j \in 1 .. Len(queue) : queue[j] = queue[i] => j = i)'
    <3>1. loopPc' = loopPc /\ queue' = queue /\ pc' = pc /\ cur' = None /\ None \notin Calls
      BY <1>1, NoneAssumption, Zenon
    <3>2. \A i \in 1 .. Len(queue) : ack'[queue[i]] = ack[queue[i]] /\ queue[i] # None
      BY <1>3, <2>1, <3>1, Zenon
    <3>3. ASSUME loopPc \in {"run", "drain"}, NEW i \in 1 .. Len(queue)
          PROVE  /\ pc[queue[i]] = "queued" /\ ack[queue[i]] = NoAnswer
                 /\ \A j \in 1 .. Len(queue) : queue[j] = queue[i] => j = i
      BY <3>3, Zenon DEF CallInv
    <3> QED BY <3>1, <3>2, <3>3
  <2> QED BY <1>1, <1>2, <1>3, <2>2, Zenon DEF CallInv
<1>7. AnswerInv'
  <2> SUFFICES ASSUME NEW d \in Calls
               PROVE  /\ pc[d] # "done" /\ ack'[d] = NoAnswer => ~Written(d)'
                      /\ ack'[d].st \in Definite => ~Written(d)'
                      /\ ack'[d].st = "ok" =>
                           /\ ack'[d].seq \in 1 .. Len(log')
                           /\ log'[ack'[d].seq].call = d
                           /\ \A i \in 1 .. Len(log') : log'[i].call = d => i <= ack'[d].seq
    BY <1>1, Zenon DEF AnswerInv, Written
  <2>1. CASE d = cur
    <3>1. Err("terminal") # NoAnswer /\ Err("terminal").st = "terminal" /\ "terminal" \notin Definite
      BY Zenon DEF Err, NoAnswer, Definite
    <3> QED BY <1>3, <2>1, <3>1, Zenon
  <2>2. CASE d # cur
    <3>1. /\ pc[d] # "done" /\ ack[d] = NoAnswer => ~Written(d)
          /\ ack[d].st \in Definite => ~Written(d)
          /\ ack[d].st = "ok" =>
               /\ ack[d].seq \in 1 .. Len(log)
               /\ log[ack[d].seq].call = d
               /\ \A i \in 1 .. Len(log) : log[i].call = d => i <= ack[d].seq
      BY <2>2 DEF AnswerInv
    <3>2. ack'[d] = ack[d] /\ (Written(d)' <=> Written(d))
      BY <1>2, <1>3, <2>2, Zenon
    <3>3. ASSUME ack[d].st = "ok"
          PROVE  /\ ack[d].seq \in 1 .. Len(log') /\ log'[ack[d].seq].call = d
                 /\ \A i \in 1 .. Len(log') : log'[i].call = d => i <= ack[d].seq
      <4>1. /\ Len(log) \in Nat /\ Len(log') \in Nat /\ Len(log) <= Len(log')
            /\ \A i \in 1 .. Len(log) : log'[i] = log[i]
            /\ \A i \in Len(log) + 1 .. Len(log') : log'[i].call = cur
        BY <1>2, Zenon
      <4>2. \A i \in 1 .. Len(log') : log'[i].call = d => i \in 1 .. Len(log)
        BY <2>2, <4>1
      <4> QED BY <3>1, <3>3, <4>1, <4>2
    <3> QED BY <3>1, <3>2, <3>3, Zenon
  <2> QED BY <2>1, <2>2, Zenon
<1> QED BY <1>2, <1>4, <1>5, <1>6, <1>7, Zenon

\* nextSeq catches up with the store and the caller is told its last seq.
LEMMA AcknowledgeStep ==
    ASSUME IInv, Acknowledge
    PROVE  IInv'
<1> USE DEF IInv
<1>1. /\ committed /\ ~committed' /\ cur' = None
      /\ nextSeq' = nextSeq + Size(cur)
      /\ ack' = [ack EXCEPT ![cur] = Ok(nextSeq' - 1)]
      /\ UNCHANGED <<log, queue, closing, terminal, loopPc, crashes, pc, op, result>>
  BY Zenon DEF Acknowledge, Answer, Size, callerVars
<1>2. /\ cur \in Calls /\ loopPc \in {"run", "drain"} /\ pc[cur] = "queued"
      /\ ~terminal /\ nextSeq \in Nat \ {0} /\ Size(cur) \in Nat \ {0}
      /\ nextSeq + Size(cur) = Len(log) + 1 /\ Len(log) \in Nat
      /\ \A i \in 1 .. Len(log) : log[i].call = cur <=> i >= nextSeq
  <2>1. cur \in Calls /\ cur # None /\ ~terminal /\ nextSeq \in Nat \ {0} /\ Len(log) \in Nat
    BY <1>1 DEF SeqInv, TypeOK
  <2>2. Size(cur) \in Nat \ {0}
    BY BatchAssumption DEF Size
  <2>3. /\ nextSeq + Size(cur) = Len(log) + 1
        /\ \A i \in 1 .. Len(log) : log[i].call = cur <=> i >= nextSeq
    BY <1>1, Zenon DEF SeqInv
  <2>4. loopPc \in {"run", "drain"} /\ pc[cur] = "queued"
    BY <2>1, Zenon DEF CallInv
  <2> QED BY <2>1, <2>2, <2>3, <2>4, Zenon
<1>3. nextSeq' = Len(log) + 1 /\ nextSeq' - 1 = Len(log) /\ Len(log) \in Nat \ {0}
  BY <1>1, <1>2
<1>4. \A d \in Calls : ack'[d] = IF d = cur THEN Ok(Len(log)) ELSE ack[d]
  BY <1>1, <1>2, <1>3, Zenon DEF TypeOK
<1>5. TypeOK'
  <2>1. Ok(Len(log)) \in Answers
    BY <1>3, Zenon DEF Answers, Ok
  <2>2. ack' \in [Calls -> Answers]
    BY <1>1, <1>3, <2>1, Zenon DEF TypeOK
  <2>3. nextSeq' \in Nat \ {0}
    BY <1>3
  <2>4. committed' \in BOOLEAN
    BY Zenon DEF Acknowledge
  <2> QED BY <1>1, <2>2, <2>3, <2>4, Zenon DEF TypeOK
<1>6. SeqContiguous' /\ AckedIsDurable' /\ RefusedIsAbsent' /\ WrittenOnce' /\ SeqInv'
  <2>1. SeqContiguous' /\ AckedIsDurable'
    BY <1>1, Zenon DEF SeqContiguous, AckedIsDurable
  <2>2. RefusedIsAbsent' /\ WrittenOnce'
    BY <1>1, Zenon DEF RefusedIsAbsent, WrittenOnce, Written
  <2>3. SeqInv'
    BY <1>1, <1>3, Zenon DEF SeqInv
  <2> QED BY <2>1, <2>2, <2>3, Zenon
<1>7. CallInv'
  <2>1. \A i \in 1 .. Len(queue) : queue[i] \in Calls /\ queue[i] # cur
    <3>1. \A i \in 1 .. Len(queue) : queue[i] \in Calls
      <4>1. queue \in Seq(Calls)
        BY Zenon DEF TypeOK
      <4> QED BY <4>1
    <3>2. \A i \in 1 .. Len(queue) : queue[i] # cur
      BY <1>2, Zenon DEF CallInv
    <3> QED BY <3>1, <3>2, Zenon
  <2>2. (loopPc \in {"run", "drain"} =>
         \A i \in 1 .. Len(queue) :
            /\ pc[queue[i]] = "queued" /\ ack[queue[i]] = NoAnswer
            /\ queue[i] # cur
            /\ \A j \in 1 .. Len(queue) : queue[j] = queue[i] => j = i)'
    <3>1. loopPc' = loopPc /\ queue' = queue /\ pc' = pc /\ cur' = None /\ None \notin Calls
      BY <1>1, NoneAssumption, Zenon
    <3>2. \A i \in 1 .. Len(queue) : ack'[queue[i]] = ack[queue[i]] /\ queue[i] # None
      BY <1>4, <2>1, <3>1, Zenon
    <3>3. ASSUME loopPc \in {"run", "drain"}, NEW i \in 1 .. Len(queue)
          PROVE  /\ pc[queue[i]] = "queued" /\ ack[queue[i]] = NoAnswer
                 /\ \A j \in 1 .. Len(queue) : queue[j] = queue[i] => j = i
      BY <3>3, Zenon DEF CallInv
    <3> QED BY <3>1, <3>2, <3>3
  <2> QED BY <1>1, <1>2, <1>4, <2>2, Zenon DEF CallInv
<1>8. AnswerInv'
  <2> SUFFICES ASSUME NEW d \in Calls
               PROVE  /\ pc[d] # "done" /\ ack'[d] = NoAnswer => ~Written(d)
                      /\ ack'[d].st \in Definite => ~Written(d)
                      /\ ack'[d].st = "ok" =>
                           /\ ack'[d].seq \in 1 .. Len(log)
                           /\ log[ack'[d].seq].call = d
                           /\ \A i \in 1 .. Len(log) : log[i].call = d => i <= ack'[d].seq
    BY <1>1, Zenon DEF AnswerInv, Written
  <2>1. CASE d = cur
    <3>1. /\ Ok(Len(log)) # NoAnswer /\ Ok(Len(log)).st = "ok" /\ Ok(Len(log)).seq = Len(log)
          /\ "ok" \notin Definite
      BY Zenon DEF Ok, NoAnswer, Definite
    <3>2. /\ Len(log) \in 1 .. Len(log) /\ log[Len(log)].call = cur
          /\ \A i \in 1 .. Len(log) : i <= Len(log)
      BY <1>2, <1>3
    <3> QED BY <1>4, <2>1, <3>1, <3>2, Zenon
  <2>2. CASE d # cur
    BY <1>4, <2>2, Zenon DEF AnswerInv
  <2> QED BY <2>1, <2>2, Zenon
<1> QED BY <1>5, <1>6, <1>7, <1>8, Zenon

\* No conjunct but the type of closing depends on closing.
LEMMA SameInv ==
    ASSUME IInv, closing' \in BOOLEAN,
           UNCHANGED <<log, nextSeq, queue, terminal, loopPc, cur, committed, pc, op, ack, result, crashes>>
    PROVE  IInv'
<1>1. TypeOK' /\ SeqContiguous'
  BY Zenon DEF IInv, TypeOK, SeqContiguous
<1>2. SeqInv'
  BY Zenon DEF IInv, SeqInv, Size
<1>3. CallInv'
  BY DEF IInv, CallInv
<1>4. AnswerInv'
  BY Zenon DEF IInv, AnswerInv, Written
<1>5. AckedIsDurable' /\ RefusedIsAbsent' /\ WrittenOnce'
  BY DEF IInv, AckedIsDurable, RefusedIsAbsent, WrittenOnce, Written
<1> QED BY <1>1, <1>2, <1>3, <1>4, <1>5, Zenon DEF IInv

\* Close, the death of the process and a new writer on the same store.
LEMMA LifecycleStep ==
    ASSUME IInv, Close \/ Crash \/ NewWriter
    PROVE  IInv'
<1> USE DEF IInv
<1>1. CASE Close
  <2>1. closing' \in BOOLEAN /\ UNCHANGED <<log, nextSeq, queue, terminal, loopPc, cur, committed, pc, op, ack, result, crashes>>
    BY <1>1, Zenon DEF Close, loopVars, callerVars
  <2> QED BY <2>1, SameInv, Zenon
<1>2. CASE Crash
  <2>1. /\ UNCHANGED <<log, nextSeq, closing, terminal, op, ack>>
        /\ loopPc' = "down" /\ queue' = <<>> /\ cur' = None /\ committed' = FALSE
    BY <1>2, Zenon DEF Crash
  <2>2. \A c \in Calls : IF pc[c] \in {"admit", "queued"}
                        THEN pc'[c] = "done" /\ result'[c] = Err("lost")
                        ELSE pc'[c] = pc[c] /\ result'[c] = result[c]
    BY <1>2, Zenon DEF Crash
  <2>3. TypeOK'
    <3>1. Err("lost") \in Answers
      BY Zenon DEF Answers
    <3>2. pc' \in [Calls -> {"idle", "admit", "queued", "done"}] /\ result' \in [Calls -> Answers]
      BY <1>2, <3>1, Zenon DEF Crash, TypeOK
    <3>3. queue' \in Seq(Calls)
      BY <2>1
    <3>4. crashes' \in 0 .. MaxCrashes
      BY <1>2, CrashAssumption DEF Crash, TypeOK
    <3> QED BY <2>1, <3>2, <3>3, <3>4, Zenon DEF TypeOK
  <2>4. SeqContiguous' /\ WrittenOnce' /\ SeqInv'
    BY <2>1, Zenon DEF SeqContiguous, WrittenOnce, SeqInv
  <2>5. CallInv'
    BY <2>1, <2>2, Zenon DEF CallInv, TypeOK
  <2>6. AckedIsDurable' /\ RefusedIsAbsent'
    <3>1. Err("lost").st # "ok" /\ Err("lost").st \notin Definite
      BY Zenon DEF Err, Definite
    <3> QED BY <2>1, <2>2, <3>1, Zenon DEF AckedIsDurable, RefusedIsAbsent, Written
  <2>7. AnswerInv'
    <3>1. \A c \in Calls : pc'[c] # "done" => pc[c] = "idle"
      BY <2>2, Zenon DEF TypeOK
    <3>2. \A c \in Calls : pc[c] = "idle" => ~Written(c)
      BY Zenon DEF AnswerInv, CallInv, SeqInv
    <3> QED BY <2>1, <3>1, <3>2, Zenon DEF AnswerInv, Written
  <2> QED BY <2>3, <2>4, <2>5, <2>6, <2>7, Zenon
<1>3. CASE NewWriter
  <2>1. /\ loopPc = "down" /\ loopPc' = "run"
        /\ closing' = FALSE /\ terminal' = FALSE
        /\ UNCHANGED <<log, queue, cur, committed, ack, crashes, pc, op, result>>
    BY <1>3, Zenon DEF NewWriter, callerVars
  <2>2. nextSeq' = Len(log) + 1 /\ Len(log) \in Nat
    <3>1. Len(log) \in Nat /\ (log # <<>> => Len(log) \in 1 .. Len(log)) /\ Len(<<>>) = 0
      BY LogEntry DEF TypeOK
    <3> QED BY <1>3, <3>1 DEF NewWriter, SeqContiguous
  <2>3. ~committed /\ cur = None /\ queue = <<>> /\ Len(queue) = 0
    BY <2>1, Zenon DEF SeqInv, CallInv
  <2>4. TypeOK'
    <3>1. nextSeq' \in Nat \ {0}
      BY <2>2
    <3> QED BY <2>1, <3>1, Zenon DEF TypeOK
  <2>5. SeqContiguous' /\ WrittenOnce' /\ SeqInv' /\ AckedIsDurable' /\ RefusedIsAbsent' /\ AnswerInv'
    <3>1. SeqInv'
      BY <2>1, <2>2, <2>3, Zenon DEF SeqInv
    <3>2. SeqContiguous' /\ WrittenOnce'
      BY <2>1, Zenon DEF SeqContiguous, WrittenOnce
    <3>3. AckedIsDurable' /\ RefusedIsAbsent'
      BY <2>1, Zenon DEF AckedIsDurable, RefusedIsAbsent, Written
    <3>4. AnswerInv'
      BY <2>1, Zenon DEF AnswerInv, Written
    <3> QED BY <3>1, <3>2, <3>3, <3>4, Zenon
  <2>6. CallInv'
    BY <2>1, <2>3 DEF CallInv
  <2> QED BY <2>4, <2>5, <2>6, Zenon
<1> QED BY <1>1, <1>2, <1>3, Zenon

LEMMA StepInv == IInv /\ [Next]_vars => IInv'
<1> SUFFICES ASSUME IInv, [Next]_vars PROVE IInv'
  BY Zenon
<1>1. CASE UNCHANGED vars
  <2>1. closing' \in BOOLEAN /\ UNCHANGED <<log, nextSeq, queue, terminal, loopPc, cur, committed, pc, op, ack, result, crashes>>
    BY <1>1, Zenon DEF vars, IInv, TypeOK
  <2> QED BY <2>1, SameInv, Zenon
<1>2. ASSUME NEW c \in Calls,
             (\E o \in Ops : Submit(c, o)) \/ Admit(c) \/ AdmitClosed(c) \/ AdmitCancelled(c) \/ awaitAck(c)
      PROVE  IInv'
  BY <1>2, CallerStep, AdmitStep, Zenon
<1>3. CASE Loop
  BY <1>3, ReceiveStep, RefuseStep, CommitStep, CommitFailsStep, AcknowledgeStep, Zenon DEF Loop
<1>4. CASE Close \/ Crash \/ NewWriter
  BY <1>4, LifecycleStep, Zenon
<1> QED BY <1>1, <1>2, <1>3, <1>4, Zenon DEF Next

\* The variables keep their types.
THEOREM TypeCorrect == Spec => []TypeOK
<1>1. IInv => TypeOK
  BY Zenon DEF IInv
<1> QED BY InitInv, StepInv, <1>1, PTL DEF Spec

\* The durable log has no gap and no repetition, whatever fails.
THEOREM LogContiguous == Spec => []SeqContiguous
<1>1. IInv => SeqContiguous
  BY Zenon DEF IInv
<1> QED BY InitInv, StepInv, <1>1, PTL DEF Spec

\* A seq returned to a caller is durable, and is that caller's last record.
THEOREM AckMeansDurable == Spec => []AckedIsDurable
<1>1. IInv => AckedIsDurable
  BY Zenon DEF IInv
<1> QED BY InitInv, StepInv, <1>1, PTL DEF Spec

\* ErrClosed, cancellation, rejection and ErrDestinationNotEmpty mean that
\* nothing was written, also in the race of Submit with the end of draining.
THEOREM RefusalMeansAbsent == Spec => []RefusedIsAbsent
<1>1. IInv => RefusedIsAbsent
  BY Zenon DEF IInv
<1> QED BY InitInv, StepInv, <1>1, PTL DEF Spec

\* No call is written twice and InitBatch is all or nothing, at the front.
THEOREM NoDoubleWrite == Spec => []WrittenOnce
<1>1. IInv => WrittenOnce
  BY Zenon DEF IInv
<1> QED BY InitInv, StepInv, <1>1, PTL DEF Spec

\* After a store failure this writer writes nothing more.
THEOREM WriterFailStop == Spec => FailStop
<1>1. Next => (terminal /\ terminal' => log' = log)
  BY Zenon DEF Next, Submit, Admit, AdmitClosed, AdmitCancelled, awaitAck, Close, Loop, Dequeue, BeginDrain,
         EndDrain, Refuse, Commit, CommitFails, Acknowledge, Crash, NewWriter, Writable
<1>2. [Next]_vars => [terminal /\ terminal' => log' = log]_vars
  BY <1>1, Zenon
<1> QED BY <1>2, PTL DEF Spec, FailStop

----------------------------------------------------------------------------
\* The writer implements the abstract log.

absLog == [i \in 1 .. Len(log) |-> log[i].call]
absAnswer == [c \in Calls |-> answerOf(c)]

\* A step that leaves the log, and the callers, alone is a stutter.
LEMMA StutterStep ==
    ASSUME UNCHANGED <<log, pc, result>>
    PROVE  UNCHANGED Abstract!vars
BY DEF Abstract!vars, answerOf

\* One caller's answer changes and nothing else does.
LEMMA AnswerChange ==
    ASSUME NEW c \in Calls, UNCHANGED log,
           \A d \in Calls \ {c} : pc'[d] = pc[d] /\ result'[d] = result[d]
    PROVE  absLog' = absLog /\ absAnswer' = [absAnswer EXCEPT ![c] = answerOf(c)']
<1>1. \A d \in Calls \ {c} : answerOf(d)' = answerOf(d)
  BY Zenon DEF answerOf
<1> QED BY <1>1, Zenon DEF absLog, absAnswer

LEMMA absLogSeq ==
    ASSUME TypeOK
    PROVE  absLog \in Seq(Calls) /\ Len(absLog) = Len(log)
<1>1. Len(log) \in Nat /\ absLog \in [1 .. Len(log) -> Calls]
  BY LogEntry, Zenon DEF absLog
<1>2. absLog \in Seq(Calls)
  BY <1>1
<1>3. DOMAIN absLog = 1 .. Len(absLog) /\ Len(absLog) \in Nat
  BY <1>2
<1> QED BY <1>1, <1>2, <1>3

LEMMA CallerRefines ==
    ASSUME IInv, NEW c \in Calls,
           (\E o \in Ops : Submit(c, o)) \/ AdmitClosed(c) \/ AdmitCancelled(c) \/ awaitAck(c)
    PROVE  Abstract!Next
<1> USE DEF IInv
<1>1. /\ UNCHANGED log
      /\ \A d \in Calls \ {c} : pc'[d] = pc[d] /\ result'[d] = result[d]
  BY Zenon DEF Submit, AdmitClosed, AdmitCancelled, awaitAck, Finish, TypeOK
<1>2. absLog' = absLog /\ absAnswer' = [absAnswer EXCEPT ![c] = answerOf(c)']
  BY <1>1, AnswerChange, Zenon
<1>3. Abstract!Written(c) <=> Written(c)
  BY LogEntry DEF Abstract!Written, Written
<1>4. absAnswer[c] = answerOf(c)
  BY Zenon DEF absAnswer
<1>5. CASE pc[c] = "idle" /\ pc'[c] = "admit"
  <2>1. answerOf(c) = Abstract!Idle /\ answerOf(c)' = Abstract!Pending
    BY <1>5, Zenon DEF answerOf, Abstract!Idle, Abstract!Pending
  <2>2. Abstract!Invoke(c)
    BY <1>2, <1>4, <2>1, Zenon DEF Abstract!Invoke, absLog, absAnswer
  <2> QED BY <2>2, Zenon DEF Abstract!Next
<1>6. CASE pc[c] # "done" /\ pc'[c] = "done"
  <2>1. answerOf(c) \in {Abstract!Idle, Abstract!Pending}
    BY <1>6, Zenon DEF answerOf, Abstract!Idle, Abstract!Pending, TypeOK
  <2>2. CASE result'[c].st = "ok"
    <3>1. pc[c] = "queued" /\ result'[c] = ack[c]
      <4>1. Err("terminal").st # "ok" /\ Err("closed").st # "ok" /\ Err("cancelled").st # "ok"
        BY Zenon DEF Err
      <4>2. c \in DOMAIN pc /\ c \in DOMAIN result
        BY Zenon DEF TypeOK
      <4>3. ASSUME NEW o \in Ops, Submit(c, o) PROVE FALSE
        BY <1>6, <2>2, <4>1, <4>2, <4>3, Zenon DEF Submit, Finish
      <4>4. ~AdmitClosed(c) /\ ~AdmitCancelled(c)
        BY <2>2, <4>1, <4>2, Zenon DEF AdmitClosed, AdmitCancelled, Finish
      <4>5. awaitAck(c)
        BY <4>3, <4>4, Zenon
      <4> QED BY <2>2, <4>1, <4>2, <4>5, Zenon DEF awaitAck, Finish
    <3>2. /\ ack[c].seq \in 1 .. Len(log)
          /\ log[ack[c].seq].call = c
          /\ \A i \in 1 .. Len(log) : log[i].call = c => i <= ack[c].seq
      BY <2>2, <3>1, Zenon DEF AnswerInv
    <3>3. ack[c] \in Answers
      BY Zenon DEF TypeOK
    <3>4. answerOf(c) = Abstract!Pending
      BY <3>1, Zenon DEF answerOf, Abstract!Pending
    <3>5. answerOf(c)' = ack[c]
      BY <1>6, <2>2, <3>1, Zenon DEF answerOf, Definite
    <3>6. ack[c] = Abstract!Ok(ack[c].seq)
      <4>1. ack[c].st = "ok"
        BY <2>2, <3>1, Zenon
      <4>2. ack[c] \in [st : {"ok"}, seq : Nat \ {0}]
        BY <3>3, <4>1 DEF Answers, NoAnswer, Err, Definite
      <4> QED BY <4>2, Zenon DEF Abstract!Ok
    <3>7. PICK n \in 1 .. Len(log) : n = ack[c].seq
      BY <3>2, Zenon
    <3>8. DOMAIN absLog = 1 .. Len(log) /\ Len(absLog) = Len(log)
      BY LogEntry, absLogSeq
    <3>9. /\ n \in 1 .. Len(absLog) /\ absLog[n] = c
          /\ \A i \in n + 1 .. Len(absLog) : absLog[i] # c
      <4>1. \A i \in 1 .. Len(log) : absLog[i] = log[i].call
        BY Zenon DEF absLog
      <4>2. \A i \in n + 1 .. Len(log) : i \in 1 .. Len(log) /\ ~(i <= n)
        <5>1. Len(log) \in Nat /\ n \in 1 .. Len(log)
          BY <3>7, LogEntry, Zenon
        <5> QED BY <5>1
      <4> QED BY <3>2, <3>7, <3>8, <4>1, <4>2, Zenon
    <3>10. absAnswer[c] = Abstract!Pending /\ absAnswer' = [absAnswer EXCEPT ![c] = Abstract!Ok(n)]
      BY <1>2, <1>4, <3>4, <3>5, <3>6, <3>7, Zenon
    <3>11. Abstract!Return(c)
      BY <1>2, <3>9, <3>10, Zenon DEF Abstract!Return, absLog, absAnswer
    <3> QED BY <3>11, Zenon DEF Abstract!Next
  <2>3. CASE result'[c].st \in Definite
    <3>1. answerOf(c)' = Abstract!Refused
      BY <1>6, <2>3, Zenon DEF answerOf, Abstract!Refused, Definite
    <3>2. ~Written(c)
      <4>1. (RefusedIsAbsent)'
        BY CallerStep, Zenon
      <4> QED BY <1>1, <2>3, <4>1, Zenon DEF RefusedIsAbsent, Written
    <3>3. Abstract!Return(c)
      BY <1>2, <1>3, <1>4, <2>1, <3>1, <3>2, Zenon DEF Abstract!Return, absLog, absAnswer
    <3> QED BY <3>3, Zenon DEF Abstract!Next
  <2>4. CASE result'[c].st # "ok" /\ result'[c].st \notin Definite
    <3>1. answerOf(c)' = Abstract!Unknown
      BY <1>6, <2>4, Zenon DEF answerOf, Abstract!Unknown, Definite
    <3>2. Abstract!Return(c)
      BY <1>2, <1>4, <2>1, <3>1, Zenon DEF Abstract!Return, absLog, absAnswer
    <3> QED BY <3>2 DEF Abstract!Next
  <2> QED BY <2>2, <2>3, <2>4, Zenon
<1> QED BY <1>5, <1>6, Zenon DEF Submit, AdmitClosed, AdmitCancelled, awaitAck, Finish, TypeOK

LEMMA WriteRefines ==
    ASSUME IInv, Writable, log' = log \o Prepared, UNCHANGED <<op, result, pc>>
    PROVE  Abstract!Next
<1> USE DEF IInv
<1>1. /\ cur \in Calls /\ ~Written(cur)
      /\ pc[cur] = "queued" /\ ack[cur] = NoAnswer
      /\ Len(log) \in Nat /\ Len(log') = Len(log) + Size(cur) /\ Size(cur) \in Nat \ {0}
      /\ op[cur].kind = "batch" => Len(log) = 0
      /\ \A i \in 1 .. Len(log) : log'[i] = log[i]
      /\ \A i \in Len(log) + 1 .. Len(log') : log'[i].call = cur
  BY WriteStep, Zenon
<1>2. absAnswer' = absAnswer /\ absAnswer[cur] = Abstract!Pending /\ ~Abstract!Written(cur)
  BY <1>1, LogEntry DEF absAnswer, answerOf, Abstract!Pending, Abstract!Written, Written
<1>3. absLog \in Seq(Calls) /\ Len(absLog) = Len(log)
  BY absLogSeq, Zenon
<1>c. PICK c \in Calls : c = cur
  BY <1>1, Zenon
<1>4. CASE op[cur].kind # "batch"
  <2>1. Len(log') = Len(log) + 1
    BY <1>1, <1>4, Zenon DEF Size
  <2>2. absLog' = Append(absLog, c)
    <3>1. absLog' \in Seq(Calls) /\ Len(absLog') = Len(log) + 1
      <4>1. log' \in Seq(Record) /\ \A i \in 1 .. Len(log') : log'[i].call \in Calls
        <5>1. log' \in Seq(Record)
          BY WriteStep, Zenon
        <5>2. \A i \in 1 .. Len(log') : log'[i] \in Record
          BY <5>1
        <5> QED BY <5>1, <5>2, Zenon DEF Record
      <4>2. absLog' \in [1 .. Len(log) + 1 -> Calls]
        <5>1. absLog' = [i \in 1 .. Len(log) + 1 |-> log'[i].call] /\ \A i \in 1 .. Len(log) + 1 : log'[i].call \in Calls
          BY <2>1, <4>1, Zenon DEF absLog
        <5> QED BY <5>1, Zenon
      <4>3. Len(log) + 1 \in Nat
        BY <1>1
      <4> QED BY <4>2, <4>3, SegmentIsSequence, Zenon
    <3>a. /\ Append(absLog, c) \in Seq(Calls) /\ Len(Append(absLog, c)) = Len(absLog) + 1
          /\ \A i \in 1 .. Len(absLog) : Append(absLog, c)[i] = absLog[i]
          /\ Append(absLog, c)[Len(absLog) + 1] = c
      <4>1. absLog \in Seq(Calls)
        BY <1>3, Zenon
      <4> HIDE DEF absLog
      <4> QED BY <4>1, Appended, Zenon
    <3>2. Append(absLog, c) \in Seq(Calls) /\ Len(Append(absLog, c)) = Len(log) + 1
      BY <1>3, <3>a, Zenon
    <3>3. \A i \in 1 .. Len(log) : absLog'[i] = absLog[i]
      BY <1>1, <2>1 DEF absLog
    <3>4. absLog'[Len(log) + 1] = c
      BY <1>1, <1>c, <2>1 DEF absLog
    <3>5. \A i \in 1 .. Len(log) : Append(absLog, c)[i] = absLog[i]
      BY <1>3, <3>a, Zenon
    <3>6. Append(absLog, c)[Len(log) + 1] = c
      BY <1>3, <3>a, Zenon
    <3>7. \A i \in 1 .. Len(log) + 1 : absLog'[i] = Append(absLog, c)[i]
      <4>1. \A i \in 1 .. Len(log) + 1 : i \in 1 .. Len(log) \/ i = Len(log) + 1
        BY <1>1
      <4> QED BY <3>3, <3>4, <3>5, <3>6, <4>1, Zenon
    <3> QED BY <3>1, <3>2, <3>7, SameSequence, Zenon
  <2>3. Abstract!Commit(c)
    BY <1>2, <1>c, <2>2, Zenon DEF Abstract!Commit, absLog, absAnswer
  <2> QED BY <2>3, Zenon DEF Abstract!Next
<1>5. CASE op[cur].kind = "batch"
  <2>1. Len(log) = 0 /\ Len(log') = BatchLen
    BY <1>1, <1>5, BatchAssumption DEF Size
  <2>2. absLog = <<>>
    BY <1>3, <2>1
  <2>3. absLog' = [i \in 1 .. BatchLen |-> c]
    BY <1>1, <1>c, <2>1 DEF absLog
  <2>4. Abstract!Commit(c)
    BY <1>2, <1>c, <2>2, <2>3, Zenon DEF Abstract!Commit, absLog, absAnswer
  <2> QED BY <2>4 DEF Abstract!Next
<1> QED BY <1>4, <1>5, Zenon

LEMMA CrashRefines ==
    ASSUME TypeOK, Crash
    PROVE  Abstract!Next
<1>1. absLog' = absLog
  BY Zenon DEF Crash, absLog
<1>2. \A c \in Calls : answerOf(c)' = IF answerOf(c) = Abstract!Pending THEN Abstract!Unknown ELSE answerOf(c)
  <2> SUFFICES ASSUME NEW c \in Calls
               PROVE  answerOf(c)' = IF answerOf(c) = Abstract!Pending THEN Abstract!Unknown ELSE answerOf(c)
    BY Zenon
  <2>1. CASE pc[c] \in {"admit", "queued"}
    <3>1. pc'[c] = "done" /\ result'[c] = Err("lost")
      BY <2>1, Zenon DEF Crash
    <3>2. answerOf(c)' = Abstract!Unknown
      BY <3>1 DEF answerOf, Err, Definite, Abstract!Unknown
    <3>3. answerOf(c) = Abstract!Pending
      BY <2>1, Zenon DEF answerOf, Abstract!Pending
    <3> QED BY <3>2, <3>3, Zenon
  <2>2. CASE pc[c] \notin {"admit", "queued"}
    <3>1. pc'[c] = pc[c] /\ result'[c] = result[c]
      BY <2>2, Zenon DEF Crash
    <3>2. answerOf(c)' = answerOf(c)
      BY <3>1, Zenon DEF answerOf
    <3>3. answerOf(c).st # "pending"
      BY <2>2, Zenon DEF answerOf, TypeOK
    <3> QED BY <3>2, <3>3 DEF Abstract!Pending
  <2> QED BY <2>1, <2>2, Zenon
<1>3. Abstract!Die
  BY <1>1, <1>2, Zenon DEF Abstract!Die, absLog
<1> QED BY <1>3, Zenon DEF Abstract!Next

\* Every call takes effect at one instant between its invocation and its
\* answer: the writer with its queue, draining, store failures, crashes and
\* resumes is an implementation of the abstract log.
THEOREM WriterImplementsEventLog == Spec => ImplementsEventLog
<1>1. Init => Abstract!Init
  <2> SUFFICES ASSUME Init PROVE Abstract!Init
    OBVIOUS
  <2>1. absLog = <<>>
    <3>1. Len(log) = 0
      BY Zenon DEF Init
    <3>2. TypeOK
      BY InitInv, Zenon DEF IInv
    <3> QED BY <3>1, <3>2, absLogSeq
  <2>2. \A c \in Calls : answerOf(c) = Abstract!Idle
    BY Zenon DEF Init, answerOf, Abstract!Idle
  <2> QED BY <2>1, <2>2, Zenon DEF Abstract!Init, absLog
<1>2. IInv /\ [Next]_vars => [Abstract!Next]_(Abstract!vars)
  <2> SUFFICES ASSUME IInv, [Next]_vars PROVE [Abstract!Next]_(Abstract!vars)
    BY Zenon
  <2>1. CASE UNCHANGED vars
    BY <2>1, StutterStep, Zenon DEF vars
  <2>2. ASSUME NEW c \in Calls, (\E o \in Ops : Submit(c, o)) \/ AdmitClosed(c) \/ AdmitCancelled(c) \/ awaitAck(c)
        PROVE  Abstract!Next
    BY <2>2, CallerRefines, Zenon
  <2>3. ASSUME NEW c \in Calls, Admit(c)
        PROVE  UNCHANGED Abstract!vars
    <3>1. \A d \in Calls : answerOf(d)' = answerOf(d)
      BY <2>3 DEF Admit, answerOf, IInv, TypeOK
    <3> QED BY <2>3, <3>1, Zenon DEF Admit, Abstract!vars
  <2>4. CASE Close \/ Dequeue \/ BeginDrain \/ EndDrain \/ Refuse \/ Acknowledge \/ NewWriter
    BY <2>4, StutterStep, Zenon DEF Close, Dequeue, BeginDrain, EndDrain, Refuse, Acknowledge, NewWriter, callerVars
  <2>5. CASE Commit
    BY <2>5, WriteRefines, Zenon DEF Commit, callerVars
  <2>6. CASE CommitFails
    BY <2>6, WriteRefines, StutterStep, Zenon DEF CommitFails, callerVars
  <2>7. CASE Crash
    BY <2>7, CrashRefines, Zenon DEF IInv
  <2> QED BY <2>1, <2>2, <2>3, <2>4, <2>5, <2>6, <2>7, Zenon DEF Next, Loop
<1> QED BY InitInv, StepInv, <1>1, <1>2, PTL DEF Spec, Abstract!Spec, ImplementsEventLog
=============================================================================
