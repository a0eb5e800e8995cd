------------------------------ MODULE LogWriter ------------------------------
(***************************************************************************)
(* core/logd/writer.go: the single writer of a session log.  Callers pass  *)
(* two checks, are admitted to a bounded queue and wait for an ack; one    *)
(* goroutine issues seq numbers and commits; Close drains; a store failure *)
(* is terminal; a process may die between any two steps and a new writer   *)
(* resumes after the last durable seq.                                     *)
(***************************************************************************)
EXTENDS Naturals, Sequences

CONSTANTS Calls,       \* calls of Submit or InitBatch, each made once
          QueueCap,    \* capacity of Writer.queue (WithQueueCap)
          BatchLen,    \* records in an InitBatch call
          MaxCrashes,  \* bound: how often the process dies
          None         \* no call

ASSUME CapAssumption   == QueueCap \in Nat \ {0}
ASSUME BatchAssumption == BatchLen \in Nat \ {0}
ASSUME CrashAssumption == MaxCrashes \in Nat
ASSUME NoneAssumption  == None \notin Calls

VARIABLES
    log,        \* the store, in commit order; each record keeps its issued seq
    nextSeq,    \* the loop's local nextSeq
    queue,      \* Writer.queue
    closing,    \* Writer.closing is closed
    terminal,   \* Writer.terminalErr # nil
    loopPc,     \* run | drain | done (drained is closed) | down (no process)
    cur,        \* the submission process() is working on
    committed,  \* cur is durable and its ack not yet sent
    pc,         \* per call: idle | admit | queued | done
    op,         \* per call: what is submitted
    ack,        \* per call: the content of its ack channel (capacity 1)
    result,     \* per call: what Submit or InitBatch returned
    crashes     \* how often the process has died

loopVars   == <<nextSeq, loopPc, cur, committed>>
callerVars == <<pc, op, result>>
vars == <<log, nextSeq, queue, closing, terminal, loopPc, cur, committed,
          pc, op, ack, result, crashes>>

Ops == [kind : {"submit", "batch"}, valid : BOOLEAN]

Record == [call : Calls, seq : Nat \ {0}]

NoAnswer == [st |-> "none", seq |-> 0]
Ok(s)    == [st |-> "ok", seq |-> s]
Err(e)   == [st |-> e, seq |-> 0]

\* errors after which the caller knows that nothing of its call is in the log
Definite == {"closed", "cancelled", "rejected", "notEmpty"}
Answers  == {NoAnswer} \cup [st : {"ok"}, seq : Nat \ {0}]
              \cup {Err(e) : e \in Definite \cup {"terminal", "lost"}}

drained == loopPc = "done"

Init ==
    /\ log = <<>>
    /\ nextSeq = 1
    /\ queue = <<>>
    /\ closing = FALSE /\ terminal = FALSE
    /\ loopPc = "run" /\ cur = None /\ committed = FALSE
    /\ pc = [c \in Calls |-> "idle"]
    /\ op = [c \in Calls |-> [kind |-> "submit", valid |-> TRUE]]
    /\ ack = [c \in Calls |-> NoAnswer]
    /\ result = [c \in Calls |-> NoAnswer]
    /\ crashes = 0

----------------------------------------------------------------------------
\* Callers.

Finish(c, r) ==
    /\ pc' = [pc EXCEPT ![c] = "done"]
    /\ result' = [result EXCEPT ![c] = r]

\* Entry checks of Submit and InitBatch, then the admission select.
Submit(c, o) ==
    /\ loopPc # "down"
    /\ pc[c] = "idle"
    /\ op' = [op EXCEPT ![c] = o]
    /\ \/ terminal /\ Finish(c, Err("terminal"))
       \/ ~terminal /\ closing /\ Finish(c, Err("closed"))
       \/ /\ ~terminal /\ ~closing
          /\ pc' = [pc EXCEPT ![c] = "admit"]
          /\ UNCHANGED result
    /\ UNCHANGED <<log, queue, closing, terminal, ack, crashes>>
    /\ UNCHANGED loopVars

Admit(c) ==
    /\ pc[c] = "admit"
    /\ Len(queue) < QueueCap
    /\ queue' = Append(queue, c)
    /\ pc' = [pc EXCEPT ![c] = "queued"]
    /\ UNCHANGED <<log, closing, terminal, op, ack, result, crashes>>
    /\ UNCHANGED loopVars

\* The other two cases of the admission select.
AdmitClosed(c) ==
    /\ pc[c] = "admit"
    /\ closing
    /\ Finish(c, Err("closed"))
    /\ UNCHANGED <<log, queue, closing, terminal, op, ack, crashes>>
    /\ UNCHANGED loopVars

AdmitCancelled(c) ==
    /\ pc[c] = "admit"
    /\ Finish(c, Err("cancelled"))
    /\ UNCHANGED <<log, queue, closing, terminal, op, ack, crashes>>
    /\ UNCHANGED loopVars

\* Slips: drop the re-check of ack once closing is seen; forget drained; let
\* the caller's ctx end the wait of an admitted submission.
awaitAckNoRecheck(c) ==
    /\ pc[c] = "queued"
    /\ \/ ack[c] # NoAnswer /\ Finish(c, ack[c])
       \/ closing /\ Finish(c, Err("closed"))
    /\ UNCHANGED <<log, queue, closing, terminal, op, ack, crashes>>
    /\ UNCHANGED loopVars

awaitAckOnly(c) ==
    /\ pc[c] = "queued"
    /\ ack[c] # NoAnswer /\ Finish(c, ack[c])
    /\ UNCHANGED <<log, queue, closing, terminal, op, ack, crashes>>
    /\ UNCHANGED loopVars

awaitAckOrCtx(c) ==
    /\ pc[c] = "queued"
    /\ Finish(c, IF ack[c] # NoAnswer THEN ack[c] ELSE Err("cancelled"))
    /\ UNCHANGED <<log, queue, closing, terminal, op, ack, crashes>>
    /\ UNCHANGED loopVars

awaitAck(c) ==
    /\ pc[c] = "queued"
    /\ \/ ack[c] # NoAnswer /\ Finish(c, ack[c])
       \/ ack[c] = NoAnswer /\ drained /\ Finish(c, Err("closed"))
    /\ UNCHANGED <<log, queue, closing, terminal, op, ack, crashes>>
    /\ UNCHANGED loopVars

Close ==
    /\ loopPc # "down"
    /\ ~closing
    /\ closing' = TRUE
    /\ UNCHANGED <<log, queue, terminal, ack, crashes>>
    /\ UNCHANGED <<loopVars, callerVars>>

----------------------------------------------------------------------------
\* The writer goroutine.

\* Receive from the queue, in the main select or while draining.
Dequeue ==
    /\ loopPc \in {"run", "drain"}
    /\ cur = None
    /\ queue # <<>>
    /\ cur' = Head(queue)
    /\ queue' = Tail(queue)
    /\ UNCHANGED <<log, nextSeq, closing, terminal, loopPc, committed, ack, crashes>>
    /\ UNCHANGED callerVars

\* The main select may prefer closing to a non-empty queue.
BeginDrain ==
    /\ loopPc = "run"
    /\ cur = None
    /\ closing
    /\ loopPc' = "drain"
    /\ UNCHANGED <<log, nextSeq, queue, closing, terminal, cur, committed, ack, crashes>>
    /\ UNCHANGED callerVars

EndDrain ==
    /\ loopPc = "drain"
    /\ cur = None
    /\ queue = <<>>
    /\ loopPc' = "done"
    /\ UNCHANGED <<log, nextSeq, queue, closing, terminal, cur, committed, ack, crashes>>
    /\ UNCHANGED callerVars

Answer(r) ==
    /\ ack' = [ack EXCEPT ![cur] = r]
    /\ cur' = None

\* Slip: a rejected envelope still consumes its seq.
RefuseConsumesSeq ==
    /\ cur # None /\ ~committed
    /\ ~terminal /\ ~op[cur].valid
    /\ Answer(Err("rejected"))
    /\ nextSeq' = nextSeq + 1
    /\ UNCHANGED <<log, queue, closing, terminal, loopPc, committed, crashes>>
    /\ UNCHANGED callerVars

\* process() refuses before anything is written.
Refuse ==
    /\ cur # None /\ ~committed
    /\ \/ terminal /\ Answer(Err("terminal"))
       \/ ~terminal /\ op[cur].kind = "batch" /\ nextSeq # 1 /\ Answer(Err("notEmpty"))
       \/ /\ ~terminal /\ ~op[cur].valid
          /\ op[cur].kind = "batch" => nextSeq = 1
          /\ Answer(Err("rejected"))
    /\ UNCHANGED <<log, nextSeq, queue, closing, terminal, loopPc, committed, crashes>>
    /\ UNCHANGED callerVars

\* The submission process() will try to write.
Writable ==
    /\ cur # None /\ ~committed
    /\ ~terminal
    /\ op[cur].valid
    /\ op[cur].kind = "batch" => nextSeq = 1

\* prepare(): the records of the current submission with their issued seqs.
Prepared ==
    IF op[cur].kind = "batch"
    THEN [i \in 1 .. BatchLen |-> [call |-> cur, seq |-> i]]
    ELSE <<[call |-> cur, seq |-> nextSeq]>>

\* Store.Append or Store.AppendBatch returns nil: durable, ack still to come.
Commit ==
    /\ Writable
    /\ log' = log \o Prepared
    /\ committed' = TRUE
    /\ UNCHANGED <<nextSeq, queue, closing, terminal, loopPc, cur, ack, crashes>>
    /\ UNCHANGED callerVars

\* The store reports an error.  AppendBatch then left nothing behind; an error
\* of Append says nothing about the record.
CommitFails ==
    /\ Writable
    /\ \/ UNCHANGED log
       \/ op[cur].kind = "submit" /\ log' = log \o Prepared
    /\ terminal' = TRUE
    /\ Answer(Err("terminal"))
    /\ UNCHANGED <<nextSeq, queue, closing, loopPc, committed, crashes>>
    /\ UNCHANGED callerVars

Acknowledge ==
    /\ committed
    /\ nextSeq' = nextSeq + (IF op[cur].kind = "batch" THEN BatchLen ELSE 1)
    /\ committed' = FALSE
    /\ Answer(Ok(nextSeq' - 1))
    /\ UNCHANGED <<log, queue, closing, terminal, loopPc, crashes>>
    /\ UNCHANGED callerVars

----------------------------------------------------------------------------
\* The process dies and a new one opens the same store.

Crash ==
    /\ loopPc # "down"
    /\ crashes < MaxCrashes
    /\ crashes' = crashes + 1
    /\ loopPc' = "down"
    /\ queue' = <<>> /\ cur' = None /\ committed' = FALSE
    /\ pc' = [c \in Calls |-> IF pc[c] \in {"admit", "queued"} THEN "done" ELSE pc[c]]
    /\ result' = [c \in Calls |-> IF pc[c] \in {"admit", "queued"}
                                  THEN Err("lost") ELSE result[c]]
    /\ UNCHANGED <<log, nextSeq, closing, terminal, op, ack>>

NewWriter ==
    /\ loopPc = "down"
    /\ loopPc' = "run"
    /\ nextSeq' = IF log = <<>> THEN 1 ELSE log[Len(log)].seq + 1
    /\ closing' = FALSE /\ terminal' = FALSE
    /\ UNCHANGED <<log, queue, cur, committed, ack, crashes>>
    /\ UNCHANGED callerVars

Loop == Dequeue \/ BeginDrain \/ EndDrain \/ Refuse \/ Commit \/ CommitFails \/ Acknowledge

Next ==
    \/ \E c \in Calls :
         \/ \E o \in Ops : Submit(c, o)
         \/ Admit(c) \/ AdmitClosed(c) \/ AdmitCancelled(c) \/ awaitAck(c)
    \/ Close
    \/ Loop
    \/ Crash \/ NewWriter

Spec == Init /\ [][Next]_vars

\* The Go scheduler runs the loop goroutine and every caller that can move.
Fairness ==
    /\ WF_vars(Loop)
    /\ WF_vars(NewWriter)
    /\ \A c \in Calls : WF_vars(Admit(c) \/ AdmitClosed(c)) /\ WF_vars(awaitAck(c))

FairSpec == Spec /\ Fairness

----------------------------------------------------------------------------
\* Properties.

TypeOK ==
    /\ log \in Seq(Record)
    /\ nextSeq \in Nat \ {0}
    /\ queue \in Seq(Calls)
    /\ closing \in BOOLEAN /\ terminal \in BOOLEAN /\ committed \in BOOLEAN
    /\ loopPc \in {"run", "drain", "done", "down"}
    /\ cur \in Calls \cup {None}
    /\ pc \in [Calls -> {"idle", "admit", "queued", "done"}]
    /\ op \in [Calls -> Ops]
    /\ ack \in [Calls -> Answers]
    /\ result \in [Calls -> Answers]
    /\ crashes \in 0 .. MaxCrashes

Written(c) == \E i \in 1 .. Len(log) : log[i].call = c

\* The durable log is 1, 2, 3, ... with no gap and no repetition, also after a
\* refused submission, a failed append and any number of crashes and resumes.
SeqContiguous == \A i \in 1 .. Len(log) : log[i].seq = i

\* A seq returned by Submit or InitBatch is a durable record of that very call,
\* and it is the call's last one (core/logd/writer.go: ack only after commit).
AckedIsDurable ==
    \A c \in Calls : result[c].st = "ok" =>
        /\ result[c].seq \in 1 .. Len(log)
        /\ log[result[c].seq].call = c
        /\ \A i \in 1 .. Len(log) : log[i].call = c => i <= result[c].seq

\* ErrClosed, a cancelled admission, a rejected envelope and a non-empty
\* destination all mean that nothing of the call is in the log: only a store
\* failure or the death of the process leaves the caller in doubt.
RefusedIsAbsent ==
    \A c \in Calls : result[c].st \in Definite => ~Written(c)

\* A call is written at most once: one record for Submit, and for InitBatch
\* all of its records, at the front of the log, or none of them.
WrittenOnce ==
    \A i \in 1 .. Len(log) :
        IF op[log[i].call].kind = "batch"
        THEN /\ i <= BatchLen /\ BatchLen <= Len(log)
             /\ \A j \in 1 .. BatchLen : log[j].call = log[i].call
        ELSE \A j \in 1 .. Len(log) : log[j].call = log[i].call => j = i

\* After a store failure this writer never writes again (fail-stop): the log
\* can only grow after a new writer has been opened.
FailStop == [][terminal /\ terminal' => log' = log]_vars

\* What the caller can observe: the abstract log, with the writer as the mapping.
answerOf(c) ==
    CASE pc[c] = "idle" -> [st |-> "idle", seq |-> 0]
      [] pc[c] \in {"admit", "queued"} -> [st |-> "pending", seq |-> 0]
      [] pc[c] = "done" /\ result[c].st = "ok" -> result[c]
      [] pc[c] = "done" /\ result[c].st \in Definite -> [st |-> "refused", seq |-> 0]
      [] OTHER -> [st |-> "unknown", seq |-> 0]

Abstract == INSTANCE EventLog WITH
    log <- [i \in 1 .. Len(log) |-> log[i].call],
    answer <- [c \in Calls |-> answerOf(c)]

\* The writer implements the abstract log: each call takes effect atomically
\* at one instant between its invocation and its answer, and the answer says
\* which seq it got, that it left nothing, or that nobody knows.
ImplementsEventLog == Abstract!Spec

\* Every call that entered the admission select returns, whatever Close, a
\* store failure or a crash does in between, and so does Close: once closing is
\* set the loop drains what it accepted.
CallsReturn ==
    /\ \A c \in Calls : pc[c] \in {"admit", "queued"} ~> pc[c] = "done"
    /\ closing ~> (drained \/ loopPc = "down")

\* writer.go:36 and writer.go:161 say that every submission the queue accepts
\* gets its outcome from the loop, because Close drains all of them.
AcceptedIsProcessed == drained => queue = <<>>
=============================================================================
