--------------------------- MODULE SessionReaders ---------------------------
(***************************************************************************)
(* The readers of a session log, beside the writer that extends it:         *)
(* events_tail of the control socket (seams/approvalrelay/session.go), which *)
(* reads the log anew for every page, Replay (core/logd/replay.go), and Fork *)
(* (core/logd/fork.go), which copies a prefix into a destination log.  The   *)
(* destination is used through what EventLog promises of InitBatch: all of   *)
(* the batch at once, or nothing.                                            *)
(***************************************************************************)
EXTENDS LogWriter, Integers, SequencesExt, FiniteSetsExt

CONSTANTS
    Settings,      \* [session, reader]: what the calls submit, a function from Calls to
                   \* BatchLen events each, and who reads: "tail" or "fork"
    PageLimit,     \* maxTailEventsPerResult
    MaxInt         \* math.MaxInt64

ASSUME LimitAssumption == PageLimit \in Nat \ {0} /\ MaxInt \in Nat
ASSUME SettingsAssumption == \A s \in Settings : \A c \in Calls : Len(s.session[c]) = BatchLen

VARIABLES
    setting,       \* one of Settings, fixed
    tail,          \* [from, got]: a client of events_tail: its cursor and the events so far
    fork,          \* [pc, batch]: a call of Fork
    dst            \* its destination log

readerVars == <<setting, tail, fork, dst>>
allVars == <<vars, readerVars>>

Trace == "trace"        \* the session's
ForkTrace == "fork"     \* newTraceID
OtherTrace == "other"   \* somebody else's in the destination
Directions == {"in", "out"}

\* The record as ReadFrom returns it: the envelope around the payload of its call.
Event(r) ==
    LET payload == setting.session[r.call][IF op[r.call].kind = "batch" THEN r.seq ELSE 1] IN
    [seq |-> r.seq, trace |-> Trace] @@ payload
Events == [i \in DOMAIN log |-> Event(log[i])]

ReaderInit ==
    /\ Init
    /\ setting \in Settings
    /\ tail = [from |-> 0, got |-> <<>>]
    /\ fork = [pc |-> "idle", batch |-> <<>>]
    /\ dst = <<>>

----------------------------------------------------------------------------
\* ProjectSession.

\* addChecked, addUsage: -1 stands for the error.
addChecked(total, v) == IF total < 0 \/ v < 0 \/ total > MaxInt - v THEN -1 ELSE total + v

Terminal(e) == e.kind \in {"subagent/done", "session/end"}

validEnvelope(e, i, trace) == e.seq = i /\ e.trace = trace

\* The status after one more event.
projectStatus(st, e) ==
    LET usage == [d \in Directions |-> addChecked(st.usage[d], e.usage[d])]
        first == Terminal(e) /\ st.state # "exited"
    IN  [state |-> CASE Terminal(e) -> "exited"
                     [] e.kind = "subagent/spawn" /\ st.state = "pending" -> "running"
                     [] OTHER -> st.state,
         done |-> IF first THEN e.done ELSE st.done,
         terminal |-> IF first THEN e.seq ELSE st.terminal,
         last |-> e.seq, usage |-> usage]

Pending == [state |-> "pending", done |-> "none", terminal |-> 0, last |-> 0, usage |-> [d \in Directions |-> 0]]

\* Slip: the cursor moves to the end of the log, past what the page left out.
pageEndLast(events, from, page) == Len(events)

pageEnd(events, from, page) == IF page = <<>> THEN from ELSE Last(page).seq

ProjectSession(events, trace, from) ==
    LET st == FoldLeft(projectStatus, Pending, events)
        rest == SelectSeq(events, LAMBDA e : e.seq > from)
        page == SubSeq(rest, 1, Min({PageLimit, Len(rest)}))
    IN  IF (\E i \in DOMAIN events : ~validEnvelope(events[i], i, trace)) \/ (\E d \in Directions : st.usage[d] < 0)
        THEN [status |-> "error"]
        ELSE [status |-> "ok", events |-> page, next |-> pageEnd(events, from, page),
              more |-> Len(rest) > PageLimit, session |-> st]

\* handleEventsTail: one read of the whole log, answered with a page, from which
\* the client goes on.  The server keeps nothing: after an answer that is lost
\* or an error the client asks again from the same cursor.
handleEventsTail ==
    /\ setting.reader = "tail" /\ loopPc # "down"
    /\ LET answer == ProjectSession(Events, Trace, tail.from) IN
       /\ answer.status = "ok"
       /\ tail' = [from |-> answer.next, got |-> tail.got \o answer.events]
    /\ UNCHANGED <<vars, setting, fork, dst>>

----------------------------------------------------------------------------
\* Replay.

Roles == {"user/message", "assistant/message", "tool/call", "tool/result", "subagent/done"}

\* The sums an event counts in: all, its actor's, its span's, and both together.
AccountsOf(e) == {<<"all">>, <<"actor", e.actor>>, <<"span", e.span>>, <<"both", e.span, e.actor>>}

Accounts(events) == UNION {AccountsOf(events[i]) : i \in DOMAIN events}

\* Only the root span speaks to the parent model, and the final result of a child.
appendMessage(s, e) ==
    IF e.kind \in Roles /\ (e.kind = "subagent/done" \/ e.span = s.root)
    THEN Append(s.messages, [seq |-> e.seq, role |-> e.kind, span |-> e.span, content |-> e.content])
    ELSE s.messages

\* Slip: the origin is that of the last session/fork.
originLast(s, e) == IF e.kind = "session/fork" THEN e.origin ELSE s.origin

\* The first session/fork is this session's own; later ones are copied history.
originOf(s, e) == IF e.kind = "session/fork" /\ s.origin.seq = 0 THEN e.origin ELSE s.origin

Count(n, e, kind) == IF e.kind = kind THEN n + 1 ELSE n

replayEvent(s, e) ==
    LET usage == [a \in DOMAIN s.usage |->
                    IF a \in AccountsOf(e) THEN [d \in Directions |-> addChecked(s.usage[a][d], e.usage[d])]
                    ELSE s.usage[a]]
    IN  [err |-> s.err \/ e.seq <= s.last \/ e.trace # s.trace
                       \/ \E a \in DOMAIN usage : \E d \in Directions : usage[a][d] < 0,
         trace |-> s.trace, root |-> s.root, last |-> e.seq, usage |-> usage,
         origin |-> originOf(s, e), ended |-> s.ended \/ e.kind = "session/end",
         turns |-> Count(s.turns, e, "turn/start"), steps |-> Count(s.steps, e, "step/start"),
         spawns |-> Count(s.spawns, e, "subagent/spawn"), messages |-> appendMessage(s, e)]

NoOrigin == [trace |-> "none", seq |-> 0]

\* The derived state of a log that is not empty; err: it is refused.
Replay(events) ==
    FoldLeft(replayEvent,
        [err |-> FALSE, trace |-> events[1].trace, root |-> events[1].span, last |-> 0,
         usage |-> [a \in Accounts(events) |-> [d \in Directions |-> 0]],
         origin |-> NoOrigin, ended |-> FALSE, turns |-> 0, steps |-> 0, spawns |-> 0, messages |-> <<>>],
        events)

----------------------------------------------------------------------------
\* Fork.

Plain(kind, trace, span) ==
    [kind |-> kind, trace |-> trace, span |-> span, actor |-> "parent", content |-> "none", done |-> "none",
     usage |-> [d \in Directions |-> 0], origin |-> NoOrigin]

forkRecord(events, at) ==
    [Plain("session/fork", ForkTrace, events[1].span) EXCEPT !.origin = [trace |-> events[1].trace, seq |-> at]]

Cut(events, at) == SelectSeq(events, LAMBDA e : e.seq <= at)

ForkPoint(events, at) == at >= 1 /\ \E i \in DOMAIN events : events[i].seq = at

\* Read the source, check the point and build the batch.
forkRead(at) ==
    /\ setting.reader = "fork" /\ fork.pc = "idle" /\ loopPc # "down"
    /\ \/ /\ ForkPoint(Events, at)
          /\ LET cut == Cut(Events, at) IN
             fork' = [pc |-> "init", batch |->
                        <<forkRecord(Events, at)>> \o [i \in DOMAIN cut |-> [cut[i] EXCEPT !.trace = ForkTrace]]]
       \/ ~ForkPoint(Events, at) /\ fork' = [fork EXCEPT !.pc = "refused"]
    /\ UNCHANGED <<vars, setting, tail, dst>>

\* dst.InitBatch: the destination's writer issues the seqs; its store may fail.
forkInit ==
    /\ fork.pc = "init"
    /\ \/ /\ dst = <<>>
          /\ dst' = [i \in DOMAIN fork.batch |-> [seq |-> i] @@ fork.batch[i]]
          /\ fork' = [pc |-> "ok", batch |-> <<>>]
       \/ fork' = [pc |-> "refused", batch |-> <<>>] /\ UNCHANGED dst
    /\ UNCHANGED <<vars, setting, tail>>

\* Somebody else starts a session in the same destination, after Fork has read
\* the source (before that it makes no difference).
dstSubmit ==
    /\ fork.pc = "init" /\ dst = <<>>
    /\ dst' = <<[seq |-> 1] @@ Plain("session/start", OtherTrace, "root")>>
    /\ UNCHANGED <<vars, setting, tail, fork>>

----------------------------------------------------------------------------
Writes == Next /\ UNCHANGED readerVars

Reads ==
    \/ handleEventsTail
    \/ (\E at \in 0 .. Len(log) + 1 : forkRead(at)) \/ forkInit \/ dstSubmit

ReaderNext == Writes \/ Reads

ReaderSpec == ReaderInit /\ [][ReaderNext]_allVars

\* Fairness as for the writer alone; nobody has to read.
FairReaderSpec == ReaderSpec /\ Fairness

----------------------------------------------------------------------------
\* Properties.

Total(events, d) == FoldLeft(LAMBDA n, e : n + e.usage[d], 0, events)
Overflows(events) == \E d \in Directions : Total(events, d) > MaxInt

\* What a log says of its session, said without a fold.
Status(events) ==
    LET ends == {i \in DOMAIN events : Terminal(events[i])} IN
    [state |-> CASE ends # {} -> "exited"
                 [] \E i \in DOMAIN events : events[i].kind = "subagent/spawn" -> "running"
                 [] OTHER -> "pending",
     done |-> IF ends = {} THEN "none" ELSE events[Min(ends)].done,
     terminal |-> IF ends = {} THEN 0 ELSE Min(ends),
     last |-> Len(events), usage |-> [d \in Directions |-> Total(events, d)]]

\* The pages of events_tail, joined by their cursors, are the log: no event is
\* skipped or repeated, whatever is appended between the calls.  An answer says
\* "no more" only at the end of the log, and its status is that of the log:
\* exited with the first terminal record, the whole usage.  A sum that does not
\* fit is refused by events_tail and by Replay, and both report the same totals.
TailIsTrue ==
    LET events == Events
        answer == ProjectSession(events, Trace, tail.from)
        replay == Replay(events)
    IN  /\ IsPrefix(tail.got, events) /\ tail.from = Len(tail.got)
        /\ answer.status = "error" <=> Overflows(events)
        /\ answer.status = "ok" => answer.session = Status(events) /\ (answer.more <=> answer.next < Len(events))
        /\ log # <<>> => /\ replay.err <=> Overflows(events)
                         /\ ~replay.err => replay.usage[<<"all">>] = answer.session.usage

\* A fork replays like its origin at the fork point: the same messages, sums and
\* counts, under its own trace, with its own origin even when the source is a
\* fork itself, and however the source grows meanwhile; a destination somebody
\* else has begun stays theirs (FR-LOG-05).
ForkReplays ==
    dst # <<>> =>
        LET s == Replay(dst)
            at == s.origin.seq
            o == Replay(SubSeq(Events, 1, at))
        IN  \/ fork.pc # "ok" /\ ~s.err /\ s.trace = OtherTrace /\ s.last = 1
            \/ /\ fork.pc = "ok" /\ s.trace = ForkTrace /\ s.origin.trace = Trace /\ at \in DOMAIN log
               /\ s.err = o.err /\ s.last = at + 1
               /\ s.root = o.root /\ s.ended = o.ended
               /\ <<s.turns, s.steps, s.spawns>> = <<o.turns, o.steps, o.spawns>>
               /\ \A a \in DOMAIN o.usage : s.usage[a] = o.usage[a]
               /\ s.messages = [i \in DOMAIN o.messages |-> [o.messages[i] EXCEPT !.seq = @ + 1]]
=============================================================================
