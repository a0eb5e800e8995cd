---------------------------- MODULE ProcessOutput ----------------------------
(***************************************************************************)
(* seams/world/local/process_broker.go, output plane, on top of ProcessExit: *)
(* drainAttach reads the pipes of `podman start --attach' in chunks, takes   *)
(* the secrets out of them and forwards the rest; a stream-end frame closes  *)
(* the stream, from the drain, or from forceStoppedStreamEnd when the agent  *)
(* was stopped and its pipe does not end.  One of the two equal streams.     *)
(***************************************************************************)
EXTENDS ProcessExit, FiniteSetsExt, TLC

CONSTANTS
    Letters, MaxText, \* what the agent writes with, and how much at most
    Secrets,    \* literals to take out: nonempty sequences of Letters
    MaxTail,    \* maxRedactionTailBytes
    PipeSize    \* what the agent may have written and nobody has read

\* A setting has also `texts', what the agent may write.  More faults: "held", the pipe is never closed, and
\* "deaf", the client reads no output.  More outside: "leave", the client goes
\* away once it has all it may expect.

VARIABLES
    text,           \* what the agent writes, fixed
    plane,          \* drain: read, write, writing, exit, end, flush, frame,
                    \* framed, over; force: wait, timer, end ... over
    source,         \* [at, chunk, cut]: bytes read, the chunk in hand, pipe closed
    redaction,      \* [fed, tail, covered]: bytes taken, the retained suffix
                    \* and how much of it a marker already stands for
    outgoing,       \* redacted bytes in a blocked Write
    streamEnded,
    peer,           \* watchOutputPeer: watch, over
    outputPeerGone,
    received,       \* [data, end]: what the client was sent
    natural         \* forceStoppedStreamEnd met an exit that nobody asked for

output == <<text, plane, source, redaction, outgoing, streamEnded, peer, outputPeerGone, received, natural>>
outputVars == <<processVars, output>>

Mark == "<redacted>"

\* start launches the drain and forceStoppedStreamEnd.
OutputInit ==
    /\ ProcessInit
    /\ text \in setting.texts
    /\ plane = IF streamDone THEN [drain |-> "over", force |-> "over"] ELSE [drain |-> "read", force |-> "wait"]
    /\ source = [at |-> 0, chunk |-> <<>>, cut |-> FALSE]
    /\ redaction = [fed |-> 0, tail |-> <<>>, covered |-> 0] /\ outgoing = <<>>
    /\ streamEnded = FALSE /\ outputPeerGone = FALSE /\ natural = FALSE
    /\ peer = IF streamDone THEN "over" ELSE "watch"
    /\ received = [data |-> <<>>, end |-> FALSE]

----------------------------------------------------------------------------
\* Redaction.  Positions are offsets from 0; an interval is <<start, end>>.

maxLen == Max({Len(x) : x \in Secrets})
Matches(x, s) == {at \in 0 .. Len(s) - Len(x) : SubSeq(s, at + 1, at + Len(x)) = x}
Covered(s) == UNION {UNION {at .. at + Len(x) - 1 : at \in Matches(x, s)} : x \in Secrets}

\* Intervals that overlap or touch are merged: the runs of covered positions.
mergeRedactionIntervals(s) ==
    LET c == Covered(s)
    IN {g \in c \X (1 .. Len(s)) : /\ \A i \in g[1] .. g[2] - 1 : i \in c
                                   /\ g[1] < g[2] /\ g[1] - 1 \notin c /\ g[2] \notin c}

\* A marker for each group, none for one that the retained prefix begins.
redactIntervalsCovered(s, safeEnd, covered) ==
    LET groups == mergeRedactionIntervals(s)
        inside == Covered(s)
        Shown(i) == CASE i < covered -> <<>>
                      [] i >= covered /\ (\E g \in groups : g[1] = i) -> <<Mark>>
                      [] i >= covered /\ i \notin inside -> <<s[i + 1]>>
                      [] OTHER -> <<>>
    IN MapThenFoldSet(\o, <<>>, Shown, Min, 0 .. safeEnd - 1)

\* Slip: the bytes of a group cut by the forced flush are not remembered.
flushCoveredNone(groups, consumed, flush) == 0

\* How much of the retained suffix belongs to a group whose marker is out.
flushCovered(groups, consumed, flush) ==
    Max({0} \cup {g[2] - consumed - flush : g \in {h \in groups : h[1] - consumed < flush}})

\* A group that reaches the boundary may still grow, and is kept whole.
consumedEnd(groups, safeEnd) ==
    Min({safeEnd} \cup {g[1] : g \in {h \in groups : h[1] < safeEnd /\ h[2] >= safeEnd}})

\* What is forwarded of the retained suffix and a chunk, all, and what is kept.
\* The last maxLen - 1 bytes are retained, for a secret may begin in them; a
\* longer tail than MaxTail is flushed.
Redacted(all, covered) ==
    LET groups == mergeRedactionIntervals(all)
        consumed == consumedEnd(groups, Len(all) - maxLen + 1)
        shown == redactIntervalsCovered(all, consumed, covered)
        rest == SubSeq(all, consumed + 1, Len(all))
        left == Max({0, covered - consumed})
        flush == Len(rest) - maxLen + 1
    IN CASE Len(all) < maxLen -> [tail |-> all, covered |-> covered, shown |-> <<>>]
         [] Len(all) >= maxLen /\ Len(rest) > MaxTail /\ flush > 0 ->
              [tail |-> SubSeq(rest, flush + 1, Len(rest)),
               covered |-> Max({0, left - flush, flushCovered(groups, consumed, flush)}),
               shown |-> shown \o redactIntervalsCovered(rest, flush, left)]
         [] OTHER -> [tail |-> rest, covered |-> left, shown |-> shown]

\* As tables (@@ computes every entry once).
Table(f) == f @@ [s \in {} |-> s]
Strings == UNION {[1 .. n -> Letters] : n \in 0 .. MaxText}
Retained == Strings \X (0 .. MaxText)
redactChunk == Table([r \in Retained |-> Redacted(r[1], Min({r[2], Len(r[1])}))])
redactPayload == Table([r \in Retained |-> redactIntervalsCovered(r[1], Len(r[1]), r[2])])

----------------------------------------------------------------------------
\* The connection.

\* outputMu is held.
Writing == plane.drain \in {"writing", "flush", "frame", "framed"} \/ plane.force \in {"flush", "frame", "framed"}

outputBroken == Broken \/ outputPeerGone
Delivers == ~outputBroken /\ "deaf" \notin setting.faults

To(w, step) == plane' = [plane EXCEPT ![w] = step] /\ streamDone' = (streamDone \/ (w = "drain" /\ step = "over"))
exceptFail == <<podman, started, stopReason, waitResult, waitAcked, ackPending, exitSent,
                obs, ctl, lifecycle, shut, shutErr, wire>>
noFail == UNCHANGED <<brokerClosing, canceled, err, failer>>

\* expectedStopConsumerGone: after a stop the consumer may be gone; else fatal.
drainBreaks ==
    /\ To("drain", "over")
    /\ \/ stopReason /\ outputPeerGone' = TRUE /\ streamEnded' = TRUE /\ noFail
       \/ ~stopReason /\ fail /\ UNCHANGED <<outputPeerGone, streamEnded>>

----------------------------------------------------------------------------
\* drainAttach.

\* What the agent wrote is in the pipe; one that is stopped wrote a part of it.
Pending == source.at < Len(text) /\ ~source.cut /\ box.st # "created"
stopped == box.st = "exited" /\ box.code = Stopped

\* After cancellation the chunk may be dropped instead of forwarded.
readOne ==
    /\ plane.drain = "read" /\ Pending
    /\ \E n \in 1 .. Len(text) - source.at :
          /\ source' = [source EXCEPT !.at = @ + n, !.chunk = SubSeq(text, source.at + 1, source.at + n)]
          /\ To("drain", "write") \/ (canceled /\ To("drain", "exit"))
    /\ noFail
    /\ UNCHANGED <<exceptFail, streamEndReached, text, redaction, outgoing, streamEnded, peer, outputPeerGone,
                   received, natural>>

\* The readers end at the end of the pipe, when it was closed on them, or when
\* they find nothing to read for a stopped agent whose exit is known.
readersEnd ==
    /\ plane.drain = "read"
    /\ \/ source.cut
       \/ /\ ~Pending \/ stopped
          /\ \/ attach = "over" /\ "held" \notin setting.faults
             \/ stopReason /\ waitResult # NoResult
    /\ To("drain", "exit") /\ noFail
    /\ UNCHANGED <<exceptFail, streamEndReached, text, source, redaction, outgoing, streamEnded, peer,
                   outputPeerGone, received, natural>>

\* writeOutput: nothing after the stream end; the Write holds outputMu.
writeOutput ==
    /\ plane.drain = "write" /\ ~Writing
    /\ source' = [source EXCEPT !.chunk = <<>>]
    /\ \/ streamEnded /\ To("drain", "read") /\ UNCHANGED <<redaction, outgoing>>
       \/ /\ ~streamEnded
          /\ LET r == redactChunk[redaction.tail \o source.chunk, redaction.covered]
             IN /\ redaction' = [fed |-> redaction.fed + Len(source.chunk), tail |-> r.tail, covered |-> r.covered]
                /\ outgoing' = r.shown
                /\ To("drain", IF r.shown = <<>> THEN "read" ELSE "writing")
    /\ noFail
    /\ UNCHANGED <<exceptFail, streamEndReached, text, streamEnded, peer, outputPeerGone, received, natural>>
written ==
    /\ plane.drain = "writing" /\ outgoing' = <<>>
    /\ \/ /\ Delivers /\ received' = [received EXCEPT !.data = @ \o outgoing] /\ To("drain", "read")
          /\ noFail /\ UNCHANGED <<streamEnded, outputPeerGone>>
       \/ outputBroken /\ drainBreaks /\ UNCHANGED received
    /\ UNCHANGED <<exceptFail, streamEndReached, text, source, redaction, peer, natural>>

\* waitStartedCommandExit; the attach client is killed after a stop, or when it
\* stays longer than the grace period.
attachExits ==
    /\ plane.drain = "exit"
    /\ \/ attach = "over" /\ To("drain", "end") /\ UNCHANGED attach
       \/ attach \in {"starting", "up"} /\ attach' = Killed(attach) /\ UNCHANGED <<plane, streamDone>>
    /\ noFail
    /\ UNCHANGED <<box, waiter, started, stopReason, waitResult, waitAcked, ackPending, exitSent,
                   obs, ctl, lifecycle, shut, shutErr, wire, streamEndReached, text, source, redaction, outgoing,
                   streamEnded, peer, outputPeerGone, received, natural>>

----------------------------------------------------------------------------
\* sendStreamEnd, by the drain or by forceStoppedStreamEnd: the retained
\* suffix, the frame, and only then the flag.

endTakes(w) ==
    /\ plane[w] = "end" /\ ~Writing
    /\ To(w, CASE streamEnded -> "over" [] redaction.tail # <<>> -> "flush" [] OTHER -> "frame")
    /\ streamEndReached' = (streamEndReached \/ plane'[w] = "frame")
    /\ noFail
    /\ UNCHANGED <<exceptFail, text, source, redaction, outgoing, streamEnded, peer, outputPeerGone, received, natural>>

\* A failing write ends the drain as above; the forced end takes it as fatal.
endFails(w) ==
    /\ outputBroken
    /\ \/ w = "drain" /\ drainBreaks
       \/ w = "force" /\ To(w, "over") /\ fail /\ UNCHANGED <<outputPeerGone, streamEnded>>
endFlushes(w) ==
    /\ plane[w] = "flush"
    /\ \/ /\ Delivers /\ To(w, "frame") /\ streamEndReached' = TRUE
          /\ received' = [received EXCEPT !.data = @ \o redactPayload[redaction.tail, redaction.covered]]
          /\ redaction' = [redaction EXCEPT !.tail = <<>>, !.covered = 0]
          /\ noFail /\ UNCHANGED <<streamEnded, outputPeerGone>>
       \/ endFails(w) /\ UNCHANGED <<received, redaction, streamEndReached>>
    /\ UNCHANGED <<exceptFail, text, source, outgoing, peer, natural>>
endFrame(w) ==
    /\ plane[w] = "frame"
    /\ \/ /\ Delivers /\ To(w, "framed") /\ received' = [received EXCEPT !.end = TRUE]
          /\ noFail /\ UNCHANGED <<streamEnded, outputPeerGone>>
       \/ endFails(w) /\ UNCHANGED received
    /\ UNCHANGED <<exceptFail, streamEndReached, text, source, redaction, outgoing, peer, natural>>
endMarks(w) ==
    /\ plane[w] = "framed" /\ To(w, "over") /\ streamEnded' = TRUE /\ noFail
    /\ UNCHANGED <<exceptFail, streamEndReached, text, source, redaction, outgoing, peer, outputPeerGone, received, natural>>

----------------------------------------------------------------------------
\* forceStoppedStreamEnd.

forceWaits ==
    /\ plane.force = "wait"
    /\ \/ waitResult # NoResult /\ To("force", IF stopReason THEN "timer" ELSE "over") /\ natural' = ~stopReason
       \/ canceled /\ To("force", "over") /\ UNCHANGED natural
    /\ noFail
    /\ UNCHANGED <<exceptFail, streamEndReached, text, source, redaction, outgoing, streamEnded, peer, outputPeerGone,
                   received>>

\* The grace period; then closeStoppedAttachPipes.
forceTimer ==
    /\ plane.force = "timer"
    /\ \/ streamDone /\ To("force", "over") /\ UNCHANGED <<attach, source>>
       \/ /\ ~streamDone /\ To("force", "end")
          /\ attach' = Killed(attach) /\ source' = [source EXCEPT !.cut = TRUE]
    /\ noFail
    /\ UNCHANGED <<box, waiter, started, stopReason, waitResult, waitAcked, ackPending, exitSent,
                   obs, ctl, lifecycle, shut, shutErr, wire, streamEndReached, text, redaction, outgoing,
                   streamEnded, peer, outputPeerGone, received, natural>>

\* watchOutputPeer: the client closed its end.
watchOutputPeer ==
    /\ peer = "watch" /\ outputBroken /\ peer' = "over"
    /\ \/ brokerClosing /\ noFail /\ UNCHANGED outputPeerGone
       \/ ~brokerClosing /\ stopReason /\ outputPeerGone' = TRUE /\ noFail
       \/ ~brokerClosing /\ ~stopReason /\ exitSent /\ expectedPeerGone /\ noFail /\ UNCHANGED outputPeerGone
       \/ ~brokerClosing /\ ~stopReason /\ ~(exitSent /\ expectedPeerGone) /\ fail /\ UNCHANGED outputPeerGone
    /\ UNCHANGED <<exceptFail, stream, text, plane, source, redaction, outgoing, streamEnded, received, natural>>

\* The adapter closes once it has the exit and the stream end, or was stopped.
clientLeaves ==
    /\ "leave" \in setting.outside /\ ~client.gone /\ client.exit # NoResult
    /\ received.end \/ client.stop = "acked"
    /\ client' = [client EXCEPT !.gone = TRUE] /\ rsp' = <<>>
    /\ UNCHANGED <<podman, brokerVars, procs, req, setting, stream, output>>

----------------------------------------------------------------------------
\* A step of the control plane: the agent ends by itself once it has written all
\* its output; a stopped agent's pipes are closed when its exit is published, and
\* by Shutdown.
Pipes ==
    /\ (box'.st = "exited" /\ box.st = "running" /\ box'.code \in Codes) => Len(text) - source.at <= PipeSize
    /\ source' = [source EXCEPT !.cut = @ \/ (waitResult' # waitResult /\ stopReason) \/ shut' = "join"]
    /\ UNCHANGED <<text, plane, redaction, outgoing, streamEnded, peer, outputPeerGone, received, natural>>

ExitStep == ProcessNext /\ Pipes

End(w) == endTakes(w) \/ endFlushes(w) \/ endFrame(w) \/ endMarks(w)
Drain == readOne \/ readersEnd \/ writeOutput \/ written \/ attachExits \/ End("drain")
ForcedEnd == forceWaits \/ forceTimer \/ End("force")

OutputNext == ExitStep \/ Drain \/ ForcedEnd \/ watchOutputPeer \/ clientLeaves

OutputSpec == OutputInit /\ [][OutputNext]_outputVars

\* As in ProcessExit; the goroutines of the output plane run, its timers expire.
OutputProgress == (Progress /\ Pipes) \/ Drain \/ ForcedEnd \/ watchOutputPeer

OutputFairSpec == OutputSpec /\ WF_outputVars(OutputProgress) /\ WF_<<obs, waiter>>(Watching)

----------------------------------------------------------------------------
\* Adjacent markers as one: a forced flush may write a marker twice.
Squeezed(s) == SelectSeq([i \in 1 .. Len(s) |-> <<s[i], i > 1 /\ s[i] = Mark /\ s[IF i > 1 THEN i - 1 ELSE 1] = Mark>>],
                         LAMBDA p : ~p[2])
redact == Table([s \in Strings |-> Squeezed(redactPayload[s, 0])])

\* However the pipe's reads cut the output, redactChunk forwards what redacting
\* all of it at once would: before the stream ends no byte of a secret, and no
\* byte lost, doubled or out of place; an end that is sent for an agent nobody
\* stopped comes after all of its output.
OutputIsRedacted ==
    /\ ~streamEndReached => \E n \in 0 .. Len(redact[text]) : Squeezed(received.data) = SubSeq(redact[text], 1, n)
    /\ received.end => Squeezed(received.data) = redact[SubSeq(text, 1, redaction.fed)]
    /\ received.end /\ natural /\ ~brokerClosing => redaction.fed = Len(text)

\* A client that closes as soon as it has the exit and the stream end is never
\* taken for one that was lost (expectedDrainedPeerGone): the broker does not fail.
LeavingIsFine ==
    received.end /\ client.exit # NoResult /\ client.gone /\ setting.faults = {} => ~err

\* The comment of handleControlFrame's caller: a stopped client that leaves after
\* its exit is "the approved consumer-gone-after-done terminal state".
StoppedLeavingIsFine ==
    client.stop = "acked" /\ client.exit # NoResult /\ client.gone => ~err

\* The output plane ends after the agent, also when podman holds the pipe of a
\* stopped one, and the client is told, unless it left or the broker closes.
EndIsDue ==
    /\ started /\ box.st = "exited" /\ setting.underway
    /\ "held" \in setting.faults => stopReason
    /\ "deaf" \in setting.faults => shut # Nothing
StreamEnds == <>[](EndIsDue => streamDone /\ (received.end \/ brokerClosing \/ client.gone))
=============================================================================
