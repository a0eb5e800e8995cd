----------------------------- MODULE ProcessExit -----------------------------
(***************************************************************************)
(* seams/world/local/process_broker.go, control plane, with its client       *)
(* (worldadapter/process_client.go): start, wait and stop of a container and *)
(* the observation of its exit.  `podman wait' is the only authority on the  *)
(* exit; it is armed before `podman start --attach', and answers 0 at once   *)
(* for a container that is only created, so that such an answer is checked   *)
(* and the wait armed again.  The output plane is module ProcessOutput.      *)
(***************************************************************************)
EXTENDS Integers, Sequences

CONSTANTS
    Codes,      \* exit codes of the agent; a stopped agent exits with Stopped
    Settings    \* [underway, outside, faults]: whether the agent runs already (and
                \* the output plane is there), what may happen to it, "stop", "close" (by the
                \* client), "kill", "shutdown", and what may go wrong: "attach",
                \* "inspect" and "stop" are failing podman commands, "stubborn" an
                \* agent that ignores SIGTERM

Stopped == 137
ASSUME CodesAssumption == 0 \in Codes /\ Codes \subseteq Nat

VARIABLES
    setting,    \* one of Settings, fixed
    box,        \* [st, code]: the container: created, running, exited
    attach,     \* none, starting, up, over, killed: `podman start --attach'
    waiter,     \* [st, ans]: the last `podman wait': none, armed, blocked, answered
    obs,        \* [pc, after, attachExited, started]: observeStartedExit
    started, brokerClosing, canceled, stopReason, waitResult, waitAcked, ackPending, exitSent, err,
    ctl,        \* [pc, frame]: handleControl
    lifecycle,  \* the stopContainer or start that holds lifecycleMu
    failer,     \* the goroutine of fail: none, stop, close, over
    shut,       \* Shutdown: none, stop, await, join, ok, error
    shutErr,    \* its joined error
    streamEndReached, streamDone,   \* what the output plane has come to
    req, rsp,   \* frames on the control connection
    client      \* [next, asked, stop, exit, gone]: processClient

podman == <<box, attach, waiter>>
brokerVars == <<started, brokerClosing, canceled, stopReason, waitResult, waitAcked, ackPending, exitSent, err>>
procs == <<obs, ctl, lifecycle, failer, shut, shutErr>>
stream == <<streamEndReached, streamDone>>
wire == <<req, rsp, client, setting>>
processVars == <<podman, brokerVars, procs, wire, stream>>

Nothing == "none"
NoResult == -3
Unstarted == -2     \* exit -1: start-attach ended and never started the container
Failed == -1        \* exit -1: podman wait failed
Uninspected == -4   \* exit -1: podman inspect failed
Script == <<"start", "close", "wait">>

\* Before the start request.
Fresh ==
    /\ box = [st |-> "created", code |-> 0] /\ attach = Nothing /\ waiter = [st |-> Nothing, ans |-> 0]
    /\ obs = [pc |-> Nothing, after |-> FALSE, attachExited |-> FALSE, started |-> FALSE]
    /\ started = FALSE /\ waitAcked = FALSE
    /\ client = [next |-> 1, asked |-> FALSE, stop |-> Nothing, exit |-> NoResult, gone |-> FALSE]

\* The client's three requests are answered and the agent runs.
Underway ==
    /\ box = [st |-> "running", code |-> 0] /\ attach = "up" /\ waiter = [st |-> "blocked", ans |-> 0]
    /\ obs = [pc |-> "read", after |-> TRUE, attachExited |-> FALSE, started |-> TRUE]
    /\ started = TRUE /\ waitAcked = TRUE
    /\ client = [next |-> Len(Script) + 1, asked |-> FALSE, stop |-> Nothing, exit |-> NoResult, gone |-> FALSE]

ProcessInit ==
    /\ setting \in Settings
    /\ IF setting.underway THEN Underway ELSE Fresh
    /\ brokerClosing = FALSE /\ canceled = FALSE /\ stopReason = FALSE
    /\ waitResult = NoResult /\ ackPending = FALSE /\ exitSent = FALSE /\ err = FALSE
    /\ ctl = [pc |-> "read", frame |-> Nothing] /\ lifecycle = Nothing /\ failer = Nothing
    /\ streamEndReached = FALSE /\ streamDone = ~setting.underway
    /\ shut = Nothing /\ shutErr = FALSE /\ req = <<>> /\ rsp = <<>>

----------------------------------------------------------------------------
\* Podman.

BoxExits ==
    /\ box.st = "running"
    /\ \E c \in Codes : box' = [st |-> "exited", code |-> c]
    /\ UNCHANGED <<attach, waiter, brokerVars, procs, wire, stream>>

\* A killed client may have started the container already, or not.
AttachStarts ==
    /\ attach \in {"starting", "killed"} /\ box.st = "created"
    /\ box' = [box EXCEPT !.st = "running"]
    /\ attach' = IF attach = "killed" THEN "over" ELSE "up"
    /\ UNCHANGED <<waiter, brokerVars, procs, wire, stream>>
AttachEnds ==
    /\ \/ attach = "starting" /\ "attach" \in setting.faults
       \/ attach = "killed"
       \/ attach = "up" /\ box.st = "exited"
    /\ attach' = "over"
    /\ UNCHANGED <<box, waiter, brokerVars, procs, wire, stream>>

\* The wait looks at the container once and then blocks until its exit.
WaitAnswers ==
    /\ \/ waiter.st = "armed" /\ box.st = "running" /\ waiter' = [waiter EXCEPT !.st = "blocked"]
       \/ waiter.st \in {"armed", "blocked"} /\ box.st # "running" /\ waiter' = [st |-> "answered", ans |-> box.code]
    /\ UNCHANGED <<box, attach, brokerVars, procs, wire, stream>>

Killed(a) == CASE a = "starting" -> "killed" [] a = "up" -> "over" [] OTHER -> a

WaiterKilled(w) == IF w.st \in {"armed", "blocked"} THEN [st |-> "answered", ans |-> Failed] ELSE w

----------------------------------------------------------------------------
\* The client: start, close-stdin, wait, each after the answer to the one
\* before; a stop at any time; it may go away.

clientSends ==
    /\ client.next <= Len(Script) /\ ~client.asked /\ ~client.gone
    /\ req' = Append(req, Script[client.next])
    /\ client' = [client EXCEPT !.asked = TRUE]
    /\ UNCHANGED <<podman, brokerVars, procs, rsp, setting, stream>>
clientStops ==
    /\ "stop" \in setting.outside /\ client.stop = Nothing /\ ~client.gone
    /\ req' = Append(req, "stop")
    /\ client' = [client EXCEPT !.stop = "asked"]
    /\ UNCHANGED <<podman, brokerVars, procs, rsp, setting, stream>>
clientCloses ==
    /\ "close" \in setting.outside /\ ~client.gone /\ client.exit = NoResult
    /\ client' = [client EXCEPT !.gone = TRUE] /\ rsp' = <<>>
    /\ UNCHANGED <<podman, brokerVars, procs, req, setting, stream>>
readControl ==
    /\ rsp # <<>> /\ rsp' = Tail(rsp)
    /\ client' = CASE Head(rsp).k = "exit" -> [client EXCEPT !.exit = Head(rsp).code]
                   [] Head(rsp).k = "stop" -> [client EXCEPT !.stop = "acked"]
                   [] OTHER -> [client EXCEPT !.next = @ + 1, !.asked = FALSE]
    /\ UNCHANGED <<podman, brokerVars, procs, req, setting, stream>>

----------------------------------------------------------------------------
\* Shared pieces of the broker.

\* Slip: Shutdown leaves the connections open.
connsLeftOpen == failer = "over"

\* closeConnections has run.
connsClosed == failer = "over" \/ shut \in {"join", "ok", "error"}
Broken == client.gone \/ connsClosed
Write(k, c) == rsp' = IF Broken THEN rsp ELSE Append(rsp, [k |-> k, code |-> c])

Sendable == waitResult # NoResult /\ ~exitSent

sendExit ==
    \/ Sendable /\ exitSent' = TRUE /\ Write("exit", waitResult)
    \/ ~Sendable /\ UNCHANGED <<exitSent, rsp>>

\* fail: close the broker; its goroutine stops the container.
fail ==
    /\ brokerClosing' = TRUE /\ err' = TRUE /\ canceled' = (canceled \/ ~brokerClosing)
    /\ failer' = IF brokerClosing THEN failer ELSE "stop"

\* stopContainer under lifecycleMu: note the reason and, for a started
\* container not known to have ended, run podman stop and then podman kill.
stopTakes(who) ==
    /\ lifecycle = Nothing /\ stopReason' = TRUE
    /\ lifecycle' = IF started /\ waitResult = NoResult THEN who ELSE Nothing
StopDone(who) ==
    /\ lifecycle = who /\ lifecycle' = Nothing
    /\ box' = IF box.st = "running" THEN [st |-> "exited", code |-> Stopped] ELSE box

\* Both commands share one context: that of fail ends before the grace period
\* of podman stop, and that of the broker with its cancellation.
StopFails(who) ==
    /\ lifecycle = who /\ waitResult = NoResult /\ lifecycle' = Nothing
    /\ \/ "stop" \in setting.faults
       \/ who \in {"ctl", "obs"} /\ canceled
       \/ who = "fail" /\ "stubborn" \in setting.faults

----------------------------------------------------------------------------
\* handleControl.

ctlRead ==
    /\ ctl.pc = "read" /\ req # <<>> /\ ~connsClosed
    /\ req' = Tail(req) /\ ctl' = [pc |-> "do", frame |-> Head(req)] /\ ackPending' = TRUE
    /\ UNCHANGED <<podman, started, brokerClosing, canceled, stopReason, waitResult, waitAcked, exitSent, err,
                   obs, lifecycle, failer, shut, shutErr, rsp, client, setting, stream>>

\* Slip: the client may close only once the stream end is known to be written.
expectedPeerGoneLate == stopReason \/ streamDone

\* expectedStopControlGone and expectedDrainedPeerGone: after the exit the
\* client may leave, when it was stopped or its output was drained.
expectedPeerGone == stopReason \/ streamEndReached

\* A read error: silent when the broker closes or the client may leave; else fatal.
ctlGone ==
    /\ ctl.pc = "read" /\ (connsClosed \/ (client.gone /\ req = <<>>))
    /\ ctl' = [ctl EXCEPT !.pc = "end"]
    /\ \/ (brokerClosing \/ (exitSent /\ expectedPeerGone)) /\ UNCHANGED <<brokerClosing, canceled, err, failer>>
       \/ ~(brokerClosing \/ (exitSent /\ expectedPeerGone)) /\ fail
    /\ UNCHANGED <<podman, started, stopReason, waitResult, waitAcked, ackPending, exitSent,
                   obs, lifecycle, shut, shutErr, wire, stream>>

\* start: arm the wait, start the attach, and look at the context again.
ctlStart ==
    /\ ctl = [pc |-> "do", frame |-> "start"] /\ lifecycle = Nothing
    /\ \/ /\ ~brokerClosing
          /\ waiter' = [st |-> "armed", ans |-> 0] /\ attach' = "starting" /\ lifecycle' = "ctl"
          /\ ctl' = [ctl EXCEPT !.pc = "started"] /\ UNCHANGED err
       \/ brokerClosing /\ err' = TRUE /\ ctl' = [ctl EXCEPT !.pc = "end"] /\ UNCHANGED <<waiter, attach, lifecycle>>
    /\ UNCHANGED <<box, started, brokerClosing, canceled, stopReason, waitResult, waitAcked, ackPending, exitSent,
                   obs, failer, shut, shutErr, wire, stream>>
ctlStarted ==
    /\ ctl.pc = "started" /\ lifecycle' = Nothing
    /\ \/ /\ ~canceled /\ started' = TRUE /\ obs' = [obs EXCEPT !.pc = "read"]
          /\ ctl' = [ctl EXCEPT !.pc = "ack"] /\ UNCHANGED <<attach, waiter>>
       \/ /\ canceled /\ attach' = Killed(attach) /\ waiter' = WaiterKilled(waiter)
          /\ ctl' = [ctl EXCEPT !.pc = "end"] /\ UNCHANGED <<started, obs>>
    /\ UNCHANGED <<box, brokerClosing, canceled, stopReason, waitResult, waitAcked, ackPending, exitSent, err,
                   failer, shut, shutErr, wire, stream>>

ctlCloseOrWait ==
    /\ ctl.pc = "do" /\ ctl.frame \in {"close", "wait"}
    /\ ctl' = [ctl EXCEPT !.pc = "ack"]
    /\ UNCHANGED <<podman, brokerVars, obs, lifecycle, failer, shut, shutErr, wire, stream>>

ctlStop ==
    /\ ctl = [pc |-> "do", frame |-> "stop"] /\ stopTakes("ctl")
    /\ ctl' = [ctl EXCEPT !.pc = IF lifecycle' = "ctl" THEN "stop" ELSE "ack"]
    /\ UNCHANGED <<podman, started, brokerClosing, canceled, waitResult, waitAcked, ackPending, exitSent, err,
                   obs, failer, shut, shutErr, wire, stream>>
ctlStopRuns ==
    /\ ctl.pc = "stop"
    /\ \/ StopDone("ctl") /\ ctl' = [ctl EXCEPT !.pc = "ack"] /\ UNCHANGED <<brokerClosing, canceled, err, failer>>
       \/ StopFails("ctl") /\ fail /\ ctl' = [ctl EXCEPT !.pc = "end"] /\ UNCHANGED box
    /\ UNCHANGED <<attach, waiter, started, stopReason, waitResult, waitAcked, ackPending, exitSent,
                   obs, shut, shutErr, wire, stream>>

\* sendAck: write the answer, then look whether the exit waited for it.
ctlAck ==
    /\ ctl.pc = "ack" /\ Write(ctl.frame, 0)
    /\ ctl' = [ctl EXCEPT !.pc = IF Broken THEN "broken" ELSE "acked"]
    /\ UNCHANGED <<podman, brokerVars, obs, lifecycle, failer, shut, shutErr, req, client, setting, stream>>
ctlBroken ==
    /\ ctl.pc = "broken" /\ ctl' = [ctl EXCEPT !.pc = "end"]
    /\ \/ stopReason /\ exitSent /\ UNCHANGED <<brokerClosing, canceled, err, failer>>
       \/ ~(stopReason /\ exitSent) /\ fail
    /\ UNCHANGED <<podman, started, stopReason, waitResult, waitAcked, ackPending, exitSent,
                   obs, lifecycle, shut, shutErr, wire, stream>>
ctlAcked ==
    /\ ctl.pc = "acked" /\ ackPending' = FALSE
    /\ ctl' = [ctl EXCEPT !.pc = CASE waitAcked /\ waitResult # NoResult /\ ~exitSent -> "exit"
                                  [] ctl.frame = "wait" -> "waited"
                                  [] OTHER -> "read"]
    /\ UNCHANGED <<podman, started, brokerClosing, canceled, stopReason, waitResult, waitAcked, exitSent, err,
                   obs, lifecycle, failer, shut, shutErr, wire, stream>>

\* Slip: the answer to wait does not look for an exit observed meanwhile.
AfterWaitRead == "read"

\* The exit may have been observed since the wait request.
AfterWait == IF waitResult # NoResult THEN "exit" ELSE "read"

ctlWaited ==
    /\ ctl.pc = "waited" /\ waitAcked' = TRUE
    /\ ctl' = [ctl EXCEPT !.pc = AfterWait]
    /\ UNCHANGED <<podman, started, brokerClosing, canceled, stopReason, waitResult, ackPending, exitSent, err,
                   obs, lifecycle, failer, shut, shutErr, wire, stream>>
ctlExit ==
    /\ ctl.pc = "exit" /\ sendExit
    /\ ctl' = [ctl EXCEPT !.pc = IF Sendable /\ Broken THEN "broken" ELSE "read"]
    /\ UNCHANGED <<podman, started, brokerClosing, canceled, stopReason, waitResult, waitAcked, ackPending, err,
                   obs, lifecycle, failer, shut, shutErr, req, client, setting, stream>>

----------------------------------------------------------------------------
\* observeStartedExit.

\* Slip: the answer 0 of the wait armed before the start is believed.
AmbiguousNever == FALSE

\* A clean 0 from a wait armed before the start says nothing.
Ambiguous == ~obs.after /\ waiter.ans = 0

Requested == waitAcked /\ ~ackPending

\* publishWaitResult: after a stop the attach client is killed.
publish(r) ==
    /\ waitResult' = r
    /\ attach' = IF stopReason THEN Killed(attach) ELSE attach
    /\ obs' = [obs EXCEPT !.pc = IF Requested THEN "send" ELSE "over"]

obsRead ==
    /\ obs.pc = "read" /\ waiter.st = "answered"
    /\ \/ ~Ambiguous /\ publish(waiter.ans)
       \/ /\ Ambiguous /\ obs' = [obs EXCEPT !.pc = "inspect", !.attachExited = (attach = "over")]
          /\ UNCHANGED <<waitResult, attach>>
    /\ UNCHANGED <<box, waiter, started, brokerClosing, canceled, stopReason, waitAcked, ackPending, exitSent, err,
                   ctl, lifecycle, failer, shut, shutErr, wire, stream>>
obsInspect ==
    /\ obs.pc = "inspect"
    /\ \/ ("inspect" \in setting.faults \/ canceled) /\ publish(Uninspected)
       \/ ~canceled /\ box.st = "created" /\ obs.attachExited /\ publish(Unstarted)
       \/ /\ ~canceled /\ ~(box.st = "created" /\ obs.attachExited)
          /\ obs' = [obs EXCEPT !.pc = "arm", !.started = (box.st # "created")]
          /\ UNCHANGED <<waitResult, attach>>
    /\ UNCHANGED <<box, waiter, started, brokerClosing, canceled, stopReason, waitAcked, ackPending, exitSent, err,
                   ctl, lifecycle, failer, shut, shutErr, wire, stream>>

\* A new wait is armed, and recorded a moment later.
obsArm ==
    /\ obs.pc = "arm"
    /\ \/ canceled /\ publish(Failed) /\ UNCHANGED waiter
       \/ /\ ~canceled /\ waiter' = [st |-> "armed", ans |-> 0]
          /\ obs' = [obs EXCEPT !.pc = "record"] /\ UNCHANGED <<waitResult, attach>>
    /\ UNCHANGED <<box, started, brokerClosing, canceled, stopReason, waitAcked, ackPending, exitSent, err,
                   ctl, lifecycle, failer, shut, shutErr, wire, stream>>

\* Slip: the wait recorded after Shutdown's kill is left running.
RecordedLeft == waiter

Recorded == IF canceled THEN WaiterKilled(waiter) ELSE waiter

obsRecord ==
    /\ obs.pc = "record" /\ waiter' = Recorded
    /\ obs' = [obs EXCEPT !.after = obs.started, !.pc = IF obs.started THEN "reissue" ELSE "read"]
    /\ UNCHANGED <<box, attach, brokerVars, ctl, lifecycle, failer, shut, shutErr, wire, stream>>

\* reissuePreStartStop, with the stopContainer it runs.
obsReissue ==
    /\ obs.pc = "reissue"
    /\ \/ (~stopReason \/ canceled) /\ obs' = [obs EXCEPT !.pc = "read"] /\ UNCHANGED <<stopReason, lifecycle>>
       \/ /\ stopReason /\ ~canceled /\ stopTakes("obs")
          /\ obs' = [obs EXCEPT !.pc = IF lifecycle' = "obs" THEN "stop" ELSE "read"]
    /\ UNCHANGED <<podman, started, brokerClosing, canceled, waitResult, waitAcked, ackPending, exitSent, err,
                   ctl, failer, shut, shutErr, wire, stream>>
obsStopRuns ==
    /\ obs.pc = "stop" /\ obs' = [obs EXCEPT !.pc = "read"]
    /\ \/ StopDone("obs") /\ UNCHANGED <<brokerClosing, canceled, err, failer>>
       \/ StopFails("obs") /\ fail /\ UNCHANGED box
    /\ UNCHANGED <<attach, waiter, started, stopReason, waitResult, waitAcked, ackPending, exitSent,
                   ctl, shut, shutErr, wire, stream>>
obsSend ==
    /\ obs.pc = "send" /\ sendExit /\ obs' = [obs EXCEPT !.pc = "over"]
    /\ \/ Sendable /\ Broken /\ fail
       \/ ~(Sendable /\ Broken) /\ UNCHANGED <<brokerClosing, canceled, err, failer>>
    /\ UNCHANGED <<podman, started, stopReason, waitResult, waitAcked, ackPending,
                   ctl, lifecycle, shut, shutErr, req, client, setting, stream>>

----------------------------------------------------------------------------
\* The goroutine of fail, the host's KillAgent, and Shutdown.

failStop ==
    /\ failer = "stop" /\ stopTakes("fail")
    /\ failer' = IF lifecycle' = "fail" THEN "stopping" ELSE "over"
    /\ UNCHANGED <<podman, started, brokerClosing, canceled, waitResult, waitAcked, ackPending, exitSent, err,
                   obs, ctl, shut, shutErr, wire, stream>>
failStopRuns ==
    /\ failer = "stopping" /\ failer' = "over"
    /\ StopDone("fail") \/ (StopFails("fail") /\ UNCHANGED box)
    /\ UNCHANGED <<attach, waiter, brokerVars, obs, ctl, shut, shutErr, wire, stream>>

\* KillAgent does not take lifecycleMu; podman kill fails unless it runs.
KillAgent ==
    /\ "kill" \in setting.outside /\ ~brokerClosing /\ stopReason' = TRUE
    /\ box' = IF started /\ waitResult = NoResult /\ box.st = "running"
               THEN [st |-> "exited", code |-> Stopped] ELSE box
    /\ UNCHANGED <<attach, waiter, started, brokerClosing, canceled, waitResult, waitAcked, ackPending, exitSent, err,
                   procs, wire, stream>>

ShutdownBroker ==
    /\ "shutdown" \in setting.outside /\ shut = Nothing /\ lifecycle = Nothing
    /\ brokerClosing' = TRUE /\ shut' = "stop"
    /\ UNCHANGED <<podman, started, canceled, stopReason, waitResult, waitAcked, ackPending, exitSent, err,
                   obs, ctl, lifecycle, failer, shutErr, wire, stream>>
shutStop ==
    /\ shut = "stop" /\ stopTakes("shut")
    /\ shut' = IF lifecycle' = "shut" THEN "stopping" ELSE "await"
    /\ UNCHANGED <<podman, started, brokerClosing, canceled, waitResult, waitAcked, ackPending, exitSent, err,
                   obs, ctl, failer, shutErr, wire, stream>>
shutStopRuns ==
    /\ shut = "stopping" /\ shut' = "await"
    /\ \/ StopDone("shut") /\ UNCHANGED shutErr
       \/ StopFails("shut") /\ shutErr' = TRUE /\ UNCHANGED box
    /\ UNCHANGED <<attach, waiter, brokerVars, obs, ctl, failer, wire, stream>>

ExitAwaited == started => waitResult # NoResult

\* Wait for the exit or the deadline and for the stream or its timeout; then
\* cancel, close and kill.
shutAwait ==
    /\ shut = "await" /\ shut' = "join" /\ canceled' = TRUE
    /\ ExitAwaited \/ started
    /\ shutErr' = (shutErr \/ ~ExitAwaited \/ (started /\ ~streamDone))
    /\ attach' = Killed(attach)
    /\ waiter' = IF obs.pc = "record" THEN waiter ELSE WaiterKilled(waiter)
    /\ UNCHANGED <<box, started, brokerClosing, stopReason, waitResult, waitAcked, ackPending, exitSent, err,
                   obs, ctl, lifecycle, failer, wire, stream>>

\* wg.Wait: the observer, the control handler and the drain have ended.
shutJoin ==
    /\ shut = "join" /\ obs.pc \in {Nothing, "over"} /\ ctl.pc = "end" /\ (started => streamDone)
    /\ shut' = IF shutErr \/ err THEN "error" ELSE "ok"
    /\ UNCHANGED <<podman, brokerVars, obs, ctl, lifecycle, failer, shutErr, wire, stream>>

----------------------------------------------------------------------------
ProcessOver ==
    /\ box.st # "running" /\ attach \in {Nothing, "over"} /\ ctl.pc \in {"read", "end"} /\ obs.pc \in {Nothing, "over"}
    /\ UNCHANGED processVars

Podman == AttachStarts \/ AttachEnds \/ WaitAnswers
Control ==
    \/ ctlRead \/ ctlGone \/ ctlStart \/ ctlStarted \/ ctlCloseOrWait \/ ctlStop \/ ctlStopRuns
    \/ ctlAck \/ ctlBroken \/ ctlAcked \/ ctlWaited \/ ctlExit
Observer == obsRead \/ obsInspect \/ obsArm \/ obsRecord \/ obsReissue \/ obsStopRuns \/ obsSend
Failer == failStop \/ failStopRuns
Closer == shutStop \/ shutStopRuns \/ shutAwait \/ shutJoin

ProcessNext ==
    \/ BoxExits \/ Podman
    \/ clientSends \/ clientStops \/ clientCloses \/ readControl
    \/ Control \/ Observer \/ Failer
    \/ KillAgent \/ ShutdownBroker \/ Closer
    \/ ProcessOver

ProcessSpec == ProcessInit /\ [][ProcessNext]_processVars

\* The goroutines, podman and the client's reader run: the observer with the wait
\* it arms again and again, and, as long as one of them can, one of the others,
\* which never repeat a step.  Nobody has to stop the agent, end it, or shut the
\* broker down.
Watching == WaitAnswers \/ Observer
Progress ==
    \/ AttachStarts \/ AttachEnds \/ clientSends \/ readControl
    \/ Control \/ Failer \/ Closer

----------------------------------------------------------------------------
\* observeStartedExit never reports the 0 that podman wait answers for a
\* container that has not run: an exit code that is published is the code the
\* container ended with, "never started" is said only of one that cannot start
\* any more, and the client is told what was published.
ExitIsReal ==
    /\ waitResult \in Nat => box = [st |-> "exited", code |-> waitResult]
    /\ waitResult = Unstarted => box.st = "created" /\ attach = "over"
    /\ client.exit \in {NoResult, waitResult}

\* An exit is never lost between the wait request and the observer: once wait is
\* answered and the container has ended, the client learns it, unless the broker closes.
ExitIsTold ==
    <>[](client.next > Len(Script) /\ box.st = "exited" => client.exit # NoResult \/ brokerClosing \/ client.gone)

\* Shutdown ends: the observer it waits for cannot be left on a wait armed
\* while Shutdown killed the one before.
ShutdownReturns == <>[](shut \in {Nothing, "ok", "error"})

\* The comment of reissuePreStartStop: a stop that reached the container before
\* it started is applied again.  An acknowledged stop ends the container.
StopIsApplied == (client.stop = "acked" /\ box.st = "running") ~> (box.st = "exited" \/ brokerClosing)

\* "The request ACK is ordered before the asynchronous exit frame": no exit
\* frame is written while a request that was read has no answer.
AckBeforeExit == [][exitSent' /\ ~exitSent => ctl.pc \notin {"do", "stop", "started", "ack"}]_processVars

\* "The fatal path too stops or kills the container": when the goroutine of
\* fail has finished, the container does not run.
FatalStops == failer = "over" => box.st # "running"
=============================================================================
