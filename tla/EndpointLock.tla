---------------------------- MODULE EndpointLock ----------------------------
(***************************************************************************)
(* surfaces/hx/run_production.go, lockAndPrepareApprovalEndpoint, with       *)
(* Server.Listen and Server.Close of seams/approvalrelay: runs of hx that    *)
(* name the same control socket.  A run takes the lock file, finds out       *)
(* whether a socket in its way is stale and removes it, keeps the lock       *)
(* until it ends and serves in between.  A run that dies leaves its socket.  *)
(***************************************************************************)
EXTENDS Naturals

CONSTANTS
    Runs,           \* runs of hx; also the inode of the socket a run binds
    OldPaths,       \* what an earlier run may have left at the path
    LateListen      \* may a Listen that missed its deadline of two seconds still be
                    \* running when its run has let go of the lock?

NoRun == "none"
Absent == [kind |-> "absent", ino |-> NoRun]
Socket(i) == [kind |-> "socket", ino |-> i]

ASSUME RunsAssumption == NoRun \notin Runs
ASSUME LateAssumption == LateListen \in BOOLEAN
ASSUME PathsAssumption ==
    \A f \in OldPaths : f = Absent \/ (f.kind \in {"socket", "file"} /\ f.ino \notin Runs \cup {NoRun})

VARIABLES
    path,           \* [kind, ino]: what the endpoint's path names
    lock,           \* the run that holds the flock of endpoint.lock
    step,           \* per run: idle, lock, recheck, probe, remove, prepared, serve, end
    before,         \* per run: what the first Lstat saw
    listener,       \* per run: the Listen goroutine: none, stat, bind, bound, listening, ready, unlinked, closed
    closed,         \* per run: Server.closed
    meddled         \* somebody else has removed the path

endpointVars == <<path, lock, step, before, listener, closed, meddled>>

EndpointInit ==
    /\ path \in OldPaths /\ lock = NoRun
    /\ step = [p \in Runs |-> "idle"] /\ before = [p \in Runs |-> Absent]
    /\ listener = [p \in Runs |-> "none"] /\ closed = [p \in Runs |-> FALSE] /\ meddled = FALSE

Go(p, s) == step' = [step EXCEPT ![p] = s]
Listening(p) == listener[p] \in {"listening", "ready", "unlinked"}

----------------------------------------------------------------------------
\* lockAndPrepareApprovalEndpoint.

lstatBefore(p) ==
    /\ step[p] = "idle" /\ before' = [before EXCEPT ![p] = path] /\ Go(p, "lock")
    /\ UNCHANGED <<path, lock, listener, closed, meddled>>

\* flock does not wait.
acquireApprovalEndpointLock(p) ==
    /\ step[p] = "lock"
    /\ \/ lock = NoRun /\ lock' = p /\ Go(p, "recheck")
       \/ lock # NoRun /\ Go(p, "end") /\ UNCHANGED lock
    /\ UNCHANGED <<path, before, listener, closed, meddled>>

fail(p) == lock' = NoRun /\ Go(p, "end")

lstatCurrent(p) ==
    /\ step[p] = "recheck"
    /\ \/ path = Absent /\ before[p] = Absent /\ Go(p, "prepared") /\ UNCHANGED lock
       \/ path = Absent /\ before[p] # Absent /\ fail(p)
       \/ path # Absent /\ ((before[p] # Absent /\ before[p] # path) \/ path.kind # "socket") /\ fail(p)
       \/ path.kind = "socket" /\ before[p] \in {Absent, path} /\ Go(p, "probe") /\ UNCHANGED lock
    /\ UNCHANGED <<path, before, listener, closed, meddled>>

\* Only a refused connection is proof of a stale socket.
Refuses == path.kind # "absent" /\ (path.ino \in Runs => ~Listening(path.ino))

probe(p) ==
    /\ step[p] = "probe"
    /\ \/ Refuses /\ Go(p, "remove") /\ UNCHANGED lock
       \/ ~Refuses /\ fail(p)
    /\ UNCHANGED <<path, before, listener, closed, meddled>>

remove(p) ==
    /\ step[p] = "remove" /\ path' = Absent
    /\ \/ path # Absent /\ Go(p, "prepared") /\ UNCHANGED lock
       \/ path = Absent /\ fail(p)
    /\ UNCHANGED <<before, listener, closed, meddled>>

----------------------------------------------------------------------------
\* The rest of the run: it is turned away at the claim, or starts its server.

turnedAway(p) ==
    /\ step[p] = "prepared" /\ fail(p)
    /\ UNCHANGED <<path, before, listener, closed, meddled>>

\* Slip: the lock is held for the preparation only.
LockWhileServingNot(p) == NoRun

LockWhileServing(p) == p

startApprovalServer(p) ==
    /\ step[p] = "prepared" /\ Go(p, "starting") /\ listener' = [listener EXCEPT ![p] = "stat"]
    /\ lock' = LockWhileServing(p)
    /\ UNCHANGED <<path, before, closed, meddled>>

\* Listen: stat, bind, listen, and the handover to Close.
listenStat(p) ==
    /\ listener[p] = "stat"
    /\ listener' = [listener EXCEPT ![p] = IF path = Absent THEN "bind" ELSE "closed"]
    /\ UNCHANGED <<path, lock, step, before, closed, meddled>>
listenBind(p) ==
    /\ listener[p] = "bind"
    /\ \/ path = Absent /\ path' = Socket(p) /\ listener' = [listener EXCEPT ![p] = "bound"]
       \/ path # Absent /\ listener' = [listener EXCEPT ![p] = "closed"] /\ UNCHANGED path
    /\ UNCHANGED <<lock, step, before, closed, meddled>>
listenListens(p) ==
    /\ listener[p] = "bound" /\ listener' = [listener EXCEPT ![p] = "listening"]
    /\ UNCHANGED <<path, lock, step, before, closed, meddled>>

\* The listener's Close unlinks the path by its name and then closes the socket.
unlink(p) == path' = Absent /\ listener' = [listener EXCEPT ![p] = "unlinked"]

listenReady(p) ==
    /\ listener[p] = "listening"
    /\ \/ ~closed[p] /\ listener' = [listener EXCEPT ![p] = "ready"] /\ UNCHANGED path
       \/ closed[p] /\ unlink(p)
    /\ UNCHANGED <<lock, step, before, closed, meddled>>
closeSocket(p) ==
    /\ listener[p] = "unlinked" /\ listener' = [listener EXCEPT ![p] = "closed"]
    /\ UNCHANGED <<path, lock, step, before, closed, meddled>>

\* startApprovalServer sees Ready, the error of Listen, or its deadline.
serverStarted(p) ==
    /\ step[p] = "starting"
    /\ \/ listener[p] = "ready" /\ Go(p, "serve")
       \/ listener[p] = "closed" /\ Go(p, "close")
       \/ listener[p] \notin {"ready", "closed"} /\ Go(p, "close")
    /\ UNCHANGED <<path, lock, before, listener, closed, meddled>>

\* The session ends, or could not be assembled.
sessionOver(p) ==
    /\ step[p] = "serve" /\ Go(p, "close")
    /\ UNCHANGED <<path, lock, before, listener, closed, meddled>>

\* Server.Close.
closeServer(p) ==
    /\ step[p] = "close" /\ closed' = [closed EXCEPT ![p] = TRUE] /\ Go(p, "closing")
    /\ \/ listener[p] = "ready" /\ unlink(p)
       \/ listener[p] # "ready" /\ UNCHANGED <<path, listener>>
    /\ UNCHANGED <<lock, before, meddled>>

\* The lock is the last thing a run lets go.
runReturns(p) ==
    /\ step[p] = "closing" /\ (LateListen \/ listener[p] = "closed")
    /\ lock' = (IF lock = p THEN NoRun ELSE lock) /\ Go(p, "returned")
    /\ UNCHANGED <<path, before, listener, closed, meddled>>

\* The process exits, or dies at any time: the kernel closes its files.
Exit(p) ==
    /\ step[p] \notin {"idle", "end"} /\ Go(p, "end")
    /\ lock' = (IF lock = p THEN NoRun ELSE lock)
    /\ listener' = [listener EXCEPT ![p] = "closed"]
    /\ UNCHANGED <<path, before, closed, meddled>>

\* Somebody else removes what is there, once.
Meddle ==
    /\ ~meddled /\ path # Absent
    /\ path' = Absent /\ meddled' = TRUE
    /\ UNCHANGED <<lock, step, before, listener, closed>>

Run(p) ==
    \/ lstatBefore(p) \/ acquireApprovalEndpointLock(p) \/ lstatCurrent(p) \/ probe(p) \/ remove(p)
    \/ turnedAway(p) \/ startApprovalServer(p) \/ serverStarted(p) \/ sessionOver(p) \/ closeServer(p) \/ runReturns(p)
Listen(p) == listenStat(p) \/ listenBind(p) \/ listenListens(p) \/ listenReady(p) \/ closeSocket(p)

EndpointNext == Meddle \/ \E p \in Runs : Run(p) \/ Listen(p) \/ Exit(p)

EndpointSpec == EndpointInit /\ [][EndpointNext]_endpointVars

----------------------------------------------------------------------------
\* The lock closes the race of check, remove and bind between runs of hx: at most
\* one run serves, it holds the lock, and the path leads to its socket unless
\* somebody else removed it: no other run took a live socket for a stale one,
\* and none unlinked it with its own.
OneServer ==
    \A p \in Runs : step[p] = "serve" =>
        lock = p /\ (~meddled => path = Socket(p))
=============================================================================
