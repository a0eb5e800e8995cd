------------------------------ MODULE EventLog ------------------------------
(***************************************************************************)
(* What the session log promises its callers, with no queue, no writer     *)
(* goroutine and no shutdown: a call is invoked, its records become durable *)
(* at most once and in one step, at the end of the log, and the answer the  *)
(* caller gets tells the truth about it.  core/logd/writer.go implements it. *)
(***************************************************************************)
EXTENDS Naturals, Sequences

CONSTANTS Calls,      \* calls of Submit and InitBatch
          BatchLen    \* records of an InitBatch

VARIABLES log,        \* the durable log: log[seq] is the call that wrote it
          answer      \* what each call has been told

vars == <<log, answer>>

Idle    == [st |-> "idle", seq |-> 0]
Pending == [st |-> "pending", seq |-> 0]
Refused == [st |-> "refused", seq |-> 0]
Unknown == [st |-> "unknown", seq |-> 0]
Ok(s)   == [st |-> "ok", seq |-> s]

Written(c) == \E i \in 1 .. Len(log) : log[i] = c

Init ==
    /\ log = <<>>
    /\ answer = [c \in Calls |-> Idle]

Invoke(c) ==
    /\ answer[c] = Idle
    /\ answer' = [answer EXCEPT ![c] = Pending]
    /\ UNCHANGED log

(* One record at the end, or a whole batch into an empty log. *)
Commit(c) ==
    /\ answer[c] = Pending
    /\ ~Written(c)
    /\ \/ log' = Append(log, c)
       \/ /\ log = <<>>
          /\ log' = [i \in 1 .. BatchLen |-> c]
    /\ UNCHANGED answer

(* ok names the last record of the call; refused means none was written.   *)
(* A call may be refused before it is ever pending.                         *)
Return(c) ==
    /\ answer[c] \in {Idle, Pending}
    /\ \/ \E s \in 1 .. Len(log) :
            /\ answer[c] = Pending
            /\ log[s] = c
            /\ \A i \in s + 1 .. Len(log) : log[i] # c
            /\ answer' = [answer EXCEPT ![c] = Ok(s)]
       \/ /\ ~Written(c)
          /\ answer' = [answer EXCEPT ![c] = Refused]
       \/ answer' = [answer EXCEPT ![c] = Unknown]
    /\ UNCHANGED log

(* The process dies: everybody still waiting learns nothing. *)
Die ==
    /\ answer' = [c \in Calls |-> IF answer[c] = Pending THEN Unknown ELSE answer[c]]
    /\ UNCHANGED log

Next ==
    \/ \E c \in Calls : Invoke(c) \/ Commit(c) \/ Return(c)
    \/ Die

Spec == Init /\ [][Next]_vars
=============================================================================
