-------------------------- MODULE MCSessionReaders --------------------------
(***************************************************************************)
(* Two calls, each with a batch or its first event.  One session is ended     *)
(* before or after its agent, one is itself a fork; whether the sum of the    *)
(* usage fits depends on what is written, and in which order.                 *)
(***************************************************************************)
EXTENDS SessionReaders

CONSTANTS c1, c2

E(kind, span, actor, in, out) ==
    [kind |-> kind, span |-> span, actor |-> actor, content |-> kind, origin |-> NoOrigin,
     done |-> IF kind = "subagent/done" THEN "ok" ELSE "none", usage |-> [d \in Directions |-> IF d = "in" THEN in ELSE out]]

Forked == [E("session/fork", "root", "parent", 0, 0) EXCEPT !.origin = [trace |-> "older", seq |-> 1]]

Ended == (c1 :> <<E("subagent/spawn", "child", "parent", 2, 0), E("assistant/message", "child", "model", 1, 1),
                  E("subagent/done", "child", "agent", 0, 0)>>)
         @@ (c2 :> <<E("session/end", "root", "parent", 1, 0), E("turn/start", "root", "parent", 0, 0),
                     E("tool/result", "root", "parent", 2, 3)>>)
Copied == (c1 :> <<Forked, E("user/message", "root", "parent", 0, 0), E("assistant/message", "root", "model", 1, 2)>>)
          @@ (c2 :> <<E("subagent/done", "child", "agent", 0, 3), E("step/start", "root", "parent", 0, 0),
                      E("session/end", "root", "parent", 0, 0)>>)

MCSettings == {[session |-> Ended, reader |-> "tail"], [session |-> Copied, reader |-> "fork"]}
=============================================================================
