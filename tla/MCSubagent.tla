----------------------------- MODULE MCSubagent -----------------------------
(* Sessions that ask for two approvals, use an id again, finish or break the  *)
(* protocol, and multiturn ones with two calls of Send.                       *)
EXTENDS Subagent

CONSTANTS a, b

TwoReqs == 1 .. 2
Ready == [kind |-> "ready"]
Message == [kind |-> "message"]
Done(status) == [kind |-> "done", status |-> status]
Request(id, forced) == [kind |-> "request", id |-> id, forced |-> forced]

Asking == {<<Ready, Request(a, FALSE), Request(b, FALSE)>>, <<Ready, Request(a, FALSE), Request(a, TRUE)>>,
           <<Ready, Request(a, FALSE), Done("ok")>>, <<Ready, Done("error"), Request(a, FALSE)>>}
Talking == {<<Ready, Message, Done("ok")>>, <<Message>>, <<Ready, [kind |-> "bad"]>>}

MCSessions == [mode : {"ask"}, multiturn : {FALSE}, script : Asking]
              \cup [mode : {"auto"}, multiturn : {TRUE}, script : Talking]
              \cup [mode : {"auto", "unwired"}, multiturn : {FALSE}, script : {<<Ready, Request(a, FALSE), Done("ok")>>}]
=============================================================================
