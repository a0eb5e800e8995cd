--------------------------- MODULE MCProcessOutput ---------------------------
(* An agent that ends well or with an error, is stopped, killed or shut down, *)
(* or loses its client, each with the podman failures that matter to it; and  *)
(* one that writes output, every short text over two letters among it.        *)
EXTENDS ProcessOutput

MCCodes == {0, 1}
MCSecrets == {<<"a", "b">>, <<"b", "b", "a">>}
Texts == [1 .. MaxText -> Letters]
Brief == {<<"b", "a", "b">>}
AllFaults == {"attach", "inspect", "stop", "stubborn"}
Starts == {[outside |-> {"stop", "shutdown"}, faults |-> {}],
           [outside |-> {"shutdown"}, faults |-> {"inspect", "stop"}],
           [outside |-> {"stop", "kill"}, faults |-> AllFaults],
           [outside |-> {"close", "shutdown"}, faults |-> {"attach"}]}
Outputs == {[outside |-> {"leave"}, faults |-> {}, texts |-> Texts],
            [outside |-> {"stop", "leave"}, faults |-> {"held"}, texts |-> Brief],
            [outside |-> {"shutdown"}, faults |-> {"deaf"}, texts |-> Brief],
            [outside |-> {"close"}, faults |-> {}, texts |-> Brief]}
MCSettings == {[underway |-> FALSE, outside |-> s.outside, faults |-> s.faults, texts |-> {<<>>}] : s \in Starts}
         \cup {[underway |-> TRUE, outside |-> s.outside, faults |-> s.faults, texts |-> s.texts] : s \in Outputs}
=============================================================================
