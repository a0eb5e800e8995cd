-------------------------- MODULE MCClaudeAdapter --------------------------
(* In each branch an agent that makes a call, asking first or not, and one    *)
(* without calls that ends well, badly or breaks the format; agents that say  *)
(* whatever matters to the parser.                                            *)
EXTENDS ClaudeAdapter

CONSTANT h1

Plain(world, hooks, says) ==
    [world |-> world, multiturn |-> FALSE, expires |-> TRUE, hooks |-> hooks, says |-> says, usage |-> {},
     sends |-> {"stop", "bad"}]
Results(outcomes) == {"end"} \X outcomes
Quiet(says) == [Plain(FALSE, {}, says) EXCEPT !.sends = {}]
Usage(in, creation, read) == {[input |-> in, output |-> {1}, creation |-> creation, read |-> read]}
Bare(kinds) == kinds \X {None}

Turns(says, sends) ==
    [Plain(TRUE, {}, says) EXCEPT !.multiturn = TRUE, !.expires = FALSE, !.sends = sends]

OneCall == {Plain(FALSE, {h1}, Results({"ok"}) \cup {<<"res", h1>>}), Plain(TRUE, {h1}, {<<"res", h1>>})}
NoCall == {Plain(world, {}, Results({"ok", "error"}) \cup Bare({"bad"})) : world \in BOOLEAN}
Usages == {[Quiet(Results({"ok"})) EXCEPT !.usage = u] :
             u \in {Usage({2}, {}, {1}), Usage({2}, {1}, {1}), Usage({2}, {1}, {2}), Usage({}, {}, {}), Usage({1}, {-1}, {1})}}
Denials == {Quiet(Results({"ok"}) \cup (ToolResults \X {h1}))}
APIErrors == {Quiet(Results({"ok", "aborted"}) \cup Bare({"apierr", "text", "think", "noise", "late"}))}
TwoTurns == {Turns(Results({"ok", "error"}) \cup Bare({"apierr", "text"}) \cup {<<"init", "s2">>}, {"message"}),
             Turns(Results({"ok", "error"}) \cup Bare({"apierr"}), {"message", "stop"})}

MCSessions == OneCall \cup NoCall \cup Usages \cup Denials \cup APIErrors \cup TwoTurns
=============================================================================
