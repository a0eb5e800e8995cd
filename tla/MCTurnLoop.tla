----------------------------- MODULE MCTurnLoop -----------------------------
(* One turn of two steps whose hooks meet, and two turns of one step with up *)
(* to two tool calls.                                                        *)
EXTENDS TurnLoop

None == [p \in Points |-> 0]
Pairs == {[None EXCEPT ![p] = 2] : p \in Points}
         \cup {[None EXCEPT ![pq[1]] = 1, ![pq[2]] = 1] :
                 pq \in {<<"pre_step", "turn_stopping">>, <<"pre_tool", "post_tool">>}}
Singles == {[None EXCEPT ![p] = 1] : p \in {"pre_tool", "turn_stopping"}}

MCLoops == [hooks : Pairs, maxSteps : {2}, maxCalls : {1}, maxTurns : {1}]
           \cup [hooks : Singles, maxSteps : {1}, maxCalls : {2}, maxTurns : {2}]
=============================================================================
