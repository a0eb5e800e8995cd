----------------------------- MODULE MCStartup -----------------------------
(***************************************************************************)
(* Six policy files that differ in the spelling of hosts and paths, in       *)
(* selectors with and without a registry, in budgets and in approval; the    *)
(* fifth does not parse.  An earlier run left nothing, a socket or, at the   *)
(* same path, a file that is not one.                                        *)
(***************************************************************************)
EXTENDS Startup
Spellings == {"a", "A.", "b", "10.0.0.1", ""}
Canonical == [h \in Spellings |-> IF h = "A." THEN "a" ELSE h]

Abs(segs) == [abs |-> TRUE, segs |-> segs]
At(n, h) == [name |-> n, source |-> h]
Raw(id, fs, egress, ext, reg, tokens, timeMs, maxDepth, auto) ==
    [id |-> <<id>>, wellFormed |-> TRUE, fs |-> fs, egress |-> egress, ext |-> ext, reg |-> reg,
     tokens |-> tokens, timeMs |-> timeMs, maxDepth |-> maxDepth, auto |-> auto]

W == Abs(<<"w">>)
WIndirect == Abs(<<"v", "..", "", "w", ".">>)
Up == Abs(<<"w", "..">>)

Raw1 == Raw("p", {W, Abs(<<"v">>)}, {"a", "b"}, {At("x", ""), At("y", "A.")}, {"a", "b"}, 2, 2, 2, TRUE)
Raw2 == Raw("p", {WIndirect}, {"a"}, {At("x", "a"), At("x", "b"), At("y", "")}, {"A.", "b"}, 1, 3, 1, TRUE)
Raw3 == Raw("q", {W, Abs(<<"w", "s">>)}, {"A.", "b"}, {At("x", "A."), At("x", "")}, {"a"}, 3, 1, 2, FALSE)
Raw4 == Raw("q", {Abs(<<>>), W}, {"a", "10.0.0.1", ""}, {At("y", "b"), At("x", "b")}, {"b"}, 2, 2, 0, TRUE)
Raw5 == Raw("p", {W, Abs(<<"w", "s", "..", "..">>)}, {}, {}, {}, 2, 2, 2, TRUE)
Raw6 == Raw("q", {Abs(<<"v">>), W}, {"b", "a"}, {At("x", ""), At("y", "")}, {"b", "a"}, 2, 1, 3, TRUE)

AllRaws == {Raw1, Raw2, Raw3, Raw4, Raw5, Raw6}
Rel == [abs |-> FALSE, segs |-> <<"w">>]
Requested == {WIndirect, Up, Rel, Abs(<<"w", "s">>)}
Asked == {[tokens |-> t, timeMs |-> 1, maxDepth |-> 1] : t \in 1..2} \union {[tokens |-> 1, timeMs |-> 2, maxDepth |-> 1]}
Names == {"a", "b"}
Old == {Absent, Socket("old"), [kind |-> "file", ino |-> "old"]}
=============================================================================
