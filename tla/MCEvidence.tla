------------------------------- MODULE MCEvidence -------------------------------
(***************************************************************************)
(* Sessions that use the network or the workspace.  Three requests fill the  *)
(* queue and the handler slots of a broker of capacity one; two of different *)
(* kinds meet a name whose resolution changes.  The workspace has a file, a  *)
(* link and a directory two levels deep, so that directories are replaced,   *)
(* removed and made again above and below other changes.                     *)
(***************************************************************************)
EXTENDS Evidence
CONSTANTS r1, r2, r3

Target(domain, listed, pinned, port) == [domain |-> domain, listed |-> listed, pinned |-> pinned, port |-> port]
Plain == Target(TRUE, TRUE, FALSE, TRUE)
Kinds == {Plain, Target(TRUE, TRUE, TRUE, TRUE), Target(TRUE, TRUE, TRUE, FALSE),
          Target(TRUE, FALSE, FALSE, TRUE), Target(FALSE, FALSE, FALSE, FALSE)}
Silent == [targets |-> <<>>, resolutions |-> {"none"}, fails |-> FALSE]
Busy == [targets |-> [r \in {r1, r2, r3} |-> Plain], resolutions |-> {"public"}, fails |-> TRUE]
Moving == {[targets |-> [r \in {r1, r2} |-> IF r = r1 THEN k ELSE Plain],
            resolutions |-> Resolutions \ {"none"}, fails |-> FALSE] : k \in Kinds}
MCNetworks == Moving \union {Silent, Busy}

Tree == {"d", "d/e", "d/e/f", "d/g"}
TreeAbove == [p \in Tree |-> CASE p = "d" -> {} [] p = "d/e/f" -> {"d", "d/e"} [] OTHER -> {"d"}]
Lower(d, e, f, g) == [p \in Tree |-> CASE p = "d" -> d [] p = "d/e" -> e [] p = "d/e/f" -> f [] p = "d/g" -> g]
Deep == {Lower("dir", "dir", "r1", "s1"), Lower("dir", "dir", "none", "r1"), Lower("dir", "r1", "none", "s1"),
         Lower("dir", "s1", "none", "none"), Lower("r1", "none", "none", "none")}
Flat == {Lower("dir", "dir", "r1", "none"), Lower("dir", "none", "none", "r1")}
Unused == [lowers |-> {Lower("dir", "none", "none", "none")}, touched |-> {},
           contents |-> {}, intents |-> 0, disturbed |-> FALSE]
Changing == [lowers |-> Deep, touched |-> Tree, contents |-> {"r1", "r2", "s1"}, intents |-> 0, disturbed |-> TRUE]
Reporting == [lowers |-> Flat, touched |-> Tree, contents |-> {"r1"}, intents |-> 2, disturbed |-> FALSE]
MCWorkspaces == {Unused, Changing, Reporting}

MCSessions == (MCNetworks \X {Unused}) \union ({Silent} \X MCWorkspaces)
=============================================================================
