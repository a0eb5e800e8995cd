--------------------------- MODULE ApprovalSocket ---------------------------
(***************************************************************************)
(* The two ends of a lease's approval socket, the broker (ApprovalBroker)   *)
(* and the adapter's client (ApprovalClient), each against a peer that does *)
(* whatever the protocol allows; `end' says which of them is real.          *)
(***************************************************************************)
EXTENDS ApprovalBroker

CONSTANTS Pollers, Guarded, MaxHooks, BrokerFails

VARIABLES end, pc, sock, conns, canceled, err,
          teardown,   \* the client's closing
          handed      \* hooks the client was handed

clientVars == <<pc, sock, conns, canceled, err, teardown, handed>>
socketVars == <<end, vars, clientVars>>

Client == INSTANCE ApprovalClient WITH closing <- teardown, hooks <- handed

SocketInit == end \in {"broker", "client"} /\ Init /\ Client!Init

SocketNext ==
    /\ UNCHANGED end
    /\ \/ end = "broker" /\ Next /\ UNCHANGED clientVars
       \/ end = "client" /\ Client!Next /\ UNCHANGED vars

SocketSpec == SocketInit /\ [][SocketNext]_socketVars

\* closeConnections: once Close or report has taken its snapshot, no poller is
\* left in a read that only the broker could end.
SnapshotIsComplete ==
    teardown => \A u \in Client!Users : pc[u] \in {"read", "ack"} => sock[u] = "closed"
=============================================================================
