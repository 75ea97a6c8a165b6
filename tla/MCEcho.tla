------------------------------- MODULE MCEcho -------------------------------
(***************************************************************************)
(* Instances of Echo for TLC: two clients, pieces of at most two bytes.    *)
(***************************************************************************)
EXTENDS Echo

CONSTANTS c1, c2, server

MCClients == {c1, c2}
MCPrograms == {[server |-> "echoserveri", client |-> "echoclient"],
               [server |-> "server1222", client |-> "echoclient"],
               [server |-> "echoserveri", client |-> "socket_interface"],
               [server |-> "socket_interface", client |-> "socket_interface"]}

(* Two lines; and a line that is cut, with a last piece without a newline. *)
MCInputs == {<<TRUE, TRUE>>, <<FALSE, FALSE, FALSE>>}
=============================================================================
