--------------------------- MODULE MCSocketServer ---------------------------
(***************************************************************************)
(* The programs that listen with SOCKET_main, for TLC.                     *)
(***************************************************************************)
EXTENDS SocketServer

\* DCPAM ETL: its only client is LCS, which sends pings and waits for the
\* answer.  (A request that is no ping would not be unregistered.)
DcpamEtl == [closes |-> {1}, unregister |-> TRUE, thread |-> TRUE, leave |-> FALSE]
DcpamRdp == [closes |-> {1}, unregister |-> FALSE, thread |-> FALSE, leave |-> TRUE]
DcpamWds == [closes |-> {1}, unregister |-> TRUE, thread |-> FALSE, leave |-> TRUE]
\* DCPAM LCS without its ping worker.
DcpamLcs == [closes |-> {2, 6}, unregister |-> TRUE, thread |-> FALSE, leave |-> TRUE]

AllPrograms == {DcpamEtl, DcpamRdp, DcpamWds, DcpamLcs}
\* DCPAM RDP, for ETL nodes that wait for their answers.
RdpOnly == {[DcpamRdp EXCEPT !.leave = FALSE]}
=============================================================================
