---------------------------- MODULE MCAgentConn ----------------------------
(* Two sockets (one reconnect or replacement), a chat request and a        *)
(* workspace action; a coding run takes the same steps as the latter.      *)
EXTENDS AgentConn
=============================================================================
