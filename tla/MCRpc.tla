------------------------------- MODULE MCRpc --------------------------------
(* Two clients of a service with an ordinary and a priority api, for TLC.  *)
EXTENDS Rpc

CONSTANTS c1, c2, move, stop

MCClients == {c1, c2}
MCApis == {move, stop}
MCPriorityApis == {stop}
NoneOrAll == {{}, {"loss", "unmatched", "timeout", "badreply"}}
=============================================================================
