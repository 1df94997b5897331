------------------------------- MODULE MCPorts -------------------------------
(* Two accounts whose searches start at neighbouring ports of a pool of four; *)
(* one account is used by a daemon and a client, the other by a daemon.       *)
EXTENDS Ports, TLC

CONSTANTS work, home, daemonW, clientW, daemonH

MCAccountOf == daemonW :> work @@ clientW :> work @@ daemonH :> home
MCOffset == work :> 0 @@ home :> 1
=============================================================================
