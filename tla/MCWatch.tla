------------------------------- MODULE MCWatch -------------------------------
(***************************************************************************)
(* Two watches with scopes and intervals of their own.                     *)
(***************************************************************************)
EXTENDS WatchExecutor

MCScopeOf == [w \in Watches |-> IF w = 1 THEN "a" ELSE "b"]
MCPollInterval == [w \in Watches |-> w]
=============================================================================
