---------------------------- MODULE AgentRouterMC ----------------------------
(***************************************************************************)
(* Small instances of AgentRouter: service web with deployments w1 and w2, *)
(* service api with a1.                                                    *)
(***************************************************************************)
EXTENDS AgentRouter, TLC

CONSTANTS web, api, w1, w2, a1

MCServiceOf == [d \in Deployments |-> IF d = a1 THEN api ELSE web]
MCHostPort == (web :> 1) @@ (api :> 2)
MCSharedPort == (web :> 1) @@ (api :> 1)
=============================================================================
