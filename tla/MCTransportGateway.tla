-------------------------- MODULE MCTransportGateway --------------------------
(***************************************************************************)
(* The gateway with an owner that stops it and exits.  Two connections and *)
(* two workers make the pool a bound: one worker waits for stop(), and the *)
(* write of one connection and the teardown of the other want the second.  *)
(***************************************************************************)
EXTENDS TransportGateway

CONSTANTS c1, c2

MCConn == {c1, c2}

MCSpec ==
  /\ GatewayInit
  /\ [][LoopNext \/ OwnerStops \/ OwnerExits]_gatewayVars
  /\ ThreadFairness /\ KillFairness /\ ChildFairness
=============================================================================
