--------------------------- MODULE MCCloudRunShell ---------------------------
(***************************************************************************)
(* The Shell with one connection: several of them at once are the run of   *)
(* the gateway alone, and the theorems are about any number.               *)
(***************************************************************************)
EXTENDS CloudRunShell

CONSTANT c1

MCConn == {c1}
=============================================================================
