----------------------------- MODULE MCHandover ------------------------------
(***************************************************************************)
(* The small clusters of MCRouteController, with two managers.             *)
(***************************************************************************)
EXTENDS Handover, MCRouteController

=============================================================================
