--------------------------- MODULE MCCoordination ---------------------------
(***************************************************************************)
(* The instance of the test: five stages, three events of data for each.   *)
(* A shutdown signal can overtake all, some or none of the data.           *)
(***************************************************************************)
EXTENDS Coordination
=============================================================================
