------------------------------ MODULE MCTargets ------------------------------
(* Targets on a small instance: two periods, one job, one request.         *)
EXTENDS Targets
=============================================================================
