------------------------------- MODULE MCIrq --------------------------------
(* The interrupt controller's run. *)
EXTENDS S3CIrq, TLC
=============================================================================
