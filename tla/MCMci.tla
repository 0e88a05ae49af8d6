------------------------------- MODULE MCMci --------------------------------
(* The SD host's runs. *)
EXTENDS S3CMci, TLC
=============================================================================
