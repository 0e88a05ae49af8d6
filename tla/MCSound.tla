------------------------------ MODULE MCSound -------------------------------
(* Model values of the sound stream's runs. *)
EXTENDS S3CSound, TLC

CONSTANTS b1, b2, b3, b4

MCBuf == {b1, b2, b3, b4}
=============================================================================
