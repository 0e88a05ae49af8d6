------------------------------- MODULE MCDma --------------------------------
(* Model values of the DMA channel runs. *)
EXTENDS S3CDma, TLC

CONSTANTS b1, b2, b3, b4

MCBuf == {b1, b2, b3, b4}

(* The driver tells buffers apart only by identity. *)
Symmetry == Permutations(MCBuf)
=============================================================================
