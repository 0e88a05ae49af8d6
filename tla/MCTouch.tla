------------------------------ MODULE MCTouch -------------------------------
(***************************************************************************)
(* Instances of the touchscreen driver with the ADC core for TLC.          *)
(***************************************************************************)
EXTENDS S3CTouch, TLC

Symmetry == Permutations(Reader)

=============================================================================
