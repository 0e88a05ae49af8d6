------------------------------- MODULE MCAdc --------------------------------
(***************************************************************************)
(* Instances of the ADC core for TLC: the touchscreen and interchangeable  *)
(* readers.                                                                *)
(***************************************************************************)
EXTENDS S3CAdc, TLC

Symmetry == Permutations(Reader)

=============================================================================
