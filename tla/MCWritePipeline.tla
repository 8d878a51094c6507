-------------------------- MODULE MCWritePipeline --------------------------
(***************************************************************************)
(* Small instances of WritePipeline for TLC: writes 2 and 5 are refused.  *)
(***************************************************************************)
EXTENDS WritePipeline

MCBad == {2, 5} \cap Writes

=============================================================================
