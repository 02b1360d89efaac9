--------------------------- MODULE MCUsagePipeline --------------------------
(* A small instance of UsagePipeline for TLC. *)
EXTENDS UsagePipeline
=============================================================================
