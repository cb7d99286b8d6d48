-------------------------- MODULE MCMessagePipeline --------------------------
(* Instances of MessagePipeline for TLC. *)
EXTENDS MessagePipeline
=============================================================================
