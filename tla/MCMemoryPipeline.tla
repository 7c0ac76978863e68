-------------------------- MODULE MCMemoryPipeline --------------------------
(* Instances of MemoryPipeline for TLC: turns of two projects that overlap. *)
EXTENDS MemoryPipeline, TLC

CONSTANTS t1, t2, p1, p2

TwoTurns == (t1 :> p1) @@ (t2 :> p2)
=============================================================================
