---------------------------- MODULE MCMapbench ----------------------------
(* Three worker threads (a ring of three channels in PIPELINE mode), the *)
(* code's pipeline_width of 1, two iterations per GLOBAL thread and three *)
(* steps per channel.                                                     *)
EXTENDS Mapbench
=============================================================================
