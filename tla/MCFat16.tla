------------------------------ MODULE MCFat16 ------------------------------
(* Fat16 for TLC, with a node pool that is smaller than the number of files. *)
EXTENDS Fat16

\* Writes of one byte, of one byte more than a cluster, and beyond the volume.
SmallWrites == {<<0, 1>>, <<0, 3>>, <<8, 1>>}
=============================================================================
