----------------------------- MODULE MCBufferQueue -----------------------------
(* BufferQueue for TLC: the instance is in MCBufferQueue.cfg.               *)
EXTENDS BufferQueue, TLC

(* Threads of one role, and the contents of buffers, are interchangeable. *)
Symmetry ==
  Permutations(Producers) \cup Permutations(Consumers) \cup Permutations(Buffers)
================================================================================
