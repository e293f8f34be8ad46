----------------------------- MODULE MCMemories -----------------------------
(* Memories on a small instance: two access modes, two tasks, a client and   *)
(* two requesters of saves.                                                  *)
EXTENDS Memories, TLC

CONSTANTS m1, m2, t1, t2, s1, s2, h1

FirstLine == {<<1, 0>>, <<0, 0>>}
Symmetry == Permutations(Modes) \cup Permutations(Tasks) \cup Permutations(Savers)
=============================================================================
