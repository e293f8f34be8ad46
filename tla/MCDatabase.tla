----------------------------- MODULE MCDatabase -----------------------------
(* Database on small instances: a chat kind (deletable, its title set by a  *)
(* tool), an access-mode kind (never deletable, settings changed silently). *)
EXTENDS Database, TLC

CONSTANTS s1, s2, w1, w2, a1, t1

OneRecord == [body |-> "x", note |-> "n"]
ModesFirst == [k \in Kinds |-> IF k = "mode" THEN 1 ELSE 0]
OneFirst == [k \in Kinds |-> 1]

Symmetry == Permutations(Sessions) \cup Permutations(Workers)
=============================================================================
