-------------------------- MODULE MCCommandDelivery --------------------------
(* CommandDelivery with small sets of threads, connections and commands.   *)
EXTENDS CommandDelivery, TLC

Symmetry == Permutations(Conns) \cup Permutations(Workers)
=============================================================================
