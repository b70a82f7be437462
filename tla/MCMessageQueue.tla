--------------------------- MODULE MCMessageQueue ---------------------------
(* Model-checking instances of MessageQueue. *)
EXTENDS MessageQueue, TLC

\* Messages are only compared for equality.
Symmetry == Permutations(Messages)
=============================================================================
