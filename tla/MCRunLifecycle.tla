--------------------------- MODULE MCRunLifecycle ---------------------------
(***************************************************************************)
(* Small instances of RunLifecycle for TLC: all runs share one thread, so  *)
(* that their jobs compete for its lock and checkpoint.                    *)
(***************************************************************************)
EXTENDS RunLifecycle, TLC

CONSTANT t1

OneThread == [r \in Runs |-> t1]

Symmetry == Permutations(Runs) \cup Permutations(Choices)

=============================================================================
