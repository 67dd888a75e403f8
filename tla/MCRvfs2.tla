------------------------------ MODULE MCRvfs2 -------------------------------
(* Two callers, two superblocks, two names and three numbers behind the root. *)
EXTENDS Rvfs2, TLC

CONSTANTS a, b, t1, t2, m1, m2

Symmetry == Permutations(Names) \cup Permutations(Threads) \cup Permutations(Mounts)

=============================================================================
