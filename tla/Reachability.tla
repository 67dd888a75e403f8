---------------------------- MODULE Reachability ----------------------------
(* Walks over a tree of directories. *)
EXTENDS Integers

\* What a walk from i comes to in at most n steps, next giving the successors of
\* what has some.
Reach(i, next, n) ==
    LET level[k \in 0..n] ==
            IF k = 0 THEN {i}
            ELSE level[k - 1] \cup UNION {next[d] : d \in level[k - 1] \cap DOMAIN next}
    IN  level[n]

=============================================================================
