---------------------------- MODULE MCNamespace ----------------------------
(* Instances of DbfsNamespace for TLC. *)
EXTENDS DbfsNamespace, TLC

CONSTANTS a, b            \* two names
MCNames == {a, b}
NameSymmetry == Permutations(MCNames)

MCUsers == {0, 7}        \* uid 0 and an ordinary user
OneUser == {0}

\* A private mode and the mode of a shared directory with the sticky bit.
PrivateAndShared == {{"u"}, {"u", "o", "t"}}
\* All that an action or a property reads: not the "." and ".." of sockets and block
\* devices, nor continue_number but for whether it is there.
NodeView(i) ==
    IF inodes[i].kind = "node" THEN [inodes[i] EXCEPT !.dot = None, !.dotdot = None] ELSE inodes[i]
FuseView == <<[i \in Inos |-> NodeView(i)], counter, mounted, continue_number = None>>

SharedOnly == {{"u", "o", "t"}}
PrivateOnly == {{"u"}}

=============================================================================
