------------------------------- MODULE MCWal -------------------------------
(* Instances of DbfsWal for TLC. *)
EXTENDS DbfsWal

CONSTANTS t1, t2
MCThreads == {t1, t2}
Symmetric == Permutations(MCThreads)
MCNames == {"f", "g"}
MCContents == {"empty", "x", "y"}

\* File f is inode 1 and there is no g.
OneFile ==
    [dir |-> [n \in MCNames |-> IF n = "f" THEN 1 ELSE NoFile],
     data |-> [i \in Inos |-> IF i = 1 THEN "empty" ELSE "gone"],
     next |-> 2]

\* The operations of write_at and truncate on the files that are there ...
DataOps == {op \in Writes \cup Truncates : op.ino = 1}
OneDataOp == {<<op>> : op \in DataOps}
\* ... in transactions of two, ...
TwoDataOps == {<<op, op2>> : op, op2 \in Writes}
TwoFiles ==
    [dir |-> [n \in MCNames |-> IF n = "f" THEN 1 ELSE 2],
     data |-> [i \in Inos |-> "empty"],
     next |-> 3]
\* ... and those of create, unlink and rename_to.
FewOps ==
    {<<op>> : op \in {o \in Creates \cup Deletes \cup Renames : o.name = "g" /\ (o \in Renames => o.to = "f")}}
    \cup {<<op, op2>> : op \in {o \in Deletes : o.name = "g"}, op2 \in {o \in DataOps : o.kind = "truncate"}}

\* How the file system comes up after a crash.
ByReplay == {"replay"}
Anyhow == {"replay", "mount"}

=============================================================================
