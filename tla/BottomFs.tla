------------------------------ MODULE BottomFs ------------------------------
(***************************************************************************)
(* The operations that transactions record (operation.rs) and what each    *)
(* does to the file system below when it is applied (rvfs2/common.rs).     *)
(* The file system is one directory and the contents of inodes; each       *)
(* operation is a jammdb transaction of its own, atomic and durable.       *)
(***************************************************************************)
EXTENDS Integers, SequencesExt

CONSTANTS
    Names,      \* the names in the directory
    MaxIno,     \* bound: inode numbers handed out are 1..MaxIno
    Contents,   \* what a file may hold; Empty is one of them
    Empty

ASSUME FsAssumption == MaxIno \in Nat /\ Empty \in Contents /\ "gone" \notin Contents

Inos == 1..MaxIno
NoFile == 0

\* A directory entry holds an inode number or NoFile; a number without a bucket
\* holds "gone"; next is DBFS_INODE_NUMBER.
Fs == [dir : [Names -> Inos \cup {NoFile}],
       data : [Inos -> Contents \cup {"gone"}],
       next : 1..(MaxIno + 1)]

\* Mkdir is applied as Create is.
Creates == [kind : {"create"}, name : Names]
Deletes == [kind : {"delete"}, name : Names]
Renames == [kind : {"rename"}, name : Names, to : Names]
Writes == [kind : {"write"}, ino : Inos, with : Contents]
Truncates == [kind : {"truncate"}, ino : Inos]
Operations == Creates \cup Deletes \cup Renames \cup Writes \cup Truncates

\* Whether apply() finds what the operation needs and returns Ok.
Applies(fs, op) ==
    CASE op.kind = "create" -> fs.dir[op.name] = NoFile /\ fs.next \in Inos
      [] op.kind \in {"delete", "rename"} -> fs.dir[op.name] # NoFile
      [] op.kind \in {"write", "truncate"} -> fs.data[op.ino] # "gone"

dbfs_create(fs, name) ==
    [dir |-> [fs.dir EXCEPT ![name] = fs.next],
     data |-> [fs.data EXCEPT ![fs.next] = Empty],
     next |-> fs.next + 1]

dbfs_unlink(fs, name) ==
    [fs EXCEPT !.dir[name] = NoFile, !.data[fs.dir[name]] = "gone"]

\* The inode that the new name had, if any, keeps its bucket.
dbfs_rename(fs, old, new) ==
    [fs EXCEPT !.dir = [fs.dir EXCEPT ![old] = NoFile, ![new] = fs.dir[old]]]

dbfs_write(fs, ino, with) == [fs EXCEPT !.data[ino] = with]

dbfs_truncate(fs, ino) == [fs EXCEPT !.data[ino] = Empty]

Apply(fs, op) ==
    CASE op.kind = "create" -> dbfs_create(fs, op.name)
      [] op.kind = "delete" -> dbfs_unlink(fs, op.name)
      [] op.kind = "rename" -> dbfs_rename(fs, op.name, op.to)
      [] op.kind = "write" -> dbfs_write(fs, op.ino, op.with)
      [] op.kind = "truncate" -> dbfs_truncate(fs, op.ino)

\* The operations in order, those that do not apply left out.
ApplyAll(fs, ops) ==
    LET after[k \in 0..Len(ops)] ==
            IF k = 0 THEN fs
            ELSE IF Applies(after[k - 1], ops[k]) THEN Apply(after[k - 1], ops[k]) ELSE after[k - 1]
    IN  after[Len(ops)]

=============================================================================
