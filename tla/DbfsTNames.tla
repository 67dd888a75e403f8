----------------------------- MODULE DbfsTNames -----------------------------
(***************************************************************************)
(* The names of DBFS-T: the "inodes" bucket and the dir_<ino> buckets that *)
(* tx_engine.rs keeps in jammdb, and the operations of rvfs_adapter.rs on  *)
(* them.  An operation holds the engine's mutex from beginning to end, but *)
(* it is two jammdb transactions: when the second one fails, or the        *)
(* machine stops before it, the first one stays.                           *)
(***************************************************************************)
EXTENDS Integers, FiniteSetsExt, Reachability

CONSTANTS
    Names,      \* file names, "." and ".." apart
    MaxIno,     \* bound: inode numbers handed out are 1..MaxIno
    Cuts        \* the operations that may end between their two transactions

Operations == {"create", "mkdir", "unlink", "rmdir", "rename_to"}

ASSUME NamesAssumption ==
    /\ MaxIno \in Nat \ {0}
    /\ Cuts \subseteq Operations

VARIABLES
    inodes,   \* the "inodes" bucket: what kind each number is and its nlink
    dirs,     \* the dir_<ino> buckets; None where there is no entry
    split,    \* history: the numbers whose rename ended half way
    tidy      \* history: whether every operation ended and none replaced a name

namesVars == <<inodes, dirs, split, tidy>>

Inos == 1..MaxIno
None == 0
RootIno == 1
NoEntries == [n \in Names |-> None]

InodeMetadata == [kind : {"none", "dir", "file"}, nlink : 0..2]
Absent == [kind |-> "none", nlink |-> 0]

Live(i) == inodes[i].kind # "none"
NamesOf(i) == {e \in Inos \X Names : dirs[e[1]][e[2]] = i}

\* mount: the root directory is made in the transaction that makes the buckets.
NamesInit ==
    /\ inodes = [i \in Inos |-> IF i = RootIno THEN [kind |-> "dir", nlink |-> 2] ELSE Absent]
    /\ dirs = [i \in Inos |-> NoEntries]
    /\ split = {} /\ tidy = TRUE

-----------------------------------------------------------------------------
(* What the VFS guarantees of the calls it makes *)

Below(i) == Reach(i, [d \in Inos |-> {dirs[d][n] : n \in Names}], MaxIno)

VfsDirs == {d \in Inos : inodes[d].kind = "dir" /\ d \in Below(RootIno)}

-----------------------------------------------------------------------------
(* The transactions of TransactionEngine *)

\* allocate_inode: one above the greatest number in use, and nlink 1.
NewIno == Max({i \in Inos : Live(i)} \cup {1}) + 1
Allocated(kind) == [inodes EXCEPT ![NewIno] = [kind |-> kind, nlink |-> 1]]

add_dentry(d, n, i) == [dirs EXCEPT ![d][n] = i]
delete_dentry(f, d, n) == [f EXCEPT ![d][n] = None]

\* delete_inode: the directory's bucket goes with it.
inodes_Without(i) == [inodes EXCEPT ![i] = Absent]
dirs_Without(f, i) == [f EXCEPT ![i] = NoEntries]

\* The operation runs to its end, or ends after its first transaction.
Whole == UNCHANGED <<split, tidy>>
Cut(op) == op \in Cuts /\ tidy' = FALSE /\ UNCHANGED split

-----------------------------------------------------------------------------
(* The operations of DbfsInode *)

\* Mutant: the entry is added before the inode is there.
create_EntryFirst(d, n, op) ==
    /\ dirs[d][n] = None /\ NewIno \in Inos
    /\ dirs' = add_dentry(d, n, NewIno)
    /\ \/ Whole /\ inodes' = Allocated(IF op = "mkdir" THEN "dir" ELSE "file")
       \/ Cut(op) /\ UNCHANGED inodes

\* create and mkdir, after a lookup that did not find the name.
create(d, n, op) ==
    /\ dirs[d][n] = None /\ NewIno \in Inos
    /\ inodes' = Allocated(IF op = "mkdir" THEN "dir" ELSE "file")
    /\ \/ Whole /\ dirs' = add_dentry(d, n, NewIno)
       \/ Cut(op) /\ UNCHANGED dirs

\* Mutant: the inode stays.
unlink_KeepsInode(d, n) ==
    /\ dirs[d][n] # None /\ inodes[dirs[d][n]].kind # "dir"
    /\ dirs' = delete_dentry(dirs, d, n)
    /\ Whole /\ UNCHANGED inodes

\* Of an entry whose number has no metadata the entry alone is removed.
unlink(d, n) ==
    LET i == dirs[d][n]
        left == IF inodes[i].nlink > 0 THEN inodes[i].nlink - 1 ELSE 0
        without == delete_dentry(dirs, d, n)
    IN  /\ i # None /\ inodes[i].kind # "dir"
        /\ \/ /\ Whole
              /\ dirs' = IF left = 0 THEN dirs_Without(without, i) ELSE without
              /\ inodes' = IF left = 0 THEN inodes_Without(i) ELSE [inodes EXCEPT ![i].nlink = left]
           \/ Cut("unlink") /\ dirs' = without /\ UNCHANGED inodes

\* Mutant: the directory is not checked to be empty.
rmdir_Unchecked(d, n) ==
    LET i == dirs[d][n]
    IN  /\ i # None /\ inodes[i].kind = "dir"
        /\ dirs' = dirs_Without(delete_dentry(dirs, d, n), i)
        /\ inodes' = inodes_Without(i)
        /\ Whole

\* rmdir of a directory that has an entry returns NotEmpty.
rmdir(d, n) ==
    LET i == dirs[d][n]
        without == delete_dentry(dirs, d, n)
    IN  /\ i # None /\ inodes[i].kind = "dir" /\ dirs[i] = NoEntries
        /\ \/ Whole /\ dirs' = dirs_Without(without, i) /\ inodes' = inodes_Without(i)
           \/ Cut("rmdir") /\ dirs' = without /\ UNCHANGED inodes

\* Mutant: the old entry stays.
rename_to_Copies(od, on, nd, nn) ==
    /\ dirs[od][on] # None /\ dirs[od][on] # dirs[nd][nn]
    /\ dirs' = add_dentry(nd, nn, dirs[od][on])
    /\ Whole /\ UNCHANGED inodes

\* Neither the kind nor the inode of what the new name had is looked at; a rename
\* of a name onto the same inode ends in the VFS.
rename_to(od, on, nd, nn) ==
    LET i == dirs[od][on]
        t == dirs[nd][nn]
        added == add_dentry(nd, nn, i)
    IN  /\ i # None /\ i # t
        /\ inodes[i].kind = "dir" => nd \notin Below(i)
        /\ t # None => inodes[t].kind = inodes[i].kind /\ od \notin Below(t)
        /\ \/ /\ dirs' = delete_dentry(added, od, on)
              /\ tidy' = (tidy /\ t = None)
              /\ UNCHANGED split
           \/ /\ "rename_to" \in Cuts
              /\ dirs' = added
              /\ split' = split \cup {i} /\ tidy' = FALSE
        /\ UNCHANGED inodes

NamesNext ==
    \/ \E d \in VfsDirs, n \in Names :
        \/ create(d, n, "create") \/ create(d, n, "mkdir")
        \/ unlink(d, n) \/ rmdir(d, n)
    \/ \E od, nd \in VfsDirs, on, nn \in Names : rename_to(od, on, nd, nn)

NamesSpec == NamesInit /\ [][NamesNext]_namesVars

-----------------------------------------------------------------------------
(* Properties *)

NamesTypeOK ==
    /\ inodes \in [Inos -> InodeMetadata]
    /\ dirs \in [Inos -> [Names -> Inos \cup {None}]]
    /\ split \subseteq Inos /\ tidy \in BOOLEAN

\* The state keeps its type, and no entry names a number without metadata, whichever
\* create, mkdir, unlink or rmdir ended half way, unless it was left by a rename that
\* did: one such entry makes readdir of its directory return an error.
NoDangling ==
    NamesTypeOK /\ \A d \in Inos, n \in Names :
        dirs[d][n] \notin split \cup {None} => Live(dirs[d][n])

\* An inode no rename of which ended half way has at most as many names as nlink
\* says: the unlink that deletes it removes its last name.
NamesWithinLinks ==
    \A i \in Inos \ (split \cup {RootIno}) : Cardinality(NamesOf(i)) <= inodes[i].nlink

\* The bucket of a directory that has entries is never deleted, whatever names
\* the operations that end half way leave behind, and however numbers are reused.
NonEmptyDirKept == [][\A d \in Inos : dirs[d] # NoEntries => inodes'[d].kind = "dir"]_namesVars

\* As long as every operation ends and none replaces a name, no inode is left
\* without a path to it.
NothingLeaked == tidy => \A i \in Inos : Live(i) => i \in Below(RootIno)

=============================================================================
