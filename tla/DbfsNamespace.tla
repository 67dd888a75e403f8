--------------------------- MODULE DbfsNamespace ---------------------------
(***************************************************************************)
(* The directory tree that DBFS keeps in jammdb buckets: one bucket per    *)
(* inode, named by its number, whose keys are the inode's attributes and,  *)
(* for a directory, its entries.  The operations are the dbfs_common_*     *)
(* functions of inode.rs, link.rs and fs_type.rs as the FUSE handlers      *)
(* (fuse/inode.rs, fuse/link.rs) call them; the old rvfs mount, whose      *)
(* rename is another function, is module RvfsMount.                        *)
(*                                                                         *)
(* An operation is one action: the FUSE session loop takes its requests    *)
(* one at a time and the kernel holds the parents' locks over rename, so   *)
(* the read transactions of an operation see what its write transaction    *)
(* sees.  A write transaction takes effect at its commit and vanishes when *)
(* it is dropped on an error or a panic, so an action either makes all of  *)
(* its bucket changes or none; the inode counter lives outside.            *)
(***************************************************************************)
EXTENDS Integers, FiniteSets, Reachability

CONSTANTS
    Names,        \* file names, "." and ".." apart
    Users,        \* the uids of requests
    RootUser,     \* uid 0
    MountUser,    \* the uid that owns the root directory
    Modes,        \* the modes requests create with: subsets of ModeBits
    MaxIno,       \* bound: inode numbers handed out are 1..MaxIno
    MaxCount,     \* bound: no operation raises a directory size or a link count above it
    Crashes,      \* whether the process may die without unmounting
    Overwrite,    \* whether clients rename onto a name that a directory without the sticky bit holds
    ExchangeDirs, \* whether clients exchange names when one is a directory
    ReplaceLinked \* whether clients rename onto a socket or block device that has another name

ModeBits == {"u", "o", "t"}   \* owner may write, others may write, sticky

ASSUME ConstantsAssumption ==
    /\ IsFiniteSet(Names)
    /\ RootUser \in Users /\ MountUser \in Users
    /\ Modes \subseteq SUBSET ModeBits
    /\ MaxIno \in Nat \ {0} /\ MaxCount \in Nat
    /\ Crashes \in BOOLEAN /\ Overwrite \in BOOLEAN
    /\ ExchangeDirs \in BOOLEAN /\ ReplaceLinked \in BOOLEAN

VARIABLES
    inodes,           \* the inode buckets, Absent where there is none
    counter,          \* DBFS_INODE_NUMBER
    continue_number,  \* the super_blk bucket's key; None before init_db
    mounted,          \* whether the file system is being served
    reply             \* what the last request returned

vars == <<inodes, counter, continue_number, mounted, reply>>

-----------------------------------------------------------------------------
(* Buckets *)

Inos == 1..MaxIno
None == 0
RootIno == 1
NoEnts == [n \in Names |-> None]

\* A key that a bucket does not have is None; a number without a bucket is Absent.
\* A "node" is a socket or a block device: S_IFSOCK and S_IFBLK contain S_IFDIR, so
\* the code takes it for a directory wherever it tests that bit, while the kernel,
\* told the kind by DbfsFileType::from, does not.  "file" is every other kind.
Inode == [kind : {"none", "dir", "node", "file"}, uid : Users, perm : SUBSET ModeBits,
          size : Nat, hard_links : Nat,
          dot : Inos \cup {None}, dotdot : Inos \cup {None},
          ents : [Names -> Inos \cup {None}]]

Absent == [kind |-> "none", uid |-> RootUser, perm |-> {}, size |-> 0,
           hard_links |-> 0, dot |-> None, dotdot |-> None, ents |-> NoEnts]

Live(i) == inodes[i].kind # "none"
IsDir(i) == inodes[i].kind = "dir"
IsFile(i) == inodes[i].kind \in {"node", "file"}
S_IFDIR(i) == inodes[i].kind \in {"dir", "node"}   \* mode.contains(S_IFDIR)
Entries(d) == {n \in Names : inodes[d].ents[n] # None}

\* The names an inode has: the directory entries that hold its number.
NamesOf(i) == {e \in Inos \X Names : inodes[e[1]].ents[e[2]] = i}

\* What dbfs_common_create puts in the bucket of a new inode.  No operation here
\* reads the permissions of a plain file.
NewInode(kind, num, parent, u, m) ==
    LET dots == kind # "file"
    IN  [kind |-> kind, uid |-> u, perm |-> IF dots THEN m ELSE {},
         size |-> IF kind = "dir" THEN 2 ELSE 0,
         hard_links |-> IF kind = "dir" THEN 2 ELSE 1,
         dot |-> IF dots THEN num ELSE None,
         dotdot |-> IF dots THEN parent ELSE None, ents |-> NoEnts]

\* The bucket dbfs_common_root_inode makes: mode 0o777, no ".." entry, size 1.
RootInode ==
    [kind |-> "dir", uid |-> MountUser, perm |-> {"u", "o"}, size |-> 1,
     hard_links |-> 2, dot |-> RootIno, dotdot |-> None, ents |-> NoEnts]

\* May u write to inode i?  The group class is folded into the others.
checkout_access(i, u) ==
    \/ u = RootUser
    \/ (IF inodes[i].uid = u THEN "u" ELSE "o") \in inodes[i].perm

\* The "Sticky bit" handling of unlink, rmdir and rename.
StickyForbids(d, i, u) ==
    "t" \in inodes[d].perm /\ u \notin {RootUser, inodes[d].uid, inodes[i].uid}

-----------------------------------------------------------------------------
(* What the kernel's VFS guarantees of the requests it sends *)

\* The inodes at or below i in the tree.
Below(i) == Reach(i, [d \in Inos |-> {inodes[d].ents[n] : n \in Names}], MaxIno)

\* The directories the kernel can reach by a path: it sends requests for no other.
VfsDirs ==
    LET reached == Below(RootIno)
    IN  {d \in Inos : mounted /\ IsDir(d) /\ d \in reached}

\* A request that adds name n to d follows a lookup that did not find it.
VfsAdds(d, n) == inodes[d].ents[n] = None /\ inodes[d].size < MaxCount

\* A request that removes name n of d follows a lookup that found it: unlink of
\* what is no directory, rmdir of what is one.
VfsRemoves(d, n, kinds) ==
    inodes[d].ents[n] # None /\ inodes[inodes[d].ents[n]].kind \in kinds

\* rename(2) checks existence, kinds and ancestry before it calls the file system;
\* the last conjuncts are what the constants say of clients.
VfsRename(od, on, nd, nn, exchange) ==
    LET s == inodes[od].ents[on]
        t == inodes[nd].ents[nn]
    IN  /\ s # None /\ Live(s) /\ s # t
        /\ od # nd => inodes[nd].size < MaxCount
        /\ IsDir(s) => nd \notin Below(s)
        /\ t # None =>
            /\ Live(t)
            /\ IsDir(t) => od \notin Below(t)
            /\ exchange \/ (IsDir(s) <=> IsDir(t))
            /\ ~exchange /\ "t" \notin inodes[nd].perm => Overwrite
            /\ ~exchange /\ inodes[t].kind = "node" /\ inodes[t].hard_links > 1 => ReplaceLinked
        /\ exchange => t # None /\ (ExchangeDirs \/ ~(IsDir(s) \/ IsDir(t)))

-----------------------------------------------------------------------------
(* Formatting, mounting, unmounting *)

Init ==
    /\ inodes = [i \in Inos |-> Absent]
    /\ counter = 1
    /\ continue_number = None
    /\ mounted = FALSE
    /\ reply = "none"

\* init_db commits the super_blk bucket in a transaction of its own.
init_db ==
    /\ ~mounted /\ continue_number = None
    /\ continue_number' = 1
    /\ UNCHANGED <<inodes, counter, mounted, reply>>

\* FUSE's init leaves the static's initial value: the number that the super block
\* recorded is not read.  Mounting ends with dbfs_common_root_inode.
Mount ==
    /\ ~mounted /\ continue_number # None
    /\ mounted' = TRUE
    /\ \/ /\ Live(RootIno)
          /\ counter' = 1
          /\ UNCHANGED inodes
       \/ /\ ~Live(RootIno)
          /\ counter' = 2
          /\ inodes' = [inodes EXCEPT ![RootIno] = RootInode]
    /\ reply' = "none"
    /\ UNCHANGED continue_number

\* The static counter goes with the process.
Stops == mounted' = FALSE /\ counter' = 1

\* dbfs_common_umount
Unmount ==
    /\ mounted
    /\ continue_number' = counter
    /\ Stops
    /\ UNCHANGED <<inodes, reply>>

\* The process dies between two operations: what was committed stays.
Crash ==
    /\ Crashes /\ mounted
    /\ Stops
    /\ UNCHANGED <<inodes, continue_number, reply>>

-----------------------------------------------------------------------------
(* Operations *)

Fails(error) ==
    reply' = error /\ UNCHANGED <<inodes, continue_number, mounted>>

Commits(buckets) ==
    reply' = "ok" /\ inodes' = buckets /\ UNCHANGED <<continue_number, mounted>>

\* The number is taken before the transaction begins and is not given back
\* when the operation fails.
dbfs_common_create(u, d, n, kind, m) ==
    LET num == counter
    IN  /\ VfsAdds(d, n)
        /\ num \in Inos
        /\ counter' = num + 1
        /\ \/ ~checkout_access(d, u) /\ Fails("AccessError")
           \/ checkout_access(d, u) /\ Live(num) /\ Fails("FileExists")
           \/ /\ checkout_access(d, u) /\ ~Live(num)
              /\ Commits([inodes EXCEPT ![d].size = @ + 1,
                                        ![d].ents[n] = num,
                                        ![num] = NewInode(kind, num, d, u, m)])

\* Mutant: the link count is left alone.
dbfs_common_link_NoCount(u, i, d, n) ==
    /\ VfsAdds(d, n) /\ IsFile(i) /\ checkout_access(d, u)
    /\ Commits([inodes EXCEPT ![d].size = @ + 1, ![d].ents[n] = i])
    /\ UNCHANGED counter

\* Mutant: the directory's size is left alone.
dbfs_common_link_NoSize(u, i, d, n) ==
    /\ VfsAdds(d, n) /\ IsFile(i) /\ checkout_access(d, u)
    /\ inodes[i].hard_links < MaxCount
    /\ Commits([inodes EXCEPT ![d].ents[n] = i, ![i].hard_links = @ + 1])
    /\ UNCHANGED counter

dbfs_common_link(u, i, d, n) ==
    /\ VfsAdds(d, n) /\ IsFile(i) /\ i \in Below(RootIno)
    /\ inodes[i].hard_links < MaxCount
    /\ \/ ~checkout_access(d, u) /\ Fails("AccessError")
       \/ /\ checkout_access(d, u)
          /\ Commits([inodes EXCEPT ![d].size = @ + 1,
                                    ![d].ents[n] = i,
                                    ![i].hard_links = @ + 1])
    /\ UNCHANGED counter

\* Mutant: the inode is deleted with any of its names.
dbfs_common_unlink_Always(u, d, n) ==
    /\ VfsRemoves(d, n, {"node", "file"}) /\ checkout_access(d, u)
    /\ Commits([inodes EXCEPT ![d].size = @ - 1, ![d].ents[n] = None,
                              ![inodes[d].ents[n]] = Absent])
    /\ UNCHANGED counter

dbfs_common_unlink(u, d, n) ==
    LET i == inodes[d].ents[n]
        kept == inodes[i].hard_links # 1
        denied == ~checkout_access(d, u) \/ StickyForbids(d, i, u)
    IN  /\ VfsRemoves(d, n, {"node", "file"})
        /\ \/ denied /\ Fails("AccessError")
           \/ /\ ~denied
              /\ Commits([inodes EXCEPT ![d].size = @ - 1,
                                        ![d].ents[n] = None,
                                        ![i] = IF kept THEN [inodes[i] EXCEPT !.hard_links = @ - 1]
                                               ELSE Absent])
        /\ UNCHANGED counter

\* Mutant: the bound that is right for the root directory's missing "..".
dbfs_common_rmdir_OffByOne(u, d, n) ==
    LET i == inodes[d].ents[n]
    IN  /\ VfsRemoves(d, n, {"dir"}) /\ inodes[i].size <= 3 /\ checkout_access(d, u)
        /\ Commits([inodes EXCEPT ![d].size = @ - 1, ![d].ents[n] = None, ![i] = Absent])
        /\ UNCHANGED counter

dbfs_common_rmdir(u, d, n) ==
    LET i == inodes[d].ents[n]
        denied == ~checkout_access(d, u) \/ StickyForbids(d, i, u)
    IN  /\ VfsRemoves(d, n, {"dir"})
        /\ \/ inodes[i].size > 2 /\ Fails("NotEmpty")
           \/ inodes[i].size <= 2 /\ denied /\ Fails("AccessError")
           \/ /\ inodes[i].size <= 2 /\ ~denied
              /\ Commits([inodes EXCEPT ![d].size = @ - 1,
                                        ![d].ents[n] = None,
                                        ![i] = Absent])
        /\ UNCHANGED counter

-----------------------------------------------------------------------------
(* Rename *)

\* Single puts into the bucket of directory d.
PutEntry(f, d, n, i) == [f EXCEPT ![d].ents[n] = i]
PutSize(f, d, k) == [f EXCEPT ![d].size = k]
PutDot(f, d, i) == [f EXCEPT ![d].dot = i]
PutDotDot(f, d, i) == [f EXCEPT ![d].dotdot = i]

\* Mutant: no directory's target is looked up.
RenameTarget_Never(nd, nn) == None

\* new_number: the target is only looked up in a directory with the sticky bit.
RenameTarget(nd, nn) ==
    IF "t" \in inodes[nd].perm THEN inodes[nd].ents[nn] ELSE None

\* The checks of the two read transactions.
RenameForbidden(u, od, on, nd, nn) ==
    \/ ~checkout_access(od, u) \/ StickyForbids(od, inodes[od].ents[on], u)
    \/ ~checkout_access(nd, u)
    \/ /\ RenameTarget(nd, nn) # None
       /\ StickyForbids(nd, RenameTarget(nd, nn), u)

\* Mutant: the ".." of a moved directory is left alone.
Moved_KeepsDotDot(od, on, nd, nn) ==
    LET s == inodes[od].ents[on]
        left == [inodes EXCEPT ![od].ents[on] = None, ![od].size = @ - 1]
    IN  [left EXCEPT ![nd].ents[nn] = s, ![nd].size = @ + 1]

\* Mutant: the old entry stays.
Moved_KeepsOld(od, on, nd, nn) ==
    [inodes EXCEPT ![nd].ents[nn] = inodes[od].ents[on], ![nd].size = @ + 1]

\* Mutant: a move within one directory counts the new entry twice.
Moved_CountsTwice(od, on, nd, nn) ==
    LET s == inodes[od].ents[on]
        size == inodes[nd].size + 1
        left == [inodes EXCEPT ![od].ents[on] = None, ![od].size = @ - 1]
    IN  [left EXCEPT ![nd].ents[nn] = s, ![nd].size = size]

\* The write transaction of a move: the target's bucket goes if it is known,
\* the size of the new directory is computed from what it was at the start.
Moved(od, on, nd, nn) ==
    LET s == inodes[od].ents[on]
        t == RenameTarget(nd, nn)
        size == inodes[nd].size - (IF t # None THEN 1 ELSE 0)
        removed == [i \in Inos |-> IF i = t THEN Absent ELSE inodes[i]]
        left == PutSize(PutEntry(removed, od, on, None), od, inodes[od].size - 1)
        entered == PutSize(PutEntry(left, nd, nn, s), nd, IF od = nd THEN size ELSE size + 1)
    IN  IF S_IFDIR(s) THEN PutDotDot(entered, s, nd) ELSE entered

\* The write transaction of an exchange: a moved directory's new parent goes to
\* ".." for the one and to "." for the other.
Exchanged(od, on, nd, nn) ==
    LET s == inodes[od].ents[on]
        t == inodes[nd].ents[nn]
        swapped == PutEntry(PutEntry(inodes, nd, nn, s), od, on, t)
        dotted == IF S_IFDIR(s) THEN PutDot(swapped, s, nd) ELSE swapped
    IN  IF S_IFDIR(t) THEN PutDotDot(dotted, t, od) ELSE dotted

\* flags & RENAME_EXCHANGE
RenameExchange(u, od, on, nd, nn) ==
    /\ VfsRename(od, on, nd, nn, TRUE)
    /\ \/ RenameForbidden(u, od, on, nd, nn) /\ Fails("AccessError")
       \/ /\ ~RenameForbidden(u, od, on, nd, nn)
          /\ RenameTarget(nd, nn) = None
          /\ Fails("NotFound")
       \/ /\ ~RenameForbidden(u, od, on, nd, nn)
          /\ RenameTarget(nd, nn) # None
          /\ Commits(Exchanged(od, on, nd, nn))
    /\ UNCHANGED counter

\* A known target whose mode is without S_IFDIR makes the move read its four-byte
\* link count as a usize: the handler panics, and the process with it.
RenamePanics(od, on, nd, nn) ==
    RenameTarget(nd, nn) # None /\ ~S_IFDIR(RenameTarget(nd, nn))

RenameMove(u, od, on, nd, nn) ==
    LET s == inodes[od].ents[on]
        t == RenameTarget(nd, nn)
        forbidden == RenameForbidden(u, od, on, nd, nn)
        nonEmpty == t # None /\ S_IFDIR(t) /\ inodes[t].size > 2
        stuck == S_IFDIR(s) /\ od # nd /\ ~checkout_access(s, u)
    IN  /\ VfsRename(od, on, nd, nn, FALSE)
        /\ \/ forbidden /\ Fails("AccessError") /\ UNCHANGED counter
           \/ ~forbidden /\ nonEmpty /\ Fails("NotEmpty") /\ UNCHANGED counter
           \/ ~forbidden /\ ~nonEmpty /\ stuck /\ Fails("AccessError") /\ UNCHANGED counter
           \/ /\ ~forbidden /\ ~nonEmpty /\ ~stuck
              /\ ~RenamePanics(od, on, nd, nn)
              /\ Commits(Moved(od, on, nd, nn)) /\ UNCHANGED counter
           \/ /\ ~forbidden /\ ~nonEmpty /\ ~stuck
              /\ RenamePanics(od, on, nd, nn)
              /\ reply' = "panic" /\ Stops
              /\ UNCHANGED <<inodes, continue_number>>

-----------------------------------------------------------------------------

Next ==
    \/ init_db \/ Mount \/ Unmount \/ Crash
    \/ \E d \in VfsDirs, n \in Names, u \in Users :
        \/ \E kind \in {"dir", "node", "file"}, m \in Modes : dbfs_common_create(u, d, n, kind, m)
        \/ \E i \in Inos : dbfs_common_link(u, i, d, n)
        \/ dbfs_common_unlink(u, d, n)
        \/ dbfs_common_rmdir(u, d, n)
    \/ \E od, nd \in VfsDirs, on, nn \in Names, u \in Users :
        \/ RenameMove(u, od, on, nd, nn)
        \/ RenameExchange(u, od, on, nd, nn)

Spec == Init /\ [][Next]_vars

-----------------------------------------------------------------------------
(* Properties *)

\* The state has its type; in particular no directory size or link count, both
\* unsigned in the code, is ever decremented below zero.
TypeOK ==
    /\ inodes \in [Inos -> Inode]
    /\ counter \in 1..(MaxIno + 1)
    /\ continue_number \in 0..(MaxIno + 1)
    /\ mounted \in BOOLEAN
    /\ reply \in {"none", "ok", "AccessError", "FileExists", "NotFound", "NotEmpty", "panic"}

\* No directory entry names an inode whose bucket is gone, whatever sequence of
\* operations, overwriting renames and crashes came before: readdir, rmdir and
\* rename unwrap the bucket of the number they read from an entry, and the number
\* may be drawn again for something else.
NoDangling ==
    \A d \in Inos, n \in Names :
        inodes[d].ents[n] # None => Live(inodes[d].ents[n])

\* A directory's recorded size, which is all that rmdir and rename look at to
\* find it empty, is never less than the number of entries it has.
SizeCoversEntries ==
    \A d \in Inos : IsDir(d) =>
        inodes[d].size >= Cardinality(Entries(d)) + (IF d = RootIno THEN 1 ELSE 2)

\* A link count of what is no directory, which is all that unlink looks at to delete the inode,
\* is never less than the number of names it has.
LinksCoverNames ==
    \A i \in Inos : IsFile(i) =>
        inodes[i].hard_links >= Cardinality(NamesOf(i))

\* A directory has at most one name: rmdir and rename delete its bucket with it.
DirHasOneName ==
    \A i \in Inos : IsDir(i) => \A e, f \in NamesOf(i) : e = f

\* The bucket of a directory that still has entries is never deleted, by rmdir
\* or by a rename onto the directory.
NonEmptyDirKept ==
    [][\A d \in Inos : IsDir(d) /\ Entries(d) # {} => IsDir(d)']_vars

\* The state keeps its type, and without overwriting renames and directory exchanges
\* a directory's size is exactly its number of entries, "." and ".." included, so
\* that rmdir of an empty directory succeeds.
DirSizeExact ==
    TypeOK /\ \A d \in Inos : IsDir(d) =>
        inodes[d].size = Cardinality(Entries(d))
                         + Cardinality({x \in {"dot", "dotdot"} : inodes[d][x] # None})

\* ... the link count of what is no directory is exactly its number of names,
LinkCountExact ==
    \A i \in Inos : IsFile(i) =>
        inodes[i].hard_links = Cardinality(NamesOf(i))

\* ... every inode is reachable from the root directory: none is leaked,
NothingLeaked ==
    Live(RootIno) => \A i \in Inos : Live(i) => i \in Below(RootIno)

\* ... and the "." of a directory is itself and its ".." the directory that
\* holds its name, through creation, moves, removals and crashes.
DotsExact ==
    \A d \in Inos : IsDir(d) =>
        /\ inodes[d].dot = d
        /\ \A e \in NamesOf(d) : inodes[d].dotdot = e[1]

=============================================================================
