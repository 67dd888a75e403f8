----------------------------- MODULE RvfsMount -----------------------------
(***************************************************************************)
(* The counter of inode numbers under rvfs: it is loaded from the super    *)
(* block by a mount, stored there by sync_fs and by an unmount, and lost   *)
(* with the program.  Of the tree only the buckets are kept, and whether a *)
(* directory's size can be read: dbfs_rename stores it as a decimal string *)
(* where every other operation stores and expects eight bytes, and ends    *)
(* the program (usize!) when it finds anything else.  There is one device: *)
(* a mount of a device that is mounted is refused.                         *)
(***************************************************************************)
EXTENDS Integers

CONSTANT MaxNumber    \* bound: the inode numbers drawn are 1..MaxNumber

ASSUME RvfsMountAssumption == MaxNumber \in Nat \ {0}

VARIABLES
    buckets,        \* number |-> what its bucket is: see BucketKinds
    inode_number,   \* DBFS_INODE_NUMBER
    stored_number,  \* continue_number of the super block
    is_mounted,     \* there is a superblock
    drawn,          \* the numbers of the calls of create that have not committed
    lost_numbers    \* history: numbers in use that the stored number did not cover
                    \* when the program last ended

mountVars == <<buckets, inode_number, stored_number, is_mounted, drawn, lost_numbers>>

Numbers == 1..MaxNumber
RootNumber == 1

\* A spoilt directory has a size in decimal digits.
BucketKinds == {"none", "file", "dir", "spoilt"}

InUse == {i \in Numbers : buckets[i] # "none"}

\* init_db: the super block and nothing else.
MountInit ==
    /\ buckets = [i \in Numbers |-> "none"]
    /\ inode_number = 1 /\ stored_number = 1
    /\ is_mounted = FALSE
    /\ drawn = {} /\ lost_numbers = {}

-----------------------------------------------------------------------------
(* The program *)

\* The program ends without an unmount, and its transactions with it.
Ends ==
    /\ inode_number' = 1
    /\ is_mounted' = FALSE
    /\ drawn' = {}
    /\ lost_numbers' = lost_numbers \cup {i \in InUse : i >= stored_number}
    /\ UNCHANGED <<buckets, stored_number>>

MachineStops == is_mounted /\ Ends

\* Any hook that reads the size of a spoilt directory: attributes, create, link,
\* unlink and rmdir.
ReadSpoiltSize == is_mounted /\ (\E d \in Numbers : buckets[d] = "spoilt") /\ Ends

\* dbfs_create_simple_super_blk and dbfs_common_root_inode: the counter is loaded, a
\* root that is missing must draw number 1 from it, and the root's size is read.
dbfs_get_super_blk ==
    /\ ~is_mounted
    /\ \/ /\ buckets[RootNumber] = "none" /\ stored_number = 1
          /\ buckets' = [buckets EXCEPT ![RootNumber] = "dir"]
          /\ inode_number' = 2 /\ is_mounted' = TRUE
          /\ UNCHANGED <<stored_number, drawn, lost_numbers>>
       \/ /\ buckets[RootNumber] \notin {"none", "spoilt"}
          /\ inode_number' = stored_number /\ is_mounted' = TRUE
          /\ UNCHANGED <<buckets, stored_number, drawn, lost_numbers>>
       \/ /\ buckets[RootNumber] = "spoilt" \/ (buckets[RootNumber] = "none" /\ stored_number # 1)
          /\ Ends

dbfs_sync_fs ==
    /\ is_mounted
    /\ stored_number' = inode_number
    /\ UNCHANGED <<buckets, inode_number, is_mounted, drawn, lost_numbers>>

\* Mutant: the counter is not written back.
dbfs_common_umount_NoStore ==
    /\ is_mounted /\ drawn = {}
    /\ is_mounted' = FALSE
    /\ UNCHANGED <<buckets, inode_number, stored_number, drawn, lost_numbers>>

\* kill_super_blk, once no call is under way.
dbfs_common_umount ==
    /\ is_mounted /\ drawn = {}
    /\ stored_number' = inode_number
    /\ is_mounted' = FALSE
    /\ UNCHANGED <<buckets, inode_number, drawn, lost_numbers>>

-----------------------------------------------------------------------------
(* The hooks of a directory *)

\* dbfs_common_create draws its number before it waits for its transaction.
DrawNumber ==
    /\ is_mounted /\ inode_number \in Numbers
    /\ inode_number' = inode_number + 1
    /\ drawn' = drawn \cup {inode_number}
    /\ UNCHANGED <<buckets, stored_number, is_mounted, lost_numbers>>

\* The transaction, in directory d: the number is not given back when it fails, as it
\* does when d is gone or a bucket has the number.
CommitInode(n, d, kind) ==
    /\ is_mounted /\ n \in drawn
    /\ \/ buckets[d] = "spoilt" /\ Ends
       \/ /\ buckets[d] # "spoilt"
          /\ \/ /\ buckets[d] = "dir" /\ buckets[n] = "none"
                /\ buckets' = [buckets EXCEPT ![n] = kind]
             \/ UNCHANGED buckets
          /\ drawn' = drawn \ {n}
          /\ UNCHANGED <<inode_number, stored_number, is_mounted, lost_numbers>>

\* unlink of a last name or rmdir, in some directory d. Which bucket they delete is left
\* open: the entries that dbfs_rename writes lead to a directory and not to what was moved.
RemoveBucket(d, i) ==
    /\ is_mounted /\ buckets[d] = "dir" /\ buckets[i] \in {"file", "dir"}
    /\ buckets' = [buckets EXCEPT ![i] = "none"]
    /\ lost_numbers' = lost_numbers \ {i}
    /\ UNCHANGED <<inode_number, stored_number, is_mounted, drawn>>

\* dbfs_rename from one directory to another; within one it changes an entry alone.
dbfs_rename(s, t) ==
    /\ is_mounted /\ s # t
    /\ buckets[s] \in {"dir", "spoilt"} /\ buckets[t] \in {"dir", "spoilt"}
    /\ IF "spoilt" \in {buckets[s], buckets[t]}
       THEN Ends
       ELSE /\ buckets' = [buckets EXCEPT ![s] = "spoilt", ![t] = "spoilt"]
            /\ UNCHANGED <<inode_number, stored_number, is_mounted, drawn, lost_numbers>>

MountNext ==
    \/ MachineStops \/ ReadSpoiltSize
    \/ dbfs_get_super_blk \/ dbfs_sync_fs \/ dbfs_common_umount
    \/ DrawNumber
    \/ \E d \in Numbers :
        \/ \E n \in Numbers, kind \in {"file", "dir"} : CommitInode(n, d, kind)
        \/ \E i \in Numbers : RemoveBucket(d, i) \/ dbfs_rename(d, i)

MountSpec == MountInit /\ [][MountNext]_mountVars

-----------------------------------------------------------------------------
(* Properties *)

\* The types.
MountTypeOK ==
    /\ buckets \in [Numbers -> BucketKinds]
    /\ inode_number \in 1..(MaxNumber + 1) /\ stored_number \in 1..(MaxNumber + 1)
    /\ is_mounted \in BOOLEAN
    /\ drawn \subseteq Numbers /\ lost_numbers \subseteq Numbers

\* Every number in use is below the next one that a create draws or, without a mount,
\* below the one that the next mount loads, with one cause named: it was in use when the
\* program last ended, by a crash or on a size that it could not read, and the stored
\* number did not cover it (fs_type.rs:47, 108 and 269).
NumbersAhead ==
    /\ MountTypeOK
    /\ \A i \in InUse \ lost_numbers : i < IF is_mounted THEN inode_number ELSE stored_number

=============================================================================
