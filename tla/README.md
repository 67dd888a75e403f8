# DBFS: a TLA+ verification project

DBFS stores a file system in jammdb, an embedded key-value store with
transactions. The repository holds three generations of it that share a crate:

1. **DBFS on buckets**: `dbfs_common_*` functions (`inode.rs`, `link.rs`,
   `file.rs`, `attr.rs`, `fs_type.rs`) called by a FUSE session (`fuse/`) and by
   the hooks of an older VFS crate. One jammdb bucket per inode.
2. **rvfs2**: VFS traits (`rvfs2/`) whose data operations go through a transaction
   manager with its own write-ahead log (`transaction.rs`, `wal.rs`,
   `operation.rs`).
3. **DBFS-T**: metadata in jammdb, data appended to a log on the block device
   (`tx_engine.rs`, `log_manager.rs`, `models.rs`, `rvfs_adapter.rs`).

This directory models the three, checks them with TLC on small instances, and proves
their safety for every instance with TLAPS.
`PROJECT.json` holds the map from definitions to source lines, the runs, the mutants each property
is known to catch, the findings and the hazards.

## Inventory

| Component | State | Operations | Interaction | What is hard |
|---|---|---|---|---|
| Directory tree (`inode.rs`, `link.rs`, `fs_type.rs`) | a bucket per inode (mode, uid, `size`, `hard_links`, entries), `super_blk` bucket with `continue_number`, the static `DBFS_INODE_NUMBER` | create, mkdir, mknod, symlink, link, unlink, rmdir, rename (move and exchange), mount, unmount | called by `fuse/`; every operation is read transactions followed by one write transaction | counters kept beside the entries they count; branches of rename that update some of them; the inode counter in memory across crashes |
| rvfs mount (`fs_type.rs`, `dbfs_rename` in `inode.rs`) | the static `DBFS_INODE_NUMBER`, `continue_number`, the numbers that calls of create hold | get_super_blk, sync_fs, kill_super_blk, create, unlink, rmdir, rename | hooks of an older VFS crate over the same buckets; a rename of its own | the counter across crashes and panics; numbers drawn outside the transaction that uses them |
| Transaction manager and log (`transaction.rs`, `wal.rs`, `operation.rs`) | log file, `entries`, `next_offset`, `next_txn_id`, `state_lock`, the file system below | begin, record, commit, commit_into_wal_only, rollback, recover, replay, checkpoint | rvfs2 inodes commit through it, readers take `state_lock`; applying an operation is a jammdb transaction of `rvfs2/common.rs` | a crash between any two of append, flush, apply and clear; failed writes; replay of what was applied; readers against writers |
| DBFS-T names (`tx_engine.rs`, `rvfs_adapter.rs`) | `inodes` bucket, `dir_<ino>` buckets | create, mkdir, unlink, rmdir, rename_to | VFS traits under one mutex | an operation is two jammdb transactions; numbers are reused |
| DBFS-T data (`log_manager.rs`, `tx_engine.rs`) | the device, `next_append_pos`, size and extents of each file | write, read, truncate, set_attr, mount | the extent is added in a jammdb transaction after the append | stop between append and commit; overlapping extents; end of the device; remounts |
| File data (`file.rs`, truncate and fallocate in `inode.rs`) | 512-byte slices under `data<n>` keys | read, write, truncate, fallocate, copy_file_range | FUSE handlers | slices written in part, holes, size accounting |
| Directory listing (`file.rs`, `common.rs`, `fuse/file.rs`) | `GLOBAL_READDIR_TABLE`, keyed by inode | opendir, readdir, readdirplus, releasedir | shared by all handles of a directory | two handles, entries that change between two calls |
| Attributes (`attr.rs`, `fuse/attr.rs`) | keys of the inode bucket | chmod, chown, utimens, xattrs, access | FUSE handlers | checks and updates in different transactions; a missing commit |
| rvfs2 glue (`rvfs2/inode.rs`, `superblock.rs`, `fstype.rs`, `fs_common.rs`) | inode cache, superblock | mount, lookup, link, symlink, rmdir, set_attr | some operations use the manager, others call `rvfs2/common.rs` directly | the cache after unlink, operations that bypass the log |
| `extend.rs`, `alien_integration/`, `rvfs2_demo/`, benches, examples | none of their own or in memory | | | not modelled: a disabled feature, demonstrations without storage, drivers |

What makes each part correct:

* **Tree**: no entry without its inode, no directory with entries deleted, link
  counts and sizes exact for well-behaved clients and, but for the cases named below,
  never too small for any.
* **rvfs mount**: the counter above every number in use.
* **Transactions**: a transaction is in whole or not at all, and durable from the
  flush; readers see no change under their lock; commits return; recovery ends.
* **DBFS-T**: the order of the two transactions of an operation leaves no dangling
  entry; a write that stops before its commit is invisible; reads return what was
  written.
* **File data**: what was written is stored, what was cut off is gone, and an aligned
  read returns it.
* **Listing**: each entry is listed once, and a listing ends.
* **Attributes**: replies say what is stored; only those who may change an attribute
  do; no set-id bit appears or outlives a change of the owner or group it is of.
* **rvfs2 glue**: an object in the cache is of its inode's kind, names are covered by
  links, new numbers lie above those in use.

## Modules

| Module | Models | Composition |
|---|---|---|
| `DbfsNamespace` | the directory tree | `MCNamespace` instantiates it |
| `RvfsMount` | the inode counter under the rvfs mount | `MCRvfsMount` |
| `BottomFs` | what each recorded operation does when applied | extended by the next two |
| `AtomicTxns` | abstract: transactions applied whole at their commit | implemented by `DbfsWal` |
| `DbfsWal` | transaction manager, log, readers, crashes, recovery | `MCWal`; `INSTANCE AtomicTxns` |
| `DbfsTNames` | names of DBFS-T | `MCDbfsTNames` |
| `DbfsTData` | data log of DBFS-T | `MCDbfsTData` |
| `FileData` | slices, sizes and free space of the bucket file system | `MCFileData` |
| `ReadDir` | listings of one directory and the table of offsets | `MCReadDir` |
| `Attributes` | attributes and extended attributes of one file | `MCAttributes` |
| `Rvfs2` | superblocks, inode cache and calls of rvfs2 on one directory | `MCRvfs2` |
| `Subsequences` | what a filter keeps of a sequence, as a recursive function | extended by `DbfsWal`, `DbfsTData`, `ReadDir` |
| `Reachability` | what can be reached from a directory, as a recursive function | extended by `DbfsNamespace`, `DbfsTNames` |
| `LibraryProofs` | lemmas on the last two, on naturals and on embeddings of sequences | extended by the proofs that need them |
| `DbfsNamespaceProofs`, `DbfsWalProofs`, `FileDataProofs`, `ReadDirProofs`, `AttributesProofs` | the theorems of each module | each extends its module |
| `Rvfs2Proofs` | the theorems on the mounts and counters of both VFS front ends | extends `Rvfs2` and `RvfsMount`, whose specification is `MountSpec` |
| `DbfsTProofs` | the theorems of DBFS-T | extends `DbfsTNames` and `DbfsTData`, whose specifications are `NamesSpec` and `DataSpec` |

### DbfsNamespace

`inodes[i]` is the bucket of number `i` (or `Absent`), with the keys the operations
read: kind, owner, mode bits, `size`, `hard_links`, the entries, and the numbers
under "." and "..". `counter` is `DBFS_INODE_NUMBER`, `continue_number` the key of
`super_blk`, `reply` what the last request returned.

One action is one request. The FUSE session takes requests one at a time and the
kernel holds the parent directories' locks over a rename, so the read transactions
of an operation see what its write transaction sees; a write transaction that is
dropped on an error or a panic leaves nothing. What is kept outside the transaction,
the counter, changes also when the operation fails, as in `dbfs_common_create`.
`VfsDirs`, `VfsAdds`, `VfsRemoves` and `VfsRename` are what the kernel guarantees of
the requests it sends (a lookup came before, kinds match, no directory moves below
itself), and are marked external in the map. Modes are reduced to three bits: owner
may write, others may write (the group class is folded into it), sticky.

A bucket is a directory, a `"node"` or a file. A node is a socket or a block device:
`S_IFSOCK` and `S_IFBLK` contain the bit of `S_IFDIR` (`common.rs:101-105`), so that
`dbfs_common_create` gives it "." and ".." and every `contains(S_IFDIR)` of rename takes
it for a directory (the operator `S_IFDIR`), while the kernel and `hard_links` treat it
as a file. Symbolic links, pipes and character devices are files here.

The front end is FUSE, which starts the counter at 1 at every mount and never loads
`continue_number`. Three constants say whether clients do what the code does not get
right (see Divergences): `Overwrite`, a rename onto a name that a directory without the
sticky bit holds; `ExchangeDirs`, an exchange in which one name is a directory's;
`ReplaceLinked`, a rename onto a socket or block device that has another name.

### RvfsMount

The rvfs mount loads `continue_number`, and its rename is `dbfs_rename`
(`inode.rs:381-441`) and not `dbfs_common_rename`. Of the tree the module keeps what the
counter depends on: which numbers have a bucket, and which directories are `"spoilt"`,
that is, have the size in decimal digits that `dbfs_rename` stores. `dbfs_rename` also
writes the new directory's number as the value of the entry, so that what a later unlink
or rmdir finds under a name is not what was moved there; `RemoveBucket` therefore deletes
any bucket, and no property of the tree is stated for this front end. A create is two
steps, `DrawNumber` and `CommitInode`. `Ends` is the end of the program without an
unmount: at any moment (`MachineStops`, which stands for panics elsewhere as well), or
when a spoilt size is read. `lost_numbers` is history: the numbers in use that the stored
number did not cover at such an end.

### BottomFs, AtomicTxns, DbfsWal

`BottomFs` has the operations of `operation.rs` and their effect on one directory and
the contents of inodes; each apply is one jammdb transaction, atomic and durable.
`Applies` says when `apply` returns `Ok`.

`DbfsWal` splits a commit at every point where a crash or another thread can come
between: taking the log's mutex (`commit`), one `append` per operation, `flush`,
taking `state_lock` (`lock_state`), one `apply` per operation, `clear_txn` with the
checkpoint. `job` is what holds the mutex. The file is a sequence of records; a record
whose data was not written is `torn`; after such a failure `next_offset` points behind
the size alone (`skewed`) and later records are `astray`, where `recover()` does not
find a size. `broken` is history: a record was written without its data since the log was last empty,
so that the entries in memory may be more than `recover()` finds. `Surviving` is the set
of files a crash may leave: what was flushed and
any prefix of the later writes, the last one perhaps torn. `mount` gives the manager
an empty log file and does not replay, as `rvfs2/fstype.rs` does; `replay` is what
`dbfs_test.rs` calls; the constant `Starts` says which of the two follows a crash.

`AtomicTxns` is the promise. Under the refinement mapping the state clients see is
`fs` while nothing is past its flush, and otherwise what applying the rest, or
replaying the log, gives: the commit point is the flush, which the source marks as the
atomic point.

### DbfsTNames, DbfsTData

An operation on names runs under the engine's mutex but is two jammdb transactions;
each action either does both or, when its name is in `Cuts`, ends after the first.
The VFS's tree walk is external, as above. `split` and `tidy` are history variables:
which inodes a half-done rename left with two names, and whether every operation
ended and none replaced a name.

`DbfsTData` has the device, the append position and the extents. A write appends and
then commits its extent, or ends in between. Bytes are members of a small set with 0
as the byte of a hole, the checksum is modelled as telling any two contents apart, and
`read_file` folds over the extents in list order with the code's early exit. It starts
from the caller's buffer, whose bytes are all `Stale`: the places of a hole keep them,
although `total` counts those before the end of the last extent. `set_attr` stores any
size and leaves the extents. `log`, `content` and `hidden` are history variables: whether
the log was appended to after a remount; what each file should hold, also behind its end
where `set_attr` made it smaller, kept while it is only written at or behind the end of
that; and the files that `set_attr` made smaller since `truncate_file` last did.

### FileData, ReadDir, Attributes

`FileData` has per file its `size` and `slices`, the free space `disk_size`, and what a
caller has read and not yet used (`pending`): `dbfs_common_truncate` and
`copy_file_range` are two transactions, with a step between them. `written` is the
history of what each place should hold. Memory that the allocator hands out is the byte
"junk", which differs from every byte a client writes, so that whatever relies on it is
seen. `dbfs_common_read` is a recursive function over the block numbers, which runs the
loop's body (`ReadSlice`) for the keys of the code's range, with its arithmetic: the
offset within the first slice is compared with positions from the start of the file, and
the number of the next slice moves by two behind a hole.

`ReadDir` has one directory as a set of names, which are numbered in the order of their
keys, its entry of `GLOBAL_READDIR_TABLE`, and the listings. The cursor passes the numbers
in their order and keeps those that are in the bucket (`InOrder`). `front` is the front end of the build. Under
FUSE a request is one action; under rvfs a thread is inside `dbfs_readdir` and the
snapshot, the reading of the table and the putting into it are steps. A failed assertion
of `dbfs_common_readdir` sets `panicked`, after which the program is started again.
`stable` and `plain` are history: the names that were there all along, and whether no
other listing overlapped, nothing was rewound, and all fitted.

`Attributes` has what the bucket stores and the last reply. A mode is a set of bits, of
which a reply has those of `0o777` only (`FileAttr`, `common.rs:408`); a
request of `setattr` is a record of optional changes, of which the code makes the first.

### Rvfs2

The buckets of one directory and its entries, `DBFS_INODE_NUMBER`, the number stored in
the super block, and per superblock the cache of inode objects, each reduced to its kind.
`create`, `lookup` and `symlink` are split where another thread may come in: after the
transaction, after the lookup, before the insertion into the cache. Those that the
transaction manager applies wait for the readers of `state_lock`, the others do not.
`raced`, `setback` and `lost` are history: the causes after which the cache may hold an
object of another kind.

## Runs

| Run | Shows | Bounds |
|---|---|---|
| `NamespaceTree` | with clients that do not rename onto a name outside sticky directories or onto a socket or block device with another name, nor exchange directories: sizes, link counts and dots are exact and nothing is leaked, through crashes and remounts | 4 numbers, 2 names, 2 users, private and shared sticky modes |
| `NamespaceAny` | clients that do all of that but rename onto a socket or block device with another name: no dangling entry, sizes and counts never below what they count, one name per directory, no directory with entries deleted | 4 numbers, 2 names, counts to 4 |
| `RvfsMount` | rvfs front end with syncs, unmounts, crashes, panics on spoilt sizes, and creates that have drawn their number and not committed: a number in use is drawn again only when the program ended before a counter above it was stored | 5 numbers |
| `WalAtomic` | single-operation transactions (what `write_at` and `truncate` use): refinement of `AtomicTxns`, stable readers, recovery ends, commits return | 2 threads, 2 transactions, 3 records |
| `WalFailures` | failing storage and applies, wal-only commits, mounts without replay, transactions of two: the entries in memory are in the file, flushed transactions survive unless a data write failed before | 2 threads, which are symmetric, 3 transactions, 3 records |
| `DbfsTTree` | every operation may end half way: only a half-done rename leaves entries that can dangle; no non-empty directory is deleted | 4 numbers, 2 names |
| `DbfsTData` | writes at any offset, truncations, sizes set by `set_attr`, remounts, a full device: extents within the file unless `set_attr` made it smaller, no append over an earlier extent in a mount, sequential files read back and the caller's bytes left in their holes | 1 file, 2 byte values, writes of 0 to 2 bytes, 3 extents, a log of 3 bytes appended up to 4 |
| `FileData` | one caller at a time: slices end with their file, every place holds the last byte written there, aligned reads return it, the free space is not overdrawn | 1 caller, slices of 2, sizes to 4, 2 byte values, writes of up to 3 |
| `ReadDir` | two listings and changing entries: a listing that stands alone is exact, its assertions fail only when the table's entry was removed, nothing is left in the table, the loop of `dbfs_readdir` ends and each step brings it closer to that | 2 handles, 4 names, chunks of 3, room for 2 or 4 |
| `Attributes` | three clients: replies are what is stored but for the set-id bits, these are only lost, changes are made by those who may, lists of keys fit | 3 clients, 4 keys, 2 readings of the clock |
| `Rvfs2` | two threads, two superblocks, crashes: names within links, the counter ahead, cached kinds right but for the causes named | 2 names, 3 numbers, 2 links |
| `WalPartialReplay` | expected violation, below | smallest that shows it |

**Why the bounds are enough.** Four numbers give the root, two directories and a
file, or a directory below a directory and two files: moves between directories, onto
files and onto empty and non-empty directories, and two names of one file all occur.
Two names are enough for a rename within a directory and for an exchange. In the log,
three records hold a transaction of two next to one of one, or the remains of a failed
transaction before another. Two transactions in flight are enough for one to wait for
the mutex while the other applies. Three extents over two bytes give two overlapping
extents and one beside them, and positions up to one byte behind the end of the device.
Slices of two bytes have a first and a last byte, and in files of up to four bytes
boundaries, holes and cuts fall on, before and behind each other; a free space of two
is soon used up. (Sizes up to five, with a slice between two others, pass as well, in
more time than a run should take; the theorems hold for any.) A chunk of
three entries and replies of two and of four give listings of one and of several rounds
that end full and not full; the two dots are never removed, the other names come and go.
In `Rvfs2` three numbers are the root and two inodes, enough for a number to be freed and
drawn again; once numbers are drawn a second time one of them is enough. In `RvfsMount`
five numbers give the root and, beside it, two directories to spoil and two creates under
way. `create` is
called for directories there: with symbolic links, which are made by another call, there
are objects of two kinds.
The types of the variables are the first conjunct of one invariant of each module, or,
where types say that an unsigned number does not fall below zero, an invariant of their
own.
Deadlock is not checked where the numbers, once all handed out or leaked, end every
behaviour: that is the bound `MaxIno`, not the code. `NamespaceTree` and
`NamespaceAny` use a view without the last reply and, as FUSE never reads it, without
the value of `continue_number`.

**Fairness.** In `DbfsWal`, weak fairness for the thread that starts the file
system, for the thread inside `commit`, and for a reader that holds the lock: each runs
straight-line code and nothing in it waits but for the locks in the model. Nothing is
assumed of clients: no thread must begin, commit or read. The spinning `RwLock` gives a
writer no turn before new readers, so `CommitReturns` says that a commit returns unless
readers keep coming, and `Recovers` that recovery ends unless crashes keep coming.
In `ReadDir`, weak fairness for a thread that is inside `dbfs_readdir`, which waits for
nothing; nothing is assumed of those that begin listings or change the directory.

## Proofs

Every theorem holds for all values of the constants that the assumption of its module
admits (`ConstantsAssumption`, `FsAssumption`, `WalAssumption` and so on: finite sets
of names, positive bounds, the types of the data), which TLC evaluates in each run. Where
a theorem assumes more it says so in an `ASSUME`, and a run of the module has constants
that satisfy it. `PROJECT.json` lists the theorems; the lemmas are in the same modules, first
those on the operators, then one per action.

### Directory tree

For any client, crashes, overwriting renames, directory exchanges and renames onto sockets
included:

* `Invariance`: the inductive invariant `IInv`;
* `TypeCorrect`: types, in which no unsigned count falls below zero;
* `SizesCover`: the size of a directory covers its entries;
* `NonEmptyDirectoriesStay`: no step deletes a directory that has entries.

For clients that do not rename onto a socket or block device that has another name
(`~ReplaceLinked`; the divergences below show it to be necessary): `NoDanglingEntries`,
`LinksCover`, `OneNamePerDirectory`, which with the above are the properties of
`NamespaceAny`.

None of these is inductive alone. That no entry dangles needs that a file's link count
covers its names (else `unlink` deletes a bucket another entry holds) and that a
directory has one name (else `rmdir` of one name leaves the other). A create must not
draw a number some stale entry holds: a free number has no names because nothing
dangles. These three, `NamesAgree`, stand or fall together, and fall with
`ReplaceLinked`. That sizes cover entries does not depend on them: a bucket that
vanishes takes its size and its entries along, whatever else names it, as long as the
root stays (`RootInv`). So

    IInv == TypeOK /\ RootInv /\ SizeCoversEntries /\ LinksPositive
            /\ (ReplaceLinked \/ NamesAgree)

The argument has three layers: lemmas on cardinalities (a set that gains, loses or
exchanges one element); lemmas on what each way of changing the buckets does to the tree
(`CreateTree`, `LinkTree`, `RemoveTree`, `RearrangeTree`, `ExchangeTree`, `MoveTree`,
`MountTree`); and one lemma per action, combined in `NextInv`.

For clients that, besides, do not rename onto a name outside sticky directories and do
not exchange directories (`~Overwrite`, `~ExchangeDirs`, `~ReplaceLinked`; the
divergences below show each to be necessary), through crashes and remounts:

* `TidyInvariance`: the invariant `TidyInv`;
* `SizesExact`, `LinksExact`, `DotsTheorem`, `NoLeak`: sizes, link counts, "." and ".."
  are exact, and every inode can be reached from the root.

`TidyInv` is kept by the steps that also keep `IInv`. Its first part, `ExactInv`, has the
counts, that only directories have entries (a bucket that becomes a directory again must
start without any) and that ".." is the directory of the name. Its second is
`AllReached`. `Below` is the least set that holds the root and is closed under entries
(`UnderClosed`, `UnderLeast`; for `MaxIno` levels being enough there is a counting
argument in `LibraryProofs`). A directory that is moved keeps what is below it because
it moves into a directory that is not below it, so that the walk to its new parent does
not pass the entry that is removed. A file that loses one name but keeps links still has
a name in a reachable directory because its count is exact: there the second part rests
on the first.

### Transactions

For any number of threads, transactions and records, failing writes, failing
operations, wal-only commits, mounts and replays:

* `WalInvariant`: the invariant `IInv`;
* `EntriesTheorem`: what the manager keeps in memory is in the file, in that order;
* `DurableTheorem`: from the flush on, `recover()` finds the transaction at the end of
  every file that a crash may leave.

The invariant relates five things: the entries and the file (`EntriesInFile`), the
holder of the mutex and its transaction (`JobInv`), a system that is down and what it has
forgotten (`DownInv`), `next_offset` and the place where `recover()` stops
(`OffsetInv`), and the operations that are appended and those to do (`CommitInv`).
`EntriesInFile` was first stated for as long as `next_offset` is right (`~skewed`), and
its proof failed at `replay`: called while the system is up, it sets the offset right,
but entries whose records went astray before stay in memory, and `recover()` does not find
them. TLC shows it with three transactions, which the run therefore has. The property is
now stated, with the history variable `broken`, for as long as no record since the log
was last empty lacks its data.

* `ReadersTheorem` (`~WalOnly`, under which `replay` runs only before the system is up):
  nothing changes under a reader.
* `AtomicTheorem` (`SingleDataOps`: transactions of one write or truncation of a file
  that is there, which is how rvfs2 uses them, storage that does not fail, and `replay`
  after each crash): `DbfsWal` implements `AtomicTxns`, that is, every transaction is
  whole and durable. The assumption is that of the run `WalAtomic`; without it the
  finding below shows it to be false.

The refinement needs that replaying the log changes nothing before the flush
(`BeforeFlush`: what the log holds is applied, except for the record being
committed) and that from the flush on what is left to do makes the same difference as the
log (`Pending`). This rests on lemmas about `ApplyAll`: writes and truncations of
existing files overwrite, so that applying a sequence twice, or once more after a part of
it, gives the same. One lemma per action shows a step or a stutter of `AtomicTxns`; the
flush commits, and so does a crash that leaves the record in the file.

### DBFS-T

`DbfsTProofs` on names, for every set of operations that may end half way:
`NamesInvariant`, `NoDanglingTheorem`, `NamesWithinLinksTheorem`, `NonEmptyDirTheorem`
and `NoLeakTheorem`. The invariant adds to `NoDangling` that numbers in use have one
link (`LinksOK`), that the root has no name, that only a half-done rename gives a number
two names (`OneName`), and that a bucket of entries is never left to a number that is
handed out again (`EntriesInDirs`). For the last theorem the argument on `Below` of the
directory tree is used again.

On data: `DataInvariant`, `ExtentsTheorem`, `CrcTheorem`, `ReadsTheorem`. The
invariant (`FileInv`, of each file) says byte by byte what the device holds of an extent
(`OnDevice`), so that a truncation that shortens an extent keeps it, that in the first
mount extents lie before the append position, so that an append touches none, and that
they end within the file unless it is in `hidden`. For a file that was only
written at or behind its end, `Holds` says that the extents are in order, apart, and
cover exactly the places that were written, those behind the end that `set_attr` left
included: what is known of a file reaches to its end at least, so that growing it again
shows what was there, and `truncate_file` cuts both. `ReadsTheorem` then follows the loop of `read_file`:
after each extent the buffer holds what the extents so far hold of the request, and the
early exit is taken only when the request is full.

### File data

`FileDataProofs` proves, for every slice size, every set of bytes and every bound, for
one caller at a time (`OneCaller`, which the FUSE session is):

* `SlicesEndWithFile`: no slice lies behind the block that holds the end of its file;
* `BytesAreKept`: every place holds the last byte that was written there;
* `ReadsReturnTheFile`: a read that begins in the first slice or at the start of one and
  meets no hole behind its first slice returns the stored bytes, all of them and no more;
* `TypeCorrect`, with a free space that is never charged below zero; and `Invariance`,
  the inductive invariant.

A truncation frees the blocks up to the size that its first transaction read. The
invariant therefore needs, beside the two properties, that the size in `pending` is the
size that the file still has (`PendingOK`), which is where `OneCaller` comes in, and
that a written byte lies below the size in a slice that is there (`WrittenWithin`), so
that a file that grows without a new slice keeps what it had. That every byte is
kept needs that slices end with the file: else a cut that removes blocks up to the old
end would leave one that shows again when the file grows. The steps are laid out by
action, with lemmas on blocks (what `p \div S` gives at a boundary), on a written and on
a cut slice.

`ReadsReturnTheFile` goes through the loop of `dbfs_common_read`. Its invariant is
`LoopInv`: up to the first slice k0 nothing has happened; behind block k > k0 the buffer
holds the stored bytes from the offset up to the end of that block, of the file or of the
request, whichever comes first, and the number of the next slice has kept up. The bytes of
the holes before k0 sum up to the distance from the offset to k0 (`HolesSum`), so that
the zeros end exactly where the slice begins. `ReadType`, with a weaker invariant and no
condition on holes or alignment, shows that every read returns stored bytes and never
more than fit the buffer, which is what the write behind `copy_file_range` needs.

### Directory listing

`ReadDirProofs` proves, for every directory, every number of handles or threads, every
length of a chunk and every room in a reply or a buffer:

* `ListingInvariant`: the invariant `IInv`;
* `PlainListingTheorem`: a listing that no other one overlaps has each name once at most,
  and each name that was there from its beginning to its end;
* `PanicTheorem`: its assertions fail only when the table's entry was removed;
* `TableTheorem`: nothing is left in the table once no handle is open;
* `LoopTheorem`: every step of a thread inside `dbfs_readdir` lowers `Rank`, and no step
  of another thread raises it.

What a listing is to continue from is not in its handle, so that the invariant has to
say that the table is about it. `Stands` says of a listing and an entry that the next
offset is the entry's plus one, that the list is in order and ends at the entry at the
latest, and that each name up to the entry that was there all along is in the list. A
plain listing stands at its `Mark`: the table's entry or, between a thread's read and its
push, the one that the thread has in hand. Others would move the mark, so `Alone` says
that while a plain listing goes on nobody else uses the table; under FUSE that
includes handles whose listing is done, because their `releasedir` empties the table, and
under rvfs it does not. Names that were there all along must be in what is read, which
under rvfs is a snapshot taken before the table is read: `Sound` keeps both. Of a
listing that is overlapped none of this is asked again, and `OneChanges` shows that a
step of one handle then cannot disturb the others. `Continues` is the step itself: all
the names behind the mark (`EntriesAre`), appended, leave nothing out and nothing twice.

`LoopTheorem` is what there is of termination without fairness: a round that does not
end the loop has a full chunk and room for it, so that the list grows, and the list never
grows beyond the buffer. It holds for overlapped listings too, whose table another thread
empties, which makes them start over.

### Attributes, rvfs2

`AttributesProofs`: `ReplyTheorem` (up to the bits that `FileAttr` masks out), `SetIdTheorem`, `AuthorisedTheorem`, for every set of
clients, keys and times. All three follow from one relation, `LawfulChange`, which every
branch of `setattr` and every other request is shown to satisfy. `ListsTheorem`, for every
number of keys and all lengths of their names: the loop of `listxattr` keeps `ListInv` (the
list has some of the keys so far, takes the bytes it counts and no more than there are; and
has all of them if the whole set fits), because the bytes of a set of keys grow with the
set (`LengthGrows`) and by a key's own length (`LengthAdds`).

`Rvfs2Proofs`: `Rvfs2Invariant`, `LinksTheorem`, `CounterTheorem`, `CachedKindTheorem`,
for any number of threads and superblocks. The invariant has the database (`DbInv`: links
cover names, a directory has one), the counter and the caches (`MountInv`), what a thread
that is inside a call remembers (`CallsInv`), and that the cache and those threads only
hold numbers below the counter, with the kinds of their buckets (`CacheInv`): an object
that is still cached for a deleted inode does no harm as long as its number is not drawn
again.

`NumbersTheorem`, of `RvfsMount`, for every bound: `NumbersAhead`. The invariant adds that
the numbers that calls have drawn and not committed are below the counter, and that there
are none without a mount. Whatever ended the program, `Ends` names the numbers that the
stored one did not cover; a bucket that is removed is named no longer.

### Recursion

What a recursive definition computes is proved about by describing the function: `Kept`
(and with it `recover()`, `clear_txn` and the order of a bucket's keys),
`Reach`, `ApplyAll`, `HoleBytes`, `TotalLength` and the loops of `dbfs_common_read` and
`listxattr` are recursive functions over 0..n, for which `LibraryProofs` and the
modules show by induction on a set of naturals (`Induction`, from the least element of its
complement) that a function of the given recursion exists and has the property in question.

### Only model-checked

Liveness: `Recovers` and `CommitReturns` of `DbfsWal`, and `ListingReturns` of `ReadDir`,
the safety part of which is `LoopTheorem`. Liveness under fairness and `ENABLED` are out of
the prover's reach. Every other property of a passing run is a theorem.

## Finding, with a run

* `WalPartialReplay`: the log has no commit record, so a crash during the appends of a
  transaction of two makes `replay` apply the first alone (`wal.rs:66`).

## Divergences met while modelling, without a run of their own

The models contain these; the properties are stated for what holds despite them.

Directory tree:

* A rename outside sticky directories does not look the target up (`inode.rs:996`): a
  directory with entries is replaced and its subtree orphaned (against the comment at
  1065: "Only overwrite an existing directory if it's empty"); a replaced file keeps its
  link count and bucket (against the comment at 1106), and the new directory's size counts
  the replaced name for ever, so that the directory cannot be removed once empty (against
  808). An exchange there returns an error although both names exist (`fuse/mod.rs:277`).
* A rename onto a socket or block device in a sticky directory deletes its bucket without
  looking at `hard_links` (`inode.rs:1119`, against 1106): its other names dangle, and
  after a remount lead to whatever is created under the number. With `ReplaceLinked` TLC
  refutes `NoDangling`, `LinksCoverNames` and `DirHasOneName`.
* An exchange of a directory writes its new parent under "." (`inode.rs:1052`, against the
  comment at 1046). With `ExchangeDirs` TLC refutes `DotsExact`.
* A rename onto a file in a sticky directory reads the four-byte link count as eight
  bytes and panics (`inode.rs:1126`).
* FUSE never loads `continue_number` (`fuse/mod.rs:70`; `doc/设计文档.md:10`): after a
  remount creates draw numbers in use and fail.

rvfs mount:

* The counter is stored at sync and unmount only: after a crash the mount sets a number
  that is in use (`fs_type.rs:108`), and creates fail until the counter is past it.
* `dbfs_rename` stores the sizes of both directories in decimal digits (`inode.rs:425`,
  432), on which the next operation on either panics; as the value of the new entry it
  writes the number of the new directory instead of the inode's (`inode.rs:409`); within
  one directory it does so under the old name.

Transactions:

* `replay` returns at the first operation that fails, and a delete, create or rename that
  was applied before the crash fails: recovery then ends with an error at every start
  (`transaction.rs:96`, against "Automatic recovery via write-ahead log" in `README.md:73`).
* `DbfsFsType::mount` never calls `replay` (`rvfs2/fstype.rs:45`; the README promises
  automatic recovery). `replay` leaves the log as it is (`transaction.rs:101`) and runs
  without `state_lock` (`transaction.rs:28`). A successful commit leaves the log empty,
  which `dbfs_test.rs:82` asserts it does not.
* `append` adds 4 to `next_offset` before the data is written (`wal.rs:49`): after a
  failure later records are where `recover` does not look.

DBFS-T:

* `read_file` takes extents from the oldest on and stops at the first that fills the
  request, so an overwritten range reads as its first write (`tx_engine.rs:74`, against
  the read back at `rvfs_test.rs:97`).
* Every mount appends from the start of the log, over the extents of earlier mounts
  (`rvfs_adapter.rs:249`), also when the write is never committed (against
  `tx_engine.rs:19`, which says that such data is invisible).
* `read_file` counts the bytes of a hole between extents as read and leaves what the
  caller's buffer held there (`tx_engine.rs:78-95`).
* `set_attr` stores a smaller size and keeps the extents (`rvfs_adapter.rs:427`): a file
  that grows again shows what was behind its end.
* The half-done rename leaves two names with `nlink` 1 (`rvfs_adapter.rs:576`);
  nothing reads the checksum that `models.rs:10` says is there to verify data after a
  crash; a short write at the end of the device is not noticed (`log_manager.rs:36`);
  `mkdir` adds no "." or ".." (`rvfs_test.rs:108`).

File data:

* A read that does not begin at a slice boundary, in any slice but the first, returns
  bytes from the start of the slice (`file.rs:169`); behind a hole the next hole is
  skipped and later bytes shift (`file.rs:166`); a hole at the end is not returned.
  `ReadsBack` is stated for the reads these do not touch.
* A slice that is new and written in part stores uninitialised memory (`file.rs:238`).
* A copy of nothing still stores a slice (`file.rs:473`).
* The free space is charged by the byte when a file grows by blocks, refunded by the
  block, and not charged by writes; `fallocate` that keeps the size charges every time
  (`inode.rs:763`, `inode.rs:883`).
* Two callers, as under rvfs, break `SlicesWithinSize`: a write between the two
  transactions of a truncation leaves slices behind the end (`inode.rs:722`).

Directory listing:

* `dbfs_common_readdir` clears the buffer before it takes its length, so its limit of 16
  entries is never applied (`file.rs:373`).
* A full FUSE reply puts the entry that was not delivered into the table
  (`fuse/file.rs:143`): the next call fails the assertion at `file.rs:384`. So do
  `rewinddir`, a second open handle, and the removal of the table's entry.
* `dbfs_readdir` always lists from the start: what exceeds its buffer cannot be read.

Attributes:

* `setattr` makes only the first of the changes that it is asked for (`fuse/mod.rs:150`).
* `removexattr` does not commit its transaction (`attr.rs:128`).
* `setxattr` asks for permission to read. `utimens` tests whether the file's owner, not
  the caller, is root (`attr.rs:236`): root cannot set the times of others' files.
* chmod drops the set-id and sticky bits that it is given (`attr.rs:152`).
* `write` leaves set-id bits and times as they are (`file.rs:279`).
* Replies mask the mode with `0o777` (`common.rs:408`, 430): stored set-id and sticky bits
  are not shown.
* `dbfs_common_access` passes owner and caller in each other's places (`inode.rs:688`;
  not modelled).

rvfs2:

* create looks its name up after its commit (`rvfs2/inode.rs:329`): when another thread
  has replaced the name, the object that is cached for the other inode has the kind that
  was asked for here. Other kinds than files and directories are made, and then an error
  is returned.
* A mount sets the counter back to the stored number also when another superblock is
  mounted (`rvfs2/superblock.rs:53`). A formatted database stores 1, the root's number,
  so that the first create fails.
* `dbfs_common_root_inode` of `fs_common.rs` drops its transaction, so a database without
  a root never gets one (`fs_common.rs:43`).
* Unlinked inodes stay in the cache (`remove_inode` is never called). `dbfs_write` of
  `rvfs2/common.rs` stores the size after its commit. `link`, `symlink`, `rmdir` and
  `set_attr` bypass the log.

## Assumptions

* jammdb: one write transaction at a time, reads from a snapshot, a commit is atomic and
  durable, a dropped transaction is rolled back. `fuse/mkfs.rs` makes flush and sync of
  the database file no-ops, so durability is against a crash of the process only.
* The VFS guards named above. Under rvfs no call is under way when a file system is
  unmounted, and there is one device, which is mounted once at a time.
* Some of the source does not build as it stands (`transaction.rs` closes its `impl`
  early, `operation.rs` calls functions that `rvfs2/common.rs` has under other names, the
  features of the older VFS are commented out of `Cargo.toml`). It is modelled by its
  evident intent.

## Not modelled

Creation's times and setgid rules; read errors of the log's storage, at which `recover()`
stops (`wal.rs:82-91`); the parent's `hard_links` that
`rvfs2/common.rs` changes for a directory made or removed in it (207-213, 475-479), which
only attributes show, and the mode in rvfs2's `set_attr`; values of extended attributes, `access` and `statfs`,
which change nothing; sizes, times and contents of the objects that rvfs2 caches, and its
dentries; handles of clients in DBFS-T, for which `rvfs_adapter.rs:518` notes that
deletion may have to wait; `extend.rs`, whose feature is not built; `alien_integration/`
and `rvfs2_demo/`, which keep demonstration trees in memory and share no state with the
rest; benches and examples. Wording, formatting and statistics are left out.

## Plan

Done, in order of importance: `DbfsNamespace`; `RvfsMount`; `BottomFs`, `AtomicTxns`, `DbfsWal`;
`DbfsTNames`, `DbfsTData`; `FileData`; `ReadDir`; `Rvfs2`; `Attributes`; and the proofs
of all of them.

Next: the handles of DBFS-T; the composition of `Rvfs2` with the log of `DbfsWal`, of
which it has the lock only; sizes of the objects that rvfs2 caches.
