------------------------------ MODULE FileData ------------------------------
(***************************************************************************)
(* The data of a file in its jammdb bucket: slices of S bytes under the    *)
(* keys "zdata:<block>", next to the key "size"; and disk_size, the space  *)
(* that the super block counts as free.  A slice that no write has touched *)
(* is absent.  truncate and copy_file_range take their decisions in one    *)
(* transaction and act on them in a second one; under FUSE one thread      *)
(* serves all requests, under rvfs several callers may be between the two. *)
(***************************************************************************)
EXTENDS Integers, Sequences

CONSTANTS
    Files,      \* the inode numbers of the files
    Callers,    \* the threads that call the operations: one under FUSE
    Bytes,      \* the bytes that clients write
    S,          \* SLICE_SIZE
    DiskSize,   \* what mkfs writes to disk_size
    MaxSize,    \* bound: the size of a file
    MaxWrite,   \* bound: bytes in one write or copy
    MaxDisk     \* bound: disk_size

ASSUME FileDataAssumption ==
    /\ S \in Nat \ {0}
    /\ Bytes \cap {"zero", "junk", "hole"} = {}
    /\ DiskSize \in Nat /\ MaxSize \in Nat /\ MaxWrite \in Nat /\ MaxDisk \in Nat

VARIABLES
    size,       \* the key "size" of each file
    slices,     \* the slices of each file: block |-> bytes
    disk_size,  \* the key "disk_size" of the super block
    pending,    \* what each caller carries from its first transaction to its second
    written     \* history: the byte last written at each place, "hole" if none is
                \* or a truncation has cut it off

vars == <<size, slices, disk_size, pending, written>>

\* "junk" stands for whatever the allocator's memory held.
Stored == Bytes \cup {"zero", "junk"}

Slice == [0..(S - 1) -> Stored]

Places == 0..(MaxSize - 1)

Block(p) == p \div S

Least(a, b) == IF a < b THEN a ELSE b

Most(a, b) == IF a < b THEN b ELSE a

Nothing == [op |-> "none"]

-----------------------------------------------------------------------------
(* Reading *)

\* The byte at place p of f as it is stored; an absent slice reads as zeros.
StoredByte(f, p) ==
    IF Block(p) \in DOMAIN slices[f] THEN slices[f][Block(p)][p % S] ELSE "zero"

\* The place in block k from which bytes are taken, for a read whose offset
\* within its first slice is o.  The block number counts from the start of
\* the file, and o does not.
value_offset(o, k) == Most(o - k * S, 0)

\* The bytes that block k has from there on, within the size of the file.
BytesIn(f, o, k) == Most(Least(size[f] - k * S, S) - value_offset(o, k), 0)

\* Mutant: the last block is the one before the block that holds the end.
read_range_Short(f, off, n) ==
    {k \in DOMAIN slices[f] : Block(off) <= k /\ k < Least(Block(off + n), Block(size[f]) + 1)}

\* The keys that the range iterates over.
read_range(f, off, n) ==
    {k \in DOMAIN slices[f] : Block(off) <= k /\ k < Least(Block(off + n) + 1, Block(size[f]) + 1)}

\* The bytes that blocks first..(k - 1) have, all of which are holes.
HoleBytes(f, o, first, k) ==
    LET sum[i \in 0..k] == IF i <= first THEN 0 ELSE sum[i - 1] + BytesIn(f, o, i - 1)
    IN  sum[k]

\* The loop's body for slice k, into a buffer of n bytes.  next is start_num:
\* when the slice is not the next one the blocks before it are filled with
\* zeros, and next then moves by two.
ReadSlice(f, o, n, r, k) ==
    LET zeros == Least(n - Len(r.buf), HoleBytes(f, o, r.next, k))
        len   == Least(n - Len(r.buf) - zeros, BytesIn(f, o, k))
    IN  IF Len(r.buf) = n THEN r
        ELSE [next |-> IF k = r.next THEN k + 1 ELSE k + 2,
              buf  |-> r.buf \o [i \in 1..zeros |-> "zero"]
                             \o [i \in 1..len |-> slices[f][k][value_offset(o, k) + i - 1]]]

\* dbfs_common_read: after[k] is the state behind the keys of blocks 0..(k - 1).
dbfs_common_read(f, off, n) ==
    LET end == Block(size[f]) + 1
        after[k \in 0..end] ==
            IF k = 0 THEN [next |-> Block(off), buf |-> <<>>]
            ELSE IF k - 1 \in read_range(f, off, n)
                 THEN ReadSlice(f, off % S, n, after[k - 1], k - 1)
                 ELSE after[k - 1]
    IN  IF off >= size[f] THEN <<>> ELSE after[end].buf

-----------------------------------------------------------------------------
(* Operations *)

Init ==
    /\ size = [f \in Files |-> 0]
    /\ slices = [f \in Files |-> [k \in {} |-> "zero"]]
    /\ disk_size = DiskSize
    /\ pending = [c \in Callers |-> Nothing]
    /\ written = [f \in Files |-> [p \in Places |-> "hole"]]

\* The blocks a write of n bytes puts: the loop puts one even for no bytes.
Touched(off, n) == Block(off)..Block(IF n = 0 THEN off ELSE off + n - 1)

\* The byte at place o of block k after a write of data at off.  An absent slice
\* comes from memory that was not initialised.
WrittenByte(f, off, data, k, o) ==
    LET p == k * S + o
    IN  IF off <= p /\ p < off + Len(data) THEN data[p - off + 1]
        ELSE IF k \in DOMAIN slices[f] THEN slices[f][k][o] ELSE "junk"

WrittenSlices(f, off, data) ==
    [k \in DOMAIN slices[f] \cup Touched(off, Len(data)) |->
        IF k \in Touched(off, Len(data))
        THEN [o \in 0..(S - 1) |-> WrittenByte(f, off, data, k, o)]
        ELSE slices[f][k]]

\* dbfs_common_write: one transaction; disk_size is not charged.
dbfs_common_write(f, off, data) ==
    /\ slices' = [slices EXCEPT ![f] = WrittenSlices(f, off, data)]
    /\ size' = [size EXCEPT ![f] = Most(@, off + Len(data))]
    /\ written' = [written EXCEPT ![f] =
            [p \in Places |-> IF off <= p /\ p < off + Len(data) THEN data[p - off + 1] ELSE @[p]]]
    /\ UNCHANGED disk_size

Write(c, f, off, data) ==
    /\ pending[c] = Nothing
    /\ off + Len(data) <= MaxSize
    /\ dbfs_common_write(f, off, data)
    /\ UNCHANGED pending

\* The first transaction of dbfs_common_truncate reads the attributes.
TruncateRead(c, f, n) ==
    /\ pending[c] = Nothing
    /\ disk_size + (Block(size[f]) - Block(n)) * S <= MaxDisk
    /\ pending' = [pending EXCEPT ![c] = [op |-> "truncate", file |-> f, n |-> n, size |-> size[f]]]
    /\ UNCHANGED <<size, slices, disk_size, written>>

\* Mutant: the block of the old end is kept.
CutSlices_KeepsLast(f, n, old) ==
    [k \in DOMAIN slices[f] \ ((Block(n) + 1)..(Block(old) - 1)) |->
        IF k # Block(n) THEN slices[f][k]
        ELSE [o \in 0..(S - 1) |-> IF o >= n % S THEN "zero" ELSE slices[f][k][o]]]

\* Mutant: the rest of the last slice is left as it is.
CutSlices_NoZero(f, n, old) ==
    [k \in DOMAIN slices[f] \ ((Block(n) + 1)..Block(old)) |-> slices[f][k]]

\* The slices of f cut to n bytes, when the file was read to have old bytes:
\* the blocks up to the old end go, the rest of the last slice is zeroed.
CutSlices(f, n, old) ==
    [k \in DOMAIN slices[f] \ ((Block(n) + 1)..Block(old)) |->
        IF k # Block(n) THEN slices[f][k]
        ELSE [o \in 0..(S - 1) |-> IF o >= n % S THEN "zero" ELSE slices[f][k][o]]]

SetSize(f, n) ==
    /\ size' = [size EXCEPT ![f] = n]
    /\ written' = [written EXCEPT ![f] = [p \in Places |-> IF p < n THEN @[p] ELSE "hole"]]

\* The second transaction: a file that grows by whole blocks is charged by the
\* byte, any other gets back the blocks that it loses.
TruncateCommit(c) ==
    LET t   == pending[c]
        gap == t.n - t.size
        new == disk_size + (Block(t.size) - Block(t.n)) * S
    IN  /\ t.op = "truncate"
        /\ pending' = [pending EXCEPT ![c] = Nothing]
        /\ \/ /\ Block(t.size) < Block(t.n) /\ disk_size < gap       \* NoSpace
              /\ UNCHANGED <<size, slices, disk_size, written>>
           \/ /\ Block(t.size) < Block(t.n) /\ disk_size >= gap
              /\ disk_size' = disk_size - gap
              /\ SetSize(t.file, t.n)
              /\ UNCHANGED slices
           \/ /\ Block(t.size) >= Block(t.n)
              /\ disk_size' = new
              /\ slices' = [slices EXCEPT ![t.file] = CutSlices(t.file, t.n, t.size)]
              /\ SetSize(t.file, t.n)

\* Mutant: the free space is not looked at.
Fallocate_NoCheck(c, f, end, keep) ==
    LET charged == Block(size[f]) < Block(end)
    IN  /\ pending[c] = Nothing
        /\ disk_size' = IF charged THEN disk_size - (end - size[f]) ELSE disk_size
        /\ size' = IF keep THEN size ELSE [size EXCEPT ![f] = Most(@, end)]
        /\ UNCHANGED <<slices, pending, written>>

\* dbfs_common_fallocate, one transaction; keep is FALLOC_FL_KEEP_SIZE.
Fallocate(c, f, end, keep) ==
    LET gap     == end - size[f]
        charged == Block(size[f]) < Block(end)
    IN  /\ pending[c] = Nothing
        /\ charged => disk_size >= gap                               \* else NoSpace
        /\ disk_size' = IF charged THEN disk_size - gap ELSE disk_size
        /\ size' = IF keep THEN size ELSE [size EXCEPT ![f] = Most(@, end)]
        /\ UNCHANGED <<slices, pending, written>>

\* dbfs_common_copy_file_range reads in one transaction ...
CopyRead(c, src, off, n, dest, to) ==
    /\ pending[c] = Nothing
    /\ to + n <= MaxSize
    /\ LET read == Least(Most(size[src] - off, 0), n)
           data == dbfs_common_read(src, off, read)
       IN  pending' = [pending EXCEPT ![c] = [op |-> "copy", file |-> dest, off |-> to, data |-> data]]
    /\ UNCHANGED <<size, slices, disk_size, written>>

\* ... and writes what it read, be it nothing, in another.
CopyWrite(c) ==
    /\ pending[c].op = "copy"
    /\ dbfs_common_write(pending[c].file, pending[c].off, pending[c].data)
    /\ pending' = [pending EXCEPT ![c] = Nothing]

Next ==
    \E c \in Callers :
        \/ \E f \in Files, off \in Places, n \in 1..MaxWrite : \E data \in [1..n -> Bytes] :
                Write(c, f, off, data)
        \/ \E f \in Files, n \in 0..MaxSize : TruncateRead(c, f, n)
        \/ TruncateCommit(c)
        \/ \E f \in Files, end \in 1..MaxSize, keep \in BOOLEAN : Fallocate(c, f, end, keep)
        \/ \E src, dest \in Files, off, to \in Places, n \in 1..MaxWrite :
                CopyRead(c, src, off, n, dest, to)
        \/ CopyWrite(c)

Spec == Init /\ [][Next]_vars

-----------------------------------------------------------------------------
(* Properties *)

\* The state keeps its type; in particular disk_size is never taken below zero.
TypeOK ==
    /\ size \in [Files -> Nat]
    /\ disk_size \in Nat
    /\ \A f \in Files : DOMAIN slices[f] \subseteq Nat /\ slices[f] \in [DOMAIN slices[f] -> Slice]
    /\ written \in [Files -> [Places -> Stored \cup {"hole"}]]

\* No slice lies behind the block that holds the end of its file: truncate
\* finds by the size alone which slices it has to delete, and the subtraction
\* of a slice's place from the size in dbfs_common_read does not wrap around.
SlicesWithinSize ==
    \A f \in Files : \A k \in DOMAIN slices[f] : k <= Block(size[f])

\* Every byte of a file is stored as it was last written, through any sequence
\* of partial writes, truncations and extensions; and where nothing was
\* written since the last truncation, none of the bytes it cut off is left.
StoresWhatWasWritten ==
    \A f \in Files : \A p \in Places :
        IF written[f][p] = "hole" THEN StoredByte(f, p) \in {"zero", "junk"}
        ELSE StoredByte(f, p) = written[f][p]

\* The slices that a read of n bytes at off needs are all there but for a
\* first run of them.
OneRun(f, off, n) ==
    LET blocks == Block(off)..Block(Least(off + n, size[f]) - 1)
    IN  \E k \in blocks : \A i \in blocks : i \in DOMAIN slices[f] <=> i >= k

\* A read returns the stored bytes at its place, as many as it asked for or
\* the file has, when it begins in the first slice or at the start of one and
\* no hole lies behind the first slice it meets.
ReadsBack ==
    \A f \in Files : \A off \in 0..(size[f] - 1), n \in 1..MaxSize :
        (off < S \/ off % S = 0) /\ OneRun(f, off, n) =>
            dbfs_common_read(f, off, n) =
                [i \in 1..Least(n, size[f] - off) |-> StoredByte(f, off + i - 1)]

=============================================================================
