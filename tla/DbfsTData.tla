------------------------------ MODULE DbfsTData ------------------------------
(***************************************************************************)
(* The data of DBFS-T: LogManager appends what is written to a log on the  *)
(* block device, behind the part that jammdb uses, and the metadata of a   *)
(* file (models.rs) lists the extents of the log that hold its bytes.      *)
(* The engine's mutex is held over each operation; a write is two steps,   *)
(* the append and the jammdb transaction that adds the extent, and may     *)
(* end between them.                                                       *)
(***************************************************************************)
EXTENDS Integers, Sequences, Subsequences

CONSTANTS
    Files,       \* the inode numbers of the files
    Bytes,       \* what is written; 0 stands for a place that was never written
    Stale,       \* what the caller's buffer holds before a read
    MaxWrite,    \* bound: bytes in one write
    MaxSize,     \* bound: the size of a file
    LogSize,     \* the bytes the device has for the log
    MaxPos,      \* bound: next_append_pos
    MaxExtents   \* bound: extents of one file

ASSUME DataAssumption ==
    /\ 0 \notin Bytes /\ Stale \notin Bytes \cup {0}
    /\ MaxWrite \in Nat /\ MaxSize \in Nat /\ LogSize \in Nat /\ MaxPos \in Nat
    /\ MaxExtents \in Nat

VARIABLES
    device,           \* the log's part of the block device
    next_append_pos,  \* counted from the start of the log
    meta,             \* InodeMetadata of each file: size and extents
    log,              \* history: see LogStates
    content,          \* history: the bytes of each file that was never written before
                      \* the last of them nor past the end of the device; set_attr may
                      \* leave some of them behind the end of the file
    hidden            \* history: the files that set_attr made smaller since truncate_file
                      \* last did

dataVars == <<device, next_append_pos, meta, log, content, hidden>>

\* Written in the first mount only, mounted again since, written again after that.
LogStates == {"first", "mounted", "reused"}

\* The checksum tells any two contents apart.
crc32(data) == data

Extent(off, pos, data) ==
    [logical_off |-> off, physical_ptr |-> pos, len |-> Len(data), crc |-> crc32(data)]

-----------------------------------------------------------------------------
(* Reading *)

\* BlockDevice.read_at: what lies behind the end of the device is left zero.
DeviceRead(pos, n) == [k \in 1..n |-> IF pos + k <= LogSize THEN device[pos + k] ELSE 0]

\* Mutant: an extent that begins before the request is read from its beginning.
CopyExtent_FromStart(buf, e, off) ==
    LET data == DeviceRead(e.physical_ptr, e.len)
        from == IF e.logical_off < off THEN off ELSE e.logical_off
    IN  [k \in DOMAIN buf |->
            IF off + k > e.logical_off /\ off + k <= e.logical_off + e.len
            THEN data[off + k - from] ELSE buf[k]]

\* The part of extent e that overlaps a request at off is copied into the buffer.
CopyExtent(buf, e, off) ==
    LET data == DeviceRead(e.physical_ptr, e.len)
    IN  [k \in DOMAIN buf |->
            IF off + k > e.logical_off /\ off + k <= e.logical_off + e.len
            THEN data[off + k - e.logical_off] ELSE buf[k]]

\* One extent, for a request of len bytes at off: it is left out once the request is
\* filled to its end, and if it does not overlap; total is the end of what was filled.
ReadExtent(r, e, off, len) ==
    LET end == IF e.logical_off + e.len < off + len THEN e.logical_off + e.len ELSE off + len
    IN  IF r.total >= len \/ e.logical_off >= off + len \/ e.logical_off + e.len <= off
        THEN r
        ELSE [buf |-> CopyExtent(r.buf, e, off),
              total |-> IF end - off > r.total THEN end - off ELSE r.total]

\* The extents are taken in the order of the list; the caller's buffer is changed
\* where one of them reaches and nowhere else.
read_file(f, off, n) ==
    LET len == IF off >= meta[f].size THEN 0
               ELSE IF n < meta[f].size - off THEN n ELSE meta[f].size - off
        extents == meta[f].extents
        read[i \in 0..Len(extents)] ==
            IF i = 0 THEN [buf |-> [k \in 1..len |-> Stale], total |-> 0]
            ELSE ReadExtent(read[i - 1], extents[i], off, len)
    IN  read[Len(extents)]

-----------------------------------------------------------------------------
(* Operations *)

DataInit ==
    /\ device = [p \in 1..LogSize |-> 0]
    /\ next_append_pos = 0
    /\ meta = [f \in Files |-> [size |-> 0, extents |-> <<>>]]
    /\ log = "first"
    /\ content = [f \in Files |-> [known |-> TRUE, bytes |-> <<>>]]
    /\ hidden = {}

\* BlockDevice.write_at: what does not fit is not written.
DeviceWrite(pos, data) ==
    [p \in 1..LogSize |-> IF p > pos /\ p <= pos + Len(data) THEN data[p - pos] ELSE device[p]]

\* Mutant: the position moves by one.
append_data_ByOne(data) ==
    /\ next_append_pos + Len(data) <= MaxPos
    /\ device' = DeviceWrite(next_append_pos, data)
    /\ next_append_pos' = next_append_pos + 1

\* append_data: the count that write_at returns is not looked at.
append_data(data) ==
    /\ next_append_pos + Len(data) <= MaxPos
    /\ device' = DeviceWrite(next_append_pos, data)
    /\ next_append_pos' = next_append_pos + Len(data)

\* The bytes of c cut, or filled up with places never written, to length n.
Resized(c, n) == [c EXCEPT !.bytes = [k \in 1..n |-> IF k <= Len(c.bytes) THEN c.bytes[k] ELSE 0]]

\* The bytes of c, to length n at least.
Stretched(c, n) == IF c.known /\ n > Len(c.bytes) THEN Resized(c, n) ELSE c

Forgotten == [known |-> FALSE, bytes |-> <<>>]

\* What is known of a file after data is written at off: a hole before it if need be.
Written(c, off, data) ==
    IF /\ c.known /\ off >= Len(c.bytes)
       /\ next_append_pos + Len(data) <= LogSize
    THEN [c EXCEPT !.bytes = Resized(c, off).bytes \o data]
    ELSE Forgotten

\* write_at and write_file_transactional; the transaction may fail, or the
\* machine stop, after the append.
write_file_transactional(f, off, data) ==
    /\ off + Len(data) <= MaxSize /\ Len(meta[f].extents) < MaxExtents
    /\ append_data(data)
    /\ log' = IF log = "first" THEN "first" ELSE "reused"
    /\ UNCHANGED hidden
    /\ \/ /\ meta' = [meta EXCEPT ![f] =
                [size |-> IF off + Len(data) > @.size THEN off + Len(data) ELSE @.size,
                 extents |-> Append(@.extents, Extent(off, next_append_pos, data))]]
          /\ content' = [content EXCEPT ![f] = Written(@, off, data)]
       \/ UNCHANGED <<meta, content>>

\* Mutant: the extent that reaches over the new end is not cut.
Trimmed_Not(extents, n) == Kept(extents, {i \in DOMAIN extents : extents[i].logical_off < n})

\* What truncate_file keeps of the extents when the file shrinks to n.
Trimmed(extents, n) ==
    LET kept == Kept(extents, {i \in DOMAIN extents : extents[i].logical_off < n})
    IN  [k \in DOMAIN kept |->
            IF kept[k].logical_off + kept[k].len > n
            THEN [kept[k] EXCEPT !.len = n - kept[k].logical_off] ELSE kept[k]]

truncate_file(f, n) ==
    /\ IF n < meta[f].size
       THEN /\ meta' = [meta EXCEPT ![f] = [size |-> n, extents |-> Trimmed(@.extents, n)]]
            /\ content' = [content EXCEPT ![f] = IF @.known THEN Resized(@, n) ELSE @]
            /\ hidden' = hidden \ {f}
       ELSE /\ meta' = [meta EXCEPT ![f].size = n]
            /\ content' = [content EXCEPT ![f] = Stretched(@, n)]
            /\ UNCHANGED hidden
    /\ UNCHANGED <<device, next_append_pos, log>>

\* set_attr stores the size it is given and leaves the extents alone.
set_attr(f, n) ==
    /\ meta' = [meta EXCEPT ![f].size = n]
    /\ content' = [content EXCEPT ![f] = Stretched(@, n)]
    /\ hidden' = IF n < meta[f].size THEN hidden \cup {f} ELSE hidden
    /\ UNCHANGED <<device, next_append_pos, log>>

\* mount makes a LogManager that appends from the start of the log.
mount ==
    /\ next_append_pos' = 0
    /\ log' = IF log = "first" THEN "mounted" ELSE log
    /\ UNCHANGED <<device, meta, content, hidden>>

WriteData == UNION {[1..n -> Bytes] : n \in 0..MaxWrite}

DataNext ==
    \/ mount
    \/ \E f \in Files :
        \/ \E off \in 0..MaxSize, data \in WriteData : write_file_transactional(f, off, data)
        \/ \E n \in 0..MaxSize : truncate_file(f, n) \/ set_attr(f, n)

DataSpec == DataInit /\ [][DataNext]_dataVars

-----------------------------------------------------------------------------
(* Properties *)

Extents == [logical_off : 0..MaxSize, physical_ptr : 0..MaxPos, len : 0..MaxWrite, crc : WriteData]

\* The types: lengths are unsigned in the code.
DataTypeOK ==
    /\ device \in [1..LogSize -> Bytes \cup {0}]
    /\ next_append_pos \in 0..MaxPos
    /\ meta \in [Files -> [size : 0..MaxSize, extents : Seq(Extents)]]
    /\ log \in LogStates
    /\ content \in [Files -> [known : BOOLEAN, bytes : Seq(Bytes \cup {0})]]
    /\ hidden \subseteq Files

\* The bytes of every extent that fitted on the device are there as they were when
\* its checksum was taken, cut at the end by truncations: no append reaches them
\* before the log is written in a second mount.
CrcHolds ==
    log # "reused" =>
        \A f \in Files : \A i \in DOMAIN meta[f].extents :
            LET e == meta[f].extents[i]
            IN  e.physical_ptr + e.len <= LogSize =>
                    crc32(DeviceRead(e.physical_ptr, e.len)) = SubSeq(e.crc, 1, e.len)

\* The state keeps its type, in which no length is below zero, and no extent reaches
\* beyond the end of its file, so that a file that shrinks and grows again does not
\* show what it held before. The one exception is a file that set_attr made smaller:
\* its extents stay behind the end until truncate_file next shrinks it.
ExtentsWithinSize ==
    DataTypeOK /\ \A f \in Files \ hidden : \A i \in DOMAIN meta[f].extents :
        meta[f].extents[i].logical_off + meta[f].extents[i].len <= meta[f].size

\* Every read of a file that is written at or behind its end, truncated, extended and
\* given other sizes by set_attr returns each byte that was written, at its place and
\* counted, and leaves the caller's buffer as it was at every place that was never
\* written, a place that truncate_file cut off included: also after a mount, until the
\* log is appended to.
ReadsBack ==
    log # "reused" =>
        \A f \in Files, off \in 0..MaxSize, n \in 1..MaxSize :
            LET r == read_file(f, off, n)
            IN  content[f].known =>
                    \A k \in DOMAIN r.buf :
                        IF content[f].bytes[off + k] = 0 THEN r.buf[k] = Stale
                        ELSE r.buf[k] = content[f].bytes[off + k] /\ k <= r.total

=============================================================================
