------------------------------ MODULE ReadDir ------------------------------
(***************************************************************************)
(* Listing one directory.  Where a listing is to continue is kept outside  *)
(* the handle, in GLOBAL_READDIR_TABLE: per inode number the offset and    *)
(* the name of one entry.  Under FUSE one thread serves the requests, and  *)
(* the kernel keeps the offset of each open handle; under rvfs any number  *)
(* of threads are inside dbfs_readdir, which always lists from the start.  *)
(* The failed assertions of dbfs_common_readdir end the program.           *)
(***************************************************************************)
EXTENDS Integers, Functions, Subsequences

CONSTANTS
    LastName,   \* the names of entries are numbered in the order of their keys, up to this
    Dots,       \* the names that are never removed: "." and ".."
    Handles,    \* the open handles of the directory; under rvfs the threads
    Chunk,      \* the entries that dbfs_readdir takes to be asked for at a time
    Rooms,      \* bound: the numbers of entries that fit a reply or a buffer
    MaxPos      \* bound: the offset of an entry

Names == 1..LastName

ASSUME ReadDirAssumption ==
    /\ LastName \in Nat /\ Dots \subseteq Names /\ Dots # {}
    /\ Chunk \in Nat \ {0} /\ Rooms \subseteq Nat \ {0} /\ MaxPos \in Nat

VARIABLES
    front,      \* the front end that the build was made with
    dir,        \* the names in the bucket of the directory
    table,      \* its entry of GLOBAL_READDIR_TABLE
    handle,     \* the listing of each handle
    panicked    \* the handle whose call failed an assertion

vars == <<front, dir, table, handle, panicked>>

None == [none |-> TRUE]

NoListing == [st |-> "closed"]

\* A listing that begins now: where it stands, what it has delivered, and as
\* history the names that have been there since it began, and whether it is
\* plain: no other listing overlaps it, it was not rewound, and all fitted.
Listing(st, room, alone) ==
    [st |-> st, pos |-> 0, room |-> room, list |-> <<>>, snap |-> {}, last |-> None,
     stable |-> dir, plain |-> alone]

Active(h) == handle[h].st \notin {"closed", "done"}

Open(h) == handle[h].st # "closed"

\* The other listings are no longer plain once a new one overlaps them.
Overlap(h, listing) ==
    [g \in Handles |->
        IF g = h THEN listing
        ELSE IF Active(g) THEN [handle[g] EXCEPT !.plain = FALSE] ELSE handle[g]]

Init ==
    /\ front \in {"fuse", "rvfs"}
    /\ dir = Dots
    /\ table = None
    /\ handle = [h \in Handles |-> NoListing]
    /\ panicked = None

-----------------------------------------------------------------------------
(* dbfs_common_readdir *)

\* The assertions: the offset follows that of the table's entry, and the name
\* of that entry is there.
Panics(offset, names) ==
    table # None /\ (offset # table.offset + 1 \/ table.name \notin names)

\* The cursor passes the keys of a bucket in their order.
InOrder(names) == Kept([n \in Names |-> n], names)

\* Mutant: the seek is done, but the entry it finds is not stepped over.
Entries_Again(offset, names) ==
    LET left == InOrder({n \in names : table # None => n >= table.name})
    IN  [i \in 1..Len(left) |-> [name |-> left[i], offset |-> offset + i - 1]]

\* All the names behind the table's entry, or from the first one without it,
\* numbered from offset.  The buffer is cleared before its length is read, so
\* the number of entries is not limited.
Entries(offset, names) ==
    LET left == InOrder({n \in names : table # None => n > table.name})
    IN  [i \in 1..Len(left) |-> [name |-> left[i], offset |-> offset + i - 1]]

\* The first of ents, as many as there is room for.
Fitting(ents, room) == SubSeq(ents, 1, IF Len(ents) < room THEN Len(ents) ELSE room)

Last(ents) == ents[Len(ents)]

NamesOf(ents) == [i \in DOMAIN ents |-> ents[i].name]

Panic(h) == panicked' = h /\ UNCHANGED <<front, dir, table, handle>>

-----------------------------------------------------------------------------
(* FUSE *)

Opendir(h) ==
    /\ front = "fuse" /\ panicked = None /\ ~Open(h)
    /\ handle' = Overlap(h, Listing("open", 0, \A g \in Handles : ~Open(g)))
    /\ UNCHANGED <<front, dir, table, panicked>>

\* Mutant: the table is left as it is.
Releasedir_Keeps(h) ==
    /\ front = "fuse" /\ panicked = None /\ Open(h)
    /\ handle' = [handle EXCEPT ![h] = NoListing]
    /\ UNCHANGED <<front, dir, table, panicked>>

\* The table's entry goes, whichever handle it is about.
Releasedir(h) ==
    /\ front = "fuse" /\ panicked = None /\ Open(h)
    /\ handle' = [handle EXCEPT ![h] = NoListing]
    /\ table' = None
    /\ UNCHANGED <<front, dir, panicked>>

\* The kernel's rewinddir.
Rewind(h) ==
    /\ front = "fuse" /\ panicked = None /\ Open(h) /\ handle[h].pos > 0
    /\ handle' = [handle EXCEPT ![h] = Listing("open", 0, FALSE)]
    /\ UNCHANGED <<front, dir, table, panicked>>

\* dbfs_fuse_readdir and dbfs_fuse_readdirplus into a reply that holds room
\* entries.  An entry that does not fit is put in the table though it was not
\* delivered; when all fit the last one is, and the loop finds no more.
Readdir(h, room) ==
    LET l    == handle[h]
        ents == Entries(l.pos, dir)
        got  == Fitting(ents, room)
    IN  /\ front = "fuse" /\ panicked = None /\ l.st = "open"
        /\ \/ Panics(l.pos, dir) /\ Panic(h)
           \/ /\ ~Panics(l.pos, dir) /\ ents = <<>>
              /\ handle' = [handle EXCEPT ![h].st = "done"]
              /\ UNCHANGED <<front, dir, table, panicked>>
           \/ /\ ~Panics(l.pos, dir) /\ ents # <<>>
              /\ l.pos + Len(ents) <= MaxPos
              /\ table' = IF Len(ents) <= room THEN Last(ents) ELSE ents[room + 1]
              /\ handle' = [handle EXCEPT
                    ![h].pos = Last(got).offset + 1,
                    ![h].list = @ \o NamesOf(got),
                    ![h].plain = @ /\ Len(ents) <= room]
              /\ UNCHANGED <<front, dir, panicked>>

\* The program is started again after it ended; the table was in memory.
Mount ==
    /\ panicked # None
    /\ panicked' = None
    /\ table' = None
    /\ handle' = [h \in Handles |-> NoListing]
    /\ UNCHANGED <<front, dir>>

-----------------------------------------------------------------------------
(* rvfs *)

\* Mutant: what an earlier listing left in the table is not removed.
ListBegin_NoPop(h, room) ==
    /\ front = "rvfs" /\ panicked = None /\ ~Active(h)
    /\ handle' = Overlap(h, Listing("tx", room, \A g \in Handles \ {h} : ~Active(g)))
    /\ UNCHANGED <<front, dir, table, panicked>>

\* dbfs_readdir into a buffer for room entries.
ListBegin(h, room) ==
    /\ front = "rvfs" /\ panicked = None /\ ~Active(h)
    /\ table' = None
    /\ handle' = Overlap(h, Listing("tx", room, \A g \in Handles \ {h} : ~Active(g)))
    /\ UNCHANGED <<front, dir, panicked>>

\* dbfs_common_readdir takes its snapshot of the directory ...
ListTx(h) ==
    /\ front = "rvfs" /\ panicked = None /\ handle[h].st = "tx"
    /\ handle' = [handle EXCEPT ![h].st = "read", ![h].snap = dir]
    /\ UNCHANGED <<front, dir, table, panicked>>

\* Mutant: only a full buffer ends the listing.
ListRead_NoEnd(h) ==
    LET l    == handle[h]
        ents == Entries(l.pos, l.snap)
        left == l.room - Len(l.list)
        ends == Len(ents) > left
    IN  /\ front = "rvfs" /\ panicked = None /\ l.st = "read"
        /\ \/ Panics(l.pos, l.snap) /\ Panic(h)
           \/ /\ ~Panics(l.pos, l.snap)
              /\ handle' = [handle EXCEPT
                    ![h].st = IF ends THEN "done" ELSE IF ents = <<>> THEN "tx" ELSE "push",
                    ![h].pos = IF ends THEN @ ELSE @ + Len(ents),
                    ![h].list = @ \o NamesOf(Fitting(ents, left)),
                    ![h].snap = {},
                    ![h].last = IF ends \/ ents = <<>> THEN None ELSE Last(ents),
                    ![h].plain = @ /\ Len(ents) <= left]
              /\ UNCHANGED <<front, dir, table, panicked>>

\* ... and then reads the table; the entries go to the buffer until one does
\* not fit, which ends the listing, as does a chunk that is not full.
ListRead(h) ==
    LET l    == handle[h]
        ents == Entries(l.pos, l.snap)
        left == l.room - Len(l.list)
        ends == Len(ents) < Chunk \/ Len(ents) > left
    IN  /\ front = "rvfs" /\ panicked = None /\ l.st = "read"
        /\ \/ Panics(l.pos, l.snap) /\ Panic(h)
           \/ /\ ~Panics(l.pos, l.snap)
              /\ handle' = [handle EXCEPT
                    ![h].st = IF ends THEN "done" ELSE "push",
                    ![h].pos = IF ends THEN @ ELSE @ + Len(ents),
                    ![h].list = @ \o NamesOf(Fitting(ents, left)),
                    ![h].snap = {},
                    ![h].last = IF ends THEN None ELSE Last(ents),
                    ![h].plain = @ /\ Len(ents) <= left]
              /\ UNCHANGED <<front, dir, table, panicked>>

\* Mutant: an entry that is there is not replaced, and the thread tries again.
ListPush_Waits(h) ==
    /\ front = "rvfs" /\ panicked = None /\ handle[h].st = "push"
    /\ table = None /\ table' = handle[h].last
    /\ handle' = [handle EXCEPT ![h].st = "tx", ![h].last = None]
    /\ UNCHANGED <<front, dir, panicked>>

\* The last entry is put in the table before the next chunk is read.
ListPush(h) ==
    /\ front = "rvfs" /\ panicked = None /\ handle[h].st = "push"
    /\ table' = handle[h].last
    /\ handle' = [handle EXCEPT ![h].st = "tx", ![h].last = None]
    /\ UNCHANGED <<front, dir, panicked>>

-----------------------------------------------------------------------------
(* The directory changes between the calls. *)

Create(n) ==
    /\ panicked = None /\ n \notin dir
    /\ dir' = dir \cup {n}
    /\ UNCHANGED <<front, table, handle, panicked>>

Unlink(n) ==
    /\ panicked = None /\ n \in dir \ Dots
    /\ dir' = dir \ {n}
    /\ handle' = [h \in Handles |->
            IF Active(h) THEN [handle[h] EXCEPT !.stable = @ \ {n}] ELSE handle[h]]
    /\ UNCHANGED <<front, table, panicked>>

Next ==
    \/ \E h \in Handles :
        \/ Opendir(h)
        \/ Releasedir(h)
        \/ Rewind(h)
        \/ \E room \in Rooms : Readdir(h, room)
        \/ \E room \in Rooms : ListBegin(h, room)
        \/ ListTx(h)
        \/ ListRead(h)
        \/ ListPush(h)
    \/ \E n \in Names : Create(n) \/ Unlink(n)
    \/ Mount

\* A thread that is inside dbfs_readdir is scheduled again.
Fairness == \A h \in Handles : WF_vars(ListTx(h) \/ ListRead(h) \/ ListPush(h))

Spec == Init /\ [][Next]_vars /\ Fairness

-----------------------------------------------------------------------------
(* Properties *)

Entry == [name : Names, offset : Nat]

States == IF front = "fuse" THEN {"open", "done"} ELSE {"tx", "read", "push", "done"}

Listings ==
    [st : States, pos : Nat, room : Nat, list : Seq(Names), snap : SUBSET Names,
     last : Entry \cup {None}, stable : SUBSET Names, plain : BOOLEAN]

\* The types; dbfs_readdir writes no entry behind its buffer.
TypeOK ==
    /\ front \in {"fuse", "rvfs"}
    /\ Dots \subseteq dir /\ dir \subseteq Names
    /\ table \in Entry \cup {None}
    /\ panicked \in Handles \cup {None}
    /\ handle \in [Handles -> Listings \cup {NoListing}]
    /\ front = "rvfs" => \A h \in Handles : Open(h) => Len(handle[h].list) <= handle[h].room

\* The state keeps its type, and a listing that has ended, that no other one
\* overlapped, that was not rewound and whose entries fitted has every name once at
\* most, and each name that was there from its beginning to its end, though other
\* names came and went.
PlainListingExact ==
    TypeOK /\ \A h \in Handles :
        handle[h].st = "done" /\ handle[h].plain =>
            /\ IsInjective(handle[h].list)
            /\ handle[h].stable \subseteq Range(handle[h].list)

\* The assertions of dbfs_common_readdir fail for a plain listing only when the
\* entry that the table names was removed meanwhile.
PanicHasCause ==
    panicked # None =>
        LET l == handle[panicked]
        IN  \/ ~l.plain
            \/ table.name \notin (IF front = "fuse" THEN dir ELSE l.snap)

\* When no handle is open nothing is left in the table that the next handle
\* would continue from, whatever handles shared it before.
TableReleased ==
    front = "fuse" /\ (\A h \in Handles : ~Open(h)) => table = None

\* The loop in dbfs_readdir ends even while other listings remove the table's
\* entry again and again and so make it start over.
ListingReturns ==
    \A h \in Handles : front = "rvfs" /\ Active(h) ~> (~Active(h) \/ panicked # None)

\* What is left to do in a listing of dbfs_readdir: the entries its buffer still has
\* room for, and for each of them the snapshot, the read and the push.
Rank(l) ==
    3 * (l.room - Len(l.list)) + (CASE l.st = "push" -> 3 [] l.st = "tx" -> 2 [] OTHER -> 1)

\* Each round of the loop in dbfs_readdir that does not end it brings it closer to
\* its end, and nothing that other threads do, to the table or to the directory,
\* sets it back: the rank is never negative, and every step of the thread lowers it.
LoopAdvances ==
    [][\A h \in Handles :
        front = "rvfs" /\ Active(h) /\ Active(h)' =>
            /\ Rank(handle'[h]) >= 0
            /\ IF handle'[h].st = handle[h].st THEN Rank(handle'[h]) = Rank(handle[h])
               ELSE Rank(handle'[h]) < Rank(handle[h])]_vars

=============================================================================
