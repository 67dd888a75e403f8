---------------------------- MODULE Rvfs2Proofs ----------------------------
(***************************************************************************)
(* Theorems about Rvfs2, for any number of threads, superblocks, names and  *)
(* inode numbers: links cover names, numbers are drawn above those in use,  *)
(* and the cache has the kinds of the buckets.  The last section is about   *)
(* RvfsMount, the counter under the rvfs mount.                             *)
(***************************************************************************)
EXTENDS Rvfs2, RvfsMount, FiniteSetTheorems, TLAPS

\* A bucket: gone, or with a kind and a link.
Inode == {Gone} \cup [kind : Kinds, links : Nat \ {0}]

\* The root has its two links and no name; any other directory has one link, so
\* that rmdir, which deletes the bucket, removes its only name.
DirLinks ==
    /\ inodes[Root] = [kind |-> "dir", links |-> 2]
    /\ \A n \in Names : dir[n] # Root
    /\ \A i \in Inos \ {Root} : inodes[i].kind = "dir" => inodes[i].links = 1

\* A number without a bucket, whose link count is 0, has no name.
LinksCover == \A i \in Inos : Cardinality(NamesOf(i)) <= inodes[i].links

\* The database.
DbInv ==
    /\ dir \in [Names -> Inos \cup {NoIno}] /\ inodes \in [Inos -> Inode]
    /\ DirLinks /\ LinksCover

\* What the superblocks keep, one cache each.
Caches == [Mounts -> [Inos -> Kinds \cup {NoObject}]]

\* The counter, the superblocks and the caches.
MountInv ==
    /\ number \in 1..(MaxIno + 1) /\ continue_number \in 1..(MaxIno + 1)
    /\ mounted \subseteq Mounts
    /\ inode_cache \in Caches
    /\ raced \subseteq Inos /\ setback \in BOOLEAN /\ lost \in BOOLEAN

\* What a thread is doing, on a superblock that is in use.
Pending ==
    [op : {"created", "found"}, sb : Mounts, name : Names, kind : Made, ino : Inos]
    \cup [op : {"lookup"}, sb : Mounts, ino : Inos, kind : Kinds]
    \cup [op : {"symlink"}, sb : Mounts, ino : Inos]

CallsInv ==
    /\ call = [t \in Threads |-> call[t]]
    /\ \A t \in Threads : call[t] = Idle \/ (call[t] \in Pending /\ call[t].sb \in mounted)

\* A number has been drawn from the counter as it stands, or is the root's.
Drawn(i) == i = Root \/ i < number

\* The numbers in use are drawn numbers; without a superblock the stored number
\* is what the next mount goes on from.
NumbersDrawn ==
    \A i \in Used \ {Root} : IF mounted = {} THEN i < continue_number ELSE i < number

\* The cache, and a call that is about to write to it, hold only drawn numbers,
\* each with the kind of its bucket as long as that is there.
CacheFollows ==
    \A m \in mounted, i \in Inos : inode_cache[m][i] # NoObject =>
        /\ Drawn(i)
        /\ i \in Used \ raced => inode_cache[m][i] = inodes[i].kind

\* The kind that a call writes to the cache.
CallKind(r) == IF r.op = "symlink" THEN "link" ELSE r.kind

CallsFollow ==
    \A t \in Threads : call[t] # Idle =>
        /\ Drawn(call[t].ino)
        /\ call[t].ino \in Used \ raced => inodes[call[t].ino].kind = CallKind(call[t])

\* As long as the counter has not gone back.
CacheInv == ~setback /\ ~lost => NumbersDrawn /\ CacheFollows /\ CallsFollow

IInv == DbInv /\ MountInv /\ CallsInv /\ CacheInv

\* A change of the database that makes no bucket and changes the kind of none.
KindsKept == \A i \in Inos : i \in Used' => i \in Used /\ inodes'[i].kind = inodes[i].kind

-----------------------------------------------------------------------------
(* The database *)

\* A number has finitely many names.
LEMMA NamesFinite ==
    ASSUME NEW i
    PROVE  IsFiniteSet(NamesOf(i)) /\ Cardinality(NamesOf(i)) \in Nat
<1>1. NamesOf(i) \in SUBSET Names /\ IsFiniteSet(Names)
    BY Rvfs2Assumption DEF NamesOf
<1>2. IsFiniteSet(NamesOf(i))
    BY <1>1, FS_Subset
<1> QED BY <1>2, FS_CardinalityType

\* A number has no name, or one at least.
LEMMA NamesCount ==
    ASSUME NEW i
    PROVE  /\ NamesOf(i) = {} <=> Cardinality(NamesOf(i)) = 0
           /\ NamesOf(i) # {} => Cardinality(NamesOf(i)) >= 1
BY NamesFinite, FS_EmptySet

\* A number is in use if its bucket has a kind, and then it has a link.
LEMMA UsedHasLinks ==
    ASSUME inodes \in [Inos -> Inode], NEW i \in Inos
    PROVE  /\ i \in Used => inodes[i] \in [kind : Kinds, links : Nat \ {0}]
           /\ i \notin Used => inodes[i] = Gone
           /\ i \in Used <=> inodes[i].kind # "gone"
           /\ inodes[i].links \in Nat
<1>1. inodes[i] \in Inode
    OBVIOUS
<1>2. i \in Used <=> inodes[i].kind # "gone"
    BY DEF Used
<1>3. CASE inodes[i] = Gone
    BY <1>2, <1>3 DEF Gone
<1>4. CASE inodes[i] \in [kind : Kinds, links : Nat \ {0}]
    BY <1>2, <1>4 DEF Kinds
<1> QED BY <1>1, <1>3, <1>4 DEF Inode

\* One name more or less.
LEMMA NameAdded ==
    ASSUME NEW i, NEW n, NEW S, n \notin NamesOf(i), S = NamesOf(i) \cup {n}
    PROVE  Cardinality(S) = Cardinality(NamesOf(i)) + 1
BY NamesFinite, FS_AddElement

\* A set of names that loses one of them is smaller by one.
LEMMA NameRemoved ==
    ASSUME NEW i, NEW n, NEW S, n \in NamesOf(i), S = NamesOf(i) \ {n}
    PROVE  Cardinality(S) = Cardinality(NamesOf(i)) - 1
BY NamesFinite, FS_RemoveElement

\* A call that leaves the database alone.
LEMMA DbSame ==
    ASSUME DbInv, UNCHANGED db
    PROVE  DbInv' /\ KindsKept /\ Used' = Used
BY DEF db, DbInv, DirLinks, LinksCover, NamesOf, KindsKept, Used

\* A new bucket takes a number that has no name yet.
LEMMA DbCreate ==
    ASSUME DbInv, NEW name \in Names, NEW kind \in Kinds, NEW i \in Inos \ Used,
           dir[name] = NoIno, dbfs_create(name, kind, i)
    PROVE  /\ DbInv' /\ i # Root
           /\ Used' = Used \cup {i} /\ inodes'[i].kind = kind
           /\ \A j \in Used : inodes'[j] = inodes[j]
<1>0. Root \in Inos /\ inodes[Root].kind = "dir" /\ i \in Inos /\ i # NoIno
    BY Rvfs2Assumption DEF Inos, Root, DbInv, DirLinks, NoIno
<1>1. i # Root
    BY <1>0 DEF Used
<1>2. inodes[i] = Gone /\ inodes[i].links = 0
    BY UsedHasLinks DEF DbInv, Gone
<1>3. /\ dir' = [dir EXCEPT ![name] = i] /\ inodes' = [inodes EXCEPT ![i] = [kind |-> kind, links |-> 1]]
      /\ dir \in [Names -> Inos \cup {NoIno}] /\ inodes \in [Inos -> Inode]
    BY DEF dbfs_create, DbInv
<1>4. /\ inodes' \in [Inos -> Inode] /\ inodes'[i] = [kind |-> kind, links |-> 1]
      /\ \A j \in Inos \ {i} : inodes'[j] = inodes[j]
    BY <1>3 DEF Inode
<1>5. /\ dir' \in [Names -> Inos \cup {NoIno}] /\ dir'[name] = i
      /\ \A n \in Names \ {name} : dir'[n] = dir[n]
    BY <1>3
<1>6. inodes'[i].kind = kind /\ inodes'[i].links = 1 /\ kind # "gone"
    BY <1>4 DEF Kinds
<1>7. Used' = Used \cup {i}
    BY <1>0, <1>4, <1>6 DEF Used
<1>8. DirLinks'
    BY <1>0, <1>1, <1>4, <1>5, <1>6 DEF DbInv, DirLinks
<1>9. NamesOf(i) = {}
    BY <1>2, NamesCount, NamesFinite DEF DbInv, LinksCover
<1>10. LinksCover'
    <2> SUFFICES ASSUME NEW j \in Inos
                 PROVE  Cardinality(NamesOf(j)') <= inodes'[j].links
        BY DEF LinksCover
    <2>1. CASE j = i
        <3>1. NamesOf(j)' = {name}
            BY <1>5, <1>9, <2>1 DEF NamesOf
        <3> QED BY <1>6, <2>1, <3>1, FS_Singleton
    <2>2. CASE j # i
        <3>1. NamesOf(j)' = NamesOf(j)
            BY <1>5, <2>2 DEF NamesOf, Inos, NoIno
        <3> QED BY <1>4, <2>2, <3>1 DEF DbInv, LinksCover
    <2> QED BY <2>1, <2>2
<1>11. \A j \in Used : inodes'[j] = inodes[j]
    BY <1>4 DEF Used
<1> QED BY <1>1, <1>4, <1>5, <1>6, <1>7, <1>8, <1>10, <1>11 DEF DbInv

\* A name goes, and with the last link the bucket: what is left of the names
\* of the number is covered by what is left of its links.
LEMMA NameGone ==
    ASSUME DbInv, NEW name \in Names, NEW i \in Inos, dir[name] = i,
           dir' = [dir EXCEPT ![name] = NoIno],
           NEW b \in Inode, inodes' = [inodes EXCEPT ![i] = b],
           b.links >= inodes[i].links - 1,
           b = Gone \/ (b.kind = inodes[i].kind /\ inodes[i].kind # "dir")
    PROVE  DbInv' /\ KindsKept
<1>0. Root \in Inos /\ i # Root /\ i # NoIno
    BY Rvfs2Assumption DEF Inos, Root, DbInv, DirLinks, NoIno
<1>1. dir \in [Names -> Inos \cup {NoIno}] /\ inodes \in [Inos -> Inode]
    BY DEF DbInv
<1>2. /\ inodes' \in [Inos -> Inode] /\ inodes'[i] = b
      /\ \A j \in Inos \ {i} : inodes'[j] = inodes[j]
    BY <1>1
<1>3. /\ dir' \in [Names -> Inos \cup {NoIno}] /\ dir'[name] = NoIno
      /\ \A n \in Names \ {name} : dir'[n] = dir[n]
    BY <1>1
<1>4. Gone.kind = "gone"
    BY DEF Gone
<1>5. DirLinks'
    BY <1>0, <1>2, <1>3, <1>4 DEF DbInv, DirLinks, NoIno, Root
<1>6. LinksCover'
    <2> SUFFICES ASSUME NEW j \in Inos
                 PROVE  Cardinality(NamesOf(j)') <= inodes'[j].links
        BY DEF LinksCover
    <2>1. CASE j = i
        <3>1. name \in NamesOf(i) /\ NamesOf(i)' = NamesOf(i) \ {name}
            BY <1>0, <1>3 DEF NamesOf
        <3>2. Cardinality(NamesOf(i)') = Cardinality(NamesOf(i)) - 1
            BY <3>1, NameRemoved
        <3>3. Cardinality(NamesOf(i)) \in Nat /\ Cardinality(NamesOf(i)) <= inodes[i].links
            BY NamesFinite DEF DbInv, LinksCover
        <3>4. inodes[i].links \in Nat /\ b.links \in Nat
            BY <1>1, UsedHasLinks DEF Inode, Gone
        <3> QED BY <1>2, <2>1, <3>2, <3>3, <3>4
    <2>2. CASE j # i
        <3>1. NamesOf(j)' = NamesOf(j)
            BY <1>3, <2>2 DEF NamesOf, Inos, NoIno
        <3> QED BY <1>2, <2>2, <3>1 DEF DbInv, LinksCover
    <2> QED BY <2>1, <2>2
<1>7. KindsKept
    BY <1>2, <1>4 DEF KindsKept, Used
<1> QED BY <1>2, <1>3, <1>5, <1>6, <1>7 DEF DbInv

\* unlink through the database.
LEMMA DbUnlink ==
    ASSUME DbInv, NEW name \in Names, dir[name] # NoIno, inodes[dir[name]].kind # "dir", dbfs_unlink(name)
    PROVE  DbInv' /\ KindsKept
<1> DEFINE i == dir[name]
           b == IF inodes[i].links <= 1 THEN Gone ELSE [inodes[i] EXCEPT !.links = @ - 1]
<1>1. i \in Inos
    BY DEF DbInv
<1>2. name \in NamesOf(i)
    BY DEF NamesOf
<1>3. inodes[i].links >= 1
    BY <1>1, <1>2, NamesCount, NamesFinite, UsedHasLinks DEF DbInv, LinksCover
<1>4. inodes[i] \in [kind : Kinds, links : Nat \ {0}]
    BY <1>1, <1>3, UsedHasLinks DEF DbInv, Gone
<1>5. b \in Inode /\ b.links >= inodes[i].links - 1 /\ (b = Gone \/ b.kind = inodes[i].kind)
    BY <1>4 DEF Inode, Gone
<1>6. dir' = [dir EXCEPT ![name] = NoIno] /\ inodes' = [inodes EXCEPT ![i] = b]
    BY DEF dbfs_unlink
<1> HIDE DEF b
<1> QED BY <1>1, <1>5, <1>6, NameGone

\* rmdir: a directory has one link.
LEMMA DbRmdir ==
    ASSUME DbInv, NEW name \in Names, dir[name] # NoIno, inodes[dir[name]].kind = "dir",
           dir' = [dir EXCEPT ![name] = NoIno], inodes' = [inodes EXCEPT ![dir[name]] = Gone]
    PROVE  DbInv' /\ KindsKept
<1>1. dir[name] \in Inos /\ dir[name] # Root
    BY DEF DbInv, DirLinks
<1>2. inodes[dir[name]].links = 1
    BY <1>1 DEF DbInv, DirLinks
<1>3. Gone \in Inode /\ Gone.links >= inodes[dir[name]].links - 1
    BY <1>2 DEF Inode, Gone
<1> QED BY <1>1, <1>3, NameGone

\* rename_to: the number that had the new name keeps its links, and the one that
\* moves has no more names than before.
LEMMA DbRename ==
    ASSUME DbInv, NEW old \in Names, NEW new \in Names, dir[old] # NoIno, old # new,
           dir' = [dir EXCEPT ![old] = NoIno, ![new] = dir[old]], inodes' = inodes
    PROVE  DbInv' /\ KindsKept
<1>1. dir \in [Names -> Inos \cup {NoIno}] /\ dir[old] \in Inos
    BY DEF DbInv
<1>2. /\ dir' \in [Names -> Inos \cup {NoIno}] /\ dir'[old] = NoIno /\ dir'[new] = dir[old]
      /\ \A n \in Names \ {old, new} : dir'[n] = dir[n]
    BY <1>1
<1>3. DirLinks'
    BY <1>2 DEF DbInv, DirLinks, NoIno, Root
<1>4. LinksCover'
    <2> SUFFICES ASSUME NEW j \in Inos
                 PROVE  Cardinality(NamesOf(j)') <= inodes[j].links
        BY DEF LinksCover
    <2>0. j # NoIno /\ inodes[j].links \in Int /\ Cardinality(NamesOf(j)) \in Nat
          /\ Cardinality(NamesOf(j)) <= inodes[j].links
        BY UsedHasLinks, NamesFinite DEF Inos, NoIno, DbInv, LinksCover
    <2>1. CASE j = dir[old]
        <3> DEFINE S == NamesOf(j) \ {old}
        <3>1. old \in NamesOf(j) /\ NamesOf(j)' = S \cup {new}
            BY <1>1, <1>2, <2>0, <2>1 DEF NamesOf
        <3>2. IsFiniteSet(S) /\ Cardinality(S) = Cardinality(NamesOf(j)) - 1
            BY <3>1, NamesFinite, FS_RemoveElement
        <3>3. Cardinality(S \cup {new}) = IF new \in S THEN Cardinality(S) ELSE Cardinality(S) + 1
            BY <3>2, FS_AddElement
        <3> HIDE DEF S
        <3> QED BY <2>0, <3>1, <3>2, <3>3
    <2>2. CASE j # dir[old]
        <3>1. NamesOf(j)' \in SUBSET NamesOf(j)
            BY <1>1, <1>2, <2>0, <2>2 DEF NamesOf
        <3>2. Cardinality(NamesOf(j)') <= Cardinality(NamesOf(j)) /\ IsFiniteSet(NamesOf(j)')
            BY <3>1, NamesFinite, FS_Subset
        <3>3. Cardinality(NamesOf(j)') \in Nat
            BY <3>2, FS_CardinalityType
        <3> QED BY <2>0, <3>2, <3>3
    <2> QED BY <2>1, <2>2
<1>5. KindsKept
    BY DEF KindsKept, Used
<1> QED BY <1>2, <1>3, <1>4, <1>5 DEF DbInv

\* link: one name and one link more, for what is not a directory.
LEMMA DbLink ==
    ASSUME DbInv, NEW name \in Names, NEW src \in Used, inodes[src].kind # "dir", dir[name] = NoIno,
           dir' = [dir EXCEPT ![name] = src], inodes' = [inodes EXCEPT ![src].links = @ + 1]
    PROVE  DbInv' /\ KindsKept
<1>0. Root \in Inos /\ src \in Inos /\ src # Root /\ src # NoIno
    BY Rvfs2Assumption DEF Used, Inos, Root, DbInv, DirLinks, NoIno
<1>1. inodes \in [Inos -> Inode] /\ dir \in [Names -> Inos \cup {NoIno}]
      /\ inodes[src] \in [kind : Kinds, links : Nat \ {0}]
    BY <1>0, UsedHasLinks DEF DbInv
<1>2. /\ inodes' \in [Inos -> Inode]
      /\ inodes'[src].kind = inodes[src].kind /\ inodes'[src].links = inodes[src].links + 1
      /\ \A j \in Inos \ {src} : inodes'[j] = inodes[j]
    <2> DEFINE b == [inodes[src] EXCEPT !.links = @ + 1]
    <2>1. b \in Inode /\ b.kind = inodes[src].kind /\ b.links = inodes[src].links + 1
        BY <1>1 DEF Inode
    <2>2. inodes' = [inodes EXCEPT ![src] = b]
        BY <1>0, <1>1
    <2> HIDE DEF b
    <2> QED BY <1>0, <1>1, <2>1, <2>2
<1>3. /\ dir' \in [Names -> Inos \cup {NoIno}] /\ dir'[name] = src
      /\ \A n \in Names \ {name} : dir'[n] = dir[n]
    BY <1>0, <1>1
<1>4. DirLinks'
    BY <1>0, <1>2, <1>3 DEF DbInv, DirLinks
<1>5. LinksCover'
    <2> SUFFICES ASSUME NEW j \in Inos
                 PROVE  Cardinality(NamesOf(j)') <= inodes'[j].links
        BY DEF LinksCover
    <2>1. CASE j = src
        <3>1. name \notin NamesOf(src) /\ NamesOf(src)' = NamesOf(src) \cup {name}
            BY <1>0, <1>3 DEF NamesOf
        <3>2. Cardinality(NamesOf(src)') = Cardinality(NamesOf(src)) + 1
            BY <3>1, NameAdded
        <3>3. Cardinality(NamesOf(src)) \in Nat /\ Cardinality(NamesOf(src)) <= inodes[src].links
            BY <1>0, NamesFinite DEF DbInv, LinksCover
        <3>4. inodes[src].links \in Nat
            BY <1>1
        <3> QED BY <1>2, <2>1, <3>2, <3>3, <3>4
    <2>2. CASE j # src
        <3>1. NamesOf(j)' = NamesOf(j)
            BY <1>3, <2>2 DEF NamesOf, Inos, NoIno
        <3> QED BY <1>2, <2>2, <3>1 DEF DbInv, LinksCover
    <2> QED BY <2>1, <2>2
<1>6. KindsKept
    BY <1>0, <1>1, <1>2, UsedHasLinks DEF KindsKept, Used
<1> QED BY <1>2, <1>3, <1>4, <1>5, <1>6 DEF DbInv

-----------------------------------------------------------------------------
(* The calls *)

\* What the calls in flight are about.
LEMMA PendingIs ==
    ASSUME NEW r \in Pending
    PROVE  /\ r # Idle /\ r.op \in {"created", "found", "lookup", "symlink"}
           /\ r.sb \in Mounts /\ r.ino \in Inos /\ CallKind(r) \in Kinds
           /\ r.op \in {"created", "found"} => r.name \in Names /\ r.kind \in Made
<1>1. Idle.op = "idle"
    BY DEF Idle
<1>2. CASE r \in [op : {"created", "found"}, sb : Mounts, name : Names, kind : Made, ino : Inos]
    BY <1>1, <1>2, Rvfs2Assumption DEF CallKind, Kinds
<1>3. CASE r \in [op : {"lookup"}, sb : Mounts, ino : Inos, kind : Kinds]
    BY <1>1, <1>3 DEF CallKind
<1>4. CASE r \in [op : {"symlink"}, sb : Mounts, ino : Inos]
    BY <1>1, <1>4 DEF CallKind, Kinds
<1> QED BY <1>2, <1>3, <1>4 DEF Pending

\* A thread that is in a call has one of the calls in flight.
LEMMA BusyIsPending ==
    ASSUME CallsInv, NEW t \in Threads, call[t] # Idle \/ call[t].op # "idle"
    PROVE  call[t] \in Pending /\ call[t].sb \in mounted /\ call[t] # Idle
<1>1. call[t] = Idle \/ (call[t] \in Pending /\ call[t].sb \in mounted)
    BY DEF CallsInv
<1>2. Idle.op = "idle"
    BY DEF Idle
<1> QED BY <1>1, <1>2

\* A thread goes on to r: to nothing, or to a call that follows the buckets.
LEMMA CallChanges ==
    ASSUME IInv, NEW t \in Threads, NEW r,
           \/ r = Idle
           \/ /\ r \in Pending /\ r.sb \in mounted
              /\ ~setback /\ ~lost =>
                    /\ Drawn(r.ino)
                    /\ r.ino \in Used \ raced' => inodes[r.ino].kind = CallKind(r),
           call' = [call EXCEPT ![t] = r],
           raced \subseteq raced', raced' \subseteq Inos,
           UNCHANGED <<db, superblocks, number, inode_cache>>
    PROVE  IInv'
<1>1. DbInv' /\ Used' = Used /\ inodes' = inodes
    BY DbSame DEF IInv, db
<1>2. MountInv'
    BY DEF IInv, MountInv, superblocks
<1>3. /\ call'[t] = r /\ call' = [u \in Threads |-> call'[u]]
      /\ \A u \in Threads \ {t} : call'[u] = call[u]
    BY DEF IInv, CallsInv
<1>4. CallsInv'
    BY <1>3 DEF IInv, CallsInv, superblocks
<1>5. CacheInv'
    BY <1>1, <1>3 DEF IInv, CacheInv, NumbersDrawn, CacheFollows, CallsFollow, Drawn, superblocks
<1> QED BY <1>1, <1>2, <1>4, <1>5 DEF IInv

\* Calls that remove, move or add names in one step: unlink, rename_to, link and
\* rmdir.
LEMMA NamesChange ==
    ASSUME IInv, DbInv', KindsKept, UNCHANGED <<superblocks, number, inode_cache, call, raced>>
    PROVE  IInv'
<1>1. MountInv' /\ CallsInv'
    BY DEF IInv, MountInv, CallsInv, superblocks
<1>2. Used' \subseteq Inos
    BY DEF Used
<1>3. ASSUME ~setback, ~lost PROVE NumbersDrawn' /\ CacheFollows'
    BY <1>2, <1>3 DEF IInv, CacheInv, NumbersDrawn, CacheFollows, Drawn, KindsKept, superblocks
<1>4. ASSUME ~setback, ~lost PROVE CallsFollow'
    BY <1>2, <1>4 DEF IInv, CacheInv, CallsFollow, Drawn, KindsKept, superblocks
<1> QED BY <1>1, <1>3, <1>4 DEF IInv, CacheInv, superblocks

\* A number is drawn and not used.
LEMMA DrawnInVain ==
    ASSUME IInv, mounted # {}, NEW i \in Inos, draw(i),
           UNCHANGED <<db, superblocks, inode_cache, call, raced>>
    PROVE  IInv'
<1>1. DbInv' /\ Used' = Used /\ inodes' = inodes
    BY DbSame DEF IInv, db
<1>2. number \in Int /\ number' = number + 1 /\ number' \in 1..(MaxIno + 1)
    BY Rvfs2Assumption DEF IInv, MountInv, draw, Inos
<1>3. MountInv' /\ CallsInv'
    BY <1>2 DEF IInv, MountInv, CallsInv, superblocks
<1>4. \A j \in Inos : Drawn(j) => j = Root \/ j < number'
    BY <1>2 DEF Drawn, Inos
<1>5. \A u \in Threads : call[u] # Idle => call[u].ino \in Inos
    BY BusyIsPending, PendingIs DEF IInv
<1>6. Used \subseteq Inos
    BY DEF Used
<1>7. ASSUME ~setback, ~lost PROVE NumbersDrawn' /\ CacheFollows'
    BY <1>1, <1>2, <1>4, <1>6, <1>7 DEF IInv, CacheInv, NumbersDrawn, CacheFollows, Drawn, superblocks, Inos
<1>8. ASSUME ~setback, ~lost PROVE CallsFollow'
    BY <1>1, <1>4, <1>5, <1>8 DEF IInv, CacheInv, CallsFollow, Drawn
<1> QED BY <1>1, <1>3, <1>7, <1>8 DEF IInv, CacheInv, superblocks

\* A new bucket under the number that was drawn: no cache and no call knows it.
LEMMA BucketMade ==
    ASSUME IInv, NEW t \in Threads, NEW name \in Names, NEW kind \in Kinds, NEW i \in Inos,
           draw(i), i \notin Used, dir[name] = NoIno, dbfs_create(name, kind, i),
           NEW r \in Pending, r.sb \in mounted, r.ino = i, CallKind(r) = kind,
           call' = [call EXCEPT ![t] = r],
           UNCHANGED <<superblocks, inode_cache, raced>>
    PROVE  IInv'
<1>1. /\ DbInv' /\ i # Root
      /\ Used' = Used \cup {i} /\ inodes'[i].kind = kind
      /\ \A j \in Used : inodes'[j] = inodes[j]
    BY DbCreate DEF IInv
<1>2. number \in Int /\ i = number /\ number' = number + 1 /\ number' \in 1..(MaxIno + 1)
    BY Rvfs2Assumption DEF IInv, MountInv, draw, Inos
<1>3. /\ call'[t] = r /\ call' = [u \in Threads |-> call'[u]]
      /\ \A u \in Threads \ {t} : call'[u] = call[u]
    BY DEF IInv, CallsInv
<1>4. MountInv'
    BY <1>2 DEF IInv, MountInv, superblocks
<1>5. CallsInv'
    BY <1>3 DEF IInv, CallsInv, superblocks
<1>6. \A j \in Inos : Drawn(j) => j # i /\ (j = Root \/ j < number')
    BY <1>1, <1>2 DEF Drawn, Inos
<1>7. \A u \in Threads : call[u] # Idle => call[u].ino \in Inos
    BY BusyIsPending, PendingIs DEF IInv
<1>8. Used \subseteq Inos /\ mounted # {}
    BY DEF Used
<1>9. ASSUME ~setback, ~lost PROVE NumbersDrawn'
    BY <1>1, <1>2, <1>8, <1>9 DEF IInv, CacheInv, NumbersDrawn, superblocks, Inos
<1>10. ASSUME ~setback, ~lost PROVE CacheFollows'
    BY <1>1, <1>6, <1>8, <1>10 DEF IInv, CacheInv, CacheFollows, Drawn, superblocks
<1>11. ASSUME ~setback, ~lost PROVE CallsFollow'
    <2> SUFFICES ASSUME NEW u \in Threads, call'[u] # Idle
                 PROVE  /\ call'[u].ino = Root \/ call'[u].ino < number'
                        /\ call'[u].ino \in Used' \ raced' =>
                                inodes'[call'[u].ino].kind = CallKind(call'[u])
        BY DEF CallsFollow, Drawn, CallKind
    <2>1. CASE u = t
        BY <1>1, <1>2, <1>3, <2>1
    <2>2. CASE u # t
        <3>1. call'[u] = call[u] /\ Drawn(call[u].ino)
              /\ (call[u].ino \in Used \ raced => inodes[call[u].ino].kind = CallKind(call[u]))
            BY <1>3, <1>11, <2>2 DEF IInv, CacheInv, CallsFollow
        <3>2. call[u].ino # i /\ (call[u].ino = Root \/ call[u].ino < number')
            BY <1>6, <1>7, <3>1
        <3> QED BY <1>1, <3>1, <3>2
    <2> QED BY <2>1, <2>2
<1> QED BY <1>1, <1>4, <1>5, <1>9, <1>10, <1>11 DEF IInv, CacheInv, superblocks

\* One object is put into one cache.
Put(c, m, i, k) == [c EXCEPT ![m][i] = k]

\* Put changes one entry of the inode cache, to the kind that it is given.
LEMMA CacheEntry ==
    ASSUME NEW c \in Caches, NEW m \in Mounts, NEW i \in Inos, NEW k \in Kinds
    PROVE  /\ Put(c, m, i, k) \in Caches
           /\ \A o \in Mounts, j \in Inos :
                Put(c, m, i, k)[o][j] = c[o][j] \/ (j = i /\ Put(c, m, i, k)[o][j] = k)
BY DEF Caches, Put

\* A call writes to the cache of its superblock, and ends.
LEMMA ObjectInserted ==
    ASSUME IInv, NEW t \in Threads, call[t] \in Pending,
           inode_cache' = IF call[t].ino \in Used
                          THEN [inode_cache EXCEPT ![call[t].sb][call[t].ino] = CallKind(call[t])]
                          ELSE inode_cache,
           Return(t), UNCHANGED <<db, superblocks, number, raced>>
    PROVE  IInv'
<1> DEFINE m == call[t].sb
           i == call[t].ino
           k == CallKind(call[t])
<1>1. call[t] # Idle /\ m \in mounted /\ m \in Mounts /\ i \in Inos /\ k \in Kinds
    BY PendingIs, BusyIsPending DEF IInv
<1>2. DbInv' /\ Used' = Used /\ inodes' = inodes
    BY DbSame DEF IInv, db
<1>3. /\ call'[t] = Idle /\ call' = [u \in Threads |-> call'[u]]
      /\ \A u \in Threads \ {t} : call'[u] = call[u]
    BY DEF IInv, CallsInv, Return
<1>4. CallsInv'
    BY <1>3 DEF IInv, CallsInv, superblocks
<1>5. ~setback /\ ~lost => Drawn(i) /\ (i \in Used \ raced => inodes[i].kind = k)
    BY <1>1 DEF IInv, CacheInv, CallsFollow
<1>6. inode_cache' = IF i \in Used THEN [inode_cache EXCEPT ![m][i] = k] ELSE inode_cache
    OBVIOUS
<1> HIDE DEF m, i, k
<1>7. /\ inode_cache' \in Caches
      /\ \A o \in Mounts, j \in Inos :
            inode_cache'[o][j] = inode_cache[o][j] \/ (j = i /\ inode_cache'[o][j] = k)
    <2>1. inode_cache \in Caches
        BY DEF IInv, MountInv
    <2>2. CASE i \in Used
        <3>1. inode_cache' = Put(inode_cache, m, i, k)
            BY <1>6, <2>2 DEF Put
        <3>2. m \in Mounts /\ i \in Inos /\ k \in Kinds
            BY <1>1
        <3>3. inode_cache' \in Caches
            BY <2>1, <3>1, <3>2, CacheEntry
        <3>4. \A o \in Mounts, j \in Inos :
                inode_cache'[o][j] = inode_cache[o][j] \/ (j = i /\ inode_cache'[o][j] = k)
            BY <2>1, <3>1, <3>2, CacheEntry
        <3> QED BY <3>3, <3>4
    <2>3. CASE i \notin Used
        BY <1>6, <2>1, <2>3
    <2> QED BY <2>2, <2>3
<1>8. MountInv'
    BY <1>7 DEF IInv, MountInv, superblocks
<1>9. ASSUME ~setback, ~lost PROVE NumbersDrawn' /\ CallsFollow'
    BY <1>2, <1>3, <1>9 DEF IInv, CacheInv, NumbersDrawn, CallsFollow, Drawn, superblocks
<1>10. ASSUME ~setback, ~lost PROVE CacheFollows'
    <2> SUFFICES ASSUME NEW o \in mounted, NEW j \in Inos, inode_cache'[o][j] # NoObject
                 PROVE  /\ Drawn(j)
                        /\ j \in Used \ raced => inode_cache'[o][j] = inodes[j].kind
        BY <1>2 DEF CacheFollows, Drawn, superblocks
    <2>1. o \in Mounts
        BY DEF IInv, MountInv
    <2>2. CASE inode_cache'[o][j] = inode_cache[o][j]
        BY <1>10, <2>2 DEF IInv, CacheInv, CacheFollows
    <2>3. CASE j = i /\ inode_cache'[o][j] = k
        BY <1>5, <1>10, <2>3
    <2> QED BY <1>7, <2>1, <2>2, <2>3
<1> QED BY <1>2, <1>4, <1>8, <1>9, <1>10 DEF IInv, CacheInv, superblocks

-----------------------------------------------------------------------------
(* The steps *)

\* At the start there is the root, and nothing is mounted.
LEMMA InitInv == Init => IInv
<1> SUFFICES ASSUME Init PROVE IInv
    OBVIOUS
<1>0. Root \in Inos /\ 1 \in 1..(MaxIno + 1)
    BY Rvfs2Assumption DEF Inos, Root
<1>1. /\ dir \in [Names -> Inos \cup {NoIno}] /\ inodes \in [Inos -> Inode]
      /\ inodes[Root] = [kind |-> "dir", links |-> 2]
      /\ \A i \in Inos \ {Root} : inodes[i] = Gone
    BY <1>0 DEF Init, Inode, Kinds
<1>2. Gone.kind = "gone" /\ Gone.links = 0
    BY DEF Gone
<1>3. DirLinks
    BY <1>1, <1>2 DEF Init, DirLinks, NoIno, Root
<1>4. ASSUME NEW i \in Inos PROVE Cardinality(NamesOf(i)) <= inodes[i].links
    <2>1. NamesOf(i) = {}
        BY DEF Init, NamesOf, NoIno, Inos
    <2>2. inodes[i].links \in Nat
        BY <1>1, UsedHasLinks
    <2> QED BY <2>1, <2>2, FS_EmptySet
<1>5. MountInv /\ CallsInv
    BY <1>0 DEF Init, MountInv, CallsInv, Caches
<1>6. CacheInv
    BY <1>1, <1>2 DEF Init, CacheInv, NumbersDrawn, CacheFollows, CallsFollow, Used
<1> QED BY <1>1, <1>3, <1>4, <1>5, <1>6 DEF IInv, DbInv, LinksCover

\* mount: the counter goes on from the stored number, which is a step back only
\* if another superblock has drawn numbers since.
LEMMA MountStep ==
    ASSUME IInv, NEW m \in Mounts, mount(m)
    PROVE  IInv'
<1>1. DbInv' /\ Used' = Used /\ inodes' = inodes
    BY DbSame DEF IInv, mount, db
<1>2. /\ number' = continue_number /\ mounted' = mounted \cup {m} /\ call' = call
      /\ inode_cache' = [inode_cache EXCEPT ![m] = [i \in Inos |-> NoObject]]
      /\ setback' = (setback \/ (mounted # {} /\ continue_number < number))
      /\ continue_number' = continue_number /\ raced' = raced /\ lost' = lost
    BY DEF mount
<1>3. /\ inode_cache' \in Caches
      /\ \A i \in Inos : inode_cache'[m][i] = NoObject
      /\ \A o \in Mounts \ {m} : inode_cache'[o] = inode_cache[o]
    BY <1>2 DEF IInv, MountInv, Caches
<1>4. MountInv'
    BY <1>2, <1>3 DEF IInv, MountInv
<1>5. CallsInv'
    BY <1>2 DEF IInv, CallsInv
<1>6. mounted \subseteq Mounts /\ number \in Int /\ continue_number \in Int /\ Inos \subseteq Int
      /\ Used \subseteq Inos
    BY DEF IInv, MountInv, Inos, Used
<1>7. \A u \in Threads : call[u] # Idle => call[u].ino \in Inos /\ mounted # {}
    BY BusyIsPending, PendingIs DEF IInv
<1>8. ASSUME ~setback', ~lost' PROVE NumbersDrawn' /\ CacheFollows' /\ CallsFollow'
    <2>1. ~setback /\ ~lost /\ (mounted # {} => number <= continue_number)
        <3>1. ~setback /\ ~lost /\ ~(mounted # {} /\ continue_number < number)
            BY <1>2, <1>8, Zenon
        <3> QED BY <1>6, <3>1
    <2>2. NumbersDrawn /\ CacheFollows /\ CallsFollow
        BY <2>1 DEF IInv, CacheInv
    <2>3. mounted # {} => \A i \in Inos : Drawn(i) => i = Root \/ i < number'
        BY <1>2, <1>6, <2>1 DEF Drawn
    <2>4. NumbersDrawn'
        BY <1>1, <1>2, <1>6, <2>1, <2>2 DEF NumbersDrawn
    <2>5. CacheFollows'
        BY <1>1, <1>2, <1>3, <1>6, <2>2, <2>3 DEF CacheFollows, Drawn
    <2>6. CallsFollow'
        BY <1>1, <1>2, <1>7, <2>2, <2>3 DEF CallsFollow, Drawn
    <2> QED BY <2>4, <2>5, <2>6
<1> QED BY <1>1, <1>4, <1>5, <1>8 DEF IInv, CacheInv

\* sync_fs stores the counter.
LEMMA SyncStep ==
    ASSUME IInv, NEW m \in Mounts, sync_fs(m)
    PROVE  IInv'
<1>1. DbInv' /\ Used' = Used /\ inodes' = inodes
    BY DbSame DEF IInv, sync_fs, db
<1>2. MountInv' /\ CallsInv'
    BY DEF IInv, MountInv, CallsInv, sync_fs
<1>3. CacheInv'
    BY <1>1 DEF IInv, CacheInv, NumbersDrawn, CacheFollows, CallsFollow, Drawn, sync_fs
<1> QED BY <1>1, <1>2, <1>3 DEF IInv

\* kill_sb stores the counter too: the last one leaves the stored number above
\* those in use.
LEMMA KillStep ==
    ASSUME IInv, NEW m \in Mounts, kill_sb(m)
    PROVE  IInv'
<1>1. DbInv' /\ Used' = Used /\ inodes' = inodes
    BY DbSame DEF IInv, kill_sb, db
<1>2. /\ m \in mounted /\ mounted' = mounted \ {m} /\ continue_number' = number /\ number' = number
      /\ inode_cache' = [inode_cache EXCEPT ![m] = [i \in Inos |-> NoObject]]
      /\ \A t \in Threads : call[t] # Idle => call[t].sb # m
      /\ UNCHANGED <<call, raced, setback, lost>>
    BY DEF kill_sb
<1>3. /\ inode_cache' \in Caches
      /\ \A o \in Mounts \ {m} : inode_cache'[o] = inode_cache[o]
    BY <1>2 DEF IInv, MountInv, Caches
<1>4. MountInv' /\ CallsInv'
    BY <1>2, <1>3 DEF IInv, MountInv, CallsInv
<1>5. mounted \subseteq Mounts
    BY DEF IInv, MountInv
<1>6. ASSUME ~setback, ~lost PROVE NumbersDrawn' /\ CacheFollows' /\ CallsFollow'
    <2>1. NumbersDrawn /\ CacheFollows /\ CallsFollow
        BY <1>6 DEF IInv, CacheInv
    <2>2. NumbersDrawn' /\ CallsFollow'
        BY <1>1, <1>2, <2>1 DEF NumbersDrawn, CallsFollow, Drawn
    <2>3. CacheFollows'
        BY <1>1, <1>2, <1>3, <1>5, <2>1 DEF CacheFollows, Drawn
    <2> QED BY <2>2, <2>3
<1> QED BY <1>1, <1>2, <1>4, <1>6 DEF IInv, CacheInv

\* A crash loses numbers only if they were drawn since the counter was stored.
LEMMA CrashStep ==
    ASSUME IInv, Crash
    PROVE  IInv'
<1>1. DbInv' /\ Used' = Used /\ inodes' = inodes
    BY DbSame DEF IInv, Crash, db
<1>2. /\ mounted # {} /\ mounted' = {} /\ number' = 1 /\ continue_number' = continue_number
      /\ inode_cache' = [m \in Mounts |-> [i \in Inos |-> NoObject]]
      /\ call' = [t \in Threads |-> Idle]
      /\ lost' = (lost \/ continue_number < number) /\ setback' = setback /\ raced' = raced
    BY DEF Crash
<1>3. MountInv' /\ CallsInv'
    BY <1>2, Rvfs2Assumption DEF IInv, MountInv, CallsInv, Caches
<1>4. ASSUME ~setback', ~lost' PROVE NumbersDrawn' /\ CacheFollows' /\ CallsFollow'
    <2>1. NumbersDrawn /\ number <= continue_number /\ number \in Int /\ continue_number \in Int
        <3>1. ~setback /\ ~lost /\ ~(continue_number < number)
            BY <1>2, <1>4, Zenon
        <3> QED BY <3>1 DEF IInv, MountInv, CacheInv
    <2>2. NumbersDrawn'
        BY <1>1, <1>2, <2>1 DEF NumbersDrawn, Used, Inos
    <2>3. CacheFollows' /\ CallsFollow'
        BY <1>2 DEF CacheFollows, CallsFollow
    <2> QED BY <2>2, <2>3
<1> QED BY <1>1, <1>3, <1>4 DEF IInv, CacheInv

\* The first step of a call, or all of it.
LEMMA CallStep ==
    ASSUME IInv, NEW t \in Threads, NEW m \in Mounts, Call(t, m)
    PROVE  IInv'
<1>0. DbInv /\ Made \subseteq Kinds
    BY Rvfs2Assumption DEF IInv, Kinds
<1>1. ASSUME NEW name \in Names, NEW kind \in Made, NEW i \in Inos, CreateCommit(t, m, name, kind, i)
      PROVE  IInv'
    <2> DEFINE r == [op |-> "created", sb |-> m, name |-> name, kind |-> kind, ino |-> i]
    <2>1. r \in Pending /\ r.sb \in mounted /\ r.ino = i /\ CallKind(r) = kind /\ mounted # {}
        BY <1>1 DEF Pending, CallKind, CreateCommit
    <2> HIDE DEF r
    <2>2. CASE i \in Used
        BY <1>1, <2>1, <2>2, DrawnInVain DEF CreateCommit
    <2>3. CASE i \notin Used
        <3>1. draw(i) /\ dir[name] = NoIno /\ dbfs_create(name, kind, i)
              /\ call' = [call EXCEPT ![t] = r] /\ UNCHANGED <<superblocks, inode_cache, raced>>
            BY <1>1, <2>3 DEF CreateCommit, r
        <3> QED BY <1>0, <2>1, <2>3, <3>1, BucketMade
    <2> QED BY <2>2, <2>3
<1>2. ASSUME NEW name \in Names, unlink(t, m, name) PROVE IInv'
    BY <1>0, <1>2, DbUnlink, NamesChange DEF unlink
<1>3. ASSUME NEW name \in Names, LookupFind(t, m, name) PROVE IInv'
    <2> DEFINE i == dir[name]
               r == [op |-> "lookup", sb |-> m, ino |-> i, kind |-> inodes[i].kind]
    <2>1. i \in Inos /\ m \in mounted /\ call' = [call EXCEPT ![t] = r]
          /\ UNCHANGED <<db, superblocks, number, inode_cache, raced>>
        BY <1>0, <1>3 DEF LookupFind, DbInv
    <2>2. name \in NamesOf(i)
        BY DEF NamesOf
    <2>3. inodes[i].links # 0
        BY <1>0, <2>1, <2>2, NamesCount, NamesFinite DEF DbInv, LinksCover
    <2>4. i \in Used /\ inodes[i].kind \in Kinds
        BY <1>0, <2>1, <2>3, UsedHasLinks DEF DbInv, Gone
    <2>5. r \in Pending /\ r.sb \in mounted /\ r.ino = i /\ CallKind(r) = inodes[i].kind
        BY <2>1, <2>4 DEF Pending, CallKind
    <2>6. ~setback /\ ~lost => Drawn(i)
        BY <2>1, <2>4 DEF IInv, CacheInv, NumbersDrawn, Drawn
    <2>7. raced \subseteq raced' /\ raced' \subseteq Inos
        BY <2>1 DEF IInv, MountInv
    <2> HIDE DEF r, i
    <2> QED BY <2>1, <2>5, <2>6, <2>7, CallChanges
<1>4. ASSUME NEW name \in Names, rmdir(t, m, name) PROVE IInv'
    BY <1>0, <1>4, DbRmdir, NamesChange DEF rmdir
<1>5. ASSUME NEW old \in Names, NEW new \in Names, rename_to(t, m, old, new) PROVE IInv'
    BY <1>0, <1>5, DbRename, NamesChange DEF rename_to
<1>6. ASSUME NEW src \in Inos, NEW name \in Names, link(t, m, src, name) PROVE IInv'
    BY <1>0, <1>6, DbLink, NamesChange DEF link
<1>7. ASSUME NEW name \in Names, NEW i \in Inos, SymlinkCreate(t, m, name, i) PROVE IInv'
    <2> DEFINE r == [op |-> "symlink", sb |-> m, ino |-> i]
    <2>1. r \in Pending /\ r.sb \in mounted /\ r.ino = i /\ CallKind(r) = "link" /\ mounted # {}
          /\ "link" \in Kinds
        BY <1>7 DEF Pending, CallKind, SymlinkCreate, Kinds
    <2> HIDE DEF r
    <2>2. CASE i \in Used
        BY <1>7, <2>1, <2>2, DrawnInVain DEF SymlinkCreate
    <2>3. CASE i \notin Used
        <3>1. draw(i) /\ dir[name] = NoIno /\ dbfs_create(name, "link", i)
              /\ call' = [call EXCEPT ![t] = r] /\ UNCHANGED <<superblocks, inode_cache, raced>>
            BY <1>7, <2>3 DEF SymlinkCreate, r
        <3> QED BY <2>1, <2>3, <3>1, BucketMade
    <2> QED BY <2>2, <2>3
<1> QED BY <1>1, <1>2, <1>3, <1>4, <1>5, <1>6, <1>7 DEF Call

\* create finds the number of its name again, which is its own or another that
\* took the name meanwhile.
LEMMA CreateLookupStep ==
    ASSUME IInv, NEW t \in Threads, CreateLookup(t)
    PROVE  IInv'
<1> DEFINE i == dir[call[t].name]
           r == [call[t] EXCEPT !.op = "found", !.ino = i]
<1>1. call[t].op = "created" /\ UNCHANGED <<db, superblocks, number, inode_cache>>
    BY DEF CreateLookup
<1>2. call[t] \in Pending /\ call[t].sb \in mounted /\ call[t] # Idle
    BY <1>1, BusyIsPending DEF IInv
<1>3. call[t] \in [op : {"created", "found"}, sb : Mounts, name : Names, kind : Made, ino : Inos]
    BY <1>1, <1>2 DEF Pending
<1>4. CASE Return(t) /\ UNCHANGED raced
    <2>1. raced \subseteq raced' /\ raced' \subseteq Inos
        BY <1>4 DEF IInv, MountInv
    <2> QED BY <1>1, <1>4, <2>1, CallChanges DEF Return
<1>5. CASE /\ i # NoIno
           /\ call' = [call EXCEPT ![t].op = "found", ![t].ino = i]
           /\ raced' = IF i = call[t].ino THEN raced ELSE raced \cup {i}
    <2>1. i \in Inos
        BY <1>3, <1>5 DEF IInv, DbInv
    <2>2. r \in [op : {"created", "found"}, sb : Mounts, name : Names, kind : Made, ino : Inos]
          /\ r.op = "found" /\ r.sb = call[t].sb /\ r.ino = i /\ r.kind = call[t].kind
        BY <1>3, <2>1
    <2>3. r \in Pending /\ CallKind(r) = call[t].kind /\ CallKind(call[t]) = call[t].kind
        BY <1>1, <2>2 DEF Pending, CallKind
    <2>4. call' = [call EXCEPT ![t] = r]
        BY <1>5 DEF IInv, CallsInv
    <2>5. raced \subseteq raced' /\ raced' \subseteq Inos /\ (i # call[t].ino => i \in raced')
          /\ (i = call[t].ino => raced' = raced)
        BY <1>5, <2>1 DEF IInv, MountInv
    <2>6. ~setback /\ ~lost => Drawn(i)
        <3>1. call[t].name \in NamesOf(i)
            BY <1>3 DEF NamesOf
        <3>2. inodes[i].links # 0
            BY <2>1, <3>1, NamesCount, NamesFinite DEF IInv, DbInv, LinksCover
        <3>3. i \in Used
            BY <2>1, <3>2, UsedHasLinks DEF IInv, DbInv, Gone
        <3> QED BY <1>2, <3>3 DEF IInv, CacheInv, NumbersDrawn, Drawn
    <2>7. ~setback /\ ~lost /\ i \in Used \ raced' => inodes[i].kind = CallKind(r)
        BY <1>2, <2>3, <2>5 DEF IInv, CacheInv, CallsFollow
    <2> HIDE DEF r, i
    <2> QED BY <1>1, <1>2, <2>2, <2>3, <2>4, <2>5, <2>6, <2>7, CallChanges
<1> QED BY <1>4, <1>5 DEF CreateLookup

\* The last steps of create, lookup and symlink.
LEMMA InsertSteps ==
    ASSUME IInv, NEW t \in Threads, CreateInsert(t) \/ LookupInsert(t) \/ SymlinkInsert(t)
    PROVE  IInv'
<1>1. call[t].op \in {"found", "lookup", "symlink"}
    BY DEF CreateInsert, LookupInsert, SymlinkInsert
<1>2. call[t] \in Pending
    BY <1>1, BusyIsPending DEF IInv
<1>3. /\ inode_cache' = IF call[t].ino \in Used
                        THEN [inode_cache EXCEPT ![call[t].sb][call[t].ino] = CallKind(call[t])]
                        ELSE inode_cache
      /\ Return(t) /\ UNCHANGED <<db, superblocks, number, raced>>
    BY DEF CreateInsert, LookupInsert, SymlinkInsert, CallKind
<1> QED BY <1>2, <1>3, ObjectInserted

\* The invariant of every behaviour.
THEOREM Rvfs2Invariant == Spec => []IInv
<1>1. IInv /\ [Next]_vars => IInv'
    <2>1. ASSUME IInv, Next PROVE IInv'
        BY <2>1, MountStep, SyncStep, KillStep, CrashStep, CallStep, CreateLookupStep, InsertSteps DEF Next
    <2>2. ASSUME IInv, UNCHANGED vars PROVE IInv'
        <3>1. DbInv /\ UNCHANGED db
            BY <2>2 DEF IInv, vars, db
        <3>2. DbInv' /\ KindsKept
            BY <3>1, DbSame
        <3> QED BY <2>2, <3>2, NamesChange DEF vars, superblocks
    <2> QED BY <2>1, <2>2
<1> QED BY InitInv, <1>1, PTL DEF Spec

\* Every name leads to a bucket, and an inode has as many links at least as it
\* has names, whatever interleaving of locked and unlocked calls made them.
THEOREM LinksTheorem == Spec => []NamesWithinLinks
<1>1. ASSUME IInv PROVE NamesWithinLinks
    <2>1. TypeOK
        <3>1. ASSUME NEW i \in Inos
              PROVE  inodes[i] = Gone \/ (inodes[i].kind \in Kinds /\ inodes[i].links \in Nat \ {0})
            BY <1>1, <3>1, UsedHasLinks DEF IInv, DbInv
        <3> QED BY <1>1, <3>1 DEF IInv, DbInv, MountInv, Caches, TypeOK
    <2>2. ASSUME NEW n \in Names, dir[n] # NoIno
          PROVE  dir[n] \in Used /\ Cardinality(NamesOf(dir[n])) <= inodes[dir[n]].links
        <3>1. dir[n] \in Inos /\ n \in NamesOf(dir[n])
            BY <1>1, <2>2 DEF IInv, DbInv, NamesOf
        <3>2. Cardinality(NamesOf(dir[n])) <= inodes[dir[n]].links /\ inodes[dir[n]].links # 0
            BY <1>1, <3>1, NamesCount, NamesFinite DEF IInv, DbInv, LinksCover
        <3> QED BY <1>1, <3>1, <3>2, UsedHasLinks DEF IInv, DbInv, Gone
    <2> QED BY <2>1, <2>2 DEF NamesWithinLinks
<1> QED BY Rvfs2Invariant, <1>1, PTL

\* New numbers lie above all those in use, the root's apart, as long as the
\* counter has not gone back.
THEOREM CounterTheorem == Spec => []CounterAhead
<1>1. IInv => CounterAhead
    BY DEF IInv, CacheInv, NumbersDrawn, CounterAhead
<1> QED BY Rvfs2Invariant, <1>1, PTL

\* A cached object has the kind of its inode, but for the causes named.
THEOREM CachedKindTheorem == Spec => []CachedKindHasCause
<1>1. ASSUME IInv PROVE CachedKindHasCause
    <2>1. Used \subseteq Inos
        BY DEF Used
    <2> QED BY <1>1, <2>1 DEF IInv, CacheInv, CacheFollows, CachedKindHasCause
<1> QED BY Rvfs2Invariant, <1>1, PTL

-----------------------------------------------------------------------------
(* RvfsMount *)

\* The invariant of the counter: also the numbers that calls have drawn and not yet
\* committed lie below it.
NumbersInv ==
    /\ NumbersAhead
    /\ is_mounted => \A n \in drawn : n < inode_number
    /\ ~is_mounted => drawn = {}

\* There is a first number, and the counter may stand at it and behind it.
LEMMA FirstNumbers ==
    1 \in Numbers /\ 1 \in 1..(MaxNumber + 1) /\ 2 \in 1..(MaxNumber + 1)
BY RvfsMountAssumption DEF Numbers

\* The end of the program names every number in use that was not stored.
LEMMA EndsStep ==
    ASSUME NumbersInv, Ends
    PROVE  NumbersInv'
<1>1. MountTypeOK'
    BY FirstNumbers DEF NumbersInv, NumbersAhead, MountTypeOK, Ends, InUse
<1>2. ASSUME NEW i \in InUse' \ lost_numbers' PROVE i < stored_number'
    <2>1. i \in Numbers /\ i \in InUse /\ ~(i >= stored_number)
        BY DEF Ends, InUse
    <2> QED BY <2>1 DEF NumbersInv, NumbersAhead, MountTypeOK, Ends, Numbers
<1> QED BY <1>1, <1>2 DEF NumbersInv, NumbersAhead, Ends

\* Mounts, stores of the counter and unmounts.
LEMMA SuperBlockStep ==
    ASSUME NumbersInv, dbfs_get_super_blk \/ dbfs_sync_fs \/ dbfs_common_umount
    PROVE  NumbersInv'
<1> USE RvfsMountAssumption
<1>1. CASE dbfs_sync_fs
    BY <1>1 DEF dbfs_sync_fs, NumbersInv, NumbersAhead, MountTypeOK, InUse, Numbers
<1>2. CASE dbfs_common_umount
    BY <1>2 DEF dbfs_common_umount, NumbersInv, NumbersAhead, MountTypeOK, InUse, Numbers
<1>3. CASE dbfs_get_super_blk
    <2>1. CASE Ends
        BY <2>1, EndsStep
    <2>2. CASE /\ ~is_mounted /\ buckets[RootNumber] = "none" /\ stored_number = 1
               /\ buckets' = [buckets EXCEPT ![RootNumber] = "dir"]
               /\ inode_number' = 2 /\ is_mounted' = TRUE
               /\ UNCHANGED <<stored_number, drawn, lost_numbers>>
        <3>1. MountTypeOK'
            BY <2>2, FirstNumbers DEF NumbersInv, NumbersAhead, MountTypeOK, BucketKinds
        <3>2. ASSUME NEW i \in InUse' \ lost_numbers' PROVE i < 2
            <4>1. CASE i \in InUse
                BY <2>2, <4>1 DEF NumbersInv, NumbersAhead, InUse, Numbers
            <4>2. CASE i \notin InUse
                BY <2>2, <4>2 DEF NumbersInv, NumbersAhead, MountTypeOK, InUse, RootNumber
            <4> QED BY <4>1, <4>2
        <3> QED BY <2>2, <3>1, <3>2 DEF NumbersInv, NumbersAhead
    <2>3. CASE /\ ~is_mounted /\ inode_number' = stored_number /\ is_mounted' = TRUE
               /\ UNCHANGED <<buckets, stored_number, drawn, lost_numbers>>
        BY <2>3 DEF NumbersInv, NumbersAhead, MountTypeOK, InUse, Numbers
    <2> QED BY <1>3, <2>1, <2>2, <2>3 DEF dbfs_get_super_blk
<1> QED BY <1>1, <1>2, <1>3

\* The hooks of a directory: a bucket gets a number that was drawn, and a number that
\* loses its bucket is named no longer.
LEMMA HookStep ==
    ASSUME NumbersInv, NEW d \in Numbers,
           \/ DrawNumber
           \/ \E n \in Numbers, kind \in {"file", "dir"} : CommitInode(n, d, kind)
           \/ \E i \in Numbers : RemoveBucket(d, i) \/ dbfs_rename(d, i)
    PROVE  NumbersInv'
<1>1. CASE Ends
    BY <1>1, EndsStep
<1>2. CASE DrawNumber
    BY <1>2, RvfsMountAssumption
    DEF DrawNumber, NumbersInv, NumbersAhead, MountTypeOK, InUse, Numbers
<1>3. ASSUME NEW n \in Numbers, NEW kind \in {"file", "dir"}, CommitInode(n, d, kind), ~Ends
      PROVE  NumbersInv'
    <2>1. /\ is_mounted /\ n \in drawn /\ drawn' = drawn \ {n}
          /\ UNCHANGED <<inode_number, stored_number, is_mounted, lost_numbers>>
          /\ buckets' = buckets \/ buckets' = [buckets EXCEPT ![n] = kind]
        BY <1>3 DEF CommitInode
    <2>2. MountTypeOK'
        BY <2>1 DEF NumbersInv, NumbersAhead, MountTypeOK, BucketKinds
    <2>3. ASSUME NEW i \in InUse' \ lost_numbers' PROVE i \in InUse \ lost_numbers \/ i = n
        BY <2>1 DEF NumbersInv, NumbersAhead, MountTypeOK, InUse
    <2> QED BY <2>1, <2>2, <2>3 DEF NumbersInv, NumbersAhead
<1>4. ASSUME NEW i \in Numbers, RemoveBucket(d, i) \/ dbfs_rename(d, i), ~Ends
      PROVE  NumbersInv'
    <2>1. /\ UNCHANGED <<inode_number, stored_number, is_mounted, drawn>>
          /\ \/ /\ buckets' = [buckets EXCEPT ![i] = "none"]
                /\ lost_numbers' = lost_numbers \ {i}
             \/ /\ buckets[d] # "none" /\ buckets[i] # "none"
                /\ buckets' = [buckets EXCEPT ![d] = "spoilt", ![i] = "spoilt"]
                /\ lost_numbers' = lost_numbers
        BY <1>4 DEF RemoveBucket, dbfs_rename
    <2>2. MountTypeOK'
        BY <2>1 DEF NumbersInv, NumbersAhead, MountTypeOK, BucketKinds
    <2>3. ASSUME NEW j \in InUse' \ lost_numbers' PROVE j \in InUse \ lost_numbers
        BY <2>1 DEF NumbersInv, NumbersAhead, MountTypeOK, InUse
    <2> QED BY <2>1, <2>2, <2>3 DEF NumbersInv, NumbersAhead
<1> QED BY <1>1, <1>2, <1>3, <1>4

\* A number in use is drawn again only when the program ended before the counter was
\* stored, however many calls of create were under way and whatever dbfs_rename spoilt.
THEOREM NumbersTheorem == MountSpec => []NumbersAhead
<1>1. MountInit => NumbersInv
    BY FirstNumbers DEF MountInit, NumbersInv, NumbersAhead, MountTypeOK, BucketKinds, InUse
<1>2. NumbersInv /\ [MountNext]_mountVars => NumbersInv'
    <2> SUFFICES ASSUME NumbersInv, [MountNext]_mountVars PROVE NumbersInv'
        OBVIOUS
    <2>1. CASE UNCHANGED mountVars
        BY <2>1 DEF mountVars, NumbersInv, NumbersAhead, MountTypeOK, InUse
    <2>2. CASE MachineStops \/ ReadSpoiltSize
        BY <2>2, EndsStep DEF MachineStops, ReadSpoiltSize
    <2>3. CASE dbfs_get_super_blk \/ dbfs_sync_fs \/ dbfs_common_umount
        BY <2>3, SuperBlockStep
    <2>4. CASE DrawNumber
        BY <2>4, FirstNumbers, HookStep
    <2>5. ASSUME NEW d \in Numbers,
                 \/ \E n \in Numbers, kind \in {"file", "dir"} : CommitInode(n, d, kind)
                 \/ \E i \in Numbers : RemoveBucket(d, i) \/ dbfs_rename(d, i)
          PROVE  NumbersInv'
        BY <2>5, HookStep
    <2> QED BY <2>1, <2>2, <2>3, <2>4, <2>5 DEF MountNext
<1>3. NumbersInv => NumbersAhead
    BY DEF NumbersInv
<1> QED BY <1>1, <1>2, <1>3, PTL DEF MountSpec

=============================================================================
