------------------------ MODULE DbfsNamespaceProofs ------------------------
(***************************************************************************)
(* The safety of the directory tree, for every number of inodes, names and *)
(* users, with crashes, overwriting renames and directory exchanges, and   *)
(* what is left of it when renames delete sockets that have other names.   *)
(***************************************************************************)
EXTENDS DbfsNamespace, LibraryProofs, FiniteSetTheorems, TLAPS

\* The root directory is there once the file system was mounted, and has no name.
RootInv ==
    /\ mounted => IsDir(RootIno)
    /\ inodes[RootIno].kind \in {"none", "dir"}
    /\ ~Live(RootIno) => continue_number \in {None, 1}
    /\ \A d \in Inos, n \in Names : inodes[d].ents[n] # RootIno

\* What a rename onto a socket or block device that has another name breaks.
NamesAgree == NoDangling /\ LinksCoverNames /\ DirHasOneName

\* No link count is zero: unlink deletes the inode instead.
LinksPositive == \A i \in Inos : IsFile(i) => inodes[i].hard_links # 0

\* The inductive invariant.
IInv ==
    /\ TypeOK /\ RootInv /\ SizeCoversEntries /\ LinksPositive
    /\ ReplaceLinked \/ NamesAgree

-----------------------------------------------------------------------------
(* Cardinalities *)

\* A subset of a finite set is finite and no larger.
LEMMA CardSubset ==
    ASSUME NEW T, IsFiniteSet(T), NEW S, S \subseteq T
    PROVE  /\ IsFiniteSet(S)
           /\ Cardinality(S) \in Nat
           /\ Cardinality(T) \in Nat
           /\ Cardinality(S) <= Cardinality(T)
BY FS_Subset, FS_CardinalityType

\* A set that gained one element at most.
LEMMA CardGain ==
    ASSUME NEW T, IsFiniteSet(T), NEW x, NEW S, S \subseteq T \cup {x}
    PROVE  Cardinality(S) <= Cardinality(T) + 1
<1>1. IsFiniteSet(T \cup {x}) /\ Cardinality(T \cup {x}) \in {Cardinality(T), Cardinality(T) + 1}
    BY FS_AddElement
<1>2. Cardinality(S) \in Nat /\ Cardinality(S) <= Cardinality(T \cup {x})
    BY <1>1, CardSubset
<1>3. Cardinality(T) \in Nat
    BY FS_CardinalityType
<1> QED BY <1>1, <1>2, <1>3

\* A set that lost one element at least.
LEMMA CardLoss ==
    ASSUME NEW T, IsFiniteSet(T), NEW x \in T, NEW S, S \subseteq T \ {x}
    PROVE  Cardinality(S) <= Cardinality(T) - 1
<1>1. IsFiniteSet(T \ {x}) /\ Cardinality(T \ {x}) = Cardinality(T) - 1
    BY FS_RemoveElement
<1>2. Cardinality(S) \in Nat /\ Cardinality(S) <= Cardinality(T \ {x})
    BY <1>1, CardSubset
<1>3. Cardinality(T) \in Nat
    BY FS_CardinalityType
<1> QED BY <1>1, <1>2, <1>3

\* A set that exchanged one element for another.
LEMMA CardSwap ==
    ASSUME NEW T, IsFiniteSet(T), NEW x \in T, NEW y, NEW S, S \subseteq (T \ {x}) \cup {y}
    PROVE  Cardinality(S) <= Cardinality(T)
<1>1. IsFiniteSet(T \ {x}) /\ Cardinality(T \ {x}) = Cardinality(T) - 1
    BY FS_RemoveElement
<1>2. Cardinality(S) <= Cardinality(T \ {x}) + 1
    BY <1>1, CardGain
<1>3. Cardinality(T) \in Nat
    BY FS_CardinalityType
<1>4. Cardinality(S) \in Nat
    <2>1. IsFiniteSet((T \ {x}) \cup {y})
        BY <1>1, FS_AddElement
    <2> QED BY <2>1, CardSubset
<1> QED BY <1>1, <1>2, <1>3, <1>4

\* A directory has finitely many entries.
LEMMA EntriesFinite == \A d : IsFiniteSet(Entries(d)) /\ Cardinality(Entries(d)) \in Nat
<1> TAKE d
<1>1. Entries(d) \subseteq Names
    BY DEF Entries
<1> QED BY <1>1, ConstantsAssumption, CardSubset

\* An inode has finitely many names.
LEMMA NamesOfFinite == \A i : IsFiniteSet(NamesOf(i)) /\ Cardinality(NamesOf(i)) \in Nat
<1> TAKE i
<1>1. IsFiniteSet(Inos)
    BY FS_Interval, ConstantsAssumption DEF Inos
<1>2. IsFiniteSet(Inos \X Names)
    BY <1>1, FS_Product, ConstantsAssumption
<1>3. NamesOf(i) \subseteq Inos \X Names
    BY DEF NamesOf
<1> QED BY <1>2, <1>3, CardSubset

-----------------------------------------------------------------------------
(* Each operation preserves the invariant *)

\* What the type invariant says of an inode's fields.
LEMMA InodeType ==
    ASSUME inodes \in [Inos -> Inode], NEW i \in Inos
    PROVE  /\ inodes[i] \in Inode
           /\ inodes[i].kind \in {"none", "dir", "node", "file"}
           /\ inodes[i].uid \in Users
           /\ inodes[i].perm \in SUBSET ModeBits
           /\ inodes[i].size \in Nat
           /\ inodes[i].hard_links \in Nat
           /\ inodes[i].dot \in Inos \cup {None}
           /\ inodes[i].dotdot \in Inos \cup {None}
           /\ inodes[i].ents \in [Names -> Inos \cup {None}]
           /\ \A n \in Names : inodes[i].ents[n] \in Inos \cup {None}
BY DEF Inode

\* The empty entry is not the root's number.
LEMMA RootNotNone == None # RootIno
BY DEF RootIno, None

\* A put of the hard_links key keeps an inode an inode.
LEMMA SetLinks ==
    ASSUME NEW r \in Inode, NEW k \in Nat
    PROVE  [r EXCEPT !.hard_links = k] \in Inode
BY DEF Inode

\* What an update of one field of one inode leaves alone.
SameCounts(f, g) ==
    \A j \in Inos : f[j].kind = g[j].kind /\ f[j].size = g[j].size /\ f[j].hard_links = g[j].hard_links

\* The keys that no put of an entry or a size touches.
SameKeys(f, g) ==
    \A j \in Inos : f[j].perm = g[j].perm /\ f[j].dot = g[j].dot /\ f[j].dotdot = g[j].dotdot

\* What PutEntry, the put of a directory entry, changes and what it leaves alone.
EntPut(g, f, d, n, v) ==
    /\ g \in [Inos -> Inode] /\ SameCounts(g, f) /\ SameKeys(g, f)
    /\ \A j \in Inos, x \in Names : g[j].ents[x] = IF j = d /\ x = n THEN v ELSE f[j].ents[x]

\* The put of the entry that dbfs_common_rename makes in a bucket.
LEMMA SetEnt ==
    ASSUME NEW f \in [Inos -> Inode], NEW d \in Inos, NEW n \in Names, NEW v \in Inos \cup {None}
    PROVE  EntPut(PutEntry(f, d, n, v), f, d, n, v)
<1> DEFINE r == [f[d] EXCEPT !.ents[n] = v]
           g == [f EXCEPT ![d] = r]
<1>1. f[d] \in Inode /\ f[d].ents \in [Names -> Inos \cup {None}]
    BY DEF Inode
<1>2. /\ r \in Inode /\ r.kind = f[d].kind /\ r.size = f[d].size /\ r.hard_links = f[d].hard_links
      /\ r.perm = f[d].perm /\ r.dot = f[d].dot /\ r.dotdot = f[d].dotdot
      /\ r.ents = [f[d].ents EXCEPT ![n] = v]
    BY <1>1 DEF Inode
<1>3. PutEntry(f, d, n, v) = g
    BY DEF PutEntry
<1> HIDE DEF r
<1>4. g \in [Inos -> Inode] /\ g[d] = r /\ \A j \in Inos \ {d} : g[j] = f[j]
    BY <1>2
<1> HIDE DEF g
<1>5. SameCounts(g, f) /\ SameKeys(g, f)
    BY <1>2, <1>4 DEF SameCounts, SameKeys
<1>6. \A j \in Inos, x \in Names : g[j].ents[x] = IF j = d /\ x = n THEN v ELSE f[j].ents[x]
    BY <1>1, <1>2, <1>4
<1> QED BY <1>3, <1>4, <1>5, <1>6 DEF EntPut

\* What PutDot, the put of the "." key, changes and what it leaves alone.
DotPut(g, f, d, v) ==
    /\ g \in [Inos -> Inode]
    /\ \A j \in Inos : /\ g[j].kind = f[j].kind /\ g[j].perm = f[j].perm /\ g[j].ents = f[j].ents
                       /\ g[j].size = f[j].size /\ g[j].hard_links = f[j].hard_links /\ g[j].dotdot = f[j].dotdot
                       /\ g[j].dot = IF j = d THEN v ELSE f[j].dot

\* The put of the "." key that dbfs_common_rename makes in a bucket.
LEMMA SetDot ==
    ASSUME NEW f \in [Inos -> Inode], NEW d \in Inos, NEW v \in Inos \cup {None}
    PROVE  DotPut(PutDot(f, d, v), f, d, v)
<1> DEFINE r == [f[d] EXCEPT !.dot = v]
           g == [f EXCEPT ![d] = r]
<1>1. f[d] \in Inode
    OBVIOUS
<1>2. /\ r \in Inode
      /\ r.kind = f[d].kind /\ r.perm = f[d].perm /\ r.ents = f[d].ents
      /\ r.size = f[d].size /\ r.hard_links = f[d].hard_links /\ r.dotdot = f[d].dotdot
      /\ r.dot = v
    BY <1>1 DEF Inode
<1>3. PutDot(f, d, v) = g
    BY DEF PutDot
<1> HIDE DEF r
<1>4. g \in [Inos -> Inode] /\ g[d] = r /\ \A j \in Inos \ {d} : g[j] = f[j]
    BY <1>2
<1> HIDE DEF g
<1> QED BY <1>2, <1>3, <1>4 DEF DotPut

\* What PutDotDot, the put of the ".." key, changes and what it leaves alone.
DotDotPut(g, f, d, v) ==
    /\ g \in [Inos -> Inode]
    /\ \A j \in Inos : /\ g[j].kind = f[j].kind /\ g[j].perm = f[j].perm /\ g[j].ents = f[j].ents
                       /\ g[j].size = f[j].size /\ g[j].hard_links = f[j].hard_links /\ g[j].dot = f[j].dot
                       /\ g[j].dotdot = IF j = d THEN v ELSE f[j].dotdot

\* The put of the ".." key that dbfs_common_rename makes in a bucket.
LEMMA SetDotDot ==
    ASSUME NEW f \in [Inos -> Inode], NEW d \in Inos, NEW v \in Inos \cup {None}
    PROVE  DotDotPut(PutDotDot(f, d, v), f, d, v)
<1> DEFINE r == [f[d] EXCEPT !.dotdot = v]
           g == [f EXCEPT ![d] = r]
<1>1. f[d] \in Inode
    OBVIOUS
<1>2. /\ r \in Inode
      /\ r.kind = f[d].kind /\ r.perm = f[d].perm /\ r.ents = f[d].ents
      /\ r.size = f[d].size /\ r.hard_links = f[d].hard_links /\ r.dot = f[d].dot
      /\ r.dotdot = v
    BY <1>1 DEF Inode
<1>3. PutDotDot(f, d, v) = g
    BY DEF PutDotDot
<1> HIDE DEF r
<1>4. g \in [Inos -> Inode] /\ g[d] = r /\ \A j \in Inos \ {d} : g[j] = f[j]
    BY <1>2
<1> HIDE DEF g
<1> QED BY <1>2, <1>3, <1>4 DEF DotDotPut

\* What PutSize, the put of the size key, changes and what it leaves alone.
SizePut(g, f, d, v) ==
    /\ g \in [Inos -> Inode]
    /\ \A j \in Inos : /\ g[j].kind = f[j].kind /\ g[j].perm = f[j].perm /\ g[j].ents = f[j].ents
                       /\ g[j].hard_links = f[j].hard_links /\ g[j].dot = f[j].dot /\ g[j].dotdot = f[j].dotdot
                       /\ g[j].size = IF j = d THEN v ELSE f[j].size

\* The put of the size key that dbfs_common_rename makes in a bucket.
LEMMA SetSize ==
    ASSUME NEW f \in [Inos -> Inode], NEW d \in Inos, NEW v \in Nat
    PROVE  SizePut(PutSize(f, d, v), f, d, v)
<1> DEFINE r == [f[d] EXCEPT !.size = v]
           g == [f EXCEPT ![d] = r]
<1>1. f[d] \in Inode
    OBVIOUS
<1>2. /\ r \in Inode
      /\ r.kind = f[d].kind /\ r.perm = f[d].perm /\ r.ents = f[d].ents
      /\ r.hard_links = f[d].hard_links /\ r.dot = f[d].dot /\ r.dotdot = f[d].dotdot
      /\ r.size = v
    BY <1>1 DEF Inode
<1>3. PutSize(f, d, v) = g
    BY DEF PutSize
<1> HIDE DEF r
<1>4. g \in [Inos -> Inode] /\ g[d] = r /\ \A j \in Inos \ {d} : g[j] = f[j]
    BY <1>2
<1> HIDE DEF g
<1> QED BY <1>2, <1>3, <1>4 DEF SizePut

\* The part of the invariant that speaks of the buckets.
TreeInv ==
    /\ inodes \in [Inos -> Inode]
    /\ \A d \in Inos, n \in Names : inodes[d].ents[n] # RootIno
    /\ SizeCoversEntries /\ LinksPositive
    /\ ReplaceLinked \/ NamesAgree

\* The bucket changes of dbfs_common_create preserve the tree.
LEMMA CreateTree ==
    ASSUME TreeInv, NEW d \in Inos, IsDir(d), NEW n \in Names, inodes[d].ents[n] = None,
           NEW num \in Inos \ {RootIno}, ~Live(num), NEW u \in Users, NEW m \in SUBSET ModeBits,
           NEW kind \in {"dir", "node", "file"},
           inodes' = [inodes EXCEPT ![d].size = @ + 1,
                                    ![d].ents[n] = num,
                                    ![num] = NewInode(kind, num, d, u, m)]
    PROVE  TreeInv'
<1> USE DEF TreeInv, NamesAgree
<1>0. /\ d # num /\ None \notin Inos
      /\ \A e \in Inos \X Names : e[1] \in Inos /\ e[2] \in Names
    BY ConstantsAssumption DEF IsDir, Live, None, Inos
<1>1. NewInode(kind, num, d, u, m) \in Inode
    BY DEF NewInode, Inode, NoEnts, ModeBits
<1>2. inodes' \in [Inos -> Inode]
    BY <1>0, <1>1, InodeType DEF Inode
<1>3. \A j \in Inos : j \notin {d, num} => inodes'[j] = inodes[j]
    BY <1>0
<1>4. /\ inodes'[d].kind = "dir" /\ inodes'[d].size = inodes[d].size + 1
      /\ inodes'[d].ents = [inodes[d].ents EXCEPT ![n] = num]
    BY <1>0, InodeType DEF IsDir, Inode
<1>5. inodes'[num] = NewInode(kind, num, d, u, m)
    BY <1>0
<1>6. \A j \in Inos, x \in Names :
        inodes'[j].ents[x] = IF j = d /\ x = n THEN num
                             ELSE IF j = num THEN None ELSE inodes[j].ents[x]
    BY <1>0, <1>3, <1>4, <1>5, InodeType DEF NewInode, NoEnts
<1>7. ReplaceLinked \/ \A j \in Inos, x \in Names : inodes[j].ents[x] # num
    BY <1>0, InodeType DEF NoDangling
<1>8. ~ReplaceLinked => /\ \A i \in Inos \ {num} : NamesOf(i)' \subseteq NamesOf(i)
                        /\ NamesOf(num)' = {<<d, n>>}
    <2> SUFFICES ASSUME ~ReplaceLinked
                 PROVE  /\ \A i \in Inos \ {num} : NamesOf(i)' \subseteq NamesOf(i)
                        /\ NamesOf(num)' = {<<d, n>>}
        OBVIOUS
    <2>1. ASSUME NEW i \in Inos, NEW e \in NamesOf(i)'
          PROVE  (e = <<d, n>> /\ i = num) \/ (e \in NamesOf(i) /\ i # num)
        <3>1. e \in Inos \X Names /\ inodes'[e[1]].ents[e[2]] = i
            BY <2>1, Zenon DEF NamesOf
        <3>2. e[1] \in Inos /\ e[2] \in Names /\ i # None
            BY <3>1, <1>0, Zenon
        <3>3. CASE e[1] = d /\ e[2] = n
            <4>1. e = <<d, n>>
                BY <3>1, <3>3
            <4>2. inodes'[e[1]].ents[e[2]] = num
                BY <3>2, <3>3, <1>6
            <4> QED BY <3>1, <4>1, <4>2
        <3>4. CASE ~(e[1] = d /\ e[2] = n)
            <4>1. inodes'[e[1]].ents[e[2]] = inodes[e[1]].ents[e[2]]
                BY <3>1, <3>2, <3>4, <1>6
            <4>2. i # num
                BY <3>1, <3>2, <4>1, <1>7, Zenon
            <4> QED BY <3>1, <4>1, <4>2, Zenon DEF NamesOf
        <3> QED BY <3>3, <3>4
    <2>2. <<d, n>> \in NamesOf(num)'
        BY <1>6 DEF NamesOf
    <2> QED BY <2>1, <2>2
<1>9. \A j \in Inos, x \in Names : inodes'[j].ents[x] # RootIno
    BY <1>0, <1>6 DEF RootIno, Inos, None
<1>10. ReplaceLinked \/ NoDangling'
    <2> SUFFICES ASSUME ~ReplaceLinked, NEW j \in Inos, NEW x \in Names, inodes'[j].ents[x] # None
                 PROVE  inodes'[inodes'[j].ents[x]].kind # "none"
        BY DEF NoDangling, Live
    <2>1. CASE j = d /\ x = n
        <3>1. inodes'[j].ents[x] = num
            BY <2>1, <1>6
        <3>2. inodes'[num].kind = kind
            BY <1>5 DEF NewInode
        <3> QED BY <3>1, <3>2
    <2>2. CASE ~(j = d /\ x = n)
        <3> DEFINE t == inodes[j].ents[x]
        <3>1. inodes'[j].ents[x] = t /\ t # None
            BY <2>2, <1>6
        <3>2. t \in Inos /\ t # num
            BY <3>1, <1>7, InodeType
        <3>3. inodes[t].kind # "none"
            BY <3>1, <3>2 DEF NoDangling, Live
        <3> HIDE DEF t
        <3>4. CASE t = d
            BY <3>1, <3>4, <1>4
        <3>5. CASE t # d
            <4>1. inodes'[t] = inodes[t]
                BY <3>2, <3>5, <1>3
            <4> QED BY <3>1, <3>3, <4>1
        <3> QED BY <3>4, <3>5
    <2> QED BY <2>1, <2>2
<1>11. SizeCoversEntries'
    <2> SUFFICES ASSUME NEW j \in Inos, inodes'[j].kind = "dir"
                 PROVE  inodes'[j].size >= Cardinality(Entries(j)') + (IF j = RootIno THEN 1 ELSE 2)
        BY DEF SizeCoversEntries, IsDir
    <2>1. CASE j = d
        <3>1. Entries(d)' \subseteq Entries(d) \cup {n}
            BY <1>0, <1>6 DEF Entries
        <3>2. Cardinality(Entries(d)') <= Cardinality(Entries(d)) + 1 /\ Cardinality(Entries(d)') \in Nat
            BY <3>1, CardGain, EntriesFinite, FS_AddElement, CardSubset
        <3> QED BY <2>1, <3>2, <1>4, EntriesFinite, InodeType DEF SizeCoversEntries
    <2>2. CASE j = num
        <3>1. Entries(num)' = {}
            BY <1>0, <1>6 DEF Entries
        <3> QED BY <2>2, <3>1, <1>5, FS_EmptySet DEF NewInode
    <2>3. CASE j \notin {d, num}
        <3>1. Entries(j)' = Entries(j)
            BY <2>3, <1>6 DEF Entries
        <3> QED BY <2>3, <3>1, <1>3 DEF SizeCoversEntries, IsDir
    <2> QED BY <2>1, <2>2, <2>3
<1>12. ReplaceLinked \/ LinksCoverNames'
    <2> SUFFICES ASSUME ~ReplaceLinked, NEW i \in Inos, inodes'[i].kind \in {"node", "file"}
                 PROVE  inodes'[i].hard_links >= Cardinality(NamesOf(i)')
        BY DEF LinksCoverNames, IsFile
    <2>1. CASE i = num
        <3>1. Cardinality(NamesOf(i)') = 1
            BY <2>1, <1>8, FS_Singleton
        <3>2. inodes'[i].hard_links = 1
            BY <2>1, <1>5 DEF NewInode
        <3> QED BY <3>1, <3>2
    <2>2. CASE i # num
        <3>1. inodes'[i] = inodes[i]
            BY <2>2, <1>3, <1>4
        <3>2. Cardinality(NamesOf(i)') <= Cardinality(NamesOf(i)) /\ Cardinality(NamesOf(i)') \in Nat
            BY <2>2, <1>8, CardSubset, NamesOfFinite
        <3> QED BY <3>1, <3>2, NamesOfFinite, InodeType DEF LinksCoverNames, IsFile
    <2> QED BY <2>1, <2>2
<1>13. ReplaceLinked \/ DirHasOneName'
    <2> SUFFICES ASSUME ~ReplaceLinked, NEW i \in Inos, inodes'[i].kind = "dir",
                        NEW e \in NamesOf(i)', NEW f \in NamesOf(i)'
                 PROVE  e = f
        BY DEF DirHasOneName, IsDir
    <2>1. CASE i = num
        BY <2>1, <1>8
    <2>2. CASE i # num
        BY <2>2, <1>3, <1>8 DEF DirHasOneName, IsDir
    <2> QED BY <2>1, <2>2
<1>14. LinksPositive'
    <2> SUFFICES ASSUME NEW j \in Inos, inodes'[j].kind \in {"node", "file"}
                 PROVE  inodes'[j].hard_links # 0
        BY DEF LinksPositive, IsFile
    <2>1. CASE j = num
        BY <2>1, <1>5 DEF NewInode
    <2>2. CASE j # num
        BY <2>2, <1>3, <1>4 DEF LinksPositive, IsFile
    <2> QED BY <2>1, <2>2
<1> QED BY <1>2, <1>9, <1>10, <1>11, <1>12, <1>13, <1>14

\* The bucket changes of dbfs_common_link preserve the tree.
LEMMA LinkTree ==
    ASSUME TreeInv, NEW d \in Inos, IsDir(d), NEW n \in Names, inodes[d].ents[n] = None,
           NEW i \in Inos, inodes[i].kind \in {"node", "file"}, i # RootIno,
           inodes' = [inodes EXCEPT ![d].size = @ + 1,
                                    ![d].ents[n] = i,
                                    ![i].hard_links = @ + 1]
    PROVE  TreeInv'
<1> USE DEF TreeInv, NamesAgree
<1>0. /\ d # i /\ None \notin Inos
      /\ \A e \in Inos \X Names : e[1] \in Inos /\ e[2] \in Names
    BY ConstantsAssumption DEF IsDir, None, Inos
<1>2. inodes' \in [Inos -> Inode]
    <2>1. inodes'[i] = [inodes[i] EXCEPT !.hard_links = inodes[i].hard_links + 1]
        BY <1>0
    <2>2. inodes[i] \in Inode /\ inodes[i].hard_links + 1 \in Nat
        BY InodeType
    <2>2a. inodes'[i] \in Inode
        BY <2>1, <2>2, SetLinks
    <2>3. inodes'[d] \in Inode
        <3>1. inodes'[d] = [inodes[d] EXCEPT !.size = inodes[d].size + 1, !.ents[n] = i]
            BY <1>0
        <3>2. inodes[d] \in Inode /\ inodes[d].size + 1 \in Nat
            BY InodeType
        <3> QED BY <3>1, <3>2 DEF Inode
    <2> QED BY <2>2a, <2>3
<1>3. \A j \in Inos : j \notin {d, i} => inodes'[j] = inodes[j]
    BY <1>0
<1>4. /\ inodes'[d].kind = "dir" /\ inodes'[d].size = inodes[d].size + 1
      /\ inodes'[d].ents = [inodes[d].ents EXCEPT ![n] = i]
    BY <1>0, InodeType DEF IsDir, Inode
<1>5. /\ inodes'[i].kind \in {"node", "file"} /\ inodes'[i].hard_links = inodes[i].hard_links + 1
      /\ inodes'[i].ents = inodes[i].ents
    BY <1>0, InodeType DEF Inode
<1>6. \A j \in Inos, x \in Names :
        inodes'[j].ents[x] = IF j = d /\ x = n THEN i ELSE inodes[j].ents[x]
    BY <1>0, <1>3, <1>4, <1>5, InodeType
<1>8. /\ \A j \in Inos \ {i} : NamesOf(j)' \subseteq NamesOf(j)
      /\ NamesOf(i)' \subseteq NamesOf(i) \cup {<<d, n>>}
    <2>1. ASSUME NEW j \in Inos, NEW e \in NamesOf(j)'
          PROVE  e \in NamesOf(j) \/ (e = <<d, n>> /\ j = i)
        <3>1. e \in Inos \X Names /\ inodes'[e[1]].ents[e[2]] = j
            BY <2>1, Zenon DEF NamesOf
        <3>2. e[1] \in Inos /\ e[2] \in Names
            BY <3>1, <1>0, Zenon
        <3>3. CASE e[1] = d /\ e[2] = n
            <4>1. e = <<d, n>>
                BY <3>1, <3>3
            <4>2. inodes'[e[1]].ents[e[2]] = i
                BY <3>2, <3>3, <1>6
            <4> QED BY <3>1, <4>1, <4>2
        <3>4. CASE ~(e[1] = d /\ e[2] = n)
            <4>1. inodes'[e[1]].ents[e[2]] = inodes[e[1]].ents[e[2]]
                BY <3>2, <3>4, <1>6
            <4> QED BY <3>1, <4>1, Zenon DEF NamesOf
        <3> QED BY <3>3, <3>4
    <2> QED BY <2>1
<1>9. \A j \in Inos, x \in Names : inodes'[j].ents[x] # RootIno
    BY <1>0, <1>6
<1>10. ReplaceLinked \/ NoDangling'
    <2> SUFFICES ASSUME ~ReplaceLinked, NEW j \in Inos, NEW x \in Names, inodes'[j].ents[x] # None
                 PROVE  inodes'[inodes'[j].ents[x]].kind # "none"
        BY DEF NoDangling, Live
    <2>1. CASE j = d /\ x = n
        <3>1. inodes'[j].ents[x] = i
            BY <2>1, <1>6
        <3> QED BY <3>1, <1>5
    <2>2. CASE ~(j = d /\ x = n)
        <3> DEFINE t == inodes[j].ents[x]
        <3>1. inodes'[j].ents[x] = t /\ t # None
            BY <2>2, <1>6
        <3>2. t \in Inos
            BY <3>1, InodeType
        <3>3. inodes[t].kind # "none"
            BY <3>1, <3>2 DEF NoDangling, Live
        <3> HIDE DEF t
        <3>4. CASE t = d
            BY <3>1, <3>4, <1>4
        <3>5. CASE t = i
            BY <3>1, <3>5, <1>5
        <3>6. CASE t \notin {d, i}
            <4>1. inodes'[t] = inodes[t]
                BY <3>2, <3>6, <1>3
            <4> QED BY <3>1, <3>3, <4>1
        <3> QED BY <3>4, <3>5, <3>6
    <2> QED BY <2>1, <2>2
<1>11. SizeCoversEntries'
    <2> SUFFICES ASSUME NEW j \in Inos, inodes'[j].kind = "dir"
                 PROVE  inodes'[j].size >= Cardinality(Entries(j)') + (IF j = RootIno THEN 1 ELSE 2)
        BY DEF SizeCoversEntries, IsDir
    <2>1. CASE j = d
        <3>1. Entries(d)' \subseteq Entries(d) \cup {n}
            BY <1>0, <1>6 DEF Entries
        <3>2. Cardinality(Entries(d)') <= Cardinality(Entries(d)) + 1 /\ Cardinality(Entries(d)') \in Nat
            BY <3>1, CardGain, EntriesFinite, FS_AddElement, CardSubset
        <3> QED BY <2>1, <3>2, <1>4, EntriesFinite, InodeType DEF SizeCoversEntries
    <2>2. CASE j # d
        <3>1. Entries(j)' = Entries(j)
            BY <2>2, <1>6 DEF Entries
        <3>2. inodes'[j] = inodes[j]
            BY <2>2, <1>3, <1>5
        <3> QED BY <2>2, <3>1, <3>2 DEF SizeCoversEntries, IsDir
    <2> QED BY <2>1, <2>2
<1>12. ReplaceLinked \/ LinksCoverNames'
    <2> SUFFICES ASSUME ~ReplaceLinked, NEW j \in Inos, inodes'[j].kind \in {"node", "file"}
                 PROVE  inodes'[j].hard_links >= Cardinality(NamesOf(j)')
        BY DEF LinksCoverNames, IsFile
    <2>1. CASE j = i
        <3>1. Cardinality(NamesOf(i)') <= Cardinality(NamesOf(i)) + 1 /\ Cardinality(NamesOf(i)') \in Nat
            BY <1>8, CardGain, NamesOfFinite, FS_AddElement, CardSubset
        <3> QED BY <2>1, <3>1, <1>5, NamesOfFinite, InodeType DEF LinksCoverNames, IsFile
    <2>2. CASE j # i
        <3>1. inodes'[j] = inodes[j]
            BY <2>2, <1>3, <1>4
        <3>2. Cardinality(NamesOf(j)') <= Cardinality(NamesOf(j)) /\ Cardinality(NamesOf(j)') \in Nat
            BY <2>2, <1>8, CardSubset, NamesOfFinite
        <3> QED BY <3>1, <3>2, NamesOfFinite, InodeType DEF LinksCoverNames, IsFile
    <2> QED BY <2>1, <2>2
<1>13. ReplaceLinked \/ DirHasOneName'
    <2> SUFFICES ASSUME ~ReplaceLinked, NEW j \in Inos, inodes'[j].kind = "dir",
                        NEW e \in NamesOf(j)', NEW f \in NamesOf(j)'
                 PROVE  e = f
        BY DEF DirHasOneName, IsDir
    <2>1. j # i /\ IsDir(j)
        BY <1>3, <1>5 DEF IsDir
    <2> QED BY <2>1, <1>8 DEF DirHasOneName
<1>14. LinksPositive'
    <2> SUFFICES ASSUME NEW j \in Inos, inodes'[j].kind \in {"node", "file"}
                 PROVE  inodes'[j].hard_links # 0
        BY DEF LinksPositive, IsFile
    <2>1. CASE j = i
        BY <2>1, <1>5, InodeType
    <2>2. CASE j # i
        BY <2>2, <1>3, <1>4 DEF LinksPositive, IsFile
    <2> QED BY <2>1, <2>2
<1> QED BY <1>2, <1>9, <1>10, <1>11, <1>12, <1>13, <1>14

\* The entry n of d goes, and inode i with it if it is a directory or has no
\* other link.
LEMMA RemoveTree ==
    ASSUME TreeInv, NEW d \in Inos, IsDir(d), NEW n \in Names,
           NEW i \in Inos, i = inodes[d].ents[n], i # d,
           NEW kept, kept \in BOOLEAN,
           kept <=> inodes[i].kind \in {"node", "file"} /\ inodes[i].hard_links # 1,
           inodes' = [inodes EXCEPT ![d].size = @ - 1,
                                    ![d].ents[n] = None,
                                    ![i] = IF kept THEN [inodes[i] EXCEPT !.hard_links = @ - 1] ELSE Absent]
    PROVE  TreeInv'
<1> USE DEF TreeInv, NamesAgree
<1>0. /\ d # i /\ None \notin Inos /\ i # RootIno
      /\ \A e \in Inos \X Names : e[1] \in Inos /\ e[2] \in Names
    BY ConstantsAssumption DEF IsDir, None, Inos
<1>1. n \in Entries(d) /\ <<d, n>> \in NamesOf(i)
    BY <1>0 DEF Entries, NamesOf
<1>2. inodes[d].size - 1 \in Nat
    <2>1. Cardinality(Entries(d)) # 0
        BY <1>1, EntriesFinite, FS_EmptySet
    <2> QED BY <2>1, EntriesFinite, InodeType DEF SizeCoversEntries
<1>3. kept => inodes[i].hard_links - 1 \in Nat /\ inodes[i].hard_links - 1 # 0
    BY InodeType DEF LinksPositive, IsFile
<1>4. Absent \in Inode
    BY ConstantsAssumption DEF Absent, Inode, NoEnts
<1>5. ASSUME kept PROVE [inodes[i] EXCEPT !.hard_links = inodes[i].hard_links - 1] \in Inode
    BY <1>3, <1>5, InodeType, SetLinks
<1>6. inodes' \in [Inos -> Inode]
    <2>1. inodes'[i] \in Inode
        BY <1>0, <1>4, <1>5
    <2>2. inodes'[d] \in Inode
        BY <1>0, <1>2, InodeType DEF Inode
    <2> QED BY <2>1, <2>2
<1>7. \A j \in Inos : j \notin {d, i} => inodes'[j] = inodes[j]
    BY <1>0
<1>8. /\ inodes'[d].kind = "dir" /\ inodes'[d].size = inodes[d].size - 1
      /\ inodes'[d].ents = [inodes[d].ents EXCEPT ![n] = None]
    BY <1>0, InodeType DEF IsDir, Inode
<1>9. inodes'[i] = IF kept THEN [inodes[i] EXCEPT !.hard_links = @ - 1] ELSE Absent
    BY <1>0
<1>10. /\ kept => /\ inodes'[i].kind \in {"node", "file"} /\ inodes'[i].ents = inodes[i].ents
                  /\ inodes'[i].hard_links = inodes[i].hard_links - 1
       /\ ~kept => inodes'[i].kind = "none" /\ inodes'[i].ents = NoEnts
    <2>1. inodes[i] \in Inode
        BY InodeType
    <2>2. CASE kept
        <3>1. inodes'[i] = [inodes[i] EXCEPT !.hard_links = @ - 1] /\ inodes[i].kind \in {"node", "file"}
            BY <2>2, <1>9
        <3> QED BY <2>1, <2>2, <3>1 DEF Inode
    <2>3. CASE ~kept
        <3>1. inodes'[i] = Absent
            BY <2>3, <1>9
        <3> QED BY <2>3, <3>1 DEF Absent
    <2> QED BY <2>2, <2>3
<1>11. \A j \in Inos, x \in Names :
        inodes'[j].ents[x] = IF (j = d /\ x = n) \/ (j = i /\ ~kept) THEN None ELSE inodes[j].ents[x]
    <2> SUFFICES ASSUME NEW j \in Inos, NEW x \in Names
                 PROVE  inodes'[j].ents[x] = IF (j = d /\ x = n) \/ (j = i /\ ~kept)
                                             THEN None ELSE inodes[j].ents[x]
        OBVIOUS
    <2>1. CASE j = d
        <3>1. inodes[d].ents \in [Names -> Inos \cup {None}]
            BY InodeType
        <3> QED BY <2>1, <3>1, <1>0, <1>8
    <2>2. CASE j = i /\ kept
        <3>1. inodes'[i].ents = inodes[i].ents
            BY <2>2, <1>10
        <3> QED BY <2>2, <3>1, <1>0
    <2>3. CASE j = i /\ ~kept
        <3>1. inodes'[i].ents = NoEnts
            BY <2>3, <1>10
        <3>2. NoEnts[x] = None
            BY DEF NoEnts
        <3> QED BY <2>3, <3>1, <3>2
    <2>4. CASE j \notin {d, i}
        <3>1. inodes'[j] = inodes[j]
            BY <2>4, <1>7
        <3> QED BY <2>4, <3>1
    <2> QED BY <2>1, <2>2, <2>3, <2>4
<1>11a. ASSUME NEW j \in Inos, NEW x \in Names, inodes'[j].ents[x] # None
        PROVE  inodes'[j].ents[x] = inodes[j].ents[x] /\ ~(j = d /\ x = n)
    <2>1. inodes'[j].ents[x] = IF (j = d /\ x = n) \/ (j = i /\ ~kept) THEN None ELSE inodes[j].ents[x]
        BY <1>11
    <2> QED BY <1>11a, <2>1
<1>12. /\ \A j \in Inos : NamesOf(j)' \subseteq NamesOf(j)
       /\ NamesOf(i)' \subseteq NamesOf(i) \ {<<d, n>>}
    <2>1. ASSUME NEW j \in Inos, NEW e \in NamesOf(j)'
          PROVE  e \in NamesOf(j) /\ e # <<d, n>>
        <3>1. e \in Inos \X Names /\ inodes'[e[1]].ents[e[2]] = j
            BY <2>1, Zenon DEF NamesOf
        <3>2. e[1] \in Inos /\ e[2] \in Names
            BY <3>1, <1>0, Zenon
        <3>3. inodes'[e[1]].ents[e[2]] # None
            BY <3>1, <1>0, Zenon
        <3>4. /\ ~(e[1] = d /\ e[2] = n)
              /\ inodes'[e[1]].ents[e[2]] = inodes[e[1]].ents[e[2]]
            BY <3>2, <3>3, <1>11a, Zenon
        <3>5. e \in NamesOf(j)
            BY <3>1, <3>4, Zenon DEF NamesOf
        <3>6. <<d, n>>[1] = d /\ <<d, n>>[2] = n
            OBVIOUS
        <3> QED BY <3>4, <3>5, <3>6, Zenon
    <2> QED BY <2>1
<1>13. ~kept => ReplaceLinked \/ NamesOf(i)' = {}
    <2> SUFFICES ASSUME ~kept, ~ReplaceLinked PROVE NamesOf(i)' = {}
        OBVIOUS
    <2>1. CASE inodes[i].kind = "dir"
        BY <2>1, <1>1, <1>12 DEF DirHasOneName, IsDir
    <2>2. CASE inodes[i].kind \in {"node", "file"} /\ ~kept
        <3>1. Cardinality(NamesOf(i)) <= 1
            BY <2>2 DEF LinksCoverNames, IsFile
        <3>2. Cardinality(NamesOf(i)') <= 0 /\ Cardinality(NamesOf(i)') \in Nat /\ IsFiniteSet(NamesOf(i)')
            <4>1. Cardinality(NamesOf(i)') <= Cardinality(NamesOf(i)) - 1
                BY <1>1, <1>12, CardLoss, NamesOfFinite
            <4>2. Cardinality(NamesOf(i)') \in Nat /\ IsFiniteSet(NamesOf(i)')
                BY <1>12, CardSubset, NamesOfFinite
            <4> QED BY <3>1, <4>1, <4>2, NamesOfFinite
        <3> QED BY <3>2, FS_EmptySet
    <2>3. inodes[i].kind # "none"
        BY <1>0 DEF NoDangling, Live
    <2> QED BY <2>1, <2>2, <2>3, InodeType
<1>14. ReplaceLinked \/ NoDangling'
    <2> SUFFICES ASSUME ~ReplaceLinked, NEW j \in Inos, NEW x \in Names, inodes'[j].ents[x] # None
                 PROVE  inodes'[inodes'[j].ents[x]].kind # "none"
        BY DEF NoDangling, Live
    <2>1. inodes'[j].ents[x] = inodes[j].ents[x] /\ inodes[j].ents[x] \in Inos
        <3>1. inodes'[j].ents[x] = inodes[j].ents[x]
            BY <1>11a
        <3>2. inodes[j].ents[x] \in Inos \cup {None}
            BY InodeType
        <3> QED BY <3>1, <3>2
    <2>2. CASE inodes[j].ents[x] = i
        <3>1. <<j, x>> \in NamesOf(i)'
            BY <2>1, <2>2 DEF NamesOf
        <3> QED BY <2>1, <2>2, <3>1, <1>10, <1>13
    <2>3. CASE inodes[j].ents[x] # i
        <3> DEFINE t == inodes[j].ents[x]
        <3>1. inodes'[j].ents[x] = t /\ t # None /\ t \in Inos /\ t # i
            BY <2>1, <2>3
        <3>2. inodes[t].kind # "none"
            BY <3>1 DEF NoDangling, Live
        <3> HIDE DEF t
        <3>3. CASE t = d
            BY <3>1, <3>3, <1>8
        <3>4. CASE t # d
            <4>1. inodes'[t] = inodes[t]
                BY <3>1, <3>4, <1>7
            <4> QED BY <3>1, <3>2, <4>1
        <3> QED BY <3>3, <3>4
    <2> QED BY <2>2, <2>3
<1>15. SizeCoversEntries'
    <2> SUFFICES ASSUME NEW j \in Inos, inodes'[j].kind = "dir"
                 PROVE  inodes'[j].size >= Cardinality(Entries(j)') + (IF j = RootIno THEN 1 ELSE 2)
        BY DEF SizeCoversEntries, IsDir
    <2>1. CASE j = d
        <3>1. Entries(d)' \subseteq Entries(d) \ {n}
            BY <1>0, <1>11a DEF Entries
        <3>2. Cardinality(Entries(d)') <= Cardinality(Entries(d)) - 1 /\ Cardinality(Entries(d)') \in Nat
            BY <3>1, <1>1, CardLoss, EntriesFinite, CardSubset
        <3> QED BY <2>1, <3>2, <1>8, EntriesFinite, InodeType DEF SizeCoversEntries
    <2>2. CASE j # d
        <3>1. inodes'[j] = inodes[j]
            BY <2>2, <1>7, <1>10
        <3>2. Entries(j)' = Entries(j)
            BY <3>1 DEF Entries
        <3> QED BY <2>2, <3>1, <3>2 DEF SizeCoversEntries, IsDir
    <2> QED BY <2>1, <2>2
<1>16. ReplaceLinked \/ LinksCoverNames'
    <2> SUFFICES ASSUME ~ReplaceLinked, NEW j \in Inos, inodes'[j].kind \in {"node", "file"}
                 PROVE  inodes'[j].hard_links >= Cardinality(NamesOf(j)')
        BY DEF LinksCoverNames, IsFile
    <2>1. CASE j = i
        <3>1. kept
            BY <2>1, <1>10
        <3>2. Cardinality(NamesOf(i)') <= Cardinality(NamesOf(i)) - 1 /\ Cardinality(NamesOf(i)') \in Nat
            BY <1>1, <1>12, CardLoss, CardSubset, NamesOfFinite
        <3>3. inodes[i].kind \in {"node", "file"} /\ inodes'[i].hard_links = inodes[i].hard_links - 1
            BY <3>1, <1>10
        <3>4. inodes[i].hard_links >= Cardinality(NamesOf(i)) /\ inodes[i].hard_links \in Nat
            BY <3>3, InodeType DEF LinksCoverNames, IsFile
        <3>5. Cardinality(NamesOf(i)) \in Nat
            BY NamesOfFinite
        <3>6. inodes'[i].hard_links >= Cardinality(NamesOf(i)')
            BY <3>2, <3>3, <3>4, <3>5
        <3>7. NamesOf(j)' = NamesOf(i)'
            BY <2>1 DEF NamesOf
        <3> QED BY <2>1, <3>6, <3>7
    <2>2. CASE j # i
        <3>1. inodes'[j] = inodes[j]
            BY <2>2, <1>7, <1>8
        <3>2. Cardinality(NamesOf(j)') <= Cardinality(NamesOf(j)) /\ Cardinality(NamesOf(j)') \in Nat
            BY <1>12, CardSubset, NamesOfFinite
        <3>3. inodes[j].hard_links >= Cardinality(NamesOf(j)) /\ inodes[j].hard_links \in Nat
            BY <3>1, InodeType DEF LinksCoverNames, IsFile
        <3>4. Cardinality(NamesOf(j)) \in Nat
            BY NamesOfFinite
        <3>5. inodes'[j].hard_links = inodes[j].hard_links
            BY <3>1
        <3> QED BY <3>2, <3>3, <3>4, <3>5
    <2> QED BY <2>1, <2>2
<1>17. ReplaceLinked \/ DirHasOneName'
    <2> SUFFICES ASSUME ~ReplaceLinked, NEW j \in Inos, inodes'[j].kind = "dir",
                        NEW e \in NamesOf(j)', NEW f \in NamesOf(j)'
                 PROVE  e = f
        BY DEF DirHasOneName, IsDir
    <2>1. IsDir(j)
        BY <1>7, <1>10 DEF IsDir
    <2> QED BY <2>1, <1>12 DEF DirHasOneName
<1>18. \A j \in Inos, x \in Names : inodes'[j].ents[x] # RootIno
    <2> SUFFICES ASSUME NEW j \in Inos, NEW x \in Names, inodes'[j].ents[x] # None
                 PROVE  inodes'[j].ents[x] # RootIno
        BY RootNotNone, Zenon
    <2>1. inodes'[j].ents[x] = inodes[j].ents[x]
        BY <1>11a
    <2> QED BY <2>1, Zenon
<1>19. LinksPositive'
    <2> SUFFICES ASSUME NEW j \in Inos, inodes'[j].kind \in {"node", "file"}
                 PROVE  inodes'[j].hard_links # 0
        BY DEF LinksPositive, IsFile
    <2>1. CASE j = i
        BY <2>1, <1>3, <1>10
    <2>2. CASE j # i
        BY <2>2, <1>7, <1>8 DEF LinksPositive, IsFile
    <2> QED BY <2>1, <2>2
<1> QED BY <1>6, <1>14, <1>15, <1>16, <1>17, <1>18, <1>19

\* A change of the entries that leaves link counts, and the kinds of inodes that
\* survive, alone, gives no inode a further name and keeps sizes above the
\* entries, preserves the tree.
LEMMA RearrangeTree ==
    ASSUME TreeInv,
           inodes' \in [Inos -> Inode],
           ReplaceLinked \/ NoDangling',
           SizeCoversEntries',
           \A j \in Inos : /\ inodes'[j].kind # "none" => inodes'[j].kind = inodes[j].kind
                           /\ inodes'[j].kind \in {"node", "file"} => inodes'[j].hard_links = inodes[j].hard_links,
           \A j \in Inos :
               \/ NamesOf(j)' \subseteq NamesOf(j)
               \/ \E e \in NamesOf(j) : \E f : NamesOf(j)' \subseteq (NamesOf(j) \ {e}) \cup {f}
    PROVE  TreeInv'
<1> USE DEF TreeInv, NamesAgree
<1>1. \A j \in Inos : Cardinality(NamesOf(j)') <= Cardinality(NamesOf(j))
    <2> TAKE j \in Inos
    <2>1. CASE NamesOf(j)' \subseteq NamesOf(j)
        BY <2>1, CardSubset, NamesOfFinite
    <2>2. CASE \E e \in NamesOf(j) : \E f : NamesOf(j)' \subseteq (NamesOf(j) \ {e}) \cup {f}
        BY <2>2, CardSwap, NamesOfFinite
    <2> QED BY <2>1, <2>2
<1>2. \A j \in Inos : Cardinality(NamesOf(j)') \in Nat
    <2> TAKE j \in Inos
    <2>1. CASE NamesOf(j)' \subseteq NamesOf(j)
        BY <2>1, CardSubset, NamesOfFinite
    <2>2. ASSUME NEW e \in NamesOf(j), NEW f, NamesOf(j)' \subseteq (NamesOf(j) \ {e}) \cup {f}
          PROVE  Cardinality(NamesOf(j)') \in Nat
        <3>1. IsFiniteSet((NamesOf(j) \ {e}) \cup {f})
            BY NamesOfFinite, FS_RemoveElement, FS_AddElement
        <3> QED BY <2>2, <3>1, CardSubset
    <2> QED BY <2>1, <2>2
<1>3. ReplaceLinked \/ LinksCoverNames'
    <2> SUFFICES ASSUME ~ReplaceLinked, NEW j \in Inos, inodes'[j].kind \in {"node", "file"}
                 PROVE  inodes'[j].hard_links >= Cardinality(NamesOf(j)')
        BY DEF LinksCoverNames, IsFile
    <2>1. inodes[j].hard_links >= Cardinality(NamesOf(j)) /\ inodes'[j].hard_links = inodes[j].hard_links
        BY DEF LinksCoverNames, IsFile
    <2>2. inodes[j].hard_links \in Nat /\ Cardinality(NamesOf(j)) \in Nat
        BY InodeType, NamesOfFinite
    <2> QED BY <1>1, <1>2, <2>1, <2>2
<1>4. ReplaceLinked \/ DirHasOneName'
    <2> SUFFICES ASSUME ~ReplaceLinked, NEW j \in Inos, inodes'[j].kind = "dir",
                        NEW e \in NamesOf(j)', NEW f \in NamesOf(j)'
                 PROVE  e = f
        BY DEF DirHasOneName, IsDir
    <2>1. \A x, y \in NamesOf(j) : x = y
        BY DEF DirHasOneName, IsDir
    <2> QED BY <2>1
<1>5. \A d \in Inos, n \in Names : inodes'[d].ents[n] # RootIno
    <2> SUFFICES ASSUME NEW d \in Inos, NEW n \in Names, inodes'[d].ents[n] = RootIno
                 PROVE  FALSE
        OBVIOUS
    <2>1. RootIno \in Inos /\ \A e \in Inos \X Names : e[1] \in Inos /\ e[2] \in Names
        BY ConstantsAssumption DEF RootIno, Inos
    <2>2. NamesOf(RootIno) = {}
        BY <2>1 DEF NamesOf
    <2>3. <<d, n>> \in NamesOf(RootIno)'
        BY DEF NamesOf
    <2> QED BY <2>1, <2>2, <2>3
<1>6. LinksPositive'
    BY InodeType DEF LinksPositive, IsFile
<1> QED BY <1>3, <1>4, <1>5, <1>6

\* What an exchange does to every bucket: g is what it leaves.
ExchangesTo(g, od, on, nd, nn, s, t) ==
    /\ g \in [Inos -> Inode]
    /\ \A j \in Inos : /\ g[j].kind = inodes[j].kind /\ g[j].size = inodes[j].size
                       /\ g[j].hard_links = inodes[j].hard_links /\ g[j].perm = inodes[j].perm
                       /\ g[j].dot = IF j = s /\ S_IFDIR(s) THEN nd ELSE inodes[j].dot
                       /\ g[j].dotdot = IF j = t /\ S_IFDIR(t) THEN od ELSE inodes[j].dotdot
    /\ \A j \in Inos, x \in Names :
        g[j].ents[x] = IF j = od /\ x = on THEN t
                       ELSE IF j = nd /\ x = nn THEN s ELSE inodes[j].ents[x]

\* The puts of the write transaction of an exchange, taken together.
LEMMA ExchangeEffect ==
    ASSUME inodes \in [Inos -> Inode], NEW od \in Inos, NEW nd \in Inos, NEW on \in Names, NEW nn \in Names,
           NEW s \in Inos, NEW t \in Inos
    PROVE  s = inodes[od].ents[on] /\ t = inodes[nd].ents[nn]
               => ExchangesTo(Exchanged(od, on, nd, nn), od, on, nd, nn, s, t)
<1> DEFINE f1 == PutEntry(inodes, nd, nn, s)
           f2 == PutEntry(f1, od, on, t)
           f3 == IF S_IFDIR(s) THEN PutDot(f2, s, nd) ELSE f2
           f4 == IF S_IFDIR(t) THEN PutDotDot(f3, t, od) ELSE f3
<1>5. s = inodes[od].ents[on] /\ t = inodes[nd].ents[nn] => Exchanged(od, on, nd, nn) = f4
    BY DEF Exchanged
<1>1. EntPut(f1, inodes, nd, nn, s)
    BY SetEnt
<1>2. EntPut(f2, f1, od, on, t)
    <2>1. f1 \in [Inos -> Inode]
        BY <1>1 DEF EntPut
    <2> HIDE DEF f1
    <2> QED BY <2>1, SetEnt
<1>3. f2 \in [Inos -> Inode]
    BY <1>2 DEF EntPut
<1>4. IF S_IFDIR(s) THEN DotPut(f3, f2, s, nd) ELSE f3 = f2
    <2> HIDE DEF f2
    <2> QED BY <1>3, SetDot
<1>6. f3 \in [Inos -> Inode]
    BY <1>3, <1>4 DEF DotPut
<1>7. IF S_IFDIR(t) THEN DotDotPut(f4, f3, t, od) ELSE f4 = f3
    <2> HIDE DEF f3
    <2> QED BY <1>6, SetDotDot
<1>8. f4 \in [Inos -> Inode]
    BY <1>6, <1>7 DEF DotDotPut
<1> HIDE DEF f1, f2, f3, f4
<1>9. \A j \in Inos : /\ f2[j].kind = inodes[j].kind /\ f2[j].size = inodes[j].size
                      /\ f2[j].hard_links = inodes[j].hard_links /\ f2[j].perm = inodes[j].perm
                      /\ f2[j].dot = inodes[j].dot /\ f2[j].dotdot = inodes[j].dotdot
    BY <1>1, <1>2 DEF EntPut, SameCounts, SameKeys
<1>10. \A j \in Inos, x \in Names :
        f2[j].ents[x] = IF j = od /\ x = on THEN t
                        ELSE IF j = nd /\ x = nn THEN s ELSE inodes[j].ents[x]
    BY <1>1, <1>2 DEF EntPut
<1>11. \A j \in Inos : /\ f3[j].kind = f2[j].kind /\ f3[j].size = f2[j].size
                       /\ f3[j].hard_links = f2[j].hard_links /\ f3[j].perm = f2[j].perm
                       /\ f3[j].ents = f2[j].ents /\ f3[j].dotdot = f2[j].dotdot
                       /\ f3[j].dot = IF j = s /\ S_IFDIR(s) THEN nd ELSE f2[j].dot
    BY <1>4 DEF DotPut
<1>12. \A j \in Inos : /\ f4[j].kind = f3[j].kind /\ f4[j].size = f3[j].size
                       /\ f4[j].hard_links = f3[j].hard_links /\ f4[j].perm = f3[j].perm
                       /\ f4[j].ents = f3[j].ents /\ f4[j].dot = f3[j].dot
                       /\ f4[j].dotdot = IF j = t /\ S_IFDIR(t) THEN od ELSE f3[j].dotdot
    BY <1>7 DEF DotDotPut
<1>13. \A j \in Inos : /\ f4[j].kind = inodes[j].kind /\ f4[j].size = inodes[j].size
                       /\ f4[j].hard_links = inodes[j].hard_links /\ f4[j].perm = inodes[j].perm
                       /\ f4[j].dot = IF j = s /\ S_IFDIR(s) THEN nd ELSE inodes[j].dot
                       /\ f4[j].dotdot = IF j = t /\ S_IFDIR(t) THEN od ELSE inodes[j].dotdot
    BY <1>9, <1>11, <1>12
<1>14. \A j \in Inos, x \in Names :
        f4[j].ents[x] = IF j = od /\ x = on THEN t
                        ELSE IF j = nd /\ x = nn THEN s ELSE inodes[j].ents[x]
    BY <1>10, <1>11, <1>12
<1> QED BY <1>5, <1>8, <1>13, <1>14 DEF ExchangesTo

\* The bucket changes of an exchange in dbfs_common_rename preserve the tree,
\* whatever they do to "." and "..", and the kind of every inode.
LEMMA ExchangeTree ==
    ASSUME TreeInv, NEW od \in Inos, NEW nd \in Inos, NEW on \in Names, NEW nn \in Names,
           NEW s \in Inos, NEW t \in Inos, s # t,
           s = inodes[od].ents[on], t = inodes[nd].ents[nn],
           inodes' = Exchanged(od, on, nd, nn)
    PROVE  TreeInv' /\ \A j \in Inos : inodes'[j].kind = inodes[j].kind
<1> USE DEF TreeInv, NamesAgree
<1>0. None \notin Inos /\ <<od, on>> # <<nd, nn>>
      /\ \A e \in Inos \X Names : e[1] \in Inos /\ e[2] \in Names
    BY ConstantsAssumption DEF None, Inos
<1>4. inodes' \in [Inos -> Inode]
    BY ExchangeEffect DEF ExchangesTo
<1>6. \A j \in Inos : /\ inodes'[j].kind = inodes[j].kind /\ inodes'[j].size = inodes[j].size
                      /\ inodes'[j].hard_links = inodes[j].hard_links
    BY ExchangeEffect DEF ExchangesTo
<1>7. \A j \in Inos, x \in Names :
        inodes'[j].ents[x] = IF j = od /\ x = on THEN t
                             ELSE IF j = nd /\ x = nn THEN s ELSE inodes[j].ents[x]
    BY ExchangeEffect DEF ExchangesTo
<1>8. ReplaceLinked \/ NoDangling'
    BY <1>6, <1>7, InodeType DEF NoDangling, Live
<1>9. SizeCoversEntries'
    <2>1. \A j \in Inos : Entries(j)' = Entries(j)
        BY <1>0, <1>7 DEF Entries
    <2> QED BY <2>1, <1>6 DEF SizeCoversEntries, IsDir
<1>10. /\ <<od, on>> \in NamesOf(s) /\ <<nd, nn>> \in NamesOf(t)
       /\ NamesOf(s)' \subseteq (NamesOf(s) \ {<<od, on>>}) \cup {<<nd, nn>>}
       /\ NamesOf(t)' \subseteq (NamesOf(t) \ {<<nd, nn>>}) \cup {<<od, on>>}
       /\ \A j \in Inos : j \notin {s, t} => NamesOf(j)' \subseteq NamesOf(j)
    BY <1>0, <1>7 DEF NamesOf
<1>11. \A j \in Inos :
               \/ NamesOf(j)' \subseteq NamesOf(j)
               \/ \E e \in NamesOf(j) : \E f : NamesOf(j)' \subseteq (NamesOf(j) \ {e}) \cup {f}
    BY <1>10
<1>12. TreeInv'
    BY <1>4, <1>6, <1>8, <1>9, <1>11, RearrangeTree
<1> QED BY <1>6, <1>12

\* What a move does to every bucket, t being the target it looked up: g is what
\* it leaves.
MovesTo(g, od, on, nd, nn, s, t) ==
    /\ g \in [Inos -> Inode]
    /\ \A j \in Inos :
        /\ g[j].kind = IF j = t THEN "none" ELSE inodes[j].kind
        /\ g[j].perm = IF j = t THEN {} ELSE inodes[j].perm
        /\ j # t =>
            /\ g[j].hard_links = inodes[j].hard_links
            /\ g[j].dot = inodes[j].dot
            /\ g[j].dotdot = IF j = s /\ S_IFDIR(s) THEN nd ELSE inodes[j].dotdot
            /\ g[j].size = IF j = nd
                           THEN IF od = nd THEN inodes[nd].size - (IF t # None THEN 1 ELSE 0)
                                ELSE inodes[nd].size - (IF t # None THEN 1 ELSE 0) + 1
                           ELSE IF j = od THEN inodes[od].size - 1 ELSE inodes[j].size
    /\ \A j \in Inos, x \in Names :
        g[j].ents[x] = IF j = nd /\ x = nn THEN s
                       ELSE IF (j = od /\ x = on) \/ j = t THEN None ELSE inodes[j].ents[x]

\* The puts of the write transaction of a move, taken together.
LEMMA MoveEffect ==
    ASSUME inodes \in [Inos -> Inode], NEW od \in Inos, NEW nd \in Inos,
           NEW on \in Names, NEW nn \in Names,
           NEW s \in Inos, s = inodes[od].ents[on],
           NEW t, t = RenameTarget(nd, nn), t # od, t # nd, t # s,
           inodes[od].size - 1 \in Nat, inodes[nd].size \in Nat,
           inodes[nd].size - (IF t # None THEN 1 ELSE 0) \in Nat
    PROVE  MovesTo(Moved(od, on, nd, nn), od, on, nd, nn, s, t)
<1> DEFINE size == inodes[nd].size - (IF t # None THEN 1 ELSE 0)
           f0 == [i \in Inos |-> IF i = t THEN Absent ELSE inodes[i]]
           f1 == PutEntry(f0, od, on, None)
           f2 == PutSize(f1, od, inodes[od].size - 1)
           f3 == PutEntry(f2, nd, nn, s)
           f4 == PutSize(f3, nd, IF od = nd THEN size ELSE size + 1)
           f5 == IF S_IFDIR(s) THEN PutDotDot(f4, s, nd) ELSE f4
<1>6. Moved(od, on, nd, nn) = f5
    BY DEF Moved
<1>7. f0 \in [Inos -> Inode] /\ \A j \in Inos : f0[j] = IF j = t THEN Absent ELSE inodes[j]
    BY ConstantsAssumption DEF Absent, Inode, NoEnts
<1>8. EntPut(f1, f0, od, on, None)
    <2> HIDE DEF f0
    <2> QED BY <1>7, SetEnt
<1>9. f1 \in [Inos -> Inode]
    BY <1>8 DEF EntPut
<1>10. SizePut(f2, f1, od, inodes[od].size - 1)
    <2> HIDE DEF f1
    <2> QED BY <1>9, SetSize
<1>11. f2 \in [Inos -> Inode]
    BY <1>10 DEF SizePut
<1>12. EntPut(f3, f2, nd, nn, s)
    <2> HIDE DEF f2
    <2> QED BY <1>11, SetEnt
<1>13. f3 \in [Inos -> Inode]
    BY <1>12 DEF EntPut
<1>14. SizePut(f4, f3, nd, IF od = nd THEN size ELSE size + 1)
    <2>1. (IF od = nd THEN size ELSE size + 1) \in Nat
        OBVIOUS
    <2> HIDE DEF f3, size
    <2> QED BY <1>13, <2>1, SetSize
<1>15. f4 \in [Inos -> Inode]
    BY <1>14 DEF SizePut
<1>16. IF S_IFDIR(s) THEN DotDotPut(f5, f4, s, nd) ELSE f5 = f4
    <2> HIDE DEF f4
    <2> QED BY <1>15, SetDotDot
<1>17. f5 \in [Inos -> Inode]
    BY <1>15, <1>16 DEF DotDotPut
<1> HIDE DEF f0, f1, f2, f3, f4, f5, size
<1>18. \A j \in Inos : /\ f4[j].kind = f0[j].kind /\ f4[j].hard_links = f0[j].hard_links
                       /\ f4[j].perm = f0[j].perm
                       /\ f4[j].dot = f0[j].dot /\ f4[j].dotdot = f0[j].dotdot
    BY <1>8, <1>10, <1>12, <1>14 DEF EntPut, SizePut, SameCounts, SameKeys
<1>19. \A j \in Inos : f4[j].size = IF j = nd THEN IF od = nd THEN size ELSE size + 1
                                    ELSE IF j = od THEN inodes[od].size - 1 ELSE f0[j].size
    BY <1>8, <1>10, <1>12, <1>14 DEF EntPut, SizePut, SameCounts
<1>20. \A j \in Inos, x \in Names :
        f4[j].ents[x] = IF j = nd /\ x = nn THEN s
                        ELSE IF j = od /\ x = on THEN None ELSE f0[j].ents[x]
    BY <1>8, <1>10, <1>12, <1>14 DEF EntPut, SizePut
<1>21. \A j \in Inos : /\ f5[j].kind = f4[j].kind /\ f5[j].hard_links = f4[j].hard_links
                       /\ f5[j].perm = f4[j].perm /\ f5[j].dot = f4[j].dot
                       /\ f5[j].size = f4[j].size /\ f5[j].ents = f4[j].ents
                       /\ f5[j].dotdot = IF j = s /\ S_IFDIR(s) THEN nd ELSE f4[j].dotdot
    BY <1>16 DEF DotDotPut
<1>22. \A j \in Inos : /\ j = t => /\ f0[j].kind = "none" /\ f0[j].perm = {}
                                   /\ \A x \in Names : f0[j].ents[x] = None
                       /\ j # t => f0[j] = inodes[j]
    BY <1>7 DEF Absent, NoEnts
<1>23. \A j \in Inos :
        /\ f5[j].kind = IF j = t THEN "none" ELSE inodes[j].kind
        /\ f5[j].perm = IF j = t THEN {} ELSE inodes[j].perm
        /\ j # t =>
            /\ f5[j].hard_links = inodes[j].hard_links
            /\ f5[j].dot = inodes[j].dot
            /\ f5[j].dotdot = IF j = s /\ S_IFDIR(s) THEN nd ELSE inodes[j].dotdot
            /\ f5[j].size = IF j = nd THEN IF od = nd THEN size ELSE size + 1
                            ELSE IF j = od THEN inodes[od].size - 1 ELSE inodes[j].size
    <2> TAKE j \in Inos
    <2>1. CASE j = t
        BY <2>1, <1>18, <1>21, <1>22
    <2>2. CASE j # t
        <3>1. f0[j] = inodes[j]
            BY <2>2, <1>22
        <3>2. /\ f5[j].kind = inodes[j].kind /\ f5[j].perm = inodes[j].perm
              /\ f5[j].hard_links = inodes[j].hard_links /\ f5[j].dot = inodes[j].dot
              /\ f5[j].dotdot = IF j = s /\ S_IFDIR(s) THEN nd ELSE inodes[j].dotdot
            BY <3>1, <1>18, <1>21
        <3>3. f5[j].size = IF j = nd THEN IF od = nd THEN size ELSE size + 1
                           ELSE IF j = od THEN inodes[od].size - 1 ELSE inodes[j].size
            BY <3>1, <1>19, <1>21
        <3> QED BY <2>2, <3>2, <3>3
    <2> QED BY <2>1, <2>2
<1>24. \A j \in Inos, x \in Names :
        f5[j].ents[x] = IF j = nd /\ x = nn THEN s
                        ELSE IF (j = od /\ x = on) \/ j = t THEN None ELSE inodes[j].ents[x]
    BY <1>20, <1>21, <1>22
<1> QED BY <1>6, <1>17, <1>23, <1>24 DEF MovesTo, size

\* A target that a move may delete: a directory that looks empty, or a socket or
\* block device, which has no other name unless clients replace linked ones.
Deletable(t) ==
    \/ IsDir(t) /\ inodes[t].size <= 2
    \/ inodes[t].kind = "node" /\ (ReplaceLinked \/ inodes[t].hard_links <= 1)

\* What a move finds and does.
MoveShape(od, on, nd, nn, s, t) ==
    /\ t # None => t \in Inos /\ t = inodes[nd].ents[nn] /\ t # s /\ t # RootIno
    /\ t # None /\ IsDir(t) => Entries(t) = {}
    /\ on \in Entries(od) /\ (t # None => nn \in Entries(nd))
    /\ t # od /\ t # nd
    /\ MovesTo(inodes', od, on, nd, nn, s, t)

\* A target that the code looked up and found small enough is an empty directory
\* other than the two parents, so the puts of the move do not meet.
LEMMA MoveFacts ==
    ASSUME TreeInv, NEW od \in Inos, NEW nd \in Inos, IsDir(od), IsDir(nd),
           NEW on \in Names, NEW nn \in Names,
           NEW s \in Inos, s = inodes[od].ents[on], s # inodes[nd].ents[nn],
           NEW t, t = RenameTarget(nd, nn),
           t # None => Deletable(t),
           inodes' = Moved(od, on, nd, nn)
    PROVE  MoveShape(od, on, nd, nn, s, t)
<1> USE DEF TreeInv
<1>0. None \notin Inos
    BY ConstantsAssumption DEF None, Inos
<1>1. t # None => t \in Inos /\ t = inodes[nd].ents[nn] /\ t # s /\ t # RootIno
    BY <1>0, InodeType DEF RenameTarget
<1>2. t # None /\ IsDir(t) => Entries(t) = {}
    <2> SUFFICES ASSUME t # None, IsDir(t) PROVE Entries(t) = {}
        OBVIOUS
    <2>0. inodes[t].size <= 2
        BY DEF Deletable, IsDir
    <2>1. inodes[t].size >= Cardinality(Entries(t)) + 2 /\ inodes[t].size \in Nat
        BY <1>1, InodeType DEF SizeCoversEntries
    <2>2. Cardinality(Entries(t)) = 0
        BY <2>0, <2>1, EntriesFinite
    <2> QED BY <2>2, EntriesFinite, FS_EmptySet
<1>3. on \in Entries(od) /\ (t # None => nn \in Entries(nd))
    BY <1>0, <1>1 DEF Entries
<1>4. t # od /\ t # nd
    BY <1>0, <1>1, <1>2, <1>3
<1>5. inodes[od].size - 1 \in Nat /\ inodes[nd].size \in Nat
      /\ inodes[nd].size - (IF t # None THEN 1 ELSE 0) \in Nat
    <2>1. Cardinality(Entries(od)) # 0 /\ (t # None => Cardinality(Entries(nd)) # 0)
        BY <1>3, EntriesFinite, FS_EmptySet
    <2>2. /\ inodes[od].size >= Cardinality(Entries(od)) + 1 /\ inodes[od].size \in Nat
          /\ inodes[nd].size >= Cardinality(Entries(nd)) + 1 /\ inodes[nd].size \in Nat
        BY InodeType, EntriesFinite DEF SizeCoversEntries
    <2>3. Cardinality(Entries(od)) \in Nat /\ Cardinality(Entries(nd)) \in Nat
        BY EntriesFinite
    <2> QED BY <2>1, <2>2, <2>3
<1>6. MovesTo(inodes', od, on, nd, nn, s, t)
    <2>1. t # s
        BY <1>0, <1>1
    <2> QED BY <1>4, <1>5, <2>1, MoveEffect
<1> QED BY <1>1, <1>2, <1>3, <1>4, <1>6 DEF MoveShape

\* The bucket changes of a move in dbfs_common_rename preserve the tree, even if
\* they overwrite an entry the code did not look up; a target that the code did
\* look up is deleted, and was empty.
LEMMA MoveTree ==
    ASSUME TreeInv, NEW od \in Inos, NEW nd \in Inos, IsDir(od), IsDir(nd),
           NEW on \in Names, NEW nn \in Names,
           NEW s \in Inos, s = inodes[od].ents[on], s # inodes[nd].ents[nn],
           NEW t, t = RenameTarget(nd, nn),
           t # None => Deletable(t),
           inodes' = Moved(od, on, nd, nn)
    PROVE  /\ TreeInv'
           /\ \A j \in Inos : inodes'[j].kind = IF j = t THEN "none" ELSE inodes[j].kind
           /\ t # None => t # RootIno
           /\ t # None /\ IsDir(t) => Entries(t) = {}
<1> USE DEF TreeInv, NamesAgree
<1>0. None \notin Inos /\ <<od, on>> # <<nd, nn>>
      /\ \A e \in Inos \X Names : e[1] \in Inos /\ e[2] \in Names
    BY ConstantsAssumption DEF None, Inos
<1>1. t # None => t \in Inos /\ t = inodes[nd].ents[nn] /\ t # s /\ t # RootIno
    BY MoveFacts DEF MoveShape
<1>2. t # None /\ IsDir(t) => Entries(t) = {}
    BY MoveFacts DEF MoveShape
<1>3. on \in Entries(od) /\ (t # None => nn \in Entries(nd))
    BY MoveFacts DEF MoveShape
<1> DEFINE size == inodes[nd].size - (IF t # None THEN 1 ELSE 0)
<1>12. MovesTo(inodes', od, on, nd, nn, s, t)
    BY MoveFacts DEF MoveShape
<1>13. \A j \in Inos :
        /\ inodes'[j].kind = IF j = t THEN "none" ELSE inodes[j].kind
        /\ j # t => inodes'[j].hard_links = inodes[j].hard_links
        /\ j # t => inodes'[j].size = IF j = nd THEN IF od = nd THEN size ELSE size + 1
                                      ELSE IF j = od THEN inodes[od].size - 1 ELSE inodes[j].size
    BY <1>12 DEF MovesTo
<1>14. \A j \in Inos, x \in Names :
        inodes'[j].ents[x] = IF j = nd /\ x = nn THEN s
                             ELSE IF (j = od /\ x = on) \/ j = t THEN None ELSE inodes[j].ents[x]
    BY <1>12 DEF MovesTo
<1>15. /\ <<od, on>> \in NamesOf(s)
       /\ NamesOf(s)' \subseteq (NamesOf(s) \ {<<od, on>>}) \cup {<<nd, nn>>}
       /\ \A j \in Inos \ {s} : NamesOf(j)' \subseteq NamesOf(j) \ {<<nd, nn>>}
    BY <1>0, <1>14 DEF NamesOf
<1>16. ReplaceLinked \/ NoDangling'
    <2> SUFFICES ASSUME ~ReplaceLinked, NEW j \in Inos, NEW x \in Names, inodes'[j].ents[x] # None
                 PROVE  inodes'[j].ents[x] \in Inos /\ inodes'[inodes'[j].ents[x]].kind # "none"
        BY DEF NoDangling, Live
    <2>1. inodes'[j].ents[x] \in Inos /\ inodes[inodes'[j].ents[x]].kind # "none"
        BY <1>0, <1>14, InodeType DEF NoDangling, Live
    <2>2. inodes'[j].ents[x] # t
        <3> SUFFICES ASSUME inodes'[j].ents[x] = t PROVE FALSE
            OBVIOUS
        <3>1. t \in Inos /\ t # None /\ t # s
            BY <2>1, <1>0, <1>1
        <3>2. <<nd, nn>> \in NamesOf(t)
            BY <1>1, <3>1 DEF NamesOf
        <3>3. <<j, x>> \in NamesOf(t) \ {<<nd, nn>>}
            <4>1. <<j, x>> \in NamesOf(t)'
                BY DEF NamesOf
            <4> QED BY <4>1, <3>1, <1>15
        <3>4. CASE IsDir(t)
            BY <3>1, <3>2, <3>3, <3>4 DEF DirHasOneName
        <3>5. CASE inodes[t].kind = "node" /\ inodes[t].hard_links <= 1
            <4>1. Cardinality(NamesOf(t)) <= 1
                BY <3>1, <3>5, InodeType, NamesOfFinite DEF LinksCoverNames, IsFile
            <4>2. Cardinality(NamesOf(t) \ {<<nd, nn>>}) = Cardinality(NamesOf(t)) - 1
                  /\ IsFiniteSet(NamesOf(t) \ {<<nd, nn>>})
                BY <3>2, NamesOfFinite, FS_RemoveElement
            <4>3. Cardinality(NamesOf(t) \ {<<nd, nn>>}) # 0
                BY <3>3, <4>2, FS_EmptySet
            <4>4. Cardinality(NamesOf(t)) \in Nat /\ Cardinality(NamesOf(t) \ {<<nd, nn>>}) \in Nat
                BY <4>2, NamesOfFinite, FS_CardinalityType
            <4> QED BY <4>1, <4>2, <4>3, <4>4
        <3> QED BY <3>1, <3>4, <3>5 DEF Deletable
    <2> QED BY <2>1, <2>2, <1>13
<1>17. SizeCoversEntries'
    <2> SUFFICES ASSUME NEW j \in Inos, inodes'[j].kind = "dir"
                 PROVE  inodes'[j].size >= Cardinality(Entries(j)') + (IF j = RootIno THEN 1 ELSE 2)
        BY DEF SizeCoversEntries, IsDir
    <2>1. j # t /\ IsDir(j)
        BY <1>13 DEF IsDir
    <2>2. /\ inodes[j].size >= Cardinality(Entries(j)) + (IF j = RootIno THEN 1 ELSE 2)
          /\ inodes[j].size \in Nat /\ Cardinality(Entries(j)) \in Nat
        BY <2>1, InodeType, EntriesFinite DEF SizeCoversEntries
    <2>3. Cardinality(Entries(j)') \in Nat
        BY <1>14, ConstantsAssumption, CardSubset DEF Entries
    <2>4. CASE j # nd /\ j # od
        <3>1. Entries(j)' = Entries(j)
            BY <2>1, <2>4, <1>14 DEF Entries
        <3>2. inodes'[j].size = inodes[j].size
            BY <2>1, <2>4, <1>13
        <3> QED BY <2>2, <3>1, <3>2
    <2>5. CASE j = od /\ od # nd
        <3>1. Entries(j)' \subseteq Entries(j) \ {on} /\ on \in Entries(j)
            BY <2>5, <1>3, <1>14 DEF Entries
        <3>2. Cardinality(Entries(j)') <= Cardinality(Entries(j)) - 1
            BY <3>1, CardLoss, EntriesFinite
        <3>3. inodes'[j].size = inodes[j].size - 1
            BY <2>1, <2>5, <1>13
        <3> QED BY <2>2, <2>3, <3>2, <3>3
    <2>6. CASE j = nd /\ od # nd /\ t = None
        <3>1. Entries(j)' \subseteq Entries(j) \cup {nn}
            BY <2>6, <1>14 DEF Entries
        <3>2. Cardinality(Entries(j)') <= Cardinality(Entries(j)) + 1
            BY <3>1, CardGain, EntriesFinite
        <3>3. inodes'[j].size = inodes[j].size + 1
            BY <2>1, <2>2, <2>6, <1>13
        <3> QED BY <2>2, <2>3, <3>2, <3>3
    <2>7. CASE j = nd /\ od # nd /\ t # None
        <3>1. Entries(j)' \subseteq Entries(j)
            BY <2>1, <2>7, <1>3, <1>14 DEF Entries
        <3>2. Cardinality(Entries(j)') <= Cardinality(Entries(j))
            BY <3>1, CardSubset, EntriesFinite
        <3>3. inodes'[j].size = inodes[j].size
            BY <2>1, <2>2, <2>7, <1>13
        <3> QED BY <2>2, <2>3, <3>2, <3>3
    <2>8. CASE j = nd /\ od = nd /\ t = None
        <3>1. Entries(j)' \subseteq (Entries(j) \ {on}) \cup {nn} /\ on \in Entries(j)
            BY <2>8, <1>3, <1>14 DEF Entries
        <3>2. Cardinality(Entries(j)') <= Cardinality(Entries(j))
            BY <3>1, CardSwap, EntriesFinite
        <3>3. inodes'[j].size = inodes[j].size
            BY <2>1, <2>2, <2>8, <1>13
        <3> QED BY <2>2, <2>3, <3>2, <3>3
    <2>9. CASE j = nd /\ od = nd /\ t # None
        <3>1. Entries(j)' \subseteq Entries(j) \ {on} /\ on \in Entries(j)
            BY <2>9, <1>0, <1>3, <1>14 DEF Entries
        <3>2. Cardinality(Entries(j)') <= Cardinality(Entries(j)) - 1
            BY <3>1, CardLoss, EntriesFinite
        <3>3. inodes'[j].size = inodes[j].size - 1
            BY <2>1, <2>2, <2>9, <1>13
        <3> QED BY <2>2, <2>3, <3>2, <3>3
    <2> QED BY <2>4, <2>5, <2>6, <2>7, <2>8, <2>9
<1>18. \A j \in Inos : /\ inodes'[j].kind # "none" => inodes'[j].kind = inodes[j].kind
                       /\ inodes'[j].kind \in {"node", "file"} => inodes'[j].hard_links = inodes[j].hard_links
    BY <1>13
<1>19. \A j \in Inos :
               \/ NamesOf(j)' \subseteq NamesOf(j)
               \/ \E e \in NamesOf(j) : \E f : NamesOf(j)' \subseteq (NamesOf(j) \ {e}) \cup {f}
    BY <1>15
<1>20. inodes' \in [Inos -> Inode]
    BY <1>12 DEF MovesTo
<1>21. TreeInv'
    BY <1>16, <1>17, <1>18, <1>19, <1>20, RearrangeTree
<1> QED BY <1>1, <1>2, <1>13, <1>21

\* The root directory that dbfs_common_root_inode makes fits the tree.
LEMMA MountTree ==
    ASSUME TreeInv, ~Live(RootIno), inodes' = [inodes EXCEPT ![RootIno] = RootInode]
    PROVE  TreeInv'
<1> USE DEF TreeInv, NamesAgree
<1>0. None \notin Inos /\ RootIno \in Inos
      /\ \A e \in Inos \X Names : e[1] \in Inos /\ e[2] \in Names
    BY ConstantsAssumption DEF None, Inos, RootIno
<1>1. RootInode \in Inode
    BY <1>0, ConstantsAssumption DEF RootInode, Inode, NoEnts, ModeBits
<1>2. /\ inodes' \in [Inos -> Inode] /\ inodes'[RootIno] = RootInode
      /\ \A j \in Inos \ {RootIno} : inodes'[j] = inodes[j]
    BY <1>0, <1>1
<1>3. /\ RootInode.kind = "dir" /\ RootInode.size = 1
      /\ \A x \in Names : RootInode.ents[x] = None
    BY DEF RootInode, NoEnts
<1> HIDE DEF RootInode
<1>4. \A j \in Inos, x \in Names :
        inodes'[j].ents[x] = IF j = RootIno THEN None ELSE inodes[j].ents[x]
    BY <1>2, <1>3
<1>5. \A i \in Inos : NamesOf(i)' \subseteq NamesOf(i)
    BY <1>0, <1>4 DEF NamesOf
<1>6. \A d \in Inos, n \in Names : inodes'[d].ents[n] # RootIno
    BY <1>0, <1>4
<1>7. ReplaceLinked \/ NoDangling'
    BY <1>0, <1>2, <1>4, InodeType DEF NoDangling, Live
<1>8. SizeCoversEntries'
    <2> SUFFICES ASSUME NEW j \in Inos, inodes'[j].kind = "dir"
                 PROVE  inodes'[j].size >= Cardinality(Entries(j)') + (IF j = RootIno THEN 1 ELSE 2)
        BY DEF SizeCoversEntries, IsDir
    <2>1. CASE j = RootIno
        <3>1. Entries(j)' = {}
            BY <2>1, <1>4 DEF Entries
        <3>2. inodes'[j].size = 1
            BY <2>1, <1>2, <1>3
        <3> QED BY <2>1, <3>1, <3>2, FS_EmptySet
    <2>2. CASE j # RootIno
        <3>1. Entries(j)' = Entries(j)
            BY <2>2, <1>4 DEF Entries
        <3>2. inodes'[j] = inodes[j]
            BY <2>2, <1>2
        <3> QED BY <2>2, <3>1, <3>2 DEF SizeCoversEntries, IsDir
    <2> QED BY <2>1, <2>2
<1>9. ReplaceLinked \/ LinksCoverNames'
    <2> SUFFICES ASSUME ~ReplaceLinked, NEW i \in Inos, inodes'[i].kind \in {"node", "file"}
                 PROVE  inodes'[i].hard_links >= Cardinality(NamesOf(i)')
        BY DEF LinksCoverNames, IsFile
    <2>1. inodes'[i] = inodes[i]
        BY <1>2, <1>3
    <2>2. Cardinality(NamesOf(i)') <= Cardinality(NamesOf(i)) /\ Cardinality(NamesOf(i)') \in Nat
        BY <1>5, CardSubset, NamesOfFinite
    <2> QED BY <2>1, <2>2, NamesOfFinite, InodeType DEF LinksCoverNames, IsFile
<1>10. ReplaceLinked \/ DirHasOneName'
    <2> SUFFICES ASSUME ~ReplaceLinked, NEW i \in Inos, inodes'[i].kind = "dir",
                        NEW e \in NamesOf(i)', NEW f \in NamesOf(i)'
                 PROVE  e = f
        BY DEF DirHasOneName, IsDir
    <2>1. CASE i = RootIno
        <3>1. NamesOf(RootIno) = {}
            BY <1>0 DEF NamesOf
        <3> QED BY <2>1, <3>1, <1>5
    <2>2. CASE i # RootIno
        BY <2>2, <1>2, <1>5 DEF DirHasOneName, IsDir
    <2> QED BY <2>1, <2>2
<1>11. LinksPositive'
    BY <1>2, <1>3 DEF LinksPositive, IsFile
<1> QED BY <1>2, <1>6, <1>7, <1>8, <1>9, <1>10, <1>11

-----------------------------------------------------------------------------
(* The steps of the specification *)

\* The inductive invariant, with the part about the buckets taken together.
LEMMA InvIsTree == IInv <=> TypeOK /\ TreeInv /\ RootInv
BY DEF IInv, TypeOK, TreeInv, RootInv

\* The invariant holds of the empty data base.
LEMMA InitInv == Init => IInv
<1> SUFFICES ASSUME Init PROVE IInv
    OBVIOUS
<1>0. None \notin Inos /\ RootIno \in Inos
      /\ \A e \in Inos \X Names : e[1] \in Inos /\ e[2] \in Names
    BY ConstantsAssumption DEF None, Inos, RootIno
<1>1. Absent \in Inode /\ Absent.kind = "none" /\ \A n \in Names : Absent.ents[n] = None
    BY ConstantsAssumption DEF Absent, Inode, NoEnts
<1> HIDE DEF Absent
<1>2. inodes \in [Inos -> Inode] /\ \A i \in Inos : inodes[i] = Absent
    BY <1>1 DEF Init
<1>3. TypeOK
    <2>1. 1 \in 1..(MaxIno + 1) /\ 0 \in 0..(MaxIno + 1)
        BY ConstantsAssumption
    <2> QED BY <1>2, <2>1 DEF Init, TypeOK, None
<1>4. RootInv
    BY <1>0, <1>1, <1>2 DEF Init, RootInv, IsDir, Live
<1>5. NamesAgree /\ SizeCoversEntries /\ LinksPositive
    BY <1>1, <1>2 DEF NamesAgree, NoDangling, SizeCoversEntries, LinksCoverNames, LinksPositive,
                      IsFile, DirHasOneName, IsDir
<1> QED BY <1>3, <1>4, <1>5 DEF IInv

Replies == {"none", "ok", "AccessError", "FileExists", "NotFound", "NotEmpty", "panic"}

\* An operation that commits while mounted preserves the invariant if it does
\* so for the tree and leaves the root directory in place.
LEMMA CommitInv ==
    ASSUME IInv, mounted, TreeInv', inodes'[RootIno].kind = "dir",
           UNCHANGED <<continue_number, mounted>>, counter' \in 1..(MaxIno + 1), reply' = "ok"
    PROVE  IInv'
<1>1. RootInv'
    BY DEF RootInv, IsDir, Live, TreeInv
<1>2. TypeOK'
    BY DEF IInv, TypeOK, TreeInv
<1> QED BY <1>1, <1>2 DEF IInv, TreeInv

\* A step that touches no bucket and, if it changes the recorded number, does so
\* while mounted, preserves the invariant.
LEMMA NoBucketInv ==
    ASSUME IInv, UNCHANGED inodes, counter' \in 1..(MaxIno + 1), reply' \in Replies,
           mounted' \in BOOLEAN, mounted' => mounted \/ Live(RootIno),
           \/ UNCHANGED continue_number
           \/ mounted /\ continue_number' \in 1..(MaxIno + 1)
           \/ continue_number' = 1
    PROVE  IInv'
<1>1. RootInv'
    BY DEF IInv, RootInv, IsDir, Live
<1>2. TypeOK'
    BY ConstantsAssumption DEF IInv, TypeOK, Replies
<1>3. SizeCoversEntries' /\ LinksPositive' /\ (ReplaceLinked \/ NamesAgree')
    BY DEF IInv, NamesAgree, NoDangling, SizeCoversEntries, LinksCoverNames, LinksPositive, IsFile, DirHasOneName,
           Live, IsDir, Entries, NamesOf
<1> QED BY <1>1, <1>2, <1>3 DEF IInv

\* An operation that returns an error preserves the invariant.
LEMMA FailsInv ==
    ASSUME IInv, NEW error \in Replies, Fails(error), counter' \in 1..(MaxIno + 1)
    PROVE  IInv'
<1>1. mounted \in BOOLEAN
    BY DEF IInv, TypeOK
<1> QED BY <1>1, NoBucketInv DEF Fails

\* A mount preserves the invariant.
LEMMA MountInv == ASSUME IInv, Mount PROVE IInv'
<1>1. CASE Live(RootIno)
    <2>1. counter' \in 1..(MaxIno + 1)
        BY <1>1, ConstantsAssumption DEF Mount, IInv, TypeOK, None
    <2> QED BY <1>1, <2>1, NoBucketInv DEF Mount, Replies
<1>2. CASE ~Live(RootIno)
    <2>1. counter' = 2 /\ inodes' = [inodes EXCEPT ![RootIno] = RootInode]
        BY <1>2 DEF Mount, IInv, RootInv
    <2>2. TreeInv'
        BY <1>2, <2>1, MountTree, InvIsTree
    <2>3. inodes'[RootIno].kind = "dir"
        BY <2>1, ConstantsAssumption DEF RootInode, RootIno, Inos, IInv, TypeOK
    <2>4. TypeOK'
        <3>1. 2 \in 1..(MaxIno + 1)
            BY ConstantsAssumption
        <3> QED BY <2>1, <2>2, <3>1 DEF Mount, IInv, TypeOK, TreeInv
    <2>5. RootInv'
        BY <2>2, <2>3 DEF RootInv, IsDir, Live, TreeInv
    <2> QED BY <2>2, <2>4, <2>5 DEF IInv, TreeInv
<1> QED BY <1>1, <1>2

\* Requests name directories that exist, and come while mounted.
LEMMA VfsDirsType == ASSUME NEW d \in VfsDirs PROVE d \in Inos /\ mounted /\ IsDir(d)
BY DEF VfsDirs

\* dbfs_common_create preserves the invariant.
LEMMA CreateInv ==
    ASSUME IInv, NEW d \in VfsDirs, NEW n \in Names, NEW u \in Users,
           NEW kind \in {"dir", "node", "file"}, NEW m \in Modes, dbfs_common_create(u, d, n, kind, m)
    PROVE  IInv'
<1>1. counter' \in 1..(MaxIno + 1) /\ counter \in Inos
    BY ConstantsAssumption DEF dbfs_common_create, Inos
<1>2. CASE Fails("AccessError") \/ Fails("FileExists")
    BY <1>1, <1>2, FailsInv DEF Replies
<1>3. CASE /\ ~Live(counter)
           /\ Commits([inodes EXCEPT ![d].size = @ + 1, ![d].ents[n] = counter,
                                     ![counter] = NewInode(kind, counter, d, u, m)])
    <2>1. inodes[d].ents[n] = None /\ m \in SUBSET ModeBits
        BY ConstantsAssumption DEF dbfs_common_create, VfsAdds
    <2>2. counter # RootIno /\ IsDir(RootIno) /\ d # counter /\ RootIno \in Inos
        BY <1>3, VfsDirsType, ConstantsAssumption DEF IInv, RootInv, IsDir, Live, Inos, RootIno
    <2>3. TreeInv'
        BY <1>1, <1>3, <2>1, <2>2, VfsDirsType, CreateTree, InvIsTree DEF Commits
    <2>4. inodes'[RootIno].kind = "dir"
        BY <1>1, <1>3, <2>2, VfsDirsType, InodeType DEF Commits, IsDir, Inode, IInv, TypeOK
    <2> QED BY <1>1, <1>3, <2>3, <2>4, VfsDirsType, CommitInv DEF Commits
<1> QED BY <1>2, <1>3 DEF dbfs_common_create

\* dbfs_common_link preserves the invariant.
LEMMA LinkInv ==
    ASSUME IInv, NEW d \in VfsDirs, NEW n \in Names, NEW u \in Users, NEW i \in Inos,
           dbfs_common_link(u, i, d, n)
    PROVE  IInv'
<1>1. counter' \in 1..(MaxIno + 1)
    BY DEF dbfs_common_link, IInv, TypeOK
<1>2. CASE Fails("AccessError")
    BY <1>1, <1>2, FailsInv DEF Replies
<1>3. CASE Commits([inodes EXCEPT ![d].size = @ + 1, ![d].ents[n] = i, ![i].hard_links = @ + 1])
    <2>1. inodes[d].ents[n] = None /\ inodes[i].kind \in {"node", "file"}
        BY DEF dbfs_common_link, VfsAdds, IsFile
    <2>2. i # RootIno /\ IsDir(RootIno) /\ d # i /\ RootIno \in Inos
        BY <2>1, VfsDirsType, ConstantsAssumption DEF IInv, RootInv, IsDir, Inos, RootIno
    <2>3. TreeInv'
        BY <1>3, <2>1, <2>2, VfsDirsType, LinkTree, InvIsTree DEF Commits
    <2>4. inodes'[RootIno].kind = "dir"
        BY <1>3, <2>2, VfsDirsType, InodeType DEF Commits, IsDir, Inode, IInv, TypeOK
    <2> QED BY <1>1, <1>3, <2>3, <2>4, VfsDirsType, CommitInv DEF Commits
<1> QED BY <1>2, <1>3 DEF dbfs_common_link

\* dbfs_common_unlink preserves the invariant.
LEMMA UnlinkInv ==
    ASSUME IInv, NEW d \in VfsDirs, NEW n \in Names, NEW u \in Users, dbfs_common_unlink(u, d, n)
    PROVE  IInv'
<1> DEFINE i == inodes[d].ents[n]
           kept == inodes[i].hard_links # 1
<1>1. counter' \in 1..(MaxIno + 1)
    BY DEF dbfs_common_unlink, IInv, TypeOK
<1>2. CASE Fails("AccessError")
    BY <1>1, <1>2, FailsInv DEF Replies
<1>3. CASE Commits([inodes EXCEPT ![d].size = @ - 1, ![d].ents[n] = None,
                                  ![i] = IF kept THEN [inodes[i] EXCEPT !.hard_links = @ - 1] ELSE Absent])
    <2>0. d \in Inos /\ mounted /\ IsDir(d)
        BY VfsDirsType
    <2>1. /\ i \in Inos /\ inodes[i].kind \in {"node", "file"} /\ i # d /\ i # RootIno
          /\ IsDir(RootIno) /\ RootIno \in Inos
        BY <2>0, InodeType, ConstantsAssumption
           DEF dbfs_common_unlink, VfsRemoves, IInv, TypeOK, RootInv, IsDir, RootIno, Inos
    <2>2. inodes' = [inodes EXCEPT ![d].size = @ - 1, ![d].ents[n] = None,
                                   ![i] = IF kept THEN [inodes[i] EXCEPT !.hard_links = @ - 1] ELSE Absent]
        BY <1>3 DEF Commits
    <2>3. TreeInv'
        <3>1. TreeInv /\ kept \in BOOLEAN /\ (kept <=> inodes[i].kind \in {"node", "file"} /\ inodes[i].hard_links # 1)
            BY <2>1, InvIsTree
        <3> HIDE DEF kept
        <3> QED BY <2>0, <2>1, <2>2, <3>1, RemoveTree
    <2>4. inodes'[RootIno].kind = "dir"
        BY <2>0, <2>1, <2>2, InodeType DEF IsDir, Inode, IInv, TypeOK
    <2> QED BY <1>1, <1>3, <2>0, <2>3, <2>4, CommitInv DEF Commits
<1> QED BY <1>2, <1>3 DEF dbfs_common_unlink

\* dbfs_common_rmdir preserves the invariant: a directory whose size is at most
\* two has no entries, so its bucket holds the name of no inode.
LEMMA RmdirInv ==
    ASSUME IInv, NEW d \in VfsDirs, NEW n \in Names, NEW u \in Users, dbfs_common_rmdir(u, d, n)
    PROVE  IInv'
<1> DEFINE i == inodes[d].ents[n]
<1>1. counter' \in 1..(MaxIno + 1)
    BY DEF dbfs_common_rmdir, IInv, TypeOK
<1>2. CASE Fails("AccessError") \/ Fails("NotEmpty")
    BY <1>1, <1>2, FailsInv DEF Replies
<1>3. CASE /\ inodes[i].size <= 2
           /\ Commits([inodes EXCEPT ![d].size = @ - 1, ![d].ents[n] = None, ![i] = Absent])
    <2>0. d \in Inos /\ mounted /\ IsDir(d)
        BY VfsDirsType
    <2>1. /\ i \in Inos /\ inodes[i].kind = "dir" /\ i # RootIno
          /\ IsDir(RootIno) /\ RootIno \in Inos
        BY <2>0, InodeType, ConstantsAssumption
           DEF dbfs_common_rmdir, VfsRemoves, IInv, TypeOK, RootInv, IsDir, RootIno, Inos
    <2>2. i # d
        <3> SUFFICES ASSUME i = d PROVE FALSE
            OBVIOUS
        <3>1. n \in Entries(d)
            BY <2>1, ConstantsAssumption DEF Entries, None, Inos
        <3>2. inodes[d].size >= Cardinality(Entries(d)) + 2 /\ inodes[d].size \in Nat
            BY <2>0, <2>1, InodeType DEF IInv, TypeOK, SizeCoversEntries
        <3>3. Cardinality(Entries(d)) # 0 /\ Cardinality(Entries(d)) \in Nat
            BY <3>1, EntriesFinite, FS_EmptySet
        <3> QED BY <1>3, <3>2, <3>3
    <2>3. inodes' = [inodes EXCEPT ![d].size = @ - 1, ![d].ents[n] = None,
                                   ![i] = IF FALSE THEN [inodes[i] EXCEPT !.hard_links = @ - 1] ELSE Absent]
        BY <1>3 DEF Commits
    <2>4. TreeInv'
        BY <2>0, <2>1, <2>2, <2>3, RemoveTree, InvIsTree
    <2>5. inodes'[RootIno].kind = "dir"
        BY <1>3, <2>0, <2>1, InodeType DEF Commits, IsDir, Inode, IInv, TypeOK
    <2> QED BY <1>1, <1>3, <2>0, <2>4, <2>5, CommitInv DEF Commits
<1> QED BY <1>2, <1>3 DEF dbfs_common_rmdir

\* dbfs_common_rename with RENAME_EXCHANGE preserves the invariant.
LEMMA ExchangeInv ==
    ASSUME IInv, NEW od \in VfsDirs, NEW nd \in VfsDirs, NEW on \in Names, NEW nn \in Names,
           NEW u \in Users, RenameExchange(u, od, on, nd, nn)
    PROVE  IInv'
<1>1. counter' \in 1..(MaxIno + 1)
    BY DEF RenameExchange, IInv, TypeOK
<1>2. CASE Fails("AccessError") \/ Fails("NotFound")
    BY <1>1, <1>2, FailsInv DEF Replies
<1>3. CASE Commits(Exchanged(od, on, nd, nn))
    <2> DEFINE s == inodes[od].ents[on]
               t == inodes[nd].ents[nn]
    <2>0. od \in Inos /\ nd \in Inos /\ mounted
        BY VfsDirsType
    <2>1. s \in Inos /\ t \in Inos /\ s # t /\ RootIno \in Inos /\ IsDir(RootIno)
        BY <2>0, InodeType, ConstantsAssumption
           DEF RenameExchange, VfsRename, IInv, TypeOK, RootInv, RootIno, Inos
    <2>2. TreeInv' /\ \A j \in Inos : inodes'[j].kind = inodes[j].kind
        BY <1>3, <2>0, <2>1, ExchangeTree, InvIsTree DEF Commits
    <2>3. inodes'[RootIno].kind = "dir"
        BY <2>1, <2>2 DEF IsDir
    <2> QED BY <1>1, <1>3, <2>0, <2>2, <2>3, CommitInv DEF Commits
<1> QED BY <1>2, <1>3 DEF RenameExchange

\* A target that passes the tests of dbfs_common_rename may be deleted.
LEMMA TargetDeletable ==
    ASSUME inodes \in [Inos -> Inode], NEW od, NEW on, NEW nd, NEW nn, NEW u,
           RenameMove(u, od, on, nd, nn),
           RenameTarget(nd, nn) \in Inos, ~RenamePanics(od, on, nd, nn), RenameTarget(nd, nn) # None,
           ~(S_IFDIR(RenameTarget(nd, nn)) /\ inodes[RenameTarget(nd, nn)].size > 2)
    PROVE  Deletable(RenameTarget(nd, nn))
<1> DEFINE t == RenameTarget(nd, nn)
<1>1. t \in Inos /\ t = inodes[nd].ents[nn]
    BY DEF RenameTarget
<1>2. inodes[t].kind = "node" /\ inodes[t].hard_links > 1 => ReplaceLinked
    BY <1>1 DEF RenameMove, VfsRename
<1>3. inodes[t].kind \in {"dir", "node"} /\ inodes[t].size <= 2
    BY <1>1, InodeType DEF RenamePanics, S_IFDIR
<1>4. inodes[t].hard_links \in Nat
    BY <1>1, InodeType
<1> QED BY <1>2, <1>3, <1>4 DEF Deletable, IsDir

\* dbfs_common_rename without flags preserves the invariant, the panic included.
LEMMA MoveInv ==
    ASSUME IInv, NEW od \in VfsDirs, NEW nd \in VfsDirs, NEW on \in Names, NEW nn \in Names,
           NEW u \in Users, RenameMove(u, od, on, nd, nn)
    PROVE  IInv'
<1> DEFINE s == inodes[od].ents[on]
           t == RenameTarget(nd, nn)
<1>1. counter \in 1..(MaxIno + 1) /\ 1 \in 1..(MaxIno + 1)
    BY ConstantsAssumption DEF IInv, TypeOK
<1>2. CASE (Fails("AccessError") \/ Fails("NotEmpty")) /\ UNCHANGED counter
    BY <1>1, <1>2, FailsInv DEF Replies
<1>3. CASE /\ ~(t # None /\ S_IFDIR(t) /\ inodes[t].size > 2)
           /\ ~RenamePanics(od, on, nd, nn)
           /\ Commits(Moved(od, on, nd, nn)) /\ UNCHANGED counter
    <2>0. od \in Inos /\ nd \in Inos /\ IsDir(od) /\ IsDir(nd) /\ mounted
        BY VfsDirsType
    <2>1. /\ s \in Inos /\ s # inodes[nd].ents[nn] /\ t \in Inos \cup {None}
          /\ RootIno \in Inos /\ IsDir(RootIno)
        BY <2>0, InodeType, ConstantsAssumption
           DEF RenameMove, RenameTarget, VfsRename, IInv, TypeOK, RootInv, RootIno, Inos
    <2>2. t # None => Deletable(t)
        BY <1>3, <2>1, TargetDeletable DEF IInv, TypeOK
    <2>3. /\ TreeInv' /\ (t # None => t # RootIno)
          /\ \A j \in Inos : inodes'[j].kind = IF j = t THEN "none" ELSE inodes[j].kind
        BY <1>3, <2>0, <2>1, <2>2, MoveTree, InvIsTree DEF Commits
    <2>4. inodes'[RootIno].kind = "dir"
        BY <2>1, <2>3, ConstantsAssumption DEF IsDir, RootIno, None
    <2> QED BY <1>1, <1>3, <2>0, <2>3, <2>4, CommitInv DEF Commits
<1>4. CASE reply' = "panic" /\ Stops /\ UNCHANGED <<inodes, continue_number>>
    BY <1>1, <1>4, NoBucketInv DEF Stops, Replies
<1> QED BY <1>2, <1>3, <1>4 DEF RenameMove

\* Every step preserves the inductive invariant.
LEMMA NextInv == IInv /\ [Next]_vars => IInv'
<1> SUFFICES ASSUME IInv, [Next]_vars PROVE IInv'
    OBVIOUS
<1>0. /\ counter \in 1..(MaxIno + 1) /\ 1 \in 1..(MaxIno + 1) /\ reply \in Replies
      /\ mounted \in BOOLEAN
    BY ConstantsAssumption DEF IInv, TypeOK, Replies
<1>1. CASE init_db
    BY <1>0, <1>1, NoBucketInv DEF init_db
<1>2. CASE Mount
    BY <1>2, MountInv
<1>3. CASE Unmount
    BY <1>0, <1>3, NoBucketInv DEF Unmount, Stops
<1>5. CASE Crash
    BY <1>0, <1>5, NoBucketInv DEF Crash, Stops
<1>6. CASE \E d \in VfsDirs, n \in Names, u \in Users :
            \/ \E kind \in {"dir", "node", "file"}, m \in Modes : dbfs_common_create(u, d, n, kind, m)
            \/ \E i \in Inos : dbfs_common_link(u, i, d, n)
            \/ dbfs_common_unlink(u, d, n)
            \/ dbfs_common_rmdir(u, d, n)
    BY <1>6, CreateInv, LinkInv, UnlinkInv, RmdirInv
<1>7. CASE \E od, nd \in VfsDirs, on, nn \in Names, u \in Users :
            RenameMove(u, od, on, nd, nn) \/ RenameExchange(u, od, on, nd, nn)
    BY <1>7, MoveInv, ExchangeInv
<1>8. CASE UNCHANGED vars
    BY <1>0, <1>8, NoBucketInv DEF vars
<1> QED BY <1>1, <1>2, <1>3, <1>5, <1>6, <1>7, <1>8 DEF Next

-----------------------------------------------------------------------------
(* The theorems *)

\* The inductive invariant holds of every reachable state.
THEOREM Invariance == Spec => []IInv
BY InitInv, NextInv, PTL DEF Spec

\* Type correctness; in particular dbfs_common_unlink, dbfs_common_rmdir and
\* dbfs_common_rename never take a size or a link count below zero.
THEOREM TypeCorrect == Spec => []TypeOK
<1>1. IInv => TypeOK
    BY DEF IInv
<1> QED BY <1>1, Invariance, PTL

\* The size that dbfs_common_rmdir and dbfs_common_rename read is never too small.
THEOREM SizesCover == Spec => []SizeCoversEntries
<1>1. IInv => SizeCoversEntries
    BY DEF IInv
<1> QED BY <1>1, Invariance, PTL

\* No operation leaves an entry whose inode bucket is gone, which readdir, rmdir and
\* rename would unwrap, if no rename replaces a socket or block device that has
\* another name.
THEOREM NoDanglingEntries == ASSUME ~ReplaceLinked PROVE Spec => []NoDangling
<1>1. IInv => NoDangling
    BY DEF IInv, NamesAgree
<1> QED BY <1>1, Invariance, PTL

\* The link count that dbfs_common_unlink reads is never too small, under the same
\* assumption on clients.
THEOREM LinksCover == ASSUME ~ReplaceLinked PROVE Spec => []LinksCoverNames
<1>1. IInv => LinksCoverNames
    BY DEF IInv, NamesAgree
<1> QED BY <1>1, Invariance, PTL

\* No directory has two names, under the same assumption: the number of a deleted
\* socket that is still named could be drawn by a mkdir after a remount.
THEOREM OneNamePerDirectory == ASSUME ~ReplaceLinked PROVE Spec => []DirHasOneName
<1>1. IInv => DirHasOneName
    BY DEF IInv, NamesAgree
<1> QED BY <1>1, Invariance, PTL

\* A directory below the root that is found empty by its size is empty.
LEMMA SmallIsEmpty ==
    ASSUME IInv, NEW i \in Inos, IsDir(i), i # RootIno, inodes[i].size <= 2
    PROVE  Entries(i) = {}
<1>1. inodes[i].size >= Cardinality(Entries(i)) + 2 /\ inodes[i].size \in Nat
    BY InodeType DEF IInv, TypeOK, SizeCoversEntries
<1>2. Cardinality(Entries(i)) = 0
    BY <1>1, EntriesFinite
<1> QED BY <1>2, EntriesFinite, FS_EmptySet

\* dbfs_common_rmdir, and dbfs_common_rename onto a directory, judge emptiness by
\* the recorded size alone and still never delete a directory that has entries.
THEOREM NonEmptyDirectoriesStay == Spec => NonEmptyDirKept
<1> DEFINE Stays == \A d \in Inos : IsDir(d) /\ Entries(d) # {} => IsDir(d)'
<1>1. ASSUME IInv, [Next]_vars PROVE Stays
    <2> SUFFICES ASSUME NEW j \in Inos, inodes[j].kind = "dir", Entries(j) # {}
                 PROVE  inodes'[j].kind = "dir"
        BY DEF IsDir
    <2>0. inodes \in [Inos -> Inode] /\ RootIno \in Inos /\ None \notin Inos
        BY <1>1, ConstantsAssumption DEF IInv, TypeOK, RootIno, Inos, None
    <2>1. CASE UNCHANGED inodes
        BY <2>1
    <2>2. CASE Mount
        BY <2>0, <2>2 DEF Mount, Live, RootInode
    <2>3. ASSUME NEW d \in VfsDirs, NEW n \in Names, NEW u \in Users,
                 NEW kind \in {"dir", "node", "file"}, NEW m \in Modes,
                 dbfs_common_create(u, d, n, kind, m)
          PROVE  inodes'[j].kind = "dir"
        BY <2>0, <2>3, VfsDirsType, InodeType
           DEF dbfs_common_create, Fails, Commits, Live, Inode
    <2>4. ASSUME NEW d \in VfsDirs, NEW n \in Names, NEW u \in Users, NEW i \in Inos,
                 dbfs_common_link(u, i, d, n)
          PROVE  inodes'[j].kind = "dir"
        BY <2>0, <2>4, VfsDirsType, InodeType DEF dbfs_common_link, Fails, Commits, Inode
    <2>5. ASSUME NEW d \in VfsDirs, NEW n \in Names, NEW u \in Users,
                 dbfs_common_unlink(u, d, n)
          PROVE  inodes'[j].kind = "dir"
        BY <2>0, <2>5, VfsDirsType, InodeType
           DEF dbfs_common_unlink, VfsRemoves, Fails, Commits, Inode
    <2>6. ASSUME NEW d \in VfsDirs, NEW n \in Names, NEW u \in Users,
                 dbfs_common_rmdir(u, d, n)
          PROVE  inodes'[j].kind = "dir"
        <3>1. CASE UNCHANGED inodes
            BY <3>1
        <3> DEFINE i == inodes[d].ents[n]
        <3>2. CASE /\ inodes[i].size <= 2
                   /\ inodes' = [inodes EXCEPT ![d].size = @ - 1, ![d].ents[n] = None, ![i] = Absent]
            <4>1. d \in Inos /\ i \in Inos /\ IsDir(i) /\ i # RootIno
                BY <1>1, <2>0, <2>6, VfsDirsType, InodeType
                   DEF dbfs_common_rmdir, VfsRemoves, IInv, RootInv, IsDir
            <4>2. i # j
                BY <1>1, <3>2, <4>1, SmallIsEmpty
            <4> QED BY <2>0, <3>2, <4>1, <4>2, InodeType DEF Inode
        <3> QED BY <2>6, <3>1, <3>2 DEF dbfs_common_rmdir, Fails, Commits
    <2>7. ASSUME NEW od \in VfsDirs, NEW nd \in VfsDirs, NEW on \in Names, NEW nn \in Names,
                 NEW u \in Users, RenameMove(u, od, on, nd, nn)
          PROVE  inodes'[j].kind = "dir"
        <3>1. CASE UNCHANGED inodes
            BY <3>1
        <3> DEFINE s == inodes[od].ents[on]
                   t == RenameTarget(nd, nn)
        <3>2. CASE /\ ~(t # None /\ S_IFDIR(t) /\ inodes[t].size > 2)
                   /\ ~RenamePanics(od, on, nd, nn)
                   /\ inodes' = Moved(od, on, nd, nn)
            <4>0. od \in Inos /\ nd \in Inos /\ IsDir(od) /\ IsDir(nd)
                BY VfsDirsType
            <4>1. s \in Inos /\ s # inodes[nd].ents[nn] /\ t \in Inos \cup {None}
                BY <2>0, <2>7, <4>0, InodeType DEF RenameMove, RenameTarget, VfsRename
            <4>2. t # None => Deletable(t)
                BY <2>0, <2>7, <3>2, <4>1, TargetDeletable
            <4>3. /\ t # None /\ IsDir(t) => Entries(t) = {}
                  /\ \A k \in Inos : inodes'[k].kind = IF k = t THEN "none" ELSE inodes[k].kind
                BY <1>1, <3>2, <4>0, <4>1, <4>2, MoveTree, InvIsTree
            <4> QED BY <2>0, <4>3 DEF IsDir
        <3> QED BY <2>7, <3>1, <3>2 DEF RenameMove, Fails, Commits
    <2>8. ASSUME NEW od \in VfsDirs, NEW nd \in VfsDirs, NEW on \in Names, NEW nn \in Names,
                 NEW u \in Users, RenameExchange(u, od, on, nd, nn)
          PROVE  inodes'[j].kind = "dir"
        <3>1. CASE UNCHANGED inodes
            BY <3>1
        <3>2. CASE inodes' = Exchanged(od, on, nd, nn)
            <4> DEFINE s == inodes[od].ents[on]
                       t == inodes[nd].ents[nn]
            <4>1. od \in Inos /\ nd \in Inos /\ s \in Inos /\ t \in Inos /\ s # t
                BY <2>0, <2>8, VfsDirsType, InodeType DEF RenameExchange, VfsRename
            <4>2. \A k \in Inos : inodes'[k].kind = inodes[k].kind
                BY <1>1, <3>2, <4>1, ExchangeTree, InvIsTree
            <4> QED BY <4>2
        <3> QED BY <2>8, <3>1, <3>2 DEF RenameExchange, Fails, Commits
    <2>9. CASE init_db \/ Unmount \/ Crash \/ UNCHANGED vars
        BY <2>1, <2>9 DEF init_db, Unmount, Crash, vars
    <2> QED BY <1>1, <2>2, <2>3, <2>4, <2>5, <2>6, <2>7, <2>8, <2>9 DEF Next
<1> HIDE DEF Stays
<1>2. IInv /\ [Next]_vars => [Stays]_vars
    BY <1>1
<1>3. Spec => [][Stays]_vars
    BY <1>2, Invariance, PTL DEF Spec
<1> QED BY <1>3 DEF NonEmptyDirKept, Stays

-----------------------------------------------------------------------------
(***************************************************************************)
(* Exact sizes, link counts and dots.  Clients that neither rename onto a  *)
(* name of a directory without the sticky bit, nor onto a socket or block  *)
(* device with another name, nor exchange directories                      *)
(* find every count exact: the inequalities above become equations, which  *)
(* need that only directories have entries and that a directory's ".." is  *)
(* missing in the root alone.                                              *)
(***************************************************************************)

\* Only directories have entries.
LeavesEmpty ==
    \A j \in Inos : ~IsDir(j) => \A x \in Names : inodes[j].ents[x] = None

\* What the bucket of a directory records of the tree.
DirsExact ==
    \A d \in Inos : IsDir(d) =>
        /\ inodes[d].dot = d
        /\ inodes[d].dotdot = None <=> d = RootIno
        /\ inodes[d].size = Cardinality(Entries(d)) + (IF d = RootIno THEN 1 ELSE 2)
        /\ \A e \in NamesOf(d) : inodes[d].dotdot = e[1]

ExactInv == LeavesEmpty /\ DirsExact /\ LinkCountExact

\* The put of entry n of d, as the buckets see it.
EntryPut(d, n, v) ==
    \A j \in Inos, x \in Names :
        inodes'[j].ents[x] = IF j = d /\ x = n THEN v ELSE inodes[j].ents[x]

\* The put of one entry, as the sets of names see it.
OneEntry(d, n, v) ==
    /\ \A j \in Inos : j # d => Entries(j)' = Entries(j)
    /\ v = None => Entries(d)' = Entries(d) \ {n}
    /\ v # None => Entries(d)' = Entries(d) \cup {n}
    /\ \A j \in Inos : j # v => NamesOf(j)' = NamesOf(j) \ {<<d, n>>}
    /\ \A j \in Inos : j = v => NamesOf(j)' = NamesOf(j) \cup {<<d, n>>}

\* A step that puts one entry changes the entries of one directory and the names
\* of at most two inodes.
LEMMA PutOne ==
    ASSUME NEW d \in Inos, NEW n \in Names, NEW v \in Inos \cup {None},
           \A j \in Inos, x \in Names :
               inodes'[j].ents[x] = IF j = d /\ x = n THEN v ELSE inodes[j].ents[x]
    PROVE  OneEntry(d, n, v)
<1>1. \A j \in Inos : j # d => Entries(j)' = Entries(j)
    BY DEF Entries
<1>2. v = None => Entries(d)' = Entries(d) \ {n}
    BY DEF Entries
<1>3. v # None => Entries(d)' = Entries(d) \cup {n}
    BY DEF Entries
<1>4. ASSUME NEW j \in Inos, NEW e \in Inos \X Names
      PROVE  /\ e # <<d, n>> => (e \in NamesOf(j)' <=> e \in NamesOf(j))
             /\ e = <<d, n>> => (e \in NamesOf(j)' <=> j = v)
    <2>1. e[1] \in Inos /\ e[2] \in Names /\ (e = <<d, n>> <=> e[1] = d /\ e[2] = n)
        OBVIOUS
    <2>2. inodes'[e[1]].ents[e[2]] = IF e[1] = d /\ e[2] = n THEN v ELSE inodes[e[1]].ents[e[2]]
        BY <2>1
    <2> QED BY <2>1, <2>2 DEF NamesOf
<1>5. \A j \in Inos : NamesOf(j) \subseteq Inos \X Names /\ NamesOf(j)' \subseteq Inos \X Names
    BY DEF NamesOf
<1>6. <<d, n>> \in Inos \X Names
    OBVIOUS
<1>7. \A j \in Inos : j # v => NamesOf(j)' = NamesOf(j) \ {<<d, n>>}
    BY <1>4, <1>5
<1>8. \A j \in Inos : j = v => NamesOf(j)' = NamesOf(j) \cup {<<d, n>>}
    BY <1>4, <1>5, <1>6
<1> QED BY <1>1, <1>2, <1>3, <1>7, <1>8 DEF OneEntry

\* An entry is a name of the inode whose number it holds, and of no other.
LEMMA NameOfEntry ==
    ASSUME NEW d \in Inos, NEW n \in Names, NEW j
    PROVE  <<d, n>> \in NamesOf(j) <=> inodes[d].ents[n] = j
BY DEF NamesOf

\* Taking away what is not there.
LEMMA Without == ASSUME NEW T, NEW x, x \notin T PROVE T \ {x} = T
OBVIOUS

\* Cardinalities of sets that gain or lose exactly one element.
LEMMA CardExact ==
    ASSUME NEW T, IsFiniteSet(T), NEW x
    PROVE  /\ x \notin T => Cardinality(T \cup {x}) = Cardinality(T) + 1
           /\ x \in T => Cardinality(T \ {x}) = Cardinality(T) - 1
           /\ Cardinality(T) \in Nat
BY FS_AddElement, FS_RemoveElement, FS_CardinalityType

\* What a step that puts entry n of d does to d's other keys: the size becomes k.
DirPut(d, k) ==
    /\ inodes'[d].kind = "dir" /\ inodes'[d].size = k
    /\ inodes'[d].dot = inodes[d].dot /\ inodes'[d].dotdot = inodes[d].dotdot
    /\ inodes'[d].perm = inodes[d].perm

\* A directory whose size follows its entries, and whose names stay or go, stays exact.
LEMMA DirStaysExact ==
    ASSUME DirsExact, NEW d \in Inos, inodes[d].kind = "dir", NEW k \in Int,
           DirPut(d, inodes[d].size + k),
           Cardinality(Entries(d)') = Cardinality(Entries(d)) + k,
           NamesOf(d)' \subseteq NamesOf(d),
           inodes[d].size \in Nat
    PROVE  /\ inodes'[d].dot = d
           /\ inodes'[d].dotdot = None <=> d = RootIno
           /\ inodes'[d].size = Cardinality(Entries(d)') + (IF d = RootIno THEN 1 ELSE 2)
           /\ \A e \in NamesOf(d)' : inodes'[d].dotdot = e[1]
<1>1. /\ inodes[d].dot = d
      /\ inodes[d].dotdot = None <=> d = RootIno
      /\ inodes[d].size = Cardinality(Entries(d)) + (IF d = RootIno THEN 1 ELSE 2)
      /\ \A e \in NamesOf(d) : inodes[d].dotdot = e[1]
    BY DEF DirsExact, IsDir
<1>2. Cardinality(Entries(d)) \in Nat
    BY EntriesFinite
<1>3. inodes'[d].size = Cardinality(Entries(d)') + (IF d = RootIno THEN 1 ELSE 2)
    BY <1>1, <1>2 DEF DirPut
<1> QED BY <1>1, <1>3 DEF DirPut

\* The bucket changes of dbfs_common_create keep the counts and dots exact.
LEMMA CreateExact ==
    ASSUME TreeInv, NamesAgree, ExactInv, NEW d \in Inos, IsDir(d), NEW n \in Names, inodes[d].ents[n] = None,
           NEW num \in Inos \ {RootIno}, ~Live(num), NEW u \in Users, NEW m \in SUBSET ModeBits,
           NEW kind \in {"dir", "node", "file"},
           inodes' = [inodes EXCEPT ![d].size = @ + 1,
                                    ![d].ents[n] = num,
                                    ![num] = NewInode(kind, num, d, u, m)]
    PROVE  ExactInv' /\ EntryPut(d, n, num)
<1> USE DEF TreeInv
<1>0. d # num /\ None \notin Inos /\ ~IsDir(num)
    BY ConstantsAssumption DEF IsDir, Live, None, Inos
<1>1. \A j \in Inos : j \notin {d, num} => inodes'[j] = inodes[j]
    BY <1>0
<1>2. DirPut(d, inodes[d].size + 1) /\ inodes'[d].ents = [inodes[d].ents EXCEPT ![n] = num]
    BY <1>0, InodeType DEF IsDir, Inode, DirPut
<1>3. inodes'[num] = NewInode(kind, num, d, u, m)
    BY <1>0
<1>4. /\ inodes'[num].kind = kind /\ \A x \in Names : inodes'[num].ents[x] = None
      /\ kind # "dir" => inodes'[num].hard_links = 1
      /\ kind = "dir" => inodes'[num].dot = num /\ inodes'[num].dotdot = d /\ inodes'[num].size = 2
    BY <1>3 DEF NewInode, NoEnts
<1>5. \A j \in Inos, x \in Names :
        inodes'[j].ents[x] = IF j = d /\ x = n THEN num ELSE inodes[j].ents[x]
    <2>1. \A x \in Names : inodes[num].ents[x] = None
        BY <1>0 DEF ExactInv, LeavesEmpty
    <2> QED BY <1>0, <1>1, <1>2, <1>4, <2>1, InodeType
<1>6. OneEntry(d, n, num)
    BY <1>5, PutOne
<1>7. \A j \in Inos : j # num => NamesOf(j)' = NamesOf(j)
    <2> TAKE j \in Inos
    <2>1. <<d, n>> \notin NamesOf(j)
        BY <1>0, NameOfEntry
    <2>2. j # num => NamesOf(j)' = NamesOf(j) \ {<<d, n>>}
        BY <1>6, Zenon DEF OneEntry
    <2> QED BY <2>1, <2>2, Without, Zenon
<1>8. NamesOf(num)' = {<<d, n>>}
    <2>1. NamesOf(num) = {}
        <3> SUFFICES ASSUME NEW e \in NamesOf(num) PROVE FALSE
            OBVIOUS
        <3>1. e[1] \in Inos /\ e[2] \in Names /\ inodes[e[1]].ents[e[2]] = num
            BY DEF NamesOf
        <3> QED BY <1>0, <3>1 DEF NamesAgree, NoDangling
    <2> QED BY <1>6, <2>1 DEF OneEntry
<1>9. LeavesEmpty'
    <2> SUFFICES ASSUME NEW j \in Inos, inodes'[j].kind # "dir", NEW x \in Names
                 PROVE  inodes'[j].ents[x] = None
        BY DEF LeavesEmpty, IsDir
    <2>1. CASE j = num
        BY <2>1, <1>4
    <2>2. CASE j # num
        <3>1. j # d
            BY <1>2 DEF DirPut
        <3> QED BY <2>2, <3>1, <1>1 DEF ExactInv, LeavesEmpty, IsDir
    <2> QED BY <2>1, <2>2
<1>10. DirsExact'
    <2> SUFFICES ASSUME NEW j \in Inos, inodes'[j].kind = "dir"
                 PROVE  /\ inodes'[j].dot = j
                        /\ inodes'[j].dotdot = None <=> j = RootIno
                        /\ inodes'[j].size = Cardinality(Entries(j)') + (IF j = RootIno THEN 1 ELSE 2)
                        /\ \A e \in NamesOf(j)' : inodes'[j].dotdot = e[1]
        BY DEF DirsExact, IsDir
    <2>1. CASE j = d
        <3>1. n \notin Entries(d) /\ Entries(d)' = Entries(d) \cup {n}
            BY <1>0, <1>6 DEF Entries, OneEntry
        <3>2. Cardinality(Entries(d)') = Cardinality(Entries(d)) + 1
            BY <3>1, CardExact, EntriesFinite
        <3>3. NamesOf(d)' \subseteq NamesOf(d) /\ inodes[d].size \in Nat /\ inodes[d].kind = "dir"
            BY <1>0, <1>7, InodeType DEF IsDir
        <3> QED BY <2>1, <3>2, <3>3, <1>2, DirStaysExact DEF ExactInv
    <2>2. CASE j = num
        <3>1. kind = "dir" /\ j # RootIno
            BY <2>2, <1>4
        <3>2. Entries(num)' = {}
            BY <1>4 DEF Entries
        <3>3. Cardinality(Entries(j)') = 0
            BY <2>2, <3>2, FS_EmptySet
        <3>4. \A e \in NamesOf(j)' : e = <<d, n>>
            BY <2>2, <1>8
        <3>5. <<d, n>>[1] = d /\ inodes'[j].dot = j /\ inodes'[j].dotdot = d /\ inodes'[j].size = 2
            BY <2>2, <3>1, <1>4
        <3> QED BY <1>0, <3>1, <3>3, <3>4, <3>5
    <2>3. CASE j \notin {d, num}
        <3>1. Entries(j)' = Entries(j) /\ NamesOf(j)' = NamesOf(j) /\ inodes'[j] = inodes[j]
            BY <2>3, <1>1, <1>6, <1>7 DEF OneEntry
        <3> QED BY <3>1 DEF ExactInv, DirsExact, IsDir
    <2> QED BY <2>1, <2>2, <2>3
<1>11. LinkCountExact'
    <2> SUFFICES ASSUME NEW j \in Inos, inodes'[j].kind \in {"node", "file"}
                 PROVE  inodes'[j].hard_links = Cardinality(NamesOf(j)')
        BY DEF LinkCountExact, IsFile
    <2>1. CASE j = num
        BY <2>1, <1>4, <1>8, FS_Singleton
    <2>2. CASE j # num
        <3>1. inodes'[j] = inodes[j] /\ NamesOf(j)' = NamesOf(j)
            BY <2>2, <1>1, <1>2, <1>7 DEF DirPut
        <3> QED BY <3>1 DEF ExactInv, LinkCountExact, IsFile
    <2> QED BY <2>1, <2>2
<1> QED BY <1>9, <1>10, <1>11, <1>5 DEF ExactInv, EntryPut

\* The bucket changes of dbfs_common_link keep the counts and dots exact.
LEMMA LinkExact ==
    ASSUME TreeInv, ExactInv, NEW d \in Inos, IsDir(d), NEW n \in Names, inodes[d].ents[n] = None,
           NEW i \in Inos, inodes[i].kind \in {"node", "file"},
           inodes' = [inodes EXCEPT ![d].size = @ + 1,
                                    ![d].ents[n] = i,
                                    ![i].hard_links = @ + 1]
    PROVE  ExactInv' /\ EntryPut(d, n, i)
<1> USE DEF TreeInv
<1>0. d # i /\ None \notin Inos
    BY ConstantsAssumption DEF IsDir, None, Inos
<1>1. \A j \in Inos : j \notin {d, i} => inodes'[j] = inodes[j]
    BY <1>0
<1>2. DirPut(d, inodes[d].size + 1) /\ inodes'[d].ents = [inodes[d].ents EXCEPT ![n] = i]
    BY <1>0, InodeType DEF IsDir, Inode, DirPut
<1>3. /\ inodes'[i].kind \in {"node", "file"} /\ inodes'[i].hard_links = inodes[i].hard_links + 1
      /\ inodes'[i].ents = inodes[i].ents
    BY <1>0, InodeType DEF Inode
<1>5. \A j \in Inos, x \in Names :
        inodes'[j].ents[x] = IF j = d /\ x = n THEN i ELSE inodes[j].ents[x]
    BY <1>0, <1>1, <1>2, <1>3, InodeType
<1>6. OneEntry(d, n, i)
    BY <1>5, PutOne
<1>7. /\ \A j \in Inos : j # i => NamesOf(j)' = NamesOf(j)
      /\ <<d, n>> \notin NamesOf(i) /\ NamesOf(i)' = NamesOf(i) \cup {<<d, n>>}
    <2>1. \A j \in Inos : <<d, n>> \notin NamesOf(j)
        BY <1>0, NameOfEntry
    <2>2. \A j \in Inos : j # i => NamesOf(j)' = NamesOf(j) \ {<<d, n>>}
        BY <1>6, Zenon DEF OneEntry
    <2>3. NamesOf(i)' = NamesOf(i) \cup {<<d, n>>}
        BY <1>6, Zenon DEF OneEntry
    <2> QED BY <2>1, <2>2, <2>3, Without, Zenon
<1>8. \A j \in Inos : j # d => inodes'[j].kind = inodes[j].kind
    BY <1>1, <1>3
<1>9. LeavesEmpty'
    <2> SUFFICES ASSUME NEW j \in Inos, inodes'[j].kind # "dir", NEW x \in Names
                 PROVE  inodes'[j].ents[x] = None
        BY DEF LeavesEmpty, IsDir
    <2>1. j # d
        BY <1>2 DEF DirPut
    <2> QED BY <2>1, <1>5, <1>8 DEF ExactInv, LeavesEmpty, IsDir
<1>10. DirsExact'
    <2> SUFFICES ASSUME NEW j \in Inos, inodes'[j].kind = "dir"
                 PROVE  /\ inodes'[j].dot = j
                        /\ inodes'[j].dotdot = None <=> j = RootIno
                        /\ inodes'[j].size = Cardinality(Entries(j)') + (IF j = RootIno THEN 1 ELSE 2)
                        /\ \A e \in NamesOf(j)' : inodes'[j].dotdot = e[1]
        BY DEF DirsExact, IsDir
    <2>1. CASE j = d
        <3>1. n \notin Entries(d) /\ Entries(d)' = Entries(d) \cup {n}
            BY <1>0, <1>6 DEF Entries, OneEntry
        <3>2. Cardinality(Entries(d)') = Cardinality(Entries(d)) + 1
            BY <3>1, CardExact, EntriesFinite
        <3>3. NamesOf(d)' \subseteq NamesOf(d) /\ inodes[d].size \in Nat /\ inodes[d].kind = "dir"
            BY <1>0, <1>7, InodeType DEF IsDir
        <3> QED BY <2>1, <3>2, <3>3, <1>2, DirStaysExact DEF ExactInv
    <2>2. CASE j # d
        <3>1. Entries(j)' = Entries(j) /\ NamesOf(j)' = NamesOf(j) /\ inodes'[j] = inodes[j]
            BY <2>2, <1>1, <1>3, <1>6, <1>7 DEF OneEntry
        <3> QED BY <3>1 DEF ExactInv, DirsExact, IsDir
    <2> QED BY <2>1, <2>2
<1>11. LinkCountExact'
    <2> SUFFICES ASSUME NEW j \in Inos, inodes'[j].kind \in {"node", "file"}
                 PROVE  inodes'[j].hard_links = Cardinality(NamesOf(j)')
        BY DEF LinkCountExact, IsFile
    <2>1. CASE j = i
        <3>1. Cardinality(NamesOf(i)') = Cardinality(NamesOf(i)) + 1
            BY <1>7, CardExact, NamesOfFinite
        <3>2. inodes[i].hard_links = Cardinality(NamesOf(i))
            BY DEF ExactInv, LinkCountExact, IsFile
        <3> QED BY <2>1, <3>1, <3>2, <1>3
    <2>2. CASE j # i
        <3>1. inodes'[j] = inodes[j] /\ NamesOf(j)' = NamesOf(j)
            BY <2>2, <1>1, <1>2, <1>7 DEF DirPut
        <3> QED BY <3>1 DEF ExactInv, LinkCountExact, IsFile
    <2> QED BY <2>1, <2>2
<1> QED BY <1>9, <1>10, <1>11, <1>5 DEF ExactInv, EntryPut

\* The removal of an entry, and of an inode without further links or entries,
\* keeps the counts and dots exact.
LEMMA RemoveExact ==
    ASSUME TreeInv, ExactInv, NEW d \in Inos, IsDir(d), NEW n \in Names,
           NEW i \in Inos, i = inodes[d].ents[n], i # d, Entries(i) = {},
           NEW kept, kept \in BOOLEAN,
           kept <=> inodes[i].kind \in {"node", "file"} /\ inodes[i].hard_links # 1,
           inodes' = [inodes EXCEPT ![d].size = @ - 1,
                                    ![d].ents[n] = None,
                                    ![i] = IF kept THEN [inodes[i] EXCEPT !.hard_links = @ - 1] ELSE Absent]
    PROVE  ExactInv' /\ EntryPut(d, n, None)
<1> USE DEF TreeInv
<1>0. None \notin Inos
    BY ConstantsAssumption DEF None, Inos
<1>1. \A j \in Inos : j \notin {d, i} => inodes'[j] = inodes[j]
    OBVIOUS
<1>2. DirPut(d, inodes[d].size - 1) /\ inodes'[d].ents = [inodes[d].ents EXCEPT ![n] = None]
    BY <1>0, InodeType DEF IsDir, Inode, DirPut
<1>3. /\ kept => /\ inodes'[i].kind \in {"node", "file"} /\ inodes'[i].hard_links = inodes[i].hard_links - 1
                 /\ inodes'[i].ents = inodes[i].ents
      /\ ~kept => inodes'[i].kind = "none" /\ \A x \in Names : inodes'[i].ents[x] = None
    BY <1>0, InodeType DEF Inode, Absent, NoEnts
<1>4. \A x \in Names : inodes[i].ents[x] = None
    BY DEF Entries
<1>5. \A j \in Inos, x \in Names :
        inodes'[j].ents[x] = IF j = d /\ x = n THEN None ELSE inodes[j].ents[x]
    <2>1. \A x \in Names : inodes'[i].ents[x] = inodes[i].ents[x]
        BY <1>3, <1>4
    <2>2. \A x \in Names : inodes'[d].ents[x] = IF x = n THEN None ELSE inodes[d].ents[x]
        BY <1>2, InodeType
    <2> QED BY <1>1, <2>1, <2>2
<1>6. OneEntry(d, n, None)
    BY <1>5, PutOne
<1>7. /\ \A j \in Inos : j # i => NamesOf(j)' = NamesOf(j)
      /\ <<d, n>> \in NamesOf(i) /\ NamesOf(i)' = NamesOf(i) \ {<<d, n>>}
    <2>1. \A j \in Inos : <<d, n>> \in NamesOf(j) <=> j = i
        BY NameOfEntry
    <2>2. \A j \in Inos : NamesOf(j)' = NamesOf(j) \ {<<d, n>>}
        BY <1>0, <1>6, Zenon DEF OneEntry
    <2> QED BY <2>1, <2>2, Without, Zenon
<1>9. LeavesEmpty'
    <2> SUFFICES ASSUME NEW j \in Inos, inodes'[j].kind # "dir", NEW x \in Names
                 PROVE  inodes'[j].ents[x] = None
        BY DEF LeavesEmpty, IsDir
    <2>1. j # d
        BY <1>2 DEF DirPut
    <2>2. CASE j = i
        BY <2>1, <2>2, <1>4, <1>5
    <2>3. CASE j # i
        BY <2>1, <2>3, <1>1 DEF ExactInv, LeavesEmpty, IsDir
    <2> QED BY <2>2, <2>3
<1>10. DirsExact'
    <2> SUFFICES ASSUME NEW j \in Inos, inodes'[j].kind = "dir"
                 PROVE  /\ inodes'[j].dot = j
                        /\ inodes'[j].dotdot = None <=> j = RootIno
                        /\ inodes'[j].size = Cardinality(Entries(j)') + (IF j = RootIno THEN 1 ELSE 2)
                        /\ \A e \in NamesOf(j)' : inodes'[j].dotdot = e[1]
        BY DEF DirsExact, IsDir
    <2>1. CASE j = d
        <3>1. n \in Entries(d) /\ Entries(d)' = Entries(d) \ {n}
            BY <1>0, <1>6 DEF Entries, OneEntry
        <3>2. Cardinality(Entries(d)') = Cardinality(Entries(d)) + (-1)
            BY <3>1, CardExact, EntriesFinite
        <3>3. NamesOf(d)' \subseteq NamesOf(d) /\ inodes[d].size \in Nat /\ inodes[d].kind = "dir"
            BY <1>7, InodeType DEF IsDir
        <3>4. DirPut(d, inodes[d].size + (-1))
            BY <1>2, <3>3 DEF DirPut
        <3> QED BY <2>1, <3>2, <3>3, <3>4, DirStaysExact DEF ExactInv
    <2>2. CASE j # d
        <3>1. Entries(j)' = Entries(j) /\ NamesOf(j)' = NamesOf(j) /\ inodes'[j] = inodes[j]
            BY <2>2, <1>1, <1>3, <1>6, <1>7 DEF OneEntry
        <3> QED BY <3>1 DEF ExactInv, DirsExact, IsDir
    <2> QED BY <2>1, <2>2
<1>11. LinkCountExact'
    <2> SUFFICES ASSUME NEW j \in Inos, inodes'[j].kind \in {"node", "file"}
                 PROVE  inodes'[j].hard_links = Cardinality(NamesOf(j)')
        BY DEF LinkCountExact, IsFile
    <2>1. CASE j = i
        <3>1. kept /\ inodes[i].kind \in {"node", "file"}
            BY <2>1, <1>3
        <3>2. Cardinality(NamesOf(i)') = Cardinality(NamesOf(i)) - 1
            BY <1>7, CardExact, NamesOfFinite
        <3>3. inodes[i].hard_links = Cardinality(NamesOf(i))
            BY <3>1 DEF ExactInv, LinkCountExact, IsFile
        <3> QED BY <2>1, <3>1, <3>2, <3>3, <1>3
    <2>2. CASE j # i
        <3>1. inodes'[j] = inodes[j] /\ NamesOf(j)' = NamesOf(j)
            BY <2>2, <1>1, <1>2, <1>7 DEF DirPut
        <3> QED BY <3>1 DEF ExactInv, LinkCountExact, IsFile
    <2> QED BY <2>1, <2>2
<1> QED BY <1>9, <1>10, <1>11, <1>5 DEF ExactInv, EntryPut

\* The entries that a move leaves: it finds no target that it does not look up.
MovedEntries(od, on, nd, nn, s) ==
    \A j \in Inos, x \in Names :
        inodes'[j].ents[x] = IF j = nd /\ x = nn THEN s
                             ELSE IF j = od /\ x = on THEN None ELSE inodes[j].ents[x]

\* The names that a move leaves: only the moved inode's and the target's change.
LEMMA MoveNames ==
    ASSUME NEW od \in Inos, NEW nd \in Inos, NEW on \in Names, NEW nn \in Names,
           NEW s \in Inos, s = inodes[od].ents[on], s # inodes[nd].ents[nn],
           MovedEntries(od, on, nd, nn, s)
    PROVE  /\ <<od, on>> \in NamesOf(s) /\ <<nd, nn>> \notin NamesOf(s)
           /\ NamesOf(s)' = (NamesOf(s) \ {<<od, on>>}) \cup {<<nd, nn>>}
           /\ \A j \in Inos : j # s /\ j # inodes[nd].ents[nn] => NamesOf(j)' = NamesOf(j)
<1>0. None \notin Inos /\ <<od, on>> # <<nd, nn>>
    BY ConstantsAssumption DEF None, Inos
<1>1. ASSUME NEW j \in Inos, NEW e \in Inos \X Names
      PROVE  /\ e = <<nd, nn>> => (e \in NamesOf(j)' <=> j = s)
             /\ e = <<od, on>> => e \notin NamesOf(j)'
             /\ e \notin {<<od, on>>, <<nd, nn>>} => (e \in NamesOf(j)' <=> e \in NamesOf(j))
    <2>1. /\ e[1] \in Inos /\ e[2] \in Names /\ (e = <<nd, nn>> <=> e[1] = nd /\ e[2] = nn)
          /\ (e = <<od, on>> <=> e[1] = od /\ e[2] = on)
        OBVIOUS
    <2>2. inodes'[e[1]].ents[e[2]] =
              IF e[1] = nd /\ e[2] = nn THEN s
              ELSE IF e[1] = od /\ e[2] = on THEN None ELSE inodes[e[1]].ents[e[2]]
        BY <2>1 DEF MovedEntries
    <2> QED BY <1>0, <2>1, <2>2 DEF NamesOf
<1>2. \A j \in Inos : NamesOf(j) \subseteq Inos \X Names /\ NamesOf(j)' \subseteq Inos \X Names
    BY DEF NamesOf
<1>3. <<od, on>> \in Inos \X Names /\ <<nd, nn>> \in Inos \X Names
    OBVIOUS
<1>4. \A j \in Inos : /\ <<od, on>> \in NamesOf(j) <=> j = s
                      /\ <<nd, nn>> \in NamesOf(j) <=> j = inodes[nd].ents[nn]
    BY NameOfEntry
<1>5. NamesOf(s)' = (NamesOf(s) \ {<<od, on>>}) \cup {<<nd, nn>>}
    <2>1. ASSUME NEW e \in Inos \X Names
          PROVE  e \in NamesOf(s)' <=> e \in (NamesOf(s) \ {<<od, on>>}) \cup {<<nd, nn>>}
        BY <1>0, <1>1
    <2> QED BY <1>2, <1>3, <2>1
<1>6. ASSUME NEW j \in Inos, j # s, j # inodes[nd].ents[nn]
      PROVE  NamesOf(j)' = NamesOf(j)
    <2>1. ASSUME NEW e \in Inos \X Names
          PROVE  e \in NamesOf(j)' <=> e \in NamesOf(j)
        BY <1>1, <1>4, <1>6
    <2> QED BY <1>2, <2>1
<1> QED BY <1>4, <1>5, <1>6

\* The entries of a directory after a move.
LEMMA MoveDirs ==
    ASSUME NEW od \in Inos, NEW nd \in Inos, NEW on \in Names, NEW nn \in Names,
           NEW s \in Inos, MovedEntries(od, on, nd, nn, s)
    PROVE  /\ \A j \in Inos : j # od /\ j # nd => Entries(j)' = Entries(j)
           /\ od # nd => Entries(od)' = Entries(od) \ {on} /\ Entries(nd)' = Entries(nd) \cup {nn}
           /\ od = nd => Entries(nd)' = (Entries(nd) \ {on}) \cup {nn}
<1>0. s # None
    BY ConstantsAssumption DEF None, Inos
<1>1. \A j \in Inos : j # od /\ j # nd => Entries(j)' = Entries(j)
    BY DEF MovedEntries, Entries
<1>2. od # nd => Entries(od)' = Entries(od) \ {on}
    BY DEF MovedEntries, Entries
<1>3. od # nd => Entries(nd)' = Entries(nd) \cup {nn}
    BY <1>0 DEF MovedEntries, Entries
<1>4. od = nd => Entries(nd)' = (Entries(nd) \ {on}) \cup {nn}
    BY <1>0 DEF MovedEntries, Entries
<1> QED BY <1>1, <1>2, <1>3, <1>4

\* The bucket changes of a move that overwrites nothing it did not look up keep
\* the counts and dots exact.
LEMMA MoveExact ==
    ASSUME TreeInv, NamesAgree, ExactInv, NEW od \in Inos, NEW nd \in Inos, IsDir(od), IsDir(nd),
           NEW on \in Names, NEW nn \in Names,
           NEW s \in Inos, s = inodes[od].ents[on], s # inodes[nd].ents[nn],
           NEW t, t = RenameTarget(nd, nn), t = inodes[nd].ents[nn],
           t # None => Deletable(t),
           inodes' = Moved(od, on, nd, nn)
    PROVE  ExactInv' /\ MovedEntries(od, on, nd, nn, s)
<1>0. None \notin Inos /\ inodes \in [Inos -> Inode] /\ s # RootIno
    BY ConstantsAssumption DEF None, Inos, TreeInv
<1>1. MoveShape(od, on, nd, nn, s, t)
    BY MoveFacts
<1>2. /\ t # None => Entries(t) = {}
      /\ on \in Entries(od) /\ (nn \in Entries(nd) <=> t # None)
      /\ t # od /\ t # nd
      /\ MovesTo(inodes', od, on, nd, nn, s, t)
    <2>1. t # None /\ ~IsDir(t) => Entries(t) = {}
        BY <1>1 DEF MoveShape, Entries, ExactInv, LeavesEmpty
    <2>2. nn \in Entries(nd) <=> t # None
        BY DEF Entries
    <2> QED BY <1>1, <2>1, <2>2 DEF MoveShape
<1>3. \A j \in Inos : j # t =>
        /\ inodes'[j].kind = inodes[j].kind
        /\ inodes'[j].hard_links = inodes[j].hard_links
        /\ inodes'[j].dot = inodes[j].dot
        /\ inodes'[j].dotdot = IF j = s /\ S_IFDIR(s) THEN nd ELSE inodes[j].dotdot
        /\ inodes'[j].perm = inodes[j].perm
    BY <1>2 DEF MovesTo
<1>4. \A j \in Inos : j = t => inodes'[j].kind = "none"
    BY <1>2 DEF MovesTo
<1>5. \A j \in Inos : j # t => inodes'[j].size =
          IF j = nd THEN IF od = nd THEN inodes[nd].size - (IF t # None THEN 1 ELSE 0)
                         ELSE inodes[nd].size - (IF t # None THEN 1 ELSE 0) + 1
          ELSE IF j = od THEN inodes[od].size - 1 ELSE inodes[j].size
    BY <1>2 DEF MovesTo
<1>6. MovedEntries(od, on, nd, nn, s)
    <2>1. \A j \in Inos, x \in Names : j = t => inodes[j].ents[x] = None
        BY <1>0, <1>2 DEF Entries
    <2>2. \A j \in Inos, x \in Names :
            inodes'[j].ents[x] = IF j = nd /\ x = nn THEN s
                                 ELSE IF (j = od /\ x = on) \/ j = t THEN None ELSE inodes[j].ents[x]
        BY <1>2 DEF MovesTo
    <2> QED BY <2>1, <2>2 DEF MovedEntries
<1>7. /\ <<od, on>> \in NamesOf(s) /\ <<nd, nn>> \notin NamesOf(s)
      /\ NamesOf(s)' = (NamesOf(s) \ {<<od, on>>}) \cup {<<nd, nn>>}
      /\ \A j \in Inos : j # s /\ j # t => NamesOf(j)' = NamesOf(j)
    BY <1>6, MoveNames
<1>8. /\ \A j \in Inos : j # od /\ j # nd => Entries(j)' = Entries(j)
      /\ od # nd => Entries(od)' = Entries(od) \ {on} /\ Entries(nd)' = Entries(nd) \cup {nn}
      /\ od = nd => Entries(nd)' = (Entries(nd) \ {on}) \cup {nn}
    BY <1>6, MoveDirs
<1>9. LeavesEmpty'
    <2> SUFFICES ASSUME NEW j \in Inos, inodes'[j].kind # "dir", NEW x \in Names
                 PROVE  inodes'[j].ents[x] = None
        BY DEF LeavesEmpty, IsDir
    <2>1. j # od /\ j # nd
        BY <1>2, <1>3 DEF IsDir
    <2>2. inodes'[j].ents[x] = inodes[j].ents[x]
        BY <2>1, <1>6 DEF MovedEntries
    <2>3. CASE j = t
        BY <2>2, <2>3, <1>0, <1>2 DEF Entries
    <2>4. CASE j # t
        BY <2>2, <2>4, <1>3 DEF ExactInv, LeavesEmpty, IsDir
    <2> QED BY <2>3, <2>4
<1>10. DirsExact'
    <2> SUFFICES ASSUME NEW j \in Inos, inodes'[j].kind = "dir"
                 PROVE  /\ inodes'[j].dot = j
                        /\ inodes'[j].dotdot = None <=> j = RootIno
                        /\ inodes'[j].size = Cardinality(Entries(j)') + (IF j = RootIno THEN 1 ELSE 2)
                        /\ \A e \in NamesOf(j)' : inodes'[j].dotdot = e[1]
        BY DEF DirsExact, IsDir
    <2>1. j # t /\ inodes[j].kind = "dir"
        BY <1>3, <1>4
    <2>2. /\ inodes[j].dot = j
          /\ inodes[j].dotdot = None <=> j = RootIno
          /\ inodes[j].size = Cardinality(Entries(j)) + (IF j = RootIno THEN 1 ELSE 2)
          /\ \A e \in NamesOf(j) : inodes[j].dotdot = e[1]
        BY <2>1 DEF ExactInv, DirsExact, IsDir
    <2>3. inodes'[j].dot = j
        BY <2>1, <2>2, <1>3
    <2>4. inodes'[j].dotdot = None <=> j = RootIno
        BY <2>1, <2>2, <1>0, <1>3
    <2>5. \A e \in NamesOf(j)' : inodes'[j].dotdot = e[1]
        <3>1. CASE j = s
            <4>1. \A e \in NamesOf(s) : e = <<od, on>>
                BY <2>1, <3>1, <1>7 DEF NamesAgree, DirHasOneName, IsDir
            <4>2. \A e \in NamesOf(j)' : e = <<nd, nn>>
                BY <3>1, <4>1, <1>7
            <4>3. inodes'[j].dotdot = nd /\ <<nd, nn>>[1] = nd
                BY <2>1, <3>1, <1>3 DEF IsDir, S_IFDIR
            <4> QED BY <4>2, <4>3
        <3>2. CASE j # s
            BY <2>1, <2>2, <3>2, <1>3, <1>7
        <3> QED BY <3>1, <3>2
    <2>6. inodes'[j].size = Cardinality(Entries(j)') + (IF j = RootIno THEN 1 ELSE 2)
        <3> DEFINE c == Cardinality(Entries(j))
        <3>0. c \in Nat /\ IsFiniteSet(Entries(j)) /\ inodes[j].size = c + (IF j = RootIno THEN 1 ELSE 2)
            BY <2>2, EntriesFinite
        <3>1. CASE j # nd /\ j # od
            BY <2>1, <2>2, <3>1, <1>5, <1>8
        <3>2. CASE j = od /\ od # nd
            <4>1. Cardinality(Entries(j)') = c - 1
                BY <3>0, <3>2, <1>2, <1>8, CardExact
            <4>2. inodes'[j].size = inodes[j].size - 1
                BY <2>1, <3>2, <1>5
            <4> HIDE DEF c
            <4> QED BY <3>0, <4>1, <4>2
        <3>3. CASE j = nd /\ od # nd /\ t = None
            <4>1. Cardinality(Entries(j)') = c + 1
                BY <3>0, <3>3, <1>2, <1>8, CardExact
            <4>2. inodes'[j].size = inodes[j].size + 1
                BY <2>1, <3>0, <3>3, <1>5
            <4> HIDE DEF c
            <4> QED BY <3>0, <4>1, <4>2
        <3>4. CASE j = nd /\ od # nd /\ t # None
            <4>1. Entries(j)' = Entries(j)
                BY <3>4, <1>2, <1>8
            <4>2. inodes'[j].size = inodes[j].size
                BY <2>1, <3>0, <3>4, <1>5
            <4> QED BY <2>2, <4>1, <4>2
        <3>5. CASE j = nd /\ od = nd /\ t = None
            <4>1. IsFiniteSet(Entries(j) \ {on}) /\ nn \notin Entries(j) \ {on}
                BY <3>0, <3>5, <1>2, FS_RemoveElement
            <4>2. Cardinality(Entries(j) \ {on}) = c - 1
                BY <3>0, <3>5, <1>2, CardExact
            <4>3. Cardinality(Entries(j)') = c - 1 + 1
                BY <3>5, <4>1, <4>2, <1>8, CardExact
            <4>4. inodes'[j].size = inodes[j].size
                BY <2>1, <3>0, <3>5, <1>5
            <4> HIDE DEF c
            <4> QED BY <3>0, <4>3, <4>4
        <3>6. CASE j = nd /\ od = nd /\ t # None
            <4>1. Entries(j)' = Entries(j) \ {on}
                <5>1. on # nn
                    BY <3>6
                <5> QED BY <3>6, <5>1, <1>2, <1>8
            <4>2. Cardinality(Entries(j)') = c - 1
                BY <3>0, <3>6, <4>1, <1>2, CardExact
            <4>3. inodes'[j].size = inodes[j].size - 1
                BY <2>1, <3>0, <3>6, <1>5
            <4> HIDE DEF c
            <4> QED BY <3>0, <4>2, <4>3
        <3> QED BY <3>1, <3>2, <3>3, <3>4, <3>5, <3>6
    <2> QED BY <2>3, <2>4, <2>5, <2>6
<1>11. LinkCountExact'
    <2> SUFFICES ASSUME NEW j \in Inos, inodes'[j].kind \in {"node", "file"}
                 PROVE  inodes'[j].hard_links = Cardinality(NamesOf(j)')
        BY DEF LinkCountExact, IsFile
    <2>1. j # t /\ inodes[j].kind \in {"node", "file"}
        BY <1>3, <1>4
    <2>2. inodes'[j].hard_links = Cardinality(NamesOf(j))
        BY <2>1, <1>3 DEF ExactInv, LinkCountExact, IsFile
    <2>3. CASE j = s
        <3> DEFINE T == NamesOf(s) \ {<<od, on>>}
        <3>1. IsFiniteSet(T) /\ <<nd, nn>> \notin T
            BY <1>7, NamesOfFinite, FS_RemoveElement
        <3>2. Cardinality(T) = Cardinality(NamesOf(s)) - 1
            BY <1>7, NamesOfFinite, CardExact
        <3> HIDE DEF T
        <3>3. Cardinality(T \cup {<<nd, nn>>}) = Cardinality(T) + 1
            BY <3>1, CardExact
        <3>4. NamesOf(s)' = T \cup {<<nd, nn>>}
            BY <1>7 DEF T
        <3>5. Cardinality(NamesOf(s)') = Cardinality(NamesOf(s))
            BY <3>2, <3>3, <3>4, NamesOfFinite
        <3> QED BY <2>2, <2>3, <3>5
    <2>4. CASE j # s
        BY <2>1, <2>2, <2>4, <1>7
    <2> QED BY <2>3, <2>4
<1> QED BY <1>9, <1>10, <1>11, <1>6 DEF ExactInv

\* A set that exchanged one element for another keeps its cardinality.
LEMMA CardExchange ==
    ASSUME NEW T, IsFiniteSet(T), NEW x \in T, NEW y, y \notin T
    PROVE  Cardinality((T \ {x}) \cup {y}) = Cardinality(T)
<1> DEFINE U == T \ {x}
<1>1. IsFiniteSet(U) /\ y \notin U /\ Cardinality(U) = Cardinality(T) - 1
    BY FS_RemoveElement, CardExact
<1> HIDE DEF U
<1>2. Cardinality(U \cup {y}) = Cardinality(U) + 1
    BY <1>1, CardExact
<1>3. Cardinality(T) \in Nat
    BY FS_CardinalityType
<1> QED BY <1>1, <1>2, <1>3 DEF U

\* The bucket changes of an exchange of two files keep the counts and dots exact.
LEMMA ExchangeExact ==
    ASSUME TreeInv, ExactInv, NEW od \in Inos, NEW nd \in Inos, NEW on \in Names, NEW nn \in Names,
           NEW s \in Inos, NEW t \in Inos, s # t, ~IsDir(s), ~IsDir(t),
           s = inodes[od].ents[on], t = inodes[nd].ents[nn],
           inodes' = Exchanged(od, on, nd, nn)
    PROVE  ExactInv'
<1>0. None \notin Inos /\ <<od, on>> # <<nd, nn>> /\ inodes \in [Inos -> Inode]
    BY ConstantsAssumption DEF None, Inos, TreeInv
<1>1. ExchangesTo(inodes', od, on, nd, nn, s, t)
    BY <1>0, ExchangeEffect
<1>2. \A j \in Inos : /\ inodes'[j].kind = inodes[j].kind /\ inodes'[j].size = inodes[j].size
                      /\ inodes'[j].hard_links = inodes[j].hard_links
                      /\ IsDir(j) => inodes'[j].dot = inodes[j].dot /\ inodes'[j].dotdot = inodes[j].dotdot
    BY <1>1 DEF ExchangesTo
<1>3. \A j \in Inos, x \in Names :
        inodes'[j].ents[x] = IF j = od /\ x = on THEN t
                             ELSE IF j = nd /\ x = nn THEN s ELSE inodes[j].ents[x]
    BY <1>1 DEF ExchangesTo
<1>4. \A j \in Inos : Entries(j)' = Entries(j)
    BY <1>0, <1>3 DEF Entries
<1>5. \A j \in Inos : /\ <<od, on>> \in NamesOf(j) <=> j = s
                      /\ <<nd, nn>> \in NamesOf(j) <=> j = t
    BY NameOfEntry
<1>6. ASSUME NEW j \in Inos, NEW e \in Inos \X Names
      PROVE  /\ e = <<od, on>> => (e \in NamesOf(j)' <=> j = t)
             /\ e = <<nd, nn>> => (e \in NamesOf(j)' <=> j = s)
             /\ e \notin {<<od, on>>, <<nd, nn>>} => (e \in NamesOf(j)' <=> e \in NamesOf(j))
    <2>1. /\ e[1] \in Inos /\ e[2] \in Names /\ (e = <<nd, nn>> <=> e[1] = nd /\ e[2] = nn)
          /\ (e = <<od, on>> <=> e[1] = od /\ e[2] = on)
        OBVIOUS
    <2>2. inodes'[e[1]].ents[e[2]] =
              IF e[1] = od /\ e[2] = on THEN t
              ELSE IF e[1] = nd /\ e[2] = nn THEN s ELSE inodes[e[1]].ents[e[2]]
        BY <2>1, <1>3
    <2> QED BY <1>0, <2>1, <2>2 DEF NamesOf
<1>7. \A j \in Inos : NamesOf(j) \subseteq Inos \X Names /\ NamesOf(j)' \subseteq Inos \X Names
    BY DEF NamesOf
<1>8. /\ NamesOf(s)' = (NamesOf(s) \ {<<od, on>>}) \cup {<<nd, nn>>}
      /\ NamesOf(t)' = (NamesOf(t) \ {<<nd, nn>>}) \cup {<<od, on>>}
    <2>1. ASSUME NEW e \in Inos \X Names
          PROVE  /\ e \in NamesOf(s)' <=> e \in (NamesOf(s) \ {<<od, on>>}) \cup {<<nd, nn>>}
                 /\ e \in NamesOf(t)' <=> e \in (NamesOf(t) \ {<<nd, nn>>}) \cup {<<od, on>>}
        BY <1>0, <1>6
    <2>2. <<od, on>> \in Inos \X Names /\ <<nd, nn>> \in Inos \X Names
        OBVIOUS
    <2> QED BY <1>7, <2>1, <2>2
<1>9. ASSUME NEW j \in Inos, j # s, j # t PROVE NamesOf(j)' = NamesOf(j)
    <2>1. ASSUME NEW e \in Inos \X Names
          PROVE  e \in NamesOf(j)' <=> e \in NamesOf(j)
        BY <1>5, <1>6, <1>9
    <2> QED BY <1>7, <2>1
<1>10. LeavesEmpty'
    <2> SUFFICES ASSUME NEW j \in Inos, inodes'[j].kind # "dir", NEW x \in Names
                 PROVE  inodes'[j].ents[x] = None
        BY DEF LeavesEmpty, IsDir
    <2>1. inodes[j].ents[x] = None
        BY <1>2 DEF ExactInv, LeavesEmpty, IsDir
    <2> QED BY <2>1, <1>0, <1>3
<1>11. DirsExact'
    <2> SUFFICES ASSUME NEW j \in Inos, inodes'[j].kind = "dir"
                 PROVE  /\ inodes'[j].dot = j
                        /\ inodes'[j].dotdot = None <=> j = RootIno
                        /\ inodes'[j].size = Cardinality(Entries(j)') + (IF j = RootIno THEN 1 ELSE 2)
                        /\ \A e \in NamesOf(j)' : inodes'[j].dotdot = e[1]
        BY DEF DirsExact, IsDir
    <2>1. IsDir(j) /\ j # s /\ j # t
        BY <1>2 DEF IsDir
    <2> QED BY <2>1, <1>2, <1>4, <1>9 DEF ExactInv, DirsExact
<1>12. LinkCountExact'
    <2> SUFFICES ASSUME NEW j \in Inos, inodes'[j].kind \in {"node", "file"}
                 PROVE  inodes'[j].hard_links = Cardinality(NamesOf(j)')
        BY DEF LinkCountExact, IsFile
    <2>1. inodes'[j].hard_links = Cardinality(NamesOf(j))
        BY <1>2 DEF ExactInv, LinkCountExact, IsFile
    <2>2. Cardinality(NamesOf(j)') = Cardinality(NamesOf(j))
        <3>1. CASE j = s
            <4>1. <<od, on>> \in NamesOf(s) /\ <<nd, nn>> \notin NamesOf(s)
                BY <1>5
            <4>2. Cardinality((NamesOf(s) \ {<<od, on>>}) \cup {<<nd, nn>>}) = Cardinality(NamesOf(s))
                BY <4>1, CardExchange, NamesOfFinite, Zenon
            <4> QED BY <3>1, <4>2, <1>8, Zenon
        <3>2. CASE j = t
            <4>1. <<nd, nn>> \in NamesOf(t) /\ <<od, on>> \notin NamesOf(t)
                BY <1>5
            <4>2. Cardinality((NamesOf(t) \ {<<nd, nn>>}) \cup {<<od, on>>}) = Cardinality(NamesOf(t))
                BY <4>1, CardExchange, NamesOfFinite, Zenon
            <4> QED BY <3>2, <4>2, <1>8, Zenon
        <3>3. CASE j # s /\ j # t
            BY <3>3, <1>9
        <3> QED BY <3>1, <3>2, <3>3
    <2> QED BY <2>1, <2>2
<1> QED BY <1>10, <1>11, <1>12 DEF ExactInv

\* The root directory that dbfs_common_root_inode makes is exact.
LEMMA MountExact ==
    ASSUME TreeInv, ExactInv, ~Live(RootIno), inodes' = [inodes EXCEPT ![RootIno] = RootInode]
    PROVE  ExactInv'
<1>0. None \notin Inos /\ RootIno \in Inos /\ inodes \in [Inos -> Inode] /\ ~IsDir(RootIno)
    BY ConstantsAssumption DEF None, Inos, RootIno, TreeInv, Live, IsDir
<1>1. inodes'[RootIno] = RootInode /\ \A j \in Inos \ {RootIno} : inodes'[j] = inodes[j]
    BY <1>0
<1>2. /\ RootInode.kind = "dir" /\ RootInode.size = 1 /\ RootInode.dot = RootIno
      /\ RootInode.dotdot = None /\ \A x \in Names : RootInode.ents[x] = None
    BY DEF RootInode, NoEnts
<1> HIDE DEF RootInode
<1>3. \A j \in Inos, x \in Names : inodes'[j].ents[x] = inodes[j].ents[x]
    <2>1. \A x \in Names : inodes[RootIno].ents[x] = None
        BY <1>0 DEF ExactInv, LeavesEmpty
    <2> QED BY <1>1, <1>2, <2>1
<1>4. \A j \in Inos : Entries(j)' = Entries(j)
    BY <1>3 DEF Entries
<1>5. \A j \in Inos : NamesOf(j)' = NamesOf(j)
    <2> TAKE j \in Inos
    <2>1. \A e \in Inos \X Names : inodes'[e[1]].ents[e[2]] = inodes[e[1]].ents[e[2]]
        BY <1>3
    <2> QED BY <2>1 DEF NamesOf
<1>6. LeavesEmpty'
    BY <1>0, <1>1, <1>2 DEF ExactInv, LeavesEmpty, IsDir
<1>7. DirsExact'
    <2> SUFFICES ASSUME NEW j \in Inos, inodes'[j].kind = "dir"
                 PROVE  /\ inodes'[j].dot = j
                        /\ inodes'[j].dotdot = None <=> j = RootIno
                        /\ inodes'[j].size = Cardinality(Entries(j)') + (IF j = RootIno THEN 1 ELSE 2)
                        /\ \A e \in NamesOf(j)' : inodes'[j].dotdot = e[1]
        BY DEF DirsExact, IsDir
    <2>1. CASE j = RootIno
        <3>1. Entries(j) = {}
            BY <2>1, <1>0 DEF ExactInv, LeavesEmpty, Entries
        <3>2. Cardinality(Entries(j)') = 0
            BY <3>1, <1>4, FS_EmptySet
        <3>3. NamesOf(j)' = {}
            BY <2>1, <1>0, <1>5 DEF NamesOf, TreeInv
        <3> QED BY <2>1, <3>2, <3>3, <1>1, <1>2
    <2>2. CASE j # RootIno
        BY <2>2, <1>1, <1>4, <1>5 DEF ExactInv, DirsExact, IsDir
    <2> QED BY <2>1, <2>2
<1>8. LinkCountExact'
    BY <1>1, <1>2, <1>5 DEF ExactInv, LinkCountExact, IsFile
<1> QED BY <1>6, <1>7, <1>8 DEF ExactInv

-----------------------------------------------------------------------------
(***************************************************************************)
(* Reachability.  Below(i) is the least set that has i and with a          *)
(* directory its entries; what was reachable from the root before a step   *)
(* is compared with what is reachable after it through this alone.         *)
(***************************************************************************)

\* Every inode can be reached from the root directory.
AllReached == \A i \in Inos : Live(i) => i \in Below(RootIno)

\* Below, of any buckets.
Under(f, i) == Reach(i, [d \in Inos |-> {f[d].ents[n] : n \in Names}], MaxIno)

\* Below has i and, with a directory, its entries: MaxIno levels are enough.
LEMMA UnderClosed ==
    ASSUME NEW f \in [Inos -> Inode], NEW i \in Inos
    PROVE  /\ i \in Under(f, i)
           /\ \A d \in Inos, n \in Names : d \in Under(f, i) => f[d].ents[n] \in Under(f, i)
<1> DEFINE U == 0..MaxIno
           next == [d \in Inos |-> {f[d].ents[n] : n \in Names}]
<1>1. /\ MaxIno \in Nat /\ IsFiniteSet(U) /\ Cardinality(U) <= MaxIno + 1
      /\ i \in U /\ \A v \in Inos \cup {None} : v \in U
    <2>1. MaxIno \in Nat
        BY ConstantsAssumption
    <2>2. IsFiniteSet(U) /\ Cardinality(U) = MaxIno - 0 + 1
        BY <2>1, FS_Interval
    <2> QED BY <2>1, <2>2 DEF Inos, None
<1>2. \A d \in Inos, n \in Names : f[d].ents[n] \in Inos \cup {None}
    BY DEF Inode
<1>3. DOMAIN next = Inos /\ \A d \in Inos : next[d] = {f[d].ents[n] : n \in Names}
    OBVIOUS
<1>4. \A d \in DOMAIN next : next[d] \subseteq U
    BY <1>1, <1>2, <1>3
<1> HIDE DEF U, next
<1>5. \A d \in Reach(i, next, MaxIno) \cap DOMAIN next : next[d] \subseteq Reach(i, next, MaxIno)
    BY <1>1, <1>4, ReachClosed
<1>6. i \in Reach(i, next, MaxIno)
    BY <1>1, <1>4, ReachLeast
<1>7. Under(f, i) = Reach(i, next, MaxIno)
    BY DEF Under, next
<1> QED BY <1>3, <1>5, <1>6, <1>7

\* Below is in every set that has i and, with a directory, its entries.
LEMMA UnderLeast ==
    ASSUME NEW f, NEW i, NEW S, i \in S,
           \A d \in Inos, n \in Names : d \in S => f[d].ents[n] \in S
    PROVE  Under(f, i) \subseteq S
<1> DEFINE next == [d \in Inos |-> {f[d].ents[n] : n \in Names}]
<1>1. DOMAIN next = Inos /\ \A d \in Inos : next[d] = {f[d].ents[n] : n \in Names}
    OBVIOUS
<1>2. \A d \in S \cap DOMAIN next : next[d] \subseteq S
    BY <1>1
<1>3. MaxIno \in Nat
    BY ConstantsAssumption
<1> HIDE DEF next
<1>4. Reach(i, next, MaxIno) \subseteq S
    BY <1>2, <1>3, ReachLeast
<1> QED BY <1>4 DEF Under, next

\* A new entry of a reachable directory loses nothing and reaches what it holds.
LEMMA AddReach ==
    ASSUME inodes \in [Inos -> Inode], (inodes \in [Inos -> Inode])',
           NEW d \in Inos, d \in Below(RootIno), NEW n \in Names, inodes[d].ents[n] = None,
           NEW v \in Inos, EntryPut(d, n, v)
    PROVE  Below(RootIno) \subseteq Below(RootIno)' \cup {None} /\ v \in Below(RootIno)'
<1> DEFINE R == Under(inodes', RootIno)
           S == R \cup {None}
<1>0. RootIno \in Inos /\ None \notin Inos
    BY ConstantsAssumption DEF RootIno, Inos, None
<1>1. /\ RootIno \in R
      /\ \A j \in Inos, x \in Names : j \in R => inodes'[j].ents[x] \in R
    BY <1>0, UnderClosed
<1>2. Below(RootIno) = Under(inodes, RootIno) /\ Below(RootIno)' = R
    BY DEF Below, Under
<1> HIDE DEF R
<1>3. \A j \in Inos, x \in Names : j \in S => inodes[j].ents[x] \in S
    BY <1>0, <1>1 DEF EntryPut
<1>4. Under(inodes, RootIno) \subseteq S
    BY <1>1, <1>3, UnderLeast
<1>5. d \in R
    BY <1>0, <1>2, <1>4
<1>6. v \in R
    BY <1>1, <1>5 DEF EntryPut
<1> QED BY <1>2, <1>4, <1>6

\* The removal of an entry loses at most the inode it held, if that has no entries.
LEMMA DropReach ==
    ASSUME inodes \in [Inos -> Inode], (inodes \in [Inos -> Inode])',
           NEW d \in Inos, NEW n \in Names, NEW i \in Inos, i = inodes[d].ents[n],
           \A x \in Names : inodes[i].ents[x] = None, EntryPut(d, n, None)
    PROVE  Below(RootIno) \subseteq Below(RootIno)' \cup {None, i}
<1> DEFINE R == Under(inodes', RootIno)
           S == R \cup {None, i}
<1>0. RootIno \in Inos /\ None \notin Inos
    BY ConstantsAssumption DEF RootIno, Inos, None
<1>1. /\ RootIno \in R
      /\ \A j \in Inos, x \in Names : j \in R => inodes'[j].ents[x] \in R
    BY <1>0, UnderClosed
<1>2. Below(RootIno) = Under(inodes, RootIno) /\ Below(RootIno)' = R
    BY DEF Below, Under
<1> HIDE DEF R
<1>3. ASSUME NEW j \in Inos, NEW x \in Names, j \in S
      PROVE  inodes[j].ents[x] \in S
    <2>1. CASE j = i \/ (j = d /\ x = n)
        BY <2>1
    <2>2. CASE j # i /\ ~(j = d /\ x = n)
        <3>1. j \in R
            BY <1>0, <1>3, <2>2
        <3>2. inodes[j].ents[x] = inodes'[j].ents[x]
            BY <2>2 DEF EntryPut
        <3> QED BY <1>1, <3>1, <3>2
    <2> QED BY <2>1, <2>2
<1>4. Under(inodes, RootIno) \subseteq S
    BY <1>1, <1>3, UnderLeast
<1> QED BY <1>2, <1>4

\* A move into a directory that is not at or below what is moved loses at most
\* the empty directory it replaces.
LEMMA MoveReach ==
    ASSUME inodes \in [Inos -> Inode], (inodes \in [Inos -> Inode])',
           NEW od \in Inos, NEW nd \in Inos, NEW on \in Names, NEW nn \in Names,
           NEW s \in Inos, s = inodes[od].ents[on], nd \notin Below(s), nd \in Below(RootIno),
           NEW t \in Inos \cup {None}, t = inodes[nd].ents[nn], t # nd,
           t # None => \A x \in Names : inodes[t].ents[x] = None,
           MovedEntries(od, on, nd, nn, s)
    PROVE  Below(RootIno) \subseteq Below(RootIno)' \cup {None, t}
<1> DEFINE R == Under(inodes', RootIno)
           B == Under(inodes, s)
           Q == R \cup B \cup {None, t}
           S == R \cup {None, t}
<1>0. RootIno \in Inos /\ None \notin Inos
    BY ConstantsAssumption DEF RootIno, Inos, None
<1>1. /\ RootIno \in R
      /\ \A j \in Inos, x \in Names : j \in R => inodes'[j].ents[x] \in R
    BY <1>0, UnderClosed
<1>2. /\ s \in B
      /\ \A j \in Inos, x \in Names : j \in B => inodes[j].ents[x] \in B
    BY UnderClosed
<1>3. Below(RootIno) = Under(inodes, RootIno) /\ Below(RootIno)' = R /\ Below(s) = B
    BY DEF Below, Under
<1> HIDE DEF R, B
\* The walk from the root to nd does not pass s, so the move does not cut it.
<1>4. nd \in R
    <2>1. ASSUME NEW j \in Inos, NEW x \in Names, j \in Q
          PROVE  inodes[j].ents[x] \in Q
        <3>1. CASE j = t \/ (j = nd /\ x = nn) \/ (j = od /\ x = on) \/ j \in B
            BY <1>0, <1>2, <3>1
        <3>2. CASE ~(j = t \/ (j = nd /\ x = nn) \/ (j = od /\ x = on) \/ j \in B)
            <4>1. j \in R
                BY <1>0, <2>1, <3>2
            <4>2. inodes[j].ents[x] = inodes'[j].ents[x]
                BY <3>2 DEF MovedEntries
            <4> QED BY <1>1, <4>1, <4>2
        <3> QED BY <3>1, <3>2
    <2>2. Under(inodes, RootIno) \subseteq Q
        BY <1>1, <2>1, UnderLeast
    <2> QED BY <1>0, <1>3, <2>2
<1>5. s \in R
    BY <1>1, <1>4 DEF MovedEntries
<1>6. ASSUME NEW j \in Inos, NEW x \in Names, j \in S
      PROVE  inodes[j].ents[x] \in S
    <2>1. CASE j = t \/ (j = nd /\ x = nn) \/ (j = od /\ x = on)
        BY <1>0, <1>5, <2>1
    <2>2. CASE ~(j = t \/ (j = nd /\ x = nn) \/ (j = od /\ x = on))
        <3>1. j \in R
            BY <1>0, <1>6, <2>2
        <3>2. inodes[j].ents[x] = inodes'[j].ents[x]
            BY <2>2 DEF MovedEntries
        <3> QED BY <1>1, <3>1, <3>2
    <2> QED BY <2>1, <2>2
<1>7. Under(inodes, RootIno) \subseteq S
    BY <1>1, <1>6, UnderLeast
<1> QED BY <1>3, <1>7

\* The put of entry on of od and of entry nn of nd, as the buckets see it.
EntriesSwapped(od, on, nd, nn, s, t) ==
    \A j \in Inos, x \in Names :
        inodes'[j].ents[x] = IF j = od /\ x = on THEN t
                             ELSE IF j = nd /\ x = nn THEN s ELSE inodes[j].ents[x]

\* An exchange of two files loses nothing.
LEMMA SwapReach ==
    ASSUME inodes \in [Inos -> Inode], (inodes \in [Inos -> Inode])',
           NEW od \in Inos, NEW nd \in Inos, NEW on \in Names, NEW nn \in Names,
           od \in Below(RootIno), nd \in Below(RootIno),
           NEW s \in Inos, s = inodes[od].ents[on], NEW t \in Inos, t = inodes[nd].ents[nn],
           \A x \in Names : inodes[s].ents[x] = None, \A x \in Names : inodes[t].ents[x] = None,
           od \notin {s, t}, nd \notin {s, t}, ~(od = nd /\ on = nn),
           EntriesSwapped(od, on, nd, nn, s, t)
    PROVE  Below(RootIno) \subseteq Below(RootIno)' \cup {None}
<1> DEFINE R == Under(inodes', RootIno)
           S == R \cup {None, s, t}
<1>0. RootIno \in Inos /\ None \notin Inos
    BY ConstantsAssumption DEF RootIno, Inos, None
<1>1. /\ RootIno \in R
      /\ \A j \in Inos, x \in Names : j \in R => inodes'[j].ents[x] \in R
    BY <1>0, UnderClosed
<1>2. Below(RootIno) = Under(inodes, RootIno) /\ Below(RootIno)' = R
    BY DEF Below, Under
<1> HIDE DEF R
<1>3. ASSUME NEW j \in Inos, NEW x \in Names, j \in S
      PROVE  inodes[j].ents[x] \in S
    <2>1. CASE j \in {s, t} \/ (j = nd /\ x = nn) \/ (j = od /\ x = on)
        BY <2>1
    <2>2. CASE ~(j \in {s, t} \/ (j = nd /\ x = nn) \/ (j = od /\ x = on))
        <3>1. j \in R
            BY <1>0, <1>3, <2>2
        <3>2. inodes[j].ents[x] = inodes'[j].ents[x]
            BY <2>2 DEF EntriesSwapped
        <3> QED BY <1>1, <3>1, <3>2
    <2> QED BY <2>1, <2>2
<1>4. Under(inodes, RootIno) \subseteq S
    BY <1>1, <1>3, UnderLeast
<1>5. od \in R /\ nd \in R
    BY <1>0, <1>2, <1>4
<1>6. inodes'[od].ents[on] = t /\ inodes'[nd].ents[nn] = s
    BY DEF EntriesSwapped
<1>7. s \in R /\ t \in R
    BY <1>1, <1>5, <1>6
<1> QED BY <1>2, <1>4, <1>7

-----------------------------------------------------------------------------
(* The steps of clients that neither overwrite nor exchange directories *)

TidyInv == ExactInv /\ AllReached

\* A step that touches no bucket.
LEMMA SameTidy == ASSUME TidyInv, UNCHANGED inodes PROVE TidyInv'
<1>1. LeavesEmpty'
    BY DEF TidyInv, ExactInv, LeavesEmpty, IsDir
<1>2. DirsExact'
    BY DEF TidyInv, ExactInv, DirsExact, IsDir, Entries, NamesOf
<1>3. LinkCountExact'
    BY DEF TidyInv, ExactInv, LinkCountExact, IsFile, NamesOf
<1>4. AllReached'
    BY DEF TidyInv, AllReached, Live, Below
<1> QED BY <1>1, <1>2, <1>3, <1>4 DEF TidyInv, ExactInv

\* Requests name directories that can be reached.
LEMMA VfsDirsReached == ASSUME NEW d \in VfsDirs PROVE d \in Below(RootIno)
BY DEF VfsDirs

\* Every inode that a step leaves was there before it and stays reachable, or is reached.
LEMMA StaysReached ==
    ASSUME AllReached, NEW lost,
           Below(RootIno) \subseteq Below(RootIno)' \cup {None} \cup lost,
           \A j \in Inos : inodes'[j].kind # "none" =>
               j \in Below(RootIno)' \/ (inodes[j].kind # "none" /\ j \notin lost)
    PROVE  AllReached'
<1>1. None \notin Inos
    BY ConstantsAssumption DEF Inos, None
<1> QED BY <1>1 DEF AllReached, Live

\* dbfs_common_create.
LEMMA CreateTidy ==
    ASSUME ~ReplaceLinked, IInv, IInv', TidyInv, NEW d \in VfsDirs, NEW n \in Names, NEW u \in Users,
           NEW kind \in {"dir", "node", "file"}, NEW m \in Modes, dbfs_common_create(u, d, n, kind, m)
    PROVE  TidyInv'
<1>1. CASE UNCHANGED inodes
    BY <1>1, SameTidy
<1>2. CASE /\ counter \in Inos /\ ~Live(counter) /\ inodes[d].ents[n] = None
           /\ inodes' = [inodes EXCEPT ![d].size = @ + 1, ![d].ents[n] = counter,
                                       ![counter] = NewInode(kind, counter, d, u, m)]
    <2>1. PICK num \in Inos : num = counter
        BY <1>2
    <2>2. /\ d \in Inos /\ IsDir(d) /\ d \in Below(RootIno) /\ num # RootIno /\ d # num
          /\ m \in SUBSET ModeBits /\ RootIno \in Inos /\ ~Live(num)
        BY <1>2, <2>1, VfsDirsType, VfsDirsReached, ConstantsAssumption
           DEF IInv, RootInv, IsDir, Live, RootIno, Inos
    <2>3. inodes' = [inodes EXCEPT ![d].size = @ + 1, ![d].ents[n] = num,
                                   ![num] = NewInode(kind, num, d, u, m)]
        BY <1>2, <2>1
    <2>4. TreeInv /\ NamesAgree /\ inodes \in [Inos -> Inode] /\ (inodes \in [Inos -> Inode])'
        BY InvIsTree DEF IInv, TypeOK
    <2>5. ExactInv' /\ EntryPut(d, n, num)
        BY <1>2, <2>2, <2>3, <2>4, CreateExact DEF TidyInv
    <2>6. Below(RootIno) \subseteq Below(RootIno)' \cup {None} /\ num \in Below(RootIno)'
        BY <1>2, <2>2, <2>4, <2>5, AddReach
    <2>7. \A j \in Inos : j # num => inodes'[j].kind = inodes[j].kind
        BY <2>2, <2>3, <2>4, InodeType DEF Inode
    <2>8. AllReached'
        <3>1. Below(RootIno) \subseteq Below(RootIno)' \cup {None} \cup {}
            BY <2>6
        <3> QED BY <2>6, <2>7, <3>1, StaysReached DEF TidyInv
    <2> QED BY <2>5, <2>8 DEF TidyInv
<1> QED BY <1>1, <1>2 DEF dbfs_common_create, VfsAdds, Fails, Commits

\* dbfs_common_link.
LEMMA LinkTidy ==
    ASSUME IInv, IInv', TidyInv, NEW d \in VfsDirs, NEW n \in Names, NEW u \in Users, NEW i \in Inos,
           dbfs_common_link(u, i, d, n)
    PROVE  TidyInv'
<1>1. CASE UNCHANGED inodes
    BY <1>1, SameTidy
<1>2. CASE /\ inodes[i].kind \in {"node", "file"} /\ inodes[d].ents[n] = None
           /\ inodes' = [inodes EXCEPT ![d].size = @ + 1, ![d].ents[n] = i, ![i].hard_links = @ + 1]
    <2>2. d \in Inos /\ IsDir(d) /\ d \in Below(RootIno)
        BY VfsDirsType, VfsDirsReached
    <2>4. TreeInv /\ inodes \in [Inos -> Inode] /\ (inodes \in [Inos -> Inode])'
        BY InvIsTree DEF IInv, TypeOK
    <2>5. ExactInv' /\ EntryPut(d, n, i)
        BY <1>2, <2>2, <2>4, LinkExact DEF TidyInv
    <2>6. Below(RootIno) \subseteq Below(RootIno)' \cup {None}
        BY <1>2, <2>2, <2>4, <2>5, AddReach
    <2>7. \A j \in Inos : inodes'[j].kind = inodes[j].kind
        BY <1>2, <2>2, <2>4, InodeType DEF Inode
    <2>8. AllReached'
        <3>1. Below(RootIno) \subseteq Below(RootIno)' \cup {None} \cup {}
            BY <2>6
        <3> QED BY <2>7, <3>1, StaysReached DEF TidyInv
    <2> QED BY <2>5, <2>8 DEF TidyInv
<1> QED BY <1>1, <1>2 DEF dbfs_common_link, VfsAdds, IsFile, Fails, Commits

\* The removal of an entry: a file that keeps links keeps a name in a directory
\* that can be reached, because its link count is exact.
LEMMA RemoveTidy ==
    ASSUME IInv, IInv', TidyInv, NEW d \in Inos, IsDir(d), NEW n \in Names,
           NEW i \in Inos, i = inodes[d].ents[n], i # d, Entries(i) = {},
           NEW kept, kept \in BOOLEAN,
           kept <=> inodes[i].kind \in {"node", "file"} /\ inodes[i].hard_links # 1,
           inodes' = [inodes EXCEPT ![d].size = @ - 1,
                                    ![d].ents[n] = None,
                                    ![i] = IF kept THEN [inodes[i] EXCEPT !.hard_links = @ - 1] ELSE Absent]
    PROVE  TidyInv'
<1>0. None \notin Inos /\ TreeInv /\ inodes \in [Inos -> Inode] /\ (inodes \in [Inos -> Inode])'
    <2>1. None \notin Inos
        BY ConstantsAssumption DEF None, Inos
    <2>2. TreeInv /\ inodes \in [Inos -> Inode] /\ (inodes \in [Inos -> Inode])'
        BY InvIsTree DEF IInv, TypeOK
    <2> QED BY <2>1, <2>2
<1>1. ExactInv' /\ EntryPut(d, n, None)
    BY <1>0, RemoveExact DEF TidyInv
<1>2. \A x \in Names : inodes[i].ents[x] = None
    BY DEF Entries
<1>3. Below(RootIno) \subseteq Below(RootIno)' \cup {None, i}
    BY <1>0, <1>1, <1>2, DropReach
<1>4. /\ \A j \in Inos : j # i => inodes'[j].kind = inodes[j].kind
      /\ kept => inodes'[i].kind \in {"node", "file"} /\ inodes'[i].hard_links = inodes[i].hard_links - 1
      /\ ~kept => inodes'[i].kind = "none"
    BY <1>0, InodeType DEF Inode, Absent
<1>5. ASSUME kept PROVE i \in Below(RootIno)'
    <2>0. IsFile(i)'
        BY <1>4, <1>5 DEF IsFile
    <2>1. inodes'[i].hard_links = Cardinality(NamesOf(i)') /\ inodes[i].hard_links \in Nat
        BY <1>0, <1>1, <2>0, InodeType DEF ExactInv, LinkCountExact
    <2>1a. inodes[i].hard_links # 1 /\ inodes'[i].hard_links = inodes[i].hard_links - 1
        BY <1>4, <1>5
    <2>1b. Cardinality(NamesOf(i)') # 0
        BY <2>1, <2>1a
    <2>2. NamesOf(i)' # {}
        BY <2>1b, FS_EmptySet
    <2>3. PICK e \in NamesOf(i)' : TRUE
        BY <2>2
    <2>4. e[1] \in Inos /\ e[2] \in Names /\ inodes'[e[1]].ents[e[2]] = i
        BY <2>3 DEF NamesOf
    <2>5. inodes[e[1]].ents[e[2]] = i
        <3>1. i # None
            BY <1>0
        <3>2. ~(e[1] = d /\ e[2] = n)
            BY <1>1, <2>4, <3>1 DEF EntryPut
        <3> QED BY <1>1, <2>4, <3>2 DEF EntryPut
    <2>6. IsDir(e[1]) /\ e[1] # i
        BY <1>0, <1>2, <2>4, <2>5 DEF TidyInv, ExactInv, LeavesEmpty
    <2>7. e[1] \in Below(RootIno)'
        BY <1>0, <1>3, <2>4, <2>6 DEF TidyInv, AllReached, Live, IsDir
    <2>8. \A j \in Inos, x \in Names : j \in Below(RootIno)' => inodes'[j].ents[x] \in Below(RootIno)'
        <3> DEFINE R == Under(inodes', RootIno)
        <3>1. RootIno \in Inos
            BY ConstantsAssumption DEF RootIno, Inos
        <3>2. \A j \in Inos, x \in Names : j \in R => inodes'[j].ents[x] \in R
            BY <1>0, <3>1, UnderClosed
        <3>3. Below(RootIno)' = R
            BY DEF Below, Under
        <3> QED BY <3>2, <3>3
    <2> QED BY <2>4, <2>7, <2>8
<1>6. AllReached'
    <2>1. Below(RootIno) \subseteq Below(RootIno)' \cup {None} \cup {i}
        BY <1>3
    <2>2. \A j \in Inos : inodes'[j].kind # "none" =>
              j \in Below(RootIno)' \/ (inodes[j].kind # "none" /\ j \notin {i})
        BY <1>4, <1>5
    <2> QED BY <2>1, <2>2, StaysReached DEF TidyInv
<1> QED BY <1>1, <1>6 DEF TidyInv

\* dbfs_common_unlink.
LEMMA UnlinkTidy ==
    ASSUME IInv, IInv', TidyInv, NEW d \in VfsDirs, NEW n \in Names, NEW u \in Users,
           dbfs_common_unlink(u, d, n)
    PROVE  TidyInv'
<1> DEFINE b == inodes[d].ents[n]
           kept == inodes[b].hard_links # 1
<1>1. CASE UNCHANGED inodes
    BY <1>1, SameTidy
<1>2. CASE inodes' = [inodes EXCEPT ![d].size = @ - 1, ![d].ents[n] = None,
                                    ![b] = IF kept THEN [inodes[b] EXCEPT !.hard_links = @ - 1] ELSE Absent]
    <2>0. d \in Inos /\ IsDir(d) /\ inodes \in [Inos -> Inode]
        BY VfsDirsType DEF IInv, TypeOK
    <2>1. b \in Inos /\ inodes[b].kind \in {"node", "file"} /\ b # d
        BY <2>0, InodeType DEF dbfs_common_unlink, VfsRemoves, IsDir
    <2>2. Entries(b) = {}
        BY <2>1 DEF TidyInv, ExactInv, LeavesEmpty, IsDir, Entries
    <2>3. kept \in BOOLEAN /\ (kept <=> inodes[b].kind \in {"node", "file"} /\ inodes[b].hard_links # 1)
        BY <2>1
    <2> HIDE DEF kept
    <2> QED BY <1>2, <2>0, <2>1, <2>2, <2>3, RemoveTidy
<1> QED BY <1>1, <1>2 DEF dbfs_common_unlink, Fails, Commits

\* dbfs_common_rmdir.
LEMMA RmdirTidy ==
    ASSUME IInv, IInv', TidyInv, NEW d \in VfsDirs, NEW n \in Names, NEW u \in Users,
           dbfs_common_rmdir(u, d, n)
    PROVE  TidyInv'
<1> DEFINE b == inodes[d].ents[n]
<1>1. CASE UNCHANGED inodes
    BY <1>1, SameTidy
<1>2. CASE /\ inodes[b].size <= 2
           /\ inodes' = [inodes EXCEPT ![d].size = @ - 1, ![d].ents[n] = None, ![b] = Absent]
    <2>0. d \in Inos /\ IsDir(d) /\ inodes \in [Inos -> Inode]
        BY VfsDirsType DEF IInv, TypeOK
    <2>1. b \in Inos /\ IsDir(b) /\ b # RootIno
        BY <2>0, InodeType DEF dbfs_common_rmdir, VfsRemoves, IsDir, IInv, RootInv
    <2>2. Entries(b) = {}
        BY <1>2, <2>1, SmallIsEmpty
    <2>3. n \in Entries(d)
        BY <2>1, ConstantsAssumption DEF Entries, None, Inos
    <2>4. b # d
        BY <2>2, <2>3
    <2>5. inodes' = [inodes EXCEPT ![d].size = @ - 1, ![d].ents[n] = None,
                                   ![b] = IF FALSE THEN [inodes[b] EXCEPT !.hard_links = @ - 1] ELSE Absent]
        BY <1>2
    <2>6. FALSE <=> inodes[b].kind \in {"node", "file"} /\ inodes[b].hard_links # 1
        BY <2>1 DEF IsDir
    <2> QED BY <2>0, <2>1, <2>2, <2>4, <2>5, <2>6, RemoveTidy
<1> QED BY <1>1, <1>2 DEF dbfs_common_rmdir, Fails, Commits

\* What has no entries is above nothing.
LEMMA NothingBelow ==
    ASSUME NEW i \in Inos, \A x \in Names : inodes[i].ents[x] = None
    PROVE  Below(i) \subseteq {i, None}
<1>1. None \notin Inos
    BY ConstantsAssumption DEF None, Inos
<1>2. ASSUME NEW j \in Inos, NEW x \in Names, j \in {i, None}
      PROVE  inodes[j].ents[x] \in {i, None}
    BY <1>1, <1>2
<1>3. Under(inodes, i) \subseteq {i, None}
    BY <1>2, UnderLeast
<1> QED BY <1>3 DEF Below, Under

\* dbfs_common_rename without flags, onto a name that is free or that is looked up.
LEMMA MoveTidy ==
    ASSUME ~Overwrite, ~ReplaceLinked, IInv, IInv', TidyInv, NEW od \in VfsDirs, NEW nd \in VfsDirs,
           NEW on \in Names, NEW nn \in Names, NEW u \in Users, RenameMove(u, od, on, nd, nn)
    PROVE  TidyInv'
<1>1. CASE UNCHANGED inodes
    BY <1>1, SameTidy
<1>2. CASE LET target == RenameTarget(nd, nn)
           IN  /\ ~(target # None /\ S_IFDIR(target) /\ inodes[target].size > 2)
               /\ ~RenamePanics(od, on, nd, nn)
               /\ inodes' = Moved(od, on, nd, nn)
    <2>0. /\ od \in Inos /\ nd \in Inos /\ IsDir(od) /\ IsDir(nd)
          /\ nd \in Below(RootIno)
        BY VfsDirsType, VfsDirsReached
    <2>1. TreeInv /\ inodes \in [Inos -> Inode] /\ (inodes \in [Inos -> Inode])'
        BY InvIsTree DEF IInv, TypeOK
    <2>2. PICK s \in Inos : s = inodes[od].ents[on]
        BY <2>0, <2>1, InodeType DEF RenameMove, VfsRename
    <2>3. PICK t \in Inos \cup {None} : t = inodes[nd].ents[nn]
        BY <2>0, <2>1, InodeType
    <2>4. s # t /\ (IsDir(s) => nd \notin Below(s))
        BY <2>2, <2>3 DEF RenameMove, VfsRename
    <2>5. t = RenameTarget(nd, nn)
        BY <2>3 DEF RenameMove, VfsRename, RenameTarget
    <2>6. (t # None => Deletable(t)) /\ NamesAgree
        BY <1>2, <2>1, <2>3, <2>5, TargetDeletable DEF IInv
    <2>7. ExactInv' /\ MovedEntries(od, on, nd, nn, s)
        BY <1>2, <2>0, <2>1, <2>2, <2>3, <2>4, <2>5, <2>6, MoveExact DEF TidyInv
    <2>8. MoveShape(od, on, nd, nn, s, t)
        BY <1>2, <2>0, <2>1, <2>2, <2>3, <2>4, <2>5, <2>6, MoveFacts
    <2>9. t # nd /\ (t # None => \A x \in Names : inodes[t].ents[x] = None)
        BY <2>3, <2>8 DEF MoveShape, Entries, TidyInv, ExactInv, LeavesEmpty
    <2>10. nd \notin Below(s)
        <3>1. CASE IsDir(s)
            BY <2>4, <3>1
        <3>2. CASE ~IsDir(s)
            <4>1. Below(s) \subseteq {s, None}
                BY <2>2, <3>2, NothingBelow DEF TidyInv, ExactInv, LeavesEmpty
            <4>2. nd # s
                BY <2>0, <3>2
            <4>3. None \notin Inos
                BY ConstantsAssumption DEF None, Inos
            <4> QED BY <2>0, <4>1, <4>2, <4>3
        <3> QED BY <3>1, <3>2
    <2>11. Below(RootIno) \subseteq Below(RootIno)' \cup {None, t}
        BY <2>0, <2>1, <2>2, <2>3, <2>7, <2>9, <2>10, MoveReach
    <2>12. AllReached'
        <3>1. Below(RootIno) \subseteq Below(RootIno)' \cup {None} \cup {t}
            BY <2>11
        <3>2. \A j \in Inos : inodes'[j].kind = IF j = t THEN "none" ELSE inodes[j].kind
            BY <2>8 DEF MoveShape, MovesTo
        <3>3. \A j \in Inos : inodes'[j].kind # "none" =>
                  j \in Below(RootIno)' \/ (inodes[j].kind # "none" /\ j \notin {t})
            BY <3>2
        <3> QED BY <3>1, <3>3, StaysReached DEF TidyInv
    <2> QED BY <2>7, <2>12 DEF TidyInv
<1> QED BY <1>1, <1>2 DEF RenameMove, Fails, Commits

\* dbfs_common_rename with the exchange flag, of two files.
LEMMA ExchangeTidy ==
    ASSUME ~ExchangeDirs, IInv, IInv', TidyInv, NEW od \in VfsDirs, NEW nd \in VfsDirs,
           NEW on \in Names, NEW nn \in Names, NEW u \in Users, RenameExchange(u, od, on, nd, nn)
    PROVE  TidyInv'
<1>1. CASE UNCHANGED inodes
    BY <1>1, SameTidy
<1>2. CASE inodes' = Exchanged(od, on, nd, nn)
    <2>0. /\ od \in Inos /\ nd \in Inos /\ IsDir(od) /\ IsDir(nd)
          /\ od \in Below(RootIno) /\ nd \in Below(RootIno)
        BY VfsDirsType, VfsDirsReached
    <2>1. TreeInv /\ inodes \in [Inos -> Inode] /\ (inodes \in [Inos -> Inode])'
        BY InvIsTree DEF IInv, TypeOK
    <2>2. PICK s \in Inos : s = inodes[od].ents[on]
        BY <2>0, <2>1, InodeType DEF RenameExchange, VfsRename
    <2>3. PICK t \in Inos : t = inodes[nd].ents[nn]
        BY <2>0, <2>1, InodeType DEF RenameExchange, VfsRename
    <2>4. s # t /\ ~IsDir(s) /\ ~IsDir(t)
        BY <2>2, <2>3 DEF RenameExchange, VfsRename
    <2>5. ExactInv'
        BY <1>2, <2>0, <2>1, <2>2, <2>3, <2>4, ExchangeExact DEF TidyInv
    <2>6. ExchangesTo(inodes', od, on, nd, nn, s, t)
        BY <1>2, <2>0, <2>1, <2>2, <2>3, ExchangeEffect
    <2>7. /\ \A x \in Names : inodes[s].ents[x] = None
          /\ \A x \in Names : inodes[t].ents[x] = None
        BY <2>4 DEF TidyInv, ExactInv, LeavesEmpty
    <2>8. od \notin {s, t} /\ nd \notin {s, t}
        BY <2>0, <2>4
    <2>9. ~(od = nd /\ on = nn)
        BY <2>2, <2>3, <2>4
    <2>10. EntriesSwapped(od, on, nd, nn, s, t)
        BY <2>6 DEF ExchangesTo, EntriesSwapped
    <2>11. Below(RootIno) \subseteq Below(RootIno)' \cup {None}
        BY <2>0, <2>1, <2>2, <2>3, <2>7, <2>8, <2>9, <2>10, SwapReach
    <2>12. AllReached'
        <3>1. Below(RootIno) \subseteq Below(RootIno)' \cup {None} \cup {}
            BY <2>11
        <3>2. \A j \in Inos : inodes'[j].kind = inodes[j].kind
            BY <2>6 DEF ExchangesTo
        <3> QED BY <3>1, <3>2, StaysReached DEF TidyInv
    <2> QED BY <2>5, <2>12 DEF TidyInv
<1> QED BY <1>1, <1>2 DEF RenameExchange, Fails, Commits

\* dbfs_common_root_inode.
LEMMA MountTidy == ASSUME IInv, IInv', TidyInv, Mount PROVE TidyInv'
<1>1. CASE UNCHANGED inodes
    BY <1>1, SameTidy
<1>2. CASE ~Live(RootIno) /\ inodes' = [inodes EXCEPT ![RootIno] = RootInode]
    <2>1. TreeInv /\ inodes \in [Inos -> Inode] /\ (inodes \in [Inos -> Inode])'
        BY InvIsTree DEF IInv, TypeOK
    <2>2. RootIno \in Inos
        BY ConstantsAssumption DEF RootIno, Inos
    <2>3. ExactInv'
        BY <1>2, <2>1, MountExact DEF TidyInv
    <2>4. \A x \in Names : inodes[RootIno].ents[x] = None
        BY <1>2, <2>2 DEF TidyInv, ExactInv, LeavesEmpty, Live, IsDir
    <2>5. \A j \in Inos : j # RootIno => inodes'[j] = inodes[j]
        BY <1>2, <2>1, <2>2
    <2>6. Below(RootIno) \subseteq {RootIno, None}
        BY <2>2, <2>4, NothingBelow
    <2>7. None \notin Inos
        BY ConstantsAssumption DEF None, Inos
    <2>8. AllReached'
        <3> DEFINE R == Under(inodes', RootIno)
        <3>1. RootIno \in R
            BY <2>1, <2>2, UnderClosed
        <3>2. Below(RootIno)' = R
            BY DEF Below, Under
        <3>3. ASSUME NEW j \in Inos, inodes'[j].kind # "none" PROVE j = RootIno
            BY <2>5, <2>6, <2>7, <3>3 DEF TidyInv, AllReached, Live
        <3> QED BY <3>1, <3>2, <3>3 DEF AllReached, Live
    <2> QED BY <2>3, <2>8 DEF TidyInv
<1> QED BY <1>1, <1>2 DEF Mount

\* Before init_db there is nothing to be wrong.
LEMMA InitTidy == Init => TidyInv
<1> SUFFICES ASSUME Init PROVE TidyInv
    OBVIOUS
<1>1. \A i \in Inos : inodes[i].kind = "none" /\ \A x \in Names : inodes[i].ents[x] = None
    BY DEF Init, Absent, NoEnts
<1> QED BY <1>1 DEF TidyInv, ExactInv, LeavesEmpty, DirsExact, LinkCountExact, IsFile, AllReached, Live, IsDir

\* Every step of such clients.
LEMMA NextTidy ==
    ASSUME ~Overwrite, ~ExchangeDirs, ~ReplaceLinked
    PROVE  IInv /\ IInv' /\ TidyInv /\ [Next]_vars => TidyInv'
<1> SUFFICES ASSUME IInv, IInv', TidyInv, [Next]_vars PROVE TidyInv'
    OBVIOUS
<1>1. CASE init_db \/ Unmount \/ Crash \/ UNCHANGED vars
    BY <1>1, SameTidy DEF init_db, Unmount, Crash, vars
<1>2. CASE Mount
    BY <1>2, MountTidy
<1>3. CASE \E d \in VfsDirs, n \in Names, u \in Users :
            \/ \E kind \in {"dir", "node", "file"}, m \in Modes : dbfs_common_create(u, d, n, kind, m)
            \/ \E i \in Inos : dbfs_common_link(u, i, d, n)
            \/ dbfs_common_unlink(u, d, n)
            \/ dbfs_common_rmdir(u, d, n)
    BY <1>3, CreateTidy, LinkTidy, UnlinkTidy, RmdirTidy
<1>4. CASE \E od, nd \in VfsDirs, on, nn \in Names, u \in Users :
            RenameMove(u, od, on, nd, nn) \/ RenameExchange(u, od, on, nd, nn)
    BY <1>4, MoveTidy, ExchangeTidy
<1> QED BY <1>1, <1>2, <1>3, <1>4 DEF Next

-----------------------------------------------------------------------------
(***************************************************************************)
(* What holds when clients neither rename onto names that the code does    *)
(* not look up, nor exchange directories, nor rename onto a socket or a    *)
(* block device that has another name: the cases in which the code leaves  *)
(* an inode without a name (the overwritten entry's inode is not touched,  *)
(* see RenameTarget), a directory with a wrong ".", or a name without an   *)
(* inode.                                                                  *)
(***************************************************************************)

\* The exact invariant holds of every reachable state.
THEOREM TidyInvariance == ASSUME ~Overwrite, ~ExchangeDirs, ~ReplaceLinked PROVE Spec => []TidyInv
<1>1. IInv /\ IInv' /\ TidyInv /\ [Next]_vars => TidyInv'
    BY NextTidy
<1> QED BY <1>1, InitTidy, Invariance, PTL DEF Spec

\* A directory's recorded size is exactly its number of entries, with "." and,
\* except in the root, "..": dbfs_common_rmdir of an empty directory never
\* answers NotEmpty.
THEOREM SizesExact == ASSUME ~Overwrite, ~ExchangeDirs, ~ReplaceLinked PROVE Spec => []DirSizeExact
<1>1. TypeOK /\ TidyInv => DirSizeExact
    <2> SUFFICES ASSUME TidyInv, NEW d \in Inos, IsDir(d)
                 PROVE  inodes[d].size = Cardinality(Entries(d))
                            + Cardinality({x \in {"dot", "dotdot"} : inodes[d][x] # None})
        BY DEF DirSizeExact
    <2> DEFINE D == {x \in {"dot", "dotdot"} : inodes[d][x] # None}
    <2>1. /\ inodes[d].dot = d
          /\ inodes[d].dotdot = None <=> d = RootIno
          /\ inodes[d].size = Cardinality(Entries(d)) + (IF d = RootIno THEN 1 ELSE 2)
        BY DEF TidyInv, ExactInv, DirsExact
    <2>2. d # None
        BY ConstantsAssumption DEF None, Inos
    <2>3. Cardinality(D) = IF d = RootIno THEN 1 ELSE 2
        <3>1. CASE d = RootIno
            <4>1. D = {"dot"}
                BY <2>1, <2>2, <3>1
            <4> QED BY <3>1, <4>1, FS_Singleton
        <3>2. CASE d # RootIno
            <4>1. D = {"dot"} \cup {"dotdot"}
                BY <2>1, <2>2, <3>2
            <4>2. Cardinality({"dot"}) = 1 /\ IsFiniteSet({"dot"})
                BY FS_Singleton
            <4>3. Cardinality({"dot"} \cup {"dotdot"}) = Cardinality({"dot"}) + 1
                BY <4>2, FS_AddElement
            <4> QED BY <3>2, <4>1, <4>2, <4>3
        <3> QED BY <3>1, <3>2
    <2> HIDE DEF D
    <2>4. inodes[d].size = Cardinality(Entries(d)) + Cardinality(D)
        BY <2>1, <2>3
    <2> QED BY <2>4 DEF D
<1> QED BY <1>1, TypeCorrect, TidyInvariance, PTL

\* A file's link count is exactly its number of names: dbfs_common_unlink deletes
\* the inode with its last name and not before.
THEOREM LinksExact == ASSUME ~Overwrite, ~ExchangeDirs, ~ReplaceLinked PROVE Spec => []LinkCountExact
<1>1. TidyInv => LinkCountExact
    BY DEF TidyInv, ExactInv
<1> QED BY <1>1, TidyInvariance, PTL

\* "." and ".." are right through creation, moves, removals and crashes.
THEOREM DotsTheorem == ASSUME ~Overwrite, ~ExchangeDirs, ~ReplaceLinked PROVE Spec => []DotsExact
<1>1. TidyInv => DotsExact
    BY DEF TidyInv, ExactInv, DirsExact, DotsExact
<1> QED BY <1>1, TidyInvariance, PTL

\* No inode is leaked: each one can be reached from the root directory, whatever
\* the sequence of moves of whole subtrees, failed requests and crashes.
THEOREM NoLeak == ASSUME ~Overwrite, ~ExchangeDirs, ~ReplaceLinked PROVE Spec => []NothingLeaked
<1>1. TidyInv => NothingLeaked
    BY DEF TidyInv, AllReached, NothingLeaked
<1> QED BY <1>1, TidyInvariance, PTL

=============================================================================
