---------------------------- MODULE DbfsTProofs ----------------------------
(***************************************************************************)
(* Theorems about the names and the data of DBFS-T: for every set of names *)
(* and of files, every bound, every set of operations that may end half    *)
(* way and every size of the device.                                       *)
(***************************************************************************)
EXTENDS DbfsTNames, DbfsTData, LibraryProofs, FiniteSetTheorems, TLAPS

(***************************************************************************)
(*                                 Names                                   *)
(***************************************************************************)

\* The root keeps its two links, every other number in use has one.
LinksOK ==
    /\ inodes[RootIno] = [kind |-> "dir", nlink |-> 2]
    /\ \A i \in Inos \ {RootIno} : IF Live(i) THEN inodes[i].nlink = 1 ELSE inodes[i].nlink = 0

\* No operation makes a name for the root.
RootUnnamed == \A d \in Inos, n \in Names : dirs[d][n] # RootIno

\* Only a rename that ended half way gives a number two names.
OneName ==
    \A d, e \in Inos, n, m \in Names :
        dirs[d][n] = dirs[e][m] /\ dirs[d][n] \notin split \cup {None} => d = e /\ n = m

\* Only directories have entries: a number is not used again while its bucket
\* has some.
EntriesInDirs == \A d \in Inos : dirs[d] # NoEntries => inodes[d].kind = "dir"

NamesInv == NoDangling /\ LinksOK /\ RootUnnamed /\ OneName /\ EntriesInDirs

-----------------------------------------------------------------------------
(* The greatest number *)

\* A bounded set of positive numbers has a greatest one, which Max is.
LEMMA MaxIsGreatest ==
    ASSUME NEW S, NEW n \in Nat, S \subseteq 1..n, S # {}
    PROVE  Max(S) \in S /\ \A y \in S : y <= Max(S)
<1> DEFINE T == {n - s : s \in S}
<1>1. \A s \in S : n - s \in Nat
    OBVIOUS
<1>2. T \in SUBSET Nat /\ T # {}
    BY <1>1
<1>3. PICK x \in T : \A y \in T : x <= y
    BY <1>2, LeastNatural
<1>4. PICK m \in S : x = n - m
    OBVIOUS
<1>5. ASSUME NEW y \in S PROVE m >= y
    <2>1. n - y \in T
        OBVIOUS
    <2>2. x <= n - y
        BY <1>3, <2>1
    <2> QED BY <1>4, <2>2
<1>6. Max(S) \in S /\ \A y \in S : Max(S) >= y
    BY <1>5 DEF Max
<1>7. \A y \in S : y \in Int
    OBVIOUS
<1> QED BY <1>6, <1>7

\* The number that allocate_inode hands out is above every number in use, and
\* so is not in use itself.
LEMMA NewInoIsFree ==
    ASSUME NamesTypeOK
    PROVE  /\ NewIno \in Nat /\ NewIno > RootIno
           /\ \A i \in Inos : Live(i) => i < NewIno
<1> DEFINE S == {i \in Inos : Live(i)} \cup {1}
<1>1. MaxIno \in Nat /\ S \subseteq 1..MaxIno /\ S # {}
    BY NamesAssumption DEF Inos
<1>2. Max(S) \in S /\ \A y \in S : y <= Max(S)
    BY <1>1, MaxIsGreatest
<1>3. Max(S) \in 1..MaxIno
    BY <1>1, <1>2
<1>4. NewIno = Max(S) + 1
    BY DEF NewIno
<1> HIDE DEF S
<1>5. \A y \in S : y \in Nat /\ y < NewIno
    BY <1>1, <1>2, <1>3, <1>4
<1> QED BY <1>3, <1>4, <1>5 DEF S, RootIno

-----------------------------------------------------------------------------
(* The operations *)

\* Before anything happens, there is the root.
LEMMA InitInv == NamesInit => NamesInv
<1> SUFFICES ASSUME NamesInit PROVE NamesInv
    OBVIOUS
<1> RootIno \in Inos
    BY NamesAssumption DEF Inos, RootIno
<1>1. NamesTypeOK
    BY DEF NamesInit, NamesTypeOK, NoEntries, Absent, InodeMetadata
<1>2. \A d \in Inos, n \in Names : dirs[d][n] = None
    BY DEF NamesInit, NoEntries
<1>3. LinksOK
    BY DEF NamesInit, LinksOK, Live, Absent
<1> QED BY <1>1, <1>2, <1>3 DEF NamesInit, NamesInv, NoDangling, RootUnnamed, OneName, EntriesInDirs, None, RootIno

\* create and mkdir, whole or with the inode alone.
LEMMA CreateInv ==
    ASSUME NamesInv, NEW d \in VfsDirs, NEW n \in Names, NEW op, create(d, n, op)
    PROVE  NamesInv' /\ \A e \in Inos : dirs[e] # NoEntries => inodes'[e].kind = "dir"
<1> DEFINE i == NewIno
           kind == IF op = "mkdir" THEN "dir" ELSE "file"
<1>1. d \in Inos /\ inodes[d].kind = "dir" /\ RootIno \in Inos
    BY NamesAssumption DEF VfsDirs, Inos, RootIno
<1>2. i \in Inos /\ i # RootIno /\ ~Live(i) /\ i # None
    BY NewInoIsFree DEF NamesInv, NoDangling, create, Inos, RootIno, None
<1>3. kind \in {"dir", "file"} /\ inodes' = [inodes EXCEPT ![i] = [kind |-> kind, nlink |-> 1]]
    BY DEF create, Allocated
<1> HIDE DEF i, kind
<1>4. NamesTypeOK /\ inodes' \in [Inos -> InodeMetadata]
    BY <1>2, <1>3 DEF NamesInv, NoDangling, NamesTypeOK, InodeMetadata
<1>5. /\ inodes'[i] = [kind |-> kind, nlink |-> 1]
      /\ \A j \in Inos \ {i} : inodes'[j] = inodes[j]
    BY <1>2, <1>3, <1>4 DEF NamesTypeOK
<1>6. \A e \in Inos : dirs[e] # NoEntries => inodes'[e].kind = "dir"
    BY <1>2, <1>5 DEF NamesInv, EntriesInDirs, Live
<1>7. LinksOK'
    BY <1>1, <1>2, <1>3, <1>5 DEF NamesInv, LinksOK, Live
<1>8. \A j \in Inos : Live(j) => inodes'[j].kind # "none"
    BY <1>2, <1>3, <1>5 DEF Live
<1>9. inodes'[i].kind # "none"
    BY <1>3, <1>5 DEF Live
<1>10. CASE Whole /\ dirs' = [dirs EXCEPT ![d][n] = i]
    <2>1. dirs' \in [Inos -> [Names -> Inos \cup {None}]]
        BY <1>1, <1>2, <1>4, <1>10 DEF NamesTypeOK
    <2>2. /\ dirs'[d][n] = i
          /\ \A e \in Inos, m \in Names : <<e, m>> # <<d, n>> => dirs'[e][m] = dirs[e][m]
          /\ \A e \in Inos \ {d} : dirs'[e] = dirs[e]
        BY <1>1, <1>4, <1>10 DEF NamesTypeOK
    <2>3. NamesTypeOK'
        BY <1>4, <1>10, <2>1 DEF NamesTypeOK, Whole
    <2>4. NoDangling'
        BY <1>2, <1>4, <1>8, <1>9, <1>10, <2>2, <2>3 DEF NamesInv, NoDangling, NamesTypeOK, Live, Whole
    <2>5. RootUnnamed'
        BY <1>2, <2>2 DEF NamesInv, RootUnnamed
    <2>6. \A e \in Inos, m \in Names : dirs[e][m] = i => i \in split
        BY <1>2 DEF NamesInv, NoDangling
    <2>7. OneName'
        <3> SUFFICES ASSUME NEW e \in Inos, NEW f \in Inos, NEW m \in Names, NEW k \in Names,
                            dirs'[e][m] = dirs'[f][k], dirs'[e][m] \notin split \cup {None}
                     PROVE  e = f /\ m = k
            BY <1>10 DEF OneName, Whole
        <3>1. CASE <<e, m>> = <<d, n>> \/ <<f, k>> = <<d, n>>
            BY <2>2, <2>6, <3>1
        <3>2. CASE <<e, m>> # <<d, n>> /\ <<f, k>> # <<d, n>>
            BY <2>2, <3>2 DEF NamesInv, OneName
        <3> QED BY <3>1, <3>2
    <2>8. EntriesInDirs'
        BY <1>1, <1>2, <1>5, <1>6, <2>2 DEF EntriesInDirs, Live
    <2> QED BY <1>6, <1>7, <2>4, <2>5, <2>7, <2>8 DEF NamesInv
<1>11. CASE Cut(op) /\ UNCHANGED dirs
    <2>1. NamesTypeOK'
        BY <1>4, <1>11 DEF NamesTypeOK, Cut
    <2>2. NoDangling'
        BY <1>4, <1>8, <1>11, <2>1 DEF NamesInv, NoDangling, NamesTypeOK, Live, Cut
    <2>3. RootUnnamed' /\ OneName' /\ EntriesInDirs'
        BY <1>6, <1>11 DEF NamesInv, RootUnnamed, OneName, EntriesInDirs, Cut
    <2> QED BY <1>6, <1>7, <2>2, <2>3 DEF NamesInv
<1> QED BY <1>10, <1>11 DEF create, add_dentry, i

\* What removing the entry n of d does to the directories.
LEMMA EntryRemoved ==
    ASSUME NamesInv, NEW d \in Inos, NEW n \in Names, dirs[d][n] # None,
           NEW without, without = delete_dentry(dirs, d, n)
    PROVE  /\ without \in [Inos -> [Names -> Inos \cup {None}]]
           /\ without[d][n] = None
           /\ \A e \in Inos, m \in Names : without[e][m] # None =>
                dirs[e][m] = without[e][m] /\ <<e, m>> # <<d, n>>
           /\ \A e \in Inos : without[e] # NoEntries => dirs[e] # NoEntries
<1>1. dirs \in [Inos -> [Names -> Inos \cup {None}]]
    BY DEF NamesInv, NoDangling, NamesTypeOK
<1>2. without = [dirs EXCEPT ![d][n] = None]
    BY DEF delete_dentry
<1>3. /\ without \in [Inos -> [Names -> Inos \cup {None}]]
      /\ without[d][n] = None
      /\ \A e \in Inos, m \in Names : <<e, m>> # <<d, n>> => without[e][m] = dirs[e][m]
      /\ \A e \in Inos \ {d} : without[e] = dirs[e]
    BY <1>1, <1>2
<1>4. dirs[d] # NoEntries
    BY DEF NoEntries
<1> QED BY <1>3, <1>4

\* Taking an entry away, in the first transaction of an operation, keeps
\* everything true.
LEMMA RemovalInv ==
    ASSUME NamesInv, NEW d \in Inos, NEW n \in Names, dirs[d][n] # None, NEW op,
           dirs' = delete_dentry(dirs, d, n), Cut(op), UNCHANGED inodes
    PROVE  NamesInv'
<1>1. /\ dirs' \in [Inos -> [Names -> Inos \cup {None}]]
      /\ \A e \in Inos, m \in Names : dirs'[e][m] # None => dirs[e][m] = dirs'[e][m]
      /\ \A e \in Inos : dirs'[e] # NoEntries => dirs[e] # NoEntries
    BY EntryRemoved
<1>2. split' = split /\ tidy' \in BOOLEAN /\ inodes' = inodes
    BY DEF Cut
<1>3. NamesTypeOK'
    BY <1>1, <1>2 DEF NamesInv, NoDangling, NamesTypeOK
<1>4. LinksOK' /\ EntriesInDirs'
    BY <1>1, <1>2 DEF NamesInv, LinksOK, Live, EntriesInDirs
<1>5. NoDangling' /\ RootUnnamed'
    BY <1>1, <1>2, <1>3 DEF NamesInv, NoDangling, Live, RootUnnamed, None, RootIno
<1>6. OneName'
    BY <1>1, <1>2 DEF NamesInv, OneName
<1> QED BY <1>3, <1>4, <1>5, <1>6 DEF NamesInv

\* Taking away an inode that has no entries, and the entry that names it, as
\* unlink and rmdir do when nothing stops them: unless a rename of it ended half
\* way, this was its only name.
LEMMA DeletionInv ==
    ASSUME NamesInv, NEW d \in Inos, NEW n \in Names, dirs[d][n] # None, inodes[d].kind = "dir",
           dirs[dirs[d][n]] = NoEntries, Whole,
           dirs' = dirs_Without(delete_dentry(dirs, d, n), dirs[d][n]),
           inodes' = inodes_Without(dirs[d][n])
    PROVE  NamesInv' /\ \A e \in Inos : dirs[e] # NoEntries => inodes'[e].kind = "dir"
<1> DEFINE i == dirs[d][n]
           without == delete_dentry(dirs, d, n)
<1>1. i \in Inos /\ i # RootIno /\ i # d
    BY DEF NamesInv, NoDangling, NamesTypeOK, RootUnnamed, NoEntries
<1>2. /\ without \in [Inos -> [Names -> Inos \cup {None}]]
      /\ \A e \in Inos, m \in Names : without[e][m] # None =>
            dirs[e][m] = without[e][m] /\ <<e, m>> # <<d, n>>
      /\ \A e \in Inos : without[e] # NoEntries => dirs[e] # NoEntries
    BY EntryRemoved
<1>3. dirs' = [without EXCEPT ![i] = NoEntries] /\ inodes' = [inodes EXCEPT ![i] = Absent]
    BY DEF dirs_Without, inodes_Without
<1>4. split' = split /\ tidy' = tidy
    BY DEF Whole
<1>5. NoEntries \in [Names -> Inos \cup {None}] /\ \A m \in Names : NoEntries[m] = None
    BY DEF NoEntries
<1>6. NamesInv /\ dirs[i] = NoEntries
    OBVIOUS
<1> HIDE DEF i, without
<1>7. /\ dirs' \in [Inos -> [Names -> Inos \cup {None}]]
      /\ \A e \in Inos, m \in Names : dirs'[e][m] # None =>
            dirs[e][m] = dirs'[e][m] /\ <<e, m>> # <<d, n>>
      /\ \A e \in Inos : dirs'[e] # NoEntries => dirs[e] # NoEntries /\ e # i
    BY <1>1, <1>2, <1>3, <1>5
<1>8. /\ inodes' \in [Inos -> InodeMetadata] /\ inodes'[i] = Absent
      /\ \A j \in Inos \ {i} : inodes'[j] = inodes[j]
    BY <1>1, <1>3 DEF NamesInv, NoDangling, NamesTypeOK, InodeMetadata, Absent
<1>9. NamesTypeOK'
    BY <1>4, <1>7, <1>8 DEF NamesInv, NoDangling, NamesTypeOK
<1>10. \A e \in Inos, m \in Names : dirs'[e][m] \notin split \cup {None} => dirs'[e][m] # i
    BY <1>7 DEF i, NamesInv, OneName
<1>11. NoDangling'
    <2> SUFFICES ASSUME NEW e \in Inos, NEW m \in Names, dirs'[e][m] \notin split \cup {None}
                 PROVE  inodes'[dirs'[e][m]].kind # "none"
        BY <1>4, <1>9 DEF NoDangling, Live
    <2>1. dirs'[e][m] \in Inos \ {i} /\ dirs'[e][m] = dirs[e][m]
        BY <1>7, <1>10
    <2>2. Live(dirs[e][m])
        BY <1>6, <2>1 DEF NamesInv, NoDangling
    <2> QED BY <1>8, <2>1, <2>2 DEF Live
<1>12. LinksOK'
    <2>1. RootIno \in Inos \ {i}
        BY <1>1, NamesAssumption DEF Inos, RootIno
    <2>2. inodes'[i].kind = "none" /\ inodes'[i].nlink = 0
        BY <1>8 DEF Absent
    <2> QED BY <1>6, <1>8, <2>1, <2>2 DEF NamesInv, LinksOK, Live
<1>13. RootUnnamed'
    BY <1>7 DEF NamesInv, RootUnnamed, None, RootIno
<1>14. OneName'
    <2> SUFFICES ASSUME NEW e \in Inos, NEW f \in Inos, NEW m \in Names, NEW k \in Names,
                        dirs'[e][m] = dirs'[f][k], dirs'[e][m] \notin split \cup {None}
                 PROVE  e = f /\ m = k
        BY <1>4 DEF OneName
    <2>1. dirs[e][m] = dirs'[e][m] /\ dirs[f][k] = dirs'[f][k]
        BY <1>7
    <2> QED BY <1>6, <2>1 DEF NamesInv, OneName
<1>15. \A e \in Inos : dirs[e] # NoEntries => inodes'[e].kind = "dir"
    BY <1>6, <1>8 DEF NamesInv, EntriesInDirs
<1>16. EntriesInDirs'
    BY <1>7, <1>15 DEF EntriesInDirs
<1> QED BY <1>11, <1>12, <1>13, <1>14, <1>15, <1>16 DEF NamesInv

\* unlink: a link count that reaches zero takes the inode away. An entry that names
\* no metadata is removed alone.
LEMMA UnlinkInv ==
    ASSUME NamesInv, NEW d \in VfsDirs, NEW n \in Names, unlink(d, n)
    PROVE  NamesInv' /\ \A e \in Inos : dirs[e] # NoEntries => inodes'[e].kind = "dir"
<1> DEFINE i == dirs[d][n]
           left == IF inodes[i].nlink > 0 THEN inodes[i].nlink - 1 ELSE 0
<1>1. d \in Inos /\ inodes[d].kind = "dir"
    BY DEF VfsDirs
<1>2. i # None /\ inodes[i].kind # "dir"
    BY DEF unlink
<1>3. i \in Inos /\ i # RootIno /\ dirs[i] = NoEntries
    BY <1>1, <1>2 DEF NamesInv, NoDangling, NamesTypeOK, RootUnnamed, EntriesInDirs
<1>4. left = 0
    BY <1>3 DEF NamesInv, LinksOK
<1>5. CASE Cut("unlink") /\ dirs' = delete_dentry(dirs, d, n) /\ UNCHANGED inodes
    BY <1>1, <1>2, <1>5, RemovalInv DEF NamesInv, EntriesInDirs
<1>6. CASE Whole /\ dirs' = dirs_Without(delete_dentry(dirs, d, n), i) /\ inodes' = inodes_Without(i)
    BY <1>1, <1>2, <1>3, <1>6, DeletionInv
<1> QED BY <1>4, <1>5, <1>6 DEF unlink

\* rmdir: the directory has no entries.
LEMMA RmdirInv ==
    ASSUME NamesInv, NEW d \in VfsDirs, NEW n \in Names, rmdir(d, n)
    PROVE  NamesInv' /\ \A e \in Inos : dirs[e] # NoEntries => inodes'[e].kind = "dir"
<1> DEFINE i == dirs[d][n]
<1>1. d \in Inos /\ inodes[d].kind = "dir"
    BY DEF VfsDirs
<1>2. i # None /\ dirs[i] = NoEntries
    BY DEF rmdir
<1>3. CASE Cut("rmdir") /\ dirs' = delete_dentry(dirs, d, n) /\ UNCHANGED inodes
    BY <1>1, <1>2, <1>3, RemovalInv DEF NamesInv, EntriesInDirs
<1>4. CASE Whole /\ dirs' = dirs_Without(delete_dentry(dirs, d, n), i) /\ inodes' = inodes_Without(i)
    BY <1>1, <1>2, <1>4, DeletionInv
<1> QED BY <1>3, <1>4 DEF rmdir

\* rename_to: the number moves, and has two names only if the rename ended half
\* way.
LEMMA RenameInv ==
    ASSUME NamesInv, NEW od \in VfsDirs, NEW nd \in VfsDirs, NEW on \in Names, NEW nn \in Names,
           rename_to(od, on, nd, nn)
    PROVE  NamesInv' /\ \A e \in Inos : dirs[e] # NoEntries => inodes'[e].kind = "dir"
<1> DEFINE i == dirs[od][on]
           added == [dirs EXCEPT ![nd][nn] = i]
<1>1. od \in Inos /\ inodes[od].kind = "dir" /\ nd \in Inos /\ inodes[nd].kind = "dir"
    BY DEF VfsDirs
<1>2. i # None /\ i # dirs[nd][nn] /\ inodes' = inodes
    BY DEF rename_to
<1>3. dirs \in [Inos -> [Names -> Inos \cup {None}]] /\ i \in Inos /\ i # RootIno
    BY <1>1, <1>2 DEF NamesInv, NoDangling, NamesTypeOK, RootUnnamed
<1>4. <<od, on>> # <<nd, nn>>
    BY <1>2
<1>5. /\ added \in [Inos -> [Names -> Inos \cup {None}]]
      /\ added[nd][nn] = i
      /\ \A e \in Inos, m \in Names : <<e, m>> # <<nd, nn>> => added[e][m] = dirs[e][m]
      /\ \A e \in Inos \ {nd} : added[e] = dirs[e]
    BY <1>1, <1>3
<1>6. dirs[od][on] = i
    OBVIOUS
<1> HIDE DEF i, added
<1>7. LinksOK'
    BY <1>2 DEF NamesInv, LinksOK, Live
<1>8. \A e \in Inos : dirs[e] # NoEntries => inodes'[e].kind = "dir"
    BY <1>2 DEF NamesInv, EntriesInDirs
<1>9. CASE /\ dirs' = [added EXCEPT ![od][on] = None]
           /\ tidy' = (tidy /\ dirs[nd][nn] = None) /\ UNCHANGED split
    <2>1. /\ dirs' \in [Inos -> [Names -> Inos \cup {None}]]
          /\ dirs'[od][on] = None
          /\ \A e \in Inos, m \in Names : <<e, m>> # <<od, on>> => dirs'[e][m] = added[e][m]
          /\ \A e \in Inos \ {od} : dirs'[e] = added[e]
        BY <1>1, <1>5, <1>9
    <2>2. dirs'[nd][nn] = i
        BY <1>1, <1>4, <1>5, <2>1
    <2>3. \A e \in Inos, m \in Names :
            <<e, m>> # <<nd, nn>> /\ dirs'[e][m] # None =>
                dirs'[e][m] = dirs[e][m] /\ <<e, m>> # <<od, on>>
        BY <1>5, <2>1
    <2>4. NamesTypeOK'
        BY <1>2, <1>9, <2>1 DEF NamesInv, NoDangling, NamesTypeOK
    <2>5. NoDangling'
        <3> SUFFICES ASSUME NEW e \in Inos, NEW m \in Names, dirs'[e][m] \notin split \cup {None}
                     PROVE  inodes'[dirs'[e][m]].kind # "none"
            BY <1>9, <2>4 DEF NoDangling, Live
        <3>1. CASE <<e, m>> = <<nd, nn>>
            BY <1>1, <1>2, <1>6, <2>2, <3>1 DEF NamesInv, NoDangling, Live
        <3>2. CASE <<e, m>> # <<nd, nn>>
            BY <1>2, <2>3, <3>2 DEF NamesInv, NoDangling, Live
        <3> QED BY <3>1, <3>2
    <2>6. RootUnnamed'
        BY <1>3, <2>2, <2>3 DEF NamesInv, RootUnnamed, None, RootIno
    <2>7. OneName'
        <3> SUFFICES ASSUME NEW e \in Inos, NEW f \in Inos, NEW m \in Names, NEW k \in Names,
                            dirs'[e][m] = dirs'[f][k], dirs'[e][m] \notin split \cup {None}
                     PROVE  e = f /\ m = k
            BY <1>9 DEF OneName
        <3>1. CASE <<e, m>> = <<nd, nn>> \/ <<f, k>> = <<nd, nn>>
            BY <1>1, <1>6, <2>2, <2>3, <3>1 DEF NamesInv, OneName
        <3>2. CASE <<e, m>> # <<nd, nn>> /\ <<f, k>> # <<nd, nn>>
            BY <2>3, <3>2 DEF NamesInv, OneName
        <3> QED BY <3>1, <3>2
    <2>8. \A e \in Inos : dirs'[e] # NoEntries => dirs[e] # NoEntries \/ e = nd
        <3>1. ASSUME NEW e \in Inos, e # nd, dirs'[e] # NoEntries PROVE dirs[e] # NoEntries
            <4>1. CASE e = od
                BY <1>2, <1>6, <4>1 DEF NoEntries
            <4>2. CASE e # od
                BY <1>5, <2>1, <3>1, <4>2
            <4> QED BY <4>1, <4>2
        <3> QED BY <3>1
    <2>9. EntriesInDirs'
        BY <1>1, <1>2, <2>8 DEF NamesInv, EntriesInDirs
    <2> QED BY <1>7, <1>8, <2>5, <2>6, <2>7, <2>9 DEF NamesInv
<1>10. CASE dirs' = added /\ split' = split \cup {i} /\ tidy' = FALSE
    <2>1. NamesTypeOK'
        BY <1>2, <1>3, <1>5, <1>10 DEF NamesInv, NoDangling, NamesTypeOK
    <2>2. \A e \in Inos, m \in Names : dirs'[e][m] = dirs[e][m] \/ dirs'[e][m] = i
        BY <1>5, <1>10
    <2>3. NoDangling'
        BY <1>2, <1>10, <2>1, <2>2 DEF NamesInv, NoDangling, Live
    <2>4. RootUnnamed'
        BY <1>3, <2>2 DEF NamesInv, RootUnnamed
    <2>5. OneName'
        BY <1>5, <1>10 DEF NamesInv, OneName
    <2>6. EntriesInDirs'
        BY <1>1, <1>2, <1>5, <1>10 DEF NamesInv, EntriesInDirs
    <2> QED BY <1>7, <1>8, <2>3, <2>4, <2>5, <2>6 DEF NamesInv
<1> QED BY <1>9, <1>10 DEF rename_to, add_dentry, delete_dentry, i, added

\* Every step of every operation.
LEMMA StepInv ==
    ASSUME NamesInv, NamesNext
    PROVE  NamesInv' /\ \A d \in Inos : dirs[d] # NoEntries => inodes'[d].kind = "dir"
BY CreateInv, UnlinkInv, RmdirInv, RenameInv DEF NamesNext

-----------------------------------------------------------------------------
(* The theorems *)

\* The invariant of every behaviour.
THEOREM NamesInvariant == NamesSpec => []NamesInv
<1>1. NamesInv /\ [NamesNext]_namesVars => NamesInv'
    <2>1. ASSUME NamesInv, UNCHANGED namesVars PROVE NamesInv'
        BY <2>1 DEF namesVars, NamesInv, NoDangling, NamesTypeOK, LinksOK, Live, RootUnnamed, OneName, EntriesInDirs
    <2> QED BY <2>1, StepInv
<1> QED BY InitInv, <1>1, PTL DEF NamesSpec

\* No entry names a number without metadata, whichever create, mkdir, unlink or
\* rmdir ended between its two transactions.
THEOREM NoDanglingTheorem == NamesSpec => []NoDangling
<1>1. NamesInv => NoDangling
    BY DEF NamesInv
<1> QED BY NamesInvariant, <1>1, PTL

\* A number no rename of which ended half way has no more names than nlink says.
THEOREM NamesWithinLinksTheorem == NamesSpec => []NamesWithinLinks
<1>1. ASSUME NamesInv PROVE NamesWithinLinks
    <2> SUFFICES ASSUME NEW i \in Inos \ (split \cup {RootIno})
                 PROVE  Cardinality(NamesOf(i)) <= inodes[i].nlink
        BY DEF NamesWithinLinks
    <2>0. i # None /\ i \in Inos /\ i # RootIno
        BY DEF Inos, None
    <2>1. CASE NamesOf(i) = {}
        <3>1. inodes[i].nlink \in Nat
            BY <1>1, <2>0 DEF NamesInv, NoDangling, NamesTypeOK, InodeMetadata
        <3> QED BY <2>1, <3>1, FS_EmptySet
    <2>2. CASE NamesOf(i) # {}
        <3>1. PICK e \in NamesOf(i) : TRUE
            BY <2>2
        <3>2. \A f \in NamesOf(i) : f = e
            BY <1>1, <2>0, <3>1 DEF NamesOf, NamesInv, OneName
        <3>3. NamesOf(i) = {e}
            BY <3>1, <3>2
        <3>4. Cardinality(NamesOf(i)) = 1
            BY <3>3, FS_Singleton
        <3>5. Live(i)
            BY <1>1, <2>0, <3>1 DEF NamesOf, NamesInv, NoDangling
        <3> QED BY <1>1, <2>0, <3>4, <3>5 DEF NamesInv, LinksOK
    <2> QED BY <2>1, <2>2
<1> QED BY NamesInvariant, <1>1, PTL

\* The bucket of a directory that has entries is never deleted.
THEOREM NonEmptyDirTheorem == NamesSpec => NonEmptyDirKept
<1> DEFINE BucketsStay == \A d \in Inos : dirs[d] # NoEntries => inodes'[d].kind = "dir"
<1>1. NamesInv /\ [NamesNext]_namesVars => [BucketsStay]_namesVars
    BY StepInv
<1> QED BY NamesInvariant, <1>1, PTL DEF NamesSpec, NonEmptyDirKept

-----------------------------------------------------------------------------
(***************************************************************************)
(* Reachability, as long as the history is tidy.  Below(i) is the least    *)
(* set that has i and with a directory its entries.                        *)
(***************************************************************************)

DirsType == [Inos -> [Names -> Inos \cup {None}]]

\* Every inode has a path to it.
AllReached == \A i \in Inos : Live(i) => i \in Below(RootIno)

\* Below, of any directories.
Under(f, i) == Reach(i, [d \in Inos |-> {f[d][n] : n \in Names}], MaxIno)

\* The numbers are positive, and the root's is one of them.
LEMMA Numbers == RootIno \in Inos /\ None \notin Inos /\ MaxIno \in Nat
BY NamesAssumption DEF RootIno, Inos, None

\* Below has i and, with a directory, its entries: MaxIno levels are enough.
LEMMA UnderClosed ==
    ASSUME NEW f \in DirsType, NEW i \in Inos
    PROVE  /\ i \in Under(f, i)
           /\ \A d \in Inos, n \in Names : d \in Under(f, i) => f[d][n] \in Under(f, i)
<1> DEFINE U == 0..MaxIno
           next == [d \in Inos |-> {f[d][n] : n \in Names}]
<1>1. /\ MaxIno \in Nat /\ IsFiniteSet(U) /\ Cardinality(U) <= MaxIno + 1
      /\ i \in U /\ \A v \in Inos \cup {None} : v \in U
    <2>1. IsFiniteSet(U) /\ Cardinality(U) = MaxIno - 0 + 1
        BY Numbers, FS_Interval
    <2> QED BY Numbers, <2>1 DEF Inos, None
<1>2. \A d \in Inos, n \in Names : f[d][n] \in Inos \cup {None}
    BY DEF DirsType
<1>3. DOMAIN next = Inos /\ \A d \in Inos : next[d] = {f[d][n] : n \in Names}
    OBVIOUS
<1>4. \A d \in DOMAIN next : next[d] \subseteq U
    BY <1>1, <1>2, <1>3
<1> HIDE DEF U, next
<1>5. \A d \in Reach(i, next, MaxIno) \cap DOMAIN next : next[d] \subseteq Reach(i, next, MaxIno)
    BY <1>1, <1>4, ReachClosed
<1>6. i \in Reach(i, next, MaxIno)
    BY <1>1, <1>4, ReachLeast
<1>7. Under(f, i) = Reach(i, next, MaxIno)
    BY DEF Under, next
<1> QED BY <1>3, <1>5, <1>6, <1>7

\* Below is in every set that has i and, with a directory, its entries.
LEMMA UnderLeast ==
    ASSUME NEW f, NEW i, NEW S, i \in S,
           \A d \in Inos, n \in Names : d \in S => f[d][n] \in S
    PROVE  Under(f, i) \subseteq S
<1> DEFINE next == [d \in Inos |-> {f[d][n] : n \in Names}]
<1>1. DOMAIN next = Inos /\ \A d \in Inos : next[d] = {f[d][n] : n \in Names}
    OBVIOUS
<1>2. \A d \in S \cap DOMAIN next : next[d] \subseteq S
    BY <1>1
<1> HIDE DEF next
<1>3. Reach(i, next, MaxIno) \subseteq S
    BY <1>2, Numbers, ReachLeast
<1> QED BY <1>3 DEF Under, next

\* What has no entries is above nothing.
LEMMA NothingBelow ==
    ASSUME NEW i \in Inos, dirs[i] = NoEntries
    PROVE  Below(i) \subseteq {i, None}
<1>1. \A x \in Names : dirs[i][x] = None
    BY DEF NoEntries
<1>2. ASSUME NEW j \in Inos, NEW x \in Names, j \in {i, None}
      PROVE  dirs[j][x] \in {i, None}
    BY <1>1, <1>2, Numbers
<1>3. Under(dirs, i) \subseteq {i, None}
    BY <1>2, UnderLeast
<1> QED BY <1>3 DEF Below, Under

\* create and mkdir: the new entry is in a directory that can be reached.
LEMMA CreateReached ==
    ASSUME NamesInv, NamesInv', AllReached, NEW d \in VfsDirs, NEW n \in Names, NEW op, create(d, n, op), tidy'
    PROVE  AllReached'
<1> DEFINE R == Under(dirs', RootIno)
           S == R \cup {None}
<1>0. /\ d \in Inos /\ d \in Below(RootIno) /\ dirs[d][n] = None
      /\ dirs \in DirsType /\ dirs' \in DirsType /\ inodes \in [Inos -> InodeMetadata]
    BY DEF VfsDirs, create, NamesInv, NoDangling, NamesTypeOK, DirsType
<1>1. PICK i \in Inos : i = NewIno
    BY DEF create
<1>2. \A j \in Inos, x \in Names : dirs'[j][x] = IF j = d /\ x = n THEN i ELSE dirs[j][x]
    <2>1. dirs' = [dirs EXCEPT ![d][n] = i]
        BY <1>1 DEF create, Cut, add_dentry
    <2> QED BY <1>0, <2>1 DEF DirsType
<1>3. \A j \in Inos \ {i} : inodes'[j] = inodes[j]
    BY <1>0, <1>1 DEF create, Allocated
<1>4. RootIno \in R /\ \A j \in Inos, x \in Names : j \in R => dirs'[j][x] \in R
    BY <1>0, Numbers, UnderClosed
<1>5. Below(RootIno) = Under(dirs, RootIno) /\ Below(RootIno)' = R
    BY DEF Below, Under
<1> HIDE DEF R
<1>6. \A j \in Inos, x \in Names : j \in S => dirs[j][x] \in S
    BY <1>0, <1>2, <1>4, Numbers
<1>7. Under(dirs, RootIno) \subseteq S
    BY <1>4, <1>6, UnderLeast
<1>8. d \in R
    BY <1>0, <1>5, <1>7, Numbers
<1>9. i \in R
    BY <1>0, <1>2, <1>4, <1>8
<1> QED BY <1>3, <1>5, <1>7, <1>9, Numbers DEF AllReached, Live

\* unlink and rmdir: what loses its name had no entries, and is no more.
LEMMA DeletionReached ==
    ASSUME NamesInv, NamesInv', AllReached, NEW d \in Inos, NEW n \in Names, dirs[d][n] # None,
           dirs[dirs[d][n]] = NoEntries,
           dirs' = dirs_Without(delete_dentry(dirs, d, n), dirs[d][n]),
           inodes' = inodes_Without(dirs[d][n])
    PROVE  AllReached'
<1> DEFINE R == Under(dirs', RootIno)
<1>0. dirs \in DirsType /\ dirs' \in DirsType /\ inodes \in [Inos -> InodeMetadata]
    BY DEF NamesInv, NoDangling, NamesTypeOK, DirsType
<1>1. PICK i \in Inos : i = dirs[d][n]
    BY <1>0 DEF DirsType
<1> DEFINE S == R \cup {None, i}
<1>2. \A x \in Names : NoEntries[x] = None
    BY DEF NoEntries
<1>3. dirs' = [[dirs EXCEPT ![d][n] = None] EXCEPT ![i] = NoEntries] /\ dirs[i] = NoEntries
    BY <1>1 DEF dirs_Without, delete_dentry
<1>4. inodes'[i].kind = "none" /\ \A j \in Inos \ {i} : inodes'[j] = inodes[j]
    BY <1>0, <1>1 DEF inodes_Without, Absent
<1>5. RootIno \in R /\ \A j \in Inos, x \in Names : j \in R => dirs'[j][x] \in R
    BY <1>0, Numbers, UnderClosed
<1>6. Below(RootIno) = Under(dirs, RootIno) /\ Below(RootIno)' = R
    BY DEF Below, Under
<1> HIDE DEF R, NoEntries
<1>7. ASSUME NEW j \in Inos, NEW x \in Names, j \in S
      PROVE  dirs[j][x] \in S
    <2>1. CASE j = i \/ (j = d /\ x = n)
        BY <1>1, <1>2, <1>3, <2>1
    <2>2. CASE j # i /\ ~(j = d /\ x = n)
        <3>1. j \in R
            BY <1>7, <2>2, Numbers
        <3>2. dirs'[j] = [dirs EXCEPT ![d][n] = None][j]
            BY <1>0, <1>3, <2>2 DEF DirsType
        <3>3. [dirs EXCEPT ![d][n] = None][j][x] = dirs[j][x]
            BY <1>0, <2>2 DEF DirsType
        <3> QED BY <1>5, <3>1, <3>2, <3>3
    <2> QED BY <2>1, <2>2
<1>8. Under(dirs, RootIno) \subseteq S
    BY <1>5, <1>7, UnderLeast
<1> QED BY <1>4, <1>6, <1>8, Numbers DEF AllReached, Live

\* rename_to onto a free name: the walk from the root to the new directory does
\* not pass what is moved, so the move does not cut it.
LEMMA RenameReached ==
    ASSUME NamesInv, NamesInv', AllReached, NEW od \in VfsDirs, NEW nd \in VfsDirs,
           NEW on \in Names, NEW nn \in Names, rename_to(od, on, nd, nn), tidy'
    PROVE  AllReached'
<1> DEFINE R == Under(dirs', RootIno)
<1>0. /\ od \in Inos /\ nd \in Inos /\ inodes[nd].kind = "dir" /\ nd \in Below(RootIno)
      /\ dirs \in DirsType /\ dirs' \in DirsType
    BY DEF VfsDirs, NamesInv, NoDangling, NamesTypeOK, DirsType
<1>1. PICK s \in Inos : s = dirs[od][on]
    BY <1>0 DEF rename_to, DirsType
<1> DEFINE B == Under(dirs, s)
           Q == R \cup B \cup {None}
           S == R \cup {None}
<1>2. /\ dirs[nd][nn] = None /\ inodes' = inodes
      /\ dirs' = [[dirs EXCEPT ![nd][nn] = s] EXCEPT ![od][on] = None]
    BY <1>1 DEF rename_to, add_dentry, delete_dentry
<1>3. \A j \in Inos, x \in Names :
        dirs'[j][x] = IF j = od /\ x = on THEN None ELSE IF j = nd /\ x = nn THEN s ELSE dirs[j][x]
    BY <1>0, <1>2 DEF DirsType
<1>4. ~(od = nd /\ on = nn)
    BY <1>1, <1>2, Numbers
<1>5. nd \notin Below(s)
    <2>1. CASE inodes[s].kind = "dir"
        BY <1>1, <2>1 DEF rename_to
    <2>2. CASE inodes[s].kind # "dir"
        <3>1. dirs[s] = NoEntries
            BY <2>2 DEF NamesInv, EntriesInDirs
        <3>2. nd # s /\ nd # None
            BY <1>0, <2>2, Numbers
        <3> QED BY <3>1, <3>2, NothingBelow
    <2> QED BY <2>1, <2>2
<1>6. RootIno \in R /\ \A j \in Inos, x \in Names : j \in R => dirs'[j][x] \in R
    BY <1>0, Numbers, UnderClosed
<1>7. s \in B /\ \A j \in Inos, x \in Names : j \in B => dirs[j][x] \in B
    BY <1>0, UnderClosed
<1>8. Below(RootIno) = Under(dirs, RootIno) /\ Below(RootIno)' = R /\ Below(s) = B
    BY DEF Below, Under
<1> HIDE DEF R, B
<1>9. nd \in R
    <2>1. ASSUME NEW j \in Inos, NEW x \in Names, j \in Q
          PROVE  dirs[j][x] \in Q
        <3>1. CASE (j = nd /\ x = nn) \/ (j = od /\ x = on) \/ j \in B
            BY <1>1, <1>2, <1>7, <3>1
        <3>2. CASE ~((j = nd /\ x = nn) \/ (j = od /\ x = on) \/ j \in B)
            <4>1. j \in R
                BY <2>1, <3>2, Numbers
            <4>2. dirs[j][x] = dirs'[j][x]
                BY <1>3, <3>2
            <4> QED BY <1>6, <4>1, <4>2
        <3> QED BY <3>1, <3>2
    <2>2. Under(dirs, RootIno) \subseteq Q
        BY <1>6, <2>1, UnderLeast
    <2> QED BY <1>0, <1>5, <1>8, <2>2, Numbers
<1>10. s \in R
    <2>1. dirs'[nd][nn] = s
        BY <1>0, <1>3, <1>4
    <2> QED BY <1>0, <1>6, <1>9, <2>1
<1>11. ASSUME NEW j \in Inos, NEW x \in Names, j \in S
       PROVE  dirs[j][x] \in S
    <2>1. CASE (j = nd /\ x = nn) \/ (j = od /\ x = on)
        BY <1>1, <1>2, <1>10, <2>1
    <2>2. CASE ~((j = nd /\ x = nn) \/ (j = od /\ x = on))
        <3>1. j \in R
            BY <1>11, Numbers
        <3>2. dirs[j][x] = dirs'[j][x]
            BY <1>3, <2>2
        <3> QED BY <1>6, <3>1, <3>2
    <2> QED BY <2>1, <2>2
<1>12. Under(dirs, RootIno) \subseteq S
    BY <1>6, <1>11, UnderLeast
<1> QED BY <1>2, <1>8, <1>12, Numbers DEF AllReached, Live

\* Every step that leaves the history tidy.
LEMMA StepReached ==
    ASSUME NamesInv, NamesInv', NothingLeaked, NamesNext
    PROVE  NothingLeaked'
<1> SUFFICES ASSUME tidy' PROVE AllReached'
    BY DEF NothingLeaked, AllReached
<1>1. tidy /\ AllReached
    <2>1. ASSUME NEW d \in VfsDirs, NEW n \in Names, NEW op, create(d, n, op) PROVE tidy
        BY <2>1 DEF create, Whole, Cut
    <2>2. ASSUME NEW d \in VfsDirs, NEW n \in Names, unlink(d, n) PROVE tidy
        BY <2>2 DEF unlink, Whole, Cut
    <2>3. ASSUME NEW d \in VfsDirs, NEW n \in Names, rmdir(d, n) PROVE tidy
        BY <2>3 DEF rmdir, Whole, Cut
    <2>4. ASSUME NEW od \in VfsDirs, NEW nd \in VfsDirs, NEW on \in Names, NEW nn \in Names,
                 rename_to(od, on, nd, nn)
          PROVE  tidy
        BY <2>4 DEF rename_to, Whole, Cut
    <2>5. tidy
        BY <2>1, <2>2, <2>3, <2>4 DEF NamesNext
    <2> QED BY <2>5 DEF NothingLeaked, AllReached
<1>2. ASSUME NEW d \in VfsDirs, NEW n \in Names, NEW op, create(d, n, op) PROVE AllReached'
    BY <1>1, <1>2, CreateReached
<1>3. ASSUME NEW d \in VfsDirs, NEW n \in Names, unlink(d, n) PROVE AllReached'
    <2> DEFINE i == dirs[d][n]
               left == IF inodes[i].nlink > 0 THEN inodes[i].nlink - 1 ELSE 0
    <2>1. d \in Inos
        BY DEF VfsDirs
    <2>2. i # None /\ inodes[i].kind # "dir"
        BY <1>3 DEF unlink
    <2>3. i \in Inos /\ i # RootIno /\ dirs[i] = NoEntries
        BY <2>1, <2>2 DEF NamesInv, NoDangling, NamesTypeOK, RootUnnamed, EntriesInDirs
    <2>4. left = 0
        BY <2>3 DEF NamesInv, LinksOK
    <2>5. dirs' = dirs_Without(delete_dentry(dirs, d, n), i) /\ inodes' = inodes_Without(i)
        BY <1>3, <2>4 DEF unlink, Cut
    <2> QED BY <1>1, <2>1, <2>2, <2>3, <2>5, DeletionReached
<1>4. ASSUME NEW d \in VfsDirs, NEW n \in Names, rmdir(d, n) PROVE AllReached'
    <2> DEFINE i == dirs[d][n]
    <2>1. d \in Inos
        BY DEF VfsDirs
    <2>2. i # None /\ dirs[i] = NoEntries
        BY <1>4 DEF rmdir
    <2>3. dirs' = dirs_Without(delete_dentry(dirs, d, n), i) /\ inodes' = inodes_Without(i)
        BY <1>4 DEF rmdir, Cut
    <2> QED BY <1>1, <2>1, <2>2, <2>3, DeletionReached
<1>5. ASSUME NEW od \in VfsDirs, NEW nd \in VfsDirs, NEW on \in Names, NEW nn \in Names,
             rename_to(od, on, nd, nn)
      PROVE  AllReached'
    BY <1>1, <1>5, RenameReached
<1> QED BY <1>2, <1>3, <1>4, <1>5 DEF NamesNext

\* As long as every operation ends and none replaces a name, no inode is leaked,
\* whatever whole directories were moved where.
THEOREM NoLeakTheorem == NamesSpec => []NothingLeaked
<1>1. NamesInit => NothingLeaked
    <2> SUFFICES ASSUME NamesInit PROVE AllReached
        BY DEF NothingLeaked, AllReached
    <2>1. dirs \in DirsType
        BY Numbers DEF NamesInit, NoEntries, DirsType
    <2>2. RootIno \in Under(dirs, RootIno)
        BY <2>1, Numbers, UnderClosed
    <2>3. RootIno \in Below(RootIno)
        BY <2>2 DEF Below, Under
    <2> QED BY <2>3 DEF NamesInit, AllReached, Live, Absent
<1>2. NamesInv /\ NamesInv' /\ NothingLeaked /\ [NamesNext]_namesVars => NothingLeaked'
    <2>1. ASSUME NothingLeaked, UNCHANGED namesVars PROVE NothingLeaked'
        BY <2>1 DEF namesVars, NothingLeaked, Live, Below
    <2> QED BY <2>1, StepReached
<1> QED BY <1>1, <1>2, NamesInvariant, PTL DEF NamesSpec

(***************************************************************************)
(*                                  Data                                   *)
(***************************************************************************)

Metas == [size : 0..MaxSize, extents : Seq(Extents)]
Contents == [known : BOOLEAN, bytes : Seq(Bytes \cup {0})]

\* The bytes of e that fit are on device d.
OnDevice(d, e) ==
    \A k \in 1..e.len : e.physical_ptr + k <= LogSize => d[e.physical_ptr + k] = e.crc[k]

Covers(e, p) == e.logical_off < p /\ p <= e.logical_off + e.len

\* The extents of x end at n or before.
EndWithin(x, n) == \A i \in DOMAIN x : x[i].logical_off + x[i].len <= n

\* The extents of x hold the bytes: they are in the order of their offsets and do not
\* overlap, they fit on the device, and together they have every byte that was written.
Holds(x, bytes) ==
    /\ EndWithin(x, Len(bytes))
    /\ \A i \in DOMAIN x : x[i].physical_ptr + x[i].len <= LogSize
    /\ \A i, j \in DOMAIN x : i < j => x[i].logical_off + x[i].len <= x[j].logical_off
    /\ \A i \in DOMAIN x : \A k \in 1..x[i].len : bytes[x[i].logical_off + k] = x[i].crc[k]
    /\ \A p \in 1..Len(bytes) : bytes[p] # 0 => \E i \in DOMAIN x : Covers(x[i], p)

\* An extent is a part of what its checksum was taken of. Until the log is used again,
\* what fits of it is on the device; in the first mount it is before the position of
\* the next append.
ExtentInv(e, d, lg, pos) ==
    /\ e.len <= Len(e.crc)
    /\ lg # "reused" => OnDevice(d, e)
    /\ lg = "first" => e.physical_ptr + e.len <= pos

\* Of one file, made smaller by set_attr or not: what is known of it reaches to its end
\* at least, the rest of it being out of sight.
FileInv(m, c, hid, d, lg, pos) ==
    /\ \A i \in DOMAIN m.extents : ExtentInv(m.extents[i], d, lg, pos)
    /\ hid \/ EndWithin(m.extents, m.size)
    /\ c.known => m.size <= Len(c.bytes) /\ Holds(m.extents, c.bytes)

DataInv ==
    /\ DataTypeOK
    /\ \A f \in Files : FileInv(meta[f], content[f], f \in hidden, device, log, next_append_pos)

-----------------------------------------------------------------------------
(* Operators *)

\* The data of a write is a sequence of bytes of bounded length.
LEMMA WriteDataSeq ==
    ASSUME NEW data \in WriteData
    PROVE  data \in Seq(Bytes) /\ Len(data) \in 0..MaxWrite /\ Len(data) \in Nat
<1>1. PICK n \in 0..MaxWrite : data \in [1..n -> Bytes]
    BY DEF WriteData
<1>2. n \in Nat
    BY DataAssumption
<1> QED BY <1>1, <1>2

\* The fields of an extent.
LEMMA ExtentFields ==
    ASSUME NEW e \in Extents
    PROVE  /\ e.logical_off \in 0..MaxSize /\ e.physical_ptr \in 0..MaxPos
           /\ e.len \in 0..MaxWrite /\ e.crc \in WriteData
           /\ e.logical_off \in Nat /\ e.physical_ptr \in Nat /\ e.len \in Nat
           /\ e.crc \in Seq(Bytes) /\ Len(e.crc) \in Nat
<1>1. /\ e.logical_off \in 0..MaxSize /\ e.physical_ptr \in 0..MaxPos
      /\ e.len \in 0..MaxWrite /\ e.crc \in WriteData
    BY DEF Extents
<1>2. e.crc \in Seq(Bytes) /\ Len(e.crc) \in Nat
    BY <1>1, WriteDataSeq
<1> QED BY <1>1, <1>2, DataAssumption

\* t is x cut at n: the elements of t are those of x at the positions of at.
TrimmedAt(at, t, x, n) ==
    /\ at \in [DOMAIN t -> DOMAIN x]
    /\ \A i, j \in DOMAIN t : i < j => at[i] < at[j]
    /\ \A i \in DOMAIN t :
        /\ x[at[i]].logical_off < n
        /\ t[i].logical_off = x[at[i]].logical_off
        /\ t[i].physical_ptr = x[at[i]].physical_ptr
        /\ t[i].crc = x[at[i]].crc
        /\ t[i].len = IF x[at[i]].logical_off + x[at[i]].len > n
                      THEN n - x[at[i]].logical_off ELSE x[at[i]].len
    /\ \A p \in DOMAIN x : x[p].logical_off < n => \E i \in DOMAIN t : at[i] = p

\* Trimmed keeps, in order, the extents that begin below n and shortens them to end there.
LEMMA TrimmedIs ==
    ASSUME NEW x \in Seq(Extents), NEW n \in Nat
    PROVE  Trimmed(x, n) \in Seq(Extents) /\ \E at : TrimmedAt(at, Trimmed(x, n), x, n)
<1> DEFINE I == {i \in DOMAIN x : x[i].logical_off < n}
           kept == Kept(x, I)
           Short(e) == IF e.logical_off + e.len > n THEN [e EXCEPT !.len = n - e.logical_off] ELSE e
           t == [k \in DOMAIN kept |-> Short(kept[k])]
<1>1. Trimmed(x, n) = t
    BY DEF Trimmed
<1>2. kept \in Seq(Extents)
    BY KeptType
<1>3. PICK at : At(at, kept, x, I, Len(x))
    BY KeptAt
<1>4. DOMAIN x = 1..Len(x) /\ I \subseteq DOMAIN x /\ \A i \in I : x[i].logical_off < n
    OBVIOUS
<1>5. \A p \in DOMAIN x : x[p].logical_off < n => p \in I
    OBVIOUS
<1> HIDE DEF kept, I
<1>6. ASSUME NEW e \in Extents, e.logical_off < n
      PROVE  /\ Short(e) \in Extents
             /\ Short(e).logical_off = e.logical_off /\ Short(e).physical_ptr = e.physical_ptr
             /\ Short(e).crc = e.crc
             /\ Short(e).len = IF e.logical_off + e.len > n THEN n - e.logical_off ELSE e.len
    <2>1. /\ e.logical_off \in Nat /\ e.len \in Nat /\ e.len <= MaxWrite /\ MaxWrite \in Nat
        BY ExtentFields, DataAssumption
    <2>2. e.logical_off + e.len > n => n - e.logical_off \in 0..MaxWrite
        BY <1>6, <2>1
    <2> QED BY <1>6, <2>1, <2>2 DEF Extents
<1>7. /\ at \in [DOMAIN kept -> DOMAIN x]
      /\ \A i, j \in DOMAIN kept : i < j => at[i] < at[j]
      /\ \A i \in DOMAIN kept : x[at[i]] = kept[i] /\ x[at[i]].logical_off < n
      /\ \A p \in DOMAIN x : x[p].logical_off < n => \E i \in DOMAIN kept : at[i] = p
    BY <1>3, <1>4, <1>5 DEF At
<1>8. \A k \in DOMAIN kept : kept[k] \in Extents /\ kept[k].logical_off < n
    BY <1>2, <1>7
<1> HIDE DEF Short
<1>9. t \in Seq(Extents) /\ DOMAIN t = DOMAIN kept /\ \A k \in DOMAIN t : t[k] = Short(kept[k])
    BY <1>2, <1>6, <1>8
<1> HIDE DEF t
<1>10. ASSUME NEW i \in DOMAIN t
       PROVE  /\ x[at[i]].logical_off < n
              /\ t[i].logical_off = x[at[i]].logical_off
              /\ t[i].physical_ptr = x[at[i]].physical_ptr
              /\ t[i].crc = x[at[i]].crc
              /\ t[i].len = IF x[at[i]].logical_off + x[at[i]].len > n
                            THEN n - x[at[i]].logical_off ELSE x[at[i]].len
    <2>1. x[at[i]] = kept[i] /\ t[i] = Short(kept[i]) /\ kept[i] \in Extents /\ kept[i].logical_off < n
        BY <1>7, <1>8, <1>9
    <2> QED BY <1>6, <2>1
<1>11. TrimmedAt(at, t, x, n)
    BY <1>7, <1>9, <1>10 DEF TrimmedAt
<1> QED BY <1>1, <1>9, <1>11

-----------------------------------------------------------------------------
(* One file, in each operation *)

\* The append changes the device behind the extents that count on it.
LEMMA AppendKeepsExtent ==
    ASSUME NEW e \in Extents, NEW d, NEW d2, NEW lg, NEW pos \in Nat, NEW n \in Nat,
           ExtentInv(e, d, lg, pos),
           \A p \in 1..LogSize : p <= pos => d2[p] = d[p]
    PROVE  ExtentInv(e, d2, IF lg = "first" THEN "first" ELSE "reused", pos + n)
<1> DEFINE lg2 == IF lg = "first" THEN "first" ELSE "reused"
<1>1. e.physical_ptr \in Nat /\ e.len \in Nat /\ LogSize \in Nat
    BY ExtentFields, DataAssumption
<1>2. lg2 = "first" => e.physical_ptr + e.len <= pos + n
    BY <1>1 DEF ExtentInv
<1>3. ASSUME lg2 # "reused" PROVE OnDevice(d2, e)
    <2>1. lg = "first" /\ OnDevice(d, e) /\ e.physical_ptr + e.len <= pos
        BY <1>3 DEF ExtentInv
    <2>2. ASSUME NEW k \in 1..e.len, e.physical_ptr + k <= LogSize
          PROVE  d2[e.physical_ptr + k] = e.crc[k]
        <3>1. e.physical_ptr + k \in 1..LogSize /\ e.physical_ptr + k <= pos
            BY <1>1, <2>1, <2>2
        <3>2. d[e.physical_ptr + k] = e.crc[k]
            BY <2>1, <2>2 DEF OnDevice
        <3> QED BY <3>1, <3>2
    <2> QED BY <2>2 DEF OnDevice
<1>4. e.len <= Len(e.crc)
    BY DEF ExtentInv
<1> HIDE DEF lg2
<1>5. ExtentInv(e, d2, lg2, pos + n)
    BY <1>2, <1>3, <1>4 DEF ExtentInv
<1> QED BY <1>5 DEF lg2

\* An append writes behind every extent of a file whose extents lie below the append position.
LEMMA AppendKeepsFile ==
    ASSUME NEW m \in Metas, NEW c, NEW hid, NEW d, NEW d2, NEW lg, NEW pos \in Nat, NEW n \in Nat,
           FileInv(m, c, hid, d, lg, pos),
           \A p \in 1..LogSize : p <= pos => d2[p] = d[p]
    PROVE  FileInv(m, c, hid, d2, IF lg = "first" THEN "first" ELSE "reused", pos + n)
<1> DEFINE lg2 == IF lg = "first" THEN "first" ELSE "reused"
<1>1. ASSUME NEW i \in DOMAIN m.extents
      PROVE  ExtentInv(m.extents[i], d2, lg2, pos + n)
    <2>1. m.extents[i] \in Extents
        BY DEF Metas
    <2>2. ExtentInv(m.extents[i], d, lg, pos)
        BY DEF FileInv
    <2> QED BY <2>1, <2>2, AppendKeepsExtent
<1> HIDE DEF lg2
<1>2. FileInv(m, c, hid, d2, lg2, pos + n)
    BY <1>1 DEF FileInv
<1> QED BY <1>2 DEF lg2

\* What Resized does to the bytes of a file.
LEMMA ResizedIs ==
    ASSUME NEW c \in Contents, NEW n \in Nat
    PROVE  /\ Resized(c, n) \in Contents /\ Resized(c, n).known = c.known
           /\ Resized(c, n).bytes \in Seq(Bytes \cup {0})
           /\ Len(Resized(c, n).bytes) = n
           /\ \A k \in 1..n : Resized(c, n).bytes[k] = IF k <= Len(c.bytes) THEN c.bytes[k] ELSE 0
<1> DEFINE b == [k \in 1..n |-> IF k <= Len(c.bytes) THEN c.bytes[k] ELSE 0]
<1>1. Resized(c, n) = [c EXCEPT !.bytes = b]
    BY DEF Resized
<1>2. c.bytes \in Seq(Bytes \cup {0}) /\ Len(c.bytes) \in Nat
    BY DEF Contents
<1>3. /\ b \in Seq(Bytes \cup {0}) /\ Len(b) = n
      /\ \A k \in 1..n : b[k] = IF k <= Len(c.bytes) THEN c.bytes[k] ELSE 0
    BY <1>2
<1> HIDE DEF b
<1>4. Resized(c, n).bytes = b /\ Resized(c, n).known = c.known /\ Resized(c, n) \in Contents
    BY <1>1, <1>3 DEF Contents
<1> QED BY <1>3, <1>4

\* Bytes that are filled up with places never written are held by the same extents.
LEMMA GrowHolds ==
    ASSUME NEW x \in Seq(Extents), NEW c \in Contents, NEW n \in Nat, n >= Len(c.bytes),
           Holds(x, c.bytes)
    PROVE  Holds(x, Resized(c, n).bytes)
<1> DEFINE r == Resized(c, n)
           l == Len(c.bytes)
<1>1. l \in Nat
    BY DEF Contents
<1>2. /\ \A i \in DOMAIN x : x[i].physical_ptr + x[i].len <= LogSize
      /\ \A i, j \in DOMAIN x : i < j => x[i].logical_off + x[i].len <= x[j].logical_off
      /\ \A i \in DOMAIN x : \A k \in 1..x[i].len : c.bytes[x[i].logical_off + k] = x[i].crc[k]
      /\ \A p \in 1..l : c.bytes[p] # 0 => \E i \in DOMAIN x : Covers(x[i], p)
    BY DEF Holds
<1>3. Len(r.bytes) = n /\ \A k \in 1..n : r.bytes[k] = IF k <= l THEN c.bytes[k] ELSE 0
    BY ResizedIs
<1>4. \A i \in DOMAIN x : /\ x[i].logical_off \in Nat /\ x[i].len \in Nat
                          /\ x[i].logical_off + x[i].len <= l
    BY ExtentFields DEF Holds, EndWithin
<1> HIDE DEF r, l
<1>5. ASSUME NEW i \in DOMAIN x, NEW k \in 1..x[i].len
      PROVE  r.bytes[x[i].logical_off + k] = x[i].crc[k]
    <2>1. x[i].logical_off + k \in 1..n /\ x[i].logical_off + k <= l
        BY <1>1, <1>4 DEF l
    <2> QED BY <1>2, <1>3, <2>1
<1>6. ASSUME NEW p \in 1..n, r.bytes[p] # 0
      PROVE  \E i \in DOMAIN x : Covers(x[i], p)
    <2>1. p \in 1..l /\ c.bytes[p] # 0
        BY <1>1, <1>3, <1>6
    <2> QED BY <1>2, <2>1
<1>7. EndWithin(x, n)
    <2>1. n >= l
        BY DEF l
    <2> QED BY <1>1, <1>4, <2>1 DEF EndWithin
<1>8. Holds(x, r.bytes)
    BY <1>2, <1>3, <1>5, <1>6, <1>7 DEF Holds
<1> QED BY <1>8 DEF r

\* Bytes that are cut are held by the extents that are cut at the same place.
LEMMA ShrinkHolds ==
    ASSUME NEW x \in Seq(Extents), NEW c \in Contents, NEW n \in Nat, n <= Len(c.bytes),
           Holds(x, c.bytes)
    PROVE  Holds(Trimmed(x, n), Resized(c, n).bytes)
<1> DEFINE t == Trimmed(x, n)
           r == Resized(c, n)
           l == Len(c.bytes)
<1>1. l \in Nat /\ n <= l
    BY DEF Contents
<1>2. /\ \A i \in DOMAIN x : x[i].physical_ptr + x[i].len <= LogSize
      /\ \A i, j \in DOMAIN x : i < j => x[i].logical_off + x[i].len <= x[j].logical_off
      /\ \A i \in DOMAIN x : \A k \in 1..x[i].len : c.bytes[x[i].logical_off + k] = x[i].crc[k]
      /\ \A p \in 1..l : c.bytes[p] # 0 => \E i \in DOMAIN x : Covers(x[i], p)
    BY DEF Holds
<1>3. Len(r.bytes) = n /\ \A k \in 1..n : r.bytes[k] = c.bytes[k]
    <2>1. Len(r.bytes) = n /\ \A k \in 1..n : r.bytes[k] = IF k <= l THEN c.bytes[k] ELSE 0
        BY ResizedIs
    <2> HIDE DEF r, l
    <2> QED BY <1>1, <2>1
<1>4. PICK at : TrimmedAt(at, t, x, n)
    BY TrimmedIs
<1>5. \A i \in DOMAIN x : x[i].logical_off \in Nat /\ x[i].len \in Nat /\ x[i].physical_ptr \in Nat
    BY ExtentFields
<1> HIDE DEF t, r, l
<1>6. LogSize \in Nat
    BY DataAssumption
<1>7. ASSUME NEW i \in DOMAIN t
      PROVE  /\ at[i] \in DOMAIN x
             /\ t[i].logical_off = x[at[i]].logical_off /\ t[i].crc = x[at[i]].crc
             /\ t[i].physical_ptr = x[at[i]].physical_ptr
             /\ t[i].logical_off \in Nat /\ t[i].len \in Nat
             /\ t[i].len <= x[at[i]].len /\ t[i].logical_off + t[i].len <= n
             /\ t[i].len # x[at[i]].len => t[i].logical_off + t[i].len = n
    <2> DEFINE e == x[at[i]]
    <2>1. at[i] \in DOMAIN x
        BY <1>4 DEF TrimmedAt
    <2>2. /\ e.logical_off < n /\ t[i].logical_off = e.logical_off
          /\ t[i].physical_ptr = e.physical_ptr /\ t[i].crc = e.crc
          /\ t[i].len = IF e.logical_off + e.len > n THEN n - e.logical_off ELSE e.len
        BY <1>4 DEF TrimmedAt
    <2>3. e.logical_off \in Nat /\ e.len \in Nat
        BY <1>5, <2>1
    <2> HIDE DEF e
    <2>4. t[i].len \in Nat /\ t[i].len <= e.len /\ e.logical_off + t[i].len <= n
          /\ (t[i].len # e.len => e.logical_off + t[i].len = n)
        BY <2>2, <2>3
    <2> QED BY <2>1, <2>2, <2>3, <2>4 DEF e
<1>8. ASSUME NEW i \in DOMAIN t PROVE t[i].physical_ptr + t[i].len <= LogSize
    <2>1. /\ t[i].physical_ptr = x[at[i]].physical_ptr /\ t[i].len <= x[at[i]].len
          /\ t[i].len \in Nat /\ x[at[i]].len \in Nat /\ x[at[i]].physical_ptr \in Nat
        BY <1>5, <1>7
    <2>2. x[at[i]].physical_ptr + x[at[i]].len <= LogSize
        BY <1>2, <1>7
    <2> QED BY <1>6, <2>1, <2>2
<1>9. \A i, j \in DOMAIN t : i < j => t[i].logical_off + t[i].len <= t[j].logical_off
    <2> SUFFICES ASSUME NEW i \in DOMAIN t, NEW j \in DOMAIN t, i < j
                 PROVE  t[i].logical_off + t[i].len <= t[j].logical_off
        OBVIOUS
    <2>1. at[i] < at[j] /\ at[i] \in DOMAIN x /\ at[j] \in DOMAIN x
        BY <1>4 DEF TrimmedAt
    <2>2. x[at[i]].logical_off + x[at[i]].len <= x[at[j]].logical_off
        BY <1>2, <2>1
    <2> QED BY <1>5, <1>7, <2>1, <2>2
<1>10. \A i \in DOMAIN t : \A k \in 1..t[i].len : r.bytes[t[i].logical_off + k] = t[i].crc[k]
    <2> SUFFICES ASSUME NEW i \in DOMAIN t, NEW k \in 1..t[i].len
                 PROVE  r.bytes[t[i].logical_off + k] = t[i].crc[k]
        OBVIOUS
    <2>1. k \in 1..x[at[i]].len /\ t[i].logical_off + k \in 1..n
        BY <1>5, <1>7
    <2>2. c.bytes[x[at[i]].logical_off + k] = x[at[i]].crc[k]
        BY <1>2, <1>7, <2>1
    <2> QED BY <1>3, <1>7, <2>1, <2>2
<1>11. ASSUME NEW p \in 1..n, r.bytes[p] # 0
       PROVE  \E i \in DOMAIN t : Covers(t[i], p)
    <2>1. PICK q \in DOMAIN x : Covers(x[q], p)
        BY <1>1, <1>2, <1>3, <1>11
    <2>2. x[q].logical_off < n
        BY <1>5, <2>1 DEF Covers
    <2>3. PICK i \in DOMAIN t : at[i] = q
        BY <1>4, <2>2 DEF TrimmedAt
    <2>4. Covers(t[i], p)
        BY <1>5, <1>7, <2>1, <2>3 DEF Covers
    <2> QED BY <2>4
<1>12. EndWithin(t, n)
    BY <1>7 DEF EndWithin
<1>13. Holds(t, r.bytes)
    BY <1>3, <1>8, <1>9, <1>10, <1>11, <1>12 DEF Holds
<1> QED BY <1>13 DEF t, r

\* An extent that is shortened still holds what was written at the places it keeps.
LEMMA ShrinkExtent ==
    ASSUME NEW e \in Extents, NEW g \in Extents, NEW n \in Nat, NEW d, NEW lg, NEW pos \in Nat,
           ExtentInv(e, d, lg, pos), e.logical_off < n,
           g.logical_off = e.logical_off, g.physical_ptr = e.physical_ptr, g.crc = e.crc,
           g.len = IF e.logical_off + e.len > n THEN n - e.logical_off ELSE e.len
    PROVE  ExtentInv(g, d, lg, pos) /\ g.logical_off + g.len <= n
<1>1. e.logical_off \in Nat /\ e.len \in Nat /\ e.physical_ptr \in Nat /\ Len(e.crc) \in Nat
    BY ExtentFields
<1>2. g.len \in Nat /\ g.len <= e.len /\ g.logical_off + g.len <= n
    BY <1>1
<1>3. e.len <= Len(e.crc) /\ (lg # "reused" => OnDevice(d, e))
      /\ (lg = "first" => e.physical_ptr + e.len <= pos)
    BY DEF ExtentInv
<1>4. g.len <= Len(g.crc) /\ (lg = "first" => g.physical_ptr + g.len <= pos)
    BY <1>1, <1>2, <1>3
<1>5. OnDevice(d, e) => OnDevice(d, g)
    BY <1>1, <1>2 DEF OnDevice
<1> QED BY <1>2, <1>3, <1>4, <1>5 DEF ExtentInv

\* set_attr to any size, and truncate_file to a size that is not smaller: what is known
\* of the file reaches to its new end.
LEMMA ResizeFile ==
    ASSUME NEW m \in Metas, NEW c \in Contents, NEW g, NEW H, NEW H2, NEW d, NEW lg, NEW pos \in Nat,
           FileInv(m, c, g \in H, d, lg, pos), NEW n \in 0..MaxSize,
           g \in H2 \/ (n >= m.size /\ g \notin H)
    PROVE  /\ [m EXCEPT !.size = n] \in Metas
           /\ Stretched(c, n) \in Contents
           /\ FileInv([m EXCEPT !.size = n], Stretched(c, n), g \in H2, d, lg, pos)
<1> DEFINE m2 == [m EXCEPT !.size = n]
           c2 == Stretched(c, n)
           x == m.extents
<1>1. n \in Nat /\ m.size \in Nat /\ x \in Seq(Extents) /\ Len(c.bytes) \in Nat
    BY DataAssumption DEF Metas, Contents
<1>2. m2 \in Metas /\ m2.size = n /\ m2.extents = x
    BY DEF Metas
<1>3. \A i \in DOMAIN x : ExtentInv(x[i], d, lg, pos)
    BY DEF FileInv
<1>4. g \in H2 \/ EndWithin(x, n)
    <2> SUFFICES ASSUME g \notin H2, NEW i \in DOMAIN x PROVE x[i].logical_off + x[i].len <= n
        BY DEF EndWithin
    <2>1. n >= m.size /\ x[i].logical_off + x[i].len <= m.size
        BY DEF FileInv, EndWithin
    <2>2. x[i].logical_off \in Nat /\ x[i].len \in Nat
        BY <1>1, ExtentFields
    <2> QED BY <1>1, <2>1, <2>2
<1>5. c2 \in Contents /\ (c2.known => n <= Len(c2.bytes) /\ Holds(x, c2.bytes))
    <2>1. CASE c.known /\ n > Len(c.bytes)
        <3>1. c2 = Resized(c, n) /\ Holds(x, c.bytes)
            BY <2>1 DEF Stretched, FileInv
        <3>2. c2 \in Contents /\ Len(c2.bytes) = n
            BY <1>1, <3>1, ResizedIs
        <3>3. Holds(x, c2.bytes)
            BY <1>1, <2>1, <3>1, GrowHolds
        <3> HIDE DEF c2, x
        <3> QED BY <1>1, <3>2, <3>3
    <2>2. CASE ~(c.known /\ n > Len(c.bytes))
        <3>1. c2 = c
            BY <2>2 DEF Stretched
        <3>2. c.known => n <= Len(c.bytes) /\ Holds(x, c.bytes)
            BY <1>1, <2>2 DEF FileInv
        <3> HIDE DEF c2, x
        <3> QED BY <3>1, <3>2
    <2> QED BY <2>1, <2>2
<1> HIDE DEF m2, c2, x
<1>6. FileInv(m2, c2, g \in H2, d, lg, pos)
    BY <1>2, <1>3, <1>4, <1>5 DEF FileInv
<1> QED BY <1>2, <1>5, <1>6 DEF m2, c2

\* truncate_file to a smaller size leaves a file whose extents hold what is left, and
\* none of them behind its end, whatever set_attr did before.
LEMMA ShrinkFile ==
    ASSUME NEW m \in Metas, NEW c \in Contents, NEW hid, NEW d, NEW lg, NEW pos \in Nat,
           FileInv(m, c, hid, d, lg, pos), NEW n \in 0..MaxSize, n < m.size
    PROVE  /\ [size |-> n, extents |-> Trimmed(m.extents, n)] \in Metas
           /\ (IF c.known THEN Resized(c, n) ELSE c) \in Contents
           /\ FileInv([size |-> n, extents |-> Trimmed(m.extents, n)],
                      IF c.known THEN Resized(c, n) ELSE c, FALSE, d, lg, pos)
<1> DEFINE x == m.extents
           t == Trimmed(x, n)
           m2 == [size |-> n, extents |-> t]
           c2 == IF c.known THEN Resized(c, n) ELSE c
<1>1. n \in Nat /\ m.size \in Nat /\ x \in Seq(Extents) /\ Len(c.bytes) \in Nat
    BY DataAssumption DEF Metas, Contents
<1>2. \A i \in DOMAIN x : x[i] \in Extents /\ ExtentInv(x[i], d, lg, pos)
    BY DEF FileInv, Metas
<1>3. t \in Seq(Extents) /\ \E at : TrimmedAt(at, t, x, n)
    BY <1>1, TrimmedIs
<1>4. c2 \in Contents
    BY <1>1, ResizedIs
<1>5. ASSUME c2.known PROVE n <= Len(c2.bytes) /\ Holds(t, c2.bytes)
    <2>1. c.known
        BY <1>5
    <2>2. m.size <= Len(c.bytes) /\ Holds(x, c.bytes)
        BY <2>1 DEF FileInv
    <2>3. n <= Len(c.bytes)
        BY <1>1, <2>2
    <2>4. Holds(t, Resized(c, n).bytes) /\ Len(Resized(c, n).bytes) = n
        BY <1>1, <2>2, <2>3, ShrinkHolds, ResizedIs
    <2>5. c2 = Resized(c, n)
        BY <2>1
    <2> HIDE DEF c2, t
    <2> QED BY <1>1, <2>4, <2>5
<1> HIDE DEF x, t
<1>6. ASSUME NEW i \in DOMAIN t
      PROVE  ExtentInv(t[i], d, lg, pos) /\ t[i].logical_off + t[i].len <= n
    <2>1. PICK at : TrimmedAt(at, t, x, n)
        BY <1>3
    <2>2. at[i] \in DOMAIN x
        BY <2>1 DEF TrimmedAt
    <2>3. x[at[i]] \in Extents /\ t[i] \in Extents /\ ExtentInv(x[at[i]], d, lg, pos)
        BY <1>2, <1>3, <2>2
    <2>4. /\ x[at[i]].logical_off < n
          /\ t[i].logical_off = x[at[i]].logical_off
          /\ t[i].physical_ptr = x[at[i]].physical_ptr
          /\ t[i].crc = x[at[i]].crc
          /\ t[i].len = IF x[at[i]].logical_off + x[at[i]].len > n
                        THEN n - x[at[i]].logical_off ELSE x[at[i]].len
        BY <2>1 DEF TrimmedAt
    <2> QED BY <1>1, <2>3, <2>4, ShrinkExtent
<1>7. m2 \in Metas /\ m2.size = n /\ m2.extents = t
    BY <1>3 DEF Metas
<1> HIDE DEF m2, c2
<1>8. FileInv(m2, c2, FALSE, d, lg, pos)
    BY <1>5, <1>6, <1>7 DEF FileInv, EndWithin
<1> QED BY <1>4, <1>7, <1>8 DEF m2, c2, t, x

\* Where the bytes of two sequences are in their concatenation.
LEMMA ConcatIs ==
    ASSUME NEW s \in Seq(Bytes \cup {0}), NEW t \in Seq(Bytes \cup {0})
    PROVE  /\ Len(s \o t) = Len(s) + Len(t)
           /\ \A k \in 1..Len(s) : (s \o t)[k] = s[k]
           /\ \A k \in 1..Len(t) : (s \o t)[Len(s) + k] = t[k]
OBVIOUS

\* A write at or behind the last of the bytes.
LEMMA WriteHolds ==
    ASSUME NEW x \in Seq(Extents), NEW c \in Contents, Holds(x, c.bytes),
           NEW data \in WriteData, NEW e \in Extents, e.len = Len(data), e.crc = data,
           e.logical_off >= Len(c.bytes), e.physical_ptr + e.len <= LogSize
    PROVE  /\ Holds(Append(x, e), Resized(c, e.logical_off).bytes \o data)
           /\ Len(Resized(c, e.logical_off).bytes \o data) = e.logical_off + e.len
<1> DEFINE y == Append(x, e)
           n == Len(x)
           l == Len(c.bytes)
           off == e.logical_off
           a == Resized(c, off).bytes
           b == a \o data
<1>1. l \in Nat /\ l <= off
    BY DEF Contents
<1>2. /\ \A i \in DOMAIN x : x[i].physical_ptr + x[i].len <= LogSize
      /\ \A i, j \in DOMAIN x : i < j => x[i].logical_off + x[i].len <= x[j].logical_off
      /\ \A i \in DOMAIN x : \A k \in 1..x[i].len : c.bytes[x[i].logical_off + k] = x[i].crc[k]
      /\ \A p \in 1..l : c.bytes[p] # 0 => \E i \in DOMAIN x : Covers(x[i], p)
    BY DEF Holds
<1>3. off \in Nat /\ e.len \in Nat /\ data \in Seq(Bytes) /\ Len(data) = e.len
    BY ExtentFields, WriteDataSeq
<1>4. /\ a \in Seq(Bytes \cup {0}) /\ Len(a) = off
      /\ \A k \in 1..off : a[k] = IF k <= l THEN c.bytes[k] ELSE 0
    <2>1. /\ a \in Seq(Bytes \cup {0}) /\ Len(a) = off
          /\ \A k \in 1..off : a[k] = IF k <= Len(c.bytes) THEN c.bytes[k] ELSE 0
        BY <1>3, ResizedIs
    <2> QED BY <2>1
<1>5. \A i \in DOMAIN x : x[i].logical_off \in Nat /\ x[i].len \in Nat /\ x[i].logical_off + x[i].len <= l
    BY ExtentFields DEF Holds, EndWithin
<1>6. /\ n \in Nat /\ DOMAIN x = 1..n /\ DOMAIN y = 1..(n + 1) /\ y[n + 1] = e
      /\ \A i \in 1..n : y[i] = x[i]
    OBVIOUS
<1> HIDE DEF a
<1>7. /\ Len(b) = off + e.len
      /\ \A k \in 1..off : b[k] = a[k]
      /\ \A k \in 1..e.len : b[off + k] = data[k]
    <2>1. /\ a \in Seq(Bytes \cup {0}) /\ Len(a) = off /\ data \in Seq(Bytes \cup {0})
          /\ Len(data) = e.len
        BY <1>3, <1>4
    <2> HIDE DEF off
    <2>2. /\ Len(b) = Len(a) + Len(data)
          /\ \A k \in 1..Len(a) : b[k] = a[k]
          /\ \A k \in 1..Len(data) : b[Len(a) + k] = data[k]
        BY ONLY <2>1, ConcatIs DEF b
    <2> HIDE DEF b
    <2> QED BY ONLY <2>1, <2>2
<1> HIDE DEF y, n, b, l
<1>8. \A i \in DOMAIN y : y[i].physical_ptr + y[i].len <= LogSize
    BY <1>2, <1>6
<1>9. \A i, j \in DOMAIN y : i < j => y[i].logical_off + y[i].len <= y[j].logical_off
    <2> SUFFICES ASSUME NEW i \in 1..(n + 1), NEW j \in 1..(n + 1), i < j
                 PROVE  y[i].logical_off + y[i].len <= y[j].logical_off
        BY <1>6
    <2>1. i \in DOMAIN x /\ y[i] = x[i]
        BY <1>6
    <2>2. CASE j = n + 1
        BY <1>1, <1>2, <1>3, <1>5, <1>6, <2>1, <2>2
    <2>3. CASE j # n + 1
        BY <1>2, <1>6, <2>1, <2>3
    <2> QED BY <2>2, <2>3
<1>10. ASSUME NEW i \in DOMAIN y, NEW k \in 1..y[i].len
       PROVE  b[y[i].logical_off + k] = y[i].crc[k]
    <2>1. CASE i = n + 1
        BY <1>6, <1>7, <2>1
    <2>2. CASE i # n + 1
        <3>1. i \in DOMAIN x /\ y[i] = x[i]
            BY <1>6, <2>2
        <3> DEFINE p == x[i].logical_off + k
        <3>2. p \in 1..off /\ p <= l
            <4>1. /\ x[i].logical_off \in Nat /\ x[i].len \in Nat /\ k \in 1..x[i].len
                  /\ x[i].logical_off + x[i].len <= l
                BY <1>5, <3>1
            <4>3. \A o, z, v, w \in Nat : o + z <= v /\ v <= w =>
                        \A q \in 1..z : o + q \in 1..w /\ o + q <= v
                OBVIOUS
            <4> QED BY <1>1, <1>3, <4>1, <4>3
        <3>3. c.bytes[p] = x[i].crc[k]
            BY <1>2, <3>1
        <3> HIDE DEF p
        <3>4. b[p] = x[i].crc[k]
            BY <1>4, <1>7, <3>2, <3>3
        <3> QED BY <3>1, <3>4 DEF p
    <2> QED BY <2>1, <2>2
<1>11. ASSUME NEW p \in 1..(off + e.len), b[p] # 0
       PROVE  \E i \in DOMAIN y : Covers(y[i], p)
    <2>1. CASE p > off
        <3>1. n + 1 \in DOMAIN y /\ Covers(y[n + 1], p)
            BY <1>3, <1>6, <2>1 DEF Covers
        <3> QED BY <3>1
    <2>2. CASE p <= off
        <3>1. p \in 1..l /\ c.bytes[p] # 0
            BY <1>1, <1>3, <1>4, <1>7, <1>11, <2>2
        <3>2. PICK i \in DOMAIN x : Covers(x[i], p)
            BY <1>2, <3>1
        <3>3. i \in DOMAIN y /\ y[i] = x[i]
            BY <1>6
        <3> QED BY <3>2, <3>3
    <2> QED BY <1>3, <2>1, <2>2
<1>12. EndWithin(y, off + e.len)
    <2> SUFFICES ASSUME NEW i \in DOMAIN y PROVE y[i].logical_off + y[i].len <= off + e.len
        BY DEF EndWithin
    <2>1. CASE i = n + 1
        BY <1>3, <1>6, <2>1
    <2>2. CASE i # n + 1
        <3>1. i \in DOMAIN x /\ y[i] = x[i]
            BY <1>6, <2>2
        <3> QED BY <1>1, <1>3, <1>5, <3>1
    <2> QED BY <2>1, <2>2
<1>13. Holds(y, b)
    BY <1>7, <1>8, <1>9, <1>10, <1>11, <1>12 DEF Holds
<1> QED BY <1>7, <1>13 DEF y, b, a

\* The state of a device after the append, and the extent that records it.
LEMMA AppendIs ==
    ASSUME DataTypeOK, NEW data \in WriteData, append_data(data)
    PROVE  /\ device' \in [1..LogSize -> Bytes \cup {0}]
           /\ next_append_pos \in Nat /\ next_append_pos' \in 0..MaxPos
           /\ next_append_pos' = next_append_pos + Len(data)
           /\ \A p \in 1..LogSize : p <= next_append_pos => device'[p] = device[p]
           /\ \A k \in 1..Len(data) : next_append_pos + k <= LogSize =>
                    device'[next_append_pos + k] = data[k]
<1>1. data \in Seq(Bytes) /\ Len(data) \in Nat
    BY WriteDataSeq
<1>2. /\ device \in [1..LogSize -> Bytes \cup {0}] /\ next_append_pos \in Nat
      /\ MaxPos \in Nat /\ LogSize \in Nat
    BY DataAssumption DEF DataTypeOK
<1>3. next_append_pos' = next_append_pos + Len(data) /\ next_append_pos' \in 0..MaxPos
    BY <1>1, <1>2 DEF append_data
<1>4. device' = [p \in 1..LogSize |-> IF p > next_append_pos /\ p <= next_append_pos + Len(data)
                                      THEN data[p - next_append_pos] ELSE device[p]]
    BY DEF append_data, DeviceWrite
<1>5. \A p \in 1..LogSize :
        p > next_append_pos /\ p <= next_append_pos + Len(data) => data[p - next_append_pos] \in Bytes
    BY <1>1, <1>2
<1> QED BY <1>1, <1>2, <1>3, <1>4, <1>5

\* The fields of the extent that a write commits.
LEMMA NewExtent ==
    ASSUME NEW data \in WriteData, NEW off \in 0..MaxSize, NEW pos \in 0..MaxPos
    PROVE  /\ Extent(off, pos, data) \in Extents
           /\ Extent(off, pos, data).logical_off = off /\ Extent(off, pos, data).physical_ptr = pos
           /\ Extent(off, pos, data).len = Len(data) /\ Extent(off, pos, data).crc = data
BY WriteDataSeq DEF Extent, crc32, Extents

\* write_file_transactional, committed or ended after its append, keeps the invariant.
LEMMA WriteStep ==
    ASSUME DataInv, NEW f \in Files, NEW off \in 0..MaxSize, NEW data \in WriteData,
           write_file_transactional(f, off, data)
    PROVE  DataInv'
<1> DEFINE lg2 == IF log = "first" THEN "first" ELSE "reused"
           pos == next_append_pos
           n == Len(data)
           e == Extent(off, pos, data)
           m == meta[f]
           c == content[f]
<1>1. DataTypeOK /\ append_data(data) /\ off + n <= MaxSize /\ log' = lg2 /\ hidden' = hidden
    BY DEF DataInv, write_file_transactional
<1>2. n \in Nat /\ off \in Nat /\ MaxSize \in Nat /\ MaxPos \in Nat /\ pos \in 0..MaxPos
    BY <1>1, WriteDataSeq, DataAssumption DEF DataTypeOK
<1>3. /\ device' \in [1..LogSize -> Bytes \cup {0}] /\ pos \in Nat
      /\ next_append_pos' \in 0..MaxPos /\ next_append_pos' = pos + n
      /\ \A p \in 1..LogSize : p <= pos => device'[p] = device[p]
      /\ \A k \in 1..n : pos + k <= LogSize => device'[pos + k] = data[k]
    BY <1>1, AppendIs
<1>4. /\ meta \in [Files -> Metas] /\ content \in [Files -> Contents] /\ log' \in LogStates
      /\ hidden' \subseteq Files
    BY <1>1 DEF DataTypeOK, Metas, Contents, LogStates
<1>5. ASSUME NEW g \in Files
      PROVE  FileInv(meta[g], content[g], g \in hidden', device', log', next_append_pos')
    <2>1. FileInv(meta[g], content[g], g \in hidden', device, log, pos) /\ meta[g] \in Metas
        BY <1>1, <1>4 DEF DataInv
    <2> HIDE DEF pos, n
    <2> QED BY <1>1, <1>2, <1>3, <2>1, AppendKeepsFile
<1>6. CASE UNCHANGED <<meta, content>>
    <2>1. DataTypeOK'
        BY <1>3, <1>4, <1>6 DEF DataTypeOK, Metas, Contents
    <2> QED BY <1>5, <1>6, <2>1 DEF DataInv
<1>7. ASSUME meta' = [meta EXCEPT ![f] =
                [size |-> IF off + n > m.size THEN off + n ELSE m.size, extents |-> Append(m.extents, e)]],
             content' = [content EXCEPT ![f] = Written(c, off, data)]
      PROVE  DataInv'
    <2> DEFINE size == IF off + n > m.size THEN off + n ELSE m.size
               x == m.extents
               y == Append(x, e)
               m2 == [size |-> size, extents |-> y]
               c2 == Written(c, off, data)
    <2>1. e \in Extents /\ e.logical_off = off /\ e.physical_ptr = pos /\ e.len = n /\ e.crc = data
        BY <1>2, NewExtent
    <2>2. x \in Seq(Extents) /\ m \in Metas /\ c \in Contents /\ m.size \in Nat /\ m.size <= MaxSize
        BY <1>4, DataAssumption DEF Metas
    <2>3. size \in 0..MaxSize /\ size \in Nat /\ size >= m.size /\ size >= off + n
        BY <1>1, <1>2, <2>2
    <2> HIDE DEF e
    <2>4. /\ y \in Seq(Extents) /\ DOMAIN y = 1..(Len(x) + 1) /\ y[Len(x) + 1] = e
          /\ Len(x) \in Nat /\ DOMAIN x = 1..Len(x) /\ \A i \in 1..Len(x) : y[i] = x[i]
        BY <2>1, <2>2
    <2>5. \A i \in DOMAIN x : ExtentInv(x[i], device', log', pos + n)
        BY <1>3, <1>5 DEF FileInv
    <2>6. f \in hidden' \/ EndWithin(x, m.size)
        BY <1>5 DEF FileInv
    <2>7. ExtentInv(e, device', log', pos + n)
        <3>1. OnDevice(device', e)
            BY <1>3, <2>1 DEF OnDevice
        <3> QED BY <1>2, <1>3, <2>1, <3>1 DEF ExtentInv
    <2>8. c2 \in Contents /\ (c2.known => size <= Len(c2.bytes) /\ Holds(y, c2.bytes))
        <3>1. CASE c.known /\ off >= Len(c.bytes) /\ pos + n <= LogSize
            <4> DEFINE b == Resized(c, off).bytes \o data
            <4>1. c2 = [c EXCEPT !.bytes = b]
                BY <3>1 DEF Written
            <4>2. m.size <= Len(c.bytes) /\ Holds(x, c.bytes) /\ Len(c.bytes) \in Nat
                BY <1>5, <2>2, <3>1 DEF FileInv, Contents
            <4>3. Holds(y, b) /\ Len(b) = off + n
                <5>1. e.logical_off >= Len(c.bytes) /\ e.physical_ptr + e.len <= LogSize
                    BY <2>1, <3>1
                <5>2. /\ Holds(Append(x, e), Resized(c, e.logical_off).bytes \o data)
                      /\ Len(Resized(c, e.logical_off).bytes \o data) = e.logical_off + e.len
                    BY <2>1, <2>2, <4>2, <5>1, WriteHolds
                <5> QED BY <2>1, <5>2, Zenon
            <4>4. size = off + n
                BY <1>2, <2>2, <3>1, <4>2
            <4>5. c2 \in Contents
                <5>1. Resized(c, off).bytes \in Seq(Bytes \cup {0}) /\ data \in Seq(Bytes \cup {0})
                    <6>1. data \in Seq(Bytes)
                        BY WriteDataSeq
                    <6>2. data \in Seq(Bytes \cup {0})
                        BY <6>1
                    <6> QED BY <1>2, <2>2, <6>2, ResizedIs
                <5>2. b \in Seq(Bytes \cup {0})
                    BY <5>1
                <5> HIDE DEF b
                <5> QED BY <2>2, <4>1, <5>2 DEF Contents
            <4> HIDE DEF c2, y, b
            <4>6. c2.bytes = b
                BY <2>2, <4>1 DEF Contents
            <4>7. size <= Len(c2.bytes)
                BY <1>2, <4>3, <4>4, <4>6
            <4> QED BY <4>3, <4>5, <4>6, <4>7
        <3>2. CASE ~(c.known /\ off >= Len(c.bytes) /\ pos + n <= LogSize)
            <4>1. c2 = Forgotten
                BY <3>2 DEF Written
            <4>2. Forgotten \in Contents /\ ~Forgotten.known
                BY DEF Forgotten, Contents
            <4> HIDE DEF c2
            <4> QED BY <4>1, <4>2, Zenon
        <3> QED BY <3>1, <3>2
    <2> HIDE DEF c2, x, y, size
    <2>9. m2 \in Metas /\ m2.size = size /\ m2.extents = y
        BY <2>3, <2>4 DEF Metas
    <2>10. FileInv(m2, c2, f \in hidden', device', log', pos + n)
        <3>1. ASSUME NEW i \in DOMAIN y PROVE ExtentInv(y[i], device', log', pos + n)
            <4>1. CASE i = Len(x) + 1
                BY <2>4, <2>7, <4>1
            <4>2. CASE i # Len(x) + 1
                BY <2>4, <2>5, <4>2
            <4> QED BY <4>1, <4>2
        <3>2. ASSUME EndWithin(x, m.size) PROVE EndWithin(y, size)
            <4> SUFFICES ASSUME NEW i \in DOMAIN y PROVE y[i].logical_off + y[i].len <= size
                BY DEF EndWithin
            <4>1. CASE i = Len(x) + 1
                BY <2>1, <2>3, <2>4, <4>1
            <4>2. CASE i # Len(x) + 1
                <5>1. i \in DOMAIN x /\ y[i] = x[i] /\ x[i] \in Extents
                    BY <2>2, <2>4, <4>2
                <5>2. x[i].logical_off + x[i].len <= m.size
                    BY <3>2, <5>1 DEF EndWithin
                <5>3. x[i].logical_off \in Nat /\ x[i].len \in Nat
                    BY <5>1, ExtentFields
                <5> QED BY <2>2, <2>3, <5>1, <5>2, <5>3
            <4> QED BY <4>1, <4>2
        <3> HIDE DEF m2
        <3> QED BY <2>6, <2>8, <2>9, <3>1, <3>2 DEF FileInv
    <2>11. meta' = [meta EXCEPT ![f] = m2] /\ content' = [content EXCEPT ![f] = c2]
        BY <1>7 DEF size, x, y, c2
    <2> HIDE DEF m2
    <2>12. meta' \in [Files -> Metas] /\ content' \in [Files -> Contents]
        BY <1>4, <2>8, <2>9, <2>11
    <2>13. DataTypeOK'
        BY <1>3, <1>4, <2>12 DEF DataTypeOK, Metas, Contents
    <2>14. ASSUME NEW g \in Files
           PROVE  FileInv(meta'[g], content'[g], g \in hidden', device', log', next_append_pos')
        <3>1. CASE g = f
            <4>1. meta'[g] = m2 /\ content'[g] = c2
                BY <1>4, <2>11, <3>1
            <4> HIDE DEF pos, n
            <4> QED BY <1>3, <2>10, <3>1, <4>1
        <3>2. CASE g # f
            <4>1. meta'[g] = meta[g] /\ content'[g] = content[g]
                BY <1>4, <2>11, <3>2
            <4> QED BY <1>5, <4>1
        <3> QED BY <3>1, <3>2
    <2> QED BY <2>13, <2>14 DEF DataInv
<1> QED BY <1>6, <1>7 DEF write_file_transactional

\* truncate_file and set_attr change one file.
LEMMA OneFileStep ==
    ASSUME DataInv, NEW f \in Files, NEW m2 \in Metas, NEW c2 \in Contents,
           meta' = [meta EXCEPT ![f] = m2], content' = [content EXCEPT ![f] = c2],
           hidden' \subseteq Files, \A g \in Files : g # f => (g \in hidden' <=> g \in hidden),
           UNCHANGED <<device, next_append_pos, log>>,
           FileInv(m2, c2, f \in hidden', device, log, next_append_pos)
    PROVE  DataInv'
<1>1. DataTypeOK /\ meta \in [Files -> Metas] /\ content \in [Files -> Contents]
    BY DEF DataInv, DataTypeOK, Metas, Contents
<1>2. meta' \in [Files -> Metas] /\ content' \in [Files -> Contents]
    BY <1>1
<1>3. DataTypeOK'
    BY <1>1, <1>2 DEF DataTypeOK, Metas, Contents
<1>4. ASSUME NEW g \in Files
      PROVE  FileInv(meta'[g], content'[g], g \in hidden', device', log', next_append_pos')
    <2>1. CASE g = f
        <3>1. meta'[g] = m2 /\ content'[g] = c2
            BY <1>1, <2>1
        <3> QED BY <2>1, <3>1
    <2>2. CASE g # f
        <3>1. meta'[g] = meta[g] /\ content'[g] = content[g] /\ (g \in hidden' <=> g \in hidden)
            BY <1>1, <2>2
        <3>2. FileInv(meta[g], content[g], g \in hidden, device, log, next_append_pos)
            BY DEF DataInv
        <3> QED BY <3>1, <3>2 DEF FileInv
    <2> QED BY <2>1, <2>2
<1> QED BY <1>3, <1>4 DEF DataInv

\* truncate_file and set_attr keep the invariant.
LEMMA TruncateStep ==
    ASSUME DataInv, NEW f \in Files, NEW n \in 0..MaxSize, truncate_file(f, n) \/ set_attr(f, n)
    PROVE  DataInv'
<1> DEFINE m == meta[f]
           c == content[f]
<1>1. /\ m \in Metas /\ c \in Contents /\ next_append_pos \in Nat /\ hidden \subseteq Files
      /\ FileInv(m, c, f \in hidden, device, log, next_append_pos) /\ m.size \in Nat /\ n \in Nat
    BY DataAssumption DEF DataInv, DataTypeOK, Metas, Contents
<1>2. CASE truncate_file(f, n) /\ n < m.size
    <2> DEFINE m2 == [size |-> n, extents |-> Trimmed(m.extents, n)]
               c2 == IF c.known THEN Resized(c, n) ELSE c
    <2>1. /\ meta' = [meta EXCEPT ![f] = m2] /\ content' = [content EXCEPT ![f] = c2]
          /\ hidden' = hidden \ {f} /\ UNCHANGED <<device, next_append_pos, log>>
        BY <1>2 DEF truncate_file
    <2>2. m2 \in Metas /\ c2 \in Contents /\ FileInv(m2, c2, FALSE, device, log, next_append_pos)
        BY <1>1, <1>2, ShrinkFile
    <2> HIDE DEF m2, c2
    <2>3. FileInv(m2, c2, f \in hidden', device, log, next_append_pos)
        BY <2>1, <2>2 DEF FileInv
    <2> QED BY <1>1, <2>1, <2>2, <2>3, OneFileStep
<1>3. CASE ~(truncate_file(f, n) /\ n < m.size)
    <2> DEFINE m2 == [m EXCEPT !.size = n]
               c2 == Stretched(c, n)
    <2>1. /\ meta' = [meta EXCEPT ![f] = m2] /\ content' = [content EXCEPT ![f] = c2]
          /\ hidden' = IF n < m.size THEN hidden \cup {f} ELSE hidden
          /\ UNCHANGED <<device, next_append_pos, log>>
        BY <1>3 DEF truncate_file, set_attr
    <2>2. f \in hidden' \/ (n >= m.size /\ f \notin hidden)
        BY <1>1, <2>1
    <2>3. /\ m2 \in Metas /\ c2 \in Contents
          /\ FileInv(m2, c2, f \in hidden', device, log, next_append_pos)
        <3> HIDE DEF m, c
        <3> QED BY <1>1, <2>2, ResizeFile
    <2> HIDE DEF m2, c2
    <2>4. hidden' \subseteq Files /\ \A g \in Files : g # f => (g \in hidden' <=> g \in hidden)
        BY <1>1, <2>1
    <2> QED BY <2>1, <2>3, <2>4, OneFileStep
<1> QED BY <1>2, <1>3

\* mount keeps the invariant: the append position is reset and the log is used again.
LEMMA MountStep ==
    ASSUME DataInv, mount
    PROVE  DataInv'
<1>1. DataTypeOK'
    BY DataAssumption DEF DataInv, mount, DataTypeOK, LogStates
<1>2. ASSUME NEW f \in Files
      PROVE  FileInv(meta'[f], content'[f], f \in hidden', device', log', next_append_pos')
    <2>1. meta' = meta /\ content' = content /\ hidden' = hidden /\ device' = device /\ log' # "first"
          /\ (log' # "reused" => log # "reused")
        BY DEF mount
    <2>2. FileInv(meta[f], content[f], f \in hidden, device, log, next_append_pos)
        BY DEF DataInv
    <2> QED BY <2>1, <2>2 DEF FileInv, ExtentInv
<1> QED BY <1>1, <1>2 DEF DataInv

\* The formatted device satisfies the invariant.
LEMMA InitStep == DataInit => DataInv
<1> SUFFICES ASSUME DataInit PROVE DataInv
    OBVIOUS
<1>1. /\ device = [p \in 1..LogSize |-> 0] /\ next_append_pos = 0 /\ log = "first"
      /\ meta = [f \in Files |-> [size |-> 0, extents |-> <<>>]]
      /\ content = [f \in Files |-> [known |-> TRUE, bytes |-> <<>>]] /\ hidden = {}
    BY DEF DataInit
<1>2. DataTypeOK
    BY <1>1, DataAssumption DEF DataTypeOK, LogStates
<1>3. ASSUME NEW f \in Files
      PROVE  FileInv(meta[f], content[f], f \in hidden, device, log, next_append_pos)
    <2>1. /\ meta[f].size = 0 /\ DOMAIN meta[f].extents = {} /\ Len(content[f].bytes) = 0
        BY <1>1
    <2>2. 1..0 = {}
        OBVIOUS
    <2>3. Holds(meta[f].extents, content[f].bytes) /\ EndWithin(meta[f].extents, meta[f].size)
        BY <2>1, <2>2, Zenon DEF Holds, EndWithin
    <2> QED BY <2>1, <2>3 DEF FileInv
<1> QED BY <1>2, <1>3 DEF DataInv

\* The invariant of the files and of the log, which every operation keeps.
THEOREM DataInvariant == DataSpec => []DataInv
<1>1. DataInv /\ [DataNext]_dataVars => DataInv'
    <2> SUFFICES ASSUME DataInv, [DataNext]_dataVars PROVE DataInv'
        OBVIOUS
    <2>1. CASE UNCHANGED dataVars
        BY <2>1 DEF DataInv, DataTypeOK, dataVars
    <2>2. CASE mount
        BY <2>2, MountStep
    <2>3. ASSUME NEW f \in Files, NEW off \in 0..MaxSize, NEW data \in WriteData,
                 write_file_transactional(f, off, data)
          PROVE  DataInv'
        BY <2>3, WriteStep
    <2>4. ASSUME NEW f \in Files, NEW n \in 0..MaxSize, truncate_file(f, n) \/ set_attr(f, n)
          PROVE  DataInv'
        BY <2>4, TruncateStep
    <2> QED BY <2>1, <2>2, <2>3, <2>4 DEF DataNext
<1> QED BY <1>1, InitStep, PTL DEF DataSpec

\* No extent reaches beyond the end of its file, whatever writes, truncations and
\* mounts come in whatever order, unless set_attr made the file smaller and truncate_file
\* has not done so since; and no length goes below zero.
THEOREM ExtentsTheorem == DataSpec => []ExtentsWithinSize
<1>1. DataInv => ExtentsWithinSize
    <2> SUFFICES ASSUME DataInv, NEW f \in Files \ hidden, NEW i \in DOMAIN meta[f].extents
                 PROVE  meta[f].extents[i].logical_off + meta[f].extents[i].len <= meta[f].size
        BY DEF DataInv, ExtentsWithinSize
    <2>1. EndWithin(meta[f].extents, meta[f].size)
        BY DEF DataInv, FileInv
    <2> QED BY <2>1 DEF EndWithin
<1> QED BY <1>1, DataInvariant, PTL

\* Until the log is appended to in a second mount, an extent that fits on the device
\* reads as it was written: no append and no truncation of any file touches it.
THEOREM CrcTheorem == DataSpec => []CrcHolds
<1>1. DataInv => CrcHolds
    <2> SUFFICES ASSUME DataInv, log # "reused", NEW f \in Files, NEW i \in DOMAIN meta[f].extents,
                        meta[f].extents[i].physical_ptr + meta[f].extents[i].len <= LogSize
                 PROVE  crc32(DeviceRead(meta[f].extents[i].physical_ptr, meta[f].extents[i].len))
                            = SubSeq(meta[f].extents[i].crc, 1, meta[f].extents[i].len)
        BY DEF CrcHolds
    <2> DEFINE e == meta[f].extents[i]
               r == DeviceRead(e.physical_ptr, e.len)
               t == SubSeq(e.crc, 1, e.len)
    <2>1. e \in Extents /\ e.len <= Len(e.crc) /\ OnDevice(device, e) /\ e.physical_ptr + e.len <= LogSize
        BY DEF DataInv, DataTypeOK, FileInv, ExtentInv
    <2> HIDE DEF e
    <2>2. /\ e.physical_ptr \in Nat /\ e.len \in Nat /\ e.crc \in Seq(Bytes) /\ LogSize \in Nat
          /\ Len(e.crc) \in Nat
        BY <2>1, ExtentFields, DataAssumption
    <2>3. r = [k \in 1..e.len |-> e.crc[k]]
        <3>1. \A k \in 1..e.len : e.physical_ptr + k <= LogSize /\ device[e.physical_ptr + k] = e.crc[k]
            BY <2>1, <2>2 DEF OnDevice
        <3> QED BY <3>1 DEF DeviceRead
    <2>4. t = [k \in 1..e.len |-> e.crc[k]]
        BY <2>1, <2>2
    <2>5. crc32(r) = t
        BY <2>3, <2>4, Zenon DEF crc32
    <2> QED BY <2>5 DEF e
<1> QED BY <1>1, DataInvariant, PTL

-----------------------------------------------------------------------------
(* Reading *)

\* The buffer before the first extent.
Blank(len) == [buf |-> [k \in 1..len |-> Stale], total |-> 0]

IsRead(R, x, off, len, n) ==
    R = [i \in 0..n |-> IF i = 0 THEN Blank(len) ELSE ReadExtent(R[i - 1], x[i], off, len)]

ReadRule(R, x, off, len, n) ==
    /\ R[0] = Blank(len)
    /\ \A i \in Nat : i + 1 <= n => R[i + 1] = ReadExtent(R[i], x[i + 1], off, len)

\* The loop of read_file has a state after each extent.
LEMMA ReadExists ==
    ASSUME NEW x, NEW off, NEW len, NEW m \in Nat
    PROVE  \E R : IsRead(R, x, off, len, m)
<1> DEFINE T == {n \in Nat : \E R : IsRead(R, x, off, len, n)}
<1>1. 0 \in T
    <2>1. IsRead([i \in 0..0 |-> Blank(len)], x, off, len, 0)
        BY DEF IsRead
    <2> QED BY <2>1
<1>2. ASSUME NEW n \in Nat, n \in T PROVE n + 1 \in T
    <2>1. PICK R : IsRead(R, x, off, len, n)
        BY <1>2
    <2> DEFINE L == [i \in 0..(n + 1) |-> IF i <= n THEN R[i] ELSE ReadExtent(R[n], x[i], off, len)]
    <2>2. ASSUME NEW i \in 0..(n + 1)
          PROVE  L[i] = IF i = 0 THEN Blank(len) ELSE ReadExtent(L[i - 1], x[i], off, len)
        <3>1. CASE i = 0
            BY <2>1, <3>1 DEF IsRead
        <3>2. CASE i <= n /\ i # 0
            <4>1. i \in 0..n /\ i - 1 \in 0..n /\ i - 1 <= n /\ i - 1 \in 0..(n + 1)
                BY <3>2
            <4>2. L[i] = R[i] /\ L[i - 1] = R[i - 1]
                BY <3>2, <4>1
            <4>3. R[i] = IF i = 0 THEN Blank(len) ELSE ReadExtent(R[i - 1], x[i], off, len)
                BY <2>1, <4>1 DEF IsRead
            <4> HIDE DEF L
            <4> QED BY <4>2, <4>3
        <3>3. CASE i = n + 1
            BY <3>3
        <3> QED BY <3>1, <3>2, <3>3
    <2>3. IsRead(L, x, off, len, n + 1)
        BY <2>2 DEF IsRead
    <2> QED BY <2>3
<1> HIDE DEF T
<1>3. m \in T
    BY <1>1, <1>2, Induction
<1> QED BY <1>3 DEF T

\* The part of the file that a request gets at most.
ReadLen(f, off, n) ==
    IF off >= meta[f].size THEN 0 ELSE IF n < meta[f].size - off THEN n ELSE meta[f].size - off

\* read_file takes one extent after the other.
LEMMA ReadByRule ==
    ASSUME NEW f, NEW off, NEW n, NEW m \in Nat, m = Len(meta[f].extents)
    PROVE  \E R : /\ ReadRule(R, meta[f].extents, off, ReadLen(f, off, n), m)
                  /\ read_file(f, off, n) = R[m]
<1> DEFINE x == meta[f].extents
           len == ReadLen(f, off, n)
           R == CHOOSE R : IsRead(R, x, off, len, Len(x))
<1>1. \E S : IsRead(S, x, off, len, Len(x))
    BY ReadExists
<1>2. IsRead(R, x, off, len, m)
    BY <1>1
<1>3. read_file(f, off, n) = R[m]
    BY DEF read_file, IsRead, ReadLen, Blank
<1> HIDE DEF R, x, len
<1>4. \A i \in 0..m : R[i] = IF i = 0 THEN Blank(len) ELSE ReadExtent(R[i - 1], x[i], off, len)
    BY <1>2 DEF IsRead
<1>5. ASSUME NEW i \in Nat, i + 1 <= m
      PROVE  R[i + 1] = ReadExtent(R[i], x[i + 1], off, len)
    <2>1. i + 1 \in 0..m /\ i + 1 # 0 /\ (i + 1) - 1 = i
        BY <1>5
    <2> QED BY <1>4, <2>1
<1>6. R[0] = Blank(len)
    BY <1>4
<1>7. ReadRule(R, x, off, len, m)
    BY <1>5, <1>6 DEF ReadRule
<1> QED BY <1>3, <1>7 DEF x, len

\* What r, filled from the first i extents of x, has of the bytes at off.
Filled(r, x, i, off, len, bytes) ==
    /\ DOMAIN r.buf = 1..len /\ r.total \in 0..len
    /\ \A k \in 1..len :
        IF \E j \in 1..i : Covers(x[j], off + k)
        THEN r.buf[k] = bytes[off + k] /\ k <= r.total
        ELSE r.buf[k] = Stale
    /\ len > 0 /\ r.total = len => \E j \in 1..i : x[j].logical_off + x[j].len >= off + len

\* One extent that does not reach the request, and one that does.
LEMMA FilledSkip ==
    ASSUME NEW r, NEW x, NEW i \in Nat, NEW off, NEW len, NEW bytes, Filled(r, x, i, off, len, bytes),
           \A k \in 1..len : ~Covers(x[i + 1], off + k)
    PROVE  Filled(r, x, i + 1, off, len, bytes)
<1>1. \A j \in 1..(i + 1) : j \in 1..i \/ j = i + 1
    OBVIOUS
<1>2. 1..i \subseteq 1..(i + 1)
    OBVIOUS
<1>3. \A k \in 1..len : (\E j \in 1..(i + 1) : Covers(x[j], off + k)) <=> (\E j \in 1..i : Covers(x[j], off + k))
    BY <1>1, <1>2
<1> QED BY <1>2, <1>3 DEF Filled

\* A pass of the loop that copies an extent fills the places of the request that it covers.
LEMMA FilledCopy ==
    ASSUME NEW r, NEW x, NEW i \in Nat, NEW off \in Nat, NEW len \in Nat, NEW bytes,
           Filled(r, x, i, off, len, bytes), r.total < len,
           NEW e \in Extents, e = x[i + 1], e.logical_off < off + len, e.logical_off + e.len > off,
           e.physical_ptr + e.len <= LogSize, OnDevice(device, e),
           \A k \in 1..e.len : bytes[e.logical_off + k] = e.crc[k]
    PROVE  Filled(ReadExtent(r, e, off, len), x, i + 1, off, len, bytes)
<1> DEFINE end == IF e.logical_off + e.len < off + len THEN e.logical_off + e.len ELSE off + len
           b == CopyExtent(r.buf, e, off)
           total == IF end - off > r.total THEN end - off ELSE r.total
           s == [buf |-> b, total |-> total]
<1>1. e.logical_off \in Nat /\ e.len \in Nat /\ e.physical_ptr \in Nat /\ LogSize \in Nat
    BY ExtentFields, DataAssumption
<1>2. DOMAIN r.buf = 1..len /\ r.total \in Nat
    BY DEF Filled
<1>3. ReadExtent(r, e, off, len) = s
    <2>1. ~(r.total >= len \/ e.logical_off >= off + len \/ e.logical_off + e.len <= off)
        BY <1>1, <1>2
    <2> QED BY <2>1, Zenon DEF ReadExtent
<1>4. DOMAIN b = 1..len
    BY <1>2 DEF CopyExtent
<1>5. \A k \in 1..len : b[k] = IF Covers(e, off + k) THEN bytes[off + k] ELSE r.buf[k]
    <2> SUFFICES ASSUME NEW k \in 1..len
                 PROVE  b[k] = IF Covers(e, off + k) THEN bytes[off + k] ELSE r.buf[k]
        OBVIOUS
    <2> DEFINE data == DeviceRead(e.physical_ptr, e.len)
    <2>1. b[k] = IF off + k > e.logical_off /\ off + k <= e.logical_off + e.len
                 THEN data[off + k - e.logical_off] ELSE r.buf[k]
        BY <1>2 DEF CopyExtent
    <2>2. CASE Covers(e, off + k)
        <3> DEFINE q == off + k - e.logical_off
        <3>1. q \in 1..e.len /\ e.logical_off + q = off + k /\ e.physical_ptr + q <= LogSize
            BY <1>1, <2>2 DEF Covers
        <3>2. data[q] = device[e.physical_ptr + q]
            BY <3>1 DEF DeviceRead
        <3>3. device[e.physical_ptr + q] = e.crc[q] /\ bytes[e.logical_off + q] = e.crc[q]
            BY <3>1 DEF OnDevice
        <3>4. b[k] = data[q]
            BY <1>1, <2>1, <2>2 DEF Covers
        <3> HIDE DEF q, b, data
        <3> QED BY <2>2, <3>1, <3>2, <3>3, <3>4
    <2>3. CASE ~Covers(e, off + k)
        BY <1>1, <2>1, <2>3 DEF Covers
    <2> QED BY <2>2, <2>3
<1> HIDE DEF b
<1>6. total \in 0..len /\ total >= r.total /\ total >= end - off /\ (total = len => end = off + len)
    <2>1. end \in Nat /\ end > off /\ end <= off + len
        <3>1. CASE e.logical_off + e.len < off + len
            BY <1>1, <3>1
        <3>2. CASE ~(e.logical_off + e.len < off + len)
            BY <1>2, <3>2
        <3> QED BY <3>1, <3>2
    <2> HIDE DEF end
    <2>2. r.total \in Nat /\ r.total < len
        BY <1>2
    <2>3. CASE end - off > r.total
        BY <2>1, <2>2, <2>3
    <2>4. CASE ~(end - off > r.total)
        BY <2>1, <2>2, <2>4
    <2> QED BY <2>3, <2>4
<1>7. \A k \in 1..len : Covers(e, off + k) => k <= end - off
    BY <1>1 DEF Covers
<1>8. end = off + len => e.logical_off + e.len >= off + len
    BY <1>1
<1> HIDE DEF end, total
<1>9. s.buf = b /\ s.total = total
    OBVIOUS
<1> HIDE DEF s
<1>10. i + 1 \in 1..(i + 1) /\ 1..i \subseteq 1..(i + 1) /\ \A j \in 1..(i + 1) : j \in 1..i \/ j = i + 1
    OBVIOUS
<1>11. ASSUME NEW k \in 1..len
       PROVE  IF \E j \in 1..(i + 1) : Covers(x[j], off + k)
              THEN b[k] = bytes[off + k] /\ k <= total
              ELSE b[k] = Stale
    <2>1. IF \E j \in 1..i : Covers(x[j], off + k)
          THEN r.buf[k] = bytes[off + k] /\ k <= r.total
          ELSE r.buf[k] = Stale
        BY DEF Filled
    <2>2. CASE Covers(e, off + k)
        <3>1. \E j \in 1..(i + 1) : Covers(x[j], off + k)
            BY <1>10, <2>2
        <3>2. k <= total
            <4>1. k <= end - off /\ end \in Int
                BY <1>1, <1>7, <2>2 DEF end
            <4> QED BY <1>6, <4>1
        <3> QED BY <1>5, <2>2, <3>1, <3>2
    <2>3. CASE ~Covers(e, off + k)
        <3>1. (\E j \in 1..(i + 1) : Covers(x[j], off + k)) <=> \E j \in 1..i : Covers(x[j], off + k)
            BY <1>10, <2>3
        <3>2. b[k] = r.buf[k]
            BY <1>5, <2>3
        <3> QED BY <1>2, <1>6, <2>1, <3>1, <3>2
    <2> QED BY <2>2, <2>3
<1>12. len > 0 /\ total = len => \E j \in 1..(i + 1) : x[j].logical_off + x[j].len >= off + len
    BY <1>6, <1>8, <1>10
<1>13. Filled(s, x, i + 1, off, len, bytes)
    BY <1>4, <1>6, <1>9, <1>11, <1>12 DEF Filled
<1> QED BY <1>3, <1>13

\* A file is read as it was written: every read of every known file, at every offset
\* and length, returns and counts each byte that was written, and leaves the caller's
\* buffer alone at the places that were not, whatever set_attr and truncate_file did to
\* the size.
THEOREM ReadsTheorem == DataSpec => []ReadsBack
<1>1. DataInv => ReadsBack
    <2> SUFFICES ASSUME DataInv, log # "reused", NEW f \in Files, NEW off \in 0..MaxSize,
                        NEW n \in 1..MaxSize, content[f].known,
                        NEW k \in DOMAIN read_file(f, off, n).buf
                 PROVE  IF content[f].bytes[off + k] = 0 THEN read_file(f, off, n).buf[k] = Stale
                        ELSE /\ read_file(f, off, n).buf[k] = content[f].bytes[off + k]
                             /\ k <= read_file(f, off, n).total
        BY DEF ReadsBack
    <2> DEFINE x == meta[f].extents
               m == Len(x)
               len == ReadLen(f, off, n)
               bytes == content[f].bytes
               size == meta[f].size
    <2>1. x \in Seq(Extents) /\ m \in Nat /\ DOMAIN x = 1..m /\ size \in Nat /\ off \in Nat /\ n \in Nat
        <3>1. x \in Seq(Extents) /\ size \in Nat
            BY DataAssumption DEF DataInv, DataTypeOK
        <3> QED BY <3>1, DataAssumption
    <2>2. PICK R : ReadRule(R, x, off, len, m) /\ read_file(f, off, n) = R[m]
        <3>1. m \in Nat /\ m = Len(meta[f].extents)
            BY <2>1
        <3> HIDE DEF m
        <3> QED BY <3>1, ReadByRule
    <2>3. len \in Nat /\ (len > 0 => off + len <= size)
        BY <2>1 DEF ReadLen
    <2>4. /\ FileInv(meta[f], content[f], f \in hidden, device, log, next_append_pos)
          /\ Holds(x, bytes) /\ size <= Len(bytes) /\ Len(bytes) \in Nat
        BY DEF DataInv, FileInv, DataTypeOK
    <2>5. /\ \A i \in 1..m : x[i].physical_ptr + x[i].len <= LogSize
          /\ \A i, j \in 1..m : i < j => x[i].logical_off + x[i].len <= x[j].logical_off
          /\ \A i \in 1..m : \A q \in 1..x[i].len : bytes[x[i].logical_off + q] = x[i].crc[q]
          /\ \A p \in 1..Len(bytes) : bytes[p] # 0 => \E i \in 1..m : Covers(x[i], p)
        BY <2>1, <2>4 DEF Holds
    <2>6. \A i \in 1..m : x[i] \in Extents /\ OnDevice(device, x[i])
        BY <2>1, <2>4 DEF FileInv, ExtentInv
    <2>7. \A i \in 1..m : x[i].logical_off \in Nat /\ x[i].len \in Nat
        BY <2>6, ExtentFields
    <2> HIDE DEF x, m, len, bytes, size
    <2>8. R[0] = Blank(len) /\ \A i \in Nat : i + 1 <= m => R[i + 1] = ReadExtent(R[i], x[i + 1], off, len)
        BY <2>2 DEF ReadRule
    <2> DEFINE T == {i \in Nat : i <= m => Filled(R[i], x, i, off, len, bytes)}
    <2>9. 0 \in T
        <3>1. Filled(Blank(len), x, 0, off, len, bytes)
            BY <2>3 DEF Filled, Blank
        <3> QED BY <2>8, <3>1
    <2>10. ASSUME NEW i \in Nat, i \in T PROVE i + 1 \in T
        <3> SUFFICES ASSUME i + 1 <= m PROVE Filled(R[i + 1], x, i + 1, off, len, bytes)
            OBVIOUS
        <3> DEFINE e == x[i + 1]
                   r == R[i]
        <3>1. Filled(r, x, i, off, len, bytes)
            BY <2>1, <2>10
        <3>2. i + 1 \in 1..m /\ e \in Extents /\ OnDevice(device, e)
            BY <2>1, <2>6
        <3>3. e.physical_ptr + e.len <= LogSize /\ \A q \in 1..e.len : bytes[e.logical_off + q] = e.crc[q]
            BY <2>5, <3>2
        <3>4. R[i + 1] = ReadExtent(r, e, off, len)
            BY <2>8
        <3>5. e.logical_off \in Nat /\ e.len \in Nat
            BY <2>7, <3>2
        <3>6. r.total \in 0..len
            BY <3>1 DEF Filled
        <3>7. CASE r.total >= len \/ e.logical_off >= off + len \/ e.logical_off + e.len <= off
            <4>1. R[i + 1] = r
                BY <3>4, <3>7, Zenon DEF ReadExtent
            <4>2. ASSUME NEW q \in 1..len PROVE ~Covers(e, off + q)
                <5>1. CASE e.logical_off >= off + len \/ e.logical_off + e.len <= off
                    BY <2>1, <2>3, <3>5, <5>1 DEF Covers
                <5>2. CASE r.total >= len
                    <6>1. len > 0 /\ r.total = len
                        BY <2>3, <3>6, <5>2
                    <6>2. PICK j \in 1..i : x[j].logical_off + x[j].len >= off + len
                        BY <3>1, <6>1 DEF Filled
                    <6>3. j \in 1..m /\ j < i + 1
                        BY <2>1, <3>2
                    <6>4. x[j].logical_off + x[j].len <= e.logical_off
                        BY <2>5, <3>2, <6>3
                    <6>5. x[j].logical_off \in Nat /\ x[j].len \in Nat
                        BY <2>7, <6>3
                    <6> QED BY <2>1, <2>3, <3>5, <6>2, <6>4, <6>5 DEF Covers
                <5> QED BY <3>7, <5>1, <5>2
            <4> HIDE DEF r
            <4>3. Filled(r, x, i + 1, off, len, bytes)
                BY <3>1, <4>2, FilledSkip
            <4> QED BY <4>1, <4>3
        <3>8. CASE ~(r.total >= len \/ e.logical_off >= off + len \/ e.logical_off + e.len <= off)
            <4>1. r.total < len /\ e.logical_off < off + len /\ e.logical_off + e.len > off
                BY <2>1, <2>3, <3>5, <3>6, <3>8
            <4>2. Filled(ReadExtent(r, e, off, len), x, i + 1, off, len, bytes)
                BY <2>1, <2>3, <3>1, <3>2, <3>3, <4>1, FilledCopy
            <4> QED BY <3>4, <4>2
        <3> QED BY <3>7, <3>8
    <2> HIDE DEF T
    <2>11. m \in T
        BY <2>1, <2>9, <2>10, Induction
    <2> DEFINE r == R[m]
    <2>12. Filled(r, x, m, off, len, bytes)
        BY <2>1, <2>11 DEF T
    <2>13. k \in 1..len /\ r.total \in Nat
        BY <2>2, <2>12 DEF Filled
    <2>14. off + k \in 1..Len(bytes)
        BY <2>1, <2>3, <2>4, <2>13
    <2>15. (\E j \in 1..m : Covers(x[j], off + k)) => bytes[off + k] # 0
        <3> SUFFICES ASSUME NEW j \in 1..m, Covers(x[j], off + k) PROVE bytes[off + k] # 0
            OBVIOUS
        <3> DEFINE q == off + k - x[j].logical_off
        <3>1. /\ x[j] \in Extents /\ x[j].logical_off \in Nat /\ x[j].len \in Nat
              /\ x[j].crc \in Seq(Bytes) /\ Len(x[j].crc) \in Nat
            BY <2>6, ExtentFields
        <3>2. q \in 1..x[j].len /\ x[j].logical_off + q = off + k
            BY <2>1, <2>13, <3>1 DEF Covers
        <3>3. x[j].len <= Len(x[j].crc)
            BY <2>1, <2>4 DEF FileInv, ExtentInv, x
        <3> HIDE DEF q
        <3>4. q \in 1..Len(x[j].crc)
            BY <3>1, <3>2, <3>3
        <3>5. x[j].crc[q] \in Bytes
            BY <3>1, <3>4
        <3>6. bytes[off + k] = x[j].crc[q]
            BY <2>5, <3>2
        <3> QED BY <3>5, <3>6, DataAssumption
    <2>16. IF bytes[off + k] = 0 THEN r.buf[k] = Stale ELSE r.buf[k] = bytes[off + k] /\ k <= r.total
        BY <2>5, <2>12, <2>13, <2>14, <2>15 DEF Filled
    <2> QED BY <2>2, <2>16 DEF bytes
<1> QED BY <1>1, DataInvariant, PTL

=============================================================================
