--------------------------- MODULE FileDataProofs ---------------------------
(***************************************************************************)
(* Theorems about FileData for one caller, as under FUSE: no slice is left *)
(* behind the end of its file, every byte is stored as last written, and   *)
(* reads return what is stored.                                            *)
(***************************************************************************)
EXTENDS FileData, LibraryProofs, TLAPS

\* All requests are served by one thread, as the FUSE session loop does.
OneCaller == \A c, d \in Callers : c = d

\* What a caller carries between its two transactions is still true.
PendingOK ==
    \A c \in Callers :
        \/ pending[c] = Nothing
        \/ /\ pending[c].op = "truncate" /\ pending[c].file \in Files /\ pending[c].n \in Nat
           /\ pending[c].size = size[pending[c].file]
        \/ /\ pending[c].op = "copy" /\ pending[c].file \in Files /\ pending[c].off \in Nat
           /\ pending[c].data \in Seq(Stored)

\* Bytes are known to be written only below the size, in slices that are there.
WrittenWithin ==
    \A f \in Files : \A p \in Places :
        written[f][p] # "hole" => p < size[f] /\ Block(p) \in DOMAIN slices[f]

\* The part of the invariant that speaks of the files.
FilesInv ==
    /\ TypeOK
    /\ slices = [f \in Files |-> slices[f]]
    /\ WrittenWithin /\ SlicesWithinSize /\ StoresWhatWasWritten

IInv ==
    /\ FilesInv
    /\ pending = [c \in Callers |-> pending[c]]
    /\ PendingOK

-----------------------------------------------------------------------------
(* Blocks and places *)

\* A place is its block times the size of a slice plus its place in the slice.
LEMMA BlockPlace ==
    ASSUME NEW p \in Nat
    PROVE  /\ Block(p) \in Nat /\ p % S \in 0..(S - 1)
           /\ p = Block(p) * S + (p % S)
BY FileDataAssumption DEF Block

\* A later place lies in the same block or a later one.
LEMMA BlockMono ==
    ASSUME NEW p \in Nat, NEW q \in Nat, p <= q
    PROVE  Block(p) <= Block(q)
BY BlockPlace, FileDataAssumption DEF Block

\* Within a block, places are ordered as their places in the slice.
LEMMA SameBlock ==
    ASSUME NEW p \in Nat, NEW q \in Nat, Block(p) = Block(q)
    PROVE  p < q <=> p % S < q % S
<1> DEFINE m == Block(q) * S
<1>1. p = m + (p % S) /\ q = m + (q % S) /\ p % S \in Int /\ q % S \in Int
    BY BlockPlace, FileDataAssumption
<1>2. m \in Int
    BY BlockPlace, FileDataAssumption
<1> HIDE DEF m
<1> QED BY <1>1, <1>2

\* Block and place in the block determine a place.
LEMMA BlockOf ==
    ASSUME NEW k \in Nat, NEW o \in 0..(S - 1)
    PROVE  k * S + o \in Nat /\ Block(k * S + o) = k /\ (k * S + o) % S = o
BY FileDataAssumption DEF Block

-----------------------------------------------------------------------------
(* Reading *)

\* The bytes that are taken from a block lie in its slice.
LEMMA BytesInType ==
    ASSUME FilesInv, NEW f \in Files, NEW o \in Nat, NEW k \in Nat
    PROVE  /\ value_offset(o, k) \in Nat /\ BytesIn(f, o, k) \in Nat
           /\ BytesIn(f, o, k) > 0 => value_offset(o, k) + BytesIn(f, o, k) <= S
<1> DEFINE P == k * S
<1>1. P \in Nat /\ size[f] \in Nat /\ S \in Nat
    BY FileDataAssumption DEF FilesInv, TypeOK
<1>2. value_offset(o, k) = Most(o - P, 0)
    BY DEF value_offset
<1>3. BytesIn(f, o, k) = Most(Least(size[f] - P, S) - value_offset(o, k), 0)
    BY DEF BytesIn
<1> HIDE DEF P
<1>4. value_offset(o, k) \in Nat
    BY <1>1, <1>2 DEF Most
<1>5. Least(size[f] - P, S) \in Int /\ Least(size[f] - P, S) <= S
    BY <1>1 DEF Least
<1>6. BytesIn(f, o, k) \in Nat
    BY <1>3, <1>4, <1>5 DEF Most
<1>7. BytesIn(f, o, k) > 0 => BytesIn(f, o, k) = Least(size[f] - P, S) - value_offset(o, k)
    BY <1>3, <1>4, <1>5 DEF Most
<1> QED BY <1>1, <1>4, <1>5, <1>6, <1>7

IsHoles(H, f, o, first, n) ==
    H = [i \in 0..n |-> IF i <= first THEN 0 ELSE H[i - 1] + BytesIn(f, o, i - 1)]

HoleRule(H, f, o, first, n) ==
    /\ \A i \in 0..n : i <= first => H[i] = 0
    /\ \A i \in Nat : i + 1 <= n /\ first <= i => H[i + 1] = H[i] + BytesIn(f, o, i)

\* The recursion of HoleBytes has a solution up to every block.
LEMMA HolesExist ==
    ASSUME NEW f, NEW o, NEW first \in Nat, NEW m \in Nat
    PROVE  \E H : IsHoles(H, f, o, first, m)
<1> DEFINE T == {n \in Nat : \E H : IsHoles(H, f, o, first, n)}
<1>1. 0 \in T
    <2>1. IsHoles([i \in 0..0 |-> 0], f, o, first, 0)
        BY DEF IsHoles
    <2> QED BY <2>1
<1>2. ASSUME NEW n \in Nat, n \in T PROVE n + 1 \in T
    <2>1. PICK H : IsHoles(H, f, o, first, n)
        BY <1>2
    <2> DEFINE L == [i \in 0..(n + 1) |->
                        IF i <= n THEN H[i]
                        ELSE IF i <= first THEN 0 ELSE H[n] + BytesIn(f, o, i - 1)]
    <2>2. ASSUME NEW i \in 0..(n + 1)
          PROVE  L[i] = IF i <= first THEN 0 ELSE L[i - 1] + BytesIn(f, o, i - 1)
        <3>1. CASE i <= n
            <4>1. i \in 0..n /\ L[i] = H[i] /\ (~(i <= first) => i - 1 \in 0..(n + 1) /\ i - 1 <= n)
                BY <3>1
            <4>2. ~(i <= first) => L[i - 1] = H[i - 1]
                BY <4>1
            <4>3. H[i] = IF i <= first THEN 0 ELSE H[i - 1] + BytesIn(f, o, i - 1)
                BY <2>1, <4>1 DEF IsHoles
            <4> HIDE DEF L
            <4> QED BY <4>1, <4>2, <4>3
        <3>2. CASE i = n + 1
            <4>1. i - 1 = n /\ L[n] = H[n] /\ ~(i <= n)
                BY <3>2
            <4>2. L[i] = IF i <= first THEN 0 ELSE H[n] + BytesIn(f, o, i - 1)
                BY <4>1
            <4> HIDE DEF L
            <4> QED BY <4>1, <4>2
        <3> QED BY <3>1, <3>2
    <2>3. IsHoles(L, f, o, first, n + 1)
        BY <2>2 DEF IsHoles
    <2> QED BY <2>3
<1> HIDE DEF T
<1>3. m \in T
    BY <1>1, <1>2, Induction
<1> QED BY <1>3 DEF T

\* HoleBytes adds one block after the other.
LEMMA HolesByRule ==
    ASSUME NEW f, NEW o, NEW first \in Nat, NEW k \in Nat
    PROVE  \E H : HoleRule(H, f, o, first, k) /\ HoleBytes(f, o, first, k) = H[k]
<1> DEFINE H == CHOOSE H : IsHoles(H, f, o, first, k)
<1>1. \E G : IsHoles(G, f, o, first, k)
    BY HolesExist
<1>2. IsHoles(H, f, o, first, k)
    BY <1>1
<1>3. HoleBytes(f, o, first, k) = H[k]
    BY DEF HoleBytes, IsHoles
<1> HIDE DEF H
<1>4. \A i \in 0..k : H[i] = IF i <= first THEN 0 ELSE H[i - 1] + BytesIn(f, o, i - 1)
    BY <1>2 DEF IsHoles
<1>5. ASSUME NEW i \in Nat, i + 1 <= k, first <= i
      PROVE  H[i + 1] = H[i] + BytesIn(f, o, i)
    <2>1. i + 1 \in 0..k /\ ~(i + 1 <= first) /\ (i + 1) - 1 = i
        BY <1>5
    <2> QED BY <1>4, <2>1
<1>6. HoleRule(H, f, o, first, k)
    BY <1>4, <1>5 DEF HoleRule
<1> QED BY <1>3, <1>6

\* Holes have no fewer than no bytes, and there are none behind the next block.
LEMMA HoleBytesType ==
    ASSUME FilesInv, NEW f \in Files, NEW o \in Nat, NEW first \in Nat, NEW k \in Nat
    PROVE  /\ HoleBytes(f, o, first, k) \in Nat
           /\ k <= first => HoleBytes(f, o, first, k) = 0
<1>1. PICK H : HoleRule(H, f, o, first, k) /\ HoleBytes(f, o, first, k) = H[k]
    BY HolesByRule
<1> DEFINE T == {i \in Nat : i <= k => H[i] \in Nat}
<1>2. 0 \in T
    BY <1>1 DEF HoleRule
<1>3. ASSUME NEW i \in Nat, i \in T PROVE i + 1 \in T
    <2> SUFFICES ASSUME i + 1 <= k PROVE H[i + 1] \in Nat
        OBVIOUS
    <2>1. CASE i + 1 <= first
        <3>1. i + 1 \in 0..k
            OBVIOUS
        <3> QED BY <1>1, <2>1, <3>1 DEF HoleRule
    <2>2. CASE first <= i
        <3>1. H[i + 1] = H[i] + BytesIn(f, o, i)
            BY <1>1, <2>2 DEF HoleRule
        <3>2. H[i] \in Nat
            BY <1>3
        <3>3. BytesIn(f, o, i) \in Nat
            BY BytesInType
        <3> QED BY <3>1, <3>2, <3>3
    <2> QED BY <2>1, <2>2
<1> HIDE DEF T
<1>4. k \in T
    BY <1>2, <1>3, Induction
<1>5. k <= first => H[k] = 0
    BY <1>1 DEF HoleRule
<1> QED BY <1>1, <1>4, <1>5 DEF T

\* Sequence s is a followed by b.
Follows(s, T, a, b) ==
    /\ s \in Seq(T) /\ Len(s) = Len(a) + Len(b)
    /\ \A i \in 1..Len(a) : s[i] = a[i]
    /\ \A i \in 1..Len(b) : s[Len(a) + i] = b[i]

\* What a concatenation holds.
LEMMA Joined ==
    ASSUME NEW T, NEW a \in Seq(T), NEW b \in Seq(T)
    PROVE  Follows(a \o b, T, a, b)
BY DEF Follows

\* The states of the loop of dbfs_common_read with a buffer of n bytes.
ReadState(r, n) == r.next \in Nat /\ r.buf \in Seq(Stored) /\ Len(r.buf) <= n

\* What slice k adds to r: z zeros for the holes before it, and l of its own bytes.
Adds(s, f, o, r, k, z, l) ==
    /\ s.next = IF k = r.next THEN k + 1 ELSE k + 2
    /\ s.buf \in Seq(Stored) /\ Len(s.buf) = Len(r.buf) + z + l
    /\ \A i \in 1..Len(r.buf) : s.buf[i] = r.buf[i]
    /\ \A i \in 1..z : s.buf[Len(r.buf) + i] = "zero"
    /\ \A i \in 1..l : s.buf[Len(r.buf) + z + i] = slices[f][k][value_offset(o, k) + i - 1]

\* The body of the loop, unless the buffer is full.
LEMMA ReadSliceAdds ==
    ASSUME FilesInv, NEW f \in Files, NEW o \in Nat, NEW n \in Nat, NEW k \in DOMAIN slices[f],
           NEW r, ReadState(r, n), Len(r.buf) # n,
           NEW z, z = Least(n - Len(r.buf), HoleBytes(f, o, r.next, k)),
           NEW l, l = Least(n - Len(r.buf) - z, BytesIn(f, o, k))
    PROVE  z \in Nat /\ l \in Nat /\ Adds(ReadSlice(f, o, n, r, k), f, o, r, k, z, l)
<1> DEFINE B == [i \in 1..z |-> "zero"]
           C == [i \in 1..l |-> slices[f][k][value_offset(o, k) + i - 1]]
           s == ReadSlice(f, o, n, r, k)
<1>1. k \in Nat /\ slices[f][k] \in Slice /\ r.next \in Nat /\ Len(r.buf) \in Nat
    BY DEF FilesInv, TypeOK, ReadState
<1>2. HoleBytes(f, o, r.next, k) \in Nat /\ BytesIn(f, o, k) \in Nat /\ value_offset(o, k) \in Nat
    BY <1>1, HoleBytesType, BytesInType
<1>3. Len(r.buf) <= n
    BY DEF ReadState
<1>4. z \in Nat /\ z <= n - Len(r.buf)
    BY <1>1, <1>2, <1>3 DEF Least
<1>5. l \in Nat /\ l <= BytesIn(f, o, k)
    BY <1>1, <1>2, <1>4 DEF Least
<1>6. ASSUME NEW i \in 1..l PROVE slices[f][k][value_offset(o, k) + i - 1] \in Stored
    <2>1. value_offset(o, k) + BytesIn(f, o, k) <= S
        BY <1>1, <1>2, <1>5, BytesInType
    <2>2. value_offset(o, k) + i - 1 \in 0..(S - 1)
        BY <1>2, <1>5, <2>1, FileDataAssumption
    <2> QED BY <1>1, <2>2 DEF Slice
<1>7. B \in Seq(Stored) /\ Len(B) = z /\ \A i \in 1..z : B[i] = "zero"
    BY <1>4 DEF Stored
<1>8. /\ C \in Seq(Stored) /\ Len(C) = l
      /\ \A i \in 1..l : C[i] = slices[f][k][value_offset(o, k) + i - 1]
    BY <1>5, <1>6
<1>9. /\ s.buf = r.buf \o B \o C
      /\ s.next = IF k = r.next THEN k + 1 ELSE k + 2
    BY DEF ReadSlice
<1> HIDE DEF B, C, s
<1>10. r.buf \in Seq(Stored)
    BY DEF ReadState
<1> DEFINE D == r.buf \o B
<1>11. Follows(D, Stored, r.buf, B)
    BY <1>7, <1>10, Joined
<1>12. D \in Seq(Stored) /\ s.buf = D \o C
    BY <1>9, <1>11 DEF Follows
<1> HIDE DEF D
<1>13. Follows(s.buf, Stored, D, C)
    BY <1>8, <1>12, Joined
<1>14. Len(D) = Len(r.buf) + z /\ s.buf \in Seq(Stored) /\ Len(s.buf) = Len(r.buf) + z + l
    BY <1>7, <1>8, <1>11, <1>13 DEF Follows
<1>15. ASSUME NEW i \in 1..Len(r.buf) PROVE s.buf[i] = r.buf[i]
    <2>1. i \in 1..Len(D)
        BY <1>1, <1>4, <1>14
    <2> QED BY <1>11, <1>13, <2>1 DEF Follows
<1>16. ASSUME NEW i \in 1..z PROVE s.buf[Len(r.buf) + i] = "zero"
    <2>1. Len(r.buf) + i \in 1..Len(D)
        BY <1>1, <1>4, <1>14
    <2>2. s.buf[Len(r.buf) + i] = D[Len(r.buf) + i]
        BY <1>13, <2>1 DEF Follows
    <2>3. D[Len(r.buf) + i] = B[i]
        BY <1>7, <1>11 DEF Follows
    <2> QED BY <1>7, <2>2, <2>3
<1>17. ASSUME NEW i \in 1..l
       PROVE  s.buf[Len(r.buf) + z + i] = slices[f][k][value_offset(o, k) + i - 1]
    <2>1. s.buf[Len(D) + i] = C[i]
        BY <1>8, <1>13 DEF Follows
    <2> QED BY <1>8, <1>14, <2>1
<1>18. Adds(s, f, o, r, k, z, l)
    BY <1>9, <1>14, <1>15, <1>16, <1>17 DEF Adds
<1> QED BY <1>4, <1>5, <1>18 DEF s

\* One block of the range: a slice that is there is read.
Passed(f, off, n, r, k) ==
    IF k \in read_range(f, off, n) THEN ReadSlice(f, off % S, n, r, k) ELSE r

Start(off) == [next |-> Block(off), buf |-> <<>>]

IsLoop(A, f, off, n, m) ==
    A = [k \in 0..m |-> IF k = 0 THEN Start(off) ELSE Passed(f, off, n, A[k - 1], k - 1)]

LoopRule(A, f, off, n, m) ==
    /\ A[0] = Start(off)
    /\ \A k \in Nat : k + 1 <= m => A[k + 1] = Passed(f, off, n, A[k], k)

\* The loop of dbfs_common_read has a state after each block.
LEMMA LoopExists ==
    ASSUME NEW f, NEW off, NEW n, NEW m \in Nat
    PROVE  \E A : IsLoop(A, f, off, n, m)
<1> DEFINE T == {j \in Nat : \E A : IsLoop(A, f, off, n, j)}
<1>1. 0 \in T
    <2>1. IsLoop([k \in 0..0 |-> Start(off)], f, off, n, 0)
        BY DEF IsLoop
    <2> QED BY <2>1
<1>2. ASSUME NEW j \in Nat, j \in T PROVE j + 1 \in T
    <2>1. PICK A : IsLoop(A, f, off, n, j)
        BY <1>2
    <2> DEFINE L == [k \in 0..(j + 1) |-> IF k <= j THEN A[k] ELSE Passed(f, off, n, A[j], j)]
    <2>2. ASSUME NEW k \in 0..(j + 1)
          PROVE  L[k] = IF k = 0 THEN Start(off) ELSE Passed(f, off, n, L[k - 1], k - 1)
        <3>1. CASE k = 0
            BY <2>1, <3>1 DEF IsLoop
        <3>2. CASE k <= j /\ k # 0
            <4>1. k \in 0..j /\ k - 1 \in 0..j /\ k - 1 <= j /\ k - 1 \in 0..(j + 1)
                BY <3>2
            <4>2. L[k] = A[k] /\ L[k - 1] = A[k - 1]
                BY <3>2, <4>1
            <4>3. A[k] = IF k = 0 THEN Start(off) ELSE Passed(f, off, n, A[k - 1], k - 1)
                BY <2>1, <4>1 DEF IsLoop
            <4> HIDE DEF L
            <4> QED BY <4>2, <4>3
        <3>3. CASE k = j + 1
            <4>1. k - 1 = j /\ k # 0 /\ ~(k <= j) /\ L[j] = A[j]
                BY <3>3
            <4>2. L[k] = Passed(f, off, n, A[j], j)
                BY <4>1
            <4> HIDE DEF L
            <4> QED BY <4>1, <4>2
        <3> QED BY <3>1, <3>2, <3>3
    <2>3. IsLoop(L, f, off, n, j + 1)
        BY <2>2 DEF IsLoop
    <2> QED BY <2>3
<1> HIDE DEF T
<1>3. m \in T
    BY <1>1, <1>2, Induction
<1> QED BY <1>3 DEF T

\* dbfs_common_read by its loop.
ReadBy(A, m, f, off, n) ==
    /\ LoopRule(A, f, off, n, m)
    /\ dbfs_common_read(f, off, n) = IF off >= size[f] THEN <<>> ELSE A[m].buf

\* dbfs_common_read passes one block after the other.
LEMMA ReadByRule ==
    ASSUME NEW f, NEW off, NEW n, NEW m \in Nat, m = Block(size[f]) + 1
    PROVE  \E A : ReadBy(A, m, f, off, n)
<1> DEFINE A == CHOOSE A : IsLoop(A, f, off, n, m)
<1>1. \E G : IsLoop(G, f, off, n, m)
    BY LoopExists
<1>2. IsLoop(A, f, off, n, m)
    BY <1>1
<1>3. dbfs_common_read(f, off, n) = IF off >= size[f] THEN <<>> ELSE A[m].buf
    BY DEF dbfs_common_read, IsLoop, Start, Passed
<1> HIDE DEF A
<1>4. \A k \in 0..m : A[k] = IF k = 0 THEN Start(off) ELSE Passed(f, off, n, A[k - 1], k - 1)
    BY <1>2 DEF IsLoop
<1>5. ASSUME NEW k \in Nat, k + 1 <= m
      PROVE  A[k + 1] = Passed(f, off, n, A[k], k)
    <2>1. k + 1 \in 0..m /\ k + 1 # 0 /\ (k + 1) - 1 = k
        BY <1>5
    <2> QED BY <1>4, <2>1
<1>6. A[0] = Start(off)
    BY <1>4
<1>7. LoopRule(A, f, off, n, m)
    BY <1>5, <1>6 DEF LoopRule
<1> QED BY <1>3, <1>7 DEF ReadBy

\* The states of that loop, for a file of the model.
LEMMA LoopOf ==
    ASSUME FilesInv, NEW f \in Files, NEW off \in Nat, NEW n \in Nat
    PROVE  \E m \in Nat : m = Block(size[f]) + 1 /\ \E A : ReadBy(A, m, f, off, n)
<1>1. Block(size[f]) + 1 \in Nat
    BY BlockPlace DEF FilesInv, TypeOK
<1>2. PICK m \in Nat : m = Block(size[f]) + 1
    BY <1>1
<1>3. \E A : ReadBy(A, m, f, off, n)
    BY <1>2, ReadByRule
<1> QED BY <1>2, <1>3

\* Whatever the holes, a read returns stored bytes and no more than fit the buffer.
LEMMA ReadType ==
    ASSUME FilesInv, NEW f \in Files, NEW off \in Nat, NEW n \in Nat
    PROVE  dbfs_common_read(f, off, n) \in Seq(Stored) /\ Len(dbfs_common_read(f, off, n)) <= n
<1>0. Block(size[f]) + 1 \in Nat /\ Block(off) \in Nat /\ off % S \in Nat
    BY BlockPlace, FileDataAssumption DEF FilesInv, TypeOK
<1>1. PICK m \in Nat : m = Block(size[f]) + 1 /\ \E A : ReadBy(A, m, f, off, n)
    BY LoopOf
<1>1a. PICK A : ReadBy(A, m, f, off, n)
    BY <1>1
<1>2. /\ LoopRule(A, f, off, n, m)
      /\ dbfs_common_read(f, off, n) = IF off >= size[f] THEN <<>> ELSE A[m].buf
    BY <1>1a DEF ReadBy
<1> DEFINE T == {k \in Nat : k <= m => ReadState(A[k], n)}
<1>3. 0 \in T
    <2>1. A[0].next = Block(off) /\ A[0].buf = <<>>
        BY <1>2 DEF LoopRule, Start
    <2>2. A[0].buf \in Seq(Stored) /\ Len(A[0].buf) = 0
        BY <2>1
    <2>3. ReadState(A[0], n)
        BY <1>0, <2>1, <2>2 DEF ReadState
    <2> QED BY <2>3
<1>4. ASSUME NEW k \in Nat, k \in T PROVE k + 1 \in T
    <2> SUFFICES ASSUME k + 1 <= m PROVE ReadState(A[k + 1], n)
        OBVIOUS
    <2>1. A[k + 1] = Passed(f, off, n, A[k], k)
        BY <1>2 DEF LoopRule
    <2>2. ReadState(A[k], n)
        BY <1>1, <1>4
    <2> DEFINE r == A[k]
    <2> HIDE DEF r
    <2>3. CASE k \notin read_range(f, off, n) \/ Len(r.buf) = n
        BY <2>1, <2>2, <2>3 DEF Passed, ReadSlice, r
    <2>4. CASE k \in read_range(f, off, n) /\ Len(r.buf) # n
        <3> DEFINE o == off % S
                   z == Least(n - Len(r.buf), HoleBytes(f, o, r.next, k))
                   l == Least(n - Len(r.buf) - z, BytesIn(f, o, k))
                   s == ReadSlice(f, o, n, r, k)
        <3>1. k \in DOMAIN slices[f] /\ ReadState(r, n) /\ o \in Nat
            BY <1>0, <2>2, <2>4 DEF read_range, r
        <3>2. z \in Nat /\ l \in Nat /\ Adds(s, f, o, r, k, z, l)
            BY <2>4, <3>1, ReadSliceAdds
        <3>3. HoleBytes(f, o, r.next, k) \in Nat /\ BytesIn(f, o, k) \in Nat
            BY <3>1, HoleBytesType, BytesInType DEF ReadState
        <3>4. l <= n - Len(r.buf) - z
            BY <3>1, <3>2, <3>3 DEF Least, ReadState
        <3>5. A[k + 1] = s
            BY <2>1, <2>4 DEF Passed, r
        <3> HIDE DEF z, l, s, o
        <3>6. s.next \in Nat /\ s.buf \in Seq(Stored) /\ Len(s.buf) = Len(r.buf) + z + l
            BY <3>2 DEF Adds
        <3>7. Len(r.buf) \in Nat
            BY <3>1 DEF ReadState
        <3>8. Len(s.buf) <= n
            <4>1. \A x, y, v, w \in Nat : w <= n - x - y /\ v = x + y + w => v <= n
                OBVIOUS
            <4>2. Len(s.buf) \in Nat
                BY <3>6
            <4> QED BY <3>2, <3>4, <3>6, <3>7, <4>1, <4>2
        <3>9. ReadState(s, n)
            BY <3>6, <3>8 DEF ReadState
        <3> QED BY <3>5, <3>9
    <2> QED BY <2>3, <2>4
<1> HIDE DEF T
<1>5. m \in T
    BY <1>1, <1>3, <1>4, Induction
<1>6. ReadState(A[m], n)
    BY <1>1, <1>5 DEF T
<1> QED BY <1>2, <1>6 DEF ReadState

\* Blocks begin in the order of their numbers, S places apart.
LEMMA BlockStarts ==
    ASSUME NEW j \in Nat, NEW k \in Nat
    PROVE  /\ k * S \in Nat /\ (k + 1) * S = k * S + S
           /\ j <= k => j * S <= k * S
           /\ j < k => j * S + S <= k * S
<1>1. S \in Nat
    BY FileDataAssumption
<1>2. k * S \in Nat /\ (k + 1) * S = k * S + S
    BY <1>1
<1>3. ASSUME NEW d \in Nat PROVE d * S \in Nat /\ (j + d) * S = j * S + d * S
    BY <1>1
<1>4. j <= k => j * S <= k * S
    <2> SUFFICES ASSUME j <= k PROVE j * S <= k * S
        OBVIOUS
    <2>1. k - j \in Nat /\ j + (k - j) = k
        OBVIOUS
    <2>2. (k - j) * S \in Nat /\ k * S = j * S + (k - j) * S
        BY <1>3, <2>1
    <2>3. j * S \in Nat
        BY <1>1
    <2> QED BY <2>2, <2>3
<1>5. j < k => j * S + S <= k * S
    <2> SUFFICES ASSUME j < k PROVE j * S + S <= k * S
        OBVIOUS
    <2>1. k - j - 1 \in Nat /\ (j + 1) + (k - j - 1) = k
        OBVIOUS
    <2>2. (k - j - 1) * S \in Nat /\ k * S = (j + 1) * S + (k - j - 1) * S
        BY <1>1, <2>1
    <2>3. (j + 1) * S = j * S + S /\ j * S \in Nat
        BY <1>1
    <2> QED BY <1>1, <2>2, <2>3
<1> QED BY <1>2, <1>4, <1>5

\* A place lies in block k, or before it.
LEMMA PlaceIn ==
    ASSUME NEW p \in Nat, NEW k \in Nat
    PROVE  /\ k * S <= p /\ p < k * S + S => Block(p) = k /\ p % S = p - k * S
           /\ p < k * S => Block(p) < k
           /\ k * S <= p => k <= Block(p)
           /\ Block(p) * S <= p /\ p < Block(p) * S + S
<1> DEFINE P == k * S
           B == Block(p) * S
<1>1. P \in Nat /\ S \in Nat /\ S > 0
    BY FileDataAssumption
<1>2. Block(p) \in Nat /\ B \in Nat /\ B <= p /\ p < B + S
    <2>1. Block(p) \in Nat /\ p % S \in 0..(S - 1) /\ p = B + (p % S)
        BY BlockPlace
    <2>2. B \in Nat
        BY <2>1, BlockStarts
    <2> HIDE DEF B
    <2> QED BY <1>1, <2>1, <2>2
<1>3. ASSUME P <= p, p < P + S PROVE Block(p) = k /\ p % S = p - P
    <2>1. p - P \in 0..(S - 1) /\ P + (p - P) = p
        BY <1>1, <1>3
    <2>2. Block(P + (p - P)) = k /\ (P + (p - P)) % S = p - P
        BY <2>1, BlockOf
    <2> HIDE DEF P
    <2> QED BY <2>1, <2>2
<1>4. /\ k <= Block(p) => P <= B
      /\ Block(p) < k => B + S <= P
    BY <1>2, BlockStarts
<1> HIDE DEF P, B
<1>5. p < P => Block(p) < k
    BY <1>1, <1>2, <1>4
<1>6. P <= p => k <= Block(p)
    BY <1>1, <1>2, <1>4
<1> QED BY <1>2, <1>3, <1>5, <1>6 DEF P, B

\* A read that begins in the first slice or at the start of one takes from each
\* block the bytes that lie between its offset and the end of the file.
LEMMA TakenFrom ==
    ASSUME FilesInv, NEW f \in Files, NEW off \in Nat, off < size[f], off < S \/ off % S = 0,
           NEW k \in Nat, Block(off) <= k, k <= Block(size[f]), NEW P \in Nat, P = k * S
    PROVE  /\ P <= size[f] /\ off < P + S
           /\ value_offset(off % S, k) = Most(off - P, 0)
           /\ BytesIn(f, off % S, k) = Least(size[f], P + S) - Most(off, P)
<1>1. size[f] \in Nat /\ S \in Nat /\ S > 0
    BY FileDataAssumption DEF FilesInv, TypeOK
<1>2. P <= size[f]
    <2>1. Block(size[f]) \in Nat /\ Block(size[f]) * S <= size[f]
        BY <1>1, PlaceIn, BlockPlace
    <2>2. k * S <= Block(size[f]) * S /\ Block(size[f]) * S \in Nat
        BY <2>1, BlockStarts
    <2> QED BY <1>1, <2>1, <2>2
<1>3. off < P + S
    <2>1. ~(off >= P + S)
        <3>1. ASSUME off >= P + S PROVE FALSE
            <4>1. (k + 1) * S <= off /\ k + 1 \in Nat
                BY <3>1, BlockStarts
            <4>2. k + 1 <= Block(off)
                BY <4>1, PlaceIn
            <4> QED BY <4>2, BlockPlace
        <3> QED BY <3>1
    <2> QED BY <1>1, <2>1
<1>4. value_offset(off % S, k) = Most(off - P, 0)
    <2>1. value_offset(off % S, k) = Most((off % S) - P, 0)
        BY DEF value_offset
    <2>2. CASE off < S
        <3>1. 0 * S <= off /\ off < 0 * S + S /\ 0 * S = 0
            BY <1>1, <2>2
        <3>2. off % S = off
            BY <3>1, PlaceIn
        <3> QED BY <2>1, <3>2
    <2>3. CASE off % S = 0
        <3>1. off = Block(off) * S /\ Block(off) \in Nat
            BY <2>3, BlockPlace, <1>1
        <3>2. off <= P
            BY <3>1, BlockStarts
        <3> QED BY <2>1, <2>3, <3>2 DEF Most
    <2> QED BY <2>2, <2>3
<1>5. BytesIn(f, off % S, k) = Most(Least(size[f] - P, S) - Most(off - P, 0), 0)
    BY <1>4 DEF BytesIn
<1>6. Most(Least(size[f] - P, S) - Most(off - P, 0), 0) = Least(size[f], P + S) - Most(off, P)
    <2>1. Most(off - P, 0) = Most(off, P) - P /\ Most(off, P) \in Nat
        BY DEF Most
    <2>2. Least(size[f] - P, S) = Least(size[f], P + S) - P /\ Least(size[f], P + S) \in Nat
        BY <1>1 DEF Least
    <2>3. Least(size[f], P + S) >= Most(off, P)
        BY <1>1, <1>2, <1>3 DEF Least, Most
    <2>4. Least(size[f] - P, S) - Most(off - P, 0) = Least(size[f], P + S) - Most(off, P)
        BY <2>1, <2>2
    <2> QED BY <2>1, <2>2, <2>3, <2>4 DEF Most
<1> QED BY <1>2, <1>3, <1>4, <1>5, <1>6

\* The holes that such a read begins with are filled up to the first slice.
LEMMA HolesSum ==
    ASSUME FilesInv, NEW f \in Files, NEW off \in Nat, off < size[f], off < S \/ off % S = 0,
           NEW k \in Nat, Block(off) <= k, k * S < size[f]
    PROVE  HoleBytes(f, off % S, Block(off), k) = Most(off, k * S) - off
<1> DEFINE first == Block(off)
           o == off % S
<1>1. first \in Nat /\ o \in Nat /\ size[f] \in Nat /\ S \in Nat /\ S > 0
    BY BlockPlace, FileDataAssumption DEF FilesInv, TypeOK
<1>2. PICK H : HoleRule(H, f, o, first, k) /\ HoleBytes(f, o, first, k) = H[k]
    BY <1>1, HolesByRule
<1> DEFINE T == {i \in Nat : first <= i /\ i <= k => H[i] = Most(off, i * S) - off}
<1>3. ASSUME NEW i \in Nat, i <= first, i <= k, first <= i PROVE H[i] = Most(off, i * S) - off
    <2>1. H[i] = 0 /\ i = first
        BY <1>1, <1>2, <1>3 DEF HoleRule
    <2>2. i * S <= off /\ i * S \in Nat
        BY <2>1, PlaceIn, BlockStarts
    <2> QED BY <2>1, <2>2 DEF Most
<1>4. 0 \in T
    BY <1>1, <1>3
<1>5. ASSUME NEW i \in Nat, i \in T PROVE i + 1 \in T
    <2> SUFFICES ASSUME first <= i + 1, i + 1 <= k PROVE H[i + 1] = Most(off, (i + 1) * S) - off
        OBVIOUS
    <2>1. CASE i + 1 = first
        BY <1>3, <2>1
    <2>2. CASE first <= i
        <3>1. H[i + 1] = H[i] + BytesIn(f, o, i)
            BY <1>2, <2>2 DEF HoleRule
        <3>2. PICK P \in Nat : P = i * S /\ (i + 1) * S = P + S
            BY BlockStarts
        <3>3. H[i] = Most(off, P) - off
            BY <1>5, <2>2, <3>2
        <3>4. P + S < size[f]
            <4>1. (i + 1) * S <= k * S /\ k * S \in Nat /\ i + 1 \in Nat
                BY BlockStarts
            <4> QED BY <1>1, <3>2, <4>1
        <3>5. i <= Block(size[f])
            <4>1. i * S <= size[f]
                BY <1>1, <3>2, <3>4
            <4> QED BY <1>1, <4>1, PlaceIn
        <3>6. off < P + S /\ BytesIn(f, o, i) = Least(size[f], P + S) - Most(off, P)
            BY <2>2, <3>2, <3>5, TakenFrom
        <3>7. Least(size[f], P + S) = P + S /\ Most(off, P + S) = P + S /\ Most(off, P) \in Nat
            BY <1>1, <3>4, <3>6 DEF Least, Most
        <3>8. PICK Q \in Nat : Q = P + S
            BY <1>1
        <3>9. PICK v \in Nat : v = Most(off, P)
            BY <3>7
        <3>10. BytesIn(f, o, i) = Q - v
            BY <3>6, <3>7, <3>8, <3>9
        <3>11. H[i + 1] = (v - off) + (Q - v)
            BY <3>1, <3>3, <3>9, <3>10
        <3>12. H[i + 1] = Q - off
            BY <3>11
        <3>13. Most(off, (i + 1) * S) = Q
            BY <3>2, <3>7, <3>8
        <3> QED BY <3>12, <3>13
    <2> QED BY <1>1, <2>1, <2>2
<1> HIDE DEF T
<1>6. k \in T
    BY <1>4, <1>5, Induction
<1>7. H[k] = Most(off, k * S) - off
    BY <1>6 DEF T
<1> QED BY <1>2, <1>7

\* The first bytes of the file from off on, as they are stored.
ReadSoFar(f, off, buf) == \A i \in 1..Len(buf) : buf[i] = StoredByte(f, off + i - 1)

\* The body of the loop, when the zeros that it adds reach up to its slice and no
\* other slice lies there: all bytes up to the end of the slice have been read.
LEMMA SliceRead ==
    ASSUME FilesInv, NEW f \in Files, NEW off \in Nat, off < size[f], off < S \/ off % S = 0,
           NEW n \in Nat, NEW k \in read_range(f, off, n), NEW P \in Nat, P = k * S,
           NEW r, ReadState(r, n), Len(r.buf) # n, ReadSoFar(f, off, r.buf),
           HoleBytes(f, off % S, r.next, k) = Most(off, P) - (off + Len(r.buf)),
           Most(off, P) <= off + n,
           \A p \in Nat : off + Len(r.buf) <= p /\ p < P => Block(p) \notin DOMAIN slices[f],
           NEW s, s = ReadSlice(f, off % S, n, r, k)
    PROVE  /\ ReadState(s, n) /\ s.next > k /\ ReadSoFar(f, off, s.buf)
           /\ Len(s.buf) = Least(Least(off + n, size[f]), P + S) - off
<1> DEFINE o == off % S
           b == Len(r.buf)
           z == Least(n - b, HoleBytes(f, o, r.next, k))
           l == Least(n - b - z, BytesIn(f, o, k))
           M == Most(off, P)
<1>1. /\ k \in DOMAIN slices[f] /\ k \in Nat /\ Block(off) <= k /\ k <= Block(size[f])
      /\ size[f] \in Nat /\ S \in Nat /\ S > 0 /\ o \in Nat
    <2>1. size[f] \in Nat /\ S \in Nat /\ S > 0 /\ k \in DOMAIN slices[f] /\ k \in Nat /\ Block(off) <= k
        BY FileDataAssumption DEF FilesInv, TypeOK, read_range
    <2>2. o \in Nat /\ Block(size[f]) \in Nat /\ Block(off + n) \in Nat
        <3>1. o \in 0..(S - 1)
            BY BlockPlace
        <3>2. o \in Nat
            BY <2>1, <3>1
        <3>3. Block(size[f]) \in Nat
            BY <2>1, BlockPlace
        <3>4. off + n \in Nat
            OBVIOUS
        <3>5. Block(off + n) \in Nat
            BY <3>4, BlockPlace
        <3> QED BY <3>2, <3>3, <3>5
    <2>3. k < Least(Block(off + n) + 1, Block(size[f]) + 1)
        BY DEF read_range
    <2>4. k <= Block(size[f])
        BY <2>1, <2>2, <2>3 DEF Least
    <2> QED BY <2>1, <2>2, <2>4
<1>2. /\ P <= size[f] /\ off < P + S
      /\ value_offset(o, k) = Most(off - P, 0)
      /\ BytesIn(f, o, k) = Least(size[f], P + S) - M
    BY <1>1, TakenFrom
<1>3. z \in Nat /\ l \in Nat /\ Adds(s, f, o, r, k, z, l)
    BY <1>1, ReadSliceAdds
<1>4. b \in Nat /\ b <= n /\ M \in Nat /\ off <= M /\ P <= M
    BY DEF ReadState, Most
<1>5. z = M - (off + b)
    <2>1. HoleBytes(f, o, r.next, k) = M - (off + b)
        OBVIOUS
    <2>2. HoleBytes(f, o, r.next, k) \in Nat
        BY <1>1, HoleBytesType DEF ReadState
    <2>3. M <= off + n
        OBVIOUS
    <2> HIDE DEF M, b
    <2>4. M - (off + b) <= n - b
        BY <1>4, <2>3
    <2> QED BY <1>4, <2>1, <2>2, <2>4 DEF Least
<1>6. l = Least(off + n, Least(size[f], P + S)) - M
    <2>1. n - b - z = off + n - M
        BY <1>3, <1>4, <1>5
    <2>2. Least(size[f], P + S) \in Nat
        BY <1>1 DEF Least
    <2> HIDE DEF M, z, b
    <2>3. l = Least(off + n - M, Least(size[f], P + S) - M)
        BY <1>2, <2>1
    <2> HIDE DEF l
    <2> QED BY <1>4, <2>2, <2>3 DEF Least
<1>7. b + z = M - off
    <2> HIDE DEF M, z, b
    <2> QED BY <1>3, <1>4, <1>5
<1> DEFINE E == Least(Least(off + n, size[f]), P + S)
<1>8. Least(off + n, Least(size[f], P + S)) = E /\ E \in Nat
    BY <1>1 DEF Least
<1> HIDE DEF o, b, z, l, M, E
<1>9. l = E - M
    BY <1>6, <1>8
<1>10. /\ s.next = IF k = r.next THEN k + 1 ELSE k + 2
       /\ s.buf \in Seq(Stored) /\ Len(s.buf) = b + z + l
    BY <1>3 DEF Adds, b
<1>11. Len(s.buf) = E - off
    <2>1. Len(s.buf) = (M - off) + (E - M)
        BY <1>7, <1>9, <1>10
    <2> QED BY <1>4, <1>8, <2>1
<1>12. s.next \in Nat /\ s.next > k
    BY <1>1, <1>10
<1>13. Len(s.buf) <= n
    <2>1. E <= off + n
        BY <1>1 DEF E, Least
    <2> QED BY <1>8, <1>11, <2>1
<1>14. ASSUME NEW i \in 1..Len(s.buf) PROVE s.buf[i] = StoredByte(f, off + i - 1)
    <2>0. i \in Nat /\ i >= 1 /\ i <= b + z + l
        BY <1>3, <1>4, <1>10
    <2>1. CASE i <= b
        <3>1. i \in 1..Len(r.buf)
            BY <2>0, <2>1, <1>4 DEF b
        <3>2. s.buf[i] = r.buf[i]
            BY <1>3, <3>1 DEF Adds
        <3> QED BY <3>1, <3>2 DEF ReadSoFar
    <2>2. CASE b < i /\ i <= b + z
        <3>1. PICK j \in 1..z : i = b + j
            BY <1>3, <1>4, <2>0, <2>2
        <3>2. s.buf[i] = "zero"
            BY <1>3, <3>1 DEF Adds, b
        <3>3. PICK p \in Nat : p = off + i - 1
            BY <2>0
        <3>4. M = P
            <4>1. M > off
                BY <1>3, <1>4, <1>7, <2>0, <2>2
            <4> QED BY <4>1 DEF M, Most
        <3>5. off + b <= p /\ p < P
            BY <1>3, <1>4, <1>7, <2>0, <2>2, <3>3, <3>4
        <3>6. Block(p) \notin DOMAIN slices[f]
            BY <3>5 DEF b
        <3> QED BY <3>2, <3>3, <3>6 DEF StoredByte
    <2>3. CASE b + z < i
        <3>0. i - (b + z) \in 1..l /\ i = b + z + (i - (b + z))
            BY <1>3, <1>4, <2>0, <2>3
        <3>1. PICK j \in 1..l : i = b + z + j
            BY <3>0
        <3>2. s.buf[i] = slices[f][k][value_offset(o, k) + j - 1]
            BY <1>3, <3>1 DEF Adds, b
        <3>3. PICK p \in Nat : p = off + i - 1
            BY <2>0
        <3>4. p = M + j - 1
            BY <1>3, <1>4, <1>7, <3>1, <3>3
        <3>5. P <= p /\ p < P + S
            <4>1. E <= P + S
                BY <1>1 DEF E, Least
            <4>2. j \in Nat /\ 1 <= j /\ j <= E - M
                BY <1>3, <1>9, <3>1
            <4>3. M + j - 1 < E
                BY <1>4, <1>8, <4>2
            <4>4. P + S \in Nat /\ p < P + S
                BY <1>1, <1>4, <1>8, <3>4, <4>1, <4>3
            <4>5. P <= p
                BY <1>4, <3>4, <4>2
            <4> QED BY <4>4, <4>5
        <3>6. Block(p) = k /\ p % S = p - P
            BY <1>1, <3>5, PlaceIn
        <3>7. value_offset(o, k) + j - 1 = p - P
            <4>1. value_offset(o, k) = M - P
                BY <1>2 DEF M, Most
            <4> QED BY <1>4, <3>1, <3>4, <4>1
        <3>8. StoredByte(f, p) = slices[f][k][p - P]
            BY <1>1, <3>6 DEF StoredByte
        <3> QED BY <3>2, <3>3, <3>7, <3>8
    <2> QED BY <1>3, <1>4, <2>0, <2>1, <2>2, <2>3
<1> QED BY <1>10, <1>11, <1>12, <1>13, <1>14 DEF ReadState, ReadSoFar, E

\* The state behind block k - 1, for a read up to place e whose first slice is k0.
LoopInv(f, off, n, e, k0, r, k) ==
    /\ k <= k0 => r = Start(off)
    /\ k > k0 =>
        /\ ReadState(r, n) /\ ReadSoFar(f, off, r.buf)
        /\ Len(r.buf) = Least(e, k * S) - off
        /\ r.next >= k \/ Len(r.buf) = n \/ k > Block(size[f])

\* The loop keeps LoopInv: it passes the holes before the first slice, reads one
\* slice after the other, and does nothing behind the last block it needs.
LEMMA LoopReads ==
    ASSUME FilesInv, NEW f \in Files, NEW off \in Nat, off < size[f], off < S \/ off % S = 0,
           NEW n \in Nat, n # 0, NEW e \in Nat, e = Least(off + n, size[f]),
           NEW k0 \in Nat, Block(off) <= k0, k0 <= Block(e - 1),
           \A i \in Block(off)..Block(e - 1) : i \in DOMAIN slices[f] <=> i >= k0,
           NEW k \in Nat, k <= Block(size[f]), NEW r, LoopInv(f, off, n, e, k0, r, k)
    PROVE  LoopInv(f, off, n, e, k0, Passed(f, off, n, r, k), k + 1)
<1> DEFINE first == Block(off)
           last == Block(e - 1)
           o == off % S
           s == Passed(f, off, n, r, k)
<1>1. size[f] \in Nat /\ S \in Nat /\ S > 0 /\ off + n \in Nat
    BY FileDataAssumption DEF FilesInv, TypeOK
<1>2. e > off /\ e <= off + n /\ e <= size[f] /\ e - 1 \in Nat /\ (e = off + n \/ e = size[f])
    BY <1>1 DEF Least
<1>3. first \in Nat /\ last \in Nat /\ Block(size[f]) \in Nat /\ Block(off + n) \in Nat
    BY <1>1, <1>2, BlockPlace
<1>4. PICK P \in Nat : P = k * S /\ (k + 1) * S = P + S
    BY BlockStarts
<1>5. P <= size[f]
    <2>1. Block(size[f]) * S <= size[f]
        BY <1>1, PlaceIn, <1>3
    <2>2. k * S <= Block(size[f]) * S /\ Block(size[f]) * S \in Nat
        BY <1>3, BlockStarts
    <2> QED BY <1>1, <1>4, <2>1, <2>2
<1>6. /\ last <= Block(size[f]) /\ last <= Block(off + n)
      /\ e - 1 < last * S + S /\ last * S <= e - 1
    BY <1>1, <1>2, BlockMono, PlaceIn
<1>7. \A i \in first..last : i \in DOMAIN slices[f] <=> i >= k0
    OBVIOUS
<1>8. k \in read_range(f, off, n) <=>
        k \in DOMAIN slices[f] /\ first <= k /\ k <= Block(off + n)
    BY <1>3 DEF read_range, Least
<1>9. k0 <= last /\ first <= k0
    OBVIOUS
<1> HIDE DEF first, last
<1>10. CASE k < k0
    <2>1. r = Start(off) /\ k + 1 <= k0
        BY <1>10 DEF LoopInv
    <2>2. ~(first <= k) \/ k \in first..last
        BY <1>3, <1>9, <1>10
    <2>3. k \notin read_range(f, off, n)
        BY <1>7, <1>8, <1>10, <2>2
    <2>4. s = Start(off)
        BY <2>1, <2>3 DEF Passed
    <2> QED BY <2>1, <2>4 DEF LoopInv
<1>11. CASE k = k0
    <2>1. r = Start(off) /\ k + 1 > k0
        BY <1>11 DEF LoopInv
    <2>2. k \in first..last
        BY <1>3, <1>9, <1>11
    <2>3. k \in read_range(f, off, n)
        BY <1>3, <1>6, <1>7, <1>8, <1>11, <2>2
    <2>4. r.next = Block(off) /\ r.buf = <<>> /\ Len(r.buf) = 0
        BY <2>1 DEF Start
    <2>5. ReadState(r, n) /\ Len(r.buf) # n /\ ReadSoFar(f, off, r.buf)
        BY <1>3, <2>4 DEF ReadState, ReadSoFar, first
    <2>6. P < e /\ P < size[f]
        <3>1. k <= last
            BY <1>3, <2>2
        <3>2. k * S <= last * S /\ last * S \in Nat
            BY <1>3, <3>1, BlockStarts
        <3> QED BY <1>1, <1>2, <1>4, <1>6, <3>2
    <2>7. HoleBytes(f, o, r.next, k) = Most(off, P) - off
        <3>1. Block(off) <= k /\ k * S < size[f]
            BY <1>4, <2>2, <2>6 DEF first
        <3> QED BY <1>4, <2>4, <3>1, HolesSum
    <2>8. Most(off, P) <= off + n
        BY <1>1, <1>2, <2>6 DEF Most
    <2>9. \A p \in Nat : off <= p /\ p < P => Block(p) \notin DOMAIN slices[f]
        <3> SUFFICES ASSUME NEW p \in Nat, off <= p, p < P PROVE Block(p) \notin DOMAIN slices[f]
            OBVIOUS
        <3>1. Block(p) < k /\ Block(p) \in Nat
            BY <1>4, PlaceIn, BlockPlace
        <3>2. first <= Block(p)
            BY BlockMono DEF first
        <3>3. Block(p) \in first..last /\ ~(Block(p) >= k0)
            BY <1>3, <1>9, <1>11, <3>1, <3>2
        <3> QED BY <1>7, <3>3
    <2>10. s = ReadSlice(f, o, n, r, k)
        BY <2>3 DEF Passed
    <2> HIDE DEF s
    <2>11. /\ off + Len(r.buf) = off
           /\ HoleBytes(f, off % S, r.next, k) = Most(off, P) - (off + Len(r.buf))
           /\ \A p \in Nat : off + Len(r.buf) <= p /\ p < P => Block(p) \notin DOMAIN slices[f]
        BY <2>4, <2>7, <2>9
    <2>12. /\ ReadState(s, n) /\ s.next > k /\ ReadSoFar(f, off, s.buf)
           /\ Len(s.buf) = Least(Least(off + n, size[f]), P + S) - off
        BY <1>4, <2>3, <2>5, <2>8, <2>10, <2>11, SliceRead
    <2>13. Len(s.buf) = Least(e, (k + 1) * S) - off
        BY <1>4, <2>12
    <2>14. s.next >= k + 1
        BY <2>12 DEF ReadState
    <2> QED BY <2>1, <2>12, <2>13, <2>14 DEF LoopInv, s
<1>12. CASE k > k0
    <2>1. /\ ReadState(r, n) /\ ReadSoFar(f, off, r.buf) /\ Len(r.buf) = Least(e, P) - off
          /\ r.next >= k \/ Len(r.buf) = n
        BY <1>3, <1>4, <1>12 DEF LoopInv
    <2>2. k + 1 > k0 /\ first < k
        BY <1>3, <1>9, <1>12
    <2>3. P > off
        <3>1. first * S + S <= k * S /\ off < first * S + S
            BY <1>3, <2>2, BlockStarts, PlaceIn DEF first
        <3>2. first * S \in Nat
            BY <1>3, BlockStarts
        <3> QED BY <1>1, <1>4, <3>1, <3>2
    <2>4. CASE k \in read_range(f, off, n) /\ Len(r.buf) # n
        <3>1. P <= e
            BY <1>1, <1>2, <1>5, <2>1, <2>4 DEF Least
        <3>2. Len(r.buf) = P - off /\ off + Len(r.buf) = P /\ Most(off, P) = P
            BY <1>2, <2>1, <2>3, <3>1 DEF Least, Most
        <3>3. HoleBytes(f, o, r.next, k) = 0
            <4>1. r.next \in Nat /\ k <= r.next
                BY <2>1, <2>4 DEF ReadState
            <4>2. o \in 0..(S - 1)
                BY BlockPlace
            <4>3. o \in Nat
                BY <1>1, <4>2
            <4> QED BY <4>1, <4>3, HoleBytesType
        <3>4. /\ HoleBytes(f, off % S, r.next, k) = Most(off, P) - (off + Len(r.buf))
              /\ Most(off, P) <= off + n
              /\ \A p \in Nat : off + Len(r.buf) <= p /\ p < P => Block(p) \notin DOMAIN slices[f]
            BY <1>1, <1>2, <3>1, <3>2, <3>3
        <3>5. s = ReadSlice(f, o, n, r, k)
            BY <2>4 DEF Passed
        <3> HIDE DEF s
        <3>6. /\ ReadState(s, n) /\ s.next > k /\ ReadSoFar(f, off, s.buf)
              /\ Len(s.buf) = Least(Least(off + n, size[f]), P + S) - off
            BY <1>4, <2>1, <2>4, <3>4, <3>5, SliceRead
        <3>7. Len(s.buf) = Least(e, (k + 1) * S) - off
            BY <1>4, <3>6
        <3>8. s.next >= k + 1
            BY <3>6 DEF ReadState
        <3> QED BY <2>2, <3>6, <3>7, <3>8 DEF LoopInv, s
    <2>5. CASE k \notin read_range(f, off, n) \/ Len(r.buf) = n
        <3>1. s = r
            BY <2>5 DEF Passed, ReadSlice
        <3>2. e <= P
            <4>1. CASE Len(r.buf) = n
                BY <1>1, <1>2, <2>1, <4>1 DEF Least
            <4>2. CASE k \notin DOMAIN slices[f]
                <5>1. last < k
                    BY <1>3, <1>7, <1>12, <2>2, <4>2
                <5>2. last * S + S <= k * S /\ last * S \in Nat
                    BY <1>3, <5>1, BlockStarts
                <5> QED BY <1>1, <1>2, <1>4, <1>6, <5>2
            <4>3. CASE ~(k <= Block(off + n))
                <5>1. last < k
                    BY <1>3, <1>6, <4>3
                <5>2. last * S + S <= k * S /\ last * S \in Nat
                    BY <1>3, <5>1, BlockStarts
                <5> QED BY <1>1, <1>2, <1>4, <1>6, <5>2
            <4> QED BY <1>3, <1>8, <2>2, <2>5, <4>1, <4>2, <4>3
        <3>3. Len(r.buf) = Least(e, (k + 1) * S) - off
            BY <1>1, <1>2, <1>4, <2>1, <3>2 DEF Least
        <3>4. r.next >= k + 1 \/ Len(r.buf) = n \/ k + 1 > Block(size[f])
            <4>1. Len(r.buf) = e - off
                BY <1>2, <2>1, <3>2 DEF Least
            <4>2. CASE e = off + n
                BY <4>1, <4>2
            <4>3. CASE e = size[f]
                <5>1. k * S <= size[f] /\ size[f] < k * S + S
                    BY <1>1, <1>4, <1>5, <3>2, <4>3
                <5>2. Block(size[f]) = k
                    BY <1>1, <5>1, PlaceIn
                <5> QED BY <5>2
            <4> QED BY <1>2, <4>2, <4>3
        <3> QED BY <2>1, <2>2, <3>1, <3>3, <3>4 DEF LoopInv
    <2> QED BY <2>4, <2>5
<1> QED BY <1>10, <1>11, <1>12

\* A read that begins in the first slice or at the start of one and has no hole
\* behind the first slice that it meets.
LEMMA ReadIs ==
    ASSUME FilesInv, NEW f \in Files, NEW off \in Nat, off < size[f], off < S \/ off % S = 0,
           NEW n \in Nat, n # 0, OneRun(f, off, n)
    PROVE  dbfs_common_read(f, off, n) =
               [i \in 1..Least(n, size[f] - off) |-> StoredByte(f, off + i - 1)]
<1>1. size[f] \in Nat /\ S \in Nat /\ Block(size[f]) \in Nat
    BY FileDataAssumption, BlockPlace DEF FilesInv, TypeOK
<1>2. PICK e \in Nat : e = Least(off + n, size[f])
    BY <1>1 DEF Least
<1>3. e > off /\ e <= size[f] /\ e - 1 \in Nat
    BY <1>1, <1>2 DEF Least
<1>4. Block(off) \in Nat /\ Block(e - 1) \in Nat
    BY <1>3, BlockPlace
<1>5. PICK k0 \in Block(off)..Block(e - 1) :
            \A i \in Block(off)..Block(e - 1) : i \in DOMAIN slices[f] <=> i >= k0
    BY <1>2 DEF OneRun
<1>6. k0 \in Nat /\ Block(off) <= k0 /\ k0 <= Block(e - 1) /\ Block(e - 1) <= Block(size[f])
    BY <1>1, <1>3, <1>4, <1>5, BlockMono
<1>7. PICK m \in Nat : m = Block(size[f]) + 1 /\ \E A : ReadBy(A, m, f, off, n)
    BY LoopOf
<1>7a. PICK A : ReadBy(A, m, f, off, n)
    BY <1>7
<1>8. m = Block(size[f]) + 1 /\ LoopRule(A, f, off, n, m) /\ dbfs_common_read(f, off, n) = A[m].buf
    BY <1>1, <1>7, <1>7a DEF ReadBy
<1> DEFINE T == {k \in Nat : k <= m => LoopInv(f, off, n, e, k0, A[k], k)}
<1>9. 0 \in T
    <2>1. A[0] = Start(off) /\ ~(0 > k0)
        BY <1>6, <1>8 DEF LoopRule
    <2> QED BY <2>1 DEF LoopInv
<1>10. ASSUME NEW k \in Nat, k \in T PROVE k + 1 \in T
    <2> SUFFICES ASSUME k + 1 <= m PROVE LoopInv(f, off, n, e, k0, A[k + 1], k + 1)
        OBVIOUS
    <2>1. A[k + 1] = Passed(f, off, n, A[k], k)
        BY <1>8 DEF LoopRule
    <2>2. LoopInv(f, off, n, e, k0, A[k], k) /\ k <= Block(size[f])
        BY <1>1, <1>8, <1>10
    <2>3. LoopInv(f, off, n, e, k0, Passed(f, off, n, A[k], k), k + 1)
        BY <1>2, <1>5, <1>6, <2>2, LoopReads
    <2> QED BY <2>1, <2>3
<1> HIDE DEF T
<1>11. m \in T
    BY <1>9, <1>10, Induction
<1>12. LoopInv(f, off, n, e, k0, A[m], m)
    BY <1>11 DEF T
<1> DEFINE b == A[m].buf
<1>13. b \in Seq(Stored) /\ ReadSoFar(f, off, b) /\ Len(b) = Least(e, m * S) - off
    <2>1. m > k0
        BY <1>1, <1>4, <1>6, <1>8
    <2>2. ReadState(A[m], n) /\ ReadSoFar(f, off, A[m].buf) /\ Len(A[m].buf) = Least(e, m * S) - off
        BY <1>12, <2>1 DEF LoopInv
    <2> QED BY <2>2 DEF ReadState
<1>14. dbfs_common_read(f, off, n) = b
    BY <1>8
<1> HIDE DEF b
<1>15. e <= m * S /\ m * S \in Nat
    <2>1. size[f] < Block(size[f]) * S + S
        BY <1>1, PlaceIn
    <2>2. m * S = Block(size[f]) * S + S /\ m * S \in Nat
        BY <1>1, <1>8, BlockStarts
    <2> QED BY <1>1, <1>3, <2>1, <2>2
<1>16. Len(b) = Least(n, size[f] - off)
    BY <1>1, <1>2, <1>3, <1>13, <1>15 DEF Least
<1>17. b = [i \in 1..Len(b) |-> b[i]]
    BY <1>13
<1>18. \A i \in 1..Len(b) : b[i] = StoredByte(f, off + i - 1)
    BY <1>13 DEF ReadSoFar
<1> QED BY <1>14, <1>16, <1>17, <1>18

-----------------------------------------------------------------------------
(* Each operation preserves the invariant *)

\* The elements of a sequence of bytes.
LEMMA SeqBytes ==
    ASSUME NEW data \in Seq(Stored)
    PROVE  Len(data) \in Nat /\ \A i \in 1..Len(data) : data[i] \in Stored
OBVIOUS

\* The slices after a write are slices, the old ones and those touched, and
\* hold the data where it was written and what they held elsewhere.
LEMMA WrittenSlicesAre ==
    ASSUME FilesInv, NEW f \in Files, NEW off \in Nat, NEW data \in Seq(Stored)
    PROVE  /\ DOMAIN WrittenSlices(f, off, data) = DOMAIN slices[f] \cup Touched(off, Len(data))
           /\ DOMAIN WrittenSlices(f, off, data) \subseteq Nat
           /\ WrittenSlices(f, off, data) \in [DOMAIN WrittenSlices(f, off, data) -> Slice]
           /\ \A p \in Nat : Block(p) \in Touched(off, Len(data)) =>
                WrittenSlices(f, off, data)[Block(p)][p % S] =
                    IF off <= p /\ p < off + Len(data) THEN data[p - off + 1]
                    ELSE IF Block(p) \in DOMAIN slices[f] THEN slices[f][Block(p)][p % S] ELSE "junk"
           /\ \A k \in DOMAIN slices[f] : k \notin Touched(off, Len(data)) =>
                WrittenSlices(f, off, data)[k] = slices[f][k]
<1> DEFINE T == Touched(off, Len(data))
           W == WrittenSlices(f, off, data)
           New(k) == [o \in 0..(S - 1) |-> WrittenByte(f, off, data, k, o)]
<1>1. Len(data) \in Nat /\ \A i \in 1..Len(data) : data[i] \in Stored
    BY SeqBytes
<1>2. T \subseteq Nat
    <2> DEFINE last == IF Len(data) = 0 THEN off ELSE off + Len(data) - 1
    <2>1. last \in Nat
        BY <1>1
    <2>2. Block(off) \in Nat /\ Block(last) \in Nat
        BY <2>1, BlockPlace
    <2>3. T = Block(off)..Block(last)
        BY DEF Touched
    <2> HIDE DEF last, T
    <2> QED BY <2>2, <2>3
<1>3. DOMAIN slices[f] \subseteq Nat /\ slices[f] \in [DOMAIN slices[f] -> Slice]
    BY DEF FilesInv, TypeOK
<1>4. W = [k \in DOMAIN slices[f] \cup T |-> IF k \in T THEN New(k) ELSE slices[f][k]]
    BY DEF WrittenSlices
<1>5. ASSUME NEW k \in T, NEW o \in 0..(S - 1) PROVE WrittenByte(f, off, data, k, o) \in Stored
    <2> DEFINE p == k * S + o
    <2>1. p \in Nat
        BY <1>2, BlockOf
    <2>2. WrittenByte(f, off, data, k, o) =
            IF off <= p /\ p < off + Len(data) THEN data[p - off + 1]
            ELSE IF k \in DOMAIN slices[f] THEN slices[f][k][o] ELSE "junk"
        BY DEF WrittenByte
    <2> HIDE DEF p, T
    <2>3. CASE off <= p /\ p < off + Len(data)
        <3>1. p - off + 1 \in 1..Len(data)
            BY <2>1, <2>3, <1>1
        <3> QED BY <2>2, <2>3, <3>1, <1>1
    <2>4. CASE ~(off <= p /\ p < off + Len(data)) /\ k \in DOMAIN slices[f]
        <3>1. slices[f][k] \in Slice
            BY <2>4, <1>3
        <3> QED BY <2>2, <2>4, <3>1 DEF Slice
    <2>5. CASE ~(off <= p /\ p < off + Len(data)) /\ k \notin DOMAIN slices[f]
        BY <2>2, <2>5 DEF Stored
    <2> QED BY <2>3, <2>4, <2>5
<1>6. \A k \in T : New(k) \in Slice
    BY <1>5 DEF Slice
<1> HIDE DEF W, T
<1>7. W \in [DOMAIN slices[f] \cup T -> Slice]
    <2> HIDE DEF New
    <2> QED BY <1>3, <1>4, <1>6
<1>8. ASSUME NEW p \in Nat, Block(p) \in T
      PROVE  W[Block(p)][p % S] =
                IF off <= p /\ p < off + Len(data) THEN data[p - off + 1]
                ELSE IF Block(p) \in DOMAIN slices[f] THEN slices[f][Block(p)][p % S] ELSE "junk"
    <2>1. W[Block(p)] = New(Block(p))
        BY <1>4, <1>8
    <2>2. p % S \in 0..(S - 1) /\ Block(p) * S + (p % S) = p
        BY BlockPlace
    <2>3. New(Block(p))[p % S] = WrittenByte(f, off, data, Block(p), p % S)
        BY <2>2
    <2>4. WrittenByte(f, off, data, Block(p), p % S) =
            IF off <= p /\ p < off + Len(data) THEN data[p - off + 1]
            ELSE IF Block(p) \in DOMAIN slices[f] THEN slices[f][Block(p)][p % S] ELSE "junk"
        BY <2>2, Zenon DEF WrittenByte
    <2> HIDE DEF New
    <2> QED BY <2>1, <2>3, <2>4, Zenon
<1>9. \A k \in DOMAIN slices[f] : k \notin T => W[k] = slices[f][k]
    BY <1>4
<1> QED BY <1>2, <1>3, <1>7, <1>8, <1>9, Zenon DEF W, T

\* The blocks that a write touches end within the size it leaves.
LEMMA TouchedWithin ==
    ASSUME NEW off \in Nat, NEW n \in Nat, NEW k \in Touched(off, n)
    PROVE  k \in Nat /\ k <= Block(off + n)
<1> DEFINE last == IF n = 0 THEN off ELSE off + n - 1
<1>1. last \in Nat /\ off + n \in Nat /\ last <= off + n
    OBVIOUS
<1>2. k \in Block(off)..Block(last)
    BY DEF Touched
<1> HIDE DEF last
<1>3. Block(off) \in Nat /\ Block(last) \in Nat /\ Block(off + n) \in Nat /\ Block(last) <= Block(off + n)
    BY <1>1, BlockPlace, BlockMono
<1> QED BY <1>2, <1>3

\* A place that is written lies in a block that the write touches.
LEMMA TouchedHolds ==
    ASSUME NEW off \in Nat, NEW n \in Nat, NEW p \in Nat, off <= p, p < off + n
    PROVE  Block(p) \in Touched(off, n)
<1>1. n # 0 /\ off + n - 1 \in Nat /\ p <= off + n - 1
    OBVIOUS
<1>2. Block(off) <= Block(p) /\ Block(p) <= Block(off + n - 1)
    BY <1>1, BlockMono
<1>3. Block(off) \in Nat /\ Block(p) \in Nat /\ Block(off + n - 1) \in Nat
    BY <1>1, BlockPlace
<1>4. Touched(off, n) = Block(off)..Block(off + n - 1)
    BY <1>1 DEF Touched
<1> QED BY <1>2, <1>3, <1>4

\* dbfs_common_write preserves the invariant of the files.
LEMMA WriteFiles ==
    ASSUME FilesInv, NEW f \in Files, NEW off \in Nat, NEW data \in Seq(Stored),
           dbfs_common_write(f, off, data)
    PROVE  FilesInv'
<1> DEFINE W == WrittenSlices(f, off, data)
           T == Touched(off, Len(data))
<1>1. Len(data) \in Nat /\ (\A i \in 1..Len(data) : data[i] \in Stored) /\ off + Len(data) \in Nat
    BY SeqBytes
<1>2. /\ DOMAIN W = DOMAIN slices[f] \cup T /\ DOMAIN W \subseteq Nat /\ W \in [DOMAIN W -> Slice]
      /\ \A p \in Nat : Block(p) \in T =>
            W[Block(p)][p % S] =
                IF off <= p /\ p < off + Len(data) THEN data[p - off + 1]
                ELSE IF Block(p) \in DOMAIN slices[f] THEN slices[f][Block(p)][p % S] ELSE "junk"
      /\ \A k \in DOMAIN slices[f] : k \notin T => W[k] = slices[f][k]
    BY WrittenSlicesAre
<1>3. /\ slices' = [slices EXCEPT ![f] = W]
      /\ size' = [size EXCEPT ![f] = Most(@, off + Len(data))]
      /\ written' = [written EXCEPT ![f] = [p \in Places |->
            IF off <= p /\ p < off + Len(data) THEN data[p - off + 1] ELSE @[p]]]
      /\ disk_size' = disk_size
    BY DEF dbfs_common_write
<1>4. /\ size \in [Files -> Nat] /\ disk_size \in Nat
      /\ written \in [Files -> [Places -> Stored \cup {"hole"}]]
      /\ slices = [g \in Files |-> slices[g]]
      /\ \A g \in Files : DOMAIN slices[g] \subseteq Nat /\ slices[g] \in [DOMAIN slices[g] -> Slice]
    BY DEF FilesInv, TypeOK
<1> HIDE DEF W
<1>5. /\ slices' = [g \in Files |-> slices'[g]]
      /\ slices'[f] = W /\ \A g \in Files \ {f} : slices'[g] = slices[g]
    BY <1>3, <1>4
<1>6. /\ size' \in [Files -> Nat] /\ size'[f] >= size[f] /\ size'[f] >= off + Len(data)
      /\ \A g \in Files \ {f} : size'[g] = size[g]
    BY <1>1, <1>3, <1>4 DEF Most
<1>7. /\ \A g \in Files \ {f} : written'[g] = written[g]
      /\ \A p \in Places : written'[f][p] =
            IF off <= p /\ p < off + Len(data) THEN data[p - off + 1] ELSE written[f][p]
    BY <1>3, <1>4
<1>8. Places \subseteq Nat
    BY FileDataAssumption DEF Places
<1>9. written' \in [Files -> [Places -> Stored \cup {"hole"}]]
    <2>1. ASSUME NEW p \in Places
          PROVE (IF off <= p /\ p < off + Len(data) THEN data[p - off + 1] ELSE written[f][p])
                    \in Stored \cup {"hole"}
        <3>1. CASE off <= p /\ p < off + Len(data)
            <4>1. p - off + 1 \in 1..Len(data)
                BY <3>1, <1>1, <1>8
            <4> QED BY <3>1, <4>1, <1>1
        <3>2. CASE ~(off <= p /\ p < off + Len(data))
            BY <3>2, <1>4
        <3> QED BY <3>1, <3>2
    <2> QED BY <2>1, <1>3, <1>4
<1>10. TypeOK'
    BY <1>2, <1>3, <1>4, <1>5, <1>6, <1>9 DEF TypeOK
<1>11. SlicesWithinSize'
    <2> SUFFICES ASSUME NEW g \in Files, NEW k \in DOMAIN slices'[g]
                 PROVE  k <= Block(size'[g])
        BY DEF SlicesWithinSize, Block
    <2>1. CASE g # f
        BY <2>1, <1>5, <1>6 DEF FilesInv, SlicesWithinSize
    <2>2. CASE g = f /\ k \in T
        <3>1. k \in Nat /\ k <= Block(off + Len(data))
            BY <2>2, <1>1, TouchedWithin
        <3>2. Block(off + Len(data)) <= Block(size'[f])
            BY <1>1, <1>6, BlockMono
        <3>3. Block(off + Len(data)) \in Nat /\ Block(size'[f]) \in Nat
            BY <1>1, <1>6, BlockPlace
        <3> QED BY <2>2, <3>1, <3>2, <3>3
    <2>3. CASE g = f /\ k \in DOMAIN slices[f]
        <3>1. k \in Nat /\ k <= Block(size[f])
            BY <2>3, <1>4 DEF FilesInv, SlicesWithinSize
        <3>2. Block(size[f]) <= Block(size'[f])
            BY <1>4, <1>6, BlockMono
        <3>3. Block(size[f]) \in Nat /\ Block(size'[f]) \in Nat
            BY <1>4, <1>6, BlockPlace
        <3> QED BY <2>3, <3>1, <3>2, <3>3
    <2> QED BY <2>1, <2>2, <2>3, <1>2, <1>5
<1>12. WrittenWithin'
    <2> SUFFICES ASSUME NEW g \in Files, NEW p \in Places, written'[g][p] # "hole"
                 PROVE  p < size'[g] /\ Block(p) \in DOMAIN slices'[g]
        BY DEF WrittenWithin, Block, Places
    <2>1. CASE g # f
        BY <2>1, <1>5, <1>6, <1>7 DEF FilesInv, WrittenWithin
    <2>2. CASE g = f /\ off <= p /\ p < off + Len(data)
        <3>1. p \in Nat /\ Block(p) \in T
            BY <2>2, <1>1, <1>8, TouchedHolds
        <3> QED BY <2>2, <3>1, <1>1, <1>2, <1>5, <1>6
    <2>3. CASE g = f /\ ~(off <= p /\ p < off + Len(data))
        <3>1. written[f][p] # "hole"
            BY <2>3, <1>7
        <3>2. p < size[f] /\ Block(p) \in DOMAIN slices[f]
            BY <3>1 DEF FilesInv, WrittenWithin
        <3> QED BY <2>3, <3>2, <1>2, <1>4, <1>5, <1>6, <1>8
    <2> QED BY <2>1, <2>2, <2>3
<1>13. StoresWhatWasWritten'
    <2> SUFFICES ASSUME NEW g \in Files, NEW p \in Places
                 PROVE  IF written'[g][p] = "hole" THEN StoredByte(g, p)' \in {"zero", "junk"}
                        ELSE StoredByte(g, p)' = written'[g][p]
        BY DEF StoresWhatWasWritten, Places
    <2>0. IF written[g][p] = "hole" THEN StoredByte(g, p) \in {"zero", "junk"}
          ELSE StoredByte(g, p) = written[g][p]
        BY DEF FilesInv, StoresWhatWasWritten
    <2>1. CASE g # f
        <3>1. StoredByte(g, p)' = StoredByte(g, p)
            BY <2>1, <1>5 DEF StoredByte, Block
        <3> QED BY <2>0, <2>1, <3>1, <1>7
    <2>2. CASE g = f /\ off <= p /\ p < off + Len(data)
        <3>1. p \in Nat /\ Block(p) \in T
            BY <2>2, <1>1, <1>8, TouchedHolds
        <3>2. StoredByte(f, p)' = data[p - off + 1]
            BY <2>2, <3>1, <1>2, <1>5 DEF StoredByte, Block
        <3>3. data[p - off + 1] \in Stored
            <4>1. p - off + 1 \in 1..Len(data)
                BY <2>2, <3>1, <1>1
            <4> QED BY <4>1, <1>1
        <3>4. data[p - off + 1] # "hole"
            BY <3>3, FileDataAssumption DEF Stored
        <3> QED BY <2>2, <3>2, <3>4, <1>7
    <2>3. CASE g = f /\ ~(off <= p /\ p < off + Len(data))
        <3>0. p \in Nat
            BY <1>8
        <3>1. written'[f][p] = written[f][p]
            BY <2>3, <1>7
        <3>2. CASE Block(p) \in DOMAIN slices[f]
            <4>1. W[Block(p)][p % S] = slices[f][Block(p)][p % S]
                BY <2>3, <3>0, <3>2, <1>2
            <4>2. StoredByte(f, p)' = StoredByte(f, p)
                BY <3>2, <4>1, <1>2, <1>5 DEF StoredByte, Block
            <4> QED BY <2>0, <2>3, <3>1, <4>2
        <3>3. CASE Block(p) \notin DOMAIN slices[f]
            <4>1. written[f][p] = "hole"
                BY <3>3 DEF FilesInv, WrittenWithin
            <4>2. Block(p) \in T => W[Block(p)][p % S] = "junk"
                BY <2>3, <3>0, <3>3, <1>2
            <4>3. StoredByte(f, p)' \in {"zero", "junk"}
                BY <3>3, <4>2, <1>2, <1>5 DEF StoredByte, Block
            <4> QED BY <2>3, <3>1, <4>1, <4>3
        <3> QED BY <3>2, <3>3
    <2> QED BY <2>1, <2>2, <2>3
<1> QED BY <1>5, <1>10, <1>11, <1>12, <1>13 DEF FilesInv

\* A file that gets a size n, its slices cut or kept, has its invariant when the
\* slices Q hold what is written below n and nothing that was written behind it.
LEMMA ResizeFiles ==
    ASSUME FilesInv, NEW f \in Files, NEW n \in Nat, NEW Q,
           slices' = [slices EXCEPT ![f] = Q], SetSize(f, n), disk_size' \in Nat,
           DOMAIN Q \subseteq Nat, Q \in [DOMAIN Q -> Slice],
           \A k \in DOMAIN Q : k <= Block(n),
           \A p \in Places : p < n /\ Block(p) \in DOMAIN slices[f] =>
                Block(p) \in DOMAIN Q /\ Q[Block(p)][p % S] = slices[f][Block(p)][p % S],
           \A p \in Places : p < n /\ Block(p) \notin DOMAIN slices[f] => Block(p) \notin DOMAIN Q,
           \A p \in Places : p >= n /\ Block(p) \in DOMAIN Q => Q[Block(p)][p % S] \in {"zero", "junk"}
    PROVE  FilesInv'
<1>1. /\ size \in [Files -> Nat] /\ written \in [Files -> [Places -> Stored \cup {"hole"}]]
      /\ slices = [g \in Files |-> slices[g]]
      /\ \A g \in Files : DOMAIN slices[g] \subseteq Nat /\ slices[g] \in [DOMAIN slices[g] -> Slice]
    BY DEF FilesInv, TypeOK
<1>2. /\ size' = [size EXCEPT ![f] = n]
      /\ written' = [written EXCEPT ![f] = [p \in Places |-> IF p < n THEN @[p] ELSE "hole"]]
    BY DEF SetSize
<1>3. /\ slices' = [g \in Files |-> slices'[g]]
      /\ slices'[f] = Q /\ \A g \in Files \ {f} : slices'[g] = slices[g]
    BY <1>1
<1>4. size' \in [Files -> Nat] /\ size'[f] = n /\ \A g \in Files \ {f} : size'[g] = size[g]
    BY <1>1, <1>2
<1>5. /\ \A g \in Files \ {f} : written'[g] = written[g]
      /\ \A p \in Places : written'[f][p] = IF p < n THEN written[f][p] ELSE "hole"
    BY <1>1, <1>2
<1>6. written' \in [Files -> [Places -> Stored \cup {"hole"}]]
    BY <1>1, <1>2
<1>7. TypeOK'
    BY <1>1, <1>3, <1>4, <1>6 DEF TypeOK
<1>8. SlicesWithinSize'
    <2> SUFFICES ASSUME NEW g \in Files, NEW k \in DOMAIN slices'[g]
                 PROVE  k <= Block(size'[g])
        BY DEF SlicesWithinSize, Block
    <2> QED BY <1>3, <1>4 DEF FilesInv, SlicesWithinSize
<1>9. WrittenWithin'
    <2> SUFFICES ASSUME NEW g \in Files, NEW p \in Places, written'[g][p] # "hole"
                 PROVE  p < size'[g] /\ Block(p) \in DOMAIN slices'[g]
        BY DEF WrittenWithin, Block, Places
    <2>1. CASE g # f
        BY <2>1, <1>3, <1>4, <1>5 DEF FilesInv, WrittenWithin
    <2>2. CASE g = f
        <3>1. p < n /\ written[f][p] # "hole"
            BY <2>2, <1>5
        <3>2. Block(p) \in DOMAIN slices[f]
            BY <3>1 DEF FilesInv, WrittenWithin
        <3> QED BY <2>2, <3>1, <3>2, <1>3, <1>4
    <2> QED BY <2>1, <2>2
<1>10. StoresWhatWasWritten'
    <2> SUFFICES ASSUME NEW g \in Files, NEW p \in Places
                 PROVE  IF written'[g][p] = "hole" THEN StoredByte(g, p)' \in {"zero", "junk"}
                        ELSE StoredByte(g, p)' = written'[g][p]
        BY DEF StoresWhatWasWritten, Places
    <2>0. IF written[g][p] = "hole" THEN StoredByte(g, p) \in {"zero", "junk"}
          ELSE StoredByte(g, p) = written[g][p]
        BY DEF FilesInv, StoresWhatWasWritten
    <2>1. CASE g # f
        <3>1. StoredByte(g, p)' = StoredByte(g, p)
            BY <2>1, <1>3 DEF StoredByte, Block
        <3> QED BY <2>0, <2>1, <3>1, <1>5
    <2>2. CASE g = f /\ p < n
        <3>1. StoredByte(f, p)' = StoredByte(f, p)
            BY <2>2, <1>3 DEF StoredByte, Block
        <3> QED BY <2>0, <2>2, <3>1, <1>5
    <2>3. CASE g = f /\ ~(p < n)
        <3>1. p >= n
            BY <2>3, FileDataAssumption DEF Places
        <3>2. StoredByte(f, p)' \in {"zero", "junk"}
            BY <3>1, <1>3 DEF StoredByte, Block
        <3> QED BY <2>3, <3>2, <1>5
    <2> QED BY <2>1, <2>2, <2>3
<1> QED BY <1>3, <1>7, <1>8, <1>9, <1>10 DEF FilesInv

\* The slices that truncate keeps, when it was told the true size.
LEMMA CutSlicesAre ==
    ASSUME FilesInv, NEW f \in Files, NEW n \in Nat
    PROVE  LET Q == CutSlices(f, n, size[f])
           IN  /\ DOMAIN Q \subseteq Nat /\ Q \in [DOMAIN Q -> Slice]
               /\ \A k \in DOMAIN Q : k <= Block(n)
               /\ \A p \in Places : p < n /\ Block(p) \in DOMAIN slices[f] =>
                    Block(p) \in DOMAIN Q /\ Q[Block(p)][p % S] = slices[f][Block(p)][p % S]
               /\ \A p \in Places : p < n /\ Block(p) \notin DOMAIN slices[f] => Block(p) \notin DOMAIN Q
               /\ \A p \in Places : p >= n /\ Block(p) \in DOMAIN Q => Q[Block(p)][p % S] \in {"zero", "junk"}
<1> DEFINE Q == CutSlices(f, n, size[f])
           gone == (Block(n) + 1)..Block(size[f])
           Zeroed == [o \in 0..(S - 1) |-> IF o >= n % S THEN "zero" ELSE slices[f][Block(n)][o]]
<1>1. /\ DOMAIN slices[f] \subseteq Nat /\ slices[f] \in [DOMAIN slices[f] -> Slice] /\ size[f] \in Nat
      /\ \A k \in DOMAIN slices[f] : k <= Block(size[f])
    BY DEF FilesInv, TypeOK, SlicesWithinSize
<1>2. Block(n) \in Nat /\ Block(size[f]) \in Nat /\ n % S \in 0..(S - 1)
    BY <1>1, BlockPlace
<1>3. Q = [k \in DOMAIN slices[f] \ gone |-> IF k # Block(n) THEN slices[f][k] ELSE Zeroed]
    BY DEF CutSlices
<1>4. Block(n) \in DOMAIN slices[f] => Zeroed \in Slice
    <2> SUFFICES ASSUME Block(n) \in DOMAIN slices[f], NEW o \in 0..(S - 1)
                 PROVE  (IF o >= n % S THEN "zero" ELSE slices[f][Block(n)][o]) \in Stored
        BY DEF Slice
    <2>1. slices[f][Block(n)] \in Slice
        BY <1>1
    <2> QED BY <2>1 DEF Slice, Stored
<1>5. \A o \in 0..(S - 1) : Zeroed[o] = IF o >= n % S THEN "zero" ELSE slices[f][Block(n)][o]
    OBVIOUS
<1> HIDE DEF Q, Zeroed
<1>6. DOMAIN Q = DOMAIN slices[f] \ gone /\ Q \in [DOMAIN Q -> Slice] /\ DOMAIN Q \subseteq Nat
    BY <1>1, <1>3, <1>4
<1>7. ASSUME NEW k \in DOMAIN Q PROVE k <= Block(n)
    BY <1>1, <1>2, <1>6
<1>8. ASSUME NEW p \in Places PROVE p \in Nat /\ p % S \in 0..(S - 1) /\ Block(p) \in Nat
    <2>1. p \in Nat
        BY FileDataAssumption DEF Places
    <2> QED BY <2>1, BlockPlace
<1>9. ASSUME NEW p \in Places, p < n, Block(p) \in DOMAIN slices[f]
      PROVE  Block(p) \in DOMAIN Q /\ Q[Block(p)][p % S] = slices[f][Block(p)][p % S]
    <2>1. Block(p) <= Block(n)
        BY <1>8, <1>9, BlockMono
    <2>2. Block(p) \in DOMAIN Q
        BY <2>1, <1>2, <1>6, <1>8, <1>9
    <2>3. CASE Block(p) # Block(n)
        BY <2>2, <2>3, <1>3, <1>6
    <2>4. CASE Block(p) = Block(n)
        <3>1. p % S < n % S
            BY <2>4, <1>8, <1>9, SameBlock
        <3>2. Q[Block(p)] = Zeroed
            BY <2>2, <2>4, <1>3, <1>6
        <3>3. ~(p % S >= n % S)
            BY <3>1, <1>2, <1>8
        <3> QED BY <2>2, <2>4, <3>2, <3>3, <1>5, <1>8
    <2> QED BY <2>2, <2>3, <2>4
<1>10. ASSUME NEW p \in Places, p >= n, Block(p) \in DOMAIN Q
       PROVE  Q[Block(p)][p % S] = "zero"
    <2>1. Block(p) <= Block(n)
        BY <1>7, <1>10
    <2>2. Block(n) <= Block(p)
        BY <1>8, <1>10, BlockMono
    <2>3. Block(p) = Block(n)
        BY <2>1, <2>2, <1>2, <1>8
    <2>4. p % S >= n % S
        BY <2>3, <1>2, <1>8, <1>10, SameBlock
    <2>5. Q[Block(p)] = Zeroed
        BY <2>3, <1>3, <1>6, <1>10
    <2> QED BY <2>4, <2>5, <1>5, <1>8
<1> QED BY <1>6, <1>7, <1>9, <1>10 DEF Q

\* With one caller nothing happens between the two transactions of truncate, so
\* that the size it read is the size it finds.
LEMMA TruncateFiles ==
    ASSUME IInv, NEW c \in Callers, TruncateCommit(c)
    PROVE  FilesInv'
<1> DEFINE t == pending[c]
           f == t.file
<1>1. t.op = "truncate" /\ f \in Files /\ t.n \in Nat /\ t.size = size[f]
    BY DEF IInv, PendingOK, TruncateCommit, Nothing
<1>2. /\ size \in [Files -> Nat] /\ disk_size \in Nat /\ slices = [g \in Files |-> slices[g]]
      /\ DOMAIN slices[f] \subseteq Nat /\ slices[f] \in [DOMAIN slices[f] -> Slice]
      /\ \A k \in DOMAIN slices[f] : k <= Block(size[f])
    BY <1>1 DEF IInv, FilesInv, TypeOK, SlicesWithinSize
<1>3. Block(t.n) \in Nat /\ Block(t.size) \in Nat
    BY <1>1, <1>2, BlockPlace
<1>4. FilesInv
    BY DEF IInv
<1>5. CASE UNCHANGED <<size, slices, disk_size, written>>
    BY <1>4, <1>5 DEF FilesInv, TypeOK, WrittenWithin, SlicesWithinSize, StoresWhatWasWritten,
                      StoredByte, Block, Places, Slice
<1>6. CASE /\ Block(t.size) < Block(t.n) /\ disk_size >= t.n - t.size
           /\ disk_size' = disk_size - (t.n - t.size) /\ SetSize(f, t.n) /\ UNCHANGED slices
    <2> DEFINE Q == slices[f]
    <2>1. slices' = [slices EXCEPT ![f] = Q]
        BY <1>1, <1>2, <1>6
    <2>2. disk_size' \in Nat
        BY <1>1, <1>2, <1>6
    <2>3. \A k \in DOMAIN Q : k <= Block(t.n)
        BY <1>1, <1>2, <1>3, <1>6
    <2>4. ASSUME NEW p \in Places, p >= t.n, Block(p) \in DOMAIN Q
          PROVE  Q[Block(p)][p % S] \in {"zero", "junk"}
        <3>1. p \in Nat
            BY FileDataAssumption DEF Places
        <3>2. Block(t.n) <= Block(p) /\ Block(p) \in Nat
            BY <3>1, <2>4, <1>1, BlockMono, BlockPlace
        <3>3. Block(p) <= Block(t.size)
            BY <2>4, <1>1, <1>2
        <3>4. Block(t.size) < Block(t.n)
            BY <1>6
        <3> HIDE DEF t, f, Q
        <3> QED BY <3>2, <3>3, <3>4, <1>3
    <2>5. /\ DOMAIN Q \subseteq Nat /\ Q \in [DOMAIN Q -> Slice]
          /\ \A p \in Places : p < t.n /\ Block(p) \in DOMAIN slices[f] =>
                Block(p) \in DOMAIN Q /\ Q[Block(p)][p % S] = slices[f][Block(p)][p % S]
          /\ \A p \in Places : p < t.n /\ Block(p) \notin DOMAIN slices[f] => Block(p) \notin DOMAIN Q
        BY <1>2
    <2>6. SetSize(f, t.n) /\ f \in Files /\ t.n \in Nat
        BY <1>1, <1>6
    <2> HIDE DEF Q, f, t
    <2> QED BY <1>4, <2>1, <2>2, <2>3, <2>4, <2>5, <2>6, ResizeFiles
<1>7. CASE /\ Block(t.size) >= Block(t.n)
           /\ disk_size' = disk_size + (Block(t.size) - Block(t.n)) * S
           /\ slices' = [slices EXCEPT ![f] = CutSlices(f, t.n, t.size)] /\ SetSize(f, t.n)
    <2> DEFINE Q == CutSlices(f, t.n, size[f])
               blocks == Block(t.size) - Block(t.n)
    <2>1. slices' = [slices EXCEPT ![f] = Q]
        BY <1>1, <1>7
    <2>2. disk_size' \in Nat
        <3>1. blocks \in Nat /\ disk_size' = disk_size + blocks * S
            BY <1>3, <1>7
        <3> HIDE DEF blocks
        <3>2. blocks * S \in Nat
            BY <3>1, FileDataAssumption
        <3> QED BY <3>1, <3>2, <1>2
    <2>3. /\ DOMAIN Q \subseteq Nat /\ Q \in [DOMAIN Q -> Slice]
          /\ \A k \in DOMAIN Q : k <= Block(t.n)
          /\ \A p \in Places : p < t.n /\ Block(p) \in DOMAIN slices[f] =>
                Block(p) \in DOMAIN Q /\ Q[Block(p)][p % S] = slices[f][Block(p)][p % S]
          /\ \A p \in Places : p < t.n /\ Block(p) \notin DOMAIN slices[f] => Block(p) \notin DOMAIN Q
          /\ \A p \in Places : p >= t.n /\ Block(p) \in DOMAIN Q => Q[Block(p)][p % S] \in {"zero", "junk"}
        BY <1>1, <1>4, CutSlicesAre
    <2>4. SetSize(f, t.n) /\ f \in Files /\ t.n \in Nat
        BY <1>1, <1>7
    <2> HIDE DEF Q, f, t
    <2> QED BY <1>4, <2>1, <2>2, <2>3, <2>4, ResizeFiles
<1> QED BY <1>5, <1>6, <1>7 DEF TruncateCommit

\* fallocate only makes a file longer, by a size that has no slice of its own.
LEMMA FallocateFiles ==
    ASSUME FilesInv, NEW c \in Callers, NEW f \in Files, NEW end \in 1..MaxSize, NEW keep \in BOOLEAN,
           Fallocate(c, f, end, keep)
    PROVE  FilesInv'
<1>1. /\ size \in [Files -> Nat] /\ disk_size \in Nat /\ end \in Nat
      /\ \A g \in Files : DOMAIN slices[g] \subseteq Nat
    BY FileDataAssumption DEF FilesInv, TypeOK
<1>2. slices' = slices /\ written' = written
    BY DEF Fallocate
<1>3. size' \in [Files -> Nat] /\ \A g \in Files : size'[g] >= size[g]
    BY <1>1 DEF Fallocate, Most
<1>4. disk_size' \in Nat
    BY <1>1 DEF Fallocate
<1>5. TypeOK'
    BY <1>2, <1>3, <1>4 DEF FilesInv, TypeOK, Slice, Stored, Places
<1>6. SlicesWithinSize'
    <2> SUFFICES ASSUME NEW g \in Files, NEW k \in DOMAIN slices[g]
                 PROVE  k <= Block(size'[g])
        BY <1>2 DEF SlicesWithinSize, Block
    <2>1. k \in Nat /\ k <= Block(size[g])
        BY <1>1 DEF FilesInv, SlicesWithinSize
    <2>2. Block(size[g]) <= Block(size'[g])
        BY <1>1, <1>3, BlockMono
    <2>3. Block(size[g]) \in Nat /\ Block(size'[g]) \in Nat
        BY <1>1, <1>3, BlockPlace
    <2> QED BY <2>1, <2>2, <2>3
<1>7. WrittenWithin'
    <2> SUFFICES ASSUME NEW g \in Files, NEW p \in Places, written[g][p] # "hole"
                 PROVE  p < size'[g] /\ Block(p) \in DOMAIN slices[g]
        BY <1>2 DEF WrittenWithin, Block, Places
    <2>1. p < size[g] /\ Block(p) \in DOMAIN slices[g] /\ p \in Nat
        BY FileDataAssumption DEF FilesInv, WrittenWithin, Places
    <2> QED BY <2>1, <1>1, <1>3
<1>8. StoresWhatWasWritten'
    BY <1>2 DEF FilesInv, StoresWhatWasWritten, StoredByte, Block, Places
<1> QED BY <1>2, <1>5, <1>6, <1>7, <1>8 DEF FilesInv

\* A step that leaves the files alone.
LEMMA SameFiles ==
    ASSUME FilesInv, UNCHANGED <<size, slices, disk_size, written>>
    PROVE  FilesInv'
BY DEF FilesInv, TypeOK, WrittenWithin, SlicesWithinSize, StoresWhatWasWritten, StoredByte, Block, Places, Slice

\* The one caller is in no second transaction.
LEMMA NonePending ==
    ASSUME OneCaller, IInv, NEW c \in Callers, pending'[c] = Nothing,
           pending' = [d \in Callers |-> pending'[d]]
    PROVE  PendingOK'
<1> SUFFICES ASSUME NEW d \in Callers PROVE pending'[d] = Nothing
    BY DEF PendingOK
<1> QED BY DEF OneCaller

\* Every step preserves the inductive invariant.
LEMMA StepInv ==
    ASSUME OneCaller, IInv, [Next]_vars
    PROVE  IInv'
<1>1. FilesInv /\ pending = [c \in Callers |-> pending[c]]
    BY DEF IInv
<1>2. CASE UNCHANGED vars
    <2>1. FilesInv'
        BY <1>1, <1>2, SameFiles DEF vars
    <2>2. PendingOK' /\ pending' = [c \in Callers |-> pending'[c]]
        BY <1>2 DEF IInv, PendingOK, vars, Nothing
    <2> QED BY <2>1, <2>2 DEF IInv
<1>3. ASSUME NEW c \in Callers, NEW f \in Files, NEW off \in Places, NEW n \in 1..MaxWrite,
             NEW data \in [1..n -> Bytes], Write(c, f, off, data)
      PROVE  IInv'
    <2>1. off \in Nat /\ data \in Seq(Stored)
        BY FileDataAssumption DEF Places, Stored
    <2>2. FilesInv'
        BY <1>1, <1>3, <2>1, WriteFiles DEF Write
    <2>3. pending' = pending /\ pending[c] = Nothing
        BY <1>3 DEF Write
    <2> QED BY <1>1, <2>2, <2>3, NonePending DEF IInv
<1>4. ASSUME NEW c \in Callers, NEW f \in Files, NEW n \in 0..MaxSize, TruncateRead(c, f, n)
      PROVE  IInv'
    <2>1. FilesInv' /\ size' = size
        BY <1>1, <1>4, SameFiles DEF TruncateRead
    <2>2. pending' = [pending EXCEPT ![c] = [op |-> "truncate", file |-> f, n |-> n, size |-> size[f]]]
        BY <1>4 DEF TruncateRead
    <2>3. pending' = [d \in Callers |-> pending'[d]]
        BY <1>1, <2>2
    <2>4. ASSUME NEW d \in Callers
          PROVE  pending'[d] = [op |-> "truncate", file |-> f, n |-> n, size |-> size[f]]
        BY <1>1, <2>2 DEF OneCaller
    <2>5. n \in Nat
        BY FileDataAssumption
    <2>6. PendingOK'
        BY <2>1, <2>4, <2>5 DEF PendingOK
    <2> QED BY <2>1, <2>3, <2>6 DEF IInv
<1>5. ASSUME NEW c \in Callers, TruncateCommit(c) PROVE IInv'
    <2>1. FilesInv'
        BY <1>5, TruncateFiles
    <2>2. pending' = [pending EXCEPT ![c] = Nothing]
        BY <1>5 DEF TruncateCommit
    <2>3. pending'[c] = Nothing /\ pending' = [d \in Callers |-> pending'[d]]
        BY <1>1, <2>2
    <2> QED BY <2>1, <2>3, NonePending DEF IInv
<1>6. ASSUME NEW c \in Callers, NEW f \in Files, NEW end \in 1..MaxSize, NEW keep \in BOOLEAN,
             Fallocate(c, f, end, keep)
      PROVE  IInv'
    <2>1. FilesInv'
        BY <1>1, <1>6, FallocateFiles
    <2>2. pending' = pending /\ pending[c] = Nothing
        BY <1>6 DEF Fallocate
    <2> QED BY <1>1, <2>1, <2>2, NonePending DEF IInv
<1>7. ASSUME NEW c \in Callers, NEW src \in Files, NEW dest \in Files, NEW off \in Places,
             NEW to \in Places, NEW n \in 1..MaxWrite, CopyRead(c, src, off, n, dest, to)
      PROVE  IInv'
    <2>1. FilesInv' /\ size' = size
        BY <1>1, <1>7, SameFiles DEF CopyRead
    <2> DEFINE read == Least(Most(size[src] - off, 0), n)
               data == dbfs_common_read(src, off, read)
    <2>2. /\ data \in Seq(Stored)
          /\ pending' = [pending EXCEPT ![c] = [op |-> "copy", file |-> dest, off |-> to, data |-> data]]
        <3>1. off \in Nat /\ n \in Nat /\ size[src] \in Nat
            BY FileDataAssumption DEF Places, IInv, FilesInv, TypeOK
        <3>2. read \in Nat
            BY <3>1 DEF Least, Most
        <3>3. data \in Seq(Stored)
            BY <1>1, <3>1, <3>2, ReadType DEF IInv
        <3> QED BY <1>7, <3>3 DEF CopyRead
    <2> HIDE DEF read, data
    <2>3. pending' = [d \in Callers |-> pending'[d]]
        BY <1>1, <2>2
    <2>4. ASSUME NEW d \in Callers
          PROVE  pending'[d] = [op |-> "copy", file |-> dest, off |-> to, data |-> data]
        BY <1>1, <2>2 DEF OneCaller
    <2>5. to \in Nat
        BY FileDataAssumption DEF Places
    <2>6. PendingOK'
        BY <2>2, <2>4, <2>5 DEF PendingOK
    <2> QED BY <2>1, <2>3, <2>6 DEF IInv
<1>8. ASSUME NEW c \in Callers, CopyWrite(c) PROVE IInv'
    <2>1. pending[c].file \in Files /\ pending[c].off \in Nat /\ pending[c].data \in Seq(Stored)
        BY <1>8 DEF IInv, PendingOK, CopyWrite, Nothing
    <2>2. FilesInv'
        BY <1>1, <1>8, <2>1, WriteFiles DEF CopyWrite
    <2>3. pending' = [pending EXCEPT ![c] = Nothing]
        BY <1>8 DEF CopyWrite
    <2>4. pending'[c] = Nothing /\ pending' = [d \in Callers |-> pending'[d]]
        BY <1>1, <2>3
    <2> QED BY <2>2, <2>4, NonePending DEF IInv
<1> QED BY <1>2, <1>3, <1>4, <1>5, <1>6, <1>7, <1>8 DEF Next

\* The empty files of Init satisfy the inductive invariant.
LEMMA InitInv == Init => IInv
<1> SUFFICES ASSUME Init PROVE IInv
    OBVIOUS
<1>1. TypeOK /\ slices = [f \in Files |-> slices[f]] /\ \A f \in Files : DOMAIN slices[f] = {}
    BY FileDataAssumption DEF Init, TypeOK
<1>2. WrittenWithin /\ SlicesWithinSize
    BY <1>1 DEF Init, WrittenWithin, SlicesWithinSize
<1>3. StoresWhatWasWritten
    BY <1>1 DEF Init, StoresWhatWasWritten, StoredByte
<1>4. pending = [c \in Callers |-> pending[c]] /\ PendingOK
    BY DEF Init, PendingOK
<1> QED BY <1>1, <1>2, <1>3, <1>4 DEF IInv, FilesInv

-----------------------------------------------------------------------------
(* Theorems *)

\* With one caller, every reachable state of the files has the inductive
\* invariant, for every slice size, set of files and bound.
THEOREM Invariance == OneCaller /\ Spec => []IInv
<1> SUFFICES ASSUME OneCaller PROVE Spec => []IInv
    OBVIOUS
<1>1. Init => IInv
    BY InitInv
<1>2. IInv /\ [Next]_vars => IInv'
    BY StepInv
<1> QED BY <1>1, <1>2, PTL DEF Spec

\* With one caller no write, truncation or copy leaves a slice behind the end
\* of its file, so that truncate deletes all it has to.
THEOREM SlicesEndWithFile == OneCaller /\ Spec => []SlicesWithinSize
<1>1. IInv => SlicesWithinSize
    BY DEF IInv, FilesInv
<1> QED BY <1>1, Invariance, PTL

\* With one caller every byte of a file is stored as it was last written, and
\* no byte that a truncation cut off comes back.
THEOREM BytesAreKept == OneCaller /\ Spec => []StoresWhatWasWritten
<1>1. IInv => StoresWhatWasWritten
    BY DEF IInv, FilesInv
<1> QED BY <1>1, Invariance, PTL

\* With one caller a read that begins in the first slice or at the start of one, with
\* no hole behind the first slice that it meets, returns the bytes of the file, as many
\* as it asked for or the file has.
THEOREM ReadsReturnTheFile == OneCaller /\ Spec => []ReadsBack
<1>1. IInv => ReadsBack
    <2> SUFFICES ASSUME IInv, NEW f \in Files, NEW off \in 0..(size[f] - 1), NEW n \in 1..MaxSize,
                        off < S \/ off % S = 0, OneRun(f, off, n)
                 PROVE  dbfs_common_read(f, off, n) =
                            [i \in 1..Least(n, size[f] - off) |-> StoredByte(f, off + i - 1)]
        BY DEF ReadsBack
    <2>1. FilesInv /\ size[f] \in Nat
        BY DEF IInv, FilesInv, TypeOK
    <2>2. off \in Nat /\ off < size[f] /\ n \in Nat /\ n # 0
        BY <2>1
    <2> QED BY <2>1, <2>2, ReadIs
<1> QED BY <1>1, Invariance, PTL

\* The free space is never taken below zero.
THEOREM TypeCorrect == OneCaller /\ Spec => []TypeOK
<1>1. IInv => TypeOK
    BY DEF IInv, FilesInv
<1> QED BY <1>1, Invariance, PTL

=============================================================================
