--------------------------- MODULE ReadDirProofs ---------------------------
(***************************************************************************)
(* Theorems about ReadDir, for every set of names and of handles, every    *)
(* length of a chunk and every room that a reply or a buffer has.          *)
(***************************************************************************)
EXTENDS ReadDir, LibraryProofs, TLAPS

Increasing(s) == \A i, j \in DOMAIN s : i < j => s[i] < s[j]

Exact(l) == IsInjective(l.list) /\ l.stable \subseteq Range(l.list)

\* A listing that stands at entry e, or at the beginning: it continues behind e, is
\* in order, and has each name up to e that was there all the time.
Stands(l, e) ==
    IF e = None THEN l.pos = 0 /\ l.list = <<>>
    ELSE /\ l.pos = e.offset + 1
         /\ \A i \in DOMAIN l.list : l.list[i] <= e.name
         /\ Increasing(l.list)
         /\ \A n \in l.stable : n <= e.name => n \in Range(l.list)

Going(l) == l.st \notin {"closed", "done"}

\* The entry that listing l will continue behind, with t in the table: between its
\* read and its push the thread has it.
Mark(l, t) == IF l.st = "push" THEN l.last ELSE t

\* Listing l with t in the table and the names d in the directory: a name that has
\* been there all the time is there now, and in a snapshot taken meanwhile; a plain
\* listing stands at its mark, and is exact when it is done.
Sound(l, t, d) ==
    /\ Going(l) => l.stable \subseteq d
    /\ l.st = "read" => l.stable \subseteq l.snap
    /\ Going(l) /\ l.plain => Stands(l, Mark(l, t))
    /\ l.st = "push" => l.last \in Entry
    /\ l.st = "done" /\ l.plain => Exact(l)

AllSound == \A h \in Handles : Sound(handle[h], table, dir)

\* Whether a handle is one that the table may be about.
Uses(h) == IF front = "fuse" THEN Open(h) ELSE Active(h)

\* While a plain listing goes on nobody else uses the table.
Alone ==
    \A h \in Handles : Active(h) /\ handle[h].plain => \A g \in Handles \ {h} : ~Uses(g)

IInv == TypeOK /\ PanicHasCause /\ TableReleased /\ Alone /\ AllSound

-----------------------------------------------------------------------------
(* Entries *)

\* Sequence s has the elements of X in their order.
Orders(s, X) ==
    /\ s \in Seq(Names) /\ Increasing(s)
    /\ \A i \in DOMAIN s : s[i] \in X
    /\ \A n \in X : \E i \in DOMAIN s : s[i] = n

\* A bucket's keys are passed in their order, each once.
LEMMA InOrderIs ==
    ASSUME NEW X \in SUBSET Names
    PROVE  Orders(InOrder(X), X)
<1> DEFINE s == [n \in Names |-> n]
           a == Kept(s, X)
<1>1. LastName \in Nat
    BY ReadDirAssumption
<1>2. s \in Seq(Names) /\ Len(s) = LastName /\ \A n \in 1..LastName : s[n] = n
    BY <1>1 DEF Names
<1> HIDE DEF s
<1>3. a \in Seq(Names)
    BY <1>2, KeptType
<1>4. PICK at : At(at, a, s, X, LastName)
    BY <1>2, KeptAt
<1>5. \A i \in DOMAIN a : at[i] \in 1..LastName /\ at[i] \in X /\ s[at[i]] = a[i]
    BY <1>4 DEF At
<1>6. \A i \in DOMAIN a : a[i] = at[i] /\ a[i] \in X
    BY <1>2, <1>5
<1>7. \A i, j \in DOMAIN a : i < j => at[i] < at[j]
    BY <1>4 DEF At
<1>8. \A n \in X : \E i \in DOMAIN a : at[i] = n
    BY <1>4 DEF At, Names
<1>9. InOrder(X) = a
    BY DEF InOrder, s
<1> HIDE DEF a
<1>10. Increasing(a)
    BY <1>6, <1>7 DEF Increasing
<1> QED BY <1>3, <1>6, <1>8, <1>9, <1>10 DEF Orders

\* The names behind the table's entry.
Behind(names) == {n \in names : table # None => n > table.name}

\* Sequence e has entries for the names in X in their order, numbered from offset.
Lists(e, offset, X) ==
    /\ e \in Seq(Entry)
    /\ \A i \in DOMAIN e : e[i].offset = offset + i - 1 /\ e[i].name \in X
    /\ \A i, j \in DOMAIN e : i < j => e[i].name < e[j].name
    /\ \A n \in X : \E i \in DOMAIN e : e[i].name = n

\* What dbfs_common_readdir returns.
LEMMA EntriesAre ==
    ASSUME NEW offset \in Nat, NEW names \in SUBSET Names
    PROVE  Lists(Entries(offset, names), offset, Behind(names))
<1> DEFINE X == Behind(names)
           left == InOrder(X)
           e == [i \in 1..Len(left) |-> [name |-> left[i], offset |-> offset + i - 1]]
<1>1. X \in SUBSET Names
    BY DEF Behind
<1>2. Orders(left, X)
    BY <1>1, InOrderIs
<1>3. Entries(offset, names) = e
    BY DEF Entries, Behind
<1> HIDE DEF left, X
<1>4. left \in Seq(Names) /\ DOMAIN left = 1..Len(left) /\ Len(left) \in Nat
    BY <1>2 DEF Orders
<1>5. DOMAIN e = 1..Len(left) /\ \A i \in DOMAIN e : e[i].name = left[i] /\ e[i].offset = offset + i - 1
    OBVIOUS
<1>6. \A i \in 1..Len(left) : [name |-> left[i], offset |-> offset + i - 1] \in Entry
    BY <1>4 DEF Entry
<1>7. e \in Seq(Entry)
    BY <1>4, <1>6
<1> HIDE DEF e
<1>8. /\ \A i \in DOMAIN e : e[i].name \in X
      /\ \A i, j \in DOMAIN e : i < j => e[i].name < e[j].name
      /\ \A n \in X : \E i \in DOMAIN e : e[i].name = n
    BY <1>2, <1>4, <1>5 DEF Orders, Increasing
<1> QED BY <1>3, <1>5, <1>7, <1>8 DEF Lists, X

\* The first entries, as many as there is room for.
LEMMA FittingIs ==
    ASSUME NEW e \in Seq(Entry), NEW room \in Nat
    PROVE  /\ Fitting(e, room) \in Seq(Entry) /\ Len(Fitting(e, room)) <= room
           /\ Len(e) <= room => Fitting(e, room) = e
           /\ e # <<>> /\ room # 0 => Fitting(e, room) # <<>>
<1> DEFINE n == IF Len(e) < room THEN Len(e) ELSE room
<1>1. Len(e) \in Nat /\ n \in Nat /\ n <= Len(e) /\ n <= room
    OBVIOUS
<1>2. Fitting(e, room) = SubSeq(e, 1, n)
    BY DEF Fitting
<1>3. SubSeq(e, 1, n) \in Seq(Entry) /\ Len(SubSeq(e, 1, n)) = n
    BY <1>1
<1>4. n = Len(e) => SubSeq(e, 1, n) = e
    BY <1>1
<1>5. e # <<>> /\ room # 0 => n # 0
    BY <1>1
<1>6. Len(e) <= room => n = Len(e)
    BY <1>1
<1> HIDE DEF n
<1>7. n # 0 => SubSeq(e, 1, n) # <<>>
    BY <1>3
<1> QED BY <1>1, <1>2, <1>3, <1>4, <1>5, <1>6, <1>7

\* The names of entries.
LEMMA NamesAre ==
    ASSUME NEW e \in Seq(Entry)
    PROVE  /\ NamesOf(e) \in Seq(Names) /\ Len(NamesOf(e)) = Len(e)
           /\ \A i \in 1..Len(e) : NamesOf(e)[i] = e[i].name
<1>0. DOMAIN e = 1..Len(e) /\ Len(e) \in Nat /\ \A i \in 1..Len(e) : e[i] \in Entry
    OBVIOUS
<1>1. DOMAIN e = 1..Len(e) /\ Len(e) \in Nat /\ \A i \in 1..Len(e) : e[i].name \in Names
    BY <1>0 DEF Entry
<1>2. NamesOf(e) = [i \in 1..Len(e) |-> e[i].name]
    BY <1>1 DEF NamesOf
<1> QED BY <1>1, <1>2

\* What increases has no element twice.
LEMMA IncreasingOnce ==
    ASSUME NEW s \in Seq(Names), Increasing(s)
    PROVE  IsInjective(s)
<1> SUFFICES ASSUME NEW a \in DOMAIN s, NEW b \in DOMAIN s, s[a] = s[b] PROVE a = b
    BY DEF IsInjective
<1>1. a \in Nat /\ b \in Nat /\ s[a] \in Nat /\ s[b] \in Nat
    BY ReadDirAssumption DEF Names
<1>2. ~(a < b) /\ ~(b < a)
    BY <1>1 DEF Increasing
<1> QED BY <1>1, <1>2

\* What a listing has when all that lies behind its entry is added.
Extended(l, ents, new) ==
    /\ new \in Seq(Names) /\ Increasing(new) /\ l.stable \subseteq Range(new)
    /\ ents # <<>> =>
        /\ Last(ents) \in Entry /\ Last(ents).offset + 1 = l.pos + Len(ents)
        /\ \A i \in DOMAIN new : new[i] <= Last(ents).name

\* A plain listing continues where it stands: nothing twice, nothing left out.
LEMMA Continues ==
    ASSUME table \in Entry \cup {None}, NEW names \in SUBSET Names,
           NEW l, l.list \in Seq(Names), l.pos \in Nat, l.stable \subseteq names, Stands(l, table),
           NEW ents, ents = Entries(l.pos, names), NEW new, new = l.list \o NamesOf(ents)
    PROVE  Extended(l, ents, new)
<1> DEFINE a == l.list
           b == NamesOf(ents)
           X == Behind(names)
<1>1. Lists(ents, l.pos, X)
    BY EntriesAre
<1>2. ents \in Seq(Entry) /\ Len(ents) \in Nat /\ DOMAIN ents = 1..Len(ents)
    BY <1>1 DEF Lists
<1>3. b \in Seq(Names) /\ Len(b) = Len(ents) /\ \A i \in 1..Len(ents) : b[i] = ents[i].name
    BY <1>2, NamesAre
<1>4. /\ \A i \in 1..Len(ents) : b[i] \in X
      /\ \A i, j \in 1..Len(ents) : i < j => b[i] < b[j]
      /\ \A n \in X : \E i \in 1..Len(ents) : b[i] = n
    <2> HIDE DEF b, X
    <2>1. /\ \A i \in 1..Len(ents) : ents[i].name \in X
          /\ \A i, j \in 1..Len(ents) : i < j => ents[i].name < ents[j].name
          /\ \A n \in X : \E i \in 1..Len(ents) : ents[i].name = n
        BY <1>1, <1>2 DEF Lists
    <2> QED BY <1>3, <2>1
<1>5. Names \subseteq Nat
    BY ReadDirAssumption DEF Names
<1>6. a \in Seq(Names) /\ Len(a) \in Nat /\ DOMAIN a = 1..Len(a) /\ \A i \in 1..Len(a) : a[i] \in Nat
    BY <1>5
<1>6a. \A i \in 1..Len(ents) : b[i] \in Nat
    <2> HIDE DEF b
    <2>1. \A i \in 1..Len(b) : b[i] \in Names
        BY <1>3
    <2> QED BY <1>3, <1>5, <2>1
<1>7. Increasing(a) /\ \A i \in 1..Len(a), n \in X : a[i] < n
    <2>1. CASE table = None
        BY <2>1 DEF Stands, Increasing
    <2>2. CASE table # None
        <3>1. table.name \in Nat
            BY <1>5, <2>2 DEF Entry
        <3>2. Increasing(a) /\ \A i \in 1..Len(a) : a[i] <= table.name
            BY <1>6, <2>2 DEF Stands
        <3>3. \A n \in X : n \in Nat /\ n > table.name
            BY <1>5, <2>2 DEF Behind
        <3> QED BY <1>6, <3>1, <3>2, <3>3
    <2> QED BY <2>1, <2>2
<1>8. \A n \in l.stable : n \in X \/ n \in Range(a)
    <2> SUFFICES ASSUME NEW n \in l.stable, n \notin X PROVE n \in Range(a)
        OBVIOUS
    <2>1. n \in Nat /\ table # None /\ ~(n > table.name)
        BY <1>5 DEF Behind
    <2>2. table.name \in Nat
        BY <1>5, <2>1 DEF Entry
    <2>3. n <= table.name
        BY <2>1, <2>2
    <2> QED BY <2>1, <2>3 DEF Stands
<1> HIDE DEF a, b, X
<1>9. new = a \o b
    BY DEF a, b
<1>9a. PICK na \in Nat, ne \in Nat : na = Len(a) /\ ne = Len(ents)
    BY <1>2, <1>6
<1>10. /\ new \in Seq(Names) /\ DOMAIN new = 1..(na + ne)
       /\ \A i \in 1..na : new[i] = a[i]
       /\ \A i \in 1..ne : new[na + i] = b[i]
    BY <1>3, <1>6, <1>9, <1>9a
<1>11. ASSUME NEW i \in DOMAIN new
       PROVE  \/ i \in 1..na /\ new[i] = a[i]
              \/ \E j \in 1..ne : i = na + j /\ new[i] = b[j]
    <2>1. i \in Nat /\ i >= 1 /\ i <= na + ne
        BY <1>10
    <2>2. CASE i <= na
        <3>1. i \in 1..na
            BY <2>1, <2>2
        <3> QED BY <1>10, <3>1
    <2>3. CASE i > na
        <3>1. i - na \in 1..ne /\ na + (i - na) = i
            BY <2>1, <2>3
        <3> QED BY <1>10, <3>1
    <2> QED BY <2>1, <2>2, <2>3
<1>12. Increasing(new)
    <2> SUFFICES ASSUME NEW i \in DOMAIN new, NEW j \in DOMAIN new, i < j PROVE new[i] < new[j]
        BY DEF Increasing
    <2>1. CASE i \in 1..na /\ new[i] = a[i]
        <3>1. CASE j \in 1..na /\ new[j] = a[j]
            BY <1>6, <1>7, <1>9a, <2>1, <3>1 DEF Increasing
        <3>2. ASSUME NEW y \in 1..ne, new[j] = b[y] PROVE new[i] < new[j]
            BY <1>4, <1>7, <1>9a, <2>1, <3>2
        <3> QED BY <1>11, <3>1, <3>2
    <2>2. ASSUME NEW x \in 1..ne, i = na + x, new[i] = b[x] PROVE new[i] < new[j]
        <3>1. ASSUME j \in 1..na PROVE FALSE
            BY <2>2, <3>1
        <3>2. ASSUME NEW y \in 1..ne, j = na + y, new[j] = b[y] PROVE new[i] < new[j]
            <4>1. x < y
                BY <2>2, <3>2
            <4> QED BY <1>4, <1>9a, <2>2, <3>2, <4>1
        <3> QED BY <1>11, <3>1, <3>2
    <2> QED BY <1>11, <2>1, <2>2
<1>13. ASSUME NEW n \in l.stable PROVE n \in Range(new)
    <2>1. CASE n \in X
        <3>1. PICK i \in 1..ne : b[i] = n
            BY <1>4, <1>9a, <2>1
        <3>2. na + i \in DOMAIN new
            BY <1>10
        <3>3. new[na + i] = n
            BY <1>10, <3>1
        <3> QED BY <3>2, <3>3 DEF Range
    <2>2. CASE n \in Range(a)
        <3>1. PICK i \in 1..na : a[i] = n
            BY <1>6, <1>9a, <2>2 DEF Range
        <3>2. i \in DOMAIN new
            BY <1>10
        <3>3. new[i] = n
            BY <1>10, <3>1
        <3> QED BY <3>2, <3>3 DEF Range
    <2> QED BY <1>8, <2>1, <2>2
<1>14. ASSUME ents # <<>>
       PROVE  /\ Last(ents) \in Entry /\ Last(ents).offset + 1 = l.pos + Len(ents)
              /\ \A i \in DOMAIN new : new[i] <= Last(ents).name
    <2>1. ne \in 1..ne
        <3>1. ne # 0
            BY <1>2, <1>9a, <1>14
        <3> QED BY <3>1
    <2>2. Last(ents) = ents[ne] /\ ents[ne] \in Entry
        BY <1>2, <1>9a, <2>1 DEF Last
    <2>3. ents[ne].offset = l.pos + ne - 1
        BY <1>1, <1>2, <1>9a, <2>1 DEF Lists
    <2>4. ents[ne].name = b[ne] /\ b[ne] \in Nat
        BY <1>3, <1>6a, <1>9a, <2>1
    <2>5. ASSUME NEW i \in DOMAIN new PROVE new[i] <= b[ne]
        <3>1. CASE i \in 1..na /\ new[i] = a[i]
            <4>1. a[i] \in Nat /\ a[i] < b[ne]
                BY <1>4, <1>6, <1>7, <1>9a, <2>1, <3>1
            <4> QED BY <2>4, <3>1, <4>1
        <3>2. ASSUME NEW j \in 1..ne, new[i] = b[j] PROVE new[i] <= b[ne]
            <4>1. CASE j = ne
                BY <2>4, <3>2, <4>1
            <4>2. CASE j # ne
                <5>1. j < ne
                    BY <4>2
                <5>2. b[j] < b[ne]
                    BY <1>4, <1>9a, <2>1, <5>1
                <5>3. b[j] \in Nat
                    BY <1>6a, <1>9a
                <5> QED BY <2>4, <3>2, <5>2, <5>3
            <4> QED BY <4>1, <4>2
        <3> QED BY <1>11, <3>1, <3>2
    <2>6. ents[ne].offset + 1 = l.pos + ne
        BY <2>3
    <2> QED BY <1>9a, <2>2, <2>4, <2>5, <2>6
<1>15. l.stable \subseteq Range(new)
    BY <1>13
<1> QED BY <1>10, <1>12, <1>14, <1>15 DEF Extended

-----------------------------------------------------------------------------
(* What keeps a listing sound *)

\* A listing that is not plain does not depend on the table.
LEMMA NotPlain ==
    ASSUME NEW l, NEW t, NEW u, NEW d, Sound(l, t, d), Going(l) => ~l.plain
    PROVE  Sound(l, u, d)
BY DEF Sound

\* A listing that another one begins to overlap.
LEMMA Overlapped ==
    ASSUME NEW l \in Listings, NEW t, NEW u, NEW d, Sound(l, t, d), Going(l)
    PROVE  LET m == [l EXCEPT !.plain = FALSE]
           IN  m \in Listings /\ Going(m) /\ ~m.plain /\ Sound(m, u, d) /\ m.list = l.list /\ m.room = l.room
<1> DEFINE m == [l EXCEPT !.plain = FALSE]
<1>1. m \in Listings
    BY DEF Listings
<1>2. /\ m.st = l.st /\ m.stable = l.stable /\ m.snap = l.snap /\ m.last = l.last /\ m.list = l.list
      /\ m.room = l.room /\ m.plain = FALSE
    BY DEF Listings
<1> HIDE DEF m
<1>3. Going(m)
    BY <1>2 DEF Going
<1>4. Sound(m, u, d)
    BY <1>2, <1>3 DEF Sound, Going
<1> QED BY <1>1, <1>2, <1>3, <1>4 DEF m

\* A listing while a name is added to the directory.
LEMMA Created ==
    ASSUME NEW l, NEW t, NEW d, NEW n, Sound(l, t, d)
    PROVE  Sound(l, t, d \cup {n})
BY DEF Sound

\* A listing while a name is removed from it.
LEMMA Removed ==
    ASSUME NEW l \in Listings, NEW t, NEW d, NEW n, Sound(l, t, d), Going(l)
    PROVE  LET m == [l EXCEPT !.stable = @ \ {n}]
           IN  /\ m \in Listings /\ Going(m) /\ m.plain = l.plain /\ Sound(m, t, d \ {n})
               /\ m.list = l.list /\ m.room = l.room /\ m.st = l.st
<1> DEFINE m == [l EXCEPT !.stable = @ \ {n}]
<1>1. m \in Listings
    BY DEF Listings
<1>2. /\ m.st = l.st /\ m.stable = l.stable \ {n} /\ m.snap = l.snap /\ m.last = l.last
      /\ m.list = l.list /\ m.room = l.room /\ m.plain = l.plain /\ m.pos = l.pos
    BY DEF Listings
<1> HIDE DEF m
<1>3. Going(m)
    BY <1>2 DEF Going
<1>4. \A e : Stands(l, e) => Stands(m, e)
    BY <1>2 DEF Stands
<1>5. Mark(m, t) = Mark(l, t)
    BY <1>2 DEF Mark
<1>6. Sound(m, t, d \ {n})
    BY <1>2, <1>3, <1>4, <1>5 DEF Sound, Going
<1> QED BY <1>1, <1>2, <1>3, <1>6 DEF m

-----------------------------------------------------------------------------
(* Steps *)

\* The listings of open and of closed handles.
LEMMA OpenIs ==
    ASSUME TypeOK, NEW h \in Handles
    PROVE  /\ Open(h) => handle[h] \in Listings
           /\ ~Open(h) => handle[h] = NoListing
           /\ Active(h) <=> Going(handle[h])
           /\ Active(h) => Open(h)
<1>1. handle[h] \in Listings \cup {NoListing}
    BY DEF TypeOK
<1>2. NoListing.st = "closed"
    BY DEF NoListing
<1>3. \A l \in Listings : l.st # "closed"
    BY DEF Listings, States
<1> QED BY <1>1, <1>2, <1>3 DEF Open, Active, Going

\* Nothing is asked of a closed handle.
LEMMA ClosedSound == \A t, d : Sound(NoListing, t, d) /\ ~Going(NoListing)
BY DEF NoListing, Sound, Going

\* A step of one handle that uses the table leaves the others sound: none of
\* them is plain and still going on.
LEMMA OneChanges ==
    ASSUME IInv, NEW h \in Handles, Uses(h), UNCHANGED <<front, dir>>, panicked' = None,
           table' \in Entry \cup {None}, NEW l \in Listings \cup {NoListing},
           handle' \in [Handles -> Listings \cup {NoListing}], handle'[h] = l,
           \A g \in Handles \ {h} : handle'[g] = handle[g],
           Sound(l, table', dir),
           front = "rvfs" /\ l.st # "closed" => Len(l.list) <= l.room,
           Going(l) /\ l.plain => Going(handle[h]) /\ handle[h].plain,
           front = "fuse" /\ l.st = "closed" => table' = None
    PROVE  IInv'
<1>1. ASSUME NEW g \in Handles, g # h PROVE ~(Going(handle[g]) /\ handle[g].plain)
    BY <1>1, OpenIs DEF IInv, Alone
<1>2. TypeOK'
    <2>1. Listings' = Listings
        BY DEF Listings, States
    <2>2. front' = "rvfs" => \A g \in Handles : Open(g)' => Len(handle'[g].list) <= handle'[g].room
        BY DEF IInv, TypeOK, Open
    <2> QED BY <2>1, <2>2 DEF IInv, TypeOK
<1>3. PanicHasCause'
    BY DEF PanicHasCause
<1>4. TableReleased'
    BY DEF TableReleased, Open
<1>5. Alone'
    <2> SUFFICES ASSUME NEW k \in Handles, Active(k)', handle'[k].plain,
                        NEW g \in Handles \ {k}
                 PROVE  ~Uses(g)'
        BY DEF Alone
    <2>1. Going(handle'[k])
        BY DEF Active, Going
    <2>2. k = h
        BY <1>1, <2>1
    <2>3. Active(h) /\ handle[h].plain
        BY <2>1, <2>2, OpenIs DEF IInv
    <2>4. ~Uses(g) /\ handle'[g] = handle[g]
        BY <2>2, <2>3 DEF IInv, Alone
    <2> QED BY <2>4 DEF Uses, Open, Active
<1>6. AllSound'
    <2> SUFFICES ASSUME NEW g \in Handles PROVE Sound(handle'[g], table', dir')
        BY DEF AllSound
    <2>1. CASE g = h
        BY <2>1
    <2>2. CASE g # h
        <3>1. handle'[g] = handle[g] /\ Sound(handle[g], table, dir) /\ dir' = dir
            BY <2>2 DEF IInv, AllSound
        <3>2. Sound(handle[g], table', dir)
            BY <1>1, <2>2, <3>1, NotPlain
        <3> QED BY <3>1, <3>2
    <2> QED BY <2>1, <2>2
<1> QED BY <1>2, <1>3, <1>4, <1>5, <1>6 DEF IInv

\* A listing that begins, which every listing that goes on then overlaps.
LEMMA Begins ==
    ASSUME IInv, NEW h \in Handles, ~Uses(h), UNCHANGED <<front, dir>>, panicked' = None,
           table' \in {table, None}, NEW st \in States \ {"read", "push", "done"}, NEW room \in Nat,
           NEW alone \in BOOLEAN, handle' = Overlap(h, Listing(st, room, alone)),
           alone => table' = None /\ \A g \in Handles \ {h} : ~Uses(g)
    PROVE  IInv'
<1> DEFINE l == Listing(st, room, alone)
<1>1. TypeOK /\ AllSound /\ dir \subseteq Names
    BY DEF IInv, TypeOK
<1>2. l \in Listings
    BY <1>1 DEF Listing, Listings
<1>3. /\ l.st = st /\ l.pos = 0 /\ l.room = room /\ l.list = <<>> /\ l.stable = dir /\ l.plain = alone
      /\ st \notin {"closed", "read", "push", "done"}
    BY DEF Listing, States
<1>4. handle'[h] = l
    BY DEF Overlap
<1>5. ASSUME NEW g \in Handles, g # h
      PROVE  handle'[g] = IF Active(g) THEN [handle[g] EXCEPT !.plain = FALSE] ELSE handle[g]
    BY <1>5 DEF Overlap
<1> HIDE DEF l
<1>6. ASSUME NEW g \in Handles, g # h
      PROVE  /\ handle'[g] \in Listings \cup {NoListing}
             /\ Sound(handle'[g], table', dir)
             /\ ~(Going(handle'[g]) /\ handle'[g].plain)
             /\ Open(g)' => Open(g) /\ handle'[g].list = handle[g].list /\ handle'[g].room = handle[g].room
             /\ ~Uses(g) => ~Uses(g)'
    <2>1. CASE Active(g)
        <3>1. handle[g] \in Listings /\ Going(handle[g]) /\ Sound(handle[g], table, dir) /\ Open(g)
            BY <1>1, <2>1, OpenIs DEF AllSound
        <3>2. handle'[g] = [handle[g] EXCEPT !.plain = FALSE]
            BY <1>5, <1>6, <2>1
        <3>3. /\ handle'[g] \in Listings /\ Going(handle'[g]) /\ ~handle'[g].plain
              /\ Sound(handle'[g], table', dir)
              /\ handle'[g].list = handle[g].list /\ handle'[g].room = handle[g].room
            BY <3>1, <3>2, Overlapped
        <3>4. Uses(g)
            BY <2>1, <3>1 DEF Uses
        <3> QED BY <3>1, <3>3, <3>4
    <2>2. CASE ~Active(g)
        <3>1. handle'[g] = handle[g]
            BY <1>5, <1>6, <2>2
        <3>2. handle[g] \in Listings \cup {NoListing} /\ ~Going(handle[g])
            BY <1>1, <2>2, OpenIs DEF TypeOK
        <3>3. Sound(handle[g], table', dir)
            BY <1>1, <3>2, NotPlain DEF AllSound
        <3> QED BY <3>1, <3>2, <3>3 DEF Open, Uses, Active
    <2> QED BY <2>1, <2>2
<1>7. TypeOK'
    <2>1. Listings' = Listings
        BY DEF Listings, States
    <2>2. handle' \in [Handles -> Listings \cup {NoListing}]
        <3>1. \A g \in Handles : handle'[g] \in Listings \cup {NoListing}
            BY <1>2, <1>4, <1>6
        <3>2. handle' = [g \in Handles |-> handle'[g]]
            BY DEF Overlap
        <3> QED BY <3>1, <3>2
    <2>3. front' = "rvfs" => \A g \in Handles : Open(g)' => Len(handle'[g].list) <= handle'[g].room
        <3> SUFFICES ASSUME front = "rvfs", NEW g \in Handles, Open(g)'
                     PROVE  Len(handle'[g].list) <= handle'[g].room
            OBVIOUS
        <3>1. CASE g = h
            BY <1>3, <1>4, <3>1
        <3>2. CASE g # h
            BY <1>1, <1>6, <3>2 DEF TypeOK
        <3> QED BY <3>1, <3>2
    <2> QED BY <1>1, <2>1, <2>2, <2>3 DEF TypeOK
<1>8. PanicHasCause'
    BY DEF PanicHasCause
<1>9. TableReleased'
    <2>1. Open(h)'
        BY <1>3, <1>4 DEF Open
    <2> QED BY <2>1 DEF TableReleased
<1>10. Alone'
    <2> SUFFICES ASSUME NEW k \in Handles, Active(k)', handle'[k].plain,
                        NEW g \in Handles \ {k}
                 PROVE  ~Uses(g)'
        BY DEF Alone
    <2>1. Going(handle'[k])
        BY DEF Active, Going
    <2>2. k = h
        BY <1>6, <2>1
    <2>3. alone
        BY <1>3, <1>4, <2>2
    <2> QED BY <1>6, <2>2, <2>3
<1>11. AllSound'
    <2>1. Sound(l, table', dir)
        BY <1>3 DEF Sound, Going, Stands, Mark
    <2> QED BY <1>4, <1>6, <2>1 DEF AllSound
<1> QED BY <1>7, <1>8, <1>9, <1>10, <1>11 DEF IInv

\* The assertions of dbfs_common_readdir fail.
LEMMA Panicking ==
    ASSUME IInv, NEW h \in Handles, Panic(h), Going(handle[h]), handle[h].st # "push",
           NEW names, names = IF front = "fuse" THEN dir ELSE handle[h].snap,
           Panics(handle[h].pos, names)
    PROVE  IInv'
<1>1. ~handle[h].plain \/ table.name \notin names
    <2> SUFFICES ASSUME handle[h].plain PROVE table.name \notin names
        OBVIOUS
    <2>1. Stands(handle[h], table)
        BY DEF IInv, AllSound, Sound, Mark
    <2> QED BY <2>1 DEF Stands, Panics
<1>2. PanicHasCause'
    BY <1>1 DEF Panic, PanicHasCause
<1>3. TypeOK' /\ TableReleased'
    BY DEF IInv, TypeOK, TableReleased, Panic, Listings, States, Open
<1>4. Alone' /\ AllSound'
    BY DEF IInv, Alone, AllSound, Panic, Active, Uses, Open
<1> QED BY <1>2, <1>3, <1>4 DEF IInv

\* No entry is the absence of one.
LEMMA EntryIsSome == \A e \in Entry : e # None
<1> SUFFICES ASSUME NEW e \in Entry, e = None PROVE FALSE
    OBVIOUS
<1>1. "name" \in DOMAIN e
    BY DEF Entry
<1>2. DOMAIN None = {"none"}
    BY DEF None
<1> QED BY <1>1, <1>2

\* A handle is opened.
LEMMA OpendirKeeps ==
    ASSUME IInv, NEW h \in Handles, Opendir(h)
    PROVE  IInv'
<1> DEFINE alone == \A g \in Handles : ~Open(g)
<1>1. /\ front = "fuse" /\ panicked = None /\ ~Open(h) /\ UNCHANGED <<front, dir, table, panicked>>
      /\ handle' = Overlap(h, Listing("open", 0, alone))
    BY DEF Opendir
<1>2. ~Uses(h) /\ panicked' = None /\ table' \in {table, None} /\ alone \in BOOLEAN
    BY <1>1 DEF Uses
<1>3. "open" \in States \ {"read", "push", "done"}
    BY <1>1 DEF States
<1>4. alone => table' = None /\ \A g \in Handles \ {h} : ~Uses(g)
    BY <1>1 DEF IInv, TableReleased, Uses
<1> HIDE DEF alone
<1> QED BY <1>1, <1>2, <1>3, <1>4, Begins

\* A handle is closed.
LEMMA ReleasedirKeeps ==
    ASSUME IInv, NEW h \in Handles, Releasedir(h)
    PROVE  IInv'
<1>1. /\ front = "fuse" /\ panicked' = None /\ UNCHANGED <<front, dir>> /\ Uses(h) /\ table' = None
      /\ handle' = [handle EXCEPT ![h] = NoListing]
    BY DEF Releasedir, Uses
<1>2. handle \in [Handles -> Listings \cup {NoListing}]
    BY DEF IInv, TypeOK
<1>3. /\ handle' \in [Handles -> Listings \cup {NoListing}] /\ handle'[h] = NoListing
      /\ \A g \in Handles \ {h} : handle'[g] = handle[g]
    BY <1>1, <1>2
<1>4. Sound(NoListing, table', dir) /\ ~Going(NoListing)
    BY ClosedSound
<1> QED BY <1>1, <1>3, <1>4, OneChanges

\* A listing starts again from the first name, with the table as it is.
LEMMA RewindKeeps ==
    ASSUME IInv, NEW h \in Handles, Rewind(h)
    PROVE  IInv'
<1> DEFINE l == Listing("open", 0, FALSE)
<1>1. /\ front = "fuse" /\ panicked' = None /\ UNCHANGED <<front, dir, table>> /\ Uses(h)
      /\ handle' = [handle EXCEPT ![h] = l]
    BY DEF Rewind, Uses
<1>2. /\ handle \in [Handles -> Listings \cup {NoListing}] /\ table' \in Entry \cup {None}
      /\ dir \subseteq Names
    BY <1>1 DEF IInv, TypeOK
<1>3. l \in Listings
    BY <1>1, <1>2 DEF Listing, Listings, States
<1>4. l.st = "open" /\ l.plain = FALSE /\ l.stable = dir
    BY DEF Listing
<1> HIDE DEF l
<1>5. /\ handle' \in [Handles -> Listings \cup {NoListing}] /\ handle'[h] = l
      /\ \A g \in Handles \ {h} : handle'[g] = handle[g]
    BY <1>1, <1>2, <1>3
<1>6. Sound(l, table', dir)
    BY <1>4 DEF Sound
<1> QED BY <1>1, <1>2, <1>3, <1>4, <1>5, <1>6, OneChanges

\* A thread begins to list.
LEMMA ListBeginKeeps ==
    ASSUME IInv, NEW h \in Handles, NEW room \in Rooms, ListBegin(h, room)
    PROVE  IInv'
<1> DEFINE alone == \A g \in Handles \ {h} : ~Active(g)
<1>1. /\ front = "rvfs" /\ panicked = None /\ ~Active(h) /\ UNCHANGED <<front, dir, panicked>>
      /\ table' = None /\ handle' = Overlap(h, Listing("tx", room, alone))
    BY DEF ListBegin
<1>2. ~Uses(h) /\ panicked' = None /\ table' \in {table, None} /\ alone \in BOOLEAN
    BY <1>1 DEF Uses
<1>3. "tx" \in States \ {"read", "push", "done"}
    BY <1>1 DEF States
<1>4. alone => table' = None /\ \A g \in Handles \ {h} : ~Uses(g)
    BY <1>1 DEF Uses
<1>5. room \in Nat
    BY ReadDirAssumption
<1> HIDE DEF alone
<1> QED BY <1>1, <1>2, <1>3, <1>4, <1>5, Begins

\* A listing that goes on is of a handle that uses the table.
LEMMA GoingIs ==
    ASSUME IInv, NEW h \in Handles, handle[h].st \notin {"closed", "done"}
    PROVE  /\ Uses(h) /\ Going(handle[h]) /\ handle[h] \in Listings /\ Sound(handle[h], table, dir)
           /\ front = "rvfs" => Len(handle[h].list) <= handle[h].room
<1>1. Active(h) /\ Open(h) /\ Going(handle[h])
    BY DEF Active, Open, Going
<1>2. handle[h] \in Listings
    BY <1>1, OpenIs DEF IInv
<1> QED BY <1>1, <1>2 DEF Uses, IInv, AllSound, TypeOK

\* A thread takes its snapshot of the directory.
LEMMA ListTxKeeps ==
    ASSUME IInv, NEW h \in Handles, ListTx(h)
    PROVE  IInv'
<1> DEFINE l == handle[h]
           m == [l EXCEPT !.st = "read", !.snap = dir]
<1>1. /\ front = "rvfs" /\ panicked' = None /\ UNCHANGED <<front, dir, table>> /\ l.st = "tx"
      /\ handle' = [handle EXCEPT ![h].st = "read", ![h].snap = dir]
    BY DEF ListTx
<1>2. /\ handle \in [Handles -> Listings \cup {NoListing}] /\ table' \in Entry \cup {None}
      /\ dir \subseteq Names
    BY <1>1 DEF IInv, TypeOK
<1>3. Uses(h) /\ Going(l) /\ l \in Listings /\ Sound(l, table, dir) /\ Len(l.list) <= l.room
    BY <1>1, GoingIs
<1>4. m \in Listings
    BY <1>1, <1>2, <1>3 DEF Listings, States
<1>5. /\ m.st = "read" /\ m.snap = dir /\ m.pos = l.pos /\ m.room = l.room /\ m.list = l.list
      /\ m.last = l.last /\ m.stable = l.stable /\ m.plain = l.plain
    BY <1>3 DEF Listings
<1>6. handle' = [handle EXCEPT ![h] = m]
    BY <1>1, <1>2
<1> HIDE DEF m
<1>7. /\ handle' \in [Handles -> Listings \cup {NoListing}] /\ handle'[h] = m
      /\ \A g \in Handles \ {h} : handle'[g] = handle[g]
    BY <1>2, <1>4, <1>6
<1>8. Stands(l, table) => Stands(m, table)
    BY <1>5 DEF Stands
<1>9. Sound(m, table', dir)
    BY <1>1, <1>3, <1>5, <1>8 DEF Sound, Going, Mark
<1> QED BY <1>1, <1>2, <1>3, <1>4, <1>5, <1>7, <1>9, OneChanges

\* A thread puts the entry where it stands in the table.
LEMMA ListPushKeeps ==
    ASSUME IInv, NEW h \in Handles, ListPush(h)
    PROVE  IInv'
<1> DEFINE l == handle[h]
           m == [l EXCEPT !.st = "tx", !.last = None]
<1>1. /\ front = "rvfs" /\ panicked' = None /\ UNCHANGED <<front, dir>> /\ l.st = "push"
      /\ table' = l.last /\ handle' = [handle EXCEPT ![h].st = "tx", ![h].last = None]
    BY DEF ListPush
<1>2. handle \in [Handles -> Listings \cup {NoListing}]
    BY DEF IInv, TypeOK
<1>3. Uses(h) /\ Going(l) /\ l \in Listings /\ Sound(l, table, dir) /\ Len(l.list) <= l.room
    BY <1>1, GoingIs
<1>4. m \in Listings
    BY <1>1, <1>3 DEF Listings, States
<1>5. /\ m.st = "tx" /\ m.snap = l.snap /\ m.pos = l.pos /\ m.room = l.room /\ m.list = l.list
      /\ m.stable = l.stable /\ m.plain = l.plain
    BY <1>3 DEF Listings
<1>6. handle' = [handle EXCEPT ![h] = m]
    BY <1>1, <1>2
<1>7. l.last \in Entry /\ table' \in Entry \cup {None}
    BY <1>1, <1>3 DEF Sound
<1> HIDE DEF m
<1>8. /\ handle' \in [Handles -> Listings \cup {NoListing}] /\ handle'[h] = m
      /\ \A g \in Handles \ {h} : handle'[g] = handle[g]
    BY <1>2, <1>4, <1>6
<1>9. Stands(l, l.last) => Stands(m, l.last)
    BY <1>5 DEF Stands
<1>10. Sound(m, table', dir)
    BY <1>1, <1>3, <1>5, <1>9 DEF Sound, Going, Mark
<1> QED BY <1>1, <1>3, <1>4, <1>5, <1>7, <1>8, <1>10, OneChanges

\* A name is added.
LEMMA CreateKeeps ==
    ASSUME IInv, NEW n \in Names, Create(n)
    PROVE  IInv'
<1>1. /\ panicked' = None /\ dir' = dir \cup {n} /\ UNCHANGED <<front, table, handle>>
    BY DEF Create
<1>2. Listings' = Listings
    BY <1>1 DEF Listings, States
<1>3. TypeOK' /\ TableReleased'
    BY <1>1, <1>2 DEF IInv, TypeOK, TableReleased, Open
<1>4. PanicHasCause' /\ Alone'
    BY <1>1 DEF IInv, PanicHasCause, Alone, Active, Uses, Open
<1>5. AllSound'
    BY <1>1, Created DEF IInv, AllSound
<1> QED BY <1>3, <1>4, <1>5 DEF IInv

\* A name is removed.
LEMMA UnlinkKeeps ==
    ASSUME IInv, NEW n \in Names, Unlink(n)
    PROVE  IInv'
<1>1. /\ panicked' = None /\ dir' = dir \ {n} /\ n \notin Dots /\ UNCHANGED <<front, table>>
      /\ handle' = [h \in Handles |->
            IF Active(h) THEN [handle[h] EXCEPT !.stable = @ \ {n}] ELSE handle[h]]
    BY DEF Unlink
<1>2. TypeOK /\ AllSound
    BY DEF IInv
<1>3. ASSUME NEW h \in Handles
      PROVE  /\ handle'[h] \in Listings \cup {NoListing} /\ Sound(handle'[h], table, dir \ {n})
             /\ handle'[h].st = handle[h].st
             /\ Going(handle[h]) => handle'[h].plain = handle[h].plain
             /\ Open(h) => handle'[h].list = handle[h].list /\ handle'[h].room = handle[h].room
    <2>1. Sound(handle[h], table, dir) /\ handle[h] \in Listings \cup {NoListing}
        BY <1>2 DEF AllSound, TypeOK
    <2>2. CASE Active(h)
        <3>1. handle[h] \in Listings /\ Going(handle[h])
            BY <1>2, <2>2, OpenIs
        <3>2. handle'[h] = [handle[h] EXCEPT !.stable = @ \ {n}]
            BY <1>1, <2>2
        <3> QED BY <2>1, <3>1, <3>2, Removed
    <2>3. CASE ~Active(h)
        <3>1. handle'[h] = handle[h] /\ ~Going(handle[h])
            BY <1>1, <1>2, <2>3, OpenIs
        <3>2. Sound(handle[h], table, dir \ {n})
            BY <2>1, <3>1 DEF Sound, Going
        <3> QED BY <2>1, <3>1, <3>2
    <2> QED BY <2>2, <2>3
<1>4. \A h \in Handles : (Open(h)' <=> Open(h)) /\ (Active(h)' <=> Active(h)) /\ (Uses(h)' <=> Uses(h))
    BY <1>1, <1>3 DEF Open, Active, Uses
<1>5. TypeOK'
    <2>1. Listings' = Listings
        BY <1>1 DEF Listings, States
    <2>2. handle' \in [Handles -> Listings \cup {NoListing}]
        <3>1. handle' = [h \in Handles |-> handle'[h]]
            BY <1>1
        <3> QED BY <1>3, <3>1
    <2>3. front' = "rvfs" => \A h \in Handles : Open(h)' => Len(handle'[h].list) <= handle'[h].room
        BY <1>1, <1>2, <1>3, <1>4 DEF TypeOK
    <2> QED BY <1>1, <1>2, <2>1, <2>2, <2>3 DEF TypeOK
<1>6. PanicHasCause' /\ TableReleased'
    BY <1>1, <1>4 DEF IInv, PanicHasCause, TableReleased
<1>7. Alone'
    <2>1. \A h \in Handles : Active(h) => handle'[h].plain = handle[h].plain
        BY <1>2, <1>3, OpenIs
    <2> QED BY <1>4, <2>1 DEF IInv, Alone
<1>8. AllSound'
    BY <1>1, <1>3 DEF AllSound
<1> QED BY <1>5, <1>6, <1>7, <1>8 DEF IInv

\* The program is started again.
LEMMA MountKeeps ==
    ASSUME IInv, Mount
    PROVE  IInv'
<1>1. /\ panicked' = None /\ table' = None /\ handle' = [h \in Handles |-> NoListing]
      /\ UNCHANGED <<front, dir>>
    BY DEF Mount
<1>2. \A h \in Handles : handle'[h] = NoListing /\ ~Open(h)' /\ ~Active(h)'
    BY <1>1 DEF Open, Active, NoListing
<1>3. TypeOK'
    <2>1. Listings' = Listings
        BY <1>1 DEF Listings, States
    <2> QED BY <1>1, <1>2, <2>1 DEF IInv, TypeOK
<1>4. PanicHasCause' /\ TableReleased' /\ Alone'
    BY <1>1, <1>2 DEF PanicHasCause, TableReleased, Alone
<1>5. AllSound'
    BY <1>2, ClosedSound DEF AllSound
<1> QED BY <1>3, <1>4, <1>5 DEF IInv

\* The last of some entries is one.
LEMMA LastIs ==
    ASSUME NEW e \in Seq(Entry), e # <<>>
    PROVE  Last(e) \in Entry /\ Last(e).offset \in Nat
<1>1. Len(e) \in 1..Len(e)
    OBVIOUS
<1>2. Last(e) \in Entry
    BY <1>1 DEF Last
<1> QED BY <1>2 DEF Entry

\* A list with more names behind it.
LEMMA Appended ==
    ASSUME NEW a \in Seq(Names), NEW b \in Seq(Names)
    PROVE  a \o b \in Seq(Names) /\ Len(a \o b) = Len(a) + Len(b)
OBVIOUS

\* A thread reads the entries behind the table's.
LEMMA ListReadKeeps ==
    ASSUME IInv, NEW h \in Handles, ListRead(h)
    PROVE  IInv'
<1> DEFINE l == handle[h]
           ents == Entries(l.pos, l.snap)
           left == l.room - Len(l.list)
           got == Fitting(ents, left)
           ends == Len(ents) < Chunk \/ Len(ents) > left
           new == l.list \o NamesOf(got)
           m == [l EXCEPT !.st = IF ends THEN "done" ELSE "push",
                          !.pos = IF ends THEN @ ELSE @ + Len(ents),
                          !.list = @ \o NamesOf(got),
                          !.snap = {},
                          !.last = IF ends THEN None ELSE Last(ents),
                          !.plain = @ /\ Len(ents) <= left]
<1>1. front = "rvfs" /\ panicked = None /\ l.st = "read"
    BY DEF ListRead
<1>2. Uses(h) /\ Going(l) /\ l \in Listings /\ Sound(l, table, dir) /\ Len(l.list) <= l.room
    BY <1>1, GoingIs
<1>3. CASE Panics(l.pos, l.snap)
    <2>1. Panic(h)
        BY <1>3 DEF ListRead
    <2> QED BY <1>1, <1>2, <1>3, <2>1, Panicking
<1>4. CASE ~Panics(l.pos, l.snap)
    <2>1. /\ panicked' = None /\ UNCHANGED <<front, dir, table>>
          /\ handle' = [handle EXCEPT
                    ![h].st = IF ends THEN "done" ELSE "push",
                    ![h].pos = IF ends THEN @ ELSE @ + Len(ents),
                    ![h].list = @ \o NamesOf(Fitting(ents, left)),
                    ![h].snap = {},
                    ![h].last = IF ends THEN None ELSE Last(ents),
                    ![h].plain = @ /\ Len(ents) <= left]
        BY <1>1, <1>4 DEF ListRead
    <2>2. /\ handle \in [Handles -> Listings \cup {NoListing}] /\ table \in Entry \cup {None}
          /\ table' \in Entry \cup {None}
        BY <2>1 DEF IInv, TypeOK
    <2>3. handle' = [handle EXCEPT ![h] = m]
        BY <2>1, <2>2
    <2>4. /\ l.pos \in Nat /\ l.room \in Nat /\ l.list \in Seq(Names) /\ l.snap \in SUBSET Names
          /\ l.stable \in SUBSET Names /\ l.plain \in BOOLEAN
        BY <1>2 DEF Listings
    <2>5. left \in Nat /\ Len(l.list) + left = l.room
        BY <1>2, <2>4
    <2>6. Lists(ents, l.pos, Behind(l.snap))
        BY <2>4, EntriesAre
    <2>7. /\ m.st = (IF ends THEN "done" ELSE "push") /\ m.snap = {} /\ m.list = new
          /\ m.pos = (IF ends THEN l.pos ELSE l.pos + Len(ents)) /\ m.room = l.room
          /\ m.last = (IF ends THEN None ELSE Last(ents)) /\ m.stable = l.stable
          /\ m.plain = (l.plain /\ Len(ents) <= left)
        BY <1>2 DEF Listings
    <2>8. DOMAIN m = DOMAIN l /\ m = [x \in DOMAIN l |-> m[x]]
        BY <1>2 DEF Listings
    <2> HIDE DEF m, ents, left
    <2>9. ents \in Seq(Entry) /\ Len(ents) \in Nat
        BY <2>6 DEF Lists
    <2>10. got \in Seq(Entry) /\ Len(got) <= left /\ (Len(ents) <= left => got = ents)
        BY <2>5, <2>9, FittingIs
    <2> HIDE DEF got
    <2>11. NamesOf(got) \in Seq(Names) /\ Len(NamesOf(got)) = Len(got)
        BY <2>10, NamesAre
    <2>12. new \in Seq(Names) /\ Len(new) = Len(l.list) + Len(got)
        BY <2>4, <2>11, Appended
    <2> HIDE DEF new
    <2>13. Len(new) <= l.room
        <3>1. Len(got) \in Nat /\ Len(l.list) \in Nat
            BY <2>4, <2>10
        <3> QED BY <2>4, <2>5, <2>10, <2>12, <3>1
    <2>14. ~ends => ents # <<>> /\ Last(ents) \in Entry
        <3>1. ~ends => Len(ents) # 0
            BY <2>9, ReadDirAssumption
        <3>2. ents = <<>> => Len(ents) = 0
            OBVIOUS
        <3> HIDE DEF ends
        <3> QED BY <2>9, <3>1, <3>2, LastIs
    <2>15. m.plain => Extended(l, ents, new)
        <3> SUFFICES ASSUME m.plain PROVE Extended(l, ents, new)
            OBVIOUS
        <3>1. l.plain /\ new = l.list \o NamesOf(ents)
            BY <2>7, <2>10 DEF new
        <3>2. Stands(l, table) /\ l.stable \subseteq l.snap
            BY <1>1, <1>2, <3>1 DEF Sound, Mark
        <3> QED BY <2>2, <2>4, <3>1, <3>2, Continues DEF ents
    <2>16. ~ends => Len(ents) <= left
        BY <2>5, <2>9
    <2> HIDE DEF ends
    <2>17. m \in Listings
        <3>1. /\ m.st \in States /\ m.pos \in Nat /\ m.room \in Nat /\ m.list \in Seq(Names)
              /\ m.snap \in SUBSET Names /\ m.last \in Entry \cup {None} /\ m.stable \in SUBSET Names
              /\ m.plain \in BOOLEAN
            BY <1>1, <2>4, <2>7, <2>9, <2>12, <2>14 DEF States
        <3>2. DOMAIN l = {"st", "pos", "room", "list", "snap", "last", "stable", "plain"}
            BY <1>2 DEF Listings
        <3> QED BY <2>8, <3>1, <3>2 DEF Listings
    <2>18. /\ handle' \in [Handles -> Listings \cup {NoListing}] /\ handle'[h] = m
           /\ \A g \in Handles \ {h} : handle'[g] = handle[g]
        BY <2>2, <2>3, <2>17
    <2>19. Sound(m, table', dir)
        <3>1. CASE ends
            <4>1. m.st = "done"
                BY <2>7, <3>1
            <4>2. m.plain => Exact(m)
                BY <2>7, <2>15, IncreasingOnce DEF Extended, Exact
            <4> QED BY <4>1, <4>2 DEF Sound, Going
        <3>2. CASE ~ends
            <4>1. m.st = "push" /\ m.last = Last(ents) /\ m.pos = l.pos + Len(ents)
                BY <2>7, <3>2
            <4>2. m.stable \subseteq dir
                BY <1>2, <2>7 DEF Sound
            <4>3. m.plain => Stands(m, m.last)
                <5> SUFFICES ASSUME m.plain PROVE Stands(m, m.last)
                    OBVIOUS
                <5>1. Extended(l, ents, new) /\ m.last # None
                    BY <2>14, <2>15, <3>2, <4>1, EntryIsSome
                <5> QED BY <2>7, <2>14, <3>2, <4>1, <5>1 DEF Extended, Stands
            <4> QED BY <2>14, <3>2, <4>1, <4>2, <4>3 DEF Sound, Going, Mark
        <3> QED BY <3>1, <3>2
    <2>20. Len(m.list) <= m.room /\ (Going(m) /\ m.plain => Going(l) /\ l.plain) /\ m.st # "closed"
        BY <1>2, <2>7, <2>13
    <2> QED BY <1>1, <1>2, <2>1, <2>2, <2>17, <2>18, <2>19, <2>20, OneChanges
<1> QED BY <1>3, <1>4

\* The entries that fit a reply are delivered.
LEMMA ReaddirKeeps ==
    ASSUME IInv, NEW h \in Handles, NEW room \in Rooms, Readdir(h, room)
    PROVE  IInv'
<1> DEFINE l == handle[h]
           ents == Entries(l.pos, dir)
           got == Fitting(ents, room)
<1>1. front = "fuse" /\ panicked = None /\ l.st = "open"
    BY DEF Readdir
<1>2. Uses(h) /\ Going(l) /\ l \in Listings /\ Sound(l, table, dir)
    BY <1>1, GoingIs
<1>3. /\ handle \in [Handles -> Listings \cup {NoListing}] /\ table \in Entry \cup {None}
      /\ dir \in SUBSET Names
    BY DEF IInv, TypeOK
<1>4. /\ l.pos \in Nat /\ l.room \in Nat /\ l.list \in Seq(Names) /\ l.snap \in SUBSET Names
      /\ l.last \in Entry \cup {None} /\ l.stable \in SUBSET Names /\ l.plain \in BOOLEAN
    BY <1>2 DEF Listings
<1>5. room \in Nat /\ room # 0
    BY ReadDirAssumption
<1>6. Lists(ents, l.pos, Behind(dir))
    BY <1>3, <1>4, EntriesAre
<1>7. ents \in Seq(Entry) /\ Len(ents) \in Nat
    BY <1>6 DEF Lists
<1>8. /\ got \in Seq(Entry) /\ (Len(ents) <= room => got = ents)
      /\ (ents # <<>> => got # <<>>)
    BY <1>5, <1>7, FittingIs
<1>9. NamesOf(got) \in Seq(Names)
    BY <1>8, NamesAre
<1>10. l.list \o NamesOf(got) \in Seq(Names)
    BY <1>4, <1>9, Appended
<1>11. l.plain /\ Len(ents) <= room => Extended(l, ents, l.list \o NamesOf(got))
    <2> SUFFICES ASSUME l.plain, Len(ents) <= room
                 PROVE  Extended(l, ents, l.list \o NamesOf(ents))
        BY <1>8
    <2>1. Stands(l, table) /\ l.stable \subseteq dir
        BY <1>1, <1>2 DEF Sound, Mark
    <2> QED BY <1>3, <1>4, <2>1, Continues
<1>12. CASE Panics(l.pos, dir)
    <2>1. Panic(h)
        BY <1>12 DEF Readdir
    <2> QED BY <1>1, <1>2, <1>12, <2>1, Panicking
<1>13. CASE ~Panics(l.pos, dir) /\ ents = <<>>
    <2> DEFINE m == [l EXCEPT !.st = "done"]
    <2>1. /\ panicked' = None /\ UNCHANGED <<front, dir, table>>
          /\ handle' = [handle EXCEPT ![h].st = "done"]
        BY <1>1, <1>13 DEF Readdir
    <2>2. m \in Listings
        BY <1>1, <1>2 DEF Listings, States
    <2>3. /\ m.st = "done" /\ m.list = l.list /\ m.stable = l.stable /\ m.plain = l.plain
        BY <1>2 DEF Listings
    <2>4. handle' = [handle EXCEPT ![h] = m]
        BY <2>1, <1>3
    <2> HIDE DEF m, got, ents
    <2>5. /\ handle' \in [Handles -> Listings \cup {NoListing}] /\ handle'[h] = m
          /\ \A g \in Handles \ {h} : handle'[g] = handle[g]
        BY <1>3, <2>2, <2>4
    <2>6. m.plain => Exact(m)
        <3> SUFFICES ASSUME m.plain PROVE Exact(m)
            OBVIOUS
        <3>1. Len(ents) = 0 /\ got = ents
            BY <1>5, <1>8, <1>13
        <3>2. NamesOf(got) = <<>>
            <4>1. Len(NamesOf(got)) = 0
                BY <1>8, <3>1, NamesAre
            <4> QED BY <1>9, <4>1
        <3>3. l.list \o NamesOf(got) = l.list
            BY <1>4, <3>2
        <3>4. Extended(l, ents, l.list)
            BY <1>5, <1>11, <2>3, <3>1, <3>3
        <3> QED BY <2>3, <3>4, IncreasingOnce DEF Extended, Exact
    <2>7. Sound(m, table', dir) /\ ~Going(m)
        BY <2>3, <2>6 DEF Sound, Going
    <2> QED BY <1>1, <1>2, <1>3, <2>1, <2>2, <2>3, <2>5, <2>7, OneChanges
<1>14. CASE ~Panics(l.pos, dir) /\ ents # <<>>
    <2> DEFINE m == [l EXCEPT !.pos = Last(got).offset + 1,
                              !.list = @ \o NamesOf(got),
                              !.plain = @ /\ Len(ents) <= room]
    <2>1. /\ panicked' = None /\ UNCHANGED <<front, dir>>
          /\ table' = (IF Len(ents) <= room THEN Last(ents) ELSE ents[room + 1])
          /\ handle' = [handle EXCEPT
                    ![h].pos = Last(got).offset + 1,
                    ![h].list = @ \o NamesOf(got),
                    ![h].plain = @ /\ Len(ents) <= room]
        BY <1>1, <1>14 DEF Readdir
    <2>2. handle' = [handle EXCEPT ![h] = m]
        BY <1>3, <2>1
    <2>3. /\ m.st = "open" /\ m.pos = Last(got).offset + 1 /\ m.room = l.room
          /\ m.list = l.list \o NamesOf(got) /\ m.snap = l.snap /\ m.last = l.last
          /\ m.stable = l.stable /\ m.plain = (l.plain /\ Len(ents) <= room)
        BY <1>1, <1>2 DEF Listings
    <2>4. DOMAIN m = DOMAIN l /\ m = [x \in DOMAIN l |-> m[x]]
        BY <1>2 DEF Listings
    <2> HIDE DEF m, got, ents
    <2>5. Last(got) \in Entry /\ Last(got).offset \in Nat
        BY <1>8, <1>14, LastIs
    <2>6. m \in Listings
        <3>1. /\ m.st \in States /\ m.pos \in Nat /\ m.room \in Nat /\ m.list \in Seq(Names)
              /\ m.snap \in SUBSET Names /\ m.last \in Entry \cup {None} /\ m.stable \in SUBSET Names
              /\ m.plain \in BOOLEAN
            BY <1>1, <1>4, <1>10, <2>3, <2>5 DEF States
        <3>2. DOMAIN l = {"st", "pos", "room", "list", "snap", "last", "stable", "plain"}
            BY <1>2 DEF Listings
        <3> QED BY <2>4, <3>1, <3>2 DEF Listings
    <2>7. /\ handle' \in [Handles -> Listings \cup {NoListing}] /\ handle'[h] = m
          /\ \A g \in Handles \ {h} : handle'[g] = handle[g]
        BY <1>3, <2>2, <2>6
    <2>8. table' \in Entry
        <3>1. CASE Len(ents) <= room
            BY <1>7, <1>14, <2>1, <3>1, LastIs
        <3>2. CASE ~(Len(ents) <= room)
            <4>1. room + 1 \in 1..Len(ents)
                BY <1>5, <1>7, <3>2
            <4> QED BY <1>7, <2>1, <3>2, <4>1
        <3> QED BY <3>1, <3>2
    <2>9. Going(m) /\ (Going(m) /\ m.plain => Going(l) /\ l.plain) /\ m.st # "closed"
        BY <1>2, <2>3 DEF Going
    <2>10. m.plain => Stands(m, table')
        <3> SUFFICES ASSUME m.plain PROVE Stands(m, table')
            OBVIOUS
        <3>1. l.plain /\ Len(ents) <= room
            BY <2>3
        <3>2. Extended(l, ents, m.list) /\ table' = Last(ents) /\ got = ents
            BY <1>8, <1>11, <2>1, <2>3, <3>1
        <3>3. table' # None
            BY <2>8, EntryIsSome
        <3> QED BY <1>14, <2>3, <3>2, <3>3 DEF Extended, Stands
    <2>11. Sound(m, table', dir)
        <3>1. m.stable \subseteq dir
            BY <1>2, <2>3 DEF Sound
        <3> QED BY <2>3, <2>10, <3>1 DEF Sound, Mark
    <2> QED BY <1>1, <1>2, <2>1, <2>6, <2>7, <2>8, <2>9, <2>11, OneChanges
<1> QED BY <1>12, <1>13, <1>14

-----------------------------------------------------------------------------
(* Theorems *)

\* No listing has begun.
LEMMA InitInv == Init => IInv
<1> SUFFICES ASSUME Init PROVE IInv
    OBVIOUS
<1>1. \A h \in Handles : handle[h] = NoListing /\ ~Open(h) /\ ~Active(h)
    BY DEF Init, Open, Active, NoListing
<1>2. TypeOK
    BY <1>1, ReadDirAssumption DEF Init, TypeOK
<1>3. PanicHasCause /\ TableReleased /\ Alone
    BY <1>1 DEF Init, PanicHasCause, TableReleased, Alone
<1>4. AllSound
    BY <1>1, ClosedSound DEF AllSound
<1> QED BY <1>2, <1>3, <1>4 DEF IInv

\* Every step of a handle, of a thread or of the directory keeps the invariant.
LEMMA StepKeeps == IInv /\ [Next]_vars => IInv'
<1> SUFFICES ASSUME IInv, [Next]_vars PROVE IInv'
    OBVIOUS
<1>1. ASSUME NEW h \in Handles,
             \/ Opendir(h) \/ Releasedir(h) \/ Rewind(h)
             \/ \E room \in Rooms : Readdir(h, room)
             \/ \E room \in Rooms : ListBegin(h, room)
             \/ ListTx(h) \/ ListRead(h) \/ ListPush(h)
      PROVE  IInv'
    BY <1>1, OpendirKeeps, ReleasedirKeeps, RewindKeeps, ReaddirKeeps, ListBeginKeeps, ListTxKeeps,
       ListReadKeeps, ListPushKeeps
<1>2. ASSUME NEW n \in Names, Create(n) \/ Unlink(n) PROVE IInv'
    BY <1>2, CreateKeeps, UnlinkKeeps
<1>3. CASE Mount
    BY <1>3, MountKeeps
<1>4. CASE UNCHANGED vars
    BY <1>4 DEF vars, IInv, TypeOK, PanicHasCause, TableReleased, Alone, AllSound, Uses, Open, Active,
       Listings, States
<1> QED BY <1>1, <1>2, <1>3, <1>4 DEF Next

\* Each listing that is plain and goes on stands where it will continue, in the table
\* or in the hands of its thread, and nobody else uses the table meanwhile.
THEOREM ListingInvariant == Spec => []IInv
<1> QED BY InitInv, StepKeeps, PTL DEF Spec

\* Every plain listing that has ended has each name once at most and each name that
\* was there all the time: dbfs_common_readdir continues behind the table's entry
\* whatever names came and went between the calls.
THEOREM PlainListingTheorem == Spec => []PlainListingExact
<1>1. IInv => PlainListingExact
    BY DEF IInv, AllSound, Sound, Exact, PlainListingExact
<1> QED BY <1>1, ListingInvariant, PTL

\* For a plain listing the assertions of dbfs_common_readdir fail only when the entry
\* that the table names was removed.
THEOREM PanicTheorem == Spec => []PanicHasCause
<1>1. IInv => PanicHasCause
    BY DEF IInv
<1> QED BY <1>1, ListingInvariant, PTL

\* Nothing is left in the table once the last handle is closed.
THEOREM TableTheorem == Spec => []TableReleased
<1>1. IInv => TableReleased
    BY DEF IInv
<1> QED BY <1>1, ListingInvariant, PTL

-----------------------------------------------------------------------------
(* Progress *)

\* Listing m is what a step leaves of listing l: it is no further from its end.
Advanced(l, m) ==
    /\ Rank(m) >= 0
    /\ IF m.st = l.st THEN Rank(m) = Rank(l) ELSE Rank(m) < Rank(l)

\* A step that leaves the state, the list and the room of a listing as they are.
LEMMA StandsStill ==
    ASSUME NEW l \in Listings, Len(l.list) <= l.room,
           NEW m, m.st = l.st, m.list = l.list, m.room = l.room
    PROVE  Advanced(l, m)
<1>1. l.room \in Nat /\ Len(l.list) \in Nat
    BY DEF Listings
<1>2. Rank(m) = Rank(l)
    BY DEF Rank
<1>3. PICK c \in 1..3 : Rank(l) = 3 * (l.room - Len(l.list)) + c
    BY DEF Rank
<1>4. l.room - Len(l.list) \in Nat
    BY <1>1
<1>5. Rank(l) >= 0
    BY <1>3, <1>4
<1> QED BY <1>2, <1>5 DEF Advanced

\* From the push to the snapshot, and from the snapshot to the read.
LEMMA StepsOn ==
    ASSUME NEW l \in Listings, Len(l.list) <= l.room,
           NEW m, m.list = l.list, m.room = l.room,
           <<l.st, m.st>> \in {<<"push", "tx">>, <<"tx", "read">>}
    PROVE  Advanced(l, m)
<1>1. PICK k \in Nat : k = l.room - Len(l.list)
    <2>1. l.room \in Nat /\ Len(l.list) \in Nat
        BY DEF Listings
    <2> QED BY <2>1
<1>2. \/ Rank(l) = 3 * k + 3 /\ Rank(m) = 3 * k + 2
      \/ Rank(l) = 3 * k + 2 /\ Rank(m) = 3 * k + 1
    BY <1>1 DEF Rank
<1>3. Rank(m) >= 0 /\ Rank(m) < Rank(l)
    BY <1>2
<1> QED BY <1>3 DEF Advanced

\* A read that lengthens the list.
LEMMA ReadsOn ==
    ASSUME NEW l \in Listings, l.st = "read", NEW m, m.st = "push", m.room = l.room,
           NEW n \in Nat \ {0}, Len(m.list) = Len(l.list) + n, Len(m.list) <= m.room
    PROVE  Advanced(l, m)
<1>1. PICK a \in Nat, r \in Nat : a = Len(l.list) /\ r = l.room
    BY DEF Listings
<1>2. Rank(l) = 3 * (r - a) + 1 /\ Rank(m) = 3 * (r - (a + n)) + 3 /\ a + n <= r
    BY <1>1 DEF Rank
<1>3. Rank(m) >= 0 /\ Rank(m) < Rank(l)
    BY <1>2
<1> QED BY <1>3 DEF Advanced

\* A read that does not end the listing brings a full chunk, which the buffer holds.
LEMMA ListReadAdvances ==
    ASSUME IInv, NEW h \in Handles, ListRead(h), Active(h)'
    PROVE  Advanced(handle[h], handle'[h])
<1> DEFINE l == handle[h]
           ents == Entries(l.pos, l.snap)
           left == l.room - Len(l.list)
           got == Fitting(ents, left)
           ends == Len(ents) < Chunk \/ Len(ents) > left
<1>1. front = "rvfs" /\ l.st = "read"
    BY DEF ListRead
<1>2. l \in Listings /\ Len(l.list) <= l.room
    BY <1>1, GoingIs
<1>3. /\ handle \in [Handles -> Listings \cup {NoListing}] /\ table \in Entry \cup {None}
    BY DEF IInv, TypeOK
<1>4. /\ l.pos \in Nat /\ l.room \in Nat /\ l.list \in Seq(Names) /\ l.snap \in SUBSET Names
    BY <1>2 DEF Listings
<1>5. CASE Panics(l.pos, l.snap)
    <2>1. handle' = handle
        BY <1>5 DEF ListRead, Panic
    <2> QED BY <1>2, <2>1, StandsStill
<1>6. CASE ~Panics(l.pos, l.snap)
    <2>1. handle' = [handle EXCEPT
                    ![h].st = IF ends THEN "done" ELSE "push",
                    ![h].pos = IF ends THEN @ ELSE @ + Len(ents),
                    ![h].list = @ \o NamesOf(Fitting(ents, left)),
                    ![h].snap = {},
                    ![h].last = IF ends THEN None ELSE Last(ents),
                    ![h].plain = @ /\ Len(ents) <= left]
        BY <1>6 DEF ListRead
    <2>2. /\ handle'[h].st = (IF ends THEN "done" ELSE "push") /\ handle'[h].room = l.room
          /\ handle'[h].list = l.list \o NamesOf(got)
        BY <1>2, <1>3, <2>1 DEF Listings
    <2>3. ~ends
        BY <2>2 DEF Active
    <2>4. left \in Nat /\ Len(l.list) + left = l.room
        BY <1>2, <1>4
    <2>5. ents \in Seq(Entry) /\ Len(ents) \in Nat
        BY <1>4, EntriesAre DEF Lists
    <2> HIDE DEF ents, left
    <2>6. Len(ents) <= left /\ Len(ents) \in Nat \ {0}
        BY <2>3, <2>4, <2>5, ReadDirAssumption
    <2> HIDE DEF ends
    <2>7. got = ents
        BY <2>4, <2>5, <2>6, FittingIs
    <2>8. NamesOf(ents) \in Seq(Names) /\ Len(NamesOf(ents)) = Len(ents)
        BY <2>5, NamesAre
    <2>9. Len(handle'[h].list) = Len(l.list) + Len(ents)
        <3>1. handle'[h].list = l.list \o NamesOf(ents)
            BY <2>2, <2>7
        <3> HIDE DEF l
        <3>2. Len(l.list \o NamesOf(ents)) = Len(l.list) + Len(NamesOf(ents))
            BY <1>4, <2>8, Appended
        <3> QED BY <2>8, <3>1, <3>2
    <2>10. Len(handle'[h].list) <= handle'[h].room
        <3>1. Len(l.list) \in Nat
            BY <1>4
        <3> QED BY <2>2, <2>4, <2>5, <2>6, <2>9, <3>1
    <2> QED BY <1>1, <1>2, <2>2, <2>3, <2>6, <2>9, <2>10, ReadsOn
<1> QED BY <1>5, <1>6

\* A listing that goes on before and after a step.
LEMMA StepAdvances ==
    ASSUME IInv, [Next]_vars, NEW h \in Handles, front = "rvfs", Active(h), Active(h)'
    PROVE  Advanced(handle[h], handle'[h])
<1>1. handle[h] \in Listings /\ Len(handle[h].list) <= handle[h].room
    BY GoingIs DEF Active
<1>2. handle \in [Handles -> Listings \cup {NoListing}]
    BY DEF IInv, TypeOK
<1>3. CASE handle'[h] = handle[h]
    BY <1>1, <1>3, StandsStill
<1>4. ASSUME NEW g \in Handles, ListTx(g) \/ ListPush(g) PROVE Advanced(handle[h], handle'[h])
    <2>1. CASE g = h
        <3>1. CASE ListTx(h)
            <4>1. handle[h].st = "tx" /\ handle' = [handle EXCEPT ![h].st = "read", ![h].snap = dir]
                BY <3>1 DEF ListTx
            <4>2. /\ handle'[h].list = handle[h].list /\ handle'[h].room = handle[h].room
                  /\ handle'[h].st = "read"
                BY <1>1, <1>2, <4>1 DEF Listings
            <4> QED BY <1>1, <4>1, <4>2, StepsOn
        <3>2. CASE ListPush(h)
            <4>1. handle[h].st = "push" /\ handle' = [handle EXCEPT ![h].st = "tx", ![h].last = None]
                BY <3>2 DEF ListPush
            <4>2. /\ handle'[h].list = handle[h].list /\ handle'[h].room = handle[h].room
                  /\ handle'[h].st = "tx"
                BY <1>1, <1>2, <4>1 DEF Listings
            <4> QED BY <1>1, <4>1, <4>2, StepsOn
        <3> QED BY <1>4, <2>1, <3>1, <3>2
    <2>2. CASE g # h
        BY <1>2, <1>3, <1>4, <2>2 DEF ListTx, ListPush
    <2> QED BY <2>1, <2>2
<1>5. ASSUME NEW g \in Handles, ListRead(g) PROVE Advanced(handle[h], handle'[h])
    <2>1. CASE g = h
        BY <1>5, <2>1, ListReadAdvances
    <2>2. CASE g # h
        BY <1>2, <1>3, <1>5, <2>2 DEF ListRead, Panic
    <2> QED BY <2>1, <2>2
<1>6. ASSUME NEW g \in Handles, NEW room \in Rooms, ListBegin(g, room)
      PROVE  Advanced(handle[h], handle'[h])
    <2>1. handle'[h] = [handle[h] EXCEPT !.plain = FALSE]
        BY <1>6 DEF ListBegin, Overlap
    <2>2. /\ handle'[h].st = handle[h].st /\ handle'[h].list = handle[h].list
          /\ handle'[h].room = handle[h].room
        BY <1>1, <2>1 DEF Listings
    <2> QED BY <1>1, <2>2, StandsStill
<1>7. ASSUME NEW n \in Names, Create(n) \/ Unlink(n) PROVE Advanced(handle[h], handle'[h])
    <2>1. CASE Create(n)
        BY <1>3, <2>1 DEF Create
    <2>2. CASE Unlink(n)
        <3>1. handle'[h] = [handle[h] EXCEPT !.stable = @ \ {n}]
            BY <2>2 DEF Unlink
        <3>2. /\ handle'[h].st = handle[h].st /\ handle'[h].list = handle[h].list
              /\ handle'[h].room = handle[h].room
            BY <1>1, <3>1 DEF Listings
        <3> QED BY <1>1, <3>2, StandsStill
    <2> QED BY <1>7, <2>1, <2>2
<1>8. CASE Mount
    BY <1>8 DEF Mount, Active, NoListing
<1>9. CASE UNCHANGED vars
    BY <1>3, <1>9 DEF vars
<1>10. ~\E g \in Handles : Opendir(g) \/ Releasedir(g) \/ Rewind(g) \/ \E room \in Rooms : Readdir(g, room)
    BY DEF Opendir, Releasedir, Rewind, Readdir
<1> QED BY <1>4, <1>5, <1>6, <1>7, <1>8, <1>9, <1>10 DEF Next

\* The loop in dbfs_readdir cannot be made to go on for ever: however other listings
\* change the table and whatever names come and go, each step of a thread brings its
\* listing closer to the end.
THEOREM LoopTheorem == Spec => LoopAdvances
<1>1. IInv /\ [Next]_vars =>
        [\A h \in Handles :
            front = "rvfs" /\ Active(h) /\ Active(h)' =>
                /\ Rank(handle'[h]) >= 0
                /\ IF handle'[h].st = handle[h].st THEN Rank(handle'[h]) = Rank(handle[h])
                   ELSE Rank(handle'[h]) < Rank(handle[h])]_vars
    BY StepAdvances DEF Advanced
<1> QED BY <1>1, ListingInvariant, PTL DEF Spec, LoopAdvances

=============================================================================
