--------------------------- MODULE DbfsWalProofs ---------------------------
(***************************************************************************)
(* Theorems about DbfsWal, for every set of threads, every set of          *)
(* transactions, every bound, and whatever fails.                          *)
(***************************************************************************)
EXTENDS DbfsWal, LibraryProofs, TLAPS

Commits == {"append", "lock", "apply"}

\* Only a commit is given a transaction, which stays as it is until the commit
\* returns.
JobInv ==
    /\ job.at = "none" => job = NoJob
    /\ job.at \in Commits => job.who \in Threads /\ txn[job.who] # NoTxn
    /\ job.at \notin Commits => job.who = "none"

\* After a crash the manager is as new.
DownInv ==
    status = "down" =>
        /\ job.at \in {"none", "replay"}
        /\ txn = [t \in Threads |-> NoTxn]
        /\ entries = <<>> /\ ~broken /\ ~skewed

\* Behind a record that is astray there are only records that are astray.
AstrayBehind(f) == \A i, j \in DOMAIN f : i < j /\ f[i].is = "astray" => f[j].is = "astray"

\* Appends go where recover() stops, or behind that when a size has no data.
OffsetInv ==
    /\ AstrayBehind(file) /\ AstrayBehind(synced)
    /\ Len(synced) <= MaxLog
    /\ next_offset <= Len(file)
    /\ status = "down" /\ job.at = "none" => next_offset = 0
    /\ status # "down" \/ job.at # "none" =>
        IF skewed THEN next_offset >= StopsAt(file) ELSE next_offset = StopsAt(file)
    /\ skewed => broken
    /\ job.at = "append" => Len(file) + Len(job.todo) <= MaxLog

\* The first n of ops are the last n operations that recover() finds.
AtEnd(f, ops, n) ==
    /\ n <= Len(Recovered(f))
    /\ \A i \in 1..n : Recovered(f)[Len(Recovered(f)) - n + i].op = ops[i]

\* While a transaction is appended, its first operations are at the end of the log
\* and the others are to do; past the flush the log is synced.
CommitInv ==
    /\ job.at = "append" =>
        \E n \in 0..Len(txn[job.who].ops) :
            /\ Len(txn[job.who].ops) = n + Len(job.todo)
            /\ \A i \in 1..Len(job.todo) : job.todo[i] = txn[job.who].ops[n + i]
            /\ ~skewed => AtEnd(file, txn[job.who].ops, n)
    /\ job.at \in {"lock", "apply"} =>
        /\ synced = file
        /\ ~skewed => AtEnd(file, txn[job.who].ops, Len(txn[job.who].ops))

IInv == EntriesInFile /\ JobInv /\ DownInv /\ OffsetInv /\ CommitInv

-----------------------------------------------------------------------------
(* The file system below *)

\* An operation that applies leaves a file system of the type.
LEMMA ApplyType ==
    ASSUME NEW f \in Fs, NEW op \in Operations, Applies(f, op)
    PROVE  Apply(f, op) \in Fs
<1> USE FsAssumption DEF Fs, Inos, NoFile
<1>1. CASE op \in Creates
    <2>1. op.kind = "create" /\ op.name \in Names
        BY <1>1 DEF Creates
    <2>2. f.next \in 1..MaxIno
        BY <2>1 DEF Applies
    <2>3. Apply(f, op) = dbfs_create(f, op.name)
        BY <2>1 DEF Apply
    <2> DEFINE d == [f.dir EXCEPT ![op.name] = f.next]
               c == [f.data EXCEPT ![f.next] = Empty]
    <2>4. d \in [Names -> Inos \cup {NoFile}] /\ c \in [Inos -> Contents \cup {"gone"}]
        BY <2>1, <2>2
    <2>5. f.next + 1 \in 1..(MaxIno + 1)
        BY <2>2
    <2>6. dbfs_create(f, op.name) = [dir |-> d, data |-> c, next |-> f.next + 1]
        BY DEF dbfs_create
    <2> HIDE DEF c, d
    <2> QED BY <2>3, <2>4, <2>5, <2>6
<1>2. CASE op \in Deletes
    BY <1>2 DEF Deletes, Applies, Apply, dbfs_unlink
<1>3. CASE op \in Renames
    BY <1>3 DEF Renames, Applies, Apply, dbfs_rename
<1>4. CASE op \in Writes
    BY <1>4 DEF Writes, Applies, Apply, dbfs_write
<1>5. CASE op \in Truncates
    BY <1>5 DEF Truncates, Applies, Apply, dbfs_truncate
<1> QED BY <1>1, <1>2, <1>3, <1>4, <1>5 DEF Operations

-----------------------------------------------------------------------------
(* The log file *)

\* recover() stops before the first record that is astray.
LEMMA StopsAtIs ==
    ASSUME NEW f \in Seq(Records)
    PROVE  /\ StopsAt(f) \in 0..Len(f)
           /\ \A i \in 1..StopsAt(f) : f[i].is # "astray"
           /\ StopsAt(f) < Len(f) => f[StopsAt(f) + 1].is = "astray"
<1> DEFINE A == {i \in 1..Len(f) : f[i].is = "astray"}
<1>1. Len(f) \in Nat
    OBVIOUS
<1>2. CASE A = {}
    <2>1. StopsAt(f) = Len(f)
        BY <1>2 DEF StopsAt, SelectInSeq
    <2> QED BY <1>1, <1>2, <2>1
<1>3. CASE A # {}
    <2>1. A \in SUBSET Nat
        BY <1>1
    <2>2. \E x \in A : \A y \in A : x <= y
        BY <1>3, <2>1, LeastNatural
    <2>3. Min(A) \in A /\ \A y \in A : Min(A) <= y
        BY <2>2 DEF Min
    <2>4. Min(A) # 0 /\ Min(A) \in 1..Len(f)
        BY <2>3
    <2>5. StopsAt(f) = Min(A) - 1
        BY <1>3, <2>4 DEF StopsAt, SelectInSeq
    <2>6. StopsAt(f) \in 0..Len(f) /\ f[StopsAt(f) + 1].is = "astray"
        BY <1>1, <2>3, <2>4, <2>5
    <2>7. ASSUME NEW i \in 1..StopsAt(f) PROVE f[i].is # "astray"
        <3>1. i \in 1..Len(f) /\ ~(Min(A) <= i)
            BY <1>1, <2>4, <2>5
        <3> QED BY <2>3, <3>1
    <2> QED BY <2>6, <2>7
<1> QED BY <1>2, <1>3

\* recover() stops before the first record whose size it does not find.
LEMMA StopsAtUnique ==
    ASSUME NEW f \in Seq(Records), NEW k \in 0..Len(f),
           \A i \in 1..k : f[i].is # "astray",
           k < Len(f) => f[k + 1].is = "astray"
    PROVE  StopsAt(f) = k
<1>1. Len(f) \in Nat
    OBVIOUS
<1>2. /\ StopsAt(f) \in 0..Len(f)
      /\ \A i \in 1..StopsAt(f) : f[i].is # "astray"
      /\ StopsAt(f) < Len(f) => f[StopsAt(f) + 1].is = "astray"
    BY StopsAtIs
<1>3. ~(StopsAt(f) < k)
    <2> SUFFICES ASSUME StopsAt(f) < k PROVE FALSE
        OBVIOUS
    <2>1. StopsAt(f) < Len(f) /\ StopsAt(f) + 1 \in 1..k
        BY <1>1, <1>2
    <2> QED BY <1>2, <2>1
<1>4. ~(k < StopsAt(f))
    <2> SUFFICES ASSUME k < StopsAt(f) PROVE FALSE
        OBVIOUS
    <2>1. k < Len(f) /\ k + 1 \in 1..StopsAt(f)
        BY <1>1, <1>2
    <2> QED BY <1>2, <2>1
<1> QED BY <1>1, <1>2, <1>3, <1>4

\* A record that is written at k replaces the one there or is appended.
LEMMA WriteAtIs ==
    ASSUME NEW f \in Seq(Records), NEW k \in 0..Len(f), NEW r \in Records
    PROVE  /\ WriteAt(f, k, r) \in Seq(Records)
           /\ Len(WriteAt(f, k, r)) = IF k < Len(f) THEN Len(f) ELSE Len(f) + 1
           /\ k + 1 \in 1..Len(WriteAt(f, k, r)) /\ WriteAt(f, k, r)[k + 1] = r
           /\ \A i \in 1..Len(f) : i # k + 1 => WriteAt(f, k, r)[i] = f[i]
<1>1. Len(f) \in Nat
    OBVIOUS
<1>2. CASE k < Len(f)
    BY <1>1, <1>2 DEF WriteAt
<1>3. CASE k = Len(f)
    BY <1>1, <1>3 DEF WriteAt
<1> QED BY <1>1, <1>2, <1>3

\* What recover() reads is a sequence of records.
LEMMA RecoveredType ==
    ASSUME NEW f \in Seq(Records)
    PROVE  Recovered(f) \in Seq(Records)
BY KeptType DEF Recovered

\* A record that is written where recover() stops is the last one it reaches.
LEMMA WriteAtStop ==
    ASSUME NEW f \in Seq(Records), AstrayBehind(f), NEW r \in Records, r.is # "astray",
           NEW g, g = WriteAt(f, StopsAt(f), r)
    PROVE  /\ AstrayBehind(g)
           /\ StopsAt(g) = StopsAt(f) + 1
           /\ r.is = "good" => Recovered(g) = Append(Recovered(f), r)
           /\ r.is = "torn" => Recovered(g) = Recovered(f)
<1> DEFINE k == StopsAt(f)
           n == Len(f)
           m == Len(g)
<1>1. n \in Nat /\ DOMAIN f = 1..n
    OBVIOUS
<1>2. /\ k \in 0..n
      /\ \A i \in 1..k : f[i].is # "astray"
      /\ k < n => f[k + 1].is = "astray"
    BY StopsAtIs
<1>3. /\ g \in Seq(Records) /\ m = IF k < n THEN n ELSE n + 1
      /\ k + 1 \in 1..m /\ g[k + 1] = r
      /\ \A i \in 1..n : i # k + 1 => g[i] = f[i]
    <2>1. k \in 0..Len(f) /\ g = WriteAt(f, k, r)
        BY <1>2
    <2> HIDE DEF k
    <2> DEFINE w == WriteAt(f, k, r)
    <2>2. /\ w \in Seq(Records)
          /\ Len(w) = IF k < Len(f) THEN Len(f) ELSE Len(f) + 1
          /\ k + 1 \in 1..Len(w) /\ w[k + 1] = r
          /\ \A i \in 1..Len(f) : i # k + 1 => w[i] = f[i]
        BY <2>1, WriteAtIs
    <2>3. g = w
        BY <2>1
    <2> HIDE DEF w
    <2> QED BY <2>2, <2>3
<1>4. DOMAIN g = 1..m /\ m \in Nat
    BY <1>3
<1> HIDE DEF k, n, m
<1>5. \A i \in 1..n : i > k => f[i].is = "astray"
    <2> SUFFICES ASSUME NEW i \in 1..n, i > k PROVE f[i].is = "astray"
        OBVIOUS
    <2>1. k + 1 \in 1..n /\ k < n /\ (i = k + 1 \/ k + 1 < i)
        BY <1>1, <1>2
    <2> QED BY <1>1, <1>2, <2>1 DEF AstrayBehind
<1>6. \A i \in 1..m : i > k + 1 => g[i].is = "astray"
    BY <1>1, <1>2, <1>3, <1>4, <1>5
<1>7. \A i \in 1..(k + 1) : g[i].is # "astray"
    BY <1>1, <1>2, <1>3
<1>8. AstrayBehind(g)
    BY <1>1, <1>2, <1>4, <1>6, <1>7 DEF AstrayBehind
<1>9. StopsAt(g) = k + 1
    <2>1. k + 1 \in 0..m /\ (k + 1 < m => g[(k + 1) + 1].is = "astray")
        BY <1>2, <1>3, <1>4, <1>6
    <2> QED BY <1>3, <1>7, <2>1, StopsAtUnique DEF m
<1> DEFINE I == {i \in 1..k : f[i].is = "good"}
           J == {i \in 1..(k + 1) : g[i].is = "good"}
<1>10. Recovered(f) = Kept(f, I) /\ Recovered(g) = Kept(g, J)
    BY <1>9 DEF Recovered, k
<1>11. Kept(f, I) = Kept(g, I)
    <2>1. \A i \in I : i \in 1..n /\ i \in 1..m /\ f[i] = g[i]
        BY <1>1, <1>2, <1>3
    <2> QED BY <1>1, <1>4, <2>1, KeptAgree DEF n, m
<1>12. \A i \in 1..k : g[i] = f[i]
    BY <1>1, <1>2, <1>3
<1>13. ASSUME r.is = "good" PROVE Recovered(g) = Append(Recovered(f), r)
    <2>1. J = I \cup {k + 1}
        BY <1>2, <1>3, <1>12, <1>13
    <2>2. I \subseteq 1..((k + 1) - 1)
        BY <1>2
    <2> HIDE DEF I, J
    <2>3. Kept(g, J) = Append(Kept(g, I), g[k + 1])
        BY <1>3, <1>4, <2>1, <2>2, KeptLast DEF m
    <2> QED BY <1>3, <1>10, <1>11, <2>3
<1>14. ASSUME r.is = "torn" PROVE Recovered(g) = Recovered(f)
    <2>1. J = I
        BY <1>2, <1>3, <1>12, <1>14
    <2> HIDE DEF I, J
    <2> QED BY <1>10, <1>11, <2>1
<1> QED BY <1>8, <1>9, <1>13, <1>14 DEF k

\* A record that goes astray changes nothing for recover().
LEMMA WriteAstray ==
    ASSUME NEW f \in Seq(Records), AstrayBehind(f), NEW r \in Records, r.is = "astray",
           NEW p \in 0..Len(f), p >= StopsAt(f), NEW g, g = WriteAt(f, p, r)
    PROVE  /\ AstrayBehind(g)
           /\ StopsAt(g) = StopsAt(f)
           /\ Recovered(g) = Recovered(f)
<1> DEFINE k == StopsAt(f)
           n == Len(f)
           m == Len(g)
<1>1. n \in Nat /\ DOMAIN f = 1..n
    OBVIOUS
<1>2. /\ k \in 0..n
      /\ \A i \in 1..k : f[i].is # "astray"
      /\ k < n => f[k + 1].is = "astray"
    BY StopsAtIs
<1>3. /\ g \in Seq(Records) /\ m = IF p < n THEN n ELSE n + 1
      /\ p + 1 \in 1..m /\ g[p + 1] = r
      /\ \A i \in 1..n : i # p + 1 => g[i] = f[i]
    BY WriteAtIs
<1>4. DOMAIN g = 1..m /\ m \in Nat
    BY <1>3
<1>a. p \in 0..n /\ p >= k
    OBVIOUS
<1> HIDE DEF k, n, m
<1>5. \A i \in 1..n : i > k => f[i].is = "astray"
    <2> SUFFICES ASSUME NEW i \in 1..n, i > k PROVE f[i].is = "astray"
        OBVIOUS
    <2>1. k + 1 \in 1..n /\ k < n /\ (i = k + 1 \/ k + 1 < i)
        BY <1>1, <1>2
    <2> QED BY <1>1, <1>2, <2>1 DEF AstrayBehind
<1>6. \A i \in 1..m : i > k => g[i].is = "astray"
    BY <1>1, <1>2, <1>3, <1>4, <1>5, <1>a
<1>7. \A i \in 1..k : g[i] = f[i]
    BY <1>1, <1>2, <1>3, <1>a
<1>8. AstrayBehind(g)
    BY <1>1, <1>2, <1>4, <1>6, <1>7 DEF AstrayBehind
<1>9. StopsAt(g) = k
    <2>1. k \in 0..m /\ (k < m => g[k + 1].is = "astray")
        BY <1>1, <1>2, <1>3, <1>4, <1>6, <1>a
    <2> QED BY <1>2, <1>3, <1>7, <2>1, StopsAtUnique DEF m
<1> DEFINE I == {i \in 1..k : f[i].is = "good"}
<1>10. Recovered(f) = Kept(f, I) /\ Recovered(g) = Kept(g, {i \in 1..k : g[i].is = "good"})
    BY <1>9 DEF Recovered, k
<1>11. {i \in 1..k : g[i].is = "good"} = I
    BY <1>7
<1>12. Kept(f, I) = Kept(g, I)
    <2>1. \A i \in I : i \in 1..n /\ i \in 1..m /\ f[i] = g[i]
        BY <1>1, <1>2, <1>3, <1>4, <1>7
    <2> QED BY <1>1, <1>4, <2>1, KeptAgree DEF n, m
<1> QED BY <1>8, <1>9, <1>10, <1>11, <1>12 DEF k

\* Every log file that a crash may leave is one that the system may write.
LEMMA SurvivingType ==
    ASSUME TypeOK, OffsetInv, NEW f \in Surviving
    PROVE  f \in Seq(Records) /\ Len(f) <= MaxLog /\ AstrayBehind(f)
<1> USE WalAssumption
<1>1. /\ file \in Seq(Records) /\ synced \in Seq(Records) /\ Len(file) <= MaxLog /\ Len(synced) <= MaxLog
      /\ AstrayBehind(file) /\ AstrayBehind(synced)
    BY DEF TypeOK, OffsetInv
<1>2. CASE f = synced
    BY <1>1, <1>2
<1>3. ASSUME NEW g \in Prefixes(file)
      PROVE  g \in Seq(Records) /\ Len(g) <= MaxLog /\ AstrayBehind(g)
    <2>1. PICK n \in 0..Len(file) : g = SubSeq(file, 1, n)
        BY DEF Prefixes
    <2>2. g \in Seq(Records) /\ Len(g) = n /\ DOMAIN g = 1..n /\ \A i \in 1..n : g[i] = file[i]
        BY <1>1, <2>1
    <2>3. 1..n \subseteq DOMAIN file
        BY <1>1
    <2>4. AstrayBehind(g)
        BY <1>1, <2>2, <2>3 DEF AstrayBehind
    <2> QED BY <1>1, <2>2, <2>4
<1>4. CASE f \in Prefixes(file)
    BY <1>3, <1>4
<1>5. CASE \E g \in Prefixes(file) :
                /\ Len(g) > 0 /\ g[Len(g)].is # "astray"
                /\ f = [g EXCEPT ![Len(g)] = Torn(g[Len(g)].op)]
    <2>1. PICK g \in Prefixes(file) :
                /\ Len(g) > 0 /\ g[Len(g)].is # "astray"
                /\ f = [g EXCEPT ![Len(g)] = Torn(g[Len(g)].op)]
        BY <1>5
    <2>2. g \in Seq(Records) /\ Len(g) <= MaxLog /\ AstrayBehind(g)
        BY <1>3
    <2> DEFINE n == Len(g)
    <2> DEFINE r == Torn(g[n].op)
    <2>3. n \in Nat /\ n > 0 /\ DOMAIN g = 1..n /\ n \in 1..n /\ g[n] \in Records
        BY <2>1, <2>2
    <2>4. r \in Records /\ r.is = "torn"
        BY <2>3 DEF Records, Torn
    <2> HIDE DEF r
    <2>5. f = [g EXCEPT ![n] = r]
        BY <2>1 DEF r
    <2>6. f \in Seq(Records) /\ Len(f) = n
        BY <2>2, <2>3, <2>4, <2>5
    <2>7. f[n] = r /\ DOMAIN f = 1..n /\ \A i \in 1..n : i # n => f[i] = g[i]
        BY <2>2, <2>3, <2>5
    <2>8. \A i \in 1..n : f[i].is # "astray"
        <3> SUFFICES ASSUME NEW i \in 1..n, f[i].is = "astray" PROVE FALSE
            OBVIOUS
        <3>1. i # n
            BY <2>4, <2>7
        <3>2. g[i].is = "astray" /\ i < n
            <4> HIDE DEF n
            <4> QED BY <2>3, <2>7, <3>1
        <3> HIDE DEF n
        <3>3. g[n].is = "astray"
            BY <2>2, <2>3, <3>2 DEF AstrayBehind
        <3> QED BY <2>1, <3>3 DEF n
    <2>9. AstrayBehind(f)
        BY <2>7, <2>8 DEF AstrayBehind
    <2> QED BY <2>2, <2>6, <2>9
<1>6. \/ f = synced
      \/ f \in Prefixes(file)
      \/ \E g \in Prefixes(file) :
            /\ Len(g) > 0 /\ g[Len(g)].is # "astray"
            /\ f = [g EXCEPT ![Len(g)] = Torn(g[Len(g)].op)]
    BY Zenon DEF Surviving
<1> QED BY <1>2, <1>4, <1>5, <1>6

\* A log file that is flushed is there after a crash, and nothing else is.
LEMMA SurvivingSynced ==
    ASSUME file \in Seq(Records), synced = file, NEW f \in Surviving
    PROVE  f = file
<1>1. IsPrefix(synced, file)
    BY DEF IsPrefix
<1>2. ASSUME NEW g \in Prefixes(file), IsPrefix(synced, g)
      PROVE  g = file
    <2>1. PICK n \in 0..Len(file) : g = SubSeq(file, 1, n)
        BY DEF Prefixes
    <2>2. Len(g) = n /\ Len(file) <= Len(g)
        BY <1>2, <2>1 DEF IsPrefix
    <2>3. g = SubSeq(file, 1, Len(file))
        BY <2>1, <2>2
    <2> QED BY <2>3
<1> QED BY <1>1, <1>2 DEF Surviving

\* The operations of records, one for each.
LEMMA OpsType ==
    ASSUME NEW r \in Seq(Records)
    PROVE  Ops(r) \in Seq(Operations) /\ Len(Ops(r)) = Len(r)
<1>1. ASSUME NEW i \in DOMAIN r PROVE r[i].op \in Operations
    <2>1. r[i] \in Records
        OBVIOUS
    <2> QED BY <2>1 DEF Records
<1> QED BY <1>1 DEF Ops

-----------------------------------------------------------------------------
(* The invariant *)

\* A thread without a transaction has a record of the type of transactions.
LEMMA NoTxnType == NoTxn \in [id : 0..MaxTxn, ops : Transactions \cup {<<>>}]
BY WalAssumption DEF NoTxn

\* The free mutex is of the type of jobs.
LEMMA NoJobType == NoJob \in JobType /\ NoJob.at = "none" /\ NoJob.who = "none" /\ NoJob.todo = <<>>
BY DEF NoJob, JobType

\* The transaction that a commit was given.
LEMMA CommitTxn ==
    ASSUME TypeOK, JobInv, job.at \in Commits
    PROVE  /\ job.who \in Threads
           /\ txn[job.who].ops \in Seq(Operations) /\ txn[job.who].id \in 0..MaxTxn
<1>1. job.who \in Threads
    BY DEF JobInv
<1>2. txn[job.who].ops \in Transactions \cup {<<>>} /\ txn[job.who].id \in 0..MaxTxn
    BY <1>1 DEF TypeOK, TxnType
<1>3. <<>> \in Seq(Operations)
    OBVIOUS
<1> QED BY <1>1, <1>2, <1>3, WalAssumption

\* A commit that returns leaves nothing of it but what it did to the log.
LEMMA ReturnsStep ==
    ASSUME IInv, Returns, job.at \in Commits
    PROVE  /\ JobInv' /\ DownInv' /\ CommitInv'
           /\ job' = NoJob /\ job' \in JobType /\ txn' \in TxnType
           /\ status' = status /\ status # "down"
           /\ next_txn_id' = next_txn_id /\ readers' = readers
<1> USE NoJobType DEF IInv
<1>1. status # "down" /\ status' = status
    BY DEF DownInv, Commits, Returns
<1>2. job.who \in Threads
    BY DEF JobInv
<1>3. txn \in TxnType /\ txn' = [txn EXCEPT ![job.who] = NoTxn]
    BY DEF EntriesInFile, TypeOK, TxnType, Returns
<1>4. txn' \in TxnType
    BY <1>2, <1>3, NoTxnType DEF TxnType
<1>5. job' = NoJob
    BY DEF Returns
<1>6. JobInv' /\ CommitInv'
    BY <1>5 DEF JobInv, CommitInv, Commits
<1>7. DownInv'
    BY <1>1 DEF DownInv
<1> QED BY <1>1, <1>4, <1>5, <1>6, <1>7 DEF Returns

\* begin_transaction keeps the invariant.
LEMMA BeginStep ==
    ASSUME IInv, NEW t \in Threads, begin_transaction(t)
    PROVE  IInv'
<1> USE DEF IInv, begin_transaction, log
<1>1. PICK ops \in Transactions : txn' = [txn EXCEPT ![t] = [id |-> next_txn_id, ops |-> ops]]
    OBVIOUS
<1>2. next_txn_id \in 0..MaxTxn /\ next_txn_id + 1 \in 1..(MaxTxn + 1) /\ next_txn_id # 0
    BY WalAssumption DEF EntriesInFile, TypeOK
<1>3. txn' \in TxnType
    BY <1>1, <1>2 DEF EntriesInFile, TypeOK, TxnType
<1>4. EntriesInFile'
    BY <1>2, <1>3 DEF EntriesInFile, TypeOK, TxnType
<1>5. job.at \in Commits => job.who # t
    BY DEF JobInv
<1>6. job.at \in Commits => txn'[job.who] = txn[job.who]
    BY <1>1, <1>5 DEF JobInv, EntriesInFile, TypeOK
<1>7. JobInv'
    BY <1>6 DEF JobInv
<1>8. DownInv' /\ OffsetInv'
    BY DEF DownInv, OffsetInv
<1>9. CommitInv'
    BY <1>6 DEF CommitInv, Commits
<1> QED BY <1>4, <1>7, <1>8, <1>9

\* rollback keeps the invariant.
LEMMA RollbackStep ==
    ASSUME IInv, NEW t \in Threads, rollback(t)
    PROVE  IInv'
<1> USE DEF IInv, rollback, log
<1>1. txn' \in TxnType
    BY NoTxnType DEF EntriesInFile, TypeOK, TxnType
<1>2. EntriesInFile'
    BY <1>1 DEF EntriesInFile, TypeOK, TxnType
<1>3. job.at \in Commits => txn'[job.who] = txn[job.who]
    BY DEF JobInv, EntriesInFile, TypeOK
<1>4. JobInv'
    BY <1>3 DEF JobInv
<1>5. DownInv'
    <2>1. status # "down"
        BY DEF DownInv
    <2> QED BY <2>1 DEF DownInv
<1>6. OffsetInv'
    BY DEF OffsetInv
<1>7. CommitInv'
    BY <1>3 DEF CommitInv, Commits
<1> QED BY <1>2, <1>4, <1>5, <1>6, <1>7

\* Taking and releasing state_lock for reading keeps the invariant.
LEMMA ReaderStep ==
    ASSUME IInv, NEW t \in Threads, read_lock(t) \/ read_unlock(t)
    PROVE  IInv'
<1> USE DEF IInv, read_lock, read_unlock, log
<1>1. readers' \subseteq Threads
    BY DEF EntriesInFile, TypeOK
<1>2. EntriesInFile'
    BY <1>1 DEF EntriesInFile, TypeOK
<1>3. JobInv' /\ DownInv'
    BY DEF JobInv, DownInv
<1>4. OffsetInv'
    BY DEF OffsetInv
<1>5. CommitInv'
    BY DEF CommitInv
<1> QED BY <1>2, <1>3, <1>4, <1>5

\* commit and commit_into_wal_only, taking the mutex of the log, keep the invariant.
LEMMA StartCommitStep ==
    ASSUME IInv, NEW t \in Threads, NEW kind \in {"commit", "wal_only"}, commit(t, kind)
    PROVE  IInv'
<1> USE DEF IInv, commit, log, threads
<1>1. txn[t].ops \in Seq(Operations)
    <2>1. txn[t].ops \in Transactions \cup {<<>>}
        BY DEF EntriesInFile, TypeOK, TxnType
    <2>2. <<>> \in Seq(Operations)
        OBVIOUS
    <2> QED BY <2>1, <2>2, WalAssumption
<1>2. /\ job' \in JobType
      /\ job'.at = "append" /\ job'.who = t /\ job'.todo = txn[t].ops
    BY <1>1 DEF JobType
<1>3. EntriesInFile'
    BY <1>2 DEF EntriesInFile, TypeOK, JobType
<1>4. status # "down"
    BY DEF DownInv, NoTxn
<1>5. JobInv' /\ DownInv'
    BY <1>2, <1>4 DEF JobInv, DownInv, Commits
<1>6. OffsetInv'
    BY <1>2, <1>4 DEF OffsetInv
<1>7. CommitInv'
    <2>1. AtEnd(file, txn[t].ops, 0)
        <3>1. Len(Recovered(file)) \in Nat
            BY RecoveredType DEF EntriesInFile, TypeOK
        <3> QED BY <3>1 DEF AtEnd
    <2>2. Len(txn[t].ops) \in Nat
        BY <1>1
    <2> QED BY <1>1, <1>2, <2>1, <2>2 DEF CommitInv
<1> QED BY <1>3, <1>5, <1>6, <1>7

\* The end of the log after one more record.
LEMMA AtEndAppend ==
    ASSUME NEW f \in Seq(Records), NEW g \in Seq(Records), NEW r \in Records,
           Recovered(g) = Append(Recovered(f), r),
           NEW ops, NEW n \in Nat, AtEnd(f, ops, n), r.op = ops[n + 1]
    PROVE  AtEnd(g, ops, n + 1)
<1> DEFINE a == Recovered(f)
           b == Recovered(g)
           k == Len(a)
<1>1. a \in Seq(Records)
    BY RecoveredType
<1>2. k \in Nat /\ n <= k /\ \A i \in 1..n : a[k - n + i].op = ops[i]
    BY <1>1 DEF AtEnd
<1>3. Len(b) = k + 1 /\ b[k + 1] = r /\ \A i \in 1..k : b[i] = a[i]
    BY <1>1
<1> HIDE DEF a, b, k
<1>4. ASSUME NEW i \in 1..(n + 1)
      PROVE  b[(k + 1) - (n + 1) + i].op = ops[i]
    <2>1. CASE i = n + 1
        <3>1. (k + 1) - (n + 1) + i = k + 1
            BY <1>2, <2>1
        <3> QED BY <1>3, <2>1, <3>1
    <2>2. CASE i \in 1..n
        <3>1. (k + 1) - (n + 1) + i = k - n + i /\ k - n + i \in 1..k
            BY <1>2, <2>2
        <3> QED BY <1>2, <1>3, <2>2, <3>1
    <2> QED BY <2>1, <2>2
<1>5. n + 1 <= Len(b)
    BY <1>2, <1>3
<1> QED BY <1>3, <1>4, <1>5 DEF AtEnd, b

\* append keeps the invariant, whatever part of the record is written.
LEMMA AppendStep ==
    ASSUME IInv, append
    PROVE  IInv'
<1> USE DEF IInv
<1> DEFINE op == Head(job.todo)
           entry == Good(txn[job.who].id, op)
           rest == Tail(job.todo)
<1>1. /\ job.at = "append" /\ job.todo # <<>> /\ job.at \in Commits
      /\ UNCHANGED <<fs, synced>>
    BY DEF append, Commits
<1>2. job.who \in Threads /\ txn[job.who].ops \in Seq(Operations) /\ txn[job.who].id \in 0..MaxTxn
    BY <1>1, CommitTxn DEF EntriesInFile
<1>3. status # "down"
    BY <1>1 DEF DownInv
<1>4. TypeOK /\ file \in Seq(Records) /\ job \in JobType /\ job.todo \in Seq(Operations)
    BY DEF EntriesInFile, TypeOK, JobType
<1>5. /\ op \in Operations /\ op = job.todo[1]
      /\ rest \in Seq(Operations) /\ Len(rest) \in Nat /\ Len(job.todo) = Len(rest) + 1
      /\ \A i \in 1..Len(rest) : rest[i] = job.todo[i + 1]
    BY <1>1, <1>4
<1>6. /\ entry \in Records /\ entry.is = "good" /\ entry.op = op
      /\ Astray(op) \in Records /\ Astray(op).is = "astray"
      /\ Torn(op) \in Records /\ Torn(op).is = "torn"
    BY <1>2, <1>5, WalAssumption DEF Records, Good, Torn, Astray
<1>7. /\ AstrayBehind(file) /\ next_offset \in 0..Len(file) /\ Len(file) \in Nat
      /\ Len(file) + Len(job.todo) <= MaxLog
      /\ IF skewed THEN next_offset >= StopsAt(file) ELSE next_offset = StopsAt(file)
    BY <1>1, <1>3, <1>4 DEF OffsetInv, TypeOK
<1> HIDE DEF op, entry, rest
<1>8. ASSUME NEW r \in Records, file' = WriteAt(file, next_offset, r)
      PROVE  /\ file' \in Seq(Records) /\ Len(file') <= Len(file) + 1
             /\ next_offset + 1 <= Len(file') /\ Len(file') <= MaxLog /\ next_offset + 1 \in 0..MaxLog
             /\ Len(file') + Len(rest) <= MaxLog
    <2>1. /\ file' \in Seq(Records)
          /\ Len(file') = IF next_offset < Len(file) THEN Len(file) ELSE Len(file) + 1
        BY <1>4, <1>7, <1>8, WriteAtIs
    <2> QED BY <1>5, <1>7, <2>1, WalAssumption
<1>9. CASE /\ file' = WriteAt(file, next_offset, IF skewed THEN Astray(op) ELSE entry)
           /\ next_offset' = next_offset + 1
           /\ entries' = Append(entries, entry)
           /\ job' = [job EXCEPT !.todo = Tail(@)]
           /\ UNCHANGED <<skewed, broken, threads, status>>
    <2>1. job' \in JobType /\ job'.at = "append" /\ job'.who = job.who /\ job'.todo = rest
        BY <1>1, <1>4, <1>5, <1>9 DEF JobType, rest
    <2>2. TypeOK'
        <3>1. entries' \in Seq(Records)
            BY <1>4, <1>6, <1>9 DEF TypeOK
        <3> QED BY <1>1, <1>4, <1>6, <1>8, <1>9, <2>1, <3>1 DEF TypeOK, JobType, threads
    <2>3. JobInv' /\ DownInv'
        BY <1>1, <1>3, <1>9, <2>1 DEF JobInv, DownInv, threads, Commits
    <2>4. CASE ~skewed
        <3>1. file' = WriteAt(file, StopsAt(file), entry)
            BY <1>7, <1>9, <2>4
        <3>2. /\ AstrayBehind(file') /\ StopsAt(file') = next_offset + 1
              /\ Recovered(file') = Append(Recovered(file), entry)
            BY <1>4, <1>6, <1>7, <2>4, <3>1, WriteAtStop
        <3>3. EntriesInFile'
            <4>1. ASSUME ~broken PROVE Embeds(entries', Recovered(file'))
                <5>1. Embeds(entries, Recovered(file)) /\ entries \in Seq(Records)
                    BY <4>1 DEF EntriesInFile, TypeOK
                <5>2. Recovered(file) \in Seq(Records)
                    BY <1>4, RecoveredType
                <5>3. Embeds(Append(entries, entry), Append(Recovered(file), entry))
                    BY <1>6, <5>1, <5>2, EmbedsAppend
                <5> QED BY <1>9, <3>2, <5>3
            <4> QED BY <1>9, <2>2, <4>1 DEF EntriesInFile
        <3>4. OffsetInv'
            BY <1>1, <1>3, <1>6, <1>8, <1>9, <2>1, <2>4, <3>1, <3>2 DEF OffsetInv
        <3>5. CommitInv'
            <4> DEFINE ops == txn[job.who].ops
            <4>1. PICK n \in 0..Len(ops) :
                        /\ Len(ops) = n + Len(job.todo)
                        /\ \A i \in 1..Len(job.todo) : job.todo[i] = ops[n + i]
                        /\ AtEnd(file, ops, n)
                BY <1>1, <2>4 DEF CommitInv
            <4>2. n \in Nat /\ n + 1 \in 0..Len(ops)
                BY <1>2, <1>4, <1>5, <4>1
            <4>3. entry.op = ops[n + 1]
                BY <1>5, <1>6, <4>1
            <4>4. AtEnd(file', ops, n + 1)
                BY <1>4, <1>6, <1>8, <1>9, <2>4, <3>2, <4>1, <4>2, <4>3, AtEndAppend
            <4>5. ASSUME NEW i \in 1..Len(rest) PROVE rest[i] = ops[(n + 1) + i]
                <5>1. i + 1 \in 1..Len(job.todo) /\ n + (i + 1) = (n + 1) + i
                    BY <1>5, <4>2
                <5>2. rest[i] = job.todo[i + 1]
                    BY <1>5
                <5> QED BY <4>1, <5>1, <5>2
            <4>6. Len(ops) = (n + 1) + Len(rest)
                BY <1>5, <4>1, <4>2
            <4>7. txn'[job'.who].ops = ops
                BY <1>9, <2>1 DEF threads
            <4> HIDE DEF ops
            <4> QED BY <1>9, <2>1, <4>2, <4>4, <4>5, <4>6, <4>7 DEF CommitInv
        <3> QED BY <2>3, <3>3, <3>4, <3>5
    <2>5. CASE skewed
        <3>1. broken
            BY <2>5 DEF OffsetInv
        <3>2. file' = WriteAt(file, next_offset, Astray(op))
            BY <1>9, <2>5
        <3>3. AstrayBehind(file') /\ StopsAt(file') = StopsAt(file)
            BY <1>4, <1>6, <1>7, <2>5, <3>2, WriteAstray
        <3>4. EntriesInFile'
            BY <1>9, <2>2, <3>1 DEF EntriesInFile
        <3>5. OffsetInv'
            <4>1. StopsAt(file) \in Nat
                BY <1>4, StopsAtIs
            <4>2. skewed' /\ broken' /\ status' = status
                BY <1>9, <2>5, <3>1
            <4>3. next_offset' >= StopsAt(file')
                BY <1>7, <1>9, <2>5, <3>3, <4>1
            <4>4. next_offset' <= Len(file') /\ Len(file') + Len(job'.todo) <= MaxLog
                BY <1>6, <1>8, <1>9, <2>1, <3>2
            <4> QED BY <1>1, <1>3, <2>1, <3>3, <4>2, <4>3, <4>4 DEF OffsetInv
        <3>6. CommitInv'
            <4> DEFINE ops == txn[job.who].ops
            <4>1. PICK n \in 0..Len(ops) :
                        /\ Len(ops) = n + Len(job.todo)
                        /\ \A i \in 1..Len(job.todo) : job.todo[i] = ops[n + i]
                BY <1>1 DEF CommitInv
            <4>2. n \in Nat /\ n + 1 \in 0..Len(ops)
                BY <1>2, <1>4, <1>5, <4>1
            <4>3. ASSUME NEW i \in 1..Len(rest) PROVE rest[i] = ops[(n + 1) + i]
                <5>1. i + 1 \in 1..Len(job.todo) /\ n + (i + 1) = (n + 1) + i
                    BY <1>5, <4>2
                <5>2. rest[i] = job.todo[i + 1]
                    BY <1>5
                <5> QED BY <4>1, <5>1, <5>2
            <4>4. Len(ops) = (n + 1) + Len(rest)
                BY <1>5, <4>1, <4>2
            <4>5. txn'[job'.who].ops = ops /\ skewed'
                BY <1>9, <2>1, <2>5 DEF threads
            <4> HIDE DEF ops
            <4> QED BY <2>1, <4>2, <4>3, <4>4, <4>5 DEF CommitInv
        <3> QED BY <2>3, <3>4, <3>5, <3>6
    <2> QED BY <2>4, <2>5
<1>10. CASE Returns /\ UNCHANGED <<file, next_offset, skewed, entries, broken>>
    <2>1. JobInv' /\ DownInv' /\ CommitInv' /\ job' = NoJob /\ job' \in JobType /\ txn' \in TxnType
          /\ status' = status /\ next_txn_id' = next_txn_id /\ readers' = readers
        BY <1>1, <1>10, ReturnsStep
    <2>2. EntriesInFile'
        BY <1>1, <1>10, <2>1 DEF EntriesInFile, TypeOK, JobType, TxnType
    <2>3. OffsetInv'
        BY <1>1, <1>3, <1>10, <2>1, NoJobType DEF OffsetInv
    <2> QED BY <2>1, <2>2, <2>3
<1>11. CASE /\ file' = WriteAt(file, next_offset, IF skewed THEN Astray(op) ELSE Torn(op))
            /\ next_offset' = next_offset + 1
            /\ skewed' = TRUE /\ broken' = TRUE
            /\ Returns
            /\ UNCHANGED entries
    <2>1. JobInv' /\ DownInv' /\ CommitInv' /\ job' = NoJob /\ job' \in JobType /\ txn' \in TxnType
          /\ status' = status /\ next_txn_id' = next_txn_id /\ readers' = readers
        BY <1>1, <1>11, ReturnsStep
    <2>2. EntriesInFile'
        BY <1>1, <1>4, <1>6, <1>8, <1>11, <2>1 DEF EntriesInFile, TypeOK, JobType, TxnType
    <2>3. AstrayBehind(file') /\ next_offset + 1 >= StopsAt(file')
        <3>1. CASE skewed
            <4>1. AstrayBehind(file') /\ StopsAt(file') = StopsAt(file)
                BY <1>4, <1>6, <1>7, <1>11, <3>1, WriteAstray
            <4>2. StopsAt(file) \in Nat
                BY <1>4, StopsAtIs
            <4> QED BY <1>7, <3>1, <4>1, <4>2
        <3>2. CASE ~skewed
            <4>1. file' = WriteAt(file, StopsAt(file), Torn(op)) /\ StopsAt(file) = next_offset
                BY <1>7, <1>11, <3>2
            <4>2. AstrayBehind(file') /\ StopsAt(file') = StopsAt(file) + 1
                BY <1>4, <1>6, <1>7, <4>1, WriteAtStop
            <4> QED BY <1>7, <4>1, <4>2
        <3> QED BY <3>1, <3>2
    <2>4. OffsetInv'
        BY <1>1, <1>3, <1>6, <1>8, <1>11, <2>1, <2>3, NoJobType DEF OffsetInv
    <2> QED BY <2>1, <2>2, <2>4
<1> QED BY <1>9, <1>10, <1>11 DEF append, op, entry

\* flush keeps the invariant: from here on the records survive a crash.
LEMMA FlushStep ==
    ASSUME IInv, flush
    PROVE  IInv'
<1> USE DEF IInv
<1>1. /\ job.at = "append" /\ job.todo = <<>> /\ job.at \in Commits
      /\ UNCHANGED <<fs, file, next_offset, skewed, entries, broken>>
    BY DEF flush, Commits
<1>2. job.who \in Threads /\ txn[job.who].ops \in Seq(Operations)
    BY <1>1, CommitTxn DEF EntriesInFile
<1>3. status # "down"
    BY <1>1 DEF DownInv
<1>4. TypeOK /\ file \in Seq(Records) /\ synced \in Seq(Records) /\ job \in JobType /\ Len(file) <= MaxLog
    BY DEF EntriesInFile, TypeOK, JobType
<1>5. CASE /\ synced' = file
           /\ job' = [job EXCEPT !.at = "lock", !.todo = txn[job.who].ops]
           /\ UNCHANGED <<threads, status>>
    <2>1. job' \in JobType /\ job'.at = "lock" /\ job'.who = job.who
        BY <1>2, <1>4, <1>5 DEF JobType
    <2>2. EntriesInFile'
        BY <1>1, <1>4, <1>5, <2>1 DEF EntriesInFile, TypeOK, JobType, threads
    <2>3. JobInv' /\ DownInv'
        BY <1>1, <1>3, <1>5, <2>1 DEF JobInv, DownInv, threads, Commits
    <2>4. OffsetInv'
        BY <1>1, <1>3, <1>4, <1>5, <2>1 DEF OffsetInv
    <2>5. CommitInv'
        <3>1. PICK n \in 0..Len(txn[job.who].ops) :
                /\ Len(txn[job.who].ops) = n + Len(job.todo)
                /\ ~skewed => AtEnd(file, txn[job.who].ops, n)
            BY <1>1 DEF CommitInv
        <3>2. Len(<<>>) = 0
            OBVIOUS
        <3>3. Len(job.todo) = 0
            BY <1>1, <3>2, Zenon
        <3>4. n = Len(txn[job.who].ops)
            BY <1>2, <3>1, <3>3
        <3>5. txn' = txn /\ job'.who = job.who /\ skewed' = skewed /\ file' = file /\ synced' = file'
            BY <1>1, <1>5, <2>1 DEF threads
        <3> QED BY <2>1, <3>1, <3>4, <3>5 DEF CommitInv
    <2> QED BY <2>2, <2>3, <2>4, <2>5
<1>6. CASE Returns /\ synced' \in {file, synced}
    <2>1. JobInv' /\ DownInv' /\ CommitInv' /\ job' = NoJob /\ job' \in JobType /\ txn' \in TxnType
          /\ status' = status /\ next_txn_id' = next_txn_id /\ readers' = readers
        BY <1>1, <1>6, ReturnsStep
    <2>2. EntriesInFile'
        BY <1>1, <1>4, <1>6, <2>1 DEF EntriesInFile, TypeOK, JobType, TxnType
    <2>3. OffsetInv'
        BY <1>1, <1>3, <1>4, <1>6, <2>1, NoJobType DEF OffsetInv
    <2> QED BY <2>1, <2>2, <2>3
<1> QED BY <1>5, <1>6 DEF flush

\* Taking state_lock for writing keeps the invariant.
LEMMA LockStep ==
    ASSUME IInv, lock_state
    PROVE  IInv'
<1> USE DEF IInv
<1>1. /\ job.at = "lock" /\ job.at \in Commits /\ job \in JobType
      /\ job' = [job EXCEPT !.at = "apply"]
      /\ UNCHANGED <<fs, log, threads, status>>
    BY DEF lock_state, Commits, EntriesInFile, TypeOK, JobType
<1>2. job' \in JobType /\ job'.at = "apply" /\ job'.who = job.who
    BY <1>1 DEF JobType
<1>3. EntriesInFile'
    BY <1>1, <1>2 DEF EntriesInFile, TypeOK, JobType, threads, log
<1>4. JobInv' /\ DownInv'
    BY <1>1, <1>2 DEF JobInv, DownInv, threads, log, Commits
<1>5. OffsetInv'
    BY <1>1, <1>2 DEF OffsetInv, log
<1>6. CommitInv'
    BY <1>1, <1>2 DEF CommitInv, log, threads
<1> QED BY <1>3, <1>4, <1>5, <1>6

\* Applying an operation keeps the invariant, also when it fails.
LEMMA ApplyStep ==
    ASSUME IInv, apply
    PROVE  IInv'
<1> USE DEF IInv
<1>1. /\ job.at = "apply" /\ job.todo # <<>> /\ job.at \in Commits
      /\ job \in JobType /\ job.todo \in Seq(Operations) /\ fs \in Fs
      /\ UNCHANGED log
    BY DEF apply, Commits, EntriesInFile, TypeOK, JobType
<1>2. status # "down"
    BY <1>1 DEF DownInv
<1>3. CASE /\ Applies(fs, Head(job.todo))
           /\ fs' = Apply(fs, Head(job.todo))
           /\ job' = [job EXCEPT !.todo = Tail(@)]
           /\ UNCHANGED <<threads, status>>
    <2>1. Head(job.todo) \in Operations /\ Tail(job.todo) \in Seq(Operations)
        BY <1>1
    <2>2. fs' \in Fs
        BY <1>1, <1>3, <2>1, ApplyType
    <2>3. job' \in JobType /\ job'.at = "apply" /\ job'.who = job.who
        BY <1>1, <1>3, <2>1 DEF JobType
    <2>4. EntriesInFile'
        BY <1>1, <1>3, <2>2, <2>3 DEF EntriesInFile, TypeOK, JobType, threads, log
    <2>5. JobInv' /\ DownInv'
        BY <1>1, <1>2, <1>3, <2>3 DEF JobInv, DownInv, threads, log, Commits
    <2>6. OffsetInv'
        BY <1>1, <1>2, <1>3, <2>3 DEF OffsetInv, log
    <2>7. CommitInv'
        BY <1>1, <1>3, <2>3 DEF CommitInv, log, threads
    <2> QED BY <2>4, <2>5, <2>6, <2>7
<1>4. CASE Returns /\ UNCHANGED fs
    <2>1. JobInv' /\ DownInv' /\ CommitInv' /\ job' = NoJob /\ job' \in JobType /\ txn' \in TxnType
          /\ status' = status /\ next_txn_id' = next_txn_id /\ readers' = readers
        BY <1>1, <1>4, ReturnsStep
    <2>2. EntriesInFile'
        BY <1>1, <1>4, <2>1 DEF EntriesInFile, TypeOK, JobType, TxnType, log
    <2>3. OffsetInv'
        BY <1>1, <1>2, <2>1, NoJobType DEF OffsetInv, log
    <2> QED BY <2>1, <2>2, <2>3
<1> QED BY <1>3, <1>4 DEF apply

\* recover() stops at once in an empty log file and finds nothing.
LEMMA EmptyFile ==
    /\ <<>> \in Seq(Records) /\ Len(<<>>) = 0 /\ AstrayBehind(<<>>)
    /\ StopsAt(<<>>) = 0
    /\ \A r : Embeds(<<>>, r)
<1>1. <<>> \in Seq(Records) /\ Len(<<>>) = 0 /\ DOMAIN <<>> = {}
    OBVIOUS
<1>2. AstrayBehind(<<>>)
    BY <1>1, Zenon DEF AstrayBehind
<1>3. StopsAt(<<>>) \in 0..0
    BY <1>1, StopsAtIs
<1>4. ASSUME NEW r PROVE Embeds(<<>>, r)
    <2> DEFINE at == [i \in {} |-> 1]
    <2>1. at \in [{} -> DOMAIN r]
        OBVIOUS
    <2> HIDE DEF at
    <2>2. \E f \in [{} -> DOMAIN r] :
            /\ \A i, j \in {} : i < j => f[i] < f[j]
            /\ \A i \in {} : r[f[i]] = <<>>[i]
        BY <2>1
    <2> QED BY <1>1, <2>2, Zenon DEF Embeds
<1> QED BY <1>1, <1>2, <1>3, <1>4

\* clear_txn and its checkpoint keep the invariant: only applied records are dropped.
LEMMA ClearStep ==
    ASSUME IInv, clear_txn
    PROVE  IInv'
<1> USE DEF IInv
<1> DEFINE I == {i \in DOMAIN entries : entries[i].id # txn[job.who].id}
           kept == Kept(entries, I)
<1>1. /\ job.at = "apply" /\ job.at \in Commits /\ Returns /\ entries' = kept
      /\ UNCHANGED <<fs, synced>>
    BY DEF clear_txn, Commits
<1>2. JobInv' /\ DownInv' /\ CommitInv' /\ job' = NoJob /\ job' \in JobType /\ txn' \in TxnType
      /\ status' = status /\ status # "down" /\ next_txn_id' = next_txn_id /\ readers' = readers
    BY <1>1, ReturnsStep
<1>3. entries \in Seq(Records) /\ file \in Seq(Records)
    BY DEF EntriesInFile, TypeOK
<1>4. kept \in Seq(Records) /\ Embeds(kept, entries)
    BY <1>3, KeptType, KeptEmbeds
<1>5. CASE kept = <<>> /\ file' = <<>> /\ next_offset' = 0 /\ skewed' = FALSE /\ broken' = FALSE
    <2> HIDE DEF kept
    <2>1. /\ file' \in Seq(Records) /\ Len(file') = 0 /\ AstrayBehind(file') /\ StopsAt(file') = 0
          /\ Embeds(entries', Recovered(file'))
        BY <1>1, <1>5, EmptyFile, Zenon
    <2>a. /\ entries' \in Seq(Records) /\ next_offset' = 0 /\ skewed' = FALSE /\ broken' = FALSE
          /\ fs' = fs /\ synced' = synced
        BY <1>1, <1>4, <1>5
    <2>b. /\ next_offset' \in 0..MaxLog /\ Len(file') <= MaxLog
        BY <2>1, <2>a, WalAssumption
    <2>2. TypeOK'
        BY <1>2, <2>1, <2>a, <2>b, Zenon DEF EntriesInFile, TypeOK
    <2>3. EntriesInFile'
        BY <2>1, <2>2 DEF EntriesInFile
    <2>4. OffsetInv'
        BY <1>1, <1>2, <1>5, <2>1, NoJobType DEF OffsetInv
    <2> QED BY <1>2, <2>3, <2>4
<1>6. CASE UNCHANGED <<file, next_offset, skewed, broken>>
    <2> HIDE DEF kept
    <2>1. TypeOK'
        BY <1>1, <1>2, <1>4, <1>6 DEF EntriesInFile, TypeOK, JobType, TxnType
    <2>2. ASSUME ~broken PROVE Embeds(entries', Recovered(file'))
        <3>1. Embeds(entries, Recovered(file)) /\ Recovered(file) \in Seq(Records)
            BY <1>3, <2>2, RecoveredType DEF EntriesInFile
        <3>2. Embeds(kept, Recovered(file))
            BY <1>3, <1>4, <3>1, EmbedsTransitive
        <3> QED BY <1>1, <1>6, <3>2
    <2>3. EntriesInFile'
        BY <1>6, <2>1, <2>2 DEF EntriesInFile
    <2>4. OffsetInv'
        BY <1>1, <1>2, <1>6, NoJobType DEF OffsetInv
    <2> QED BY <1>2, <2>3, <2>4
<1> QED BY <1>5, <1>6 DEF clear_txn

\* A crash keeps the invariant: whatever file it leaves is what the manager will start from.
LEMMA CrashStep ==
    ASSUME IInv, Crash
    PROVE  IInv'
<1> USE DEF IInv
<1>1. file' \in Seq(Records) /\ Len(file') <= MaxLog /\ AstrayBehind(file')
    <2>1. PICK f \in Surviving : file' = f
        BY DEF Crash
    <2> QED BY <2>1, SurvivingType DEF EntriesInFile
<1>2. job' = NoJob /\ job' \in JobType /\ job'.at = "none" /\ job'.who = "none"
    BY NoJobType DEF Crash
<1>3. txn' \in TxnType
    BY NoTxnType DEF Crash, TxnType
<1>4. entries' \in Seq(Records) /\ Embeds(entries', Recovered(file'))
    BY EmptyFile, Zenon DEF Crash
<1>a. /\ status' = "down" /\ synced' = file' /\ next_offset' = 0 /\ skewed' = FALSE /\ broken' = FALSE
      /\ next_txn_id' = 1 /\ readers' = {} /\ fs' = fs
    BY DEF Crash
<1>b. next_offset' \in 0..MaxLog /\ next_txn_id' \in 1..(MaxTxn + 1)
    BY <1>a, WalAssumption
<1>5. EntriesInFile'
    BY <1>1, <1>2, <1>3, <1>4, <1>a, <1>b, Zenon DEF EntriesInFile, TypeOK
<1>6. JobInv' /\ CommitInv'
    BY <1>2 DEF JobInv, CommitInv, Commits
<1>7. DownInv'
    BY <1>2 DEF DownInv, Crash
<1>8. OffsetInv'
    BY <1>1, <1>2 DEF OffsetInv, Crash
<1> QED BY <1>5, <1>6, <1>7, <1>8

\* mount keeps the invariant: the log file is created anew.
LEMMA MountStep ==
    ASSUME IInv, mount
    PROVE  IInv'
<1> USE DEF IInv
<1>1. /\ file' \in Seq(Records) /\ Len(file') = 0 /\ AstrayBehind(file') /\ StopsAt(file') = 0
      /\ synced' = file' /\ Embeds(entries, Recovered(file'))
    <2>1. entries = <<>>
        BY DEF mount, DownInv
    <2> QED BY <2>1, EmptyFile, Zenon DEF mount
<1>2. EntriesInFile'
    BY <1>1, WalAssumption DEF mount, EntriesInFile, TypeOK, threads
<1>3. job' = NoJob /\ job'.at = "none" /\ job'.who = "none"
    BY NoJobType DEF mount
<1>4. JobInv' /\ CommitInv'
    BY <1>3 DEF JobInv, CommitInv, Commits
<1>5. DownInv'
    BY DEF DownInv, mount
<1>6. OffsetInv'
    <2>1. next_offset' = 0 /\ skewed' = skewed /\ ~skewed /\ status' = "up"
        BY NoJobType DEF mount, OffsetInv, DownInv
    <2> QED BY <1>1, <1>3, <2>1, WalAssumption DEF OffsetInv
<1> QED BY <1>2, <1>4, <1>5, <1>6

\* recover() at the start of replay keeps the invariant: its entries are those of the file.
LEMMA ReplayStep ==
    ASSUME IInv, replay
    PROVE  IInv'
<1> USE DEF IInv
<1>1. file \in Seq(Records) /\ Len(file) <= MaxLog /\ AstrayBehind(file)
    BY DEF EntriesInFile, TypeOK, OffsetInv
<1>2. StopsAt(file) \in 0..Len(file) /\ StopsAt(file) \in 0..MaxLog
    BY <1>1, StopsAtIs, WalAssumption
<1>3. Ops(Recovered(file)) \in Seq(Operations)
    BY <1>1, RecoveredType, OpsType
<1>4. job' \in JobType /\ job'.at = "replay" /\ job'.who = "none"
    BY <1>3 DEF replay, JobType
<1>5. EntriesInFile'
    BY <1>2, <1>4 DEF replay, EntriesInFile, TypeOK, JobType, threads
<1>6. JobInv' /\ CommitInv'
    BY <1>4 DEF JobInv, CommitInv, Commits
<1>7. DownInv'
    BY <1>4 DEF DownInv, replay, threads
<1>8. OffsetInv'
    BY <1>2, <1>4 DEF OffsetInv, replay
<1> QED BY <1>5, <1>6, <1>7, <1>8

\* Applying an operation of the log during replay keeps the invariant.
LEMMA ReplayApplyStep ==
    ASSUME IInv, replay_apply
    PROVE  IInv'
<1> USE DEF IInv
<1>1. /\ job.at = "replay" /\ job \in JobType /\ job.todo \in Seq(Operations) /\ fs \in Fs
      /\ job.who = "none" /\ UNCHANGED <<log, threads>>
    BY DEF replay_apply, EntriesInFile, TypeOK, JobType, JobInv, Commits
<1>2. CASE job' = NoJob /\ UNCHANGED fs /\ status' \in {"up", "failed"}
    <2>1. job' \in JobType /\ job'.at = "none" /\ job'.who = "none"
        BY <1>2, NoJobType
    <2>2. EntriesInFile'
        BY <1>1, <1>2, <2>1 DEF EntriesInFile, TypeOK, JobType, log, threads
    <2>3. JobInv' /\ CommitInv'
        BY <1>2, <2>1 DEF JobInv, CommitInv, Commits
    <2>4. DownInv'
        BY <1>2 DEF DownInv
    <2>5. OffsetInv'
        BY <1>1, <1>2, <2>1 DEF OffsetInv, log
    <2> QED BY <2>2, <2>3, <2>4, <2>5
<1>3. CASE /\ job.todo # <<>> /\ Applies(fs, Head(job.todo))
           /\ fs' = Apply(fs, Head(job.todo))
           /\ job' = [job EXCEPT !.todo = Tail(@)]
           /\ UNCHANGED status
    <2>1. Head(job.todo) \in Operations /\ Tail(job.todo) \in Seq(Operations)
        BY <1>1, <1>3
    <2>2. fs' \in Fs
        BY <1>1, <1>3, <2>1, ApplyType
    <2>3. job' \in JobType /\ job'.at = "replay" /\ job'.who = "none"
        BY <1>1, <1>3, <2>1 DEF JobType
    <2>4. EntriesInFile'
        BY <1>1, <1>3, <2>2, <2>3 DEF EntriesInFile, TypeOK, JobType, threads, log
    <2>5. JobInv' /\ CommitInv'
        BY <2>3 DEF JobInv, CommitInv, Commits
    <2>6. DownInv'
        BY <1>1, <1>3, <2>3 DEF DownInv, log, threads
    <2>7. OffsetInv'
        BY <1>1, <1>3, <2>3 DEF OffsetInv, log
    <2> QED BY <2>4, <2>5, <2>6, <2>7
<1> QED BY <1>2, <1>3 DEF replay_apply

\* The first mount satisfies the invariant.
LEMMA InitStep == Init => IInv
<1> SUFFICES ASSUME Init PROVE IInv
    OBVIOUS
<1>1. /\ file \in Seq(Records) /\ Len(file) = 0 /\ AstrayBehind(file) /\ StopsAt(file) = 0
      /\ synced = file /\ entries \in Seq(Records) /\ Embeds(entries, Recovered(file))
    BY EmptyFile, Zenon DEF Init
<1>2. job = NoJob /\ job \in JobType /\ job.at = "none" /\ job.who = "none"
    BY NoJobType DEF Init
<1>3. txn \in TxnType
    BY NoTxnType DEF Init, TxnType
<1>4. /\ fs = InitialFs /\ next_offset = 0 /\ skewed = FALSE /\ broken = FALSE
      /\ next_txn_id = 1 /\ readers = {} /\ status = "up"
    BY DEF Init
<1>a. next_offset \in 0..MaxLog /\ next_txn_id \in 1..(MaxTxn + 1) /\ fs \in Fs /\ Len(file) <= MaxLog
    BY <1>1, <1>4, WalAssumption
<1>5. EntriesInFile
    BY <1>1, <1>2, <1>3, <1>4, <1>a, Zenon DEF EntriesInFile, TypeOK
<1>6. JobInv /\ DownInv /\ CommitInv
    BY <1>2, <1>4 DEF JobInv, DownInv, CommitInv, Commits
<1>7. OffsetInv
    BY <1>1, <1>2, <1>4, WalAssumption DEF OffsetInv
<1> QED BY <1>5, <1>6, <1>7 DEF IInv

\* A step that changes nothing keeps the invariant.
LEMMA StutterStep ==
    ASSUME IInv, UNCHANGED vars
    PROVE  IInv'
<1> USE DEF vars, log, threads
<1>1. EntriesInFile'
    BY DEF IInv, EntriesInFile, TypeOK
<1>2. JobInv' /\ DownInv'
    BY DEF IInv, JobInv, DownInv
<1>3. OffsetInv'
    BY DEF IInv, OffsetInv
<1>4. CommitInv'
    BY DEF IInv, CommitInv
<1> QED BY <1>1, <1>2, <1>3, <1>4 DEF IInv

\* The invariant of the log, which every step keeps.
THEOREM WalInvariant == Spec => []IInv
<1>1. Init => IInv
    BY InitStep
<1>2. IInv /\ [Next]_vars => IInv'
    <2> SUFFICES ASSUME IInv, [Next]_vars PROVE IInv'
        OBVIOUS
    <2>1. CASE UNCHANGED vars
        BY <2>1, StutterStep
    <2>2. CASE append \/ flush \/ lock_state \/ apply \/ clear_txn
        BY <2>2, AppendStep, FlushStep, LockStep, ApplyStep, ClearStep
    <2>3. CASE Crash \/ mount \/ replay \/ replay_apply
        BY <2>3, CrashStep, MountStep, ReplayStep, ReplayApplyStep
    <2>4. ASSUME NEW t \in Threads,
                 \/ begin_transaction(t) \/ rollback(t)
                 \/ commit(t, "commit") \/ commit(t, "wal_only")
                 \/ read_lock(t) \/ read_unlock(t)
          PROVE  IInv'
        BY <2>4, BeginStep, RollbackStep, StartCommitStep, ReaderStep
    <2> QED BY <2>1, <2>2, <2>3, <2>4 DEF Next
<1> QED BY <1>1, <1>2, PTL DEF Spec

\* The state keeps its type, and what WriteAheadLog keeps in memory recover() finds
\* in the log file, in the same order, unless a record's data was not written: for
\* every number of threads, transactions and records.
THEOREM EntriesTheorem == Spec => []EntriesInFile
<1>1. IInv => EntriesInFile
    BY DEF IInv
<1> QED BY <1>1, WalInvariant, PTL

\* From the flush to the end of commit, recover() finds the operations of the
\* transaction at the end of every log file that a crash may leave.
THEOREM DurableTheorem == Spec => []Durable
<1>1. IInv => Durable
    <2> SUFFICES ASSUME IInv, job.at \in {"lock", "apply"}, ~skewed, NEW f \in Surviving
                 PROVE  LET ops == txn[job.who].ops
                            r == Recovered(f)
                            k == Len(r) - Len(ops)
                        IN  k >= 0 /\ \A i \in DOMAIN ops : r[k + i].op = ops[i]
        BY DEF Durable
    <2> DEFINE ops == txn[job.who].ops
               r == Recovered(file)
    <2>1. file \in Seq(Records) /\ synced = file /\ AtEnd(file, ops, Len(ops))
        BY DEF IInv, EntriesInFile, TypeOK, CommitInv
    <2>2. f = file
        BY <2>1, SurvivingSynced
    <2>3. ops \in Seq(Operations)
        BY CommitTxn DEF IInv, EntriesInFile, Commits
    <2>4. r \in Seq(Records)
        BY <2>1, RecoveredType
    <2>5. Len(ops) \in Nat /\ Len(r) \in Nat /\ DOMAIN ops = 1..Len(ops)
        BY <2>3, <2>4
    <2>6. Len(r) - Len(ops) >= 0 /\ \A i \in 1..Len(ops) : r[Len(r) - Len(ops) + i].op = ops[i]
        <3>1. Len(ops) <= Len(r) /\ \A i \in 1..Len(ops) : r[Len(r) - Len(ops) + i].op = ops[i]
            BY <2>1, Zenon DEF AtEnd
        <3> HIDE DEF ops, r
        <3> QED BY <2>5, <3>1
    <2> QED BY <2>2, <2>5, <2>6
<1> QED BY <1>1, WalInvariant, PTL

-----------------------------------------------------------------------------
(* Readers *)

\* Unless replay() is called while the file system is up, what changes it runs
\* while nobody reads.
ReadersInv ==
    /\ job.at \in {"none"} \cup Commits \cup {"replay"}
    /\ job.at = "apply" => readers = {}
    /\ job.at = "replay" => status = "down"
    /\ status # "up" => readers = {}

\* No reader that holds state_lock sees the file system change under it, if replay()
\* is only called before the file system is up: readers and writers exclude each other.
THEOREM ReadersTheorem ==
    ASSUME ~WalOnly
    PROVE  Spec => StableForReaders
<1> USE NoJobType DEF ReadersInv, Commits
<1>1. Init => ReadersInv
    BY DEF Init
<1>2. IInv /\ ReadersInv /\ [Next]_vars => ReadersInv' /\ (readers # {} => UNCHANGED fs)
    <2> SUFFICES ASSUME IInv, ReadersInv, [Next]_vars
                 PROVE  ReadersInv' /\ (readers # {} => UNCHANGED fs)
        OBVIOUS
    <2> job \in JobType
        BY DEF IInv, EntriesInFile, TypeOK
    <2> USE DEF JobType
    <2>1. CASE UNCHANGED vars
        BY <2>1 DEF vars, log, threads
    <2>2. CASE append
        BY <2>2 DEF append, Returns, threads
    <2>3. CASE flush
        BY <2>3 DEF flush, Returns, threads
    <2>4. CASE lock_state
        BY <2>4 DEF lock_state, threads
    <2>5. CASE apply
        BY <2>5 DEF apply, Returns, threads
    <2>6. CASE clear_txn
        <3>1. job' = NoJob /\ readers' = readers /\ status' = status /\ fs' = fs /\ job.at = "apply"
            BY <2>6 DEF clear_txn, Returns
        <3> QED BY <3>1
    <2>7. CASE Crash
        BY <2>7 DEF Crash
    <2>8. CASE mount
        BY <2>8 DEF mount, threads
    <2>9. CASE replay
        BY <2>9 DEF replay, threads
    <2>10. CASE replay_apply
        BY <2>10 DEF replay_apply, threads
    <2>11. ASSUME NEW t \in Threads,
                  \/ begin_transaction(t) \/ rollback(t)
                  \/ commit(t, "commit") \/ commit(t, "wal_only")
                  \/ read_lock(t) \/ read_unlock(t)
           PROVE  ReadersInv' /\ (readers # {} => UNCHANGED fs)
        BY <2>11 DEF begin_transaction, rollback, commit, read_lock, read_unlock, threads
    <2> QED BY <2>1, <2>2, <2>3, <2>4, <2>5, <2>6, <2>7, <2>8, <2>9, <2>10, <2>11 DEF Next
<1>3. QED
    <2>1. IInv /\ ReadersInv /\ [Next]_vars => [readers # {} => UNCHANGED fs]_vars
        BY <1>2
    <2>2. IInv /\ ReadersInv /\ [Next]_vars => ReadersInv'
        BY <1>2
    <2> HIDE DEF ReadersInv
    <2> QED BY <1>1, <2>1, <2>2, WalInvariant, PTL DEF Spec, StableForReaders

-----------------------------------------------------------------------------
(* The manager implements AtomicTxns *)

\* Writes and truncates of the inodes that are there.
LiveOps == {op \in Writes \cup Truncates : InitialFs.data[op.ino] # "gone"}

\* How rvfs2 uses transactions for write_at and truncate, with a storage that does
\* not fail and a replay() after every crash.
SingleDataOps ==
    /\ ~WalOnly /\ ~StorageFails /\ ~ApplyFails /\ "mount" \notin Starts
    /\ \A ops \in Transactions : ops \in Seq(LiveOps) /\ Len(ops) = 1

\* What replay() would apply.
LogOps(f) == Ops(Recovered(f))

\* Applying what is in log file f changes nothing.
Settled(f) == ApplyAll(fs, LogOps(f)) = fs

Alive(f) == \A i \in Inos : InitialFs.data[i] # "gone" => f.data[i] # "gone"

InPlace(f) == \A i \in DOMAIN f : f[i].is # "astray" /\ f[i].op \in LiveOps

DataInv ==
    /\ status # "failed" /\ ~skewed
    /\ Alive(fs) /\ InPlace(file) /\ InPlace(synced)
    /\ job.todo \in Seq(LiveOps)
    /\ \A t \in Threads : txn[t] # NoTxn => txn[t].ops \in Transactions
    /\ job.at = "append" => job.kind = "commit"
    /\ job.at = "replay" => status = "down"
    /\ status = "down" => synced = file

\* Before the flush, the log holds what is applied and perhaps the operation that
\* is being committed; nothing else can be in it after a crash.
BeforeFlush ==
    status = "up" /\ job.at \in {"none", "append"} =>
        /\ Settled(synced)
        /\ \E base \in {synced, <<>>} :
            /\ Settled(base)
            /\ \/ file = base /\ (job.at = "append" => job.todo = txn[job.who].ops)
               \/ /\ job.at = "append" /\ job.todo = <<>>
                  /\ \E r \in Records :
                        r.is = "good" /\ file = Append(base, r) /\ txn[job.who].ops = <<r.op>>

\* From the flush to the end of the commit, and in replay(), what is left to do makes
\* the difference that the log would make, and is in the log.
Pending ==
    job.at \in {"lock", "apply", "replay"} =>
        /\ ApplyAll(fs, LogOps(file)) = ApplyAll(fs, job.todo)
        /\ \A i \in DOMAIN job.todo : \E j \in DOMAIN LogOps(file) :
                LogOps(file)[j].ino = job.todo[i].ino

AtomicInv == IInv /\ DataInv /\ BeforeFlush /\ Pending

-----------------------------------------------------------------------------
(* What ApplyAll computes *)

After(f, op) == IF Applies(f, op) THEN Apply(f, op) ELSE f

IsAll(K, f, ops, n) ==
    K = [k \in 0..n |-> IF k = 0 THEN f
                        ELSE IF Applies(K[k - 1], ops[k]) THEN Apply(K[k - 1], ops[k]) ELSE K[k - 1]]

AllRule(K, f, ops, n) ==
    /\ K[0] = f
    /\ \A k \in Nat : k + 1 <= n => K[k + 1] = After(K[k], ops[k + 1])

\* The recursion of ApplyAll has a solution up to every length.
LEMMA AllExists ==
    ASSUME NEW f, NEW ops, NEW m \in Nat
    PROVE  \E K : IsAll(K, f, ops, m)
<1> DEFINE T == {n \in Nat : \E K : IsAll(K, f, ops, n)}
<1>1. 0 \in T
    <2>1. IsAll([k \in 0..0 |-> f], f, ops, 0)
        BY DEF IsAll
    <2> QED BY <2>1
<1>2. ASSUME NEW n \in Nat, n \in T PROVE n + 1 \in T
    <2>1. PICK K : IsAll(K, f, ops, n)
        BY <1>2
    <2> DEFINE L == [k \in 0..(n + 1) |->
                        IF k <= n THEN K[k]
                        ELSE IF Applies(K[n], ops[k]) THEN Apply(K[n], ops[k]) ELSE K[n]]
    <2>2. ASSUME NEW k \in 0..(n + 1)
          PROVE  L[k] = IF k = 0 THEN f
                        ELSE IF Applies(L[k - 1], ops[k]) THEN Apply(L[k - 1], ops[k]) ELSE L[k - 1]
        <3>1. CASE k = 0
            BY <2>1, <3>1 DEF IsAll
        <3>2. CASE k <= n /\ k # 0
            <4>1. k \in 0..n /\ k - 1 \in 0..n /\ k - 1 <= n /\ k - 1 \in 0..(n + 1)
                BY <3>2
            <4>2. L[k] = K[k] /\ L[k - 1] = K[k - 1]
                BY <3>2, <4>1
            <4>3. K[k] = IF k = 0 THEN f
                         ELSE IF Applies(K[k - 1], ops[k]) THEN Apply(K[k - 1], ops[k]) ELSE K[k - 1]
                BY <2>1, <4>1 DEF IsAll
            <4> HIDE DEF L
            <4> QED BY <4>2, <4>3
        <3>3. CASE k = n + 1
            BY <3>3
        <3> QED BY <3>1, <3>2, <3>3
    <2>3. IsAll(L, f, ops, n + 1)
        BY <2>2 DEF IsAll
    <2> QED BY <2>3
<1> HIDE DEF T
<1>3. m \in T
    BY <1>1, <1>2, Induction
<1> QED BY <1>3 DEF T

\* ApplyAll takes one operation after the other.
LEMMA AllByRule ==
    ASSUME NEW f, NEW ops, NEW n \in Nat, n = Len(ops)
    PROVE  \E K : AllRule(K, f, ops, n) /\ ApplyAll(f, ops) = K[n]
<1>1. \E K : IsAll(K, f, ops, Len(ops))
    BY AllExists
<1> DEFINE K == CHOOSE K : IsAll(K, f, ops, Len(ops))
<1>2. IsAll(K, f, ops, n)
    BY <1>1
<1>3. ApplyAll(f, ops) = K[n]
    BY DEF ApplyAll, IsAll
<1> HIDE DEF K
<1>4. \A k \in 0..n : K[k] = IF k = 0 THEN f
                             ELSE IF Applies(K[k - 1], ops[k]) THEN Apply(K[k - 1], ops[k]) ELSE K[k - 1]
    BY <1>2 DEF IsAll
<1>5. ASSUME NEW k \in Nat, k + 1 <= n
      PROVE  K[k + 1] = After(K[k], ops[k + 1])
    <2>1. k + 1 \in 0..n /\ k + 1 # 0 /\ (k + 1) - 1 = k
        BY <1>5
    <2> QED BY <1>4, <2>1 DEF After
<1>6. K[0] = f
    BY <1>4
<1> QED BY <1>3, <1>5, <1>6 DEF AllRule

\* Two solutions agree.
LEMMA AllUnique ==
    ASSUME NEW f, NEW ops, NEW n \in Nat, NEW K, NEW L, AllRule(K, f, ops, n), AllRule(L, f, ops, n)
    PROVE  K[n] = L[n]
<1> DEFINE T == {k \in Nat : k <= n => K[k] = L[k]}
<1>1. 0 \in T
    BY DEF AllRule
<1>2. ASSUME NEW k \in Nat, k \in T PROVE k + 1 \in T
    <2> SUFFICES ASSUME k + 1 <= n PROVE K[k + 1] = L[k + 1]
        OBVIOUS
    <2>1. K[k] = L[k]
        BY <1>2
    <2> QED BY <2>1 DEF AllRule
<1> HIDE DEF T
<1>3. n \in T
    BY <1>1, <1>2, Induction
<1> QED BY <1>3 DEF T

\* Applying no operation changes nothing.
LEMMA AllNone ==
    ASSUME NEW f
    PROVE  ApplyAll(f, <<>>) = f
<1>1. Len(<<>>) = 0
    OBVIOUS
<1>2. PICK K : AllRule(K, f, <<>>, 0) /\ ApplyAll(f, <<>>) = K[0]
    BY <1>1, AllByRule
<1> QED BY <1>2, Zenon DEF AllRule

\* The last operation comes last ...
LEMMA AllAppend ==
    ASSUME NEW S, NEW f, NEW s \in Seq(S), NEW op \in S
    PROVE  ApplyAll(f, Append(s, op)) = After(ApplyAll(f, s), op)
<1> DEFINE n == Len(s)
           t == Append(s, op)
<1>1. n \in Nat /\ Len(t) = n + 1 /\ t[n + 1] = op /\ \A k \in 1..n : t[k] = s[k]
    OBVIOUS
<1> HIDE DEF t
<1>2. PICK K : AllRule(K, f, s, n) /\ ApplyAll(f, s) = K[n]
    BY <1>1, AllByRule
<1>3. PICK L : AllRule(L, f, t, n + 1) /\ ApplyAll(f, t) = L[n + 1]
    BY <1>1, AllByRule
<1> HIDE DEF n
<1>4. AllRule(L, f, s, n)
    <2>1. ASSUME NEW k \in Nat, k + 1 <= n PROVE L[k + 1] = After(L[k], s[k + 1])
        <3>1. k + 1 <= n + 1 /\ t[k + 1] = s[k + 1]
            BY <1>1, <2>1
        <3> QED BY <1>3, <3>1 DEF AllRule
    <2> QED BY <1>3, <2>1 DEF AllRule
<1>5. K[n] = L[n]
    BY <1>1, <1>2, <1>4, AllUnique
<1>6. L[n + 1] = After(L[n], t[n + 1])
    <2>1. n + 1 <= n + 1
        BY <1>1
    <2> QED BY <1>1, <1>3, <2>1 DEF AllRule
<1> QED BY <1>1, <1>2, <1>3, <1>5, <1>6 DEF t

\* ... and the first one first.
LEMMA AllHead ==
    ASSUME NEW S, NEW f, NEW s \in Seq(S), s # <<>>
    PROVE  ApplyAll(f, s) = ApplyAll(After(f, Head(s)), Tail(s))
<1> DEFINE n == Len(s)
           t == Tail(s)
           g == After(f, Head(s))
<1>1. /\ n \in Nat /\ n >= 1 /\ Len(t) = n - 1 /\ n - 1 \in Nat /\ Head(s) = s[1]
      /\ \A k \in 1..(n - 1) : t[k] = s[k + 1]
    OBVIOUS
<1> HIDE DEF t, g
<1>2. PICK K : AllRule(K, f, s, n) /\ ApplyAll(f, s) = K[n]
    BY <1>1, AllByRule
<1>3. PICK L : AllRule(L, g, t, n - 1) /\ ApplyAll(g, t) = L[n - 1]
    BY <1>1, AllByRule
<1> HIDE DEF n
<1> DEFINE M == [k \in 0..(n - 1) |-> K[k + 1]]
<1>4. AllRule(M, g, t, n - 1)
    <2>1. K[1] = g
        <3>1. 0 \in Nat /\ 0 + 1 <= n
            BY <1>1
        <3>2. K[0 + 1] = After(K[0], s[0 + 1])
            BY <1>2, <3>1 DEF AllRule
        <3> QED BY <1>1, <1>2, <3>2 DEF AllRule, g
    <2>2. M[0] = g
        BY <1>1, <2>1
    <2>3. ASSUME NEW k \in Nat, k + 1 <= n - 1 PROVE M[k + 1] = After(M[k], t[k + 1])
        <3>1. M[k + 1] = K[(k + 1) + 1] /\ M[k] = K[k + 1]
            BY <1>1, <2>3
        <3>2. (k + 1) + 1 <= n /\ k + 1 \in Nat /\ k + 1 \in 1..(n - 1)
            BY <1>1, <2>3
        <3>3. K[(k + 1) + 1] = After(K[k + 1], s[(k + 1) + 1])
            BY <1>2, <3>2 DEF AllRule
        <3>4. t[k + 1] = s[(k + 1) + 1]
            BY <1>1, <3>2
        <3> QED BY <3>1, <3>3, <3>4
    <2> HIDE DEF M
    <2> QED BY <2>2, <2>3 DEF AllRule
<1>5. M[n - 1] = K[n]
    BY <1>1
<1> HIDE DEF M
<1>6. M[n - 1] = L[n - 1]
    BY <1>1, <1>3, <1>4, AllUnique
<1> QED BY <1>2, <1>3, <1>5, <1>6 DEF t, g

\* What a write or truncate leaves in the inode.
Value(op) == IF op.kind = "write" THEN op.with ELSE Empty

\* A write or truncate of an inode that is there applies, and sets its contents.
LEMMA LiveAfter ==
    ASSUME NEW f \in Fs, Alive(f), NEW op \in LiveOps
    PROVE  /\ Applies(f, op) /\ After(f, op) = Apply(f, op)
           /\ op \in Operations /\ op.ino \in Inos
           /\ After(f, op) = [f EXCEPT !.data[op.ino] = Value(op)]
           /\ After(f, op) \in Fs /\ Alive(After(f, op))
<1>1. /\ op \in Operations /\ op.ino \in Inos /\ op.kind \in {"write", "truncate"}
      /\ f.data[op.ino] # "gone"
      /\ Value(op) \in Contents
    BY FsAssumption DEF LiveOps, Operations, Writes, Truncates, Alive, Value
<1>2. Applies(f, op)
    BY <1>1 DEF Applies
<1>3. Apply(f, op) = [f EXCEPT !.data[op.ino] = Value(op)]
    BY <1>1 DEF Apply, dbfs_write, dbfs_truncate, Value
<1>4. Apply(f, op) \in Fs
    BY <1>1, <1>2, ApplyType
<1>5. Value(op) # "gone"
    BY <1>1, FsAssumption
<1>6. Alive(Apply(f, op))
    BY <1>1, <1>3, <1>5 DEF Alive, Fs
<1> QED BY <1>1, <1>2, <1>3, <1>4, <1>6 DEF After

\* Two file systems that differ only in what s sets are the same after s.
LEMMA SameAfter ==
    ASSUME NEW f \in Fs, NEW g \in Fs, Alive(f), Alive(g), NEW s \in Seq(LiveOps),
           f.dir = g.dir, f.next = g.next,
           \A i \in Inos : f.data[i] = g.data[i] \/ \E j \in DOMAIN s : s[j].ino = i
    PROVE  ApplyAll(f, s) = ApplyAll(g, s)
<1> DEFINE n == Len(s)
<1>1. n \in Nat /\ DOMAIN s = 1..n /\ \A k \in 1..n : s[k] \in LiveOps
    OBVIOUS
<1>2. PICK K : AllRule(K, f, s, n) /\ ApplyAll(f, s) = K[n]
    BY <1>1, AllByRule
<1>3. PICK L : AllRule(L, g, s, n) /\ ApplyAll(g, s) = L[n]
    BY <1>1, AllByRule
<1> HIDE DEF n
<1> DEFINE Agree(k) ==
        /\ K[k] \in Fs /\ L[k] \in Fs /\ Alive(K[k]) /\ Alive(L[k])
        /\ K[k].dir = L[k].dir /\ K[k].next = L[k].next
        /\ \A i \in Inos : (f.data[i] = g.data[i] \/ \E j \in 1..k : s[j].ino = i)
                                => K[k].data[i] = L[k].data[i]
           T == {k \in Nat : k <= n => Agree(k)}
<1>4. 0 \in T
    <2>1. K[0] = f /\ L[0] = g
        BY <1>2, <1>3 DEF AllRule
    <2>2. Agree(0)
        BY <2>1
    <2> QED BY <2>2
<1>5. ASSUME NEW k \in Nat, k \in T PROVE k + 1 \in T
    <2> SUFFICES ASSUME k + 1 <= n PROVE Agree(k + 1)
        OBVIOUS
    <2> DEFINE op == s[k + 1]
    <2>1. Agree(k)
        BY <1>1, <1>5
    <2>2. op \in LiveOps
        BY <1>1
    <2>3. K[k + 1] = After(K[k], op) /\ L[k + 1] = After(L[k], op)
        BY <1>2, <1>3 DEF AllRule
    <2>4. /\ K[k + 1] = [K[k] EXCEPT !.data[op.ino] = Value(op)]
          /\ K[k + 1] \in Fs /\ Alive(K[k + 1]) /\ op.ino \in Inos
        BY <2>1, <2>2, <2>3, LiveAfter
    <2>5. /\ L[k + 1] = [L[k] EXCEPT !.data[op.ino] = Value(op)]
          /\ L[k + 1] \in Fs /\ Alive(L[k + 1])
        BY <2>1, <2>2, <2>3, LiveAfter
    <2>6. /\ K[k + 1].dir = K[k].dir /\ K[k + 1].next = K[k].next
          /\ \A i \in Inos : K[k + 1].data[i] = IF i = op.ino THEN Value(op) ELSE K[k].data[i]
        BY <2>1, <2>4 DEF Fs
    <2>7. /\ L[k + 1].dir = L[k].dir /\ L[k + 1].next = L[k].next
          /\ \A i \in Inos : L[k + 1].data[i] = IF i = op.ino THEN Value(op) ELSE L[k].data[i]
        BY <2>1, <2>5 DEF Fs
    <2>8. ASSUME NEW i \in Inos, f.data[i] = g.data[i] \/ \E j \in 1..(k + 1) : s[j].ino = i
          PROVE  K[k + 1].data[i] = L[k + 1].data[i]
        <3>1. CASE i = op.ino
            BY <2>6, <2>7, <3>1
        <3>2. CASE i # op.ino
            <4>1. ASSUME NEW j \in 1..(k + 1), s[j].ino = i PROVE j \in 1..k
                <5>1. j # k + 1
                    BY <3>2, <4>1
                <5> QED BY <5>1
            <4>2. f.data[i] = g.data[i] \/ \E j \in 1..k : s[j].ino = i
                BY <2>8, <4>1
            <4>3. K[k].data[i] = L[k].data[i]
                BY <2>1, <4>2
            <4> QED BY <2>6, <2>7, <3>2, <4>3
        <3> QED BY <3>1, <3>2
    <2> HIDE DEF op
    <2> QED BY <2>1, <2>4, <2>5, <2>6, <2>7, <2>8
<1> HIDE DEF T
<1>6. n \in T
    BY <1>1, <1>4, <1>5, Induction
<1>7. Agree(n)
    BY <1>1, <1>6 DEF T
<1>8. \A i \in Inos : K[n].data[i] = L[n].data[i]
    BY <1>1, <1>7
<1>9. K[n] = L[n]
    <2> DEFINE x == K[n]
               y == L[n]
    <2>1. x \in Fs /\ y \in Fs /\ x.dir = y.dir /\ x.next = y.next
          /\ \A i \in Inos : x.data[i] = y.data[i]
        BY <1>7, <1>8
    <2> HIDE DEF x, y
    <2>2. x.data = y.data
        BY <2>1 DEF Fs
    <2>3. x = [dir |-> x.dir, data |-> x.data, next |-> x.next]
        BY <2>1 DEF Fs
    <2>4. y = [dir |-> y.dir, data |-> y.data, next |-> y.next]
        BY <2>1 DEF Fs
    <2>5. x = y
        BY <2>1, <2>2, <2>3, <2>4, Zenon
    <2> QED BY <2>5 DEF x, y
<1> QED BY <1>2, <1>3, <1>9

\* The next operation that is left to do, when the log makes the same difference.
LEMMA PendingNext ==
    ASSUME NEW f \in Fs, Alive(f), NEW s \in Seq(LiveOps), NEW todo \in Seq(LiveOps), todo # <<>>,
           ApplyAll(f, s) = ApplyAll(f, todo),
           \A i \in DOMAIN todo : \E j \in DOMAIN s : s[j].ino = todo[i].ino
    PROVE  /\ Applies(f, Head(todo)) /\ Apply(f, Head(todo)) \in Fs /\ Alive(Apply(f, Head(todo)))
           /\ ApplyAll(Apply(f, Head(todo)), s) = ApplyAll(f, s)
           /\ ApplyAll(Apply(f, Head(todo)), Tail(todo)) = ApplyAll(f, todo)
           /\ Tail(todo) \in Seq(LiveOps)
           /\ \A i \in DOMAIN Tail(todo) : \E j \in DOMAIN s : s[j].ino = Tail(todo)[i].ino
<1> DEFINE op == Head(todo)
           g == Apply(f, op)
           rest == Tail(todo)
<1>1. op \in LiveOps /\ rest \in Seq(LiveOps) /\ op = todo[1] /\ 1 \in DOMAIN todo
    OBVIOUS
<1>2. \A i \in DOMAIN rest : i + 1 \in DOMAIN todo /\ rest[i] = todo[i + 1]
    OBVIOUS
<1>3. ApplyAll(f, todo) = ApplyAll(After(f, op), rest)
    BY AllHead
<1> HIDE DEF op, rest
<1>4. /\ Applies(f, op) /\ After(f, op) = g /\ g \in Fs /\ Alive(g) /\ op.ino \in Inos
      /\ g = [f EXCEPT !.data[op.ino] = Value(op)]
    BY <1>1, LiveAfter
<1> HIDE DEF g
<1>5. g.dir = f.dir /\ g.next = f.next /\ \A i \in Inos : i # op.ino => g.data[i] = f.data[i]
    BY <1>4 DEF Fs
<1>6. \A i \in Inos : g.data[i] = f.data[i] \/ \E j \in DOMAIN s : s[j].ino = i
    BY <1>1, <1>5
<1>7. ApplyAll(g, s) = ApplyAll(f, s)
    BY <1>4, <1>5, <1>6, SameAfter
<1>8. \A i \in DOMAIN rest : \E j \in DOMAIN s : s[j].ino = rest[i].ino
    BY <1>2
<1> QED BY <1>1, <1>3, <1>4, <1>7, <1>8 DEF op, rest, g

-----------------------------------------------------------------------------
(* The log without failures *)

\* Without records that are astray, appends go to the end of the file.
LEMMA InPlaceAppend ==
    ASSUME NEW f \in Seq(Records), InPlace(f)
    PROVE  /\ StopsAt(f) = Len(f)
           /\ \A r : WriteAt(f, Len(f), r) = Append(f, r)
           /\ \A r \in Records : r.is = "good" => LogOps(Append(f, r)) = Append(LogOps(f), r.op)
           /\ \A r \in Records : r.is = "torn" => LogOps(Append(f, r)) = LogOps(f)
<1>1. Len(f) \in Nat /\ DOMAIN f = 1..Len(f)
    OBVIOUS
<1>2. StopsAt(f) = Len(f)
    <2>1. Len(f) \in 0..Len(f) /\ ~(Len(f) < Len(f)) /\ \A i \in 1..Len(f) : f[i].is # "astray"
        BY <1>1 DEF InPlace
    <2> QED BY <2>1, StopsAtUnique
<1>3. \A r : WriteAt(f, Len(f), r) = Append(f, r)
    <2>1. ~(Len(f) < Len(f))
        BY <1>1
    <2> QED BY <2>1, Zenon DEF WriteAt
<1>4. AstrayBehind(f)
    BY DEF AstrayBehind, InPlace
<1>5. Recovered(f) \in Seq(Records)
    BY RecoveredType
<1>6. ASSUME NEW r \in Records, r.is = "good"
      PROVE  LogOps(Append(f, r)) = Append(LogOps(f), r.op)
    <2>0. Append(f, r) = WriteAt(f, StopsAt(f), r) /\ r.is # "astray"
        BY <1>2, <1>3, <1>6
    <2>1. Recovered(Append(f, r)) = Append(Recovered(f), r)
        BY <1>4, <1>6, <2>0, WriteAtStop
    <2> DEFINE a == Recovered(f)
    <2>2. Ops(Append(a, r)) = Append(Ops(a), r.op)
        <3> HIDE DEF a
        <3>1. a \in Seq(Records)
            BY <1>5 DEF a
        <3> QED BY <3>1 DEF Ops
    <2> QED BY <2>1, <2>2 DEF LogOps
<1>7. ASSUME NEW r \in Records, r.is = "torn"
      PROVE  LogOps(Append(f, r)) = LogOps(f)
    <2>0. Append(f, r) = WriteAt(f, StopsAt(f), r) /\ r.is # "astray"
        BY <1>2, <1>3, <1>7
    <2>1. Recovered(Append(f, r)) = Recovered(f)
        BY <1>4, <1>7, <2>0, WriteAtStop
    <2> QED BY <2>1 DEF LogOps
<1> QED BY <1>2, <1>3, <1>6, <1>7

\* The operations that replay finds in a log without failed writes are those of inodes that exist.
LEMMA LogOpsType ==
    ASSUME NEW f \in Seq(Records), InPlace(f)
    PROVE  LogOps(f) \in Seq(LiveOps)
<1> DEFINE r == Recovered(f)
<1>1. r \in Seq(Records)
    BY RecoveredType
<1>2. Embeds(r, f)
    BY KeptEmbeds DEF Recovered
<1> HIDE DEF r
<1>3. \A i \in DOMAIN r : r[i].op \in LiveOps
    <2>1. PICK at \in [DOMAIN r -> DOMAIN f] : \A i \in DOMAIN r : f[at[i]] = r[i]
        BY <1>2 DEF Embeds
    <2>2. ASSUME NEW i \in DOMAIN r PROVE r[i].op \in LiveOps
        <3>1. at[i] \in DOMAIN f /\ f[at[i]] = r[i]
            BY <2>1
        <3>2. f[at[i]].op \in LiveOps
            BY <3>1 DEF InPlace
        <3> QED BY <3>1, <3>2
    <2> QED BY <2>2
<1>4. Ops(r) \in Seq(LiveOps)
    BY <1>1, <1>3 DEF Ops
<1> QED BY <1>4 DEF LogOps, r

\* An empty log holds no operation.
LEMMA LogOpsEmpty == LogOps(<<>>) = <<>> /\ InPlace(<<>>)
<1>1. <<>> \in Seq(Records) /\ Len(<<>>) = 0 /\ DOMAIN <<>> = {}
    OBVIOUS
<1>2. Recovered(<<>>) \in Seq(Records) /\ Len(Recovered(<<>>)) <= 0
    BY <1>1, KeptType DEF Recovered
<1>3. Recovered(<<>>) = <<>>
    BY <1>2
<1>4. Ops(<<>>) = <<>>
    BY DEF Ops
<1>5. LogOps(<<>>) = <<>>
    BY <1>3, <1>4, Zenon DEF LogOps
<1>6. InPlace(<<>>)
    BY <1>1, Zenon DEF InPlace
<1> QED BY <1>5, <1>6

\* The prefixes of a log file whose last record may not be flushed.
LEMMA PrefixIs ==
    ASSUME NEW base \in Seq(Records), NEW f \in Seq(Records),
           f = base \/ \E r \in Records : f = Append(base, r),
           NEW g \in Prefixes(f), Len(g) >= Len(base)
    PROVE  g = base \/ g = f
<1>1. PICK n \in 0..Len(f) : g = SubSeq(f, 1, n)
    BY DEF Prefixes
<1>2. Len(f) \in Nat /\ Len(base) \in Nat /\ Len(g) = n /\ g \in Seq(Records)
      /\ \A i \in 1..n : g[i] = f[i]
    BY <1>1
<1>3. CASE n = Len(f)
    BY <1>1, <1>3
<1>4. CASE n # Len(f)
    <2>1. PICK r \in Records : f = Append(base, r)
        <3>1. f # base
            BY <1>2, <1>4
        <3> QED BY <3>1
    <2>2. Len(f) = Len(base) + 1 /\ \A i \in 1..Len(base) : f[i] = base[i]
        BY <2>1
    <2>3. n = Len(base)
        BY <1>2, <1>4, <2>2
    <2>4. g = base
        BY <1>2, <2>2, <2>3
    <2> QED BY <2>4
<1> QED BY <1>3, <1>4

\* Without failures, a crash leaves of the log what was flushed, what was there before
\* the last record, or all of it.
LEMMA SurvivingOps ==
    ASSUME file \in Seq(Records), synced \in Seq(Records), InPlace(file), InPlace(synced),
           NEW base \in {synced, <<>>},
           file = base \/ \E r \in Records : file = Append(base, r),
           NEW f \in Surviving
    PROVE  InPlace(f) /\ LogOps(f) \in {LogOps(synced), LogOps(base), LogOps(file)}
<1>0. base \in Seq(Records) /\ InPlace(base)
    <2>1. <<>> \in Seq(Records) /\ InPlace(<<>>)
        BY LogOpsEmpty
    <2>2. base = synced \/ base = <<>>
        OBVIOUS
    <2> QED BY <2>1, <2>2, Zenon
<1>1. Len(base) \in Nat /\ Len(file) \in Nat /\ Len(synced) \in Nat
    BY <1>0
<1>2. base = synced => IsPrefix(synced, file)
    <2> SUFFICES ASSUME base = synced PROVE IsPrefix(synced, file)
        OBVIOUS
    <2>1. CASE file = base
        BY <1>1, <2>1 DEF IsPrefix
    <2>2. CASE \E r \in Records : file = Append(base, r)
        <3>1. PICK r \in Records : file = Append(synced, r)
            BY <2>2
        <3>2. Len(synced) <= Len(file) /\ \A i \in 1..Len(synced) : file[i] = synced[i]
            BY <3>1
        <3>3. SubSeq(synced, 1, Len(synced)) = SubSeq(file, 1, Len(synced))
            BY <1>1, <3>2
        <3> QED BY <3>2, <3>3 DEF IsPrefix
    <2> QED BY <2>1, <2>2
<1>3. ASSUME NEW g \in Prefixes(file), IsPrefix(synced, file) => IsPrefix(synced, g)
      PROVE  g = base \/ g = file
    <2>1. Len(g) \in Nat
        <3>1. PICK n \in 0..Len(file) : g = SubSeq(file, 1, n)
            BY DEF Prefixes
        <3> QED BY <1>1, <3>1
    <2>2. Len(g) >= Len(base)
        <3>1. CASE base = synced
            BY <1>1, <1>2, <1>3, <2>1, <3>1 DEF IsPrefix
        <3>2. CASE base = <<>>
            <4>1. Len(<<>>) = 0
                OBVIOUS
            <4>2. Len(base) = 0
                BY <3>2, <4>1, Zenon
            <4> QED BY <2>1, <4>2
        <3>3. base = synced \/ base = <<>>
            OBVIOUS
        <3> QED BY <3>1, <3>2, <3>3
    <2> QED BY <1>0, <2>2, PrefixIs
<1>4. CASE f = synced \/ f = base \/ f = file
    BY <1>0, <1>4
<1>5. ASSUME NEW g \in Prefixes(file), IsPrefix(synced, file) => IsPrefix(synced, g),
             Len(g) > 0, IsPrefix(synced, file) => g # synced,
             f = [g EXCEPT ![Len(g)] = Torn(g[Len(g)].op)]
      PROVE  InPlace(f) /\ LogOps(f) = LogOps(base)
    <2>1. g # base
        <3>1. CASE base = synced
            BY <1>2, <1>5, <3>1
        <3>2. CASE base = <<>>
            <4>1. Len(<<>>) = 0
                OBVIOUS
            <4>2. Len(g) # 0
                BY <1>5
            <4> QED BY <3>2, <4>1, <4>2, Zenon
        <3>3. base = synced \/ base = <<>>
            OBVIOUS
        <3> QED BY <3>1, <3>2, <3>3
    <2>2. g = file
        BY <1>3, <1>5, <2>1
    <2>3. PICK r \in Records : file = Append(base, r)
        BY <2>1, <2>2
    <2> DEFINE n == Len(base)
               torn == Torn(r.op)
    <2>4. /\ Len(file) = n + 1 /\ file[n + 1] = r /\ DOMAIN file = 1..(n + 1)
          /\ \A i \in 1..n : file[i] = base[i]
        BY <1>0, <2>3
    <2>5. f = [file EXCEPT ![n + 1] = torn]
        BY <1>5, <2>2, <2>4
    <2>6. torn \in Records /\ torn.is = "torn" /\ torn.op = r.op /\ r.op \in LiveOps
        <3>1. r.op \in LiveOps
            BY <1>1, <2>4 DEF InPlace
        <3> QED BY <3>1, WalAssumption DEF Records, Torn
    <2> HIDE DEF torn
    <2>7. f = Append(base, torn)
        <3> DEFINE h == Append(base, torn)
        <3>1. /\ h \in Seq(Records) /\ Len(h) = n + 1 /\ h[n + 1] = torn
              /\ \A i \in 1..n : h[i] = base[i]
            BY <1>0, <2>6
        <3>2. n \in Nat
            BY <1>1
        <3> HIDE DEF h, n
        <3>3. /\ f \in Seq(Records) /\ Len(f) = n + 1 /\ f[n + 1] = torn
              /\ \A i \in 1..n : f[i] = base[i]
            BY <2>4, <2>5, <2>6, <3>2
        <3>4. \A i \in 1..(n + 1) : f[i] = h[i]
            BY <3>1, <3>2, <3>3
        <3>5. f = h
            BY <3>1, <3>3, <3>4
        <3> QED BY <3>5 DEF h
    <2>8. LogOps(f) = LogOps(base)
        BY <1>0, <2>6, <2>7, InPlaceAppend
    <2>9. InPlace(f)
        <3>1. f \in Seq(Records) /\ Len(f) = n + 1 /\ f[n + 1] = torn /\ \A i \in 1..n : f[i] = base[i]
            BY <1>0, <2>6, <2>7
        <3>2. DOMAIN f = 1..(n + 1) /\ DOMAIN base = 1..n /\ n \in Nat
            BY <1>0, <3>1
        <3> HIDE DEF n
        <3> QED BY <1>0, <2>6, <3>1, <3>2 DEF InPlace
    <2> QED BY <2>8, <2>9
<1>6. \/ f = synced
      \/ f \in Prefixes(file) /\ (IsPrefix(synced, file) => IsPrefix(synced, f))
      \/ \E g \in Prefixes(file) :
            /\ IsPrefix(synced, file) => IsPrefix(synced, g)
            /\ Len(g) > 0 /\ (IsPrefix(synced, file) => g # synced)
            /\ f = [g EXCEPT ![Len(g)] = Torn(g[Len(g)].op)]
    BY Zenon DEF Surviving
<1> QED BY <1>3, <1>4, <1>5, <1>6

-----------------------------------------------------------------------------
(* Every step is one of AtomicTxns or none *)

Opens == [t \in Threads |-> Open(t)]

\* The abstract specification applies operations as this one does.
LEMMA AbstractAll == \A f, ops : Abstract!ApplyAll(f, ops) = ApplyAll(f, ops)
BY Zenon DEF ApplyAll, Abstract!ApplyAll, Apply, Abstract!Apply, Applies, Abstract!Applies,
    dbfs_create, Abstract!dbfs_create, dbfs_unlink, Abstract!dbfs_unlink,
    dbfs_rename, Abstract!dbfs_rename, dbfs_write, Abstract!dbfs_write,
    dbfs_truncate, Abstract!dbfs_truncate, NoFile, Abstract!NoFile, Inos, Abstract!Inos

\* The abstract specification has the same file systems.
LEMMA AbstractFs == Abstract!Fs = Fs
BY DEF Fs, Abstract!Fs, NoFile, Abstract!NoFile, Inos, Abstract!Inos

\* Applying a sequence of one operation is applying that operation.
LEMMA AllOne ==
    ASSUME NEW f, NEW op \in LiveOps
    PROVE  ApplyAll(f, <<op>>) = After(f, op)
<1>1. <<>> \in Seq(LiveOps) /\ <<op>> = Append(<<>>, op)
    OBVIOUS
<1> DEFINE none == <<>>
<1>2. ApplyAll(f, Append(none, op)) = After(ApplyAll(f, none), op)
    <2> HIDE DEF none
    <2>1. none \in Seq(LiveOps)
        BY <1>1 DEF none
    <2> QED BY <2>1, AllAppend
<1> QED BY <1>1, <1>2, AllNone, Zenon

\* What the invariant says of a system whose transactions are one data operation each.
LEMMA DataFacts ==
    ASSUME SingleDataOps, AtomicInv
    PROVE  /\ fs \in Fs /\ Alive(fs) /\ job \in JobType /\ job.todo \in Seq(LiveOps)
           /\ file \in Seq(Records) /\ InPlace(file) /\ LogOps(file) \in Seq(LiveOps)
           /\ synced \in Seq(Records) /\ InPlace(synced) /\ LogOps(synced) \in Seq(LiveOps)
           /\ status \in {"up", "down"}
           /\ job.at \in {"none", "append", "lock", "apply", "replay"}
           /\ job.at \in Commits =>
                /\ status = "up" /\ job.who \in Threads
                /\ txn[job.who].ops \in Transactions
                /\ txn[job.who].ops \in Seq(LiveOps) /\ Len(txn[job.who].ops) = 1
           /\ job.at \in {"lock", "apply"} => synced = file
<1> USE DEF AtomicInv, IInv, DataInv
<1>1. /\ fs \in Fs /\ Alive(fs) /\ job \in JobType /\ job.todo \in Seq(LiveOps)
      /\ file \in Seq(Records) /\ InPlace(file) /\ synced \in Seq(Records) /\ InPlace(synced)
      /\ status \in {"up", "down"}
    BY DEF EntriesInFile, TypeOK
<1>2. LogOps(file) \in Seq(LiveOps) /\ LogOps(synced) \in Seq(LiveOps)
    BY <1>1, LogOpsType
<1>3. job.at \in {"none", "append", "lock", "apply", "replay"}
    BY <1>1 DEF JobType
<1>4. ASSUME job.at \in Commits
      PROVE  /\ status = "up" /\ job.who \in Threads
             /\ txn[job.who].ops \in Transactions
             /\ txn[job.who].ops \in Seq(LiveOps) /\ Len(txn[job.who].ops) = 1
    <2>1. status = "up"
        BY <1>1, <1>4 DEF DownInv, Commits
    <2>2. job.who \in Threads /\ txn[job.who].ops \in Transactions
        BY <1>4 DEF JobInv
    <2> QED BY <2>1, <2>2 DEF SingleDataOps
<1>5. job.at \in {"lock", "apply"} => synced = file
    BY DEF CommitInv
<1> QED BY <1>1, <1>2, <1>3, <1>4, <1>5

\* Before the flush: what is in the log, and in every log that a crash may leave.
LEMMA LogBeforeFlush ==
    ASSUME SingleDataOps, AtomicInv, status = "up", job.at \in {"none", "append"}
    PROVE  \/ /\ ApplyAll(fs, LogOps(file)) = fs
              /\ job.at = "append" => job.todo = txn[job.who].ops
              /\ file \in {synced, <<>>}
              /\ \A f \in Surviving : ApplyAll(fs, LogOps(f)) = fs /\ InPlace(f)
           \/ \E op \in LiveOps :
                /\ job.at = "append" /\ job.todo = <<>>
                /\ txn[job.who].ops = <<op>>
                /\ ApplyAll(fs, LogOps(file)) = After(fs, op)
                /\ \E j \in DOMAIN LogOps(file) : LogOps(file)[j] = op
                /\ \A f \in Surviving : ApplyAll(fs, LogOps(f)) \in {fs, After(fs, op)} /\ InPlace(f)
<1>1. PICK base \in {synced, <<>>} :
            /\ ApplyAll(fs, LogOps(synced)) = fs /\ ApplyAll(fs, LogOps(base)) = fs
            /\ \/ file = base /\ (job.at = "append" => job.todo = txn[job.who].ops)
               \/ /\ job.at = "append" /\ job.todo = <<>>
                  /\ \E r \in Records :
                        r.is = "good" /\ file = Append(base, r) /\ txn[job.who].ops = <<r.op>>
    BY DEF AtomicInv, BeforeFlush, Settled
<1>2. /\ fs \in Fs /\ Alive(fs) /\ file \in Seq(Records) /\ InPlace(file)
      /\ synced \in Seq(Records) /\ InPlace(synced)
    BY DataFacts
<1>3. base \in Seq(Records) /\ InPlace(base)
    <2>1. <<>> \in Seq(Records) /\ InPlace(<<>>)
        BY LogOpsEmpty
    <2>2. base = synced \/ base = <<>>
        OBVIOUS
    <2> QED BY <1>2, <2>1, <2>2, Zenon
<1>4. CASE file = base /\ (job.at = "append" => job.todo = txn[job.who].ops)
    <2>1. \A f \in Surviving : InPlace(f) /\ LogOps(f) \in {LogOps(synced), LogOps(base), LogOps(file)}
        BY <1>2, <1>4, SurvivingOps
    <2> QED BY <1>1, <1>4, <2>1
<1>5. CASE /\ job.at = "append" /\ job.todo = <<>>
           /\ \E r \in Records :
                r.is = "good" /\ file = Append(base, r) /\ txn[job.who].ops = <<r.op>>
    <2>1. PICK r \in Records :
                r.is = "good" /\ file = Append(base, r) /\ txn[job.who].ops = <<r.op>>
        BY <1>5
    <2>2. r.op \in LiveOps
        <3>1. Len(file) \in DOMAIN file /\ file[Len(file)] = r
            BY <1>3, <2>1
        <3> QED BY <1>2, <3>1 DEF InPlace
    <2>3. LogOps(file) = Append(LogOps(base), r.op) /\ LogOps(base) \in Seq(LiveOps)
        BY <1>3, <2>1, InPlaceAppend, LogOpsType
    <2>4. ApplyAll(fs, LogOps(file)) = After(fs, r.op)
        <3>1. ApplyAll(fs, Append(LogOps(base), r.op)) = After(ApplyAll(fs, LogOps(base)), r.op)
            BY <2>2, <2>3, AllAppend
        <3> QED BY <1>1, <2>3, <3>1
    <2>5. \E j \in DOMAIN LogOps(file) : LogOps(file)[j] = r.op
        <3> DEFINE a == LogOps(base)
        <3>1. a \in Seq(LiveOps) /\ LogOps(file) = Append(a, r.op)
            BY <2>3
        <3> HIDE DEF a
        <3>2. Len(a) + 1 \in DOMAIN Append(a, r.op) /\ Append(a, r.op)[Len(a) + 1] = r.op
            BY <3>1
        <3> QED BY <3>1, <3>2, Zenon
    <2>6. \A f \in Surviving : InPlace(f) /\ LogOps(f) \in {LogOps(synced), LogOps(base), LogOps(file)}
        BY <1>2, <2>1, SurvivingOps
    <2>7. \A f \in Surviving : ApplyAll(fs, LogOps(f)) \in {fs, After(fs, r.op)} /\ InPlace(f)
        BY <1>1, <2>4, <2>6
    <2> QED BY <1>5, <2>1, <2>2, <2>4, <2>5, <2>7
<1> QED BY <1>1, <1>4, <1>5

-----------------------------------------------------------------------------
(* One lemma for each action: the invariant holds after it, and it is a step of *)
(* AtomicTxns or none                                                           *)

AtomicStep == DataInv' /\ BeforeFlush' /\ Pending' /\ [Abstract!Next]_<<Visible, Opens>>

\* A step that changes neither what clients see nor their transactions is a stutter.
LEMMA Unseen ==
    ASSUME Visible' = Visible, \A t \in Threads : Open(t)' = Open(t)
    PROVE  [Abstract!Next]_<<Visible, Opens>>
<1>1. Opens' = Opens
    BY DEF Opens
<1> QED BY <1>1

\* Transactions are only open while the system is up.
LEMMA NotUp ==
    ASSUME SingleDataOps, AtomicInv, NEW t \in Threads, txn[t] # NoTxn
    PROVE  status = "up"
BY DataFacts DEF AtomicInv, IInv, DownInv

\* A step that only changes transactions no commit was given.
LEMMA TxnOnly ==
    ASSUME AtomicInv, UNCHANGED <<fs, log, job, status>>,
           job.at \in Commits => txn'[job.who] = txn[job.who],
           \A t \in Threads : txn'[t] # NoTxn => txn'[t].ops \in Transactions
    PROVE  DataInv' /\ BeforeFlush' /\ Pending' /\ Visible' = Visible
<1> USE DEF AtomicInv, log
<1>1. DataInv'
    BY DEF DataInv
<1>2. BeforeFlush'
    BY DEF BeforeFlush, Settled, Commits
<1>3. Pending'
    BY DEF Pending
<1>4. Visible' = Visible
    BY DEF Visible
<1> QED BY <1>1, <1>2, <1>3, <1>4

\* begin_transaction implements the abstract begin.
LEMMA BeginAtomic ==
    ASSUME SingleDataOps, AtomicInv, NEW t \in Threads, begin_transaction(t)
    PROVE  AtomicStep
<1>1. PICK ops \in Transactions : txn' = [txn EXCEPT ![t] = [id |-> next_txn_id, ops |-> ops]]
    BY DEF begin_transaction
<1>2. txn \in TxnType /\ DOMAIN txn = Threads
    BY DEF AtomicInv, IInv, EntriesInFile, TypeOK, TxnType
<1>3. txn'[t].ops = ops /\ \A u \in Threads : u # t => txn'[u] = txn[u]
    BY <1>1, <1>2
<1>4. UNCHANGED <<fs, log, job, status>> /\ txn[t] = NoTxn
    BY DEF begin_transaction
<1>5. job.at \in Commits => job.who \in Threads /\ job.who # t
    BY <1>4 DEF AtomicInv, IInv, JobInv
<1>6. \A u \in Threads : txn'[u] # NoTxn => txn'[u].ops \in Transactions
    BY <1>3 DEF AtomicInv, DataInv
<1>7. DataInv' /\ BeforeFlush' /\ Pending' /\ Visible' = Visible
    BY <1>3, <1>4, <1>5, <1>6, TxnOnly
<1>8. Open(t) = <<>> /\ Open(t)' = ops /\ \A u \in Threads : u # t => Open(u)' = Open(u)
    BY <1>3, <1>4, <1>5 DEF Open, NoTxn, Commits
<1>9. Opens' = [Opens EXCEPT ![t] = ops] /\ Opens[t] = <<>>
    BY <1>8 DEF Opens
<1>10. Abstract!Begin(t)
    BY <1>7, <1>9 DEF Abstract!Begin, Opens
<1> QED BY <1>7, <1>10 DEF AtomicStep, Abstract!Next

\* rollback implements the abstract rollback.
LEMMA RollbackAtomic ==
    ASSUME SingleDataOps, AtomicInv, NEW t \in Threads, rollback(t)
    PROVE  AtomicStep
<1>1. txn \in TxnType /\ DOMAIN txn = Threads
    BY DEF AtomicInv, IInv, EntriesInFile, TypeOK, TxnType
<1>2. txn'[t] = NoTxn /\ \A u \in Threads : u # t => txn'[u] = txn[u]
    BY <1>1 DEF rollback
<1>3. UNCHANGED <<fs, log, job, status>> /\ job.who # t
    BY DEF rollback
<1>4. job.at \in Commits => job.who \in Threads
    BY DEF AtomicInv, IInv, JobInv
<1>5. \A u \in Threads : txn'[u] # NoTxn => txn'[u].ops \in Transactions
    BY <1>2 DEF AtomicInv, DataInv
<1>6. DataInv' /\ BeforeFlush' /\ Pending' /\ Visible' = Visible
    BY <1>2, <1>3, <1>4, <1>5, TxnOnly
<1>7. Open(t)' = <<>> /\ \A u \in Threads : u # t => Open(u)' = Open(u)
    BY <1>2, <1>3 DEF Open, NoTxn
<1>8. Opens' = [Opens EXCEPT ![t] = <<>>]
    BY <1>7 DEF Opens
<1>9. Abstract!Abort(t)
    BY <1>6, <1>8 DEF Abstract!Abort, Opens
<1> QED BY <1>6, <1>9 DEF AtomicStep, Abstract!Next

\* A step that changes no part of the mapping is a stutter.
LEMMA SameAtomic ==
    ASSUME SingleDataOps, AtomicInv, UNCHANGED <<fs, log, job, status, txn>>
    PROVE  AtomicStep
<1>1. \A u \in Threads : txn'[u] # NoTxn => txn'[u].ops \in Transactions
    BY DEF AtomicInv, DataInv
<1>2. DataInv' /\ BeforeFlush' /\ Pending' /\ Visible' = Visible
    BY <1>1, TxnOnly
<1>3. \A u \in Threads : Open(u)' = Open(u)
    BY DEF Open
<1> QED BY <1>2, <1>3, Unseen DEF AtomicStep

\* Taking the mutex of the log is not seen.
LEMMA CommitAtomic ==
    ASSUME SingleDataOps, AtomicInv, NEW t \in Threads, commit(t, "commit")
    PROVE  AtomicStep
<1>1. /\ job = NoJob /\ job.at = "none" /\ txn[t] # NoTxn
      /\ UNCHANGED <<fs, log, threads, status>>
      /\ job'.kind = "commit" /\ job'.who = t /\ job'.at = "append" /\ job'.todo = txn[t].ops
    BY NoJobType DEF commit
<1>2. status = "up"
    BY <1>1, NotUp
<1>3. txn[t].ops \in Transactions /\ txn[t].ops \in Seq(LiveOps)
    BY <1>1 DEF AtomicInv, DataInv, SingleDataOps
<1>4. DataInv'
    BY <1>1, <1>2, <1>3 DEF AtomicInv, DataInv, log, threads
<1>5. BeforeFlush'
    <2>1. Settled(synced) /\ \E base \in {synced, <<>>} : Settled(base) /\ file = base
        BY <1>1, <1>2 DEF AtomicInv, BeforeFlush
    <2> QED BY <1>1, <2>1 DEF BeforeFlush, Settled, log, threads
<1>6. Pending'
    BY <1>1 DEF Pending
<1>7. Visible' = Visible
    BY <1>1, <1>2 DEF Visible
<1>8. \A u \in Threads : Open(u)' = Open(u)
    BY <1>1 DEF Open, threads
<1> QED BY <1>4, <1>5, <1>6, <1>7, <1>8, Unseen DEF AtomicStep

\* An append is not seen: clients see the file system, and no record of the log, until the flush.
LEMMA AppendAtomic ==
    ASSUME SingleDataOps, AtomicInv, append
    PROVE  AtomicStep
<1> DEFINE op == Head(job.todo)
           entry == Good(txn[job.who].id, op)
           rest == Tail(job.todo)
<1>1. job.at = "append" /\ job.todo # <<>> /\ job \in JobType
    BY DataFacts DEF append
<1>2. /\ status = "up" /\ job.who \in Threads /\ txn[job.who].ops \in Seq(LiveOps)
      /\ Len(txn[job.who].ops) = 1 /\ file \in Seq(Records) /\ InPlace(file)
    BY <1>1, DataFacts DEF Commits
<1>3. PICK base \in {synced, <<>>} :
            Settled(synced) /\ Settled(base) /\ file = base /\ job.todo = txn[job.who].ops
    BY <1>1, <1>2 DEF AtomicInv, BeforeFlush
<1>4. op \in LiveOps /\ rest = <<>> /\ txn[job.who].ops = <<op>>
    <2> DEFINE s == txn[job.who].ops
    <2>1. s \in Seq(LiveOps) /\ Len(s) = 1 /\ job.todo = s
        BY <1>2, <1>3
    <2> HIDE DEF s
    <2>2. Head(s) \in LiveOps /\ Tail(s) = <<>> /\ s = <<Head(s)>>
        <3>1. Head(s) \in LiveOps /\ Head(s) = s[1]
            BY <2>1
        <3>2. Tail(s) = <<>>
            <4> DEFINE t == Tail(s)
            <4>1. t \in Seq(LiveOps) /\ Len(t) = 0
                BY <2>1
            <4> HIDE DEF t
            <4>2. t = <<>>
                BY <4>1
            <4> QED BY <4>2 DEF t
        <3>3. s = <<s[1]>>
            BY <2>1
        <3> QED BY <3>1, <3>2, <3>3, Zenon
    <2>3. op = Head(s) /\ rest = Tail(s)
        BY <2>1, Zenon
    <2>4. s = <<op>>
        BY <2>2, <2>3, Zenon
    <2> QED BY <2>2, <2>3, <2>4 DEF s
<1>5. entry \in Records /\ entry.is = "good" /\ entry.op = op
    <2>1. txn[job.who].id \in 0..MaxTxn
        BY <1>1, CommitTxn DEF AtomicInv, IInv, EntriesInFile, Commits
    <2> QED BY <1>4, <2>1 DEF Good, Records, LiveOps, Operations
<1>6. next_offset = Len(file)
    <2>1. next_offset = StopsAt(file)
        BY <1>2 DEF AtomicInv, DataInv, IInv, OffsetInv
    <2> QED BY <1>2, <2>1, InPlaceAppend
<1>7. /\ file' = WriteAt(file, next_offset, entry)
      /\ job' = [job EXCEPT !.todo = rest]
      /\ UNCHANGED <<fs, synced, skewed, threads, status>>
    BY DEF append, SingleDataOps, AtomicInv, DataInv
<1>8. file' = Append(file, entry)
    BY <1>2, <1>6, <1>7, InPlaceAppend
<1>9. job'.at = "append" /\ job'.who = job.who /\ job'.kind = job.kind /\ job'.todo = <<>>
    BY <1>1, <1>4, <1>7 DEF JobType
<1> HIDE DEF op, entry, rest
<1>10. InPlace(file')
    BY <1>2, <1>4, <1>5, <1>8 DEF InPlace
<1>11. DataInv'
    <2>1. job'.todo \in Seq(LiveOps)
        BY <1>9
    <2> QED BY <1>1, <1>2, <1>7, <1>9, <1>10, <2>1 DEF AtomicInv, DataInv, threads
<1>12. BeforeFlush'
    <2>1. Settled(synced)' /\ ApplyAll(fs', LogOps(base)) = fs'
        BY <1>3, <1>7 DEF Settled
    <2>2. file' = Append(base, entry) /\ txn'[job'.who].ops = <<entry.op>>
        BY <1>3, <1>4, <1>5, <1>7, <1>8, <1>9 DEF threads
    <2>3. base \in {synced', <<>>}
        BY <1>7
    <2> QED BY <1>5, <1>9, <2>1, <2>2, <2>3 DEF BeforeFlush, Settled
<1>13. Pending'
    BY <1>9 DEF Pending
<1>14. Visible' = Visible
    BY <1>1, <1>2, <1>7, <1>9 DEF Visible
<1>15. \A u \in Threads : Open(u)' = Open(u)
    BY <1>1, <1>7, <1>9 DEF Open, threads
<1> QED BY <1>11, <1>12, <1>13, <1>14, <1>15, Unseen DEF AtomicStep

\* The flush is the step at which a transaction becomes visible.
LEMMA FlushAtomic ==
    ASSUME SingleDataOps, AtomicInv, flush
    PROVE  AtomicStep
<1>1. /\ job.at = "append" /\ job.todo = <<>> /\ job.kind = "commit" /\ job \in JobType
      /\ status = "up" /\ job.who \in Threads /\ Len(txn[job.who].ops) = 1
    BY DataFacts DEF flush, AtomicInv, DataInv, Commits
<1>2. PICK op \in LiveOps :
        /\ txn[job.who].ops = <<op>>
        /\ ApplyAll(fs, LogOps(file)) = After(fs, op)
        /\ \E j \in DOMAIN LogOps(file) : LogOps(file)[j] = op
    <2>1. Len(<<>>) = 0 /\ 0 # 1
        OBVIOUS
    <2>2. job.todo # txn[job.who].ops
        BY <1>1, <2>1, Zenon
    <2> QED BY <1>1, <2>2, LogBeforeFlush
<1>3. /\ synced' = file /\ job' = [job EXCEPT !.at = "lock", !.todo = txn[job.who].ops]
      /\ UNCHANGED <<fs, file, skewed, threads, status>>
    BY <1>1 DEF flush, SingleDataOps
<1>4. job'.at = "lock" /\ job'.who = job.who /\ job'.todo = <<op>>
    BY <1>1, <1>2, <1>3 DEF JobType
<1>5. DataInv'
    <2>1. job'.todo \in Seq(LiveOps)
        BY <1>4
    <2> QED BY <1>1, <1>3, <1>4, <2>1 DEF AtomicInv, DataInv, threads
<1>6. BeforeFlush'
    BY <1>4 DEF BeforeFlush
<1>7. ApplyAll(fs, <<op>>) = After(fs, op)
    BY AllOne
<1>8. Pending'
    <2>1. ApplyAll(fs', LogOps(file')) = ApplyAll(fs', job'.todo)
        BY <1>2, <1>3, <1>4, <1>7, Zenon
    <2>2. \A i \in DOMAIN <<op>> : <<op>>[i] = op
        OBVIOUS
    <2>3. \A i \in DOMAIN job'.todo : job'.todo[i] = op
        BY <1>4, <2>2, Zenon
    <2>4. \E j \in DOMAIN LogOps(file') : LogOps(file')[j] = op
        BY <1>2, <1>3
    <2> QED BY <2>1, <2>3, <2>4 DEF Pending
<1>9. PICK t \in Threads : t = job.who
    BY <1>1
<1>10. Visible = fs /\ Opens[t] = <<op>>
    <2>1. Visible = fs /\ Open(t) = txn[t].ops
        BY <1>1, Zenon DEF Visible, Open
    <2>2. Opens[t] = Open(t)
        BY DEF Opens
    <2> QED BY <1>2, <1>9, <2>1, <2>2, Zenon
<1>11. Visible' = ApplyAll(fs, <<op>>)
    <2>1. status' = "up" /\ job'.at \notin {"none", "append"} /\ fs' = fs
        BY <1>1, <1>3, <1>4
    <2> QED BY <1>4, <2>1, Zenon DEF Visible
<1>12. Opens' = [Opens EXCEPT ![t] = <<>>]
    <2>1. Open(t)' = <<>> /\ \A u \in Threads : u # t => Open(u)' = Open(u)
        BY <1>1, <1>3, <1>4, <1>9 DEF Open, threads
    <2> QED BY <2>1 DEF Opens
<1>13. Visible' = Abstract!ApplyAll(Visible, Opens[t])
    BY <1>10, <1>11, AbstractAll, Zenon
<1>14. Abstract!Commit(t)
    BY <1>12, <1>13 DEF Abstract!Commit, Opens
<1> QED BY <1>5, <1>6, <1>8, <1>14 DEF AtomicStep, Abstract!Next

\* Taking state_lock is not seen.
LEMMA LockAtomic ==
    ASSUME SingleDataOps, AtomicInv, lock_state
    PROVE  AtomicStep
<1>1. /\ job.at = "lock" /\ job \in JobType /\ status = "up"
      /\ UNCHANGED <<fs, log, threads, status>> /\ job' = [job EXCEPT !.at = "apply"]
    BY DataFacts DEF lock_state, Commits
<1>2. job'.at = "apply" /\ job'.who = job.who /\ job'.todo = job.todo
    BY <1>1 DEF JobType
<1>3. DataInv'
    BY <1>1, <1>2 DEF AtomicInv, DataInv, log, threads
<1>4. BeforeFlush'
    BY <1>2 DEF BeforeFlush
<1>5. Pending'
    BY <1>1, <1>2 DEF AtomicInv, Pending, log
<1>6. Visible' = Visible
    BY <1>1, <1>2 DEF Visible
<1>7. \A u \in Threads : Open(u)' = Open(u)
    BY <1>1, <1>2 DEF Open, threads
<1> QED BY <1>3, <1>4, <1>5, <1>6, <1>7, Unseen DEF AtomicStep

\* One more of the operations that are left to do, of a commit or of replay().
LEMMA NextOperation ==
    ASSUME SingleDataOps, AtomicInv, job.at \in {"apply", "replay"}, job.todo # <<>>
    PROVE  /\ Applies(fs, Head(job.todo))
           /\ Alive(Apply(fs, Head(job.todo)))
           /\ Tail(job.todo) \in Seq(LiveOps)
           /\ ApplyAll(Apply(fs, Head(job.todo)), LogOps(file)) = ApplyAll(fs, LogOps(file))
           /\ ApplyAll(Apply(fs, Head(job.todo)), Tail(job.todo)) = ApplyAll(fs, job.todo)
           /\ ApplyAll(fs, LogOps(file)) = ApplyAll(fs, job.todo)
           /\ \A i \in DOMAIN Tail(job.todo) : \E j \in DOMAIN LogOps(file) :
                LogOps(file)[j].ino = Tail(job.todo)[i].ino
<1>1. fs \in Fs /\ Alive(fs) /\ job.todo \in Seq(LiveOps) /\ LogOps(file) \in Seq(LiveOps)
    BY DataFacts
<1>2. /\ ApplyAll(fs, LogOps(file)) = ApplyAll(fs, job.todo)
      /\ \A i \in DOMAIN job.todo : \E j \in DOMAIN LogOps(file) :
                LogOps(file)[j].ino = job.todo[i].ino
    BY DEF AtomicInv, Pending
<1> DEFINE todo == job.todo
           s == LogOps(file)
<1> HIDE DEF todo, s
<1>3. /\ Applies(fs, Head(todo)) /\ Alive(Apply(fs, Head(todo)))
      /\ ApplyAll(Apply(fs, Head(todo)), s) = ApplyAll(fs, s)
      /\ ApplyAll(Apply(fs, Head(todo)), Tail(todo)) = ApplyAll(fs, todo)
      /\ Tail(todo) \in Seq(LiveOps)
      /\ \A i \in DOMAIN Tail(todo) : \E j \in DOMAIN s : s[j].ino = Tail(todo)[i].ino
    <2>1. /\ s \in Seq(LiveOps) /\ todo \in Seq(LiveOps) /\ todo # <<>>
          /\ ApplyAll(fs, s) = ApplyAll(fs, todo)
          /\ \A i \in DOMAIN todo : \E j \in DOMAIN s : s[j].ino = todo[i].ino
        BY <1>1, <1>2 DEF todo, s
    <2> QED BY <1>1, <2>1, PendingNext
<1> QED BY <1>2, <1>3 DEF todo, s

\* Applying an operation is not seen: the flush has made it visible.
LEMMA ApplyAtomic ==
    ASSUME SingleDataOps, AtomicInv, apply
    PROVE  AtomicStep
<1> DEFINE op == Head(job.todo)
           rest == Tail(job.todo)
<1>1. job.at = "apply" /\ job.todo # <<>> /\ job \in JobType /\ status = "up"
    BY DataFacts DEF apply, Commits
<1>2. /\ Applies(fs, op) /\ Alive(Apply(fs, op)) /\ rest \in Seq(LiveOps)
      /\ ApplyAll(Apply(fs, op), LogOps(file)) = ApplyAll(fs, LogOps(file))
      /\ ApplyAll(Apply(fs, op), rest) = ApplyAll(fs, job.todo)
      /\ ApplyAll(fs, LogOps(file)) = ApplyAll(fs, job.todo)
      /\ \A i \in DOMAIN rest : \E j \in DOMAIN LogOps(file) : LogOps(file)[j].ino = rest[i].ino
    BY <1>1, NextOperation
<1>3. /\ fs' = Apply(fs, op) /\ job' = [job EXCEPT !.todo = rest]
      /\ UNCHANGED <<log, threads, status>>
    BY <1>2 DEF apply, SingleDataOps
<1> HIDE DEF op, rest
<1>4. job'.at = "apply" /\ job'.who = job.who /\ job'.todo = rest
    BY <1>1, <1>3 DEF JobType
<1>5. DataInv'
    BY <1>1, <1>2, <1>3, <1>4 DEF AtomicInv, DataInv, log, threads
<1>6. BeforeFlush'
    BY <1>4 DEF BeforeFlush
<1>7. Pending'
    BY <1>2, <1>3, <1>4 DEF Pending, log
<1>8. Visible' = Visible
    BY <1>1, <1>2, <1>3, <1>4 DEF Visible
<1>9. \A u \in Threads : Open(u)' = Open(u)
    BY <1>1, <1>3, <1>4 DEF Open, threads
<1> QED BY <1>5, <1>6, <1>7, <1>8, <1>9, Unseen DEF AtomicStep

\* Clearing the log is not seen: every operation in it has been applied.
LEMMA ClearAtomic ==
    ASSUME SingleDataOps, AtomicInv, clear_txn
    PROVE  AtomicStep
<1>1. job.at = "apply" /\ job.todo = <<>> /\ job \in JobType /\ status = "up" /\ job.who \in Threads
    BY DataFacts DEF clear_txn, Commits
<1>2. /\ job' = NoJob /\ txn' = [txn EXCEPT ![job.who] = NoTxn]
      /\ UNCHANGED <<fs, synced, status>>
    BY DEF clear_txn, Returns
<1>3. file' \in {file, <<>>} /\ skewed' = FALSE
    BY DEF clear_txn, AtomicInv, DataInv, IInv, EntriesInFile, TypeOK
<1>4. synced = file
    BY <1>1, DataFacts
<1>5. ApplyAll(fs, job.todo) = fs
    BY <1>1, AllNone, Zenon
<1>6. ApplyAll(fs, LogOps(file)) = fs
    BY <1>1, <1>5 DEF AtomicInv, Pending
<1>7. ApplyAll(fs, LogOps(<<>>)) = fs
    BY LogOpsEmpty, AllNone, Zenon
<1>8. job'.at = "none" /\ job'.who = "none" /\ job'.todo = <<>>
    BY <1>2, NoJobType
<1>9. \A u \in Threads : txn'[u] = IF u = job.who THEN NoTxn ELSE txn[u]
    BY <1>2 DEF AtomicInv, IInv, EntriesInFile, TypeOK, TxnType
<1>10. InPlace(file')
    <2>1. InPlace(file) /\ InPlace(<<>>)
        BY DataFacts, LogOpsEmpty
    <2>2. file' = file \/ file' = <<>>
        BY <1>3
    <2> QED BY <2>1, <2>2, Zenon
<1>11. DataInv'
    <2>1. job'.todo \in Seq(LiveOps)
        BY <1>8
    <2> QED BY <1>1, <1>2, <1>3, <1>8, <1>9, <1>10, <2>1 DEF AtomicInv, DataInv
<1>12. BeforeFlush'
    <2>1. ApplyAll(fs', LogOps(synced')) = fs' /\ ApplyAll(fs', LogOps(<<>>)) = fs'
        BY <1>2, <1>4, <1>6, <1>7, Zenon
    <2>2. file' = synced' \/ file' = <<>>
        BY <1>2, <1>3, <1>4
    <2>3. \E base \in {synced', <<>>} : ApplyAll(fs', LogOps(base)) = fs' /\ file' = base
        BY <2>1, <2>2, Zenon
    <2> QED BY <1>8, <2>1, <2>3 DEF BeforeFlush, Settled
<1>13. Pending'
    BY <1>8 DEF Pending
<1>14. Visible' = Visible
    <2>1. Visible = ApplyAll(fs, job.todo)
        BY <1>1 DEF Visible
    <2>2. Visible' = fs'
        BY <1>1, <1>2, <1>8 DEF Visible
    <2> QED BY <1>2, <1>5, <2>1, <2>2
<1>15. \A u \in Threads : Open(u)' = Open(u)
    BY <1>1, <1>8, <1>9 DEF Open, NoTxn
<1> QED BY <1>11, <1>12, <1>13, <1>14, <1>15, Unseen DEF AtomicStep

\* What survives a crash is a state of AtomicTxns: that before the transaction being
\* committed, or that after it.
LEMMA CrashAtomic ==
    ASSUME SingleDataOps, AtomicInv, Crash
    PROVE  AtomicStep
<1>1. /\ status' = "down" /\ file' \in Surviving /\ synced' = file' /\ skewed' = FALSE
      /\ txn' = [t \in Threads |-> NoTxn] /\ job' = NoJob /\ fs' = fs
    BY DEF Crash
<1>2. job'.at = "none" /\ job'.who = "none" /\ job'.todo = <<>>
    BY <1>1, NoJobType
<1>3. Visible' = ApplyAll(fs, LogOps(file'))
    BY <1>1 DEF Visible, LogOps
<1>4. Opens' = [t \in Threads |-> <<>>]
    BY <1>1, <1>2 DEF Opens, Open, NoTxn
<1>5. BeforeFlush' /\ Pending'
    BY <1>1, <1>2 DEF BeforeFlush, Pending
<1>6. ASSUME InPlace(file') PROVE DataInv'
    <2>1. job'.todo \in Seq(LiveOps)
        BY <1>2
    <2> QED BY <1>1, <1>2, <1>6, <2>1 DEF AtomicInv, DataInv
<1>7. ASSUME InPlace(file'), Visible' = Visible PROVE AtomicStep
    <2>1. Abstract!Crash
        BY <1>4, <1>7 DEF Abstract!Crash, Opens
    <2> QED BY <1>5, <1>6, <1>7, <2>1 DEF AtomicStep, Abstract!Next
<1>8. /\ file \in Seq(Records) /\ InPlace(file) /\ status \in {"up", "down"}
      /\ job.at \in {"none", "append", "lock", "apply", "replay"}
    BY DataFacts
<1>9. CASE status = "down"
    <2>1. synced = file
        BY <1>9 DEF AtomicInv, DataInv
    <2>2. file' = file
        BY <1>1, <1>8, <2>1, SurvivingSynced
    <2>3. Visible = ApplyAll(fs, LogOps(file))
        BY <1>9 DEF Visible, LogOps
    <2> QED BY <1>3, <1>7, <1>8, <2>2, <2>3
<1>10. CASE status = "up" /\ job.at \in {"lock", "apply"}
    <2>1. synced = file
        BY <1>10, DataFacts
    <2>2. file' = file
        BY <1>1, <1>8, <2>1, SurvivingSynced
    <2>3. Visible = ApplyAll(fs, job.todo)
        BY <1>10 DEF Visible
    <2>4. ApplyAll(fs, LogOps(file)) = ApplyAll(fs, job.todo)
        BY <1>10 DEF AtomicInv, Pending
    <2> QED BY <1>3, <1>7, <1>8, <2>2, <2>3, <2>4
<1>11. CASE status = "up" /\ job.at \in {"none", "append"}
    <2>1. Visible = fs
        BY <1>11 DEF Visible
    <2>2. CASE \A f \in Surviving : ApplyAll(fs, LogOps(f)) = fs /\ InPlace(f)
        BY <1>1, <1>3, <1>7, <2>1, <2>2
    <2>3. ASSUME NEW op \in LiveOps, job.at = "append", txn[job.who].ops = <<op>>,
                 \A f \in Surviving : ApplyAll(fs, LogOps(f)) \in {fs, After(fs, op)} /\ InPlace(f)
          PROVE  AtomicStep
        <3>1. InPlace(file') /\ ApplyAll(fs, LogOps(file')) \in {fs, After(fs, op)}
            BY <1>1, <2>3
        <3>2. CASE ApplyAll(fs, LogOps(file')) = fs
            BY <1>3, <1>7, <2>1, <3>1, <3>2
        <3>3. CASE ApplyAll(fs, LogOps(file')) = After(fs, op)
            <4>1. job.who \in Threads
                BY <2>3, DataFacts DEF Commits
            <4>2. Opens[job.who] = Open(job.who)
                BY <4>1 DEF Opens
            <4>3. Open(job.who) = <<op>>
                BY <2>3, Zenon DEF Open
            <4>4. ApplyAll(fs, <<op>>) = After(fs, op)
                BY AllOne
            <4>5. Visible' = Abstract!ApplyAll(Visible, Opens[job.who])
                BY <1>3, <2>1, <3>3, <4>2, <4>3, <4>4, AbstractAll, Zenon
            <4>6. Abstract!Crash
                BY <1>4, <4>1, <4>5 DEF Abstract!Crash, Opens
            <4> QED BY <1>5, <1>6, <3>1, <4>6 DEF AtomicStep, Abstract!Next
        <3> QED BY <3>1, <3>2, <3>3
    <2> QED BY <1>11, <2>2, <2>3, LogBeforeFlush
<1>12. ~(status = "up" /\ job.at = "replay")
    BY DEF AtomicInv, DataInv
<1> QED BY <1>8, <1>9, <1>10, <1>11, <1>12

\* The start of replay is not seen.
LEMMA ReplayAtomic ==
    ASSUME SingleDataOps, AtomicInv, replay
    PROVE  AtomicStep
<1>1. /\ status = "down" /\ job = NoJob /\ UNCHANGED <<fs, file, synced, threads, status>>
      /\ skewed' = FALSE
      /\ job'.at = "replay" /\ job'.who = "none" /\ job'.todo = LogOps(file)
    BY DEF replay, SingleDataOps, LogOps
<1>2. LogOps(file) \in Seq(LiveOps) /\ job.who = "none"
    BY <1>1, DataFacts, NoJobType
<1>3. DataInv'
    BY <1>1, <1>2 DEF AtomicInv, DataInv, threads
<1>4. BeforeFlush'
    BY <1>1 DEF BeforeFlush
<1>5. Pending'
    BY <1>1 DEF Pending
<1>6. Visible' = Visible
    BY <1>1 DEF Visible
<1>7. \A u \in Threads : Open(u)' = Open(u)
    BY <1>1, <1>2, WalAssumption DEF Open, threads
<1> QED BY <1>3, <1>4, <1>5, <1>6, <1>7, Unseen DEF AtomicStep

\* Replaying an operation is not seen: clients see the file system with all of the log applied.
LEMMA ReplayApplyAtomic ==
    ASSUME SingleDataOps, AtomicInv, replay_apply
    PROVE  AtomicStep
<1>1. /\ job.at = "replay" /\ status = "down" /\ job \in JobType /\ job.who = "none"
      /\ UNCHANGED <<log, threads>> /\ synced = file
    BY DataFacts DEF replay_apply, AtomicInv, DataInv, IInv, JobInv, Commits
<1>2. Visible = ApplyAll(fs, LogOps(file)) /\ ApplyAll(fs, LogOps(file)) = ApplyAll(fs, job.todo)
    BY <1>1 DEF Visible, LogOps, AtomicInv, Pending
<1>3. CASE job.todo = <<>>
    <2>1. status' = "up" /\ job' = NoJob /\ fs' = fs
        BY <1>3 DEF replay_apply
    <2>2. job'.at = "none" /\ job'.who = "none" /\ job'.todo = <<>>
        BY <2>1, NoJobType
    <2>3. ApplyAll(fs, job.todo) = fs
        BY <1>3, AllNone, Zenon
    <2>4. DataInv'
        <3>1. job'.todo \in Seq(LiveOps)
            BY <2>2
        <3> QED BY <1>1, <2>1, <2>2, <3>1 DEF AtomicInv, DataInv, log, threads
    <2>5. BeforeFlush'
        <3>1. ApplyAll(fs', LogOps(synced')) = fs' /\ file' = synced'
            BY <1>1, <1>2, <2>1, <2>3 DEF log
        <3> QED BY <2>2, <3>1 DEF BeforeFlush, Settled
    <2>6. Pending'
        BY <2>2 DEF Pending
    <2>7. Visible' = Visible
        <3>1. Visible' = fs'
            BY <2>1, <2>2 DEF Visible
        <3> QED BY <1>2, <2>1, <2>3, <3>1
    <2>8. \A u \in Threads : Open(u)' = Open(u)
        BY <1>1, <2>2, WalAssumption DEF Open, threads
    <2> QED BY <2>4, <2>5, <2>6, <2>7, <2>8, Unseen DEF AtomicStep
<1>4. CASE job.todo # <<>>
    <2> DEFINE op == Head(job.todo)
               rest == Tail(job.todo)
    <2>1. /\ Applies(fs, op) /\ Alive(Apply(fs, op)) /\ rest \in Seq(LiveOps)
          /\ ApplyAll(Apply(fs, op), LogOps(file)) = ApplyAll(fs, LogOps(file))
          /\ ApplyAll(Apply(fs, op), rest) = ApplyAll(fs, job.todo)
          /\ \A i \in DOMAIN rest : \E j \in DOMAIN LogOps(file) : LogOps(file)[j].ino = rest[i].ino
        BY <1>1, <1>4, NextOperation
    <2>2. fs' = Apply(fs, op) /\ job' = [job EXCEPT !.todo = rest] /\ status' = status
        BY <1>4, <2>1 DEF replay_apply
    <2> HIDE DEF op, rest
    <2>3. job'.at = "replay" /\ job'.who = job.who /\ job'.todo = rest
        BY <1>1, <2>2 DEF JobType
    <2>4. DataInv'
        BY <1>1, <2>1, <2>2, <2>3 DEF AtomicInv, DataInv, log, threads
    <2>5. BeforeFlush'
        BY <2>3 DEF BeforeFlush
    <2>6. Pending'
        BY <1>1, <1>2, <2>1, <2>2, <2>3 DEF Pending, log
    <2>7. Visible' = Visible
        <3>1. Visible' = ApplyAll(fs', LogOps(file'))
            BY <1>1, <2>2 DEF Visible, LogOps
        <3> QED BY <1>1, <1>2, <2>1, <2>2, <3>1 DEF log
    <2>8. \A u \in Threads : Open(u)' = Open(u)
        BY <1>1, <2>3 DEF Open, threads
    <2> QED BY <2>4, <2>5, <2>6, <2>7, <2>8, Unseen DEF AtomicStep
<1> QED BY <1>3, <1>4

\* The first mount is an initial state of the abstract specification.
LEMMA InitAtomic == SingleDataOps /\ Init => DataInv /\ BeforeFlush /\ Pending /\ Abstract!Init
<1> SUFFICES ASSUME SingleDataOps, Init
             PROVE  DataInv /\ BeforeFlush /\ Pending /\ Abstract!Init
    OBVIOUS
<1>1. /\ job = NoJob /\ job.at = "none" /\ job.who = "none" /\ job.todo = <<>>
      /\ status = "up" /\ fs = InitialFs /\ skewed = FALSE
      /\ txn = [t \in Threads |-> NoTxn]
    BY NoJobType DEF Init
<1>2. file = <<>> /\ synced = <<>>
    BY DEF Init
<1>3. InPlace(file) /\ InPlace(synced)
    BY <1>2, LogOpsEmpty, Zenon
<1>4. DataInv
    <2>1. job.todo \in Seq(LiveOps)
        BY <1>1
    <2> QED BY <1>1, <1>3, <2>1 DEF DataInv, Alive
<1>5. ApplyAll(fs, LogOps(synced)) = fs /\ file = synced
    BY <1>2, LogOpsEmpty, AllNone, Zenon
<1>6. BeforeFlush
    BY <1>1, <1>5 DEF BeforeFlush, Settled
<1>7. Pending
    BY <1>1 DEF Pending
<1>8. Visible \in Abstract!Fs
    BY <1>1, AbstractFs, WalAssumption DEF Visible
<1>9. Opens = [t \in Threads |-> <<>>]
    BY <1>1 DEF Opens, Open, NoTxn
<1> QED BY <1>4, <1>6, <1>7, <1>8, <1>9 DEF Abstract!Init, Opens

\* Transactions are atomic and durable: with one write or truncate of a file that is
\* there in each, a storage that does not fail and replay() after every crash, the
\* manager implements AtomicTxns, for every number of threads, of transactions and of
\* records in the log, and wherever a crash comes.
THEOREM AtomicTheorem ==
    ASSUME SingleDataOps
    PROVE  Spec => Atomic
<1>1. Init => AtomicInv /\ Abstract!Init
    BY InitAtomic, InitStep DEF AtomicInv
<1>2. AtomicInv /\ [Next]_vars => DataInv' /\ BeforeFlush' /\ Pending' /\ [Abstract!Next]_<<Visible, Opens>>
    <2> SUFFICES ASSUME AtomicInv, [Next]_vars PROVE AtomicStep
        BY DEF AtomicStep
    <2>1. CASE UNCHANGED vars
        BY <2>1, SameAtomic DEF vars, threads
    <2>2. CASE append \/ flush \/ lock_state \/ apply \/ clear_txn
        BY <2>2, AppendAtomic, FlushAtomic, LockAtomic, ApplyAtomic, ClearAtomic
    <2>3. CASE Crash \/ replay \/ replay_apply
        BY <2>3, CrashAtomic, ReplayAtomic, ReplayApplyAtomic
    <2>4. CASE mount
        BY <2>4 DEF mount, SingleDataOps
    <2>5. ASSUME NEW t \in Threads,
                 \/ begin_transaction(t) \/ rollback(t)
                 \/ commit(t, "commit") \/ commit(t, "wal_only")
                 \/ read_lock(t) \/ read_unlock(t)
          PROVE  AtomicStep
        <3>1. CASE begin_transaction(t) \/ rollback(t) \/ commit(t, "commit")
            BY <3>1, BeginAtomic, RollbackAtomic, CommitAtomic
        <3>2. CASE commit(t, "wal_only")
            BY <3>2 DEF commit, SingleDataOps
        <3>3. CASE read_lock(t) \/ read_unlock(t)
            BY <3>3, SameAtomic DEF read_lock, read_unlock
        <3> QED BY <2>5, <3>1, <3>2, <3>3
    <2> QED BY <2>1, <2>2, <2>3, <2>4, <2>5 DEF Next
<1>3. Opens = [t \in Threads |-> Open(t)]
    BY DEF Opens
<1>4. AtomicInv /\ IInv' /\ [Next]_vars => AtomicInv'
    BY <1>2 DEF AtomicInv
<1> QED BY <1>1, <1>2, <1>4, WalInvariant, PTL DEF Spec, Atomic, Abstract!Spec, Opens

=============================================================================
