------------------------------ MODULE DbfsWal ------------------------------
(***************************************************************************)
(* The transaction manager of the rvfs2 front end (transaction.rs) over    *)
(* its write-ahead log (wal.rs): threads record operations and commit      *)
(* them, a commit writes them to the log, flushes it, applies them to the  *)
(* file system below under the state lock and clears them from the log; a  *)
(* crash may come between any two of these steps, and replay() applies     *)
(* what the log holds.                                                     *)
(*                                                                         *)
(* commit, commit_into_wal_only and replay hold the lock on the log from   *)
(* their first step to their last: job is the one that does.               *)
(***************************************************************************)
EXTENDS BottomFs, Subsequences

CONSTANTS
    Threads,
    Transactions,  \* the sequences of operations that threads record
    InitialFs,     \* the file system below at the start
    Starts,        \* how the file system comes up after a crash: "replay", "mount"
    WalOnly,       \* whether commit_into_wal_only is called
    StorageFails,  \* whether the log's storage may return an error
    ApplyFails,    \* whether an operation that applies may yet return an error
    MaxTxn,        \* bound: transactions begun between two starts
    MaxLog         \* bound: records in the log

ASSUME WalAssumption ==
    /\ InitialFs \in Fs
    /\ Transactions \subseteq Seq(Operations) /\ "none" \notin Threads
    /\ Starts \subseteq {"replay", "mount"} /\ WalOnly \in BOOLEAN
    /\ StorageFails \in BOOLEAN /\ ApplyFails \in BOOLEAN
    /\ MaxTxn \in Nat /\ MaxLog \in Nat

VARIABLES
    fs,           \* the file system below
    file,         \* the log file: a sequence of records
    synced,       \* what the log file held when it was last flushed
    next_offset,  \* where the next record goes: after that many records ...
    skewed,       \* ... or after the size of one whose data was not written
    entries,      \* WriteAheadLog.entries, kept in memory
    broken,       \* history: a record's data was not written since the log was last empty
    next_txn_id,
    txn,          \* the transaction each thread has begun
    job,          \* what holds the lock on the log
    readers,      \* the threads that hold state_lock for reading
    status        \* "down", "up", or "failed": replay returned an error

log == <<file, synced, next_offset, skewed, entries, broken>>
threads == <<next_txn_id, txn, readers>>
vars == <<fs, log, threads, job, status>>

NoTxn == [id |-> 0, ops |-> <<>>]
NoJob == [kind |-> "none", who |-> "none", at |-> "none", todo |-> <<>>]

-----------------------------------------------------------------------------
(* The log file *)

\* A record is good if its size and data are in place, torn if the data is not,
\* and astray if it was written where recover() does not look for a size.
Good(id, op) == [is |-> "good", id |-> id, op |-> op]
Torn(op) == [is |-> "torn", id |-> 0, op |-> op]
Astray(op) == [is |-> "astray", id |-> 0, op |-> op]

\* Where recover() stops: text read as a size is above the sanity bound.
StopsAt(f) ==
    LET p == SelectInSeq(f, LAMBDA r : r.is = "astray")
    IN  IF p = 0 THEN Len(f) ELSE p - 1

\* What recover() returns; the data of a torn record does not parse and is skipped.
Recovered(f) == Kept(f, {i \in 1..StopsAt(f) : f[i].is = "good"})

\* The operations of a sequence of records.
Ops(r) == [i \in DOMAIN r |-> r[i].op]

\* storage.write at the record after the first k.
WriteAt(f, k, r) == IF k < Len(f) THEN [f EXCEPT ![k + 1] = r] ELSE Append(f, r)

\* The log file after a crash: what was flushed, or with it the first few of the
\* later writes, the last of them perhaps in part.
Surviving ==
    LET written == {f \in Prefixes(file) : IsPrefix(synced, file) => IsPrefix(synced, f)}
        cut == {f \in written : Len(f) > 0 /\ (IsPrefix(synced, file) => f # synced)}
        torn == {[f EXCEPT ![Len(f)] = Torn(f[Len(f)].op)] : f \in {g \in cut : g[Len(g)].is # "astray"}}
    IN  {synced} \cup written \cup torn

-----------------------------------------------------------------------------

Init ==
    /\ fs = InitialFs
    /\ file = <<>> /\ synced = <<>> /\ next_offset = 0 /\ skewed = FALSE /\ entries = <<>>
    /\ broken = FALSE
    /\ next_txn_id = 1 /\ txn = [t \in Threads |-> NoTxn] /\ readers = {}
    /\ job = NoJob
    /\ status = "up"

\* begin_transaction, and record for each of the operations.
begin_transaction(t) ==
    /\ status = "up" /\ txn[t] = NoTxn /\ t \notin readers
    /\ next_txn_id <= MaxTxn
    /\ next_txn_id' = next_txn_id + 1
    /\ \E ops \in Transactions : txn' = [txn EXCEPT ![t] = [id |-> next_txn_id, ops |-> ops]]
    /\ UNCHANGED <<fs, log, readers, job, status>>

rollback(t) ==
    /\ txn[t] # NoTxn /\ job.who # t
    /\ txn' = [txn EXCEPT ![t] = NoTxn]
    /\ UNCHANGED <<fs, log, next_txn_id, readers, job, status>>

\* A thread takes the lock on the log to commit its transaction.
commit(t, kind) ==
    /\ job = NoJob /\ txn[t] # NoTxn
    /\ kind = "wal_only" => WalOnly
    /\ Len(file) + Len(txn[t].ops) <= MaxLog
    /\ job' = [kind |-> kind, who |-> t, at |-> "append", todo |-> txn[t].ops]
    /\ UNCHANGED <<fs, log, threads, status>>

\* The commit returns, and the transaction it was given is dropped.
Returns ==
    /\ job' = NoJob
    /\ txn' = [txn EXCEPT ![job.who] = NoTxn]
    /\ UNCHANGED <<next_txn_id, readers, status>>

\* WriteAheadLog.append for the next operation: the size and the data are two writes.
append ==
    LET op == Head(job.todo)
        entry == Good(txn[job.who].id, op)
    IN  /\ job.at = "append" /\ job.todo # <<>>
        /\ \/ /\ file' = WriteAt(file, next_offset, IF skewed THEN Astray(op) ELSE entry)
              /\ next_offset' = next_offset + 1
              /\ entries' = Append(entries, entry)
              /\ job' = [job EXCEPT !.todo = Tail(@)]
              /\ UNCHANGED <<skewed, broken, threads, status>>
           \/ /\ StorageFails    \* the size is not written
              /\ Returns
              /\ UNCHANGED <<file, next_offset, skewed, entries, broken>>
           \/ /\ StorageFails    \* the data is not written
              /\ file' = WriteAt(file, next_offset, IF skewed THEN Astray(op) ELSE Torn(op))
              /\ next_offset' = next_offset + 1
              /\ skewed' = TRUE /\ broken' = TRUE
              /\ Returns
              /\ UNCHANGED entries
        /\ UNCHANGED <<fs, synced>>

\* Mutant: the log is not flushed.
flush_Not ==
    /\ job.at = "append" /\ job.todo = <<>>
    /\ job' = [job EXCEPT !.at = "lock", !.todo = txn[job.who].ops]
    /\ UNCHANGED <<fs, log, threads, status>>

\* WriteAheadLog.flush, once the operations are appended.
flush ==
    /\ job.at = "append" /\ job.todo = <<>>
    /\ \/ /\ synced' = file
          /\ \/ /\ job.kind = "commit"
                /\ job' = [job EXCEPT !.at = "lock", !.todo = txn[job.who].ops]
                /\ UNCHANGED <<threads, status>>
             \/ job.kind = "wal_only" /\ Returns
       \/ StorageFails /\ Returns /\ UNCHANGED synced
    /\ UNCHANGED <<fs, file, next_offset, skewed, entries, broken>>

\* Mutant: the readers are not waited for.
lock_state_Shared ==
    /\ job.at = "lock"
    /\ job' = [job EXCEPT !.at = "apply"]
    /\ UNCHANGED <<fs, log, threads, status>>

\* Mutant: a commit also waits for the transactions that are open.
lock_state_Quiesces ==
    /\ job.at = "lock" /\ readers = {}
    /\ \A t \in Threads \ {job.who} : txn[t] = NoTxn
    /\ job' = [job EXCEPT !.at = "apply"]
    /\ UNCHANGED <<fs, log, threads, status>>

\* state_lock.write()
lock_state ==
    /\ job.at = "lock" /\ readers = {}
    /\ job' = [job EXCEPT !.at = "apply"]
    /\ UNCHANGED <<fs, log, threads, status>>

\* The next operation is applied; an error ends the commit, which leaves the
\* operations before it applied and all of them in the log.
apply ==
    /\ job.at = "apply" /\ job.todo # <<>>
    /\ \/ /\ Applies(fs, Head(job.todo))
          /\ fs' = Apply(fs, Head(job.todo))
          /\ job' = [job EXCEPT !.todo = Tail(@)]
          /\ UNCHANGED <<threads, status>>
       \/ /\ ApplyFails \/ ~Applies(fs, Head(job.todo))
          /\ Returns
          /\ UNCHANGED fs
    /\ UNCHANGED log

\* Mutant: the log is truncated after every commit.
clear_txn_Always ==
    /\ job.at = "apply" /\ job.todo = <<>>
    /\ entries' = Kept(entries, {i \in DOMAIN entries : entries[i].id # txn[job.who].id})
    /\ file' = <<>> /\ next_offset' = 0 /\ skewed' = FALSE /\ broken' = FALSE
    /\ Returns
    /\ UNCHANGED <<fs, synced>>

\* clear_txn, and checkpoint if it leaves no entry in memory; commit returns Ok.
clear_txn ==
    LET kept == Kept(entries, {i \in DOMAIN entries : entries[i].id # txn[job.who].id})
    IN  /\ job.at = "apply" /\ job.todo = <<>>
        /\ entries' = kept
        /\ \/ /\ kept = <<>>
              /\ file' = <<>> /\ next_offset' = 0 /\ skewed' = FALSE /\ broken' = FALSE
           \/ /\ kept # <<>> \/ StorageFails    \* or truncate returned an error
              /\ UNCHANGED <<file, next_offset, skewed, broken>>
        /\ Returns
        /\ UNCHANGED <<fs, synced>>

-----------------------------------------------------------------------------
(* Readers: read_at, readdir, lookup and get_attr hold state_lock *)

read_lock(t) ==
    /\ status = "up" /\ txn[t] = NoTxn /\ t \notin readers /\ job.at # "apply"
    /\ readers' = readers \cup {t}
    /\ UNCHANGED <<fs, log, next_txn_id, txn, job, status>>

read_unlock(t) ==
    /\ t \in readers
    /\ readers' = readers \ {t}
    /\ UNCHANGED <<fs, log, next_txn_id, txn, job, status>>

-----------------------------------------------------------------------------
(* Crashes and recovery *)

Crash ==
    /\ status' = "down"
    /\ file' \in Surviving /\ synced' = file'
    /\ next_offset' = 0 /\ skewed' = FALSE /\ entries' = <<>> /\ broken' = FALSE
    /\ next_txn_id' = 1 /\ txn' = [t \in Threads |-> NoTxn] /\ readers' = {}
    /\ job' = NoJob
    /\ UNCHANGED fs

\* DbfsFsType::mount creates the log's file and does not call replay().
mount ==
    /\ status = "down" /\ job = NoJob /\ "mount" \in Starts
    /\ status' = "up"
    /\ file' = <<>> /\ synced' = <<>>
    /\ UNCHANGED <<fs, next_offset, skewed, entries, broken, threads, job>>

\* Mutant: recovery starts from the last record.
replay_Reversed ==
    /\ status = "down" /\ job = NoJob
    /\ next_offset' = StopsAt(file) /\ skewed' = FALSE
    /\ job' = [kind |-> "replay", who |-> "none", at |-> "replay",
               todo |-> Ops(Reverse(Recovered(file)))]
    /\ UNCHANGED <<fs, file, synced, entries, broken, threads, status>>

\* replay() reads the log: after a start, or while up, as the test of it does.
replay ==
    /\ job = NoJob
    /\ ("replay" \in Starts /\ status = "down") \/ (WalOnly /\ status = "up")
    /\ next_offset' = StopsAt(file) /\ skewed' = FALSE
    /\ job' = [kind |-> "replay", who |-> "none", at |-> "replay",
               todo |-> Ops(Recovered(file))]
    /\ UNCHANGED <<fs, file, synced, entries, broken, threads, status>>

\* Mutant: recovery does not go past the first entry.
replay_apply_Stays ==
    /\ job.at = "replay"
    /\ \/ job.todo = <<>> /\ status' = "up" /\ job' = NoJob /\ UNCHANGED fs
       \/ job.todo # <<>> /\ fs' = Apply(fs, Head(job.todo)) /\ UNCHANGED <<job, status>>
    /\ UNCHANGED <<log, threads>>

\* It applies the entries one by one, without the state lock; the first error ends it.
replay_apply ==
    /\ job.at = "replay"
    /\ \/ /\ job.todo = <<>>
          /\ status' = "up" /\ job' = NoJob
          /\ UNCHANGED fs
       \/ /\ job.todo # <<>> /\ Applies(fs, Head(job.todo))
          /\ fs' = Apply(fs, Head(job.todo))
          /\ job' = [job EXCEPT !.todo = Tail(@)]
          /\ UNCHANGED status
       \/ /\ job.todo # <<>> /\ ~Applies(fs, Head(job.todo))
          /\ status' = "failed" /\ job' = NoJob
          /\ UNCHANGED fs
    /\ UNCHANGED <<log, threads>>

-----------------------------------------------------------------------------

Next ==
    \/ append \/ flush \/ lock_state \/ apply \/ clear_txn
    \/ Crash \/ mount \/ replay \/ replay_apply
    \/ \E t \in Threads :
        \/ begin_transaction(t) \/ rollback(t)
        \/ commit(t, "commit") \/ commit(t, "wal_only")
        \/ read_lock(t) \/ read_unlock(t)

\* The thread that starts the file system, a thread inside commit and a reader
\* run on.
Fairness ==
    /\ WF_vars(status = "down" /\ (mount \/ replay \/ replay_apply))
    /\ WF_vars(append \/ flush \/ lock_state \/ apply \/ clear_txn)
    /\ \A t \in Threads : WF_vars(read_unlock(t))

Spec == Init /\ [][Next]_vars /\ Fairness

-----------------------------------------------------------------------------
(* Properties *)

Records == [is : {"good", "torn", "astray"}, id : 0..MaxTxn, op : Operations]

TxnType == [Threads -> [id : 0..MaxTxn, ops : Transactions \cup {<<>>}]]
JobType ==
    [kind : {"none", "commit", "wal_only", "replay"}, who : Threads \cup {"none"},
     at : {"none", "append", "lock", "apply", "replay"}, todo : Seq(Operations)]

TypeOK ==
    /\ fs \in Fs
    /\ file \in Seq(Records) /\ synced \in Seq(Records) /\ entries \in Seq(Records)
    /\ Len(file) <= MaxLog /\ next_offset \in 0..MaxLog
    /\ skewed \in BOOLEAN /\ broken \in BOOLEAN
    /\ next_txn_id \in 1..(MaxTxn + 1)
    /\ txn \in TxnType /\ readers \subseteq Threads /\ job \in JobType
    /\ status \in {"down", "up", "failed"}

\* The state keeps its type and, unless the data of a record was not written since
\* the log was last empty, whatever it keeps in memory, because its transaction is
\* not finished or because it failed, recover() would find in the file, in the same
\* order.
EntriesInFile == TypeOK /\ (~broken => Embeds(entries, Recovered(file)))

\* From the flush to the end of the commit, what is still to be applied survives
\* any crash, unless the record went behind a size without data: recover() finds it
\* at the end of every log file that a crash may leave.
Durable ==
    job.at \in {"lock", "apply"} /\ ~skewed =>
        \A f \in Surviving :
            LET ops == txn[job.who].ops
                r == Recovered(f)
                k == Len(r) - Len(ops)
            IN  k >= 0 /\ \A i \in DOMAIN ops : r[k + i].op = ops[i]

\* The file system does not change under a reader.
StableForReaders == [][readers # {} => UNCHANGED fs]_vars

\* What clients see: the state that replay() would restore, from the flush on.
Visible ==
    IF status = "up" /\ job.at \in {"none", "append"} THEN fs
    ELSE LET todo == IF status = "up" THEN job.todo
                     ELSE Ops(Recovered(file))
         IN  ApplyAll(fs, todo)

\* A thread whose transaction is past the flush has committed.
Open(t) == IF job.who = t /\ job.at \in {"lock", "apply"} THEN <<>> ELSE txn[t].ops

Abstract == INSTANCE AtomicTxns WITH fs <- Visible, open <- [t \in Threads |-> Open(t)]

\* Transactions are atomic and durable across crashes, as rvfs2 uses them for
\* write_at and truncate: one operation each, which may be applied twice.
Atomic == Abstract!Spec

\* Recovery ends: unless crashes keep coming, the file system does not stay down.
Recovers == []<><<Crash>>_vars \/ []<>(status # "down")

\* A commit waits for the readers with the lock on the log in hand. Whatever
\* fails on the way it returns, unless readers keep coming.
CommitReturns ==
    \/ []<><<readers' \ readers # {}>>_vars
    \/ [](job.kind = "commit" => <>(job.kind # "commit"))

=============================================================================
