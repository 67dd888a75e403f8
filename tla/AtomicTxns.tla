----------------------------- MODULE AtomicTxns -----------------------------
(***************************************************************************)
(* What the transaction manager promises: a transaction is applied whole   *)
(* and once, at its commit, or not at all; a crash loses the transactions  *)
(* that are open, except that the one being committed may be in.           *)
(***************************************************************************)
EXTENDS BottomFs

CONSTANTS Threads, Transactions   \* Transactions: the sequences of operations a thread may commit

VARIABLES
    fs,     \* the file system a client sees
    open    \* what each thread has recorded and not committed; <<>> for nothing

Init == fs \in Fs /\ open = [t \in Threads |-> <<>>]

Begin(t) ==
    /\ open[t] = <<>>
    /\ \E ops \in Transactions : open' = [open EXCEPT ![t] = ops]
    /\ UNCHANGED fs

Commit(t) ==
    /\ fs' = ApplyAll(fs, open[t])
    /\ open' = [open EXCEPT ![t] = <<>>]

Abort(t) ==
    /\ open' = [open EXCEPT ![t] = <<>>]
    /\ UNCHANGED fs

Crash ==
    /\ open' = [t \in Threads |-> <<>>]
    /\ \/ UNCHANGED fs
       \/ \E t \in Threads : fs' = ApplyAll(fs, open[t])

Next == Crash \/ \E t \in Threads : Begin(t) \/ Commit(t) \/ Abort(t)

Spec == Init /\ [][Next]_<<fs, open>>

=============================================================================
