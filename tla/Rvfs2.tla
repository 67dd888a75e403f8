------------------------------- MODULE Rvfs2 -------------------------------
(***************************************************************************)
(* The inodes of rvfs2 in one directory: the buckets in the database, the  *)
(* counter that new inode numbers are drawn from, and each superblock's    *)
(* cache of inode objects.  create, unlink and rename go through the       *)
(* transaction manager, which applies them with state_lock held; lookup    *)
(* holds it for reading; link, symlink and rmdir do not take it.  Every    *)
(* call but these is several steps, and several threads make calls.        *)
(***************************************************************************)
EXTENDS Integers, FiniteSets

CONSTANTS
    Names,      \* the names in the directory
    Threads,    \* the callers
    Mounts,     \* the superblocks that may be mounted at a time
    Made,       \* bound: the kinds that create is called with
    MaxIno,     \* bound: inode numbers drawn are 1..MaxIno
    MaxRedrawn, \* bound: the numbers drawn once the counter may have gone back
    MaxLinks    \* bound: the link count of an inode

ASSUME Rvfs2Assumption ==
    /\ MaxIno \in Nat \ {0} /\ MaxRedrawn \in Nat /\ MaxLinks \in Nat \ {0}
    /\ Made \subseteq {"file", "dir", "other"}
    /\ IsFiniteSet(Names)

VARIABLES
    dir,        \* name |-> inode number, NoIno if the name is free
    inodes,     \* the buckets: kind and link count
    number,     \* DBFS_INODE_NUMBER
    continue_number,    \* its value as it is stored in the super block
    mounted,    \* the superblocks in use
    inode_cache,        \* superblock |-> number |-> kind of the cached object
    call,       \* what each thread is doing
    raced,      \* history: numbers that a create took for the one it had made
    setback,    \* history: a mount has set number back under another superblock
    lost        \* history: a crash has lost numbers that were drawn

vars == <<dir, inodes, number, continue_number, mounted, inode_cache, call, raced, setback, lost>>

db == <<dir, inodes>>
superblocks == <<continue_number, mounted, setback, lost>>

Inos == 1..MaxIno
NoIno == 0
Root == 1

Kinds == {"file", "dir", "link", "other"}

Gone == [kind |-> "gone", links |-> 0]
NoObject == "none"
Idle == [op |-> "idle"]

Used == {i \in Inos : inodes[i].kind # "gone"}

\* The calls that hold state_lock for reading.
Reading == {t \in Threads : call[t].op = "lookup"}

\* The database as mkfs leaves it: the root has drawn number 1, and the super
\* block names 1 as the next number.
Init ==
    /\ dir = [n \in Names |-> NoIno]
    /\ inodes = [i \in Inos |-> IF i = Root THEN [kind |-> "dir", links |-> 2] ELSE Gone]
    /\ number = 1 /\ continue_number = 1
    /\ mounted = {}
    /\ inode_cache = [m \in Mounts |-> [i \in Inos |-> NoObject]]
    /\ call = [t \in Threads |-> Idle]
    /\ raced = {} /\ setback = FALSE /\ lost = FALSE

-----------------------------------------------------------------------------
(* Superblocks *)

\* DbfsFsType::mount: the new superblock sets the counter to the stored number,
\* and its cache, which the root's copy of it shares with all inodes, is empty.
mount(m) ==
    /\ m \notin mounted
    /\ number' = continue_number
    /\ mounted' = mounted \cup {m}
    /\ inode_cache' = [inode_cache EXCEPT ![m] = [i \in Inos |-> NoObject]]
    /\ setback' = (setback \/ (mounted # {} /\ continue_number < number))
    /\ UNCHANGED <<db, continue_number, call, raced, lost>>

sync_fs(m) ==
    /\ m \in mounted
    /\ continue_number' = number
    /\ UNCHANGED <<db, number, mounted, inode_cache, call, raced, setback, lost>>

\* Mutant: the superblock goes without being synced.
kill_sb_NoSync(m) ==
    /\ m \in mounted
    /\ \A t \in Threads : call[t] # Idle => call[t].sb # m
    /\ mounted' = mounted \ {m}
    /\ inode_cache' = [inode_cache EXCEPT ![m] = [i \in Inos |-> NoObject]]
    /\ UNCHANGED <<db, number, continue_number, call, raced, setback, lost>>

\* The VFS waits for the calls that use the superblock.
kill_sb(m) ==
    /\ m \in mounted
    /\ \A t \in Threads : call[t] # Idle => call[t].sb # m
    /\ continue_number' = number
    /\ mounted' = mounted \ {m}
    /\ inode_cache' = [inode_cache EXCEPT ![m] = [i \in Inos |-> NoObject]]
    /\ UNCHANGED <<db, number, call, raced, setback, lost>>

\* The machine stops: what is not in the database starts anew.
Crash ==
    /\ mounted # {}
    /\ mounted' = {} /\ number' = 1
    /\ inode_cache' = [m \in Mounts |-> [i \in Inos |-> NoObject]]
    /\ call' = [t \in Threads |-> Idle]
    /\ lost' = (lost \/ continue_number < number)
    /\ UNCHANGED <<db, continue_number, raced, setback>>

-----------------------------------------------------------------------------
(* What the calls do to the database *)

Return(t) == call' = [call EXCEPT ![t] = Idle]

\* The bounds on a number that is drawn.
Bounded(i) == i \in Inos /\ (setback \/ lost => i <= MaxRedrawn)

\* Mutant: the first number without a bucket is taken.
draw_Free(i) ==
    /\ Bounded(i) /\ i \notin Used /\ \A j \in 1..(i - 1) : j \in Used
    /\ number' = IF i < number THEN number ELSE i + 1

\* fetch_add, which no failure takes back.
draw(i) == i = number /\ Bounded(i) /\ number' = number + 1

\* A new bucket under number i and a name for it.
dbfs_create(name, kind, i) ==
    /\ dir' = [dir EXCEPT ![name] = i]
    /\ inodes' = [inodes EXCEPT ![i] = [kind |-> kind, links |-> 1]]

\* Mutant: the bucket goes with the first name.
dbfs_unlink_Bucket(name) ==
    /\ dir' = [dir EXCEPT ![name] = NoIno]
    /\ inodes' = [inodes EXCEPT ![dir[name]] = Gone]

\* The bucket goes with the last link.
dbfs_unlink(name) ==
    LET bucket == inodes[dir[name]]
        left == IF bucket.links <= 1 THEN Gone ELSE [bucket EXCEPT !.links = @ - 1]
    IN  /\ dir' = [dir EXCEPT ![name] = NoIno]
        /\ inodes' = [inodes EXCEPT ![dir[name]] = left]

-----------------------------------------------------------------------------
(* Calls through the transaction manager *)

\* create commits; a number that has a bucket already fails the transaction.
CreateCommit(t, m, name, kind, i) ==
    /\ call[t] = Idle /\ m \in mounted /\ Reading = {}
    /\ dir[name] = NoIno
    /\ draw(i)
    /\ IF i \in Used
       THEN UNCHANGED <<db, call>>
       ELSE /\ dbfs_create(name, kind, i)
            /\ call' = [call EXCEPT ![t] =
                    [op |-> "created", sb |-> m, name |-> name, kind |-> kind, ino |-> i]]
    /\ UNCHANGED <<superblocks, inode_cache, raced>>

\* Then it looks the name up to find the inode it has made; kinds that have no
\* object end the call with an error here, and the inode stays.
CreateLookup(t) ==
    LET i == dir[call[t].name]
    IN  /\ call[t].op = "created"
        /\ IF i = NoIno \/ call[t].kind \notin {"file", "dir"}
           THEN Return(t) /\ UNCHANGED raced
           ELSE /\ call' = [call EXCEPT ![t].op = "found", ![t].ino = i]
                /\ raced' = IF i = call[t].ino THEN raced ELSE raced \cup {i}
        /\ UNCHANGED <<db, superblocks, number, inode_cache>>

\* The object gets the kind that was asked for, when its attributes can be read.
CreateInsert(t) ==
    /\ call[t].op = "found"
    /\ inode_cache' =
        IF call[t].ino \in Used
        THEN [inode_cache EXCEPT ![call[t].sb][call[t].ino] = call[t].kind]
        ELSE inode_cache
    /\ Return(t)
    /\ UNCHANGED <<db, superblocks, number, raced>>

\* The cache keeps the object.  The VFS unlinks no directory.
unlink(t, m, name) ==
    /\ call[t] = Idle /\ m \in mounted /\ Reading = {}
    /\ dir[name] # NoIno /\ inodes[dir[name]].kind # "dir"
    /\ dbfs_unlink(name)
    /\ UNCHANGED <<superblocks, number, inode_cache, call, raced>>

\* The inode that the new name had keeps its bucket and its link count.
rename_to(t, m, old, new) ==
    /\ call[t] = Idle /\ m \in mounted /\ Reading = {}
    /\ dir[old] # NoIno /\ old # new
    /\ dir' = [dir EXCEPT ![old] = NoIno, ![new] = dir[old]]
    /\ UNCHANGED <<inodes, superblocks, number, inode_cache, call, raced>>

-----------------------------------------------------------------------------
(* Lookup, and the calls that go to the database directly *)

\* A cached object is returned at once.
LookupFind(t, m, name) ==
    LET i == dir[name]
    IN  /\ call[t] = Idle /\ m \in mounted
        /\ i # NoIno /\ inode_cache[m][i] = NoObject
        /\ inodes[i].kind # "other"
        /\ call' = [call EXCEPT ![t] =
                [op |-> "lookup", sb |-> m, ino |-> i, kind |-> inodes[i].kind]]
        /\ UNCHANGED <<db, superblocks, number, inode_cache, raced>>

\* The new object has the kind that was found; its attributes are read again.
LookupInsert(t) ==
    /\ call[t].op = "lookup"
    /\ inode_cache' =
        IF call[t].ino \in Used
        THEN [inode_cache EXCEPT ![call[t].sb][call[t].ino] = call[t].kind]
        ELSE inode_cache
    /\ Return(t)
    /\ UNCHANGED <<db, superblocks, number, raced>>

\* src is the inode object that the VFS passes: not a directory, and possibly
\* without a bucket by now, which is an error.
link(t, m, src, name) ==
    /\ call[t] = Idle /\ m \in mounted
    /\ src \in Used /\ inodes[src].kind # "dir" /\ inodes[src].links < MaxLinks
    /\ dir[name] = NoIno
    /\ dir' = [dir EXCEPT ![name] = src]
    /\ inodes' = [inodes EXCEPT ![src].links = @ + 1]
    /\ UNCHANGED <<superblocks, number, inode_cache, call, raced>>

SymlinkCreate(t, m, name, i) ==
    /\ call[t] = Idle /\ m \in mounted
    /\ dir[name] = NoIno
    /\ draw(i)
    /\ IF i \in Used
       THEN UNCHANGED <<db, call>>
       ELSE /\ dbfs_create(name, "link", i)
            /\ call' = [call EXCEPT ![t] = [op |-> "symlink", sb |-> m, ino |-> i]]
    /\ UNCHANGED <<superblocks, inode_cache, raced>>

SymlinkInsert(t) ==
    /\ call[t].op = "symlink"
    /\ inode_cache' =
        IF call[t].ino \in Used
        THEN [inode_cache EXCEPT ![call[t].sb][call[t].ino] = "link"]
        ELSE inode_cache
    /\ Return(t)
    /\ UNCHANGED <<db, superblocks, number, raced>>

\* The directories of the model are empty; the cache keeps the object.
rmdir(t, m, name) ==
    /\ call[t] = Idle /\ m \in mounted
    /\ dir[name] # NoIno /\ inodes[dir[name]].kind = "dir"
    /\ dir' = [dir EXCEPT ![name] = NoIno]
    /\ inodes' = [inodes EXCEPT ![dir[name]] = Gone]
    /\ UNCHANGED <<superblocks, number, inode_cache, call, raced>>

Call(t, m) ==
    \/ \E name \in Names, kind \in Made, i \in Inos : CreateCommit(t, m, name, kind, i)
    \/ \E name \in Names :
        unlink(t, m, name) \/ LookupFind(t, m, name) \/ rmdir(t, m, name)
    \/ \E old, new \in Names : rename_to(t, m, old, new)
    \/ \E src \in Inos, name \in Names : link(t, m, src, name)
    \/ \E name \in Names, i \in Inos : SymlinkCreate(t, m, name, i)

Next ==
    \/ \E m \in Mounts : mount(m) \/ sync_fs(m) \/ kill_sb(m)
    \/ Crash
    \/ \E t \in Threads, m \in Mounts : Call(t, m)
    \/ \E t \in Threads :
        CreateLookup(t) \/ CreateInsert(t) \/ LookupInsert(t) \/ SymlinkInsert(t)

Spec == Init /\ [][Next]_vars

-----------------------------------------------------------------------------
(* Properties *)

\* The types: in particular no bucket is left without a link.
TypeOK ==
    /\ dir \in [Names -> Inos \cup {NoIno}]
    /\ \A i \in Inos :
        \/ inodes[i] = Gone
        \/ inodes[i].kind \in Kinds /\ inodes[i].links \in Nat \ {0}
    /\ number \in 1..(MaxIno + 1) /\ continue_number \in 1..(MaxIno + 1)
    /\ mounted \subseteq Mounts
    /\ inode_cache \in [Mounts -> [Inos -> Kinds \cup {NoObject}]]
    /\ raced \subseteq Inos

NamesOf(i) == {n \in Names : dir[n] = i}

\* The state keeps its type, every name leads to a bucket, and an inode has as many
\* links at least as it has names, though links are added without the lock that
\* unlink takes.
NamesWithinLinks ==
    TypeOK /\ \A n \in Names : dir[n] # NoIno =>
        dir[n] \in Used /\ Cardinality(NamesOf(dir[n])) <= inodes[dir[n]].links

\* unlink and rmdir leave their inode in the cache, and still lookup finds under
\* every number an object of the right kind, unless a create took a name that
\* was made anew meanwhile for its own, or numbers are drawn a second time since
\* a mount has set the counter back or a crash came before it was stored.
CachedKindHasCause ==
    ~setback /\ ~lost => \A m \in mounted : \A i \in Used \ raced :
        inode_cache[m][i] \in {NoObject, inodes[i].kind}

\* After any sequence of syncs, unmounts and mounts new numbers lie above all
\* those in use, the root's apart, unless a crash or a second mount came before
\* the counter was stored.
CounterAhead ==
    mounted # {} /\ ~setback /\ ~lost => \A i \in Used \ {Root} : i < number

=============================================================================
