----------------------------- MODULE Attributes -----------------------------
(***************************************************************************)
(* The attributes and extended attributes of one file under FUSE, whose    *)
(* one thread serves a request at a time: who may change them, what is     *)
(* stored, and what is replied, which the kernel keeps for a second: all   *)
(* but the set-id bits, which no reply has.                                *)
(***************************************************************************)
EXTENDS Integers

CONSTANTS
    Callers,    \* the clients: records of uid and gid; uid 0 is root
    Requests,   \* what setattr is asked for: records of optional changes
    FirstModes, \* the modes, sets of bits, that a file is created with
    MaxSize,    \* bound: the size of the file
    Times,      \* the readings of the clock
    LastKey,    \* the names of extended attributes are numbered in their order, up to this
    Namespace,  \* key |-> what its prefix names, "other" if nothing
    Length,     \* key |-> the length of its name and a zero
    None        \* an optional argument that is not given

Keys == 1..LastKey

SetId == {"suid", "sgid"}
Rwx == {"ur", "uw", "ux", "gr", "gw", "gx", "or", "ow", "ox"}

\* A request has a value or None for each of the changes that setattr knows; the
\* clock reads 1 when the file is created.
ASSUME AttributesAssumption ==
    /\ Callers \subseteq [uid : Nat, gid : Nat]
    /\ FirstModes \subseteq SUBSET (Rwx \cup SetId)
    /\ Requests \subseteq [mode : (SUBSET (Rwx \cup SetId)) \cup {None}, uid : Nat \cup {None},
                           gid : Nat \cup {None}, size : Nat \cup {None},
                           atime : Times \cup {None}, mtime : Times \cup {None}]
    /\ MaxSize \in Nat /\ 1 \in Times
    /\ LastKey \in Nat /\ Namespace \in [Keys -> {"user", "acl", "system", "trusted", "security", "other"}]
    /\ Length \in [Keys -> Nat \ {0}]

VARIABLES
    attr,       \* what the bucket holds
    xattrs,     \* the keys of its extended attributes
    reply,      \* the last reply: attributes, or just done or failed
    caller      \* who made the last request

vars == <<attr, xattrs, reply, caller>>

Done == [st |-> "done"]
Failed == [st |-> "failed"]

\* The conversion of DbfsAttr for a reply keeps the permission bits of the mode alone.
FileAttr(a) == [a EXCEPT !.mode = @ \cap Rwx]

Replied(a) == [st |-> "attr", attr |-> FileAttr(a)]

Given(x) == x # None

Init ==
    /\ attr \in [uid : {c.uid : c \in Callers}, gid : {c.gid : c \in Callers},
                 mode : FirstModes, size : {0}, atime : {1}, mtime : {1}, ctime : {1}]
    /\ xattrs = {}
    /\ reply = Done
    /\ caller \in Callers

-----------------------------------------------------------------------------
(* Access *)

UserBit(p) == [r |-> "ur", w |-> "uw", x |-> "ux"][p]
GroupBit(p) == [r |-> "gr", w |-> "gw", x |-> "gx"][p]
OtherBit(p) == [r |-> "or", w |-> "ow", x |-> "ox"][p]

\* checkout_access for one permission p: root needs some x bit to execute.
checkout_access(c, p) ==
    IF c.uid = 0 THEN p # "x" \/ attr.mode \cap {"ux", "gx", "ox"} # {}
    ELSE IF c.uid = attr.uid THEN UserBit(p) \in attr.mode
    ELSE IF c.gid = attr.gid THEN GroupBit(p) \in attr.mode
    ELSE OtherBit(p) \in attr.mode

xattr_access_check(c, key, p) ==
    CASE Namespace[key] = "security" -> p = "r" \/ c.uid = 0
      [] Namespace[key] \in {"trusted", "system"} -> c.uid = 0
      [] Namespace[key] \in {"user", "acl"} -> checkout_access(c, p)
      [] Namespace[key] = "other" -> FALSE

-----------------------------------------------------------------------------
(* What setattr calls: each gives the attributes that are stored and returned *)

clear_suid_sgid(mode) == mode \ IF "gx" \in mode THEN SetId ELSE {"suid"}

\* Mutant: any member of the group may.
MayChmod_Group(c) == c.uid = 0 \/ c.uid = attr.uid \/ c.gid = attr.gid

MayChmod(c) == c.uid = 0 \/ (c.uid = attr.uid /\ c.gid = attr.gid)

\* Mutant: all the bits that the client sends are taken.
Chmod_All(mode, now) ==
    IF mode = attr.mode THEN attr ELSE [attr EXCEPT !.mode = mode, !.ctime = now]

\* Set-id bits are not taken from the client, and are lost.
Chmod(mode, now) ==
    IF mode \cap Rwx = attr.mode THEN attr
    ELSE [attr EXCEPT !.mode = mode \cap Rwx, !.ctime = now]

\* An owner may name himself as the new owner, and a group of his.
MayChown(c, uid, gid) ==
    \/ c.uid = 0
    \/ /\ Given(gid) => c.gid = gid /\ c.uid = attr.uid
       /\ Given(uid) => uid = attr.uid /\ c.uid = attr.uid

Chown(uid, gid, now) ==
    LET runs == attr.mode \cap {"ux", "gx", "ox"} # {}
        mode == IF runs THEN clear_suid_sgid(attr.mode) ELSE attr.mode
    IN  [attr EXCEPT
            !.uid = IF Given(uid) THEN uid ELSE @,
            !.gid = IF Given(gid) THEN gid ELSE @,
            !.mode = mode \ ((IF Given(uid) THEN {"suid"} ELSE {})
                             \cup (IF Given(gid) THEN {"sgid"} ELSE {})),
            !.ctime = now]

\* That the space may not suffice is left to module FileData.
Truncate(size, now) ==
    [attr EXCEPT !.size = size, !.mode = clear_suid_sgid(@), !.ctime = now, !.mtime = now]

\* Those with write access may set the times of root's files, and root may not
\* set those of other files.
MayUtimens(c) == c.uid = attr.uid \/ (attr.uid = 0 /\ checkout_access(c, "w"))

Utimens(atime, mtime, now) ==
    [attr EXCEPT
        !.atime = IF Given(atime) THEN atime ELSE @,
        !.mtime = IF Given(mtime) THEN mtime ELSE @,
        !.ctime = now]

-----------------------------------------------------------------------------
(* Requests *)

Fail(c) == reply' = Failed /\ caller' = c /\ UNCHANGED <<attr, xattrs>>

\* Mutant: the reply has the mode from before the change.
Store_OldMode(c, may, new) ==
    IF may
    THEN /\ attr' = new /\ reply' = Replied([new EXCEPT !.mode = attr.mode])
         /\ caller' = c /\ UNCHANGED xattrs
    ELSE Fail(c)

\* A change that is allowed is stored, and what is stored is converted for the reply.
Store(c, may, new) ==
    IF may
    THEN attr' = new /\ reply' = Replied(new) /\ caller' = c /\ UNCHANGED xattrs
    ELSE Fail(c)

\* Only the first of the changes that are asked for is made; a request for none
\* gets no answer, which the client sees as an error.
setattr(c, q, now) ==
    IF Given(q.mode) THEN Store(c, MayChmod(c), Chmod(q.mode, now))
    ELSE IF Given(q.uid) \/ Given(q.gid)
         THEN Store(c, MayChown(c, q.uid, q.gid), Chown(q.uid, q.gid, now))
    ELSE IF Given(q.size) THEN Store(c, checkout_access(c, "w"), Truncate(q.size, now))
    ELSE IF Given(q.atime) \/ Given(q.mtime)
         THEN Store(c, MayUtimens(c), Utimens(q.atime, q.mtime, now))
    ELSE Fail(c)

getattr(c) == reply' = Replied(attr) /\ caller' = c /\ UNCHANGED <<attr, xattrs>>

\* A write that makes the file longer changes neither its times nor its mode.
write(c, size) ==
    /\ size > attr.size
    /\ attr' = [attr EXCEPT !.size = size]
    /\ reply' = Done /\ caller' = c
    /\ UNCHANGED xattrs

\* Permission to read is what setting asks for.
setxattr(c, key, now) ==
    IF xattr_access_check(c, key, "r")
    THEN /\ attr' = [attr EXCEPT !.ctime = now]
         /\ xattrs' = xattrs \cup {key}
         /\ reply' = Done /\ caller' = c
    ELSE Fail(c)

\* The transaction that removes the key is not committed.
removexattr(c, key) ==
    IF xattr_access_check(c, key, "w") /\ key \in xattrs
    THEN reply' = Done /\ caller' = c /\ UNCHANGED <<attr, xattrs>>
    ELSE Fail(c)

\* Mutant: the length of a key that did not fit is counted.
Listed_Counts(n, l, k) ==
    IF k \in xattrs
    THEN [keys |-> IF l.size + Length[k] <= n THEN l.keys \cup {k} ELSE l.keys,
          size |-> l.size + Length[k]]
    ELSE l

\* The body of the loop: a key that does not fit into n bytes is passed over.
Listed(n, l, k) ==
    IF k \in xattrs /\ l.size + Length[k] <= n
    THEN [keys |-> l.keys \cup {k}, size |-> l.size + Length[k]]
    ELSE l

\* The keys that a buffer of n bytes is filled with, in their order.
listxattr(n) ==
    LET after[k \in 0..LastKey] ==
            IF k = 0 THEN [keys |-> {}, size |-> 0] ELSE Listed(n, after[k - 1], k)
    IN  after[LastKey]

Next ==
    \E c \in Callers :
        \/ \E q \in Requests, now \in Times : setattr(c, q, now)
        \/ getattr(c)
        \/ \E size \in 1..MaxSize : write(c, size)
        \/ \E key \in Keys, now \in Times : setxattr(c, key, now)
        \/ \E key \in Keys : removexattr(c, key)

Spec == Init /\ [][Next]_vars

-----------------------------------------------------------------------------
(* Properties *)

\* The types: every attribute has a value of its own.
TypeOK ==
    /\ attr \in [uid : Nat, gid : Nat, mode : SUBSET (Rwx \cup SetId), size : Nat,
                 atime : Times, mtime : Times, ctime : Times]
    /\ xattrs \subseteq Keys

\* The state keeps its type, and the attributes in a reply, which the kernel keeps,
\* are those that are stored when it is sent, but that its mode has none of the set-id
\* bits of the stored one: each operation computes them apart from what it stores.
ReplyIsStored ==
    /\ TypeOK
    /\ reply.st = "attr" => reply.attr = [attr EXCEPT !.mode = @ \ SetId]

\* No request gives a file a set-id bit; the owner's bit does not outlive a change of
\* the owner, the group's a change of the group, nor the owner's a truncation to a
\* smaller size.
SetIdOnlyLost ==
    [][/\ attr'.mode \cap SetId \subseteq attr.mode
       /\ attr'.uid # attr.uid => "suid" \notin attr'.mode
       /\ attr'.gid # attr.gid => "sgid" \notin attr'.mode
       /\ attr'.size < attr.size => "suid" \notin attr'.mode]_vars

\* Only root changes the owner; only root and the owner, to a group of his,
\* change the group; and anyone else takes set-id bits away at most.
ChangesAuthorised ==
    [][LET owns == caller'.uid \in {0, attr.uid}
       IN  /\ attr'.uid # attr.uid => caller'.uid = 0
           /\ attr'.gid # attr.gid => owns /\ (caller'.uid = 0 \/ caller'.gid = attr'.gid)
           /\ ~owns => attr'.mode \cap Rwx = attr.mode \cap Rwx]_vars

\* The bytes that the keys in X take.
TotalLength(X) ==
    LET sum[k \in 0..LastKey] ==
            IF k = 0 THEN 0 ELSE IF k \in X THEN sum[k - 1] + Length[k] ELSE sum[k - 1]
    IN  sum[LastKey]

\* A list of keys never overruns its buffer; it has all keys when they fit.
ListsWhatFits ==
    \A n \in 0..(TotalLength(Keys) + 1) :
        /\ listxattr(n).size <= n
        /\ listxattr(n).size = TotalLength(listxattr(n).keys)
        /\ n >= TotalLength(xattrs) => listxattr(n).keys = xattrs

=============================================================================
