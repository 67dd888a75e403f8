-------------------------- MODULE AttributesProofs --------------------------
(***************************************************************************)
(* Theorems about Attributes, for every set of clients, requests and modes: *)
(* a reply carries what is stored but the set-id bits, these are only lost, *)
(* owner, group and mode are changed by those who may, and a list of keys   *)
(* fits.                                                                    *)
(***************************************************************************)
EXTENDS Attributes, LibraryProofs, TLAPS

\* The attributes that a file can have.
Attr == [uid : Nat, gid : Nat, mode : SUBSET (Rwx \cup SetId), size : Nat,
         atime : Times, mtime : Times, ctime : Times]

\* What a step of c does to the attributes: the relation that both action
\* properties follow from.
LawfulChange(c) ==
    /\ attr' \in Attr
    /\ attr'.mode \cap SetId \subseteq attr.mode
    /\ attr'.uid # attr.uid => c.uid = 0 /\ "suid" \notin attr'.mode
    /\ attr'.gid # attr.gid =>
        /\ "sgid" \notin attr'.mode
        /\ c.uid = 0 \/ (c.uid = attr.uid /\ c.gid = attr'.gid)
    /\ attr'.size < attr.size => "suid" \notin attr'.mode
    /\ c.uid \notin {0, attr.uid} => attr'.mode \cap Rwx = attr.mode \cap Rwx

-----------------------------------------------------------------------------
(* The functions that compute attributes *)

\* Nothing but a change of the mode gives a permission, and a truncation
\* (or a change of the owner of a program) takes away the owner's set-id bit.
LEMMA ClearSuidSgid ==
    ASSUME NEW mode \in SUBSET (Rwx \cup SetId)
    PROVE  /\ clear_suid_sgid(mode) \in SUBSET (Rwx \cup SetId)
           /\ clear_suid_sgid(mode) \subseteq mode
           /\ clear_suid_sgid(mode) \cap Rwx = mode \cap Rwx
           /\ "suid" \notin clear_suid_sgid(mode)
BY DEF clear_suid_sgid, Rwx, SetId

\* What chmod stores is a file's attributes, with permissions only.
LEMMA ChmodStores ==
    ASSUME attr \in Attr, NEW mode \in SUBSET (Rwx \cup SetId), NEW now \in Times
    PROVE  /\ Chmod(mode, now) \in Attr
           /\ Chmod(mode, now).uid = attr.uid /\ Chmod(mode, now).gid = attr.gid
           /\ Chmod(mode, now).size = attr.size
           /\ Chmod(mode, now).mode \cap SetId \subseteq attr.mode
BY DEF Chmod, Attr, Rwx, SetId

\* What chown stores: the permissions stay, and a set-id bit does not outlive
\* the owner, or the group, that it was given by.
LEMMA ChownStores ==
    ASSUME attr \in Attr, NEW uid \in Nat \cup {None}, NEW gid \in Nat \cup {None}, NEW now \in Times
    PROVE  /\ Chown(uid, gid, now) \in Attr
           /\ Chown(uid, gid, now).uid = IF Given(uid) THEN uid ELSE attr.uid
           /\ Chown(uid, gid, now).gid = IF Given(gid) THEN gid ELSE attr.gid
           /\ Chown(uid, gid, now).size = attr.size
           /\ Chown(uid, gid, now).mode \subseteq attr.mode
           /\ Chown(uid, gid, now).mode \cap Rwx = attr.mode \cap Rwx
           /\ Given(uid) => "suid" \notin Chown(uid, gid, now).mode
           /\ Given(gid) => "sgid" \notin Chown(uid, gid, now).mode
<1> DEFINE runs == attr.mode \cap {"ux", "gx", "ox"} # {}
           mode == IF runs THEN clear_suid_sgid(attr.mode) ELSE attr.mode
           lost == (IF Given(uid) THEN {"suid"} ELSE {}) \cup (IF Given(gid) THEN {"sgid"} ELSE {})
           u == IF Given(uid) THEN uid ELSE attr.uid
           g == IF Given(gid) THEN gid ELSE attr.gid
<1>1. mode \in SUBSET (Rwx \cup SetId) /\ mode \subseteq attr.mode /\ mode \cap Rwx = attr.mode \cap Rwx
    BY ClearSuidSgid DEF Attr
<1>2. lost \subseteq SetId /\ (Given(uid) => "suid" \in lost) /\ (Given(gid) => "sgid" \in lost)
    BY DEF SetId
<1>3. u \in Nat /\ g \in Nat
    BY DEF Attr, Given
<1>4. SetId \cap Rwx = {}
    BY DEF SetId, Rwx
<1>5. Chown(uid, gid, now) =
        [attr EXCEPT !.uid = u, !.gid = g, !.mode = mode \ lost, !.ctime = now]
    BY DEF Chown, Attr
<1> HIDE DEF mode, lost, u, g
<1>6. /\ Chown(uid, gid, now) \in Attr
      /\ Chown(uid, gid, now).uid = u /\ Chown(uid, gid, now).gid = g
      /\ Chown(uid, gid, now).size = attr.size /\ Chown(uid, gid, now).mode = mode \ lost
    BY <1>1, <1>3, <1>5 DEF Attr
<1>7. u = (IF Given(uid) THEN uid ELSE attr.uid) /\ g = (IF Given(gid) THEN gid ELSE attr.gid)
    BY DEF u, g
<1>8. /\ mode \ lost \subseteq attr.mode /\ (mode \ lost) \cap Rwx = attr.mode \cap Rwx
      /\ Given(uid) => "suid" \notin mode \ lost
      /\ Given(gid) => "sgid" \notin mode \ lost
    BY <1>1, <1>2, <1>4
<1> QED BY <1>6, <1>7, <1>8

\* What a truncation stores.
LEMMA TruncateStores ==
    ASSUME attr \in Attr, NEW size \in Nat, NEW now \in Times
    PROVE  /\ Truncate(size, now) \in Attr
           /\ Truncate(size, now).uid = attr.uid /\ Truncate(size, now).gid = attr.gid
           /\ Truncate(size, now).mode = clear_suid_sgid(attr.mode)
BY ClearSuidSgid DEF Truncate, Attr

\* What a change of the times stores.
LEMMA UtimensStores ==
    ASSUME attr \in Attr, NEW atime \in Times \cup {None}, NEW mtime \in Times \cup {None},
           NEW now \in Times
    PROVE  /\ Utimens(atime, mtime, now) \in Attr
           /\ Utimens(atime, mtime, now).uid = attr.uid /\ Utimens(atime, mtime, now).gid = attr.gid
           /\ Utimens(atime, mtime, now).mode = attr.mode /\ Utimens(atime, mtime, now).size = attr.size
BY DEF Utimens, Attr, Given

\* The bits of a mode that are not permissions are the set-id bits: a reply has the
\* stored attributes without them.
LEMMA ConvertedMode ==
    ASSUME NEW a \in Attr
    PROVE  FileAttr(a) = [a EXCEPT !.mode = @ \ SetId]
<1>1. a.mode \subseteq Rwx \cup SetId
    BY DEF Attr
<1>2. Rwx \cap SetId = {}
    BY DEF Rwx, SetId
<1>3. a.mode \cap Rwx = a.mode \ SetId
    BY <1>1, <1>2
<1> QED BY <1>3 DEF FileAttr

-----------------------------------------------------------------------------
(* Each request *)

\* An attribute record that is kept is a lawful change.
LEMMA KeepingIsLawful ==
    ASSUME attr \in Attr, NEW c, attr' = attr
    PROVE  LawfulChange(c)
BY DEF LawfulChange, Attr

\* Whatever branch setattr takes, the caller may make the change it makes, and
\* the reply is what is stored, converted.
LEMMA SetattrLawful ==
    ASSUME attr \in Attr, NEW c \in Callers, NEW q \in Requests, NEW now \in Times, setattr(c, q, now)
    PROVE  /\ LawfulChange(c) /\ caller' = c /\ xattrs' = xattrs
           /\ reply'.st = "attr" => reply'.attr = FileAttr(attr')
<1> DEFINE Good == /\ LawfulChange(c) /\ caller' = c /\ xattrs' = xattrs
                   /\ reply'.st = "attr" => reply'.attr = FileAttr(attr')
<1>1. /\ q.mode \in (SUBSET (Rwx \cup SetId)) \cup {None} /\ q.uid \in Nat \cup {None}
      /\ q.gid \in Nat \cup {None} /\ q.size \in Nat \cup {None}
      /\ q.atime \in Times \cup {None} /\ q.mtime \in Times \cup {None}
      /\ c.uid \in Nat /\ c.gid \in Nat
    BY AttributesAssumption
<1>2. ASSUME Fail(c) PROVE Good
    BY <1>2, KeepingIsLawful DEF Fail, Failed
<1> HIDE DEF Good
<1> SUFFICES Good
    BY DEF Good
<1>4. CASE Given(q.mode)
    <2>1. Store(c, MayChmod(c), Chmod(q.mode, now))
        BY <1>4 DEF setattr
    <2>2. ASSUME MayChmod(c), attr' = Chmod(q.mode, now) PROVE LawfulChange(c)
        <3>1. q.mode \in SUBSET (Rwx \cup SetId)
            BY <1>1, <1>4 DEF Given
        <3>2. attr' \in Attr /\ attr'.uid = attr.uid /\ attr'.gid = attr.gid /\ attr'.size = attr.size
              /\ attr'.mode \cap SetId \subseteq attr.mode
            BY <2>2, <3>1, ChmodStores
        <3>3. attr.size \in Nat
            BY DEF Attr
        <3> QED BY <2>2, <3>2, <3>3 DEF LawfulChange, MayChmod
    <2> QED BY <1>2, <2>1, <2>2 DEF Store, Replied, Good
<1>5. CASE ~Given(q.mode) /\ (Given(q.uid) \/ Given(q.gid))
    <2>1. Store(c, MayChown(c, q.uid, q.gid), Chown(q.uid, q.gid, now))
        BY <1>5 DEF setattr
    <2>2. ASSUME MayChown(c, q.uid, q.gid), attr' = Chown(q.uid, q.gid, now) PROVE LawfulChange(c)
        <3>1. /\ attr' \in Attr /\ attr'.size = attr.size
              /\ attr'.uid = IF Given(q.uid) THEN q.uid ELSE attr.uid
              /\ attr'.gid = IF Given(q.gid) THEN q.gid ELSE attr.gid
              /\ attr'.mode \subseteq attr.mode /\ attr'.mode \cap Rwx = attr.mode \cap Rwx
              /\ Given(q.uid) => "suid" \notin attr'.mode
              /\ Given(q.gid) => "sgid" \notin attr'.mode
            <4>a. PICK u \in Nat \cup {None} : u = q.uid
                BY <1>1
            <4>b. PICK g \in Nat \cup {None} : g = q.gid
                BY <1>1
            <4> DEFINE new == Chown(u, g, now)
            <4>1. /\ new \in Attr /\ new.size = attr.size
                  /\ new.uid = IF Given(u) THEN u ELSE attr.uid
                  /\ new.gid = IF Given(g) THEN g ELSE attr.gid
                  /\ new.mode \subseteq attr.mode /\ new.mode \cap Rwx = attr.mode \cap Rwx
                  /\ Given(u) => "suid" \notin new.mode
                  /\ Given(g) => "sgid" \notin new.mode
                BY ChownStores
            <4> HIDE DEF new
            <4> QED BY <2>2, <4>a, <4>b, <4>1 DEF new
        <3>2. attr.size \in Nat
            BY DEF Attr
        <3>3. attr'.uid # attr.uid => c.uid = 0 /\ Given(q.uid)
            BY <2>2, <3>1 DEF MayChown
        <3>4. attr'.gid # attr.gid => Given(q.gid) /\ (c.uid = 0 \/ (c.uid = attr.uid /\ c.gid = attr'.gid))
            BY <2>2, <3>1 DEF MayChown
        <3> QED BY <3>1, <3>2, <3>3, <3>4 DEF LawfulChange
    <2> QED BY <1>2, <2>1, <2>2 DEF Store, Replied, Good
<1>6. CASE ~Given(q.mode) /\ ~Given(q.uid) /\ ~Given(q.gid) /\ Given(q.size)
    <2>1. Store(c, checkout_access(c, "w"), Truncate(q.size, now))
        BY <1>6 DEF setattr
    <2>2. ASSUME attr' = Truncate(q.size, now) PROVE LawfulChange(c)
        <3>1. q.size \in Nat
            BY <1>1, <1>6 DEF Given
        <3>2. attr' \in Attr /\ attr'.uid = attr.uid /\ attr'.gid = attr.gid
              /\ attr'.mode = clear_suid_sgid(attr.mode)
            BY <2>2, <3>1, TruncateStores
        <3>3. attr'.mode \subseteq attr.mode /\ attr'.mode \cap Rwx = attr.mode \cap Rwx
              /\ "suid" \notin attr'.mode
            BY <3>2, ClearSuidSgid DEF Attr
        <3> QED BY <3>2, <3>3 DEF LawfulChange
    <2> QED BY <1>2, <2>1, <2>2 DEF Store, Replied, Good
<1>7. CASE ~Given(q.mode) /\ ~Given(q.uid) /\ ~Given(q.gid) /\ ~Given(q.size)
           /\ (Given(q.atime) \/ Given(q.mtime))
    <2>1. Store(c, MayUtimens(c), Utimens(q.atime, q.mtime, now))
        BY <1>7 DEF setattr
    <2>2. ASSUME attr' = Utimens(q.atime, q.mtime, now) PROVE LawfulChange(c)
        <3>1. attr' \in Attr /\ attr'.uid = attr.uid /\ attr'.gid = attr.gid
              /\ attr'.mode = attr.mode /\ attr'.size = attr.size
            BY <1>1, <2>2, UtimensStores
        <3>2. attr.size \in Nat
            BY DEF Attr
        <3> QED BY <3>1, <3>2 DEF LawfulChange
    <2> QED BY <1>2, <2>1, <2>2 DEF Store, Replied, Good
<1>8. CASE ~Given(q.mode) /\ ~Given(q.uid) /\ ~Given(q.gid) /\ ~Given(q.size)
           /\ ~Given(q.atime) /\ ~Given(q.mtime)
    BY <1>2, <1>8 DEF setattr
<1> QED BY <1>4, <1>5, <1>6, <1>7, <1>8

\* Every step is some caller's lawful change, and keeps what ReplyIsStored says.
LEMMA StepIsLawful ==
    ASSUME TypeOK, ReplyIsStored, Next
    PROVE  LawfulChange(caller') /\ ReplyIsStored'
<1>1. attr \in Attr /\ xattrs \subseteq Keys
    BY DEF TypeOK, Attr
<1>2. ASSUME NEW c, LawfulChange(c), caller' = c, xattrs' \subseteq Keys,
             reply'.st = "attr" => reply'.attr = FileAttr(attr')
      PROVE  LawfulChange(caller') /\ ReplyIsStored'
    <2>1. attr' \in Attr
        BY <1>2 DEF LawfulChange
    <2>2. FileAttr(attr') = [attr' EXCEPT !.mode = @ \ SetId]
        BY <2>1, ConvertedMode
    <2> QED BY <1>2, <2>1, <2>2 DEF ReplyIsStored, TypeOK, Attr
<1>3. PICK c \in Callers :
        \/ \E q \in Requests, now \in Times : setattr(c, q, now)
        \/ getattr(c)
        \/ \E size \in 1..MaxSize : write(c, size)
        \/ \E key \in Keys, now \in Times : setxattr(c, key, now)
        \/ \E key \in Keys : removexattr(c, key)
    BY DEF Next
<1>4. ASSUME Fail(c) PROVE LawfulChange(caller') /\ ReplyIsStored'
    BY <1>1, <1>2, <1>4, KeepingIsLawful DEF Fail, Failed
<1>5. CASE \E q \in Requests, now \in Times : setattr(c, q, now)
    BY <1>1, <1>2, <1>5, SetattrLawful
<1>6. CASE getattr(c)
    BY <1>1, <1>2, <1>6, KeepingIsLawful DEF getattr, Replied
<1>7. ASSUME NEW size \in 1..MaxSize, write(c, size) PROVE LawfulChange(caller') /\ ReplyIsStored'
    <2>1. size \in Nat /\ size > attr.size /\ attr.size \in Nat
        BY <1>1, <1>7, AttributesAssumption DEF write, Attr
    <2>2. attr' = [attr EXCEPT !.size = size] /\ reply' = Done /\ caller' = c /\ xattrs' = xattrs
        BY <1>7 DEF write
    <2>3. attr' \in Attr /\ attr'.uid = attr.uid /\ attr'.gid = attr.gid /\ attr'.mode = attr.mode
          /\ attr'.size = size
        BY <1>1, <2>1, <2>2 DEF Attr
    <2>4. LawfulChange(c)
        BY <2>1, <2>3 DEF LawfulChange
    <2> QED BY <1>1, <1>2, <2>2, <2>4 DEF Done
<1>8. ASSUME NEW key \in Keys, NEW now \in Times, setxattr(c, key, now)
      PROVE  LawfulChange(caller') /\ ReplyIsStored'
    <2>1. CASE xattr_access_check(c, key, "r")
        <3>1. attr' = [attr EXCEPT !.ctime = now] /\ xattrs' \subseteq Keys /\ reply' = Done /\ caller' = c
            BY <1>1, <1>8, <2>1 DEF setxattr
        <3>2. attr' \in Attr /\ attr'.uid = attr.uid /\ attr'.gid = attr.gid /\ attr'.mode = attr.mode
              /\ attr'.size = attr.size /\ attr.size \in Nat
            BY <1>1, <3>1 DEF Attr
        <3>3. LawfulChange(c)
            BY <3>2 DEF LawfulChange
        <3> QED BY <1>2, <3>1, <3>3 DEF Done
    <2> QED BY <1>4, <1>8, <2>1 DEF setxattr
<1>9. ASSUME NEW key \in Keys, removexattr(c, key) PROVE LawfulChange(caller') /\ ReplyIsStored'
    <2>1. CASE xattr_access_check(c, key, "w") /\ key \in xattrs
        BY <1>1, <1>2, <1>9, <2>1, KeepingIsLawful DEF removexattr, Done
    <2> QED BY <1>4, <1>9, <2>1 DEF removexattr
<1> QED BY <1>3, <1>5, <1>6, <1>7, <1>8, <1>9

-----------------------------------------------------------------------------
(* Lists of keys *)

\* The recursions of TotalLength and listxattr up to key m, by their equations
\* and by the rules for one key after the other.
IsSum(G, X, m) ==
    G = [k \in 0..m |-> IF k = 0 THEN 0 ELSE IF k \in X THEN G[k - 1] + Length[k] ELSE G[k - 1]]

SumRule(G, X) ==
    /\ G[0] = 0
    /\ \A k \in Nat : k + 1 <= LastKey =>
            G[k + 1] = IF k + 1 \in X THEN G[k] + Length[k + 1] ELSE G[k]

IsList(G, n, m) ==
    G = [k \in 0..m |-> IF k = 0 THEN [keys |-> {}, size |-> 0] ELSE Listed(n, G[k - 1], k)]

ListRule(G, n) ==
    /\ G[0] = [keys |-> {}, size |-> 0]
    /\ \A k \in Nat : k + 1 <= LastKey => G[k + 1] = Listed(n, G[k], k + 1)

\* The recursion of TotalLength has a solution up to every key.
LEMMA SumExists ==
    ASSUME NEW X, NEW m \in Nat
    PROVE  \E G : IsSum(G, X, m)
<1> DEFINE T == {j \in Nat : \E G : IsSum(G, X, j)}
<1>1. 0 \in T
    <2>1. IsSum([k \in 0..0 |-> 0], X, 0)
        BY DEF IsSum
    <2> QED BY <2>1
<1>2. ASSUME NEW j \in Nat, j \in T PROVE j + 1 \in T
    <2>1. PICK G : IsSum(G, X, j)
        BY <1>2
    <2> DEFINE L == [k \in 0..(j + 1) |-> IF k <= j THEN G[k] ELSE IF k \in X THEN G[j] + Length[k] ELSE G[j]]
    <2>2. ASSUME NEW k \in 0..(j + 1)
          PROVE  L[k] = IF k = 0 THEN 0 ELSE IF k \in X THEN L[k - 1] + Length[k] ELSE L[k - 1]
        <3>1. CASE k <= j
            <4>1. k \in 0..j /\ L[k] = G[k] /\ (k # 0 => k - 1 \in 0..(j + 1) /\ k - 1 <= j)
                BY <3>1
            <4>2. k # 0 => L[k - 1] = G[k - 1]
                BY <4>1
            <4>3. G[k] = IF k = 0 THEN 0 ELSE IF k \in X THEN G[k - 1] + Length[k] ELSE G[k - 1]
                BY <2>1, <4>1 DEF IsSum
            <4> HIDE DEF L
            <4> QED BY <4>1, <4>2, <4>3
        <3>2. CASE k = j + 1
            <4>1. k - 1 = j /\ L[j] = G[j] /\ ~(k <= j) /\ k # 0
                BY <3>2
            <4>2. L[k] = IF k \in X THEN G[j] + Length[k] ELSE G[j]
                BY <4>1
            <4> HIDE DEF L
            <4> QED BY <4>1, <4>2
        <3> QED BY <3>1, <3>2
    <2>3. IsSum(L, X, j + 1)
        BY <2>2 DEF IsSum
    <2> QED BY <2>3
<1> HIDE DEF T
<1>3. m \in T
    BY <1>1, <1>2, Induction
<1> QED BY <1>3 DEF T

\* So has the recursion of listxattr.
LEMMA ListExists ==
    ASSUME NEW n, NEW m \in Nat
    PROVE  \E G : IsList(G, n, m)
<1> DEFINE T == {j \in Nat : \E G : IsList(G, n, j)}
<1>1. 0 \in T
    <2>1. IsList([k \in 0..0 |-> [keys |-> {}, size |-> 0]], n, 0)
        BY DEF IsList
    <2> QED BY <2>1
<1>2. ASSUME NEW j \in Nat, j \in T PROVE j + 1 \in T
    <2>1. PICK G : IsList(G, n, j)
        BY <1>2
    <2> DEFINE L == [k \in 0..(j + 1) |-> IF k <= j THEN G[k] ELSE Listed(n, G[j], k)]
    <2>2. ASSUME NEW k \in 0..(j + 1)
          PROVE  L[k] = IF k = 0 THEN [keys |-> {}, size |-> 0] ELSE Listed(n, L[k - 1], k)
        <3>1. CASE k <= j
            <4>1. k \in 0..j /\ L[k] = G[k] /\ (k # 0 => k - 1 \in 0..(j + 1) /\ k - 1 <= j)
                BY <3>1
            <4>2. k # 0 => L[k - 1] = G[k - 1]
                BY <4>1
            <4>3. G[k] = IF k = 0 THEN [keys |-> {}, size |-> 0] ELSE Listed(n, G[k - 1], k)
                BY <2>1, <4>1 DEF IsList
            <4> HIDE DEF L
            <4> QED BY <4>1, <4>2, <4>3
        <3>2. CASE k = j + 1
            <4>1. k - 1 = j /\ L[j] = G[j] /\ ~(k <= j) /\ k # 0
                BY <3>2
            <4>2. L[k] = Listed(n, G[j], k)
                BY <4>1
            <4> HIDE DEF L
            <4> QED BY <4>1, <4>2
        <3> QED BY <3>1, <3>2
    <2>3. IsList(L, n, j + 1)
        BY <2>2 DEF IsList
    <2> QED BY <2>3
<1> HIDE DEF T
<1>3. m \in T
    BY <1>1, <1>2, Induction
<1> QED BY <1>3 DEF T

\* TotalLength adds one key after the other.
LEMMA SumByRule ==
    ASSUME NEW X
    PROVE  \E G : SumRule(G, X) /\ TotalLength(X) = G[LastKey]
<1> DEFINE G == CHOOSE G : IsSum(G, X, LastKey)
<1>0. LastKey \in Nat
    BY AttributesAssumption
<1>1. \E F : IsSum(F, X, LastKey)
    BY <1>0, SumExists
<1>2. IsSum(G, X, LastKey)
    BY <1>1
<1>3. TotalLength(X) = G[LastKey]
    BY DEF TotalLength, IsSum
<1> HIDE DEF G
<1>4. \A k \in 0..LastKey : G[k] = IF k = 0 THEN 0 ELSE IF k \in X THEN G[k - 1] + Length[k] ELSE G[k - 1]
    BY <1>2 DEF IsSum
<1>5. ASSUME NEW k \in Nat, k + 1 <= LastKey
      PROVE  G[k + 1] = IF k + 1 \in X THEN G[k] + Length[k + 1] ELSE G[k]
    <2>1. k + 1 \in 0..LastKey /\ k + 1 # 0 /\ (k + 1) - 1 = k
        BY <1>0, <1>5
    <2> QED BY <1>4, <2>1
<1>6. G[0] = 0
    BY <1>0, <1>4
<1>7. SumRule(G, X)
    BY <1>5, <1>6 DEF SumRule
<1> QED BY <1>3, <1>7

\* listxattr passes one key after the other.
LEMMA ListByRule ==
    ASSUME NEW n
    PROVE  \E G : ListRule(G, n) /\ listxattr(n) = G[LastKey]
<1> DEFINE G == CHOOSE G : IsList(G, n, LastKey)
<1>0. LastKey \in Nat
    BY AttributesAssumption
<1>1. \E F : IsList(F, n, LastKey)
    BY <1>0, ListExists
<1>2. IsList(G, n, LastKey)
    BY <1>1
<1>3. listxattr(n) = G[LastKey]
    BY DEF listxattr, IsList
<1> HIDE DEF G
<1>4. \A k \in 0..LastKey : G[k] = IF k = 0 THEN [keys |-> {}, size |-> 0] ELSE Listed(n, G[k - 1], k)
    BY <1>2 DEF IsList
<1>5. ASSUME NEW k \in Nat, k + 1 <= LastKey
      PROVE  G[k + 1] = Listed(n, G[k], k + 1)
    <2>1. k + 1 \in 0..LastKey /\ k + 1 # 0 /\ (k + 1) - 1 = k
        BY <1>0, <1>5
    <2> QED BY <1>4, <2>1
<1>6. G[0] = [keys |-> {}, size |-> 0]
    BY <1>0, <1>4
<1>7. ListRule(G, n)
    BY <1>5, <1>6 DEF ListRule
<1> QED BY <1>3, <1>7

\* The bytes of some keys are no more than those of more keys; no keys take none.
LEMMA LengthGrows ==
    ASSUME NEW X, NEW Y, X \subseteq Y
    PROVE  /\ TotalLength(X) \in Nat /\ TotalLength(Y) \in Nat
           /\ TotalLength(X) <= TotalLength(Y)
           /\ X = {} => TotalLength(X) = 0
<1>1. PICK G : SumRule(G, X) /\ TotalLength(X) = G[LastKey]
    BY SumByRule
<1>2. PICK H : SumRule(H, Y) /\ TotalLength(Y) = H[LastKey]
    BY SumByRule
<1>3. LastKey \in Nat /\ \A k \in Nat : k + 1 <= LastKey => Length[k + 1] \in Nat
    BY AttributesAssumption DEF Keys
<1> DEFINE T == {k \in Nat : k <= LastKey =>
                    G[k] \in Nat /\ H[k] \in Nat /\ G[k] <= H[k] /\ (X = {} => G[k] = 0)}
<1>4. 0 \in T
    BY <1>1, <1>2 DEF SumRule
<1>5. ASSUME NEW k \in Nat, k \in T PROVE k + 1 \in T
    <2> SUFFICES ASSUME k + 1 <= LastKey
                 PROVE  /\ G[k + 1] \in Nat /\ H[k + 1] \in Nat /\ G[k + 1] <= H[k + 1]
                        /\ X = {} => G[k + 1] = 0
        OBVIOUS
    <2>1. G[k] \in Nat /\ H[k] \in Nat /\ G[k] <= H[k] /\ (X = {} => G[k] = 0)
        BY <1>3, <1>5
    <2>2. G[k + 1] = IF k + 1 \in X THEN G[k] + Length[k + 1] ELSE G[k]
        BY <1>1 DEF SumRule
    <2>3. H[k + 1] = IF k + 1 \in Y THEN H[k] + Length[k + 1] ELSE H[k]
        BY <1>2 DEF SumRule
    <2>4. Length[k + 1] \in Nat
        BY <1>3
    <2>5. k + 1 \in X => k + 1 \in Y
        OBVIOUS
    <2> HIDE DEF T
    <2>6. CASE k + 1 \in X
        BY <2>1, <2>2, <2>3, <2>4, <2>5, <2>6
    <2>7. CASE k + 1 \notin X
        BY <2>1, <2>2, <2>3, <2>4, <2>7
    <2> QED BY <2>6, <2>7
<1> HIDE DEF T
<1>6. LastKey \in T
    BY <1>3, <1>4, <1>5, Induction
<1> QED BY <1>1, <1>2, <1>3, <1>6 DEF T

\* A new key adds its own length.
LEMMA LengthAdds ==
    ASSUME NEW X, NEW key \in Keys, key \notin X
    PROVE  TotalLength(X \cup {key}) = TotalLength(X) + Length[key]
<1> DEFINE Y == X \cup {key}
<1>1. PICK G : SumRule(G, X) /\ TotalLength(X) = G[LastKey]
    BY SumByRule
<1>2. PICK H : SumRule(H, Y) /\ TotalLength(Y) = H[LastKey]
    BY SumByRule
<1>3. /\ LastKey \in Nat /\ key \in Nat /\ 0 < key /\ key <= LastKey /\ Length[key] \in Nat
      /\ \A k \in Nat : k + 1 <= LastKey => Length[k + 1] \in Nat
    BY AttributesAssumption DEF Keys
<1> DEFINE T == {k \in Nat : k <= LastKey =>
                    G[k] \in Nat /\ H[k] = IF k < key THEN G[k] ELSE G[k] + Length[key]}
<1>4. 0 \in T
    BY <1>1, <1>2, <1>3 DEF SumRule
<1>5. ASSUME NEW k \in Nat, k \in T PROVE k + 1 \in T
    <2> SUFFICES ASSUME k + 1 <= LastKey
                 PROVE  /\ G[k + 1] \in Nat
                        /\ H[k + 1] = IF k + 1 < key THEN G[k + 1] ELSE G[k + 1] + Length[key]
        OBVIOUS
    <2>1. G[k] \in Nat /\ H[k] = IF k < key THEN G[k] ELSE G[k] + Length[key]
        BY <1>3, <1>5
    <2>2. G[k + 1] = IF k + 1 \in X THEN G[k] + Length[k + 1] ELSE G[k]
        BY <1>1 DEF SumRule
    <2>3. H[k + 1] = IF k + 1 \in Y THEN H[k] + Length[k + 1] ELSE H[k]
        BY <1>2 DEF SumRule
    <2>4. Length[k + 1] \in Nat
        BY <1>3
    <2>5. k + 1 \in Y <=> k + 1 \in X \/ k + 1 = key
        OBVIOUS
    <2> HIDE DEF T, Y
    <2>6. CASE k + 1 = key
        <3>1. k < key /\ k + 1 \notin X
            BY <1>3, <2>6
        <3>2. G[k + 1] = G[k] /\ H[k + 1] = G[k] + Length[key]
            BY <2>1, <2>2, <2>3, <2>5, <2>6, <3>1
        <3> QED BY <1>3, <2>1, <2>6, <3>2
    <2>7. CASE k + 1 # key
        <3>1. k < key <=> k + 1 < key
            BY <1>3, <2>7
        <3>2. CASE k + 1 \in X
            BY <1>3, <2>1, <2>2, <2>3, <2>4, <2>5, <3>1, <3>2
        <3>3. CASE k + 1 \notin X
            BY <1>3, <2>1, <2>2, <2>3, <2>5, <2>7, <3>1, <3>3
        <3> QED BY <3>2, <3>3
    <2> QED BY <2>6, <2>7
<1> HIDE DEF T, Y
<1>6. LastKey \in T
    BY <1>3, <1>4, <1>5, Induction
<1>7. H[LastKey] = G[LastKey] + Length[key]
    BY <1>3, <1>6 DEF T
<1> QED BY <1>1, <1>2, <1>7 DEF Y

\* The list behind keys 1..k, in a buffer of n bytes.
ListInv(n, l, k) ==
    /\ l.keys \subseteq xattrs \cap (1..k)
    /\ l.size = TotalLength(l.keys) /\ l.size <= n
    /\ n >= TotalLength(xattrs) => l.keys = xattrs \cap (1..k)

\* The loop of listxattr keeps ListInv: when all keys fit, each one does.
LEMMA ListedStep ==
    ASSUME xattrs \subseteq Keys, NEW n \in Nat, NEW k \in Nat, k + 1 <= LastKey,
           NEW l, ListInv(n, l, k)
    PROVE  ListInv(n, Listed(n, l, k + 1), k + 1)
<1> DEFINE j == k + 1
<1>1. j \in Keys /\ 1..j = (1..k) \cup {j} /\ j \notin 1..k /\ Length[j] \in Nat
    BY AttributesAssumption DEF Keys
<1>2. /\ l.keys \subseteq xattrs \cap (1..k)
      /\ l.size = TotalLength(l.keys) /\ l.size <= n
      /\ n >= TotalLength(xattrs) => l.keys = xattrs \cap (1..k)
    BY DEF ListInv
<1>3. TotalLength(l.keys) \in Nat /\ TotalLength(xattrs) \in Nat
    BY <1>2, LengthGrows
<1>4. TotalLength(l.keys \cup {j}) = l.size + Length[j]
    BY <1>1, <1>2, LengthAdds
<1> DEFINE s == Listed(n, l, j)
<1> HIDE DEF j
<1>5. CASE j \in xattrs /\ l.size + Length[j] <= n
    <2>1. s = [keys |-> l.keys \cup {j}, size |-> l.size + Length[j]]
        BY <1>5 DEF Listed
    <2>2. s.keys = l.keys \cup {j} /\ s.size = l.size + Length[j]
        BY <2>1
    <2> HIDE DEF s
    <2>3. s.keys \subseteq xattrs \cap (1..j)
        BY <1>1, <1>2, <1>5, <2>2
    <2>4. n >= TotalLength(xattrs) => s.keys = xattrs \cap (1..j)
        BY <1>1, <1>2, <1>5, <2>2
    <2>5. s.size = TotalLength(s.keys) /\ s.size <= n
        BY <1>4, <1>5, <2>2
    <2> QED BY <2>3, <2>4, <2>5 DEF ListInv, s, j
<1>6. CASE j \notin xattrs
    <2>1. s = l
        BY <1>6 DEF Listed
    <2>2. xattrs \cap (1..j) = xattrs \cap (1..k)
        BY <1>1, <1>6
    <2> QED BY <1>2, <2>1, <2>2 DEF ListInv, j
<1>7. CASE j \in xattrs /\ ~(l.size + Length[j] <= n)
    <2>1. s = l
        BY <1>7 DEF Listed
    <2>2. TotalLength(l.keys \cup {j}) <= TotalLength(xattrs)
        <3>1. l.keys \cup {j} \subseteq xattrs
            BY <1>2, <1>7
        <3> QED BY <3>1, LengthGrows
    <2>3. ~(n >= TotalLength(xattrs))
        BY <1>1, <1>2, <1>3, <1>4, <1>7, <2>2
    <2>4. l.keys \subseteq xattrs \cap (1..j)
        BY <1>1, <1>2
    <2> QED BY <1>2, <2>1, <2>3, <2>4 DEF ListInv, j
<1> QED BY <1>5, <1>6, <1>7

\* What listxattr returns.
LEMMA ListFits ==
    ASSUME xattrs \subseteq Keys, NEW n \in Nat
    PROVE  /\ listxattr(n).size <= n
           /\ listxattr(n).size = TotalLength(listxattr(n).keys)
           /\ n >= TotalLength(xattrs) => listxattr(n).keys = xattrs
<1>1. PICK G : ListRule(G, n) /\ listxattr(n) = G[LastKey]
    BY ListByRule
<1>2. LastKey \in Nat
    BY AttributesAssumption
<1> DEFINE T == {k \in Nat : k <= LastKey => ListInv(n, G[k], k)}
<1>3. 0 \in T
    <2>1. G[0].keys = {} /\ G[0].size = 0
        BY <1>1 DEF ListRule
    <2>2. TotalLength({}) = 0
        BY LengthGrows
    <2>3. 1..0 = {}
        OBVIOUS
    <2>4. ListInv(n, G[0], 0)
        BY <2>1, <2>2, <2>3 DEF ListInv
    <2> QED BY <2>4
<1>4. ASSUME NEW k \in Nat, k \in T PROVE k + 1 \in T
    <2> SUFFICES ASSUME k + 1 <= LastKey PROVE ListInv(n, G[k + 1], k + 1)
        OBVIOUS
    <2>1. ListInv(n, G[k], k)
        BY <1>2, <1>4
    <2>2. G[k + 1] = Listed(n, G[k], k + 1)
        BY <1>1 DEF ListRule
    <2> QED BY <2>1, <2>2, ListedStep
<1> HIDE DEF T
<1>5. LastKey \in T
    BY <1>2, <1>3, <1>4, Induction
<1>6. ListInv(n, listxattr(n), LastKey)
    BY <1>1, <1>2, <1>5 DEF T
<1>7. xattrs \cap (1..LastKey) = xattrs
    BY DEF Keys
<1> QED BY <1>6, <1>7 DEF ListInv

-----------------------------------------------------------------------------
(* The theorems *)

\* At the start nothing has been replied.
LEMMA InitReply == Init => ReplyIsStored
BY AttributesAssumption DEF Init, ReplyIsStored, TypeOK, Done

\* The attributes in a reply, which the kernel keeps, are those that are stored
\* when it is sent without the set-id bits, whatever branch of setattr computed them.
THEOREM ReplyTheorem == Spec => []ReplyIsStored
<1>1. ReplyIsStored /\ [Next]_vars => ReplyIsStored'
    <2>1. ASSUME ReplyIsStored, Next PROVE ReplyIsStored'
        BY <2>1, StepIsLawful DEF ReplyIsStored
    <2>2. ASSUME ReplyIsStored, UNCHANGED vars PROVE ReplyIsStored'
        BY <2>2 DEF ReplyIsStored, TypeOK, vars
    <2> QED BY <2>1, <2>2
<1> QED BY InitReply, <1>1, PTL DEF Spec

\* No request gives a file a set-id bit; the owner's is gone when the owner changes or
\* the size gets smaller, the group's when the group changes. A write keeps both.
THEOREM SetIdTheorem == Spec => SetIdOnlyLost
<1> DEFINE Lost == /\ attr'.mode \cap SetId \subseteq attr.mode
                   /\ attr'.uid # attr.uid => "suid" \notin attr'.mode
                   /\ attr'.gid # attr.gid => "sgid" \notin attr'.mode
                   /\ attr'.size < attr.size => "suid" \notin attr'.mode
<1>1. ReplyIsStored /\ [Next]_vars => [Lost]_vars
    <2>1. ASSUME ReplyIsStored, Next PROVE Lost
        BY <2>1, StepIsLawful DEF ReplyIsStored, LawfulChange
    <2> QED BY <2>1
<1> QED BY ReplyTheorem, <1>1, PTL DEF Spec, SetIdOnlyLost

\* Only root changes the owner, only root and the owner the group, and only they
\* the permissions.
THEOREM AuthorisedTheorem == Spec => ChangesAuthorised
<1> DEFINE owns == caller'.uid \in {0, attr.uid}
           Lawful == /\ attr'.uid # attr.uid => caller'.uid = 0
                     /\ attr'.gid # attr.gid => owns /\ (caller'.uid = 0 \/ caller'.gid = attr'.gid)
                     /\ ~owns => attr'.mode \cap Rwx = attr.mode \cap Rwx
<1>1. ReplyIsStored /\ [Next]_vars => [Lawful]_vars
    <2>1. ASSUME ReplyIsStored, Next PROVE Lawful
        BY <2>1, StepIsLawful DEF ReplyIsStored, LawfulChange
    <2> QED BY <2>1
<1> QED BY ReplyTheorem, <1>1, PTL DEF Spec, ChangesAuthorised

\* A list of the keys of extended attributes never overruns the buffer of the
\* caller, counts the bytes that it fills, and is complete when they all fit.
THEOREM ListsTheorem == Spec => []ListsWhatFits
<1>1. ReplyIsStored => ListsWhatFits
    <2> SUFFICES ASSUME ReplyIsStored PROVE ListsWhatFits
        OBVIOUS
    <2>1. xattrs \subseteq Keys
        BY DEF ReplyIsStored, TypeOK
    <2>2. TotalLength(Keys) \in Nat
        BY LengthGrows
    <2>3. ASSUME NEW n \in 0..(TotalLength(Keys) + 1) PROVE n \in Nat
        BY <2>2
    <2> QED BY <2>1, <2>3, ListFits DEF ListsWhatFits
<1> QED BY ReplyTheorem, <1>1, PTL

=============================================================================
