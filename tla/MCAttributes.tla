---------------------------- MODULE MCAttributes ----------------------------
(* Root, an owner, and another member of the owner's group; requests for one   *)
(* change, and some of those that the kernel makes for two at once.            *)
EXTENDS Attributes

MCCallers == {[uid |-> 0, gid |-> 0], [uid |-> 1, gid |-> 1], [uid |-> 2, gid |-> 1]}

MCModes == {{"ur", "uw"}, {"ur", "uw", "gr", "gw", "gx", "suid", "sgid"}}

MCFirstModes == {{"ur", "uw", "gr", "gx", "suid", "sgid"}, {"ur", "uw", "sgid"}}

Nothing ==
    [mode |-> None, uid |-> None, gid |-> None, size |-> None, atime |-> None, mtime |-> None]

MCRequests ==
    {Nothing}
    \cup {[Nothing EXCEPT !.mode = mode] : mode \in MCModes}
    \cup {[Nothing EXCEPT !.uid = uid, !.gid = gid] : uid \in {0, 1, None}, gid \in {0, 1, None}}
    \cup {[Nothing EXCEPT !.mode = mode, !.uid = 1] : mode \in MCModes}
    \cup {[Nothing EXCEPT !.size = size, !.mtime = mtime] : size \in {0, 1}, mtime \in {2, None}}
    \cup {[Nothing EXCEPT !.atime = 2], [Nothing EXCEPT !.atime = 1, !.mtime = 1]}

MCNamespace == <<"user", "security", "other", "trusted">>

MCLength == <<2, 1, 1, 1>>

=============================================================================
