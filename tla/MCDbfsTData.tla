---------------------------- MODULE MCDbfsTData ----------------------------
(* Instances of DbfsTData for TLC. *)
EXTENDS DbfsTData

OneFile == {2}
TwoBytes == {1, 2}

=============================================================================
