---------------------------- MODULE MCDbfsTNames ----------------------------
(* Instances of DbfsTNames for TLC. *)
EXTENDS DbfsTNames, TLC

CONSTANTS a, b
MCNames == {a, b}
NameSymmetry == Permutations(MCNames)

AnyOperation == Operations

=============================================================================
