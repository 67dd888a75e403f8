----------------------------- MODULE MCFileData -----------------------------
(* Slices of two bytes, and one caller, as under FUSE. *)
EXTENDS FileData, TLC

CONSTANTS f1, c1, a, b

\* Nothing but equality tells the bytes of clients apart.
ByteSymmetry == Permutations(Bytes)

=============================================================================
