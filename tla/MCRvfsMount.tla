---------------------------- MODULE MCRvfsMount ----------------------------
(* RvfsMount for TLC: its one constant is given in the configuration.        *)
EXTENDS RvfsMount

=============================================================================
