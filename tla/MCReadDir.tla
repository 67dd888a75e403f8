----------------------------- MODULE MCReadDir ------------------------------
(* Two handles; one name sorts before "." and ".." and one behind them. *)
EXTENDS ReadDir

CONSTANTS h1, h2

MCDots == {2, 3}

=============================================================================
