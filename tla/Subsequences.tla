---------------------------- MODULE Subsequences ----------------------------
(***************************************************************************)
(* What Vec::retain and a loop that skips elements leave of a sequence.    *)
(* It says what SelectSeq of the standard modules says, by positions       *)
(* instead of by a test, so that proofs can reason about it.               *)
(***************************************************************************)
EXTENDS Integers, Sequences

\* The elements of s at the positions in I, in their order.
Kept(s, I) ==
    LET kept[k \in 0..Len(s)] ==
            IF k = 0 THEN <<>>
            ELSE IF k \in I THEN Append(kept[k - 1], s[k]) ELSE kept[k - 1]
    IN  kept[Len(s)]

\* Whether a is what is left of b when some of its elements are dropped.
Embeds(a, b) ==
    \E at \in [DOMAIN a -> DOMAIN b] :
        /\ \A i, j \in DOMAIN a : i < j => at[i] < at[j]
        /\ \A i \in DOMAIN a : b[at[i]] = a[i]

=============================================================================
