--------------------------- MODULE LibraryProofs ---------------------------
(***************************************************************************)
(* Lemmas on the operators that several models share: what Kept leaves of  *)
(* a sequence and what Reach comes to; and the induction on natural        *)
(* numbers they are proved by: over a set, not over an operator.           *)
(***************************************************************************)
EXTENDS Subsequences, Reachability, FiniteSetTheorems, WellFoundedInduction, TLAPS

\* A set of natural numbers that is not empty has a least one.
LEMMA LeastNatural ==
    ASSUME NEW T \in SUBSET Nat, T # {}
    PROVE  \E x \in T : \A y \in T : x <= y
<1> DEFINE R == {ss \in Nat \X Nat : ss[1] < ss[2]}
<1>1. IsWellFoundedOn(R, Nat)
    BY NatLessThanWellFounded, Zenon DEF OpToRel
<1> HIDE DEF R
<1>2. PICK x \in T : \A y \in T : <<y, x>> \notin R
    BY <1>1, WFMin
<1>3. ASSUME NEW y \in T PROVE x <= y
    <2>1. <<y, x>> \notin R
        BY <1>2
    <2> QED BY <2>1 DEF R
<1> QED BY <1>3

\* Induction: a set that holds 0, and with every number the next, holds them all.
LEMMA Induction ==
    ASSUME NEW T, 0 \in T, \A k \in Nat : k \in T => k + 1 \in T
    PROVE  \A k \in Nat : k \in T
<1> DEFINE U == {k \in Nat : k \notin T}
<1>1. SUFFICES ASSUME U # {} PROVE FALSE
    OBVIOUS
<1>2. U \in SUBSET Nat
    OBVIOUS
<1>3. PICK n \in U : \A y \in U : n <= y
    BY <1>1, <1>2, LeastNatural
<1>4. n # 0 /\ n \in Nat /\ n \notin T
    OBVIOUS
<1>5. n - 1 \in Nat /\ n - 1 \notin U
    BY <1>3, <1>4
<1>6. n - 1 \in T
    BY <1>5
<1>7. (n - 1) + 1 \in T
    BY <1>5, <1>6
<1> QED BY <1>4, <1>7

-----------------------------------------------------------------------------
(* What Kept computes *)

IsKept(K, s, I, n) ==
    K = [k \in 0..n |-> IF k = 0 THEN <<>>
                        ELSE IF k \in I THEN Append(K[k - 1], s[k]) ELSE K[k - 1]]

\* The recursion of Kept has a solution up to every length.
LEMMA KeptExists ==
    ASSUME NEW s, NEW I, NEW m \in Nat
    PROVE  \E K : IsKept(K, s, I, m)
<1> DEFINE T == {n \in Nat : \E K : IsKept(K, s, I, n)}
<1>1. 0 \in T
    <2>1. IsKept([k \in 0..0 |-> <<>>], s, I, 0)
        BY DEF IsKept
    <2> QED BY <2>1
<1>2. ASSUME NEW n \in Nat, n \in T PROVE n + 1 \in T
    <2>1. PICK K : IsKept(K, s, I, n)
        BY <1>2
    <2> DEFINE L == [k \in 0..(n + 1) |->
                        IF k <= n THEN K[k]
                        ELSE IF k \in I THEN Append(K[n], s[k]) ELSE K[n]]
    <2>2. IsKept(L, s, I, n + 1)
        <3>1. ASSUME NEW k \in 0..(n + 1)
              PROVE  L[k] = IF k = 0 THEN <<>>
                            ELSE IF k \in I THEN Append(L[k - 1], s[k]) ELSE L[k - 1]
            <4>1. CASE k <= n /\ k # 0
                <5>1. k \in 0..n /\ k - 1 \in 0..n /\ k - 1 <= n /\ k - 1 \in 0..(n + 1)
                    BY <4>1
                <5>2. L[k] = K[k] /\ L[k - 1] = K[k - 1]
                    BY <4>1, <5>1
                <5>3. K[k] = IF k = 0 THEN <<>>
                             ELSE IF k \in I THEN Append(K[k - 1], s[k]) ELSE K[k - 1]
                    BY <2>1, <5>1 DEF IsKept
                <5> HIDE DEF L
                <5> QED BY <5>2, <5>3
            <4>0. CASE k = 0
                BY <2>1, <4>0 DEF IsKept
            <4>2. CASE k = n + 1
                BY <4>2
            <4> QED BY <4>0, <4>1, <4>2
        <3> QED BY <3>1 DEF IsKept
    <2> QED BY <2>2
<1> HIDE DEF T
<1>3. m \in T
    BY <1>1, <1>2, Induction
<1> QED BY <1>3 DEF T

\* Kept is the last value of such a solution.
LEMMA KeptIs ==
    ASSUME NEW s, NEW I, Len(s) \in Nat
    PROVE  \E K : IsKept(K, s, I, Len(s)) /\ Kept(s, I) = K[Len(s)]
<1>1. \E K : IsKept(K, s, I, Len(s))
    BY KeptExists
<1>2. IsKept(CHOOSE K : IsKept(K, s, I, Len(s)), s, I, Len(s))
    BY <1>1
<1>3. Kept(s, I) = (CHOOSE K : IsKept(K, s, I, Len(s)))[Len(s)]
    BY DEF Kept, IsKept
<1> QED BY <1>2, <1>3

\* The steps of the computation.
KeptRule(K, s, I, n) ==
    /\ K[0] = <<>>
    /\ \A k \in Nat : k + 1 <= n =>
            /\ k + 1 \in I => K[k + 1] = Append(K[k], s[k + 1])
            /\ k + 1 \notin I => K[k + 1] = K[k]

\* A solution obeys the recursion at every position.
LEMMA KeptSteps ==
    ASSUME NEW s, NEW I, NEW n \in Nat, NEW K, IsKept(K, s, I, n)
    PROVE  KeptRule(K, s, I, n)
<1>1. \A k \in 0..n : K[k] = IF k = 0 THEN <<>>
                             ELSE IF k \in I THEN Append(K[k - 1], s[k]) ELSE K[k - 1]
    BY DEF IsKept
<1>2. ASSUME NEW k \in Nat, k + 1 <= n
      PROVE  /\ k + 1 \in I => K[k + 1] = Append(K[k], s[k + 1])
             /\ k + 1 \notin I => K[k + 1] = K[k]
    <2>1. k + 1 \in 0..n /\ k + 1 # 0 /\ (k + 1) - 1 = k
        BY <1>2
    <2> QED BY <1>1, <2>1
<1>3. 0 \in 0..n
    OBVIOUS
<1> QED BY <1>1, <1>2, <1>3 DEF KeptRule

\* Kept is the last stage of a computation that follows the rule.
LEMMA KeptByRule ==
    ASSUME NEW s, NEW I, NEW n \in Nat, n = Len(s)
    PROVE  \E K : KeptRule(K, s, I, n) /\ Kept(s, I) = K[n]
<1>1. PICK K : IsKept(K, s, I, Len(s)) /\ Kept(s, I) = K[Len(s)]
    BY KeptIs
<1>2. IsKept(K, s, I, n) /\ Kept(s, I) = K[n]
    BY <1>1
<1>3. KeptRule(K, s, I, n)
    BY <1>2, KeptSteps
<1> QED BY <1>2, <1>3

\* Every stage is a sequence, no longer than the part of s it was made from.
LEMMA KeptStages ==
    ASSUME NEW S, NEW s \in Seq(S), NEW I, NEW n \in Nat, n = Len(s), NEW K, KeptRule(K, s, I, n)
    PROVE  \A k \in 0..n : K[k] \in Seq(S) /\ Len(K[k]) <= k
<1>1. /\ K[0] = <<>>
      /\ \A k \in Nat : k + 1 <= n =>
            /\ k + 1 \in I => K[k + 1] = Append(K[k], s[k + 1])
            /\ k + 1 \notin I => K[k + 1] = K[k]
    BY Zenon DEF KeptRule
<1> DEFINE T == {k \in Nat : k <= n => K[k] \in Seq(S) /\ Len(K[k]) <= k}
<1>2. 0 \in T
    <2>1. <<>> \in Seq(S) /\ Len(<<>>) = 0
        OBVIOUS
    <2>2. K[0] \in Seq(S) /\ Len(K[0]) = 0
        BY <1>1, <2>1, Zenon
    <2> QED BY <2>2
<1>3. ASSUME NEW k \in Nat, k \in T PROVE k + 1 \in T
    <2> SUFFICES ASSUME k + 1 <= n PROVE K[k + 1] \in Seq(S) /\ Len(K[k + 1]) <= k + 1
        OBVIOUS
    <2>1. K[k] \in Seq(S) /\ Len(K[k]) <= k
        BY <1>3
    <2>2. s[k + 1] \in S
        OBVIOUS
    <2>3. K[k + 1] = Append(K[k], s[k + 1]) \/ K[k + 1] = K[k]
        BY <1>1, Zenon
    <2>4. Append(K[k], s[k + 1]) \in Seq(S) /\ Len(Append(K[k], s[k + 1])) <= k + 1 /\ Len(K[k]) <= k + 1
        BY <2>1, <2>2
    <2> QED BY <2>1, <2>3, <2>4, Zenon
<1> HIDE DEF T
<1>4. \A k \in Nat : k \in T
    BY <1>2, <1>3, Induction
<1> QED BY <1>4 DEF T

\* What is kept of a sequence over S is a sequence over S, and no longer.
LEMMA KeptType ==
    ASSUME NEW S, NEW s \in Seq(S), NEW I
    PROVE  Kept(s, I) \in Seq(S) /\ Len(Kept(s, I)) <= Len(s)
<1>0. Len(s) \in Nat
    OBVIOUS
<1>1. PICK K : KeptRule(K, s, I, Len(s)) /\ Kept(s, I) = K[Len(s)]
    BY <1>0, KeptByRule
<1> QED BY <1>0, <1>1, KeptStages

\* What is kept depends on the elements at the positions in I alone: here of two
\* sequences, the second at least as long as the first.
LEMMA KeptAgreeLonger ==
    ASSUME NEW s, NEW t, NEW I, NEW n \in Nat, NEW m \in Nat, n = Len(s), m = Len(t), n <= m,
           \A i \in I : i \in 1..n /\ s[i] = t[i]
    PROVE  Kept(s, I) = Kept(t, I)
<1>1. PICK K : KeptRule(K, s, I, n) /\ Kept(s, I) = K[n]
    BY KeptByRule
<1>2. PICK L : KeptRule(L, t, I, m) /\ Kept(t, I) = L[m]
    BY KeptByRule
<1>3. /\ K[0] = <<>>
      /\ \A k \in Nat : k + 1 <= n =>
            /\ k + 1 \in I => K[k + 1] = Append(K[k], s[k + 1])
            /\ k + 1 \notin I => K[k + 1] = K[k]
    BY <1>1, Zenon DEF KeptRule
<1>4. /\ L[0] = <<>>
      /\ \A k \in Nat : k + 1 <= m =>
            /\ k + 1 \in I => L[k + 1] = Append(L[k], t[k + 1])
            /\ k + 1 \notin I => L[k + 1] = L[k]
    BY <1>2, Zenon DEF KeptRule
<1> DEFINE T == {k \in Nat : (k <= n => K[k] = L[k]) /\ (k > n /\ k <= m => L[k] = K[n])}
<1>5. 0 \in T
    <2>1. K[0] = L[0]
        BY <1>3, <1>4, Zenon
    <2> QED BY <2>1
<1>6. ASSUME NEW k \in Nat, k \in T PROVE k + 1 \in T
    <2>1. CASE k + 1 <= n
        <3>1. K[k] = L[k] /\ k + 1 <= m
            BY <1>6, <2>1
        <3>2. CASE k + 1 \in I
            <4>1. s[k + 1] = t[k + 1]
                BY <3>2
            <4>2. K[k + 1] = L[k + 1]
                BY <1>3, <1>4, <2>1, <3>1, <3>2, <4>1, Zenon
            <4> QED BY <2>1, <4>2
        <3>3. CASE k + 1 \notin I
            <4>1. K[k + 1] = L[k + 1]
                BY <1>3, <1>4, <2>1, <3>1, <3>3, Zenon
            <4> QED BY <2>1, <4>1
        <3> QED BY <3>2, <3>3
    <2>2. CASE k + 1 > n /\ k + 1 <= m
        <3>1. k + 1 \notin I /\ L[k] = K[n]
            BY <1>6, <2>2
        <3>2. L[k + 1] = K[n]
            BY <1>4, <2>2, <3>1, Zenon
        <3> QED BY <2>2, <3>2
    <2>3. CASE k + 1 > n /\ ~(k + 1 <= m)
        BY <2>3
    <2> QED BY <2>1, <2>2, <2>3
<1> HIDE DEF T
<1>7. m \in T
    BY <1>5, <1>6, Induction
<1>8. L[m] = K[n]
    BY <1>7 DEF T
<1> QED BY <1>1, <1>2, <1>8

\* Sequences that agree on I keep the same.
LEMMA KeptAgree ==
    ASSUME NEW s, NEW t, NEW I, Len(s) \in Nat, Len(t) \in Nat,
           \A i \in I : i \in 1..Len(s) /\ i \in 1..Len(t) /\ s[i] = t[i]
    PROVE  Kept(s, I) = Kept(t, I)
<1>1. CASE Len(s) <= Len(t)
    BY <1>1, KeptAgreeLonger
<1>2. CASE Len(t) <= Len(s)
    <2>1. \A i \in I : i \in 1..Len(t) /\ t[i] = s[i]
        OBVIOUS
    <2> QED BY <1>2, <2>1, KeptAgreeLonger
<1> QED BY <1>1, <1>2

\* The last position that is kept gives the last element.
LEMMA KeptLast ==
    ASSUME NEW s, NEW I, NEW J, NEW n \in Nat, n = Len(s), NEW p \in 1..n,
           I \subseteq 1..(p - 1), J = I \cup {p}
    PROVE  Kept(s, J) = Append(Kept(s, I), s[p])
<1>1. PICK K : KeptRule(K, s, I, n) /\ Kept(s, I) = K[n]
    BY KeptByRule
<1>2. PICK L : KeptRule(L, s, J, n) /\ Kept(s, J) = L[n]
    BY KeptByRule
<1>3. /\ K[0] = <<>>
      /\ \A k \in Nat : k + 1 <= n =>
            /\ k + 1 \in I => K[k + 1] = Append(K[k], s[k + 1])
            /\ k + 1 \notin I => K[k + 1] = K[k]
    BY <1>1, Zenon DEF KeptRule
<1>4. /\ L[0] = <<>>
      /\ \A k \in Nat : k + 1 <= n =>
            /\ k + 1 \in J => L[k + 1] = Append(L[k], s[k + 1])
            /\ k + 1 \notin J => L[k + 1] = L[k]
    BY <1>2, Zenon DEF KeptRule
<1> DEFINE T == {k \in Nat : (k < p => L[k] = K[k])
                              /\ (p <= k /\ k <= n => L[k] = Append(K[k], s[p]))}
<1>5. 0 \in T
    <2>1. K[0] = L[0]
        BY <1>3, <1>4, Zenon
    <2> QED BY <2>1
<1>6. ASSUME NEW k \in Nat, k \in T PROVE k + 1 \in T
    <2>1. CASE k + 1 < p
        <3>1. K[k] = L[k] /\ k + 1 <= n /\ (k + 1 \in I <=> k + 1 \in J)
            BY <1>6, <2>1
        <3>2. L[k + 1] = K[k + 1]
            BY <1>3, <1>4, <3>1, Zenon
        <3> QED BY <2>1, <3>2
    <2>2. CASE k + 1 = p
        <3>1. K[k] = L[k] /\ k + 1 <= n /\ k + 1 \in J /\ k + 1 \notin I
            BY <1>6, <2>2
        <3>2. L[k + 1] = Append(K[k + 1], s[k + 1])
            BY <1>3, <1>4, <3>1, Zenon
        <3>3. L[k + 1] = Append(K[k + 1], s[p])
            BY <2>2, <3>2
        <3> QED BY <2>2, <3>3
    <2>3. CASE k + 1 > p /\ k + 1 <= n
        <3>1. L[k] = Append(K[k], s[p]) /\ k + 1 \notin J /\ k + 1 \notin I
            BY <1>6, <2>3
        <3>2. L[k + 1] = Append(K[k + 1], s[p])
            BY <1>3, <1>4, <2>3, <3>1, Zenon
        <3> QED BY <2>3, <3>2
    <2>4. CASE k + 1 > p /\ ~(k + 1 <= n)
        BY <2>4
    <2> QED BY <2>1, <2>2, <2>3, <2>4
<1> HIDE DEF T
<1>7. n \in T
    BY <1>5, <1>6, Induction
<1>8. L[n] = Append(K[n], s[p])
    BY <1>7 DEF T
<1> QED BY <1>1, <1>2, <1>8

\* Elements appended to both.
LEMMA EmbedsAppend ==
    ASSUME NEW S, NEW a \in Seq(S), NEW b \in Seq(S), NEW x \in S, Embeds(a, b)
    PROVE  Embeds(Append(a, x), Append(b, x))
<1>1. PICK at \in [DOMAIN a -> DOMAIN b] :
        /\ \A i, j \in DOMAIN a : i < j => at[i] < at[j]
        /\ \A i \in DOMAIN a : b[at[i]] = a[i]
    BY DEF Embeds
<1> DEFINE n == Len(a)
           m == Len(b)
           A == Append(a, x)
           B == Append(b, x)
           at2 == [i \in 1..(n + 1) |-> IF i <= n THEN at[i] ELSE m + 1]
<1>2. n \in Nat /\ m \in Nat /\ DOMAIN a = 1..n /\ DOMAIN b = 1..m
    OBVIOUS
<1>3. DOMAIN A = 1..(n + 1) /\ DOMAIN B = 1..(m + 1)
    OBVIOUS
<1>4. /\ \A i \in 1..n : A[i] = a[i]
      /\ \A i \in 1..m : B[i] = b[i]
      /\ A[n + 1] = x /\ B[m + 1] = x
    OBVIOUS
<1>5. \A i \in 1..n : at[i] \in 1..m
    BY <1>2
<1> HIDE DEF n, m, A, B
<1>6. at2 \in [DOMAIN A -> DOMAIN B]
    BY <1>2, <1>3, <1>5
<1>7. \A i, j \in DOMAIN A : i < j => at2[i] < at2[j]
    BY <1>1, <1>2, <1>3, <1>5
<1>8. \A i \in DOMAIN A : B[at2[i]] = A[i]
    BY <1>1, <1>2, <1>3, <1>4, <1>5
<1> HIDE DEF at2
<1>9. Embeds(A, B)
    BY <1>6, <1>7, <1>8 DEF Embeds
<1> QED BY <1>9 DEF A, B

\* Embedding of sequences is transitive.
LEMMA EmbedsTransitive ==
    ASSUME NEW S, NEW a \in Seq(S), NEW b \in Seq(S), NEW c \in Seq(S), Embeds(a, b), Embeds(b, c)
    PROVE  Embeds(a, c)
<1>1. PICK f \in [DOMAIN a -> DOMAIN b] :
        /\ \A i, j \in DOMAIN a : i < j => f[i] < f[j]
        /\ \A i \in DOMAIN a : b[f[i]] = a[i]
    BY DEF Embeds
<1>2. PICK g \in [DOMAIN b -> DOMAIN c] :
        /\ \A i, j \in DOMAIN b : i < j => g[i] < g[j]
        /\ \A i \in DOMAIN b : c[g[i]] = b[i]
    BY DEF Embeds
<1> DEFINE h == [i \in DOMAIN a |-> g[f[i]]]
<1>3. h \in [DOMAIN a -> DOMAIN c] /\ \A i \in DOMAIN a : h[i] = g[f[i]] /\ f[i] \in DOMAIN b
    OBVIOUS
<1> HIDE DEF h
<1>4. \A i, j \in DOMAIN a : i < j => h[i] < h[j]
    BY <1>1, <1>2, <1>3
<1>5. \A i \in DOMAIN a : c[h[i]] = a[i]
    BY <1>1, <1>2, <1>3
<1> QED BY <1>3, <1>4, <1>5 DEF Embeds

\* The positions that the elements of a stage have in s: those in I up to k.
At(at, a, s, I, k) ==
    /\ at \in [DOMAIN a -> 1..k]
    /\ \A i, j \in DOMAIN a : i < j => at[i] < at[j]
    /\ \A i \in DOMAIN a : at[i] \in I /\ s[at[i]] = a[i]
    /\ \A p \in 1..k : p \in I => \E i \in DOMAIN a : at[i] = p

\* An embedding that is extended by the next element that is kept.
LEMMA AtAppend ==
    ASSUME NEW S, NEW a \in Seq(S), NEW s \in Seq(S), NEW I, NEW k \in Nat, k + 1 <= Len(s),
           k + 1 \in I, NEW at, At(at, a, s, I, k)
    PROVE  \E at2 : At(at2, Append(a, s[k + 1]), s, I, k + 1)
<1> DEFINE n == Len(a)
           A == Append(a, s[k + 1])
           at2 == [i \in 1..(n + 1) |-> IF i <= n THEN at[i] ELSE k + 1]
<1>1. n \in Nat /\ DOMAIN a = 1..n /\ DOMAIN A = 1..(n + 1)
    OBVIOUS
<1>2. (\A i \in 1..n : A[i] = a[i]) /\ A[n + 1] = s[k + 1]
    OBVIOUS
<1>3. /\ \A i \in 1..n : at[i] \in 1..k
      /\ \A i, j \in 1..n : i < j => at[i] < at[j]
      /\ \A i \in 1..n : at[i] \in I /\ s[at[i]] = a[i]
      /\ \A p \in 1..k : p \in I => \E i \in 1..n : at[i] = p
    BY <1>1 DEF At
<1> HIDE DEF n, A
<1>4. at2 \in [DOMAIN A -> 1..(k + 1)]
    BY <1>1, <1>3
<1>5. \A i, j \in DOMAIN A : i < j => at2[i] < at2[j]
    BY <1>1, <1>3
<1>6. \A i \in DOMAIN A : at2[i] \in I /\ s[at2[i]] = A[i]
    BY <1>1, <1>2, <1>3
<1>7. ASSUME NEW p \in 1..(k + 1), p \in I PROVE \E i \in DOMAIN A : at2[i] = p
    <2>1. CASE p = k + 1
        <3>1. n + 1 \in DOMAIN A /\ at2[n + 1] = p
            BY <1>1, <2>1
        <3> QED BY <3>1
    <2>2. CASE p # k + 1
        <3>1. PICK i \in 1..n : at[i] = p
            BY <1>3, <1>7, <2>2
        <3>2. i \in DOMAIN A /\ at2[i] = p
            BY <1>1, <3>1
        <3> QED BY <3>2
    <2> QED BY <2>1, <2>2
<1> HIDE DEF at2
<1>8. At(at2, A, s, I, k + 1)
    BY <1>4, <1>5, <1>6, <1>7 DEF At
<1> QED BY <1>8 DEF A

\* What is kept of a sequence is what is at the positions in I, in their order.
LEMMA KeptAt ==
    ASSUME NEW S, NEW s \in Seq(S), NEW I
    PROVE  \E at : At(at, Kept(s, I), s, I, Len(s))
<1> DEFINE n == Len(s)
<1>1. n \in Nat
    OBVIOUS
<1>2. PICK K : KeptRule(K, s, I, n) /\ Kept(s, I) = K[n]
    BY <1>1, KeptByRule
<1>3. \A k \in 0..n : K[k] \in Seq(S)
    BY <1>1, <1>2, KeptStages
<1> HIDE DEF n
<1>5. /\ K[0] = <<>>
      /\ \A k \in Nat : k + 1 <= n =>
            /\ k + 1 \in I => K[k + 1] = Append(K[k], s[k + 1])
            /\ k + 1 \notin I => K[k + 1] = K[k]
    BY <1>2, Zenon DEF KeptRule
<1> DEFINE T == {k \in Nat : k <= n => \E at : At(at, K[k], s, I, k)}
<1>6. 0 \in T
    <2> DEFINE at0 == [i \in {} |-> 1]
    <2>1. DOMAIN <<>> = {}
        OBVIOUS
    <2>2. DOMAIN K[0] = {}
        BY <1>5, <2>1, Zenon
    <2>3. At(at0, K[0], s, I, 0)
        BY <2>2 DEF At
    <2> QED BY <2>3
<1>7. ASSUME NEW k \in Nat, k \in T PROVE k + 1 \in T
    <2> SUFFICES ASSUME k + 1 <= n PROVE \E at : At(at, K[k + 1], s, I, k + 1)
        OBVIOUS
    <2>1. PICK at : At(at, K[k], s, I, k)
        BY <1>1, <1>7
    <2>2. K[k] \in Seq(S)
        BY <1>1, <1>3
    <2>3. CASE k + 1 \in I
        <3>1. \E at2 : At(at2, Append(K[k], s[k + 1]), s, I, k + 1)
            BY <1>1, <2>1, <2>2, <2>3, AtAppend DEF n
        <3>2. K[k + 1] = Append(K[k], s[k + 1])
            BY <1>5, <2>3, Zenon
        <3> QED BY <3>1, <3>2, Zenon
    <2>4. CASE k + 1 \notin I
        <3>1. K[k + 1] = K[k]
            BY <1>5, <2>4, Zenon
        <3>2. \A p \in 1..(k + 1) : p \in 1..k \/ p = k + 1
            OBVIOUS
        <3>3. 1..k \subseteq 1..(k + 1)
            OBVIOUS
        <3>4. At(at, K[k], s, I, k + 1)
            BY <2>1, <2>4, <3>2, <3>3 DEF At
        <3> QED BY <3>1, <3>4, Zenon
    <2> QED BY <2>3, <2>4
<1> HIDE DEF T
<1>8. n \in T
    BY <1>1, <1>6, <1>7, Induction
<1>9. PICK at : At(at, K[n], s, I, n)
    BY <1>1, <1>8 DEF T
<1> QED BY <1>2, <1>9 DEF n

\* It is embedded in the sequence.
LEMMA KeptEmbeds ==
    ASSUME NEW S, NEW s \in Seq(S), NEW I
    PROVE  Embeds(Kept(s, I), s)
<1>1. PICK at : At(at, Kept(s, I), s, I, Len(s))
    BY KeptAt
<1>2. DOMAIN s = 1..Len(s)
    OBVIOUS
<1> QED BY <1>1, <1>2 DEF Embeds, At

-----------------------------------------------------------------------------
(* What Reach comes to *)

IsReach(R, i, next, n) ==
    R = [k \in 0..n |-> IF k = 0 THEN {i}
                        ELSE R[k - 1] \cup UNION {next[d] : d \in R[k - 1] \cap DOMAIN next}]

\* The successors of a set.
Successors(S, next) == UNION {next[d] : d \in S \cap DOMAIN next}

\* The levels of the walk that defines Reach exist.
LEMMA ReachExists ==
    ASSUME NEW i, NEW next, NEW m \in Nat
    PROVE  \E R : IsReach(R, i, next, m)
<1> DEFINE T == {n \in Nat : \E R : IsReach(R, i, next, n)}
<1>1. 0 \in T
    <2>1. IsReach([k \in 0..0 |-> {i}], i, next, 0)
        BY DEF IsReach
    <2> QED BY <2>1
<1>2. ASSUME NEW n \in Nat, n \in T PROVE n + 1 \in T
    <2>1. PICK R : IsReach(R, i, next, n)
        BY <1>2
    <2> DEFINE L == [k \in 0..(n + 1) |-> IF k <= n THEN R[k] ELSE R[n] \cup Successors(R[n], next)]
    <2>2. ASSUME NEW k \in 0..(n + 1)
          PROVE  L[k] = IF k = 0 THEN {i} ELSE L[k - 1] \cup Successors(L[k - 1], next)
        <3>1. CASE k <= n /\ k # 0
            <4>1. k \in 0..n /\ k - 1 \in 0..n /\ k - 1 <= n /\ k - 1 \in 0..(n + 1)
                BY <3>1
            <4>2. L[k] = R[k] /\ L[k - 1] = R[k - 1]
                BY <3>1, <4>1
            <4>3. R[k] = IF k = 0 THEN {i} ELSE R[k - 1] \cup Successors(R[k - 1], next)
                BY <2>1, <4>1 DEF IsReach, Successors
            <4> HIDE DEF L
            <4> QED BY <4>2, <4>3
        <3>2. CASE k = 0
            BY <2>1, <3>2 DEF IsReach
        <3>3. CASE k = n + 1
            <4>1. k # 0 /\ ~(k <= n) /\ k - 1 = n /\ n \in 0..(n + 1) /\ n <= n
                BY <3>3
            <4>2. L[k] = R[n] \cup Successors(R[n], next) /\ L[n] = R[n]
                BY <4>1
            <4> HIDE DEF L
            <4> QED BY <4>1, <4>2, Zenon
        <3> QED BY <3>1, <3>2, <3>3
    <2>3. IsReach(L, i, next, n + 1)
        BY <2>2 DEF IsReach, Successors
    <2> QED BY <2>3
<1> HIDE DEF T
<1>3. m \in T
    BY <1>1, <1>2, Induction
<1> QED BY <1>3 DEF T

\* The levels of a walk of m steps from i.
Levels(R, i, next, m) ==
    /\ R[0] = {i}
    /\ \A k \in Nat : k + 1 <= m => R[k + 1] = R[k] \cup Successors(R[k], next)

\* Reach goes from level to level.
LEMMA ReachByLevels ==
    ASSUME NEW i, NEW next, NEW m \in Nat
    PROVE  \E R : Levels(R, i, next, m) /\ Reach(i, next, m) = R[m]
<1> DEFINE R == CHOOSE R : IsReach(R, i, next, m)
<1>1. IsReach(R, i, next, m)
    BY ReachExists
<1>2. Reach(i, next, m) = R[m]
    BY DEF Reach, IsReach
<1> HIDE DEF R
<1>3. \A k \in 0..m : R[k] = IF k = 0 THEN {i} ELSE R[k - 1] \cup Successors(R[k - 1], next)
    BY <1>1 DEF IsReach, Successors
<1>4. ASSUME NEW k \in Nat, k + 1 <= m
      PROVE  R[k + 1] = R[k] \cup Successors(R[k], next)
    <2>1. k + 1 \in 0..m /\ k + 1 # 0 /\ (k + 1) - 1 = k
        BY <1>4
    <2> QED BY <1>3, <2>1
<1>5. R[0] = {i}
    <2>1. 0 \in 0..m
        OBVIOUS
    <2> QED BY <1>3, <2>1, Zenon
<1> QED BY <1>2, <1>4, <1>5 DEF Levels

\* A walk starts where it starts and stays in every set that it cannot leave.
LEMMA ReachLeast ==
    ASSUME NEW i, NEW next, NEW m \in Nat, NEW S, i \in S,
           \A d \in S \cap DOMAIN next : next[d] \subseteq S
    PROVE  i \in Reach(i, next, m) /\ Reach(i, next, m) \subseteq S
<1>0. PICK R : Levels(R, i, next, m) /\ Reach(i, next, m) = R[m]
    BY ReachByLevels
<1>1. /\ R[0] = {i}
      /\ \A k \in Nat : k + 1 <= m => R[k + 1] = R[k] \cup Successors(R[k], next)
      /\ Reach(i, next, m) = R[m]
    BY <1>0 DEF Levels
<1> DEFINE T == {k \in Nat : k <= m => i \in R[k] /\ R[k] \subseteq S}
<1>2. 0 \in T
    BY <1>1
<1>3. ASSUME NEW k \in Nat, k \in T PROVE k + 1 \in T
    <2> SUFFICES ASSUME k + 1 <= m PROVE i \in R[k + 1] /\ R[k + 1] \subseteq S
        OBVIOUS
    <2>1. i \in R[k] /\ R[k] \subseteq S
        BY <1>3
    <2>2. Successors(R[k], next) \subseteq S
        BY <2>1 DEF Successors
    <2> QED BY <1>1, <2>1, <2>2
<1> HIDE DEF T
<1>4. m \in T
    BY <1>2, <1>3, Induction
<1> QED BY <1>1, <1>4 DEF T

\* A walk of n steps among at most n + 1 things comes to all it can come to: as
\* long as it does not, every step comes to something new.
LEMMA ReachClosed ==
    ASSUME NEW U, IsFiniteSet(U), NEW m \in Nat, Cardinality(U) <= m + 1,
           NEW i \in U, NEW next, \A d \in DOMAIN next : next[d] \subseteq U
    PROVE  \A d \in Reach(i, next, m) \cap DOMAIN next : next[d] \subseteq Reach(i, next, m)
<1> DEFINE Closed(S) == Successors(S, next) \subseteq S
<1>0. PICK R : Levels(R, i, next, m) /\ Reach(i, next, m) = R[m]
    BY ReachByLevels
<1>1. /\ R[0] = {i}
      /\ \A k \in Nat : k + 1 <= m => R[k + 1] = R[k] \cup Successors(R[k], next)
      /\ Reach(i, next, m) = R[m]
    BY <1>0 DEF Levels
<1>2. \A S : Successors(S, next) \subseteq U
    BY DEF Successors
<1> DEFINE T == {k \in Nat : k <= m => R[k] \subseteq U /\ (Closed(R[k]) \/ Cardinality(R[k]) >= k + 1)}
<1>3. 0 \in T
    <2>1. Cardinality(R[0]) = 1
        BY <1>1, FS_Singleton
    <2>2. R[0] \subseteq U
        BY <1>1, Zenon
    <2>3. Cardinality(R[0]) >= 0 + 1
        BY <2>1
    <2> HIDE DEF Closed
    <2> QED BY <2>2, <2>3
<1>4. ASSUME NEW k \in Nat, k \in T PROVE k + 1 \in T
    <2> SUFFICES ASSUME k + 1 <= m
                 PROVE  R[k + 1] \subseteq U /\ (Closed(R[k + 1]) \/ Cardinality(R[k + 1]) >= (k + 1) + 1)
        OBVIOUS
    <2> DEFINE A == R[k]
               B == R[k + 1]
    <2>1. A \subseteq U /\ (Closed(A) \/ Cardinality(A) >= k + 1)
        BY <1>4
    <2>2. B = A \cup Successors(A, next) /\ B \subseteq U
        BY <1>1, <1>2, <2>1
    <2> HIDE DEF A, B
    <2>3. CASE Closed(A)
        <3>1. B = A
            BY <2>2, <2>3
        <3> QED BY <2>2, <2>3, <3>1 DEF B
    <2>4. CASE ~Closed(A)
        <3>1. A \subseteq B /\ A # B
            BY <2>2, <2>4
        <3>2. IsFiniteSet(B) /\ IsFiniteSet(A)
            BY <2>1, <2>2, FS_Subset
        <3>3. Cardinality(A) \in Nat /\ Cardinality(B) \in Nat
            BY <3>2, FS_CardinalityType
        <3>4. Cardinality(A) <= Cardinality(B) /\ Cardinality(A) # Cardinality(B)
            BY <3>1, <3>2, FS_Subset
        <3>5. Cardinality(A) >= k + 1
            BY <2>1, <2>4
        <3>6. Cardinality(B) >= (k + 1) + 1
            BY <3>3, <3>4, <3>5
        <3> QED BY <2>2, <3>6 DEF B
    <2> QED BY <2>3, <2>4
<1> HIDE DEF T
<1>5. m \in T
    BY <1>3, <1>4, Induction
<1>6. R[m] \subseteq U /\ (Closed(R[m]) \/ Cardinality(R[m]) >= m + 1)
    BY <1>5 DEF T
<1>7. Closed(R[m])
    <2> SUFFICES ASSUME Cardinality(R[m]) >= m + 1 PROVE Closed(R[m])
        BY <1>6
    <2>1. Cardinality(R[m]) \in Nat /\ Cardinality(U) \in Nat /\ Cardinality(R[m]) <= Cardinality(U)
        BY <1>6, FS_Subset, FS_CardinalityType
    <2>2. Cardinality(R[m]) = Cardinality(U)
        BY <2>1
    <2>3. R[m] = U
        BY <1>6, <2>2, FS_Subset
    <2> QED BY <1>2, <2>3
<1> QED BY <1>1, <1>7 DEF Successors

=============================================================================
