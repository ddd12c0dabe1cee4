------------------------------- MODULE Recursion -------------------------------
(***************************************************************************)
(* The least number principle, induction over the natural numbers in the   *)
(* form of sets, and functions defined by recursion: facts that the proofs *)
(* about the threads and about the service tree share.                     *)
(***************************************************************************)
EXTENDS Integers, WellFoundedInduction, TLAPS

(* The least number principle.                                             *)
LEMMA LeastNumber ==
  ASSUME NEW T, T \subseteq Nat, T # {}
  PROVE  \E m \in T : \A n \in T : m <= n
<1> DEFINE R == {ss \in Nat \X Nat : ss[1] < ss[2]}
<1>1. IsWellFoundedOn(R, Nat)
  BY NatLessThanWellFounded DEF OpToRel
<1>2. PICK m \in T : \A n \in T : <<n, m>> \notin R
  <2> HIDE DEF R
  <2> QED BY <1>1, WFMin
<1>3. ASSUME NEW n \in T
      PROVE  m <= n
  <2>1. <<n, m>> \in Nat \X Nat /\ <<n, m>> \notin R
    BY <1>2
  <2>2. ~(n < m)
    BY <2>1
  <2> QED BY <2>2
<1> QED BY <1>3

(* What holds of 0 and of the successor of each number it holds of.        *)
LEMMA SetInduction ==
  ASSUME NEW S, S \subseteq Nat, 0 \in S, \A n \in S : n + 1 \in S
  PROVE  S = Nat
<1> SUFFICES ASSUME Nat \ S # {}
             PROVE  FALSE
  OBVIOUS
<1>1. PICK m \in Nat \ S : \A n \in Nat \ S : m <= n
  BY LeastNumber
<1>2. m # 0 /\ m - 1 \in Nat /\ ~(m <= m - 1)
  BY <1>1
<1>3. m - 1 \in S
  BY <1>1, <1>2
<1>4. m - 1 + 1 = m
  BY <1>1
<1> QED BY <1>1, <1>3, <1>4

(* A function that computes the value at n > b from n and the values at    *)
(* n - 1 and n - d, and has the value 1 up to b, as far as N.              *)
Follows(g, N, H, b, d) ==
  \A n \in 0..N : g[n] = IF n <= b THEN 1 ELSE H[<<n, g[n - 1], g[n - d]>>]

UpTo(N, H, b, d) == {g \in [0..N -> Nat] : Follows(g, N, H, b, d)}

(* There is such a function as far as any number.                          *)
LEMMA UpToExists ==
  ASSUME NEW H \in [Nat \X Nat \X Nat -> Nat], NEW b \in Nat, NEW d \in 1..b + 1
  PROVE  \A N \in Nat : UpTo(N, H, b, d) # {}
<1> DEFINE S == {N \in Nat : UpTo(N, H, b, d) # {}}
<1>1. 0 \in S
  <2> DEFINE g == [n \in 0..0 |-> 1]
  <2>1. g \in [0..0 -> Nat] /\ Follows(g, 0, H, b, d)
    BY DEF Follows
  <2> QED BY <2>1 DEF UpTo
<1>2. ASSUME NEW N \in S
      PROVE  N + 1 \in S
  <2>1. N \in Nat /\ N + 1 \in Nat
    OBVIOUS
  <2>2. PICK g \in [0..N -> Nat] : Follows(g, N, H, b, d)
    BY DEF UpTo
  <2> DEFINE v == IF N + 1 <= b THEN 1 ELSE H[<<N + 1, g[N], g[N + 1 - d]>>]
             h == [n \in 0..N + 1 |-> IF n = N + 1 THEN v ELSE g[n]]
  <2>3. v \in Nat
    <3>1. CASE N + 1 <= b
      BY <3>1
    <3>2. CASE ~(N + 1 <= b)
      <4>1. N \in 0..N /\ N + 1 - d \in 0..N
        BY <2>1, <3>2
      <4>2. <<N + 1, g[N], g[N + 1 - d]>> \in Nat \X Nat \X Nat
        BY <2>1, <2>2, <4>1
      <4> QED BY <3>2, <4>2
    <3> QED BY <3>1, <3>2
  <2> HIDE DEF v
  <2>4. h \in [0..N + 1 -> Nat]
    BY <2>1, <2>2, <2>3
  <2>5. \A n \in 0..N + 1 : h[n] = IF n <= b THEN 1 ELSE H[<<n, h[n - 1], h[n - d]>>]
    <3> SUFFICES ASSUME NEW n \in 0..N + 1
                 PROVE  h[n] = IF n <= b THEN 1 ELSE H[<<n, h[n - 1], h[n - d]>>]
      OBVIOUS
    <3>1. CASE n <= b /\ n = N + 1
      BY <2>1, <3>1 DEF v
    <3>2. CASE n <= b /\ n # N + 1
      <4>1. n \in 0..N /\ h[n] = g[n]
        BY <2>1, <3>2
      <4>2. g[n] = 1
        BY <2>2, <3>2, <4>1 DEF Follows
      <4> QED BY <3>2, <4>1, <4>2
    <3>3. CASE ~(n <= b)
      <4>1. n - 1 \in 0..N /\ n - d \in 0..N
        BY <2>1, <3>3
      <4>2. h[n - 1] = g[n - 1] /\ h[n - d] = g[n - d]
        BY <2>1, <4>1
      <4>3. CASE n = N + 1
        <5>1. n - 1 = N /\ n - d = N + 1 - d
          BY <2>1, <4>3
        <5> QED BY <2>1, <3>3, <4>2, <4>3, <5>1 DEF v
      <4>4. CASE n # N + 1
        BY <2>1, <2>2, <3>3, <4>2, <4>4 DEF Follows
      <4> QED BY <4>3, <4>4
    <3> QED BY <3>1, <3>2, <3>3
  <2>6. h \in UpTo(N + 1, H, b, d)
    <3> HIDE DEF h
    <3> QED BY <2>4, <2>5 DEF UpTo, Follows
  <2> QED BY <2>1, <2>6
<1>3. S \subseteq Nat
  OBVIOUS
<1> HIDE DEF S
<1>4. S = Nat
  BY <1>1, <1>2, <1>3, SetInduction
<1> QED BY <1>4 DEF S

(* Any two of them agree where both are defined.                           *)
LEMMA UpToUnique ==
  ASSUME NEW H \in [Nat \X Nat \X Nat -> Nat], NEW b \in Nat, NEW d \in 1..b + 1,
         NEW M \in Nat, NEW N \in Nat, M <= N,
         NEW g \in UpTo(M, H, b, d), NEW h \in UpTo(N, H, b, d)
  PROVE  \A n \in 0..M : g[n] = h[n]
<1> DEFINE T == {n \in 0..M : g[n] # h[n]}
<1> SUFFICES ASSUME T # {}
             PROVE  FALSE
  OBVIOUS
<1>1. T \subseteq Nat
  OBVIOUS
<1>2. PICK m \in T : \A n \in T : m <= n
  <2> HIDE DEF T
  <2> QED BY <1>1, LeastNumber
<1>3. m \in 0..M /\ m \in 0..N /\ g[m] # h[m]
  OBVIOUS
<1>4. /\ g[m] = IF m <= b THEN 1 ELSE H[<<m, g[m - 1], g[m - d]>>]
      /\ h[m] = IF m <= b THEN 1 ELSE H[<<m, h[m - 1], h[m - d]>>]
  BY <1>3 DEF UpTo, Follows
<1>5. CASE m <= b
  BY <1>3, <1>4, <1>5
<1>6. CASE ~(m <= b)
  <2>1. m - 1 \in 0..M /\ m - d \in 0..M /\ ~(m <= m - 1) /\ ~(m <= m - d)
    BY <1>3, <1>6
  <2>2. m - 1 \notin T /\ m - d \notin T
    BY <1>2, <2>1
  <2>3. g[m - 1] = h[m - 1] /\ g[m - d] = h[m - d]
    BY <2>1, <2>2
  <2> QED BY <1>3, <1>4, <1>6, <2>3
<1> QED BY <1>5, <1>6

(* So there is one on all natural numbers.                                 *)
LEMMA RecursionExists ==
  ASSUME NEW H \in [Nat \X Nat \X Nat -> Nat], NEW b \in Nat, NEW d \in 1..b + 1
  PROVE  \E F \in [Nat -> Nat] :
           \A n \in Nat : F[n] = IF n <= b THEN 1 ELSE H[<<n, F[n - 1], F[n - d]>>]
<1> DEFINE G == [N \in Nat |-> CHOOSE g \in UpTo(N, H, b, d) : TRUE]
           F == [n \in Nat |-> G[n][n]]
<1>1. \A N \in Nat : G[N] \in UpTo(N, H, b, d)
  BY UpToExists
<1>2. \A N \in Nat : G[N] \in [0..N -> Nat] /\ Follows(G[N], N, H, b, d)
  BY <1>1 DEF UpTo
<1> HIDE DEF G
<1>3. \A N \in Nat : \A n \in 0..N : G[N][n] = F[n]
  <2> SUFFICES ASSUME NEW N \in Nat, NEW n \in 0..N
               PROVE  G[N][n] = G[n][n]
    OBVIOUS
  <2>1. n \in Nat /\ n <= N /\ n \in 0..n
    OBVIOUS
  <2>2. G[n] \in UpTo(n, H, b, d) /\ G[N] \in UpTo(N, H, b, d)
    BY <1>1, <2>1
  <2> QED BY <2>1, <2>2, UpToUnique
<1>4. F \in [Nat -> Nat]
  BY <1>2
<1>5. ASSUME NEW n \in Nat
      PROVE  F[n] = IF n <= b THEN 1 ELSE H[<<n, F[n - 1], F[n - d]>>]
  <2>1. n \in 0..n
    OBVIOUS
  <2>2. F[n] = IF n <= b THEN 1 ELSE H[<<n, G[n][n - 1], G[n][n - d]>>]
    <3>1. G[n][n] = IF n <= b THEN 1 ELSE H[<<n, G[n][n - 1], G[n][n - d]>>]
      BY <1>2, <2>1 DEF Follows
    <3> QED BY <3>1
  <2>3. ~(n <= b) => n - 1 \in 0..n /\ n - d \in 0..n
    OBVIOUS
  <2> HIDE DEF F
  <2> QED BY <1>3, <2>2, <2>3
<1> HIDE DEF F
<1> QED BY <1>4, <1>5

================================================================================
