-------------------------- MODULE SubsequencesProofs --------------------------
(* What Only returns, for every sequence and every set. *)
EXTENDS Subsequences, FiniteSetTheorems, SequenceTheorems, TLAPS

(* Induction, for a set in place of a predicate: the library's theorems take   *)
(* an operator, which the provers cannot supply.  The segments 0..n of a       *)
(* number n outside S would have no least one.                                *)
LEMMA Induction ==
  ASSUME NEW S, 0 \in S, \A n \in Nat : n \in S => n + 1 \in S
  PROVE  Nat \subseteq S
<1> DEFINE R == StrictSubsetOrdering(Nat)
           T == {0..n : n \in Nat \ S}
<1>1. SUFFICES ASSUME Nat \ S # {} PROVE FALSE
  OBVIOUS
<1>2. T # {}
  BY <1>1
<1>3. T \subseteq FiniteSubsetsOf(Nat)
  <2>1. ASSUME NEW n \in Nat PROVE 0..n \in SUBSET Nat /\ IsFiniteSet(0..n)
    BY FS_Interval
  <2> QED BY <2>1 DEF FiniteSubsetsOf
<1>4. IsWellFoundedOn(R, FiniteSubsetsOf(Nat))
  BY FS_StrictSubsetOrderingWellFounded
<1>5. PICK x \in T : \A y \in T : ~(<<y, x>> \in R)
  <2> HIDE DEF R, T
  <2> QED BY <1>2, <1>3, <1>4, WFMin
<1>6. PICK n \in Nat \ S : x = 0..n
  BY <1>5
<1>7. n # 0 /\ n - 1 \in Nat /\ (n - 1) + 1 = n
  BY <1>6
<1>8. 0..(n - 1) \in T
  BY <1>6, <1>7
<1>9. /\ 0..(n - 1) \subseteq 0..n /\ 0..(n - 1) # 0..n
      /\ 0..n \in SUBSET Nat /\ 0..(n - 1) \in SUBSET Nat
  BY <1>6, <1>7
<1>10. <<0..(n - 1), 0..n>> \in R
  BY <1>9 DEF StrictSubsetOrdering
<1> QED BY <1>5, <1>6, <1>8, <1>10

(* The choices among the first elements of s, a step for each. *)
Steps(f, s, S, n) ==
  f = [k \in 0..n |->
         IF k = 0 THEN <<>>
         ELSE IF s[k] \in S THEN Append(f[k - 1], s[k]) ELSE f[k - 1]]

LEMMA StepsExist ==
  ASSUME NEW s, NEW S, NEW n \in Nat
  PROVE  \E f : Steps(f, s, S, n)
<1> DEFINE T == {m \in Nat : \E f : Steps(f, s, S, m)}
<1>1. 0 \in T
  <2>1. Steps([k \in 0..0 |-> <<>>], s, S, 0)
    BY DEF Steps
  <2> QED BY <2>1
<1>2. ASSUME NEW m \in Nat, m \in T PROVE m + 1 \in T
  <2>1. PICK f : Steps(f, s, S, m)
    BY <1>2
  <2> DEFINE last == IF s[m + 1] \in S THEN Append(f[m], s[m + 1]) ELSE f[m]
             g == [k \in 0..(m + 1) |-> IF k = m + 1 THEN last ELSE f[k]]
  <2>2. ASSUME NEW k \in 0..(m + 1)
        PROVE  g[k] = IF k = 0 THEN <<>>
                      ELSE IF s[k] \in S THEN Append(g[k - 1], s[k]) ELSE g[k - 1]
    <3>1. CASE k = m + 1
      <4>1. k # 0 /\ k - 1 = m /\ m \in 0..(m + 1) /\ m # m + 1
        BY <3>1
      <4> QED BY <3>1, <4>1
    <3>2. CASE k # m + 1
      <4>1. k \in 0..m /\ (k # 0 => k - 1 \in 0..(m + 1) /\ k - 1 # m + 1)
        BY <3>2
      <4>2. f[k] = IF k = 0 THEN <<>>
                   ELSE IF s[k] \in S THEN Append(f[k - 1], s[k]) ELSE f[k - 1]
        BY <2>1, <4>1 DEF Steps
      <4> QED BY <3>2, <4>1, <4>2
    <3> QED BY <3>1, <3>2
  <2>3. Steps(g, s, S, m + 1)
    <3>1. g = [k \in 0..(m + 1) |-> g[k]]
      OBVIOUS
    <3> HIDE DEF g
    <3> QED BY <2>2, <3>1 DEF Steps
  <2> QED BY <2>3
<1> HIDE DEF T
<1>3. Nat \subseteq T
  BY <1>1, <1>2, Induction
<1> QED BY <1>3 DEF T

LEMMA Step ==
  ASSUME NEW s, NEW S, NEW n \in Nat, NEW f, Steps(f, s, S, n), NEW k \in Nat, k + 1 <= n
  PROVE  f[k + 1] = IF s[k + 1] \in S THEN Append(f[k], s[k + 1]) ELSE f[k]
<1>1. k + 1 \in 0..n /\ k + 1 # 0 /\ (k + 1) - 1 = k
  OBVIOUS
<1> QED BY <1>1 DEF Steps

LEMMA OnlySteps ==
  ASSUME NEW s, NEW S, Len(s) \in Nat
  PROVE  \E f : Steps(f, s, S, Len(s)) /\ Only(s, S) = f[Len(s)]
<1> DEFINE f == CHOOSE f : Steps(f, s, S, Len(s))
<1>1. Steps(f, s, S, Len(s))
  BY StepsExist
<1>2. Only(s, S) = f[Len(s)]
  BY DEF Only, Steps
<1> QED BY <1>1, <1>2

(* Sequences that begin alike have the same choices from their beginnings. *)
LEMMA StepsAlike ==
  ASSUME NEW s, NEW t, NEW S, NEW n \in Nat, NEW m \in Nat, n <= m,
         \A i \in 1..n : s[i] = t[i],
         NEW f, Steps(f, s, S, n), NEW g, Steps(g, t, S, m)
  PROVE  \A k \in 0..n : f[k] = g[k]
<1> DEFINE T == {k \in Nat : k <= n => f[k] = g[k]}
<1>1. 0 \in T
  BY DEF Steps
<1>2. ASSUME NEW k \in Nat, k \in T, k + 1 <= n PROVE f[k + 1] = g[k + 1]
  <2>1. k + 1 \in 0..n /\ k + 1 \in 0..m /\ k + 1 \in 1..n /\ k + 1 # 0 /\ (k + 1) - 1 = k
    BY <1>2
  <2>2. f[k + 1] = IF s[k + 1] \in S THEN Append(f[k], s[k + 1]) ELSE f[k]
    BY <1>2, Step
  <2>3. g[k + 1] = IF t[k + 1] \in S THEN Append(g[k], t[k + 1]) ELSE g[k]
    BY <1>2, Step
  <2>4. f[k] = g[k] /\ s[k + 1] = t[k + 1]
    BY <1>2, <2>1
  <2> QED BY <2>2, <2>3, <2>4
<1>3. \A k \in Nat : k \in T => k + 1 \in T
  BY <1>2
<1> HIDE DEF T
<1>4. Nat \subseteq T
  BY <1>1, <1>3, Induction
<1> QED BY <1>4 DEF T

(* The elements chosen are elements of s, and of S. *)
LEMMA OnlyFacts ==
  ASSUME NEW U, NEW s \in Seq(U), NEW S
  PROVE  /\ Only(s, S) \in Seq(S \cap U) /\ Len(Only(s, S)) <= Len(s)
         /\ \A i \in 1..Len(Only(s, S)) : \E j \in 1..Len(s) : Only(s, S)[i] = s[j]
<1>1. Len(s) \in Nat /\ \A i \in 1..Len(s) : s[i] \in U
  OBVIOUS
<1>2. PICK f : Steps(f, s, S, Len(s)) /\ Only(s, S) = f[Len(s)]
  BY <1>1, OnlySteps
<1> DEFINE Chosen(k) ==
             /\ f[k] \in Seq(S \cap U) /\ Len(f[k]) <= k
             /\ \A i \in 1..Len(f[k]) : \E j \in 1..k : f[k][i] = s[j]
           T == {k \in Nat : k <= Len(s) => Chosen(k)}
<1>3. 0 \in T
  <2>1. f[0] = <<>>
    BY <1>1, <1>2 DEF Steps
  <2>2. <<>> \in Seq(S \cap U) /\ Len(<<>>) = 0 /\ 1..0 = {}
    OBVIOUS
  <2>3. Chosen(0)
    BY <2>1, <2>2
  <2> QED BY <2>3
<1>4. ASSUME NEW k \in Nat, k \in T, k + 1 <= Len(s) PROVE Chosen(k + 1)
  <2>1. /\ k + 1 \in 0..Len(s) /\ k + 1 \in 1..Len(s) /\ k + 1 # 0 /\ (k + 1) - 1 = k
        /\ Chosen(k)
    BY <1>1, <1>4
  <2>2. f[k + 1] = IF s[k + 1] \in S THEN Append(f[k], s[k + 1]) ELSE f[k]
    BY <1>1, <1>2, <1>4, Step
  <2>3. CASE s[k + 1] \notin S
    <3> DEFINE q == f[k]
    <3>1. f[k + 1] = q
      BY <2>2, <2>3
    <3>2. /\ q \in Seq(S \cap U) /\ Len(q) \in Nat /\ Len(q) <= k
          /\ \A i \in 1..Len(q) : \E j \in 1..k : q[i] = s[j]
      BY <2>1
    <3>3. 1..k \subseteq 1..k + 1
      OBVIOUS
    <3> HIDE DEF q
    <3>4. \A i \in 1..Len(q) : \E j \in 1..k + 1 : q[i] = s[j]
      BY <3>2, <3>3
    <3>5. Len(q) <= k + 1
      BY <3>2
    <3> QED BY <3>1, <3>2, <3>4, <3>5
  <2>4. CASE s[k + 1] \in S
    <3> DEFINE q == f[k]
               e == s[k + 1]
    <3>1. q \in Seq(S \cap U) /\ e \in S \cap U
      BY <1>1, <2>1, <2>4
    <3>2. /\ Append(q, e) \in Seq(S \cap U) /\ Len(Append(q, e)) = Len(q) + 1
          /\ Append(q, e)[Len(q) + 1] = e
          /\ \A i \in 1..Len(q) : Append(q, e)[i] = q[i]
      BY <3>1
    <3>3. Len(q) \in Nat /\ Len(q) <= k /\ \A i \in 1..Len(q) : \E j \in 1..k : q[i] = s[j]
      BY <2>1, <3>1
    <3>4. f[k + 1] = Append(q, e)
      BY <2>2, <2>4
    <3> HIDE DEF q
    <3>5. ASSUME NEW i \in 1..Len(q) + 1 PROVE \E j \in 1..k + 1 : Append(q, e)[i] = s[j]
      <4>1. CASE i = Len(q) + 1
        BY <3>2, <4>1
      <4>2. CASE i # Len(q) + 1
        <5>1. i \in 1..Len(q)
          BY <3>3, <4>2
        <5>2. PICK j \in 1..k : q[i] = s[j]
          BY <3>3, <5>1
        <5>3. j \in 1..k + 1
          BY <5>2
        <5> QED BY <3>2, <5>1, <5>2, <5>3
      <4> QED BY <4>1, <4>2
    <3> QED BY <3>2, <3>3, <3>4, <3>5
  <2> QED BY <2>3, <2>4
<1>5. \A k \in Nat : k \in T => k + 1 \in T
  <2> HIDE DEF Chosen
  <2> QED BY <1>4
<1> HIDE DEF T
<1>6. Nat \subseteq T
  BY <1>3, <1>5, Induction
<1>7. Chosen(Len(s))
  BY <1>1, <1>6 DEF T
<1> QED BY <1>2, <1>7

LEMMA OnlyEmpty == \A S : Only(<<>>, S) = <<>>
<1> TAKE S
<1>1. PICK f : Steps(f, <<>>, S, 0) /\ Only(<<>>, S) = f[0]
  BY OnlySteps
<1> QED BY <1>1 DEF Steps

(* One element more at the end. *)
LEMMA OnlyAppend ==
  ASSUME NEW U, NEW s \in Seq(U), NEW e \in U, NEW S
  PROVE  Only(Append(s, e), S) = IF e \in S THEN Append(Only(s, S), e) ELSE Only(s, S)
<1> DEFINE t == Append(s, e)
           n == Len(s)
<1>1. /\ n \in Nat /\ Len(t) = n + 1 /\ t[n + 1] = e
      /\ \A i \in 1..n : s[i] = t[i]
  OBVIOUS
<1> HIDE DEF t, n
<1>2. PICK f : Steps(f, s, S, n) /\ Only(s, S) = f[n]
  BY <1>1, OnlySteps DEF n
<1>3. PICK g : Steps(g, t, S, n + 1) /\ Only(t, S) = g[n + 1]
  BY <1>1, OnlySteps
<1>4. \A k \in 0..n : f[k] = g[k]
  <2> DEFINE m == n + 1
  <2>1. n \in Nat /\ m \in Nat /\ n <= m
    BY <1>1
  <2>2. \A i \in 1..n : s[i] = t[i]
    BY <1>1
  <2>3. Steps(f, s, S, n)
    BY <1>2
  <2>4. Steps(g, t, S, m)
    BY <1>3
  <2> HIDE DEF m
  <2> QED BY <2>1, <2>2, <2>3, <2>4, StepsAlike
<1>5. g[n + 1] = IF t[n + 1] \in S THEN Append(g[n], t[n + 1]) ELSE g[n]
  BY <1>1, <1>3, Step
<1>6. f[n] = g[n]
  BY <1>1, <1>4
<1> QED BY <1>1, <1>2, <1>3, <1>5, <1>6 DEF t

(* One element more at the beginning. *)
LEMMA OnlyPrepend ==
  ASSUME NEW U, NEW s \in Seq(U), NEW e \in U, NEW S
  PROVE  Only(<<e>> \o s, S) = IF e \in S THEN <<e>> \o Only(s, S) ELSE Only(s, S)
<1> DEFINE t == <<e>> \o s
           n == Len(s)
           head == IF e \in S THEN <<e>> ELSE <<>>
<1>1. /\ n \in Nat /\ Len(t) = n + 1 /\ t[1] = e
      /\ \A i \in 1..n : s[i] = t[i + 1] /\ s[i] \in U
  OBVIOUS
<1> HIDE DEF t, n
<1>2. PICK f : Steps(f, s, S, n) /\ Only(s, S) = f[n]
  BY <1>1, OnlySteps DEF n
<1>3. PICK g : Steps(g, t, S, n + 1) /\ Only(t, S) = g[n + 1]
  BY <1>1, OnlySteps
<1>4. head \in Seq(U)
  OBVIOUS
<1>5. head = IF e \in S THEN <<e>> ELSE <<>>
  OBVIOUS
<1> HIDE DEF head
<1> DEFINE Ahead(k) == f[k] \in Seq(U) /\ g[k + 1] = head \o f[k]
           T == {k \in Nat : k <= n => Ahead(k)}
<1>6. Ahead(0)
  <2>1. f[0] = <<>> /\ g[0] = <<>>
    BY <1>1, <1>2, <1>3 DEF Steps
  <2>2. g[1] = IF t[1] \in S THEN Append(g[0], t[1]) ELSE g[0]
    <3> DEFINE m == n + 1
               z == 0
    <3>1. m \in Nat /\ z \in Nat /\ z + 1 <= m /\ z + 1 = 1
      BY <1>1
    <3>2. Steps(g, t, S, m)
      BY <1>3
    <3> HIDE DEF m, z
    <3>3. g[z + 1] = IF t[z + 1] \in S THEN Append(g[z], t[z + 1]) ELSE g[z]
      BY <3>1, <3>2, Step
    <3> QED BY <3>1, <3>3 DEF z
  <2>3. g[1] = head
    BY <1>1, <1>5, <2>1, <2>2
  <2>4. head \o <<>> = head
    BY <1>4
  <2> QED BY <2>1, <2>3, <2>4
<1>7. ASSUME NEW k \in Nat, Ahead(k), k + 1 <= n PROVE Ahead(k + 1)
  <2> HIDE DEF T
  <2>1. f[k] \in Seq(U) /\ g[k + 1] = head \o f[k]
    BY <1>7
  <2>2. s[k + 1] \in U /\ t[(k + 1) + 1] = s[k + 1]
    BY <1>1, <1>7
  <2>3. f[k + 1] = IF s[k + 1] \in S THEN Append(f[k], s[k + 1]) ELSE f[k]
    BY <1>1, <1>2, <1>7, Step
  <2>4. g[(k + 1) + 1] = IF t[(k + 1) + 1] \in S THEN Append(g[k + 1], t[(k + 1) + 1])
                         ELSE g[k + 1]
    <3> DEFINE m == k + 1
    <3>1. m \in Nat /\ m + 1 <= n + 1 /\ n + 1 \in Nat
      BY <1>1, <1>7
    <3> HIDE DEF m
    <3>2. g[m + 1] = IF t[m + 1] \in S THEN Append(g[m], t[m + 1]) ELSE g[m]
      BY <1>3, <3>1, Step
    <3> QED BY <3>2 DEF m
  <2>5. Append(head \o f[k], s[k + 1]) = head \o Append(f[k], s[k + 1])
    <3>1. <<s[k + 1]>> \in Seq(U)
      BY <2>2
    <3>2. (head \o f[k]) \o <<s[k + 1]>> = head \o (f[k] \o <<s[k + 1]>>)
      <4> DEFINE q == f[k]
                 u == <<s[k + 1]>>
      <4>1. q \in Seq(U) /\ u \in Seq(U)
        BY <2>1, <3>1
      <4> HIDE DEF q, u
      <4>2. (head \o q) \o u = head \o (q \o u)
        BY <1>4, <4>1, ConcatAssociative
      <4> QED BY <4>2 DEF q, u
    <3>3. head \o f[k] \in Seq(U)
      BY <1>4, <2>1
    <3> QED BY <2>1, <2>2, <3>2, <3>3, AppendIsConcat
  <2>6. Append(f[k], s[k + 1]) \in Seq(U)
    BY <2>1, <2>2
  <2>7. f[k + 1] \in Seq(U)
    BY <2>1, <2>3, <2>6
  <2>8. g[(k + 1) + 1] = head \o f[k + 1]
    BY <2>1, <2>2, <2>3, <2>4, <2>5
  <2> QED BY <2>7, <2>8
<1>8. \A k \in Nat : k \in T => k + 1 \in T
  <2> HIDE DEF Ahead
  <2>1. ASSUME NEW k \in Nat, k \in T, k + 1 <= n PROVE Ahead(k + 1)
    <3>1. k <= n
      BY <1>1, <2>1
    <3> QED BY <1>7, <2>1, <3>1
  <2> QED BY <2>1
<1>9. 0 \in T
  BY <1>6
<1> HIDE DEF T
<1>10. Nat \subseteq T
  BY <1>8, <1>9, Induction
<1>11. Ahead(n)
  <2> HIDE DEF Ahead
  <2> QED BY <1>1, <1>10 DEF T
<1>12. <<>> \o f[n] = f[n]
  BY <1>11
<1> QED BY <1>2, <1>3, <1>5, <1>11, <1>12 DEF t
===============================================================================
