---------------------------- MODULE PingProbeProofs ----------------------------
(* Theorems about PingProbe, for every value of its constants. *)
EXTENDS PingProbe, SubsequencesProofs, FiniteSetTheorems, TLAPS

-------------------------------------------------------------------------------
(* Counting and rounding.                                                  *)

LEMMA ConstantTypes ==
  /\ \A n \in Counts : n \in Nat /\ n >= 1 /\ n <= 100
  /\ Rtt \subseteq Nat /\ NoRtt \notin Rtt /\ Other \notin Answers /\ MaxExtra \in Nat
<1>1. Counts \subseteq 1..100 /\ \A n \in 1..100 : n \in Nat /\ n >= 1 /\ n <= 100
  BY ProbeAssumption
<1>2. Rtt \subseteq Nat /\ NoRtt \notin Nat /\ MaxExtra \in Nat
  BY ProbeAssumption
<1>3. Other \notin Nat /\ Other # NoRtt
  BY ProbeAssumption
<1>4. NoRtt \notin Rtt /\ Other \notin Answers
  BY <1>2, <1>3 DEF Answers
<1> QED BY <1>1, <1>2, <1>4

(* The least of a count and a length. *)
Capped(n, len) == IF len <= n THEN len ELSE n

LEMMA Countable ==
  ASSUME NEW n \in Nat, NEW S \in SUBSET (1..n)
  PROVE  /\ IsFiniteSet(S) /\ Cardinality(S) \in Nat /\ Cardinality(S) <= n
         /\ S = {} <=> Cardinality(S) = 0
<1>1. IsFiniteSet(1..n) /\ Cardinality(1..n) = n
  BY FS_Interval
<1>2. IsFiniteSet(S) /\ Cardinality(S) <= Cardinality(1..n)
  BY <1>1, FS_Subset
<1>3. S = {} <=> Cardinality(S) = 0
  BY <1>2, FS_EmptySet
<1> QED BY <1>1, <1>2, <1>3, FS_CardinalityType

(* The replies received, when they are the first of the probes. *)
LEMMA ReceivedFirst ==
  ASSUME NEW n \in Nat, NEW len \in Nat, NEW ps,
         DOMAIN ps = 1..n, \A i \in 1..n : ps[i].success <=> i <= len
  PROVE  Received(ps) = Capped(n, len)
<1>1. {i \in DOMAIN ps : ps[i].success} = 1..Capped(n, len)
  BY DEF Capped
<1>2. Capped(n, len) \in Nat
  BY DEF Capped
<1>3. Cardinality(1..Capped(n, len)) = Capped(n, len)
  BY <1>2, FS_Interval
<1> QED BY <1>1, <1>3 DEF Received

(* A percentage of lost among sent is between none and all, and is none or all *)
(* only where the figures say so.                                            *)
LEMMA Percentage ==
  ASSUME NEW sent, NEW lost, NEW q, sent \in 1..100, lost \in 0..sent,
         q \in LossPct(lost, sent)
  PROVE  /\ q \in 0..1000
         /\ q = 0 <=> lost = 0
         /\ q = 1000 <=> lost = sent
<1> DEFINE n == 1000 * lost
           p == q * sent
<1>1. sent \in Nat /\ lost \in Nat /\ 1 <= sent /\ sent <= 100 /\ lost <= sent /\ n \in Nat
  OBVIOUS
<1>2. q \in Nat /\ 2 * q * sent <= 2 * n + sent /\ 2 * n <= 2 * q * sent + sent
  <2>1. n \div sent \in Nat
    BY <1>1
  <2> QED BY <1>1, <2>1 DEF LossPct, Nearest
<1>3. 2 * q * sent = 2 * p /\ p \in Nat
  BY <1>1, <1>2
<1>4. /\ q = 0 => p = 0
      /\ q >= 1 => p >= sent
      /\ q = 1000 => p = 1000 * sent
      /\ q <= 999 => p <= 999 * sent
      /\ q >= 1001 => p >= 1001 * sent
  BY <1>1, <1>2
<1> HIDE DEF p
<1> QED BY <1>1, <1>2, <1>3, <1>4

-------------------------------------------------------------------------------
(* Sums, and the least and the greatest of a set of numbers.               *)

LEMMA Product ==
  ASSUME NEW a \in Nat, NEW b \in Nat
  PROVE  a * b \in Nat /\ (a + 1) * b = a * b + b
OBVIOUS

(* The sums of f over the subsets of S that are no larger than n. *)
Upto(S, n) == {s \in SUBSET S : Cardinality(s) <= n}

Adds(f, g, D) ==
  g = [s \in D |-> IF s = {} THEN 0
                   ELSE LET x == CHOOSE x \in s : TRUE IN f[x] + g[s \ {x}]]

LEMMA Smaller ==
  ASSUME NEW S, IsFiniteSet(S), NEW s \in SUBSET S, s # {}
  PROVE  LET x == CHOOSE x \in s : TRUE
         IN  /\ x \in s /\ s \ {x} \in SUBSET S
             /\ Cardinality(s) \in Nat /\ Cardinality(s \ {x}) \in Nat
             /\ Cardinality(s) = Cardinality(s \ {x}) + 1
<1> DEFINE x == CHOOSE x \in s : TRUE
<1>1. x \in s
  OBVIOUS
<1> HIDE DEF x
<1>2. IsFiniteSet(s)
  BY FS_Subset
<1>3. /\ Cardinality(s \ {x}) = Cardinality(s) - 1 /\ IsFiniteSet(s \ {x})
  BY <1>1, <1>2, FS_RemoveElement
<1>4. Cardinality(s) \in Nat /\ Cardinality(s \ {x}) \in Nat
  BY <1>2, <1>3, FS_CardinalityType
<1> QED BY <1>1, <1>3, <1>4 DEF x

LEMMA NoneLeft ==
  ASSUME NEW S, IsFiniteSet(S), NEW s \in SUBSET S, Cardinality(s) <= 0
  PROVE  s = {}
<1>1. IsFiniteSet(s) /\ Cardinality(s) \in Nat
  BY FS_Subset, FS_CardinalityType
<1>2. Cardinality(s) = 0
  BY <1>1
<1> QED BY <1>1, <1>2, FS_EmptySet

LEMMA AddsExist ==
  ASSUME NEW S, IsFiniteSet(S), NEW f
  PROVE  \E g : Adds(f, g, SUBSET S)
<1> DEFINE T == {n \in Nat : \E g : Adds(f, g, Upto(S, n))}
<1>1. 0 \in T
  <2>1. \A s \in Upto(S, 0) : s = {}
    <3> SUFFICES ASSUME NEW s \in Upto(S, 0) PROVE s = {}
      OBVIOUS
    <3>1. s \in SUBSET S /\ Cardinality(s) <= 0
      BY DEF Upto
    <3> QED BY <3>1, NoneLeft
  <2>2. Adds(f, [s \in Upto(S, 0) |-> 0], Upto(S, 0))
    BY <2>1 DEF Adds
  <2> QED BY <2>2
<1>2. ASSUME NEW n \in Nat, n \in T PROVE n + 1 \in T
  <2>1. PICK g : Adds(f, g, Upto(S, n))
    BY <1>2
  <2> DEFINE h == [s \in Upto(S, n + 1) |->
                     IF s = {} THEN 0
                     ELSE LET x == CHOOSE x \in s : TRUE IN f[x] + g[s \ {x}]]
  <2>2. ASSUME NEW s \in Upto(S, n + 1), s # {}
        PROVE  LET x == CHOOSE x \in s : TRUE IN g[s \ {x}] = h[s \ {x}]
    <3> DEFINE x == CHOOSE x \in s : TRUE
               t == s \ {x}
    <3>1. s \in SUBSET S /\ Cardinality(s) <= n + 1
      BY DEF Upto
    <3>2. /\ t \in SUBSET S /\ Cardinality(s) \in Nat /\ Cardinality(t) \in Nat
          /\ Cardinality(s) = Cardinality(t) + 1
      BY <2>2, <3>1, Smaller
    <3> HIDE DEF t
    <3>3. t \in Upto(S, n) /\ t \in Upto(S, n + 1)
      BY <3>1, <3>2 DEF Upto
    <3>4. g[t] = IF t = {} THEN 0 ELSE LET y == CHOOSE y \in t : TRUE IN f[y] + g[t \ {y}]
      BY <2>1, <3>3 DEF Adds
    <3>5. h[t] = IF t = {} THEN 0 ELSE LET y == CHOOSE y \in t : TRUE IN f[y] + g[t \ {y}]
      BY <3>3
    <3> QED BY <3>4, <3>5 DEF t
  <2>3. h = [s \in Upto(S, n + 1) |->
               IF s = {} THEN 0
               ELSE LET x == CHOOSE x \in s : TRUE IN f[x] + h[s \ {x}]]
    <3>1. \A s \in Upto(S, n + 1) :
            h[s] = IF s = {} THEN 0
                   ELSE LET x == CHOOSE x \in s : TRUE IN f[x] + h[s \ {x}]
      <4> SUFFICES ASSUME NEW s \in Upto(S, n + 1)
                   PROVE  h[s] = IF s = {} THEN 0
                                 ELSE LET x == CHOOSE x \in s : TRUE IN f[x] + h[s \ {x}]
        OBVIOUS
      <4>1. h[s] = IF s = {} THEN 0
                   ELSE LET x == CHOOSE x \in s : TRUE IN f[x] + g[s \ {x}]
        OBVIOUS
      <4> HIDE DEF h
      <4>2. CASE s = {}
        BY <4>1, <4>2
      <4>3. CASE s # {}
        BY <2>2, <4>1, <4>3
      <4> QED BY <4>2, <4>3
    <3>2. h = [s \in Upto(S, n + 1) |-> h[s]]
      OBVIOUS
    <3> HIDE DEF h
    <3> QED BY <3>1, <3>2
  <2>4. Adds(f, h, Upto(S, n + 1))
    <3> HIDE DEF h
    <3> QED BY <2>3 DEF Adds
  <2> QED BY <2>4
<1> HIDE DEF T
<1>3. Nat \subseteq T
  BY <1>1, <1>2, Induction
<1>4. Cardinality(S) \in T
  BY <1>3, FS_CardinalityType
<1>5. Upto(S, Cardinality(S)) = SUBSET S
  BY FS_Subset DEF Upto
<1> QED BY <1>4, <1>5 DEF T

(* A sum lies between as many times the least and the greatest. *)
LEMMA SumBetween ==
  ASSUME NEW S, IsFiniteSet(S), NEW f \in [S -> Nat], NEW lo \in Nat, NEW hi \in Nat,
         \A x \in S : lo <= f[x] /\ f[x] <= hi
  PROVE  /\ SumFunction(f) \in Nat
         /\ Cardinality(S) * lo <= SumFunction(f) /\ SumFunction(f) <= Cardinality(S) * hi
<1> DEFINE g == CHOOSE g : Adds(f, g, SUBSET S)
<1>1. Adds(f, g, SUBSET S)
  BY AddsExist
<1>2. SumFunction(f) = g[S]
  <2>1. DOMAIN f = S
    OBVIOUS
  <2> QED BY <2>1 DEF SumFunction, SumFunctionOnSet, FoldFunctionOnSet, MapThenFoldSet, Adds
<1> HIDE DEF g
<1> DEFINE Between(s) == /\ g[s] \in Nat
                         /\ Cardinality(s) * lo <= g[s] /\ g[s] <= Cardinality(s) * hi
           T == {n \in Nat : \A s \in SUBSET S : Cardinality(s) = n => Between(s)}
<1>3. 0 \in T
  <2> SUFFICES ASSUME NEW s \in SUBSET S, Cardinality(s) = 0 PROVE Between(s)
    OBVIOUS
  <2>1. s = {}
    BY NoneLeft
  <2>2. g[s] = 0
    BY <1>1, <2>1 DEF Adds
  <2> QED BY <2>2
<1>4. ASSUME NEW n \in Nat, n \in T PROVE n + 1 \in T
  <2> SUFFICES ASSUME NEW s \in SUBSET S, Cardinality(s) = n + 1 PROVE Between(s)
    OBVIOUS
  <2> DEFINE x == CHOOSE x \in s : TRUE
             t == s \ {x}
  <2>1. s # {}
    BY FS_EmptySet
  <2>2. /\ x \in s /\ t \in SUBSET S /\ Cardinality(t) \in Nat
        /\ Cardinality(s) = Cardinality(t) + 1
    BY <2>1, Smaller
  <2>3. g[s] = f[x] + g[t]
    BY <1>1, <2>1 DEF Adds
  <2> HIDE DEF x, t
  <2>4. Cardinality(t) = n
    BY <2>2
  <2>5. Between(t)
    BY <1>4, <2>2, <2>4
  <2>6. f[x] \in Nat /\ lo <= f[x] /\ f[x] <= hi
    BY <2>2
  <2>7. /\ (n + 1) * lo = n * lo + lo /\ (n + 1) * hi = n * hi + hi
        /\ n * lo \in Nat /\ n * hi \in Nat
    BY Product
  <2>8. g[t] \in Nat /\ n * lo <= g[t] /\ g[t] <= n * hi
    BY <2>4, <2>5
  <2>9. g[s] \in Nat /\ (n + 1) * lo <= g[s] /\ g[s] <= (n + 1) * hi
    <3> DEFINE a == n * lo
               b == n * hi
               c == (n + 1) * lo
               d == (n + 1) * hi
    <3>1. c = a + lo /\ d = b + hi /\ a \in Nat /\ b \in Nat /\ a <= g[t] /\ g[t] <= b
      BY <2>7, <2>8
    <3> HIDE DEF a, b, c, d
    <3>2. g[s] \in Nat /\ c <= g[s] /\ g[s] <= d
      BY <2>3, <2>6, <2>8, <3>1
    <3> QED BY <3>2 DEF c, d
  <2> QED BY <2>9
<1> HIDE DEF T
<1>5. Nat \subseteq T
  BY <1>3, <1>4, Induction
<1>6. Between(S)
  <2>1. Cardinality(S) \in T
    BY <1>5, FS_CardinalityType
  <2> QED BY <2>1 DEF T
<1> QED BY <1>2, <1>6

LEMMA LeastExists ==
  ASSUME NEW S \in SUBSET Nat, S # {}
  PROVE  \E t \in S : \A u \in S : t <= u
<1> DEFINE T == {n \in Nat : \A u \in S : n <= u}
<1> SUFFICES ASSUME \A t \in S : \E u \in S : ~(t <= u) PROVE FALSE
  OBVIOUS
<1>1. 0 \in T
  OBVIOUS
<1>2. ASSUME NEW n \in Nat, n \in T PROVE n + 1 \in T
  <2>1. n \notin S
    BY <1>2
  <2>2. \A u \in S : n <= u /\ u # n /\ u \in Nat
    BY <1>2, <2>1
  <2> QED BY <2>2
<1>3. Nat \subseteq T
  <2> HIDE DEF T
  <2> QED BY <1>1, <1>2, Induction
<1>4. PICK u \in S : TRUE
  OBVIOUS
<1>5. u + 1 \in T /\ u \in Nat
  BY <1>3
<1> QED BY <1>4, <1>5

LEMMA GreatestExists ==
  ASSUME NEW S \in SUBSET Nat, S # {}, IsFiniteSet(S)
  PROVE  \E t \in S : \A u \in S : t >= u
<1> DEFINE T == {n \in Nat : \A s \in SUBSET S : Cardinality(s) = n /\ s # {} =>
                                \E t \in s : \A u \in s : t >= u}
<1>1. 0 \in T
  <2>1. \A s \in SUBSET S : Cardinality(s) = 0 => s = {}
    BY FS_Subset, FS_EmptySet
  <2> QED BY <2>1
<1>2. ASSUME NEW n \in Nat, n \in T PROVE n + 1 \in T
  <2> SUFFICES ASSUME NEW s \in SUBSET S, Cardinality(s) = n + 1, s # {}
               PROVE  \E t \in s : \A u \in s : t >= u
    OBVIOUS
  <2> DEFINE x == CHOOSE x \in s : TRUE
             r == s \ {x}
  <2>1. /\ x \in s /\ r \in SUBSET S /\ Cardinality(r) \in Nat
        /\ Cardinality(s) = Cardinality(r) + 1
    BY Smaller
  <2>2. s = r \cup {x} /\ r \subseteq s /\ x \in Nat /\ \A u \in r : u \in Nat
    BY <2>1
  <2> HIDE DEF x, r
  <2>3. CASE r = {}
    BY <2>1, <2>2, <2>3
  <2>4. CASE r # {}
    <3>1. Cardinality(r) = n
      BY <2>1
    <3>2. PICK t \in r : \A u \in r : t >= u
      BY <1>2, <2>1, <2>4, <3>1
    <3>3. t \in Nat /\ t \in s
      BY <2>2
    <3>4. CASE t >= x
      BY <2>2, <3>2, <3>3, <3>4
    <3>5. CASE ~(t >= x)
      <4>1. \A u \in r : x >= u
        BY <2>2, <3>2, <3>3, <3>5
      <4> QED BY <2>1, <2>2, <4>1
    <3> QED BY <3>4, <3>5
  <2> QED BY <2>3, <2>4
<1> HIDE DEF T
<1>3. Nat \subseteq T
  BY <1>1, <1>2, Induction
<1>4. Cardinality(S) \in T
  BY <1>3, FS_CardinalityType
<1> QED BY <1>4 DEF T

(* What is nearest to an average lies where the average lies. *)
LEMMA NearestBetween ==
  ASSUME NEW k \in Nat, k >= 1, NEW sum \in Nat, NEW lo \in Nat, NEW hi \in Nat,
         k * lo <= sum, sum <= k * hi, NEW q, q \in Nearest(sum, k)
  PROVE  q \in Nat /\ lo <= q /\ q <= hi
<1>1. q \in Nat /\ 2 * q * k <= 2 * sum + k /\ 2 * sum <= 2 * q * k + k
  <2>1. sum \div k \in Nat
    OBVIOUS
  <2> QED BY <2>1 DEF Nearest
<1> DEFINE p == q * k
           a == k * lo
           b == k * hi
<1>2. 2 * q * k = 2 * p /\ p \in Nat /\ a \in Nat /\ b \in Nat
  BY <1>1
<1>3. q + 1 <= lo => p + k <= a
  <2> SUFFICES ASSUME q + 1 <= lo PROVE p + k <= a
    OBVIOUS
  <2>1. (q + 1) * k = p + k /\ (q + 1) * k <= lo * k /\ lo * k = a
    BY <1>1
  <2> QED BY <2>1
<1>4. hi + 1 <= q => b + k <= p
  <2> SUFFICES ASSUME hi + 1 <= q PROVE b + k <= p
    OBVIOUS
  <2>1. (hi + 1) * k = b + k /\ (hi + 1) * k <= q * k
    BY <1>1
  <2> QED BY <2>1
<1>5. a <= sum /\ sum <= b /\ 2 * p <= 2 * sum + k /\ 2 * sum <= 2 * p + k
  BY <1>1, <1>2
<1> HIDE DEF p, a, b
<1> QED BY <1>1, <1>2, <1>3, <1>4, <1>5

-------------------------------------------------------------------------------
(* The invariant.                                                          *)

(* The lines printed, as far as they are replies. *)
Counted ==
  /\ ReplyLines \in Seq(Answers)
  /\ Len(ReplyLines) >= Cardinality(answered)
  /\ ~repeated => Len(ReplyLines) = Cardinality(answered)
  /\ answered = {} => Len(ReplyLines) = 0

Reachable(r) == r.success \in BOOLEAN /\ (r.success <=> r.received > 0)

(* What was made of them. *)
Derived ==
  /\ outcome = "exited" => probes = Parsed
  /\ outcome = "failed" => probes = AllFailed
  /\ \A r \in response :
       /\ outcome # "running"
       /\ r.sent = count /\ r.received = Received(probes) /\ r.lost = count - r.received
       /\ r.loss_pct \in LossPct(r.lost, r.sent) /\ Reachable(r)
       /\ r.rtt \in RttFigures(probes)

Types ==
  /\ count \in Counts /\ answered \subseteq 1..count
  /\ extra \in 0..MaxExtra /\ repeated \in BOOLEAN
  /\ lines \in Seq(Answers \cup {Other})
  /\ outcome \in {"running", "exited", "failed"}

ProbeInv == Types /\ Counted /\ Derived

LEMMA TypesFacts ==
  ASSUME Types
  PROVE  /\ count \in Nat /\ count \in 1..100
         /\ IsFiniteSet(answered) /\ Cardinality(answered) \in Nat
         /\ Cardinality(answered) <= count
         /\ answered = {} <=> Cardinality(answered) = 0
<1>1. count \in Nat /\ count \in 1..100 /\ answered \in SUBSET (1..count)
  <2>1. count \in Counts /\ answered \in SUBSET (1..count)
    BY DEF Types
  <2>2. count \in 1..100
    BY <2>1, ProbeAssumption
  <2> QED BY <2>1, <2>2
<1> QED BY <1>1, Countable

(* A line more. *)
LEMMA PrintsReply ==
  ASSUME Types, Counted, NEW r \in Answers, Prints(r)
  PROVE  /\ lines' \in Seq(Answers \cup {Other})
         /\ ReplyLines' \in Seq(Answers) /\ Len(ReplyLines') = Len(ReplyLines) + 1
<1>1. lines' = Append(lines, r) /\ lines \in Seq(Answers \cup {Other})
  BY DEF Prints, Types
<1>2. ReplyLines' = Append(ReplyLines, r)
  BY <1>1, OnlyAppend DEF ReplyLines
<1> QED BY <1>1, <1>2 DEF Counted

LEMMA PrintsOther ==
  ASSUME Types, Prints(Other)
  PROVE  lines' \in Seq(Answers \cup {Other}) /\ ReplyLines' = ReplyLines
<1>1. lines' = Append(lines, Other) /\ lines \in Seq(Answers \cup {Other})
  BY DEF Prints, Types
<1>2. ReplyLines' = ReplyLines
  BY <1>1, OnlyAppend, ConstantTypes DEF ReplyLines
<1> QED BY <1>1, <1>2

LEMMA RunningDerived ==
  ASSUME Derived, outcome = "running", outcome' = "running", UNCHANGED response
  PROVE  Derived'
BY DEF Derived

(* What the probes say, whichever way the command ended. *)
LEMMA ProbesTypes ==
  ASSUME Types, Counted, Derived, outcome # "running"
  PROVE  /\ probes \in [1..count -> [success : BOOLEAN, rtt : Answers]]
         /\ Received(probes) = IF outcome = "exited" THEN Capped(count, Len(ReplyLines)) ELSE 0
         /\ Received(probes) \in 0..count
<1>1. count \in Nat /\ Len(ReplyLines) \in Nat
  BY TypesFacts DEF Counted
<1>2. CASE outcome = "exited"
  <2>1. probes = Parsed
    BY <1>2 DEF Derived
  <2>2. \A i \in 1..count : i <= Len(ReplyLines) => ReplyLines[i] \in Answers
    BY <1>1 DEF Counted
  <2>3. probes \in [1..count -> [success : BOOLEAN, rtt : Answers]]
    BY <2>1, <2>2 DEF Parsed, Success, Failure, Answers
  <2>4. DOMAIN probes = 1..count /\ \A i \in 1..count : probes[i].success <=> i <= Len(ReplyLines)
    BY <1>1, <2>1 DEF Parsed, Success, Failure
  <2>5. Received(probes) = Capped(count, Len(ReplyLines))
    BY <1>1, <2>4, ReceivedFirst
  <2> QED BY <1>1, <1>2, <2>3, <2>5 DEF Capped
<1>3. CASE outcome = "failed"
  <2>1. probes = AllFailed
    BY <1>3 DEF Derived
  <2>2. probes \in [1..count -> [success : BOOLEAN, rtt : Answers]]
    BY <2>1 DEF AllFailed, Failure, Answers
  <2>3. DOMAIN probes = 1..count /\ \A i \in 1..count : probes[i].success <=> i <= 0
    BY <1>1, <2>1 DEF AllFailed, Failure
  <2>4. Received(probes) = Capped(count, 0)
    BY <1>1, <2>3, ReceivedFirst
  <2> QED BY <1>1, <1>3, <2>2, <2>4 DEF Capped
<1> QED BY <1>2, <1>3 DEF Types

LEMMA InitInv == Init => ProbeInv
<1> SUFFICES ASSUME Init PROVE ProbeInv
  OBVIOUS
<1>1. Types
  <2>1. 0 \in 0..MaxExtra
    BY ConstantTypes
  <2>2. <<>> \in Seq(Answers \cup {Other})
    OBVIOUS
  <2>3. answered \subseteq 1..count
    BY DEF Init
  <2> QED BY <2>1, <2>2, <2>3 DEF Init, Types
<1>2. ReplyLines = <<>>
  BY OnlyEmpty DEF Init, ReplyLines
<1>3. Counted
  BY <1>2, FS_EmptySet DEF Init, Counted
<1>4. Derived
  BY DEF Init, Derived
<1> QED BY <1>1, <1>3, <1>4 DEF ProbeInv

LEMMA RepliesInv == ASSUME ProbeInv, Replies PROVE ProbeInv'
<1> USE DEF ProbeInv
<1>1. PICK i \in (1..count) \ answered : answered' = answered \cup {i}
  BY DEF Replies
<1>2. PICK r \in Answers : Prints(r)
  BY DEF Replies
<1>3. UNCHANGED <<count, extra, repeated, outcome, probes, response>> /\ outcome = "running"
  BY <1>2 DEF Replies, Prints
<1>4. /\ lines' \in Seq(Answers \cup {Other})
      /\ ReplyLines' \in Seq(Answers) /\ Len(ReplyLines') = Len(ReplyLines) + 1
  BY <1>2, PrintsReply
<1>5. Types'
  BY <1>1, <1>3, <1>4 DEF Types
<1>6. Cardinality(answered') = Cardinality(answered) + 1 /\ Cardinality(answered) \in Nat
  BY <1>1, TypesFacts, FS_AddElement
<1>7. Len(ReplyLines) \in Nat
  BY DEF Counted
<1>8. Counted'
  BY <1>1, <1>3, <1>4, <1>6, <1>7 DEF Counted
<1> QED BY <1>3, <1>5, <1>8, RunningDerived

LEMMA DuplicatesInv == ASSUME ProbeInv, Duplicates PROVE ProbeInv'
<1> USE DEF ProbeInv
<1>1. PICK r \in Answers : Prints(r)
  BY DEF Duplicates
<1>2. /\ UNCHANGED <<count, answered, outcome, probes, response>> /\ outcome = "running"
      /\ answered # {} /\ repeated' = TRUE /\ extra < MaxExtra /\ extra' = extra + 1
  BY <1>1 DEF Duplicates, Prints
<1>3. /\ lines' \in Seq(Answers \cup {Other})
      /\ ReplyLines' \in Seq(Answers) /\ Len(ReplyLines') = Len(ReplyLines) + 1
  BY <1>1, PrintsReply
<1>4. Types'
  BY <1>2, <1>3, ConstantTypes DEF Types
<1>5. Cardinality(answered) \in Nat /\ Len(ReplyLines) \in Nat
  BY TypesFacts DEF Counted
<1>6. Counted'
  BY <1>2, <1>3, <1>5 DEF Counted
<1> QED BY <1>2, <1>4, <1>6, RunningDerived

LEMMA ChattersInv == ASSUME ProbeInv, Chatters PROVE ProbeInv'
<1> USE DEF ProbeInv
<1>1. /\ UNCHANGED <<count, answered, repeated, outcome, probes, response>>
      /\ outcome = "running" /\ Prints(Other) /\ extra < MaxExtra /\ extra' = extra + 1
  BY DEF Chatters, Prints
<1>2. lines' \in Seq(Answers \cup {Other}) /\ ReplyLines' = ReplyLines
  BY <1>1, PrintsOther
<1>3. Types'
  BY <1>1, <1>2, ConstantTypes DEF Types
<1>4. Counted'
  BY <1>1, <1>2 DEF Counted
<1> QED BY <1>1, <1>3, <1>4, RunningDerived

LEMMA EndsInv == ASSUME ProbeInv, Exits \/ Fails PROVE ProbeInv'
<1> USE DEF ProbeInv
<1>1. /\ UNCHANGED <<command, response>> /\ outcome = "running" /\ response = {}
      /\ \/ outcome' = "exited" /\ probes' = Parsed
         \/ outcome' = "failed" /\ probes' = AllFailed
  BY DEF Exits, Fails, Derived
<1>2. ReplyLines' = ReplyLines /\ Parsed' = Parsed /\ AllFailed' = AllFailed
  BY <1>1 DEF command, ReplyLines, Parsed, AllFailed
<1>3. Types' /\ Counted'
  BY <1>1, <1>2 DEF command, Types, Counted
<1>4. Derived'
  BY <1>1, <1>2 DEF Derived
<1> QED BY <1>3, <1>4

LEMMA RespondsInv == ASSUME ProbeInv, Responds PROVE ProbeInv'
<1> USE DEF ProbeInv
<1>1. UNCHANGED <<command, outcome, probes>> /\ outcome # "running"
  BY DEF Responds
<1>2. Len(probes) = count
  BY <1>1, ProbesTypes, TypesFacts
<1>3. \A r \in response' :
        /\ r.sent = count /\ r.received = Received(probes) /\ r.lost = count - r.received
        /\ r.loss_pct \in LossPct(r.lost, r.sent) /\ Reachable(r)
        /\ r.rtt \in RttFigures(probes)
  <2> HIDE DEF ProbeInv
  <2>1. PICK pct \in LossPct(Len(probes) - Received(probes), Len(probes)),
             rtt \in RttFigures(probes) :
          response' = {[sent |-> Len(probes), received |-> Received(probes),
                        lost |-> Len(probes) - Received(probes), loss_pct |-> pct, rtt |-> rtt,
                        success |-> Received(probes) > 0]}
    BY DEF Responds
  <2> DEFINE x == Received(probes)
             some == x > 0
  <2>2. some \in BOOLEAN /\ (some <=> x > 0)
    OBVIOUS
  <2> HIDE DEF x, some
  <2>3. response' = {[sent |-> Len(probes), received |-> x, lost |-> Len(probes) - x,
                      loss_pct |-> pct, rtt |-> rtt, success |-> some]}
    BY <2>1 DEF x, some
  <2>4. pct \in LossPct(Len(probes) - x, Len(probes))
    BY DEF x
  <2> SUFFICES ASSUME NEW r \in response'
               PROVE  /\ r.sent = count /\ r.received = x /\ r.lost = count - r.received
                      /\ r.loss_pct \in LossPct(r.lost, r.sent) /\ Reachable(r)
                      /\ r.rtt \in RttFigures(probes)
    BY DEF x
  <2>5. r = [sent |-> Len(probes), received |-> x, lost |-> Len(probes) - x,
             loss_pct |-> pct, rtt |-> rtt, success |-> some]
    BY <2>3
  <2>6. /\ r.sent = count /\ r.received = x /\ r.lost = count - x /\ r.loss_pct = pct
        /\ r.success = some /\ r.rtt = rtt
    BY <1>2, <2>5
  <2>7. Reachable(r)
    BY <2>2, <2>6 DEF Reachable
  <2> QED BY <1>2, <2>4, <2>6, <2>7
<1>4. /\ ReplyLines' = ReplyLines /\ Parsed' = Parsed /\ AllFailed' = AllFailed
      /\ Received(probes)' = Received(probes) /\ RttFigures(probes)' = RttFigures(probes)
  BY <1>1 DEF command, ReplyLines, Parsed, AllFailed
<1>5. Types' /\ Counted'
  BY <1>1, <1>4 DEF command, Types, Counted
<1>6. Derived'
  BY <1>1, <1>3, <1>4 DEF command, Derived
<1> QED BY <1>5, <1>6

LEMMA Invariance == Spec => []ProbeInv
<1>1. ProbeInv /\ [Next]_vars => ProbeInv'
  <2> SUFFICES ASSUME ProbeInv, [Next]_vars PROVE ProbeInv'
    OBVIOUS
  <2>1. CASE UNCHANGED vars
    <3>1. /\ ReplyLines' = ReplyLines /\ Parsed' = Parsed /\ AllFailed' = AllFailed
          /\ Received(probes)' = Received(probes) /\ RttFigures(probes)' = RttFigures(probes)
      BY <2>1 DEF vars, command, ReplyLines, Parsed, AllFailed
    <3>2. Types' /\ Counted'
      BY <2>1, <3>1 DEF vars, command, ProbeInv, Types, Counted
    <3>3. Derived'
      BY <2>1, <3>1 DEF vars, command, ProbeInv, Derived
    <3> QED BY <3>2, <3>3 DEF ProbeInv
  <2> QED BY <2>1, RepliesInv, DuplicatesInv, ChattersInv, EndsInv, RespondsInv DEF Next
<1> QED BY <1>1, InitInv, PTL DEF Spec

-------------------------------------------------------------------------------
(* Theorems.                                                               *)

(* The figures of a response. *)
LEMMA Figures ==
  ASSUME ProbeInv, NEW r \in response
  PROVE  /\ outcome # "running"
         /\ r.sent = count /\ r.received = Received(probes) /\ r.lost = count - r.received
         /\ r.received \in 0..count /\ r.lost \in 0..count /\ count \in 1..100
         /\ r.loss_pct \in LossPct(r.lost, count) /\ Reachable(r)
BY ProbesTypes, TypesFacts DEF ProbeInv, Derived

(* The command's output, the probes and the figures have their types, for any   *)
(* count a request may hold: a probe for each packet, and a percentage.        *)
THEOREM TypeCorrect == Spec => []TypeOK
<1>1. ProbeInv => TypeOK
  <2> SUFFICES ASSUME ProbeInv PROVE TypeOK
    OBVIOUS
  <2>1. ASSUME NEW r \in response
        PROVE  /\ r.sent = count /\ r.received \in 0..count /\ r.lost \in 0..count
               /\ r.loss_pct \in 0..1000 /\ r.success \in BOOLEAN
    <3>1. /\ r.sent = count /\ r.received \in 0..count /\ r.lost \in 0..count
          /\ count \in 1..100 /\ r.loss_pct \in LossPct(r.lost, count) /\ Reachable(r)
      BY Figures
    <3>2. r.loss_pct \in 0..1000
      <4> DEFINE l == r.lost
                 q == r.loss_pct
      <4>1. count \in 1..100 /\ l \in 0..count /\ q \in LossPct(l, count)
        BY <3>1
      <4> HIDE DEF l, q
      <4>2. q \in 0..1000
        BY <4>1, Percentage
      <4> QED BY <4>2 DEF q
    <3> QED BY <3>1, <3>2 DEF Reachable
  <2>2. Types
    BY DEF ProbeInv
  <2> QED BY <2>1, <2>2, ProbesTypes DEF TypeOK, Types, ProbeInv
<1> QED BY <1>1, Invariance, PTL

(* A target that was silent is never reported reachable, nor a packet that was  *)
(* answered reported lost unless the command was killed or a duplicate counted  *)
(* in another's place.                                                        *)
THEOREM ReceivedTrueSafe == Spec => []ReceivedTrue
<1>1. ProbeInv => ReceivedTrue
  <2> SUFFICES ASSUME ProbeInv, NEW r \in response
               PROVE  /\ r.success => answered # {}
                      /\ IF outcome = "exited"
                         THEN /\ r.received >= Cardinality(answered)
                              /\ ~repeated => r.received = Cardinality(answered)
                         ELSE r.received = 0
    BY DEF ReceivedTrue
  <2>1. /\ r.received = IF outcome = "exited" THEN Capped(count, Len(ReplyLines)) ELSE 0
        /\ r.success <=> r.received > 0
    BY Figures, ProbesTypes DEF ProbeInv, Reachable
  <2>2. /\ count \in Nat /\ Cardinality(answered) \in Nat /\ Cardinality(answered) <= count
        /\ Len(ReplyLines) \in Nat
    BY TypesFacts DEF ProbeInv, Counted
  <2>3. /\ Len(ReplyLines) >= Cardinality(answered)
        /\ ~repeated => Len(ReplyLines) = Cardinality(answered)
        /\ answered = {} => Len(ReplyLines) = 0
    BY DEF ProbeInv, Counted
  <2>4. r.received > 0 => answered # {}
    BY <2>1, <2>2, <2>3 DEF Capped
  <2>5. CASE outcome = "exited"
    <3>1. /\ r.received >= Cardinality(answered)
          /\ ~repeated => r.received = Cardinality(answered)
      BY <2>1, <2>2, <2>3, <2>5 DEF Capped
    <3> QED BY <2>1, <2>4, <2>5, <3>1
  <2>6. CASE outcome # "exited"
    BY <2>1, <2>4, <2>6
  <2> QED BY <2>5, <2>6
<1> QED BY <1>1, Invariance, PTL

(* For any number of packets a request may ask for, rounding makes neither a    *)
(* loss nor an answer disappear: 0.0 % is none lost and 100.0 % none answered.  *)
THEOREM PercentHonestSafe == Spec => []PercentHonest
<1>1. ProbeInv => PercentHonest
  <2> SUFFICES ASSUME ProbeInv, NEW r \in response
               PROVE  /\ r.loss_pct = 0 <=> r.lost = 0
                      /\ r.loss_pct = 1000 <=> ~r.success
    BY DEF PercentHonest
  <2>1. /\ r.loss_pct = 0 <=> r.lost = 0
        /\ r.loss_pct = 1000 <=> r.lost = count
    <3>1. /\ r.lost \in 0..count /\ count \in 1..100
          /\ r.loss_pct \in LossPct(r.lost, count)
      BY Figures
    <3> DEFINE l == r.lost
               q == r.loss_pct
    <3>2. count \in 1..100 /\ l \in 0..count /\ q \in LossPct(l, count)
      BY <3>1
    <3> HIDE DEF l, q
    <3>3. (q = 0 <=> l = 0) /\ (q = 1000 <=> l = count)
      BY <3>2, Percentage
    <3> QED BY <3>3 DEF l, q
  <2>2. r.success <=> r.lost # count
    <3>1. r.received > 0 <=> r.lost # count
      BY Figures
    <3>2. Reachable(r)
      BY Figures
    <3> QED BY <3>1, <3>2 DEF Reachable
  <2> QED BY <2>1, <2>2
<1> QED BY <1>1, Invariance, PTL

(* The times that are reported are times of lines. *)
LEMMA TimesPrinted ==
  ASSUME ProbeInv, outcome # "running", NEW i \in Timed(probes)
  PROVE  /\ i \in 1..count
         /\ probes[i].rtt \in Nat /\ probes[i].rtt \in {lines[j] : j \in DOMAIN lines}
<1> USE DEF ProbeInv
<1>1. /\ probes \in [1..count -> [success : BOOLEAN, rtt : Answers]]
      /\ i \in 1..count /\ probes[i].success /\ probes[i].rtt # NoRtt
  BY ProbesTypes DEF Timed
<1>2. probes[i].rtt \in Nat
  BY <1>1, ConstantTypes DEF Answers
<1>3. count \in Nat /\ Len(ReplyLines) \in Nat /\ lines \in Seq(Answers \cup {Other})
  BY TypesFacts DEF Counted, Types
<1>4. CASE outcome = "exited"
  <2>1. probes = Parsed
    BY <1>4 DEF Derived
  <2>2. i \in 1..Len(ReplyLines) /\ probes[i].rtt = ReplyLines[i]
    BY <1>1, <1>3, <2>1 DEF Parsed, Success, Failure
  <2>3. \E j \in 1..Len(lines) : ReplyLines[i] = lines[j]
    BY <1>3, <2>2, OnlyFacts DEF ReplyLines
  <2> QED BY <1>1, <1>2, <1>3, <2>2, <2>3
<1>5. CASE outcome = "failed"
  BY <1>1, <1>5 DEF Derived, AllFailed, Failure
<1> QED BY <1>4, <1>5 DEF Types

(* The average reported lies between the least and the greatest time, whatever   *)
(* the number of probes, and these are times that the command printed.          *)
THEOREM RttOrderedSafe == Spec => []RttOrdered
<1>1. ProbeInv => RttOrdered
  <2> SUFFICES ASSUME ProbeInv, NEW r \in response
               PROVE  \/ r.rtt.min = NoRtt /\ r.rtt.avg = NoRtt /\ r.rtt.max = NoRtt
                      \/ /\ r.rtt.min <= r.rtt.avg /\ r.rtt.avg <= r.rtt.max
                         /\ {r.rtt.min, r.rtt.max} \subseteq {lines[j] : j \in DOMAIN lines}
    BY DEF RttOrdered
  <2>1. outcome # "running" /\ r.rtt \in RttFigures(probes)
    BY DEF ProbeInv, Derived
  <2>2. CASE Timed(probes) = {}
    BY <2>1, <2>2 DEF RttFigures
  <2>3. CASE Timed(probes) # {}
    <3> DEFINE S == Timed(probes)
               f == [i \in S |-> probes[i].rtt]
               times == {probes[i].rtt : i \in S}
               lo == CHOOSE t \in times : \A u \in times : t <= u
               hi == CHOOSE t \in times : \A u \in times : t >= u
    <3>1. PICK a \in Means(probes) : r.rtt = [min |-> lo, avg |-> a, max |-> hi]
      BY <2>1, <2>3 DEF RttFigures
    <3>2. a \in Nearest(SumFunction(f), Cardinality(S))
      BY DEF Means
    <3>3. \A i \in S : /\ i \in 1..count
                       /\ probes[i].rtt \in Nat /\ probes[i].rtt \in {lines[j] : j \in DOMAIN lines}
      BY <2>1, TimesPrinted
    <3>4. IsFiniteSet(S) /\ Cardinality(S) \in Nat /\ Cardinality(S) >= 1
      <4>1. count \in Nat /\ S \in SUBSET (1..count)
        BY <3>3, TypesFacts DEF ProbeInv
      <4>2. S # {}
        BY <2>3
      <4> HIDE DEF S
      <4>3. /\ IsFiniteSet(S) /\ Cardinality(S) \in Nat
            /\ S = {} <=> Cardinality(S) = 0
        BY <4>1, Countable
      <4> QED BY <4>2, <4>3
    <3>5. /\ f \in [S -> Nat] /\ times \in SUBSET Nat /\ times # {}
          /\ \A i \in S : f[i] \in times
      BY <2>3, <3>3
    <3>6. f \in Surjection(S, times)
      BY DEF Surjection
    <3>7. times \subseteq {lines[j] : j \in DOMAIN lines}
      BY <3>3
    <3> HIDE DEF S, f, times
    <3>8. IsFiniteSet(times)
      BY <3>4, <3>6, FS_Surjection
    <3>9. lo \in times /\ \A u \in times : lo <= u
      BY <3>5, LeastExists
    <3>10. hi \in times /\ \A u \in times : hi >= u
      BY <3>5, <3>8, GreatestExists
    <3> HIDE DEF lo, hi
    <3>11. lo \in Nat /\ hi \in Nat
      BY <3>5, <3>9, <3>10
    <3>12. \A i \in S : lo <= f[i] /\ f[i] <= hi
      BY <3>5, <3>9, <3>10, <3>11
    <3>13. /\ SumFunction(f) \in Nat
           /\ Cardinality(S) * lo <= SumFunction(f) /\ SumFunction(f) <= Cardinality(S) * hi
      BY <3>4, <3>5, <3>11, <3>12, SumBetween
    <3>14. lo <= a /\ a <= hi
      <4> DEFINE k == Cardinality(S)
                 sum == SumFunction(f)
      <4>1. /\ k \in Nat /\ k >= 1 /\ sum \in Nat /\ k * lo <= sum /\ sum <= k * hi
            /\ a \in Nearest(sum, k)
        BY <3>2, <3>4, <3>13
      <4> HIDE DEF k, sum
      <4> QED BY <3>11, <4>1, NearestBetween
    <3> QED BY <3>1, <3>7, <3>9, <3>10, <3>14
  <2> QED BY <2>2, <2>3
<1> QED BY <1>1, Invariance, PTL

(* For every count up to 100 and any times, rounding makes no figure untrue:  *)
(* _build_response()'s loss and its least, average and greatest time.         *)
THEOREM FiguresHonestSafe == Spec => []FiguresHonest
BY PercentHonestSafe, RttOrderedSafe, PTL DEF FiguresHonest
===============================================================================
