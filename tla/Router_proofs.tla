---------------------------- MODULE Router_proofs ----------------------------
(***************************************************************************)
(* Theorems about the balancer of a gate, for any addresses, lists, weights*)
(* and number of replacements of the list.                                 *)
(***************************************************************************)
EXTENDS Router, SequenceTheorems, WellFoundedInduction, TLAPS

-----------------------------------------------------------------------------
(* Sums. *)

(* A set that holds 0, and with k also k + 1, holds everything up to n. *)
LEMMA UpTo ==
  ASSUME NEW n \in Nat, NEW T, 0 \in T, \A k \in 0..(n - 1) : k \in T => k + 1 \in T
  PROVE  \A k \in 0..n : k \in T
<1> DEFINE R == OpToRel(<, Nat)
           Rest == (0..n) \ T
<1> SUFFICES ASSUME Rest # {} PROVE FALSE
  OBVIOUS
<1>1. IsWellFoundedOn(R, Nat)
  BY NatLessThanWellFounded
<1> HIDE DEF R
<1>2. PICK x \in Rest : \A y \in Rest : ~(<<y, x>> \in R)
  <2>1. Rest \subseteq Nat
    OBVIOUS
  <2> QED BY <1>1, <2>1, WFMin
<1>3. x \in 1..n /\ x - 1 \in 0..(n - 1)
  OBVIOUS
<1>4. <<x - 1, x>> \in Nat \X Nat /\ <<x - 1, x>>[1] < <<x - 1, x>>[2]
  BY <1>3
<1>5. <<x - 1, x>> \in R
  BY <1>4 DEF R, OpToRel
<1>6. x - 1 \in T
  BY <1>2, <1>3, <1>5
<1>7. (x - 1) + 1 \in T
  BY <1>3, <1>6
<1> QED BY <1>3, <1>7

(* The recursive definition of the running sums has a solution ...           *)
LEMMA SumsExist ==
  ASSUME NEW n \in Nat, NEW f \in [1..n -> Int]
  PROVE  \E p \in [0..n -> Int] : p[0] = 0 /\ \A k \in 1..n : p[k] = p[k - 1] + f[k]
<1> DEFINE Solves(p, m) == p[0] = 0 /\ \A k \in 1..m : p[k] = p[k - 1] + f[k]
           Solvable(m) == \E p \in [0..m -> Int] : Solves(p, m)
           T == {m \in 0..n : Solvable(m)}
<1>1. Solvable(0)
  <2>1. [k \in 0..0 |-> 0] \in [0..0 -> Int] /\ Solves([k \in 0..0 |-> 0], 0)
    OBVIOUS
  <2> HIDE DEF Solves
  <2> QED BY <2>1
<1>2. ASSUME NEW m \in 0..(n - 1), Solvable(m) PROVE Solvable(m + 1)
  <2>1. PICK p \in [0..m -> Int] : Solves(p, m)
    BY <1>2
  <2> DEFINE q == [k \in 0..(m + 1) |-> IF k = m + 1 THEN p[m] + f[m + 1] ELSE p[k]]
  <2>2. q \in [0..(m + 1) -> Int]
    OBVIOUS
  <2>3. Solves(q, m + 1)
    BY <2>1
  <2> HIDE DEF q, Solves
  <2> QED BY <2>2, <2>3
<1>3. \A m \in 0..n : m \in T
  <2> HIDE DEF Solvable
  <2>1. 0 \in T /\ \A m \in 0..(n - 1) : m \in T => m + 1 \in T
    BY <1>1, <1>2
  <2> HIDE DEF T
  <2> QED BY <2>1, UpTo
<1>4. Solvable(n)
  <2> HIDE DEF Solvable
  <2> QED BY <1>3
<1> QED BY <1>4

(* ... so that the definition means what it says.                            *)
LEMMA SumsDef ==
  ASSUME NEW n \in Nat, NEW f \in [1..n -> Int]
  PROVE  /\ Sums(f, n) \in [0..n -> Int]
         /\ Sums(f, n)[0] = 0
         /\ \A k \in 1..n : Sums(f, n)[k] = Sums(f, n)[k - 1] + f[k]
<1> DEFINE s == Sums(f, n)
           T == {k \in 0..n : s[k] \in Int}
<1>1. PICK p \in [0..n -> Int] : p[0] = 0 /\ \A k \in 1..n : p[k] = p[k - 1] + f[k]
  BY SumsExist
<1>2. p = [k \in 0..n |-> IF k = 0 THEN 0 ELSE p[k - 1] + f[k]]
  BY <1>1
<1>3. s = [k \in 0..n |-> IF k = 0 THEN 0 ELSE s[k - 1] + f[k]]
  BY <1>2 DEF Sums
<1> HIDE DEF s
<1>4. s[0] = 0 /\ \A k \in 1..n : s[k] = s[k - 1] + f[k]
  <2>1. \A k \in 0..n : s[k] = IF k = 0 THEN 0 ELSE s[k - 1] + f[k]
    BY <1>3
  <2> QED BY <2>1
<1>5. \A k \in 0..n : k \in T
  <2>1. 0 \in T
    BY <1>4
  <2>2. ASSUME NEW k \in 0..(n - 1), k \in T PROVE k + 1 \in T
    <3>1. k + 1 \in 1..n /\ (k + 1) - 1 = k /\ s[k] \in Int
      BY <2>2
    <3>2. s[k + 1] = s[k] + f[k + 1]
      BY <1>4, <3>1
    <3> QED BY <3>1, <3>2
  <2> HIDE DEF T
  <2> QED BY <2>1, <2>2, UpTo
<1>6. s \in [0..n -> Int]
  BY <1>3, <1>5
<1> QED BY <1>4, <1>6 DEF s

(* Place by place, sums add up. *)
LEMMA SumAdd ==
  ASSUME NEW n \in Nat, NEW f \in [1..n -> Int], NEW g \in [1..n -> Int],
         NEW h \in [1..n -> Int], \A k \in 1..n : h[k] = f[k] + g[k]
  PROVE  SumTo(h, n) = SumTo(f, n) + SumTo(g, n)
<1> DEFINE T == {k \in 0..n : Sums(h, n)[k] = Sums(f, n)[k] + Sums(g, n)[k]}
<1>2. /\ Sums(f, n) \in [0..n -> Int] /\ Sums(f, n)[0] = 0
      /\ \A k \in 1..n : Sums(f, n)[k] = Sums(f, n)[k - 1] + f[k]
  BY SumsDef
<1>3. /\ Sums(g, n) \in [0..n -> Int] /\ Sums(g, n)[0] = 0
      /\ \A k \in 1..n : Sums(g, n)[k] = Sums(g, n)[k - 1] + g[k]
  BY SumsDef
<1>4. /\ Sums(h, n) \in [0..n -> Int] /\ Sums(h, n)[0] = 0
      /\ \A k \in 1..n : Sums(h, n)[k] = Sums(h, n)[k - 1] + h[k]
  BY SumsDef
<1>5. 0 \in T
  BY <1>2, <1>3, <1>4
<1>6. ASSUME NEW k \in 0..(n - 1), k \in T PROVE k + 1 \in T
  <2>1. k + 1 \in 1..n /\ (k + 1) - 1 = k
    OBVIOUS
  <2> QED BY <1>2, <1>3, <1>4, <1>6, <2>1
<1>7. \A k \in 0..n : k \in T
  <2> HIDE DEF T
  <2> QED BY <1>5, <1>6, UpTo
<1> QED BY <1>7 DEF SumTo

(* A value at one place counts once. *)
LEMMA SumSingle ==
  ASSUME NEW n \in Nat, NEW j \in 1..n, NEW d \in Int,
         NEW f \in [1..n -> Int], \A k \in 1..n : f[k] = IF k = j THEN d ELSE 0
  PROVE  SumTo(f, n) = d
<1> DEFINE s == Sums(f, n)
           T == {k \in 0..n : s[k] = IF k < j THEN 0 ELSE d}
<1>2. /\ s \in [0..n -> Int] /\ s[0] = 0
      /\ \A k \in 1..n : s[k] = s[k - 1] + f[k]
  BY SumsDef
<1> HIDE DEF s
<1>3. 0 \in T
  BY <1>2
<1>4. ASSUME NEW m \in 0..(n - 1), m \in T PROVE m + 1 \in T
  <2>1. m + 1 \in 1..n /\ (m + 1) - 1 = m /\ s[m] \in Int /\ s[m + 1] = s[m] + f[m + 1]
    BY <1>2
  <2> QED BY <1>4, <2>1
<1>5. \A k \in 0..n : k \in T
  <2> HIDE DEF T
  <2> QED BY <1>3, <1>4, UpTo
<1> QED BY <1>5 DEF s, SumTo

(* The same value at every place. *)
LEMMA SumConstant ==
  ASSUME NEW n \in Nat, NEW c \in Int,
         NEW f \in [1..n -> Int], \A k \in 1..n : f[k] = c
  PROVE  SumTo(f, n) = n * c
<1> DEFINE s == Sums(f, n)
           T == {k \in 0..n : s[k] = k * c}
<1>2. /\ s \in [0..n -> Int] /\ s[0] = 0
      /\ \A k \in 1..n : s[k] = s[k - 1] + f[k]
  BY SumsDef
<1> HIDE DEF s
<1>3. 0 \in T
  BY <1>2
<1>4. ASSUME NEW m \in 0..(n - 1), m \in T PROVE m + 1 \in T
  <2>1. m + 1 \in 1..n /\ (m + 1) - 1 = m /\ s[m] \in Int /\ s[m + 1] = s[m] + f[m + 1]
    BY <1>2
  <2>2. (m + 1) * c = m * c + c
    OBVIOUS
  <2> QED BY <1>4, <2>1, <2>2
<1>5. \A k \in 0..n : k \in T
  <2> HIDE DEF T
  <2> QED BY <1>3, <1>4, UpTo
<1> QED BY <1>5 DEF s, SumTo

(* A sum of natural numbers is at least any one, and any two, of them.       *)
LEMMA SumOfNats ==
  ASSUME NEW n \in Nat, NEW f \in [1..n -> Nat]
  PROVE  /\ SumTo(f, n) \in Nat
         /\ \A i \in 1..n : f[i] <= SumTo(f, n)
         /\ \A i, j \in 1..n : i # j => f[i] + f[j] <= SumTo(f, n)
<1> DEFINE s == Sums(f, n)
           Covers(k) == /\ s[k] \in Nat
                        /\ \A i \in 1..k : f[i] <= s[k]
                        /\ \A i, j \in 1..k : i # j => f[i] + f[j] <= s[k]
           T == {k \in 0..n : Covers(k)}
<1>1. f \in [1..n -> Int]
  OBVIOUS
<1>2. /\ s \in [0..n -> Int] /\ s[0] = 0
      /\ \A k \in 1..n : s[k] = s[k - 1] + f[k]
  BY <1>1, SumsDef
<1> HIDE DEF s
<1>3. 0 \in T
  BY <1>2
<1>4. ASSUME NEW m \in 0..(n - 1), m \in T PROVE m + 1 \in T
  <2>1. m + 1 \in 1..n /\ (m + 1) - 1 = m /\ s[m] \in Int /\ s[m + 1] = s[m] + f[m + 1]
    BY <1>2
  <2>2. s[m] \in Nat /\ \A i \in 1..m : f[i] <= s[m]
    BY <1>4
  <2>3. \A i, j \in 1..m : i # j => f[i] + f[j] <= s[m]
    BY <1>4
  <2>4. \A i \in 1..(m + 1) : i \in 1..m \/ i = m + 1
    OBVIOUS
  <2>5. s[m + 1] \in Nat /\ s[m + 1] >= s[m] /\ s[m + 1] >= f[m + 1]
    BY <2>1, <2>2
  <2>6. \A i \in 1..(m + 1) : f[i] <= s[m + 1]
    BY <2>1, <2>2, <2>4, <2>5
  <2>7. ASSUME NEW i \in 1..(m + 1), NEW j \in 1..(m + 1), i # j PROVE f[i] + f[j] <= s[m + 1]
    <3>1. CASE i \in 1..m /\ j \in 1..m
      <4>1. f[i] + f[j] <= s[m] /\ f[i] + f[j] \in Nat
        BY <2>1, <2>3, <2>7, <3>1
      <4> QED BY <2>1, <2>2, <2>5, <4>1
    <3>2. CASE i = m + 1 /\ j \in 1..m
      BY <2>1, <2>2, <3>2
    <3>3. CASE j = m + 1 /\ i \in 1..m
      BY <2>1, <2>2, <3>3
    <3> QED BY <2>4, <2>7, <3>1, <3>2, <3>3
  <2> QED BY <2>1, <2>5, <2>6, <2>7
<1>5. \A k \in 0..n : k \in T
  <2> HIDE DEF T
  <2> QED BY <1>3, <1>4, UpTo
<1> QED BY <1>5 DEF s, SumTo

(* A sum without a positive summand is not positive. *)
LEMMA SumOfNone ==
  ASSUME NEW n \in Nat, NEW f \in [1..n -> Int], \A k \in 1..n : f[k] <= 0
  PROVE  SumTo(f, n) <= 0
<1> DEFINE s == Sums(f, n)
           T == {k \in 0..n : s[k] <= 0}
<1>2. /\ s \in [0..n -> Int] /\ s[0] = 0
      /\ \A k \in 1..n : s[k] = s[k - 1] + f[k]
  BY SumsDef
<1> HIDE DEF s
<1>3. 0 \in T
  BY <1>2
<1>4. ASSUME NEW m \in 0..(n - 1), m \in T PROVE m + 1 \in T
  <2>1. m + 1 \in 1..n /\ (m + 1) - 1 = m /\ s[m] \in Int /\ s[m + 1] = s[m] + f[m + 1]
    BY <1>2
  <2> QED BY <1>4, <2>1
<1>5. \A k \in 0..n : k \in T
  <2> HIDE DEF T
  <2> QED BY <1>3, <1>4, UpTo
<1> QED BY <1>5 DEF s, SumTo

-----------------------------------------------------------------------------
(* One turn of smooth weighted round robin. *)

LEMMA SeqLength ==
  ASSUME NEW n \in Nat, NEW S, NEW f \in [1..n -> S]
  PROVE  f \in Seq(S) /\ Len(f) = n
OBVIOUS

(* The CHOOSE of Best finds the first of the highest tallies. *)
LEMMA BestIsFirst ==
  ASSUME NEW n \in Nat, n > 0, NEW r \in [1..n -> Int]
  PROVE  /\ Best(r) \in 1..n
         /\ \A j \in 1..n : r[j] <= r[Best(r)]
<1> DEFINE First(i, m) == \A j \in 1..m : r[j] <= r[i] /\ (j < i => r[j] < r[i])
           T == {m \in 0..n : m = 0 \/ \E i \in 1..m : First(i, m)}
<1>1. 0 \in T
  OBVIOUS
<1>2. ASSUME NEW m \in 0..(n - 1), m \in T PROVE m + 1 \in T
  <2>1. CASE m = 0
    <3>1. 1 \in 1..(m + 1) /\ First(1, m + 1)
      BY <2>1
    <3> HIDE DEF First
    <3> QED BY <3>1
  <2>2. ASSUME NEW i \in 1..m, First(i, m) PROVE \E k \in 1..(m + 1) : First(k, m + 1)
    <3>0. i \in 1..(m + 1) /\ m + 1 \in 1..(m + 1) /\ \A j \in 1..(m + 1) : j \in 1..m \/ j = m + 1
      OBVIOUS
    <3>1. CASE r[m + 1] <= r[i]
      <4>1. First(i, m + 1)
        BY <2>2, <3>0, <3>1
      <4> HIDE DEF First
      <4> QED BY <3>0, <4>1
    <3>2. CASE r[i] < r[m + 1]
      <4>1. First(m + 1, m + 1)
        BY <2>2, <3>0, <3>2
      <4> HIDE DEF First
      <4> QED BY <3>0, <4>1
    <3> QED BY <3>1, <3>2
  <2> HIDE DEF First
  <2> QED BY <1>2, <2>1, <2>2
<1>3. n \in T
  <2> HIDE DEF T
  <2>1. \A k \in 0..n : k \in T
    BY <1>1, <1>2, UpTo
  <2> QED BY <2>1
<1>4. PICK i \in 1..n : First(i, n)
  BY <1>3
<1>5. DOMAIN r = 1..n
  OBVIOUS
<1> QED BY <1>4, <1>5 DEF Best

(* Step 1 of a turn raises each tally by the weight, step 3 lets one of them *)
(* pay the total.                                                            *)
Raises(n, c, w, r) ==
  /\ w \in [1..n -> Nat \ {0}] /\ c \in [1..n -> Int] /\ r \in [1..n -> Int]
  /\ \A k \in 1..n : r[k] = c[k] + w[k]
Pays(n, r, b, t, d) ==
  /\ b \in 1..n /\ r \in [1..n -> Int] /\ d \in [1..n -> Int]
  /\ \A j \in 1..n : r[j] <= r[b]
  /\ \A k \in 1..n : d[k] = IF k = b THEN r[k] - t ELSE r[k]

(* Step 1 of a turn: the raised tallies add up to the total.                 *)
LEMMA RaisedSum ==
  ASSUME NEW n \in Nat, n > 0, NEW c, NEW w, NEW r, Raises(n, c, w, r), SumTo(c, n) = 0
  PROVE  /\ SumTo(r, n) = SumTo(w, n)
         /\ SumTo(w, n) \in Nat \ {0}
         /\ \A k \in 1..n : w[k] <= SumTo(w, n)
<1>1. /\ w \in [1..n -> Nat] /\ w \in [1..n -> Int] /\ w \in [1..n -> Nat \ {0}]
      /\ c \in [1..n -> Int] /\ r \in [1..n -> Int] /\ \A k \in 1..n : r[k] = c[k] + w[k]
  BY DEF Raises
<1>2. SumTo(w, n) \in Nat /\ \A k \in 1..n : w[k] <= SumTo(w, n)
  BY <1>1, SumOfNats
<1>3. 1 \in 1..n /\ w[1] > 0 /\ w[1] \in Nat
  BY <1>1
<1>4. SumTo(r, n) = SumTo(c, n) + SumTo(w, n)
  BY <1>1, SumAdd
<1> QED BY <1>2, <1>3, <1>4

(* Step 3: the sum is lower by what the best one pays.                       *)
LEMMA LoweredSum ==
  ASSUME NEW n \in Nat, NEW t \in Int, NEW r, NEW b, NEW d, Pays(n, r, b, t, d)
  PROVE  SumTo(d, n) = SumTo(r, n) - t
<1>0. b \in 1..n /\ r \in [1..n -> Int] /\ d \in [1..n -> Int]
  BY DEF Pays
<1> DEFINE pay == [k \in 1..n |-> IF k = b THEN -t ELSE 0]
<1>1. pay \in [1..n -> Int] /\ \A k \in 1..n : pay[k] = IF k = b THEN -t ELSE 0
  OBVIOUS
<1> HIDE DEF pay
<1>2. SumTo(pay, n) = -t
  <2> DEFINE u == -t
  <2>1. u \in Int /\ \A k \in 1..n : pay[k] = IF k = b THEN u ELSE 0
    BY <1>1
  <2> HIDE DEF u
  <2>2. SumTo(pay, n) = u
    BY <1>0, <1>1, <2>1, SumSingle
  <2> QED BY <2>2 DEF u
<1>3. ASSUME NEW k \in 1..n PROVE d[k] = r[k] + pay[k]
  <2>1. r[k] \in Int /\ pay[k] = IF k = b THEN -t ELSE 0
    BY <1>0, <1>1
  <2>2. d[k] = IF k = b THEN r[k] - t ELSE r[k]
    BY DEF Pays
  <2>3. CASE k = b
    BY <2>1, <2>2, <2>3
  <2>4. CASE k # b
    BY <2>1, <2>2, <2>4
  <2> QED BY <2>3, <2>4
<1>4. SumTo(d, n) = SumTo(r, n) + SumTo(pay, n)
  BY <1>0, <1>1, <1>3, SumAdd
<1>5. SumTo(r, n) \in Int
  BY <1>0, SumsDef DEF SumTo
<1> QED BY <1>2, <1>4, <1>5

(* The highest of numbers that add up to t > 0 is positive, and the others   *)
(* are bounded by what the rest, each above -t, leave to the two of them.    *)
LEMMA HighestPositive ==
  ASSUME NEW n \in Nat, NEW r \in [1..n -> Int], NEW b \in 1..n,
         \A j \in 1..n : r[j] <= r[b], SumTo(r, n) > 0
  PROVE  r[b] > 0
<1> SUFFICES ASSUME ~(r[b] > 0) PROVE FALSE
  OBVIOUS
<1>1. \A k \in 1..n : r[k] <= 0
  OBVIOUS
<1>2. SumTo(r, n) <= 0
  BY <1>1, SumOfNone
<1>3. SumTo(r, n) \in Int
  BY SumsDef DEF SumTo
<1> QED BY <1>2, <1>3

LEMMA OthersBounded ==
  ASSUME NEW n \in Nat, NEW r \in [1..n -> Int], NEW b \in 1..n, NEW k \in 1..n, k # b,
         r[k] <= r[b], NEW t \in Int, SumTo(r, n) = t, \A j \in 1..n : r[j] > -t
  PROVE  2 * r[k] <= t + (n - 2) * (t - 1)
<1> DEFINE lift == [i \in 1..n |-> t - 1]
           g == [i \in 1..n |-> r[i] + (t - 1)]
<1>1. lift \in [1..n -> Int] /\ \A i \in 1..n : lift[i] = t - 1
  OBVIOUS
<1>2. g \in [1..n -> Int] /\ \A i \in 1..n : g[i] = r[i] + (t - 1)
  OBVIOUS
<1> HIDE DEF lift, g
<1>3. t - 1 \in Int /\ SumTo(lift, n) = n * (t - 1)
  BY <1>1, SumConstant
<1>4. SumTo(g, n) = SumTo(r, n) + SumTo(lift, n)
  <2>1. \A i \in 1..n : g[i] = r[i] + lift[i]
    BY <1>1, <1>2
  <2> QED BY <1>1, <1>2, <2>1, SumAdd
<1>5. g \in [1..n -> Nat]
  <2>1. ASSUME NEW i \in 1..n PROVE g[i] \in Nat
    <3>1. r[i] \in Int /\ r[i] > -t
      OBVIOUS
    <3> QED BY <1>2, <3>1
  <2> QED BY <1>2, <2>1
<1>6. g[b] + g[k] <= SumTo(g, n)
  BY <1>5, SumOfNats
<1>7. n * (t - 1) \in Int /\ (n - 2) * (t - 1) = n * (t - 1) - 2 * (t - 1)
  OBVIOUS
<1>8. r[b] + (t - 1) + (r[k] + (t - 1)) <= t + n * (t - 1)
  BY <1>2, <1>3, <1>4, <1>6
<1> QED BY <1>7, <1>8

(* What is left when the one with the highest tally pays the total: the      *)
(* tallies still add up to 0, and none is far from it.                       *)
Near(c, n, t) == \A i \in 1..n : c[i] > -t /\ 2 * c[i] <= t + (n - 2) * (t - 1)

LEMMA TurnKeepsNear ==
  ASSUME NEW n \in Nat, n > 0, NEW t, NEW c, NEW w, NEW r, NEW b, NEW d,
         Raises(n, c, w, r), Pays(n, r, b, t, d),
         t = SumTo(w, n), SumTo(c, n) = 0, Near(c, n, t)
  PROVE  t > 0 /\ SumTo(d, n) = 0 /\ Near(d, n, t)
<1>1. /\ SumTo(r, n) = t /\ t \in Nat \ {0}
      /\ \A k \in 1..n : w[k] <= t
  BY RaisedSum
<1>2. SumTo(d, n) = SumTo(r, n) - t
  BY <1>1, LoweredSum
<1>3. SumTo(d, n) = 0
  BY <1>1, <1>2
<1>4. r \in [1..n -> Int] /\ b \in 1..n /\ \A j \in 1..n : r[j] <= r[b]
  BY DEF Pays
<1>5. r[b] > 0
  BY <1>1, <1>4, HighestPositive
<1> DEFINE room == t + (n - 2) * (t - 1)
<1>6. room \in Int
  BY <1>1
<1>7. ASSUME NEW k \in 1..n
      PROVE  /\ r[k] = c[k] + w[k] /\ c[k] \in Int /\ w[k] \in Nat /\ w[k] > 0 /\ w[k] <= t
             /\ c[k] > -t /\ 2 * c[k] <= room
             /\ d[k] = IF k = b THEN r[k] - t ELSE r[k]
  <2>1. r[k] = c[k] + w[k] /\ c[k] \in Int /\ w[k] \in Nat /\ w[k] > 0 /\ w[k] <= t
    BY <1>1 DEF Raises
  <2>2. c[k] > -t /\ 2 * c[k] <= room
    BY DEF Near
  <2>3. d[k] = IF k = b THEN r[k] - t ELSE r[k]
    BY DEF Pays
  <2> QED BY <2>1, <2>2, <2>3
<1> HIDE DEF room
<1>8. \A k \in 1..n : r[k] > -t
  <2> SUFFICES ASSUME NEW k \in 1..n PROVE r[k] > -t
    OBVIOUS
  <2> QED BY <1>1, <1>7
<1>9. ASSUME NEW k \in 1..n PROVE d[k] > -t /\ 2 * d[k] <= room
  <2>1. CASE k = b
    <3>1. d[k] = c[k] + w[k] - t
      BY <1>1, <1>7, <2>1
    <3> QED BY <1>1, <1>5, <1>6, <1>7, <2>1, <3>1
  <2>2. CASE k # b
    <3>1. 2 * r[k] <= t + (n - 2) * (t - 1)
      <4>1. t \in Int /\ SumTo(r, n) = t /\ r[k] <= r[b] /\ k # b
        BY <1>1, <1>4, <2>2
      <4> QED BY <1>4, <1>8, <4>1, OthersBounded
    <3> QED BY <1>7, <1>8, <2>2, <3>1 DEF room
  <2> QED BY <2>1, <2>2
<1> QED BY <1>1, <1>3, <1>9 DEF Near, room

-----------------------------------------------------------------------------
(* Round robin. *)

LEMMA Remainder ==
  ASSUME NEW c \in Nat, NEW n \in Nat, n > 0, NEW q \in Int, NEW r \in 0..(n - 1), c = n * q + r
  PROVE  (c % n) = r
BY Z3

(* The remainder moves on by one, and from the last one back to 0. *)
LEMMA NextRemainder ==
  ASSUME NEW c \in Nat, NEW n \in Nat, n > 0
  PROVE  /\ (c % n) \in 0..(n - 1)
         /\ ((c + 1) % n) = IF (c % n) = n - 1 THEN 0 ELSE (c % n) + 1
<1>1. ASSUME NEW q \in Int, NEW r \in 0..(n - 1), c = n * q + r
      PROVE  ((c + 1) % n) = IF r = n - 1 THEN 0 ELSE r + 1
  <2>1. CASE r = n - 1
    <3>1. c + 1 = n * (q + 1) + 0
      BY <1>1, <2>1
    <3>2. c + 1 \in Nat /\ q + 1 \in Int /\ 0 \in 0..(n - 1)
      OBVIOUS
    <3>3. ((c + 1) % n) = 0
      BY <3>1, <3>2, Remainder
    <3> QED BY <2>1, <3>3
  <2>2. CASE r # n - 1
    <3>1. c + 1 = n * q + (r + 1)
      BY <1>1, <2>2
    <3>2. c + 1 \in Nat /\ r + 1 \in 0..(n - 1)
      BY <2>2
    <3>3. ((c + 1) % n) = r + 1
      BY <3>1, <3>2, Remainder
    <3> QED BY <2>2, <3>3
  <2> QED BY <2>1, <2>2
<1>2. (c % n) \in 0..(n - 1) /\ c \div n \in Int
  OBVIOUS
<1>3. c = n * (c \div n) + (c % n)
  OBVIOUS
<1> QED BY <1>1, <1>2, <1>3

(* The places from p up to, and without, q, going round from the last to 0.  *)
Between(p, q) == {j \in Nat : IF p <= q THEN p <= j /\ j < q ELSE p <= j \/ j < q}

(* There is a place from which on the calls went round: those between it and *)
(* the place whose turn it is have answered once more than the others.       *)
Rounds(start, base) ==
  \A i \in 1..Len(rrList) :
    rrPicks[i] = IF i - 1 \in Between(start, counter % Len(rrList)) THEN base + 1 ELSE base

RRInv ==
  /\ RRTypeOK
  /\ rrList # <<>> => \E start \in 0..(Len(rrList) - 1), base \in Nat : Rounds(start, base)

LEMMA SomeLength ==
  ASSUME NEW list \in Lists \cup {<<>>}
  PROVE  list \in Seq(Addrs) /\ Len(list) \in Nat /\ (list # <<>> => Len(list) > 0)
<1>1. list \in Seq(Addrs)
  BY ListsAssumption, EmptySeq
<1>2. list # <<>> => Len(list) # 0
  BY <1>1, EmptySeq
<1> QED BY <1>1, <1>2

LEMMA RRInitInv == ASSUME NEW list \in Lists \cup {<<>>}, RRInit(list) PROVE RRInv
<1>1. list \in Seq(Addrs) /\ Len(list) \in Nat /\ (list # <<>> => Len(list) > 0)
  BY SomeLength
<1>2. RRTypeOK
  <2>1. 0 \in 0..(Wrap - 1)
    BY WrapAssumption
  <2> QED BY <1>1, <2>1 DEF RRInit, RRTypeOK, NoPicks
<1>3. ASSUME rrList # <<>> PROVE Rounds(0, 0)
  <2>1. (0 % Len(list)) = 0
    BY <1>1, <1>3 DEF RRInit
  <2> QED BY <1>1, <2>1 DEF RRInit, NoPicks, Rounds, Between
<1>4. rrList # <<>> => 0 \in 0..(Len(rrList) - 1)
  BY <1>1 DEF RRInit
<1> QED BY <1>2, <1>3, <1>4 DEF RRInv

(* SetBackends: the rounds start where the counter is. *)
LEMMA RRSetBackendsInv == ASSUME RRInv, NEW list \in Lists, RRSetBackends(list) PROVE RRInv'
<1>1. list \in Seq(Addrs) /\ Len(list) \in Nat /\ (list # <<>> => Len(list) > 0)
  BY SomeLength
<1>2. rrList' = list /\ counter' = counter /\ rrPicks' = [i \in 1..Len(list) |-> 0]
  BY DEF RRSetBackends, NoPicks
<1>3. RRTypeOK'
  BY <1>1, <1>2 DEF RRInv, RRTypeOK
<1>4. ASSUME list # <<>>
      PROVE  (\E start \in 0..(Len(rrList) - 1), base \in Nat : Rounds(start, base))'
  <2>1. counter \in Nat /\ Len(list) \in Nat \ {0}
    BY <1>1, <1>4 DEF RRInv, RRTypeOK
  <2>2. (counter % Len(list)) \in 0..(Len(list) - 1)
    BY <2>1, NextRemainder
  <2>3. \A i \in 1..Len(list) : i - 1 \notin Between(counter % Len(list), counter % Len(list))
    BY <1>1, <2>2 DEF Between
  <2>4. Rounds(counter % Len(rrList), 0)'
    BY <1>2, <2>3 DEF Rounds
  <2> QED BY <1>2, <2>2, <2>4
<1> QED BY <1>2, <1>3, <1>4 DEF RRInv

(* The turn moves on: one place more lies between, or the round is complete. *)
LEMMA BetweenNext ==
  ASSUME NEW n \in Nat, NEW p \in 0..(n - 1), NEW q \in 0..(n - 1), NEW r \in 0..(n - 1),
         r = IF q = n - 1 THEN 0 ELSE q + 1, NEW j \in 0..(n - 1)
  PROVE  /\ r # p => (j \in Between(p, r) <=> j \in Between(p, q) \/ j = q)
         /\ r = p => (j \in Between(p, q) <=> j # q)
         /\ j \notin Between(p, p) /\ q \notin Between(p, q)
BY DEF Between

(* The Add on the counter: one more, or 0 after the last value. *)
LEMMA CounterStep ==
  ASSUME RRTypeOK
  PROVE  /\ counter \in Nat /\ CounterAfter(counter) \in 0..(Wrap - 1)
         /\ CounterAfter(counter) # 0 => CounterAfter(counter) = counter + 1
<1>1. counter \in 0..(Wrap - 1) /\ Wrap \in Nat /\ Wrap > 0 /\ counter \in Nat
  BY WrapAssumption DEF RRTypeOK
<1>2. (counter % Wrap) = counter
  <2>1. counter = Wrap * 0 + counter
    BY <1>1
  <2> QED BY <1>1, <2>1, Remainder
<1>3. ((counter + 1) % Wrap) = IF counter = Wrap - 1 THEN 0 ELSE counter + 1
  BY <1>1, <1>2, NextRemainder
<1> QED BY <1>1, <1>3 DEF CounterAfter

LEMMA RRNextInv == ASSUME RRInv, RRNext PROVE RRInv'
<1>1. CASE rrList = <<>>
  BY <1>1 DEF RRInv, RRTypeOK, RRNext, rrVars, Rounds
<1>2. CASE rrList # <<>>
  <2> DEFINE n == Len(rrList)
             q == counter % n
             r == (counter + 1) % n
  <2>1. n \in Nat /\ n > 0 /\ rrList \in Lists \cup {<<>>} /\ counter \in Nat
    BY <1>2, SomeLength, CounterStep DEF RRInv, RRTypeOK
  <2>2. counter' = CounterAfter(counter) /\ rrList' = rrList
    BY <1>2 DEF RRNext
  <2>3. q \in 0..(n - 1) /\ r \in 0..(n - 1) /\ r = IF q = n - 1 THEN 0 ELSE q + 1
    <3>1. q \in 0..(n - 1) /\ r = IF q = n - 1 THEN 0 ELSE q + 1
      <4> HIDE DEF n
      <4> QED BY <2>1, NextRemainder
    <3> HIDE DEF n, q, r
    <3> QED BY <2>1, <3>1
  <2>4. PICK start \in 0..(n - 1), base \in Nat : Rounds(start, base)
    BY <1>2 DEF RRInv
  <2>5. rrPicks \in [1..n -> Nat]
    BY DEF RRInv, RRTypeOK
  <2>6. CASE counter' = 0
    <3>1. rrPicks' = [i \in 1..n |-> 0]
      BY <1>2, <2>6 DEF RRNext, NoPicks
    <3>2. (0 % n) = 0
      BY <2>1
    <3>3. Rounds(0, 0)'
      BY <2>2, <2>6, <3>1, <3>2 DEF Rounds, Between
    <3>4. 0 \in 0..(n - 1) /\ 0 \in Nat
      BY <2>1
    <3>5. RRTypeOK'
      <4>1. 0 \in 0..(Wrap - 1)
        BY WrapAssumption
      <4> QED BY <2>1, <2>2, <2>6, <3>1, <4>1 DEF RRTypeOK
    <3> QED BY <2>2, <3>3, <3>4, <3>5 DEF RRInv
  <2>7. CASE counter' # 0
    <3>1. counter' = counter + 1 /\ counter' \in 0..(Wrap - 1)
      BY <2>2, <2>7, CounterStep DEF RRInv
    <3>2. rrPicks' = [rrPicks EXCEPT ![q + 1] = @ + 1]
      BY <1>2, <2>7 DEF RRNext, Position
    <3>3. RRTypeOK'
      BY <2>1, <2>2, <2>3, <2>5, <3>1, <3>2 DEF RRTypeOK
    <3> HIDE DEF n, q, r
    <3>4. \A i \in 1..n : /\ i - 1 \in 0..(n - 1)
                          /\ rrPicks[i] = IF i - 1 \in Between(start, q) THEN base + 1 ELSE base
                          /\ rrPicks'[i] = IF i - 1 = q THEN rrPicks[i] + 1 ELSE rrPicks[i]
      BY <2>1, <2>3, <2>4, <2>5, <3>2 DEF Rounds, n, q
    <3>5. ASSUME r # start PROVE Rounds(start, base)'
      <4>1. ASSUME NEW i \in 1..n
            PROVE  rrPicks'[i] = IF i - 1 \in Between(start, r) THEN base + 1 ELSE base
        <5> DEFINE j == i - 1
        <5>0. j \in 0..(n - 1)
          BY <3>4
        <5> HIDE DEF j
        <5>1. j \in Between(start, r) <=> j \in Between(start, q) \/ j = q
          BY <2>1, <2>3, <3>5, <5>0, BetweenNext
        <5>2. q \notin Between(start, q)
          BY <2>1, <2>3, BetweenNext
        <5> QED BY <3>4, <5>1, <5>2 DEF j
      <4> QED BY <2>2, <3>1, <4>1 DEF Rounds, n, r
    <3>6. ASSUME r = start PROVE Rounds(start, base + 1)'
      <4>1. ASSUME NEW i \in 1..n
            PROVE  i - 1 \notin Between(start, start) /\ rrPicks'[i] = base + 1
        <5> DEFINE j == i - 1
        <5>0. j \in 0..(n - 1)
          BY <3>4
        <5> HIDE DEF j
        <5>1. j \notin Between(start, start) /\ (j \in Between(start, q) <=> j # q)
          BY <2>1, <2>3, <3>6, <5>0, BetweenNext
        <5> QED BY <3>4, <5>1 DEF j
      <4>2. ((counter + 1) % Len(rrList)) = start
        BY <3>6 DEF r, n
      <4> QED BY <2>2, <3>1, <4>1, <4>2 DEF Rounds, n
    <3>7. base + 1 \in Nat /\ Len(rrList') = n
      BY <2>2 DEF n
    <3> QED BY <2>4, <3>3, <3>5, <3>6, <3>7 DEF RRInv
  <2> QED BY <2>6, <2>7
<1> QED BY <1>1, <1>2

(* All have base or base + 1. *)
LEMMA RRInvEven == RRInv => RREven
<1> SUFFICES ASSUME RRInv, NEW i \in DOMAIN rrPicks, NEW j \in DOMAIN rrPicks
             PROVE  rrPicks[i] - rrPicks[j] \in -1..1
  BY DEF RREven
<1>1. i \in 1..Len(rrList) /\ j \in 1..Len(rrList)
  BY DEF RRInv, RRTypeOK
<1>2. rrList # <<>>
  BY <1>1
<1>3. PICK start \in 0..(Len(rrList) - 1), base \in Nat : Rounds(start, base)
  BY <1>2 DEF RRInv
<1> QED BY <1>1, <1>3 DEF Rounds

(* Next answers from the list. *)
LEMMA RRAnswers == RRTypeOK => RRAnswer \in Answers(rrList)
<1> SUFFICES ASSUME RRTypeOK, rrList # <<>> PROVE RRAnswer \in Range(rrList)
  BY DEF RRAnswer, Answers
<1>1. rrList \in Seq(Addrs) /\ Len(rrList) \in Nat /\ Len(rrList) > 0 /\ counter \in Nat
  BY SomeLength, CounterStep DEF RRTypeOK
<1>2. (counter % Len(rrList)) \in 0..(Len(rrList) - 1)
  BY <1>1, NextRemainder
<1>3. Position(counter, Len(rrList)) \in DOMAIN rrList
  BY <1>1, <1>2 DEF Position
<1> QED BY <1>3 DEF RRAnswer, Range

-----------------------------------------------------------------------------
(* Weighted. *)

Tallies == [i \in Positions |-> wList[i].current]
ListWeights == [i \in Positions |-> wList[i].weight]
Listed == {wList[i].addr : i \in Positions}
Entries == [addr : Addrs, weight : Nat \ {0}, current : Int]

WInv ==
  /\ WTypeOK
  /\ SumTo(Tallies, Len(wList)) = 0
  /\ Near(Tallies, Len(wList), total)
  /\ WTallies
  /\ WCycle
  /\ loyal \subseteq Listed
  /\ WLoyalWeights

(* What WTypeOK says of the parts of the list. *)
LEMMA ListParts ==
  ASSUME WTypeOK
  PROVE  /\ Len(wList) \in Nat /\ (wList # <<>> => Len(wList) > 0)
         /\ Positions = 1..Len(wList)
         /\ \A i \in Positions : wList[i] \in Entries
         /\ Tallies \in [1..Len(wList) -> Int]
         /\ ListWeights \in [1..Len(wList) -> Nat \ {0}]
         /\ wPicks \in [1..Len(wList) -> Nat]
         /\ total = SumTo(ListWeights, Len(wList))
<1>1. wList \in Seq(Entries)
  BY DEF WTypeOK, Entries
<1>2. Len(wList) \in Nat /\ (wList # <<>> => Len(wList) > 0)
  BY <1>1, EmptySeq
<1>3. \A i \in Positions : wList[i] \in Entries
  BY <1>1 DEF Positions
<1>4. Tallies \in [1..Len(wList) -> Int] /\ ListWeights \in [1..Len(wList) -> Nat \ {0}]
  BY <1>3 DEF Tallies, ListWeights, Positions, Entries
<1>5. total = SumTo(ListWeights, Len(wList)) /\ wPicks \in [1..Len(wList) -> Nat]
  BY DEF WTypeOK, TotalOf, ListWeights, Positions
<1> QED BY <1>2, <1>3, <1>4, <1>5 DEF Positions

(* A list on which nobody has a tally yet. *)
FreshWith(wl, list, f) ==
  /\ f \in [1..Len(list) -> Nat \ {0}]
  /\ wl = [i \in 1..Len(list) |-> [addr |-> list[i], weight |-> f[i], current |-> 0]]

NobodyAhead(wl, list, f) ==
  /\ wl \in Seq(Entries) /\ Len(wl) = Len(list) /\ Len(list) \in Nat
  /\ \A i \in 1..Len(list) : wl[i].addr = list[i] /\ wl[i].weight = f[i] /\ wl[i].current = 0
  /\ TotalOf(wl) \in Nat /\ (wl # <<>> => TotalOf(wl) > 0)
  /\ SumTo([i \in 1..Len(wl) |-> wl[i].current], Len(wl)) = 0
  /\ SumTo(NoTally(Len(wl)), Len(wl)) = 0
  /\ Near([i \in 1..Len(wl) |-> wl[i].current], Len(wl), TotalOf(wl))

LEMMA FreshList ==
  ASSUME NEW list \in Lists \cup {<<>>}, NEW f, NEW wl, FreshWith(wl, list, f)
  PROVE  NobodyAhead(wl, list, f)
<1> DEFINE n == Len(list)
           w == [i \in 1..Len(wl) |-> wl[i].weight]
           c == [i \in 1..Len(wl) |-> wl[i].current]
<1>0. f \in [1..n -> Nat \ {0}] /\ wl = [i \in 1..n |-> [addr |-> list[i], weight |-> f[i], current |-> 0]]
  BY DEF FreshWith
<1>1. list \in Seq(Addrs) /\ n \in Nat
  BY SomeLength
<1>2. \A i \in 1..n : [addr |-> list[i], weight |-> f[i], current |-> 0] \in Entries
  <2> SUFFICES ASSUME NEW i \in 1..n
               PROVE  [addr |-> list[i], weight |-> f[i], current |-> 0] \in Entries
    OBVIOUS
  <2>1. list[i] \in Addrs
    BY <1>1
  <2>2. f[i] \in Nat \ {0}
    BY <1>0
  <2> QED BY <2>1, <2>2 DEF Entries
<1>3. wl \in [1..n -> Entries]
  BY <1>0, <1>2
<1>4. wl \in Seq(Entries) /\ Len(wl) = n
  <2> HIDE DEF n
  <2> QED BY <1>1, <1>3, SeqLength, Zenon
<1>5. \A i \in 1..n : wl[i].addr = list[i] /\ wl[i].weight = f[i] /\ wl[i].current = 0
  BY <1>0
<1>6. w \in [1..n -> Nat] /\ \A k \in 1..n : w[k] > 0
  BY <1>0, <1>4, <1>5
<1>7. TotalOf(wl) = SumTo(w, n)
  BY <1>4 DEF TotalOf
<1>8. c \in [1..n -> Int] /\ \A k \in 1..n : c[k] = 0
  BY <1>4, <1>5
<1>9. NoTally(n) \in [1..n -> Int] /\ \A k \in 1..n : NoTally(n)[k] = 0
  BY DEF NoTally
<1> HIDE DEF n, w, c
<1>10. TotalOf(wl) \in Nat /\ \A i \in 1..n : w[i] <= TotalOf(wl)
  BY <1>1, <1>6, <1>7, SumOfNats
<1>11. n > 0 => TotalOf(wl) > 0
  <2> SUFFICES ASSUME n > 0 PROVE TotalOf(wl) > 0
    OBVIOUS
  <2>1. 1 \in 1..n
    BY <1>1
  <2>2. w[1] \in Nat /\ w[1] > 0 /\ w[1] <= TotalOf(wl)
    BY <1>6, <1>10, <2>1
  <2> QED BY <1>10, <2>2
<1>12. wl # <<>> => n > 0
  BY <1>1, <1>4, EmptySeq
<1>13. SumTo(c, n) = 0
  <2>1. SumTo(c, n) = n * 0
    BY <1>1, <1>8, SumConstant
  <2> QED BY <1>1, <2>1
<1>14. SumTo(NoTally(n), n) = 0
  <2>1. SumTo(NoTally(n), n) = n * 0
    BY <1>1, <1>9, SumConstant
  <2> QED BY <1>1, <2>1
<1>15. Near(c, n, TotalOf(wl))
  <2> DEFINE t == TotalOf(wl)
  <2> HIDE DEF t
  <2> SUFFICES ASSUME NEW k \in 1..n PROVE 0 > -t /\ 2 * 0 <= t + (n - 2) * (t - 1)
    BY <1>8 DEF Near, t
  <2>1. t \in Nat /\ t > 0 /\ n > 0
    BY <1>1, <1>10, <1>11 DEF t
  <2>2. CASE n = 1
    BY <2>1, <2>2
  <2>3. CASE n # 1
    <3>1. n - 2 \in Nat /\ t - 1 \in Nat
      BY <1>1, <2>1, <2>3
    <3>2. (n - 2) * (t - 1) \in Nat
      BY <3>1
    <3> QED BY <2>1, <3>2
  <2> QED BY <2>2, <2>3
<1> QED BY <1>1, <1>4, <1>5, <1>10, <1>11, <1>12, <1>13, <1>14, <1>15 DEF NobodyAhead, n, c

LEMMA WeightsKnown ==
  ASSUME weights \in Weightings
  PROVE  \A x \in Addrs : weights[x] \in Nat /\ InitialWeight(x) \in Nat \ {0}
BY WeightingsAssumption DEF InitialWeight

(* Nobody has a tally, nobody was called: what WInit and WSetBackends leave.  *)
LEMMA WInitInv == ASSUME NEW list \in Lists \cup {<<>>}, WInit(list) PROVE WInv
<1> DEFINE f == [i \in 1..Len(list) |-> InitialWeight(list[i])]
<1>1. list \in Seq(Addrs) /\ Len(list) \in Nat /\ \A i \in 1..Len(list) : list[i] \in Addrs
  BY SomeLength
<1>2. f \in [1..Len(list) -> Nat \ {0}]
  BY <1>1, WeightsKnown DEF WInit
<1>3. NobodyAhead(wList, list, f)
  <2>1. wList = [i \in 1..Len(list) |-> [addr |-> list[i], weight |-> f[i], current |-> 0]]
    BY DEF WInit, Fresh
  <2>2. FreshWith(wList, list, f)
    BY <1>2, <2>1 DEF FreshWith
  <2> HIDE DEF f
  <2> QED BY <2>2, FreshList, Zenon
<1>4. \A i \in 1..Len(list) : f[i] = InitialWeight(list[i])
  OBVIOUS
<1> HIDE DEF f
<1>5. /\ wList \in Seq(Entries) /\ Len(wList) = Len(list)
      /\ \A i \in 1..Len(list) : wList[i].addr = list[i] /\ wList[i].weight = f[i] /\ wList[i].current = 0
      /\ TotalOf(wList) \in Nat /\ (wList # <<>> => TotalOf(wList) > 0)
      /\ SumTo([i \in 1..Len(wList) |-> wList[i].current], Len(wList)) = 0
      /\ SumTo(NoTally(Len(wList)), Len(wList)) = 0
      /\ Near([i \in 1..Len(wList) |-> wList[i].current], Len(wList), TotalOf(wList))
  BY <1>3 DEF NobodyAhead
<1>6. total = TotalOf(wList) /\ wPicks = NoTally(Len(list)) /\ Positions = 1..Len(list)
  BY <1>5 DEF WInit, Positions
<1>7. Range(list) = {wList[i].addr : i \in Positions} /\ Range(list) \subseteq Addrs
  BY <1>1, <1>5, <1>6 DEF Range
<1>8. WTypeOK
  <2>1. wPicks \in [Positions -> Nat]
    BY <1>6 DEF NoTally
  <2> QED BY <1>5, <1>6, <1>7, <2>1 DEF WInit, WTypeOK, Entries
<1>9. SumTo(Tallies, Len(wList)) = 0 /\ Near(Tallies, Len(wList), total)
  BY <1>5, <1>6 DEF Tallies, Positions
<1>10. Calls = 0
  BY <1>5, <1>6 DEF Calls
<1>11. WTallies
  <2> SUFFICES ASSUME NEW i \in Positions PROVE wList[i].current = Deviation(i)
    BY DEF WTallies
  <2>1. /\ wList[i].current = 0 /\ wList[i].weight \in Nat /\ wPicks[i] = 0 /\ total \in Nat
    BY <1>2, <1>5, <1>6 DEF NoTally
  <2> QED BY <1>10, <2>1 DEF Deviation
<1>12. WCycle
  BY <1>5, <1>6, <1>10 DEF WCycle
<1>13. loyal \subseteq Listed
  BY <1>7 DEF WInit, Listed
<1>14. WLoyalWeights
  BY <1>4, <1>5, <1>6 DEF WLoyalWeights
<1> QED BY <1>8, <1>9, <1>11, <1>12, <1>13, <1>14 DEF WInv

(* The CHOOSE of KeptWeight finds the last entry of a listed address.        *)
LEMMA KeptIsWeight ==
  ASSUME WTypeOK, NEW x
  PROVE  /\ KeptWeight(x) \in Nat \ {0}
         /\ x \in Listed => \E i \in Positions : wList[i].addr = x /\ KeptWeight(x) = wList[i].weight
<1> DEFINE n == Len(wList)
           Last(i, m) == wList[i].addr = x /\ \A j \in (i + 1)..m : wList[j].addr # x
           T == {m \in 0..n : (\A i \in 1..m : wList[i].addr # x) \/ \E i \in 1..m : Last(i, m)}
<1>1. n \in Nat /\ Positions = 1..n /\ \A i \in 1..n : wList[i] \in Entries
  BY ListParts
<1>2. 0 \in T
  BY <1>1
<1>3. ASSUME NEW m \in 0..(n - 1), m \in T PROVE m + 1 \in T
  <2>0. m + 1 \in 1..(m + 1) /\ m + 1 \in 0..n /\ \A j \in 1..(m + 1) : j \in 1..m \/ j = m + 1
    BY <1>1
  <2>1. CASE wList[m + 1].addr = x
    <3>1. Last(m + 1, m + 1)
      BY <2>1
    <3> HIDE DEF Last
    <3> QED BY <2>0, <3>1
  <2>2. CASE wList[m + 1].addr # x
    <3>1. CASE \A i \in 1..m : wList[i].addr # x
      BY <2>0, <2>2, <3>1
    <3>2. ASSUME NEW i \in 1..m, Last(i, m) PROVE i \in 1..(m + 1) /\ Last(i, m + 1)
      <4>1. \A j \in (i + 1)..(m + 1) : j \in (i + 1)..m \/ j = m + 1
        BY <1>1
      <4> QED BY <2>0, <2>2, <3>2, <4>1
    <3> HIDE DEF Last
    <3> QED BY <1>3, <2>0, <3>1, <3>2
  <2> QED BY <2>1, <2>2
<1>4. n \in T
  <2> HIDE DEF T
  <2>1. \A k \in 0..n : k \in T
    BY <1>1, <1>2, <1>3, UpTo
  <2> QED BY <1>1, <2>1
<1>5. CASE x \notin Listed
  <2>1. KeptWeight(x) = 1
    BY <1>5 DEF KeptWeight, Listed
  <2> QED BY <1>5, <2>1
<1>6. CASE x \in Listed
  <2>1. \E i \in 1..n : wList[i].addr = x
    BY <1>1, <1>6 DEF Listed
  <2>2. \E i \in 1..n : Last(i, n)
    BY <1>1, <1>4, <2>1
  <2> DEFINE c == CHOOSE i \in 1..n : Last(i, n)
  <2>3. c \in 1..n /\ Last(c, n)
    <3> HIDE DEF Last
    <3> QED BY <2>2
  <2>4. KeptWeight(x) = wList[c].weight
    BY <1>1, <2>1 DEF KeptWeight
  <2> HIDE DEF c
  <2>5. wList[c].weight \in Nat \ {0} /\ wList[c].addr = x
    BY <1>1, <2>3 DEF Entries
  <2> QED BY <1>1, <2>3, <2>4, <2>5
<1> QED BY <1>5, <1>6

LEMMA WSetBackendsInv == ASSUME WInv, NEW list \in Lists, WSetBackends(list) PROVE WInv'
<1> DEFINE f == [i \in 1..Len(list) |-> KeptWeight(list[i])]
<1>0. WTypeOK /\ list \in Lists \cup {<<>>}
  BY DEF WInv
<1>1. list \in Seq(Addrs) /\ Len(list) \in Nat /\ \A i \in 1..Len(list) : list[i] \in Addrs
  BY SomeLength
<1>2. f \in [1..Len(list) -> Nat \ {0}]
  BY <1>0, KeptIsWeight
<1>3. NobodyAhead(wList', list, f)
  <2>1. wList' = [i \in 1..Len(list) |-> [addr |-> list[i], weight |-> f[i], current |-> 0]]
    BY DEF WSetBackends, Fresh
  <2>2. FreshWith(wList', list, f)
    BY <1>2, <2>1 DEF FreshWith
  <2> HIDE DEF f
  <2> QED BY <1>0, <2>2, FreshList, Zenon
<1>4. \A i \in 1..Len(list) : f[i] = KeptWeight(list[i])
  OBVIOUS
<1> HIDE DEF f
<1>5. /\ wList' \in Seq(Entries) /\ Len(wList') = Len(list)
      /\ \A i \in 1..Len(list) : wList'[i].addr = list[i] /\ wList'[i].weight = f[i] /\ wList'[i].current = 0
      /\ TotalOf(wList') \in Nat /\ (wList' # <<>> => TotalOf(wList') > 0)
      /\ SumTo([i \in 1..Len(wList') |-> wList'[i].current], Len(wList')) = 0
      /\ SumTo(NoTally(Len(wList')), Len(wList')) = 0
      /\ Near([i \in 1..Len(wList') |-> wList'[i].current], Len(wList'), TotalOf(wList'))
  BY <1>3 DEF NobodyAhead
<1>6. total' = TotalOf(wList') /\ wPicks' = NoTally(Len(list)) /\ Positions' = 1..Len(list)
  BY <1>5 DEF WSetBackends, Positions
<1>7. Range(list) = Listed'
  BY <1>1, <1>5, <1>6 DEF Range, Listed
<1>8. WTypeOK'
  <2>1. wPicks' \in [Positions' -> Nat]
    BY <1>6 DEF NoTally
  <2>2. loyal' \subseteq known' /\ known' \subseteq Addrs /\ weights' \in Weightings
    BY <1>0 DEF WSetBackends, WTypeOK
  <2> QED BY <1>5, <1>6, <2>1, <2>2 DEF WTypeOK, Entries
<1>9. (SumTo(Tallies, Len(wList)) = 0 /\ Near(Tallies, Len(wList), total))'
  BY <1>5, <1>6 DEF Tallies, Positions
<1>10. Calls' = 0
  BY <1>5, <1>6 DEF Calls
<1>11. WTallies'
  <2> SUFFICES ASSUME NEW i \in Positions' PROVE wList'[i].current = Deviation(i)'
    BY DEF WTallies
  <2>1. /\ wList'[i].current = 0 /\ wList'[i].weight \in Nat /\ wPicks'[i] = 0 /\ total' \in Nat
    BY <1>2, <1>5, <1>6 DEF NoTally
  <2> QED BY <1>10, <2>1 DEF Deviation
<1>12. WCycle'
  BY <1>5, <1>6, <1>10 DEF WCycle
<1>13. (loyal \subseteq Listed)'
  BY <1>7 DEF WSetBackends
<1>14. WLoyalWeights'
  <2> SUFFICES ASSUME NEW i \in Positions', wList'[i].addr \in loyal'
               PROVE  wList'[i].weight = InitialWeight(wList[i].addr)'
    BY DEF WLoyalWeights
  <2> DEFINE x == list[i]
  <2>1. wList'[i].addr = x /\ wList'[i].weight = KeptWeight(x) /\ x \in loyal
    BY <1>4, <1>5, <1>6 DEF WSetBackends
  <2> HIDE DEF x
  <2>2. x \in Listed
    BY <2>1 DEF WInv
  <2>3. PICK j \in Positions : wList[j].addr = x /\ KeptWeight(x) = wList[j].weight
    BY <1>0, <2>2, KeptIsWeight
  <2>4. KeptWeight(x) = InitialWeight(x)
    BY <2>1, <2>3 DEF WInv, WLoyalWeights
  <2>5. InitialWeight(x)' = InitialWeight(x)
    BY DEF WSetBackends, InitialWeight
  <2>6. InitialWeight(wList[i].addr)' = InitialWeight(x)'
    BY <2>1 DEF InitialWeight
  <2> QED BY <2>1, <2>4, <2>5, <2>6
<1> QED BY <1>8, <1>9, <1>11, <1>12, <1>13, <1>14 DEF WInv

(* A multiple of t above -t is not negative. *)
LEMMA AboveMinusTotal ==
  ASSUME NEW t \in Nat, t > 0, NEW x \in Int, t * x > -t
  PROVE  t * x >= 0
<1>1. CASE x >= 0
  <2>1. x \in Nat
    BY <1>1
  <2> QED BY <2>1
<1>2. CASE x < 0
  <2>1. -x - 1 \in Nat /\ -x - 1 >= 0
    BY <1>2
  <2>2. t * (-x - 1) \in Nat
    BY <2>1
  <2>3. t * (-x - 1) = -(t * x) - t
    OBVIOUS
  <2>4. t * x \in Int
    OBVIOUS
  <2> QED BY <2>2, <2>3, <2>4
<1> QED BY <1>1, <1>2

(* Tallies that add up to 0, none of them negative, are all 0. *)
LEMMA AllZero ==
  ASSUME NEW n \in Nat, NEW d \in [1..n -> Int], SumTo(d, n) = 0, \A k \in 1..n : d[k] >= 0
  PROVE  \A k \in 1..n : d[k] = 0
<1>1. d \in [1..n -> Nat]
  OBVIOUS
<1>2. \A k \in 1..n : d[k] <= SumTo(d, n)
  BY <1>1, SumOfNats
<1> QED BY <1>1, <1>2

(* A call of Next, as the lemmas above see it. *)
LEMMA WTurn ==
  ASSUME WInv, WNext, wList # <<>>
  PROVE  /\ Raises(Len(wList), Tallies, ListWeights, Raised)
         /\ Pays(Len(wList), Raised, Best(Raised), total, Tallies')
         /\ Len(wList') = Len(wList) /\ Len(wList) > 0
         /\ \A i \in Positions : /\ wList'[i] \in Entries
                                 /\ wList'[i].addr = wList[i].addr
                                 /\ wList'[i].weight = wList[i].weight
         /\ total' = total /\ ListWeights' = ListWeights
<1> DEFINE n == Len(wList)
           b == Best(Raised)
<1>1. /\ n \in Nat /\ n > 0 /\ Positions = 1..n /\ \A i \in Positions : wList[i] \in Entries
      /\ Tallies \in [1..n -> Int] /\ ListWeights \in [1..n -> Nat \ {0}]
      /\ total = SumTo(ListWeights, n)
  BY ListParts DEF WInv
<1>2. Raised \in [1..n -> Int] /\ \A i \in 1..n : Raised[i] = Tallies[i] + ListWeights[i]
  BY <1>1 DEF Raised, Tallies, ListWeights, Entries
<1>3. b \in 1..n /\ \A j \in 1..n : Raised[j] <= Raised[b]
  BY <1>1, <1>2, BestIsFirst
<1>4. total \in Nat
  <2>1. ListWeights \in [1..n -> Nat]
    BY <1>1
  <2> QED BY <1>1, <2>1, SumOfNats
<1> HIDE DEF b
<1>5. wList' = [i \in 1..n |-> [wList[i] EXCEPT !.current =
                                  IF i = b THEN Raised[i] - total ELSE Raised[i]]]
  BY <1>1 DEF WNext, Lowered, b
<1> HIDE DEF n
<1>6. \A i \in 1..n : /\ wList'[i] \in Entries
                      /\ wList'[i].addr = wList[i].addr
                      /\ wList'[i].weight = wList[i].weight
                      /\ wList'[i].current = IF i = b THEN Raised[i] - total ELSE Raised[i]
  <2> SUFFICES ASSUME NEW i \in 1..n
               PROVE  /\ wList'[i] \in Entries
                      /\ wList'[i].addr = wList[i].addr
                      /\ wList'[i].weight = wList[i].weight
                      /\ wList'[i].current = IF i = b THEN Raised[i] - total ELSE Raised[i]
    OBVIOUS
  <2> DEFINE x == IF i = b THEN Raised[i] - total ELSE Raised[i]
  <2>1. x \in Int
    BY <1>2, <1>4
  <2>2. wList[i] \in Entries
    BY <1>1
  <2>3. wList'[i] = [wList[i] EXCEPT !.current = x]
    BY <1>5
  <2> HIDE DEF x
  <2>4. /\ wList'[i] \in Entries /\ wList'[i].addr = wList[i].addr
        /\ wList'[i].weight = wList[i].weight /\ wList'[i].current = x
    BY <2>1, <2>2, <2>3 DEF Entries
  <2> QED BY <2>4 DEF x
<1>7. Len(wList') = n
  <2>1. wList' \in [1..n -> Entries]
    BY <1>5, <1>6
  <2> QED BY <1>1, <2>1, SeqLength, Zenon
<1>8. Tallies' \in [1..n -> Int] /\ \A i \in 1..n : Tallies'[i] = IF i = b THEN Raised[i] - total ELSE Raised[i]
  BY <1>6, <1>7 DEF Tallies, Positions, Entries
<1>9. ListWeights' = ListWeights
  BY <1>1, <1>6, <1>7 DEF ListWeights, Positions, n
<1>10. total' = total
  BY DEF WNext
<1> QED BY <1>1, <1>2, <1>3, <1>6, <1>7, <1>8, <1>9, <1>10 DEF Raises, Pays, n, b

(* One call more at one place. *)
LEMMA OneMore ==
  ASSUME NEW n \in Nat, NEW f \in [1..n -> Nat], NEW b \in 1..n
  PROVE  /\ [f EXCEPT ![b] = @ + 1] \in [1..n -> Nat]
         /\ SumTo([f EXCEPT ![b] = @ + 1], n) = SumTo(f, n) + 1
<1> DEFINE one == [k \in 1..n |-> IF k = b THEN 1 ELSE 0]
           h == [f EXCEPT ![b] = @ + 1]
<1>1. /\ one \in [1..n -> Int] /\ \A k \in 1..n : one[k] = IF k = b THEN 1 ELSE 0
  OBVIOUS
<1>2. h \in [1..n -> Nat] /\ h \in [1..n -> Int] /\ f \in [1..n -> Int]
  OBVIOUS
<1>3. ASSUME NEW k \in 1..n PROVE h[k] = f[k] + one[k]
  OBVIOUS
<1> HIDE DEF one, h
<1>4. SumTo(one, n) = 1
  BY <1>1, SumSingle
<1>5. SumTo(h, n) = SumTo(f, n) + SumTo(one, n)
  BY <1>1, <1>2, <1>3, SumAdd
<1> QED BY <1>2, <1>4, <1>5 DEF h

(* Next raises every tally by what the backend is due, and takes the price   *)
(* of one call from the backend that answers it.  If that completes the      *)
(* total, no tally is negative, so all are 0 and a new cycle begins.         *)
LEMMA WNextInv == ASSUME WInv, WNext PROVE WInv'
<1>1. CASE wList = <<>>
  BY <1>1 DEF WInv, WNext, wVars, WTypeOK, Tallies, Positions, Near, WTallies, Deviation, Calls,
              WCycle, Listed, WLoyalWeights, InitialWeight
<1>2. CASE wList # <<>>
  <2> DEFINE n == Len(wList)
             b == Best(Raised)
             reset == \A i \in Positions : wList'[i].current = 0
  <2>1. /\ Raises(n, Tallies, ListWeights, Raised) /\ Pays(n, Raised, b, total, Tallies')
        /\ Len(wList') = n /\ n > 0
        /\ \A i \in Positions : /\ wList'[i] \in Entries
                                /\ wList'[i].addr = wList[i].addr
                                /\ wList'[i].weight = wList[i].weight
        /\ total' = total /\ ListWeights' = ListWeights
    BY <1>2, WTurn
  <2>2. /\ n \in Nat /\ Positions = 1..n /\ \A i \in Positions : wList[i] \in Entries
        /\ wPicks \in [1..n -> Nat] /\ total = SumTo(ListWeights, n)
    BY ListParts DEF WInv
  <2>3. Positions' = Positions /\ weights' = weights /\ known' = known /\ loyal' = loyal
    BY <1>2, <2>1, <2>2 DEF Positions, WNext
  <2>4. SumTo(Tallies, n) = 0 /\ Near(Tallies, n, total)
    BY DEF WInv
  <2>5. b \in 1..n
    BY <2>1 DEF Pays
  <2>6. wPicks' = IF reset THEN NoTally(n) ELSE [wPicks EXCEPT ![b] = @ + 1]
    BY <1>2 DEF WNext
  <2> HIDE DEF n, b, reset
  <2>7. total > 0 /\ SumTo(Tallies', n) = 0 /\ Near(Tallies', n, total)
    BY <2>1, <2>2, <2>4, TurnKeepsNear
  <2>8. total \in Nat
    <3>1. ListWeights \in [1..n -> Nat]
      BY <2>1 DEF Raises
    <3> QED BY <2>2, <3>1, SumOfNats
  <2>9. \A i \in 1..n : /\ wList[i].current \in Int /\ wList[i].weight \in Nat
                        /\ wList'[i].current = wList[i].current + wList[i].weight
                                                - (IF i = b THEN total ELSE 0)
    <3> SUFFICES ASSUME NEW i \in 1..n
                 PROVE  /\ wList[i].current \in Int /\ wList[i].weight \in Nat
                        /\ wList'[i].current = wList[i].current + wList[i].weight
                                                - (IF i = b THEN total ELSE 0)
      OBVIOUS
    <3>1. wList[i].current \in Int /\ wList[i].weight \in Nat
      BY <2>2 DEF Entries
    <3>2. Raised[i] = wList[i].current + wList[i].weight
      BY <2>2 DEF Raised
    <3>3. wList'[i].current = IF i = b THEN Raised[i] - total ELSE Raised[i]
      BY <2>1, <2>2, <2>3 DEF Pays, Tallies
    <3> QED BY <2>8, <3>1, <3>2, <3>3
  <2>10. wPicks' \in [1..n -> Nat]
    <3>1. NoTally(n) \in [1..n -> Nat]
      BY DEF NoTally
    <3> QED BY <2>2, <2>5, <2>6, <3>1, OneMore
  <2>11. Calls = SumTo(wPicks, n) /\ Calls' = SumTo(wPicks', n) /\ Calls \in Nat /\ Calls < total
    <3>1. Calls = SumTo(wPicks, n) /\ Calls' = SumTo(wPicks', n)
      BY <2>1 DEF Calls, n
    <3>2. SumTo(wPicks, n) \in Nat
      BY <2>2, SumOfNats
    <3> QED BY <1>2, <3>1, <3>2 DEF WInv, WCycle
  <2>12. \A i \in 1..n : wList[i].current = Calls * wList[i].weight - wPicks[i] * total
    BY <2>2 DEF WInv, WTallies, Deviation
  <2>13. WTypeOK'
    <3>1. wList' \in Seq(Entries)
      <4>1. wList' \in [1..n -> Entries]
        <5>1. wList' = [i \in 1..n |-> wList'[i]]
          BY <1>2, <2>2 DEF WNext
        <5> QED BY <2>1, <2>2, <5>1
      <4> QED BY <2>2, <4>1, SeqLength, Zenon
    <3>2. TotalOf(wList') = SumTo(ListWeights', n)
      BY <2>1, <2>2, <2>3 DEF TotalOf, ListWeights
    <3>3. loyal \subseteq known /\ known \subseteq Addrs /\ weights \in Weightings
      BY DEF WInv, WTypeOK
    <3> QED BY <2>1, <2>2, <2>3, <2>10, <3>1, <3>2, <3>3 DEF WTypeOK, Entries
  <2>14. ASSUME reset PROVE WTallies' /\ WCycle'
    <3>1. wPicks' = NoTally(n) /\ \A i \in 1..n : wPicks'[i] = 0
      BY <2>6, <2>14 DEF NoTally
    <3>2. Calls' = 0
      <4>1. wPicks' \in [1..n -> Int]
        BY <2>10
      <4>2. SumTo(wPicks', n) = n * 0
        BY <2>2, <3>1, <4>1, SumConstant
      <4> QED BY <2>2, <2>11, <4>2
    <3>3. WTallies'
      <4> SUFFICES ASSUME NEW i \in Positions' PROVE wList'[i].current = Deviation(i)'
        BY DEF WTallies
      <4>1. wList'[i].current = 0 /\ wPicks'[i] = 0 /\ wList'[i].weight \in Nat
        BY <2>1, <2>2, <2>3, <2>14, <3>1 DEF Entries, reset
      <4>2. 0 * wList'[i].weight - 0 * total = 0
        BY <2>8, <4>1
      <4> QED BY <2>1, <3>2, <4>1, <4>2 DEF Deviation
    <3>4. WCycle'
      <4>1. total' = total
        BY <2>1
      <4> QED BY <2>7, <2>8, <3>2, <4>1 DEF WCycle
    <3> QED BY <3>3, <3>4
  <2>15. ASSUME ~reset PROVE WTallies' /\ WCycle'
    <3>1. wPicks' = [wPicks EXCEPT ![b] = @ + 1]
      BY <2>6, <2>15
    <3>2. Calls' = Calls + 1
      BY <2>2, <2>5, <2>11, <3>1, OneMore
    <3>3. \A i \in 1..n : wPicks'[i] = wPicks[i] + (IF i = b THEN 1 ELSE 0)
      BY <2>2, <2>5, <3>1
    <3>4. ASSUME NEW i \in 1..n
          PROVE  /\ wPicks'[i] \in Nat /\ wList'[i].weight \in Nat /\ wList'[i].weight = wList[i].weight
                 /\ wList'[i].current = (Calls + 1) * wList'[i].weight - wPicks'[i] * total
      <4> DEFINE w == wList[i].weight
                 p == wPicks[i]
                 e == IF i = b THEN 1 ELSE 0
                 k == Calls
      <4>1. w \in Nat /\ p \in Nat /\ e \in Nat /\ k \in Nat
        BY <2>2, <2>9, <2>11
      <4>2. wList'[i].weight = w /\ wPicks'[i] = p + e
        BY <2>1, <2>2, <3>3
      <4>3. wList'[i].current = k * w - p * total + w - (IF i = b THEN total ELSE 0)
        BY <2>9, <2>12
      <4>4. e * total = IF i = b THEN total ELSE 0
        BY <2>8
      <4> HIDE DEF w, p, e, k
      <4>5. (k + 1) * w = k * w + w /\ (p + e) * total = p * total + e * total
        BY <2>8, <4>1
      <4>6. k * w \in Int /\ p * total \in Int /\ e * total \in Int /\ p + e \in Nat
        BY <2>8, <4>1
      <4>7. wList'[i].current = (k + 1) * w - (p + e) * total
        BY <2>8, <4>1, <4>3, <4>4, <4>5, <4>6
      <4> QED BY <4>1, <4>2, <4>6, <4>7 DEF k, w
    <3>5. WTallies'
      BY <2>1, <2>2, <2>3, <3>2, <3>4 DEF WTallies, Deviation
    <3>6. Calls + 1 # total
      <4> SUFFICES ASSUME Calls + 1 = total PROVE FALSE
        OBVIOUS
      <4>1. ASSUME NEW i \in 1..n PROVE Tallies'[i] = wList'[i].current /\ Tallies'[i] >= 0
        <5> DEFINE x == wList'[i].weight - wPicks'[i]
        <5>1. Tallies'[i] = wList'[i].current
          BY <2>2, <2>3 DEF Tallies
        <5>2. x \in Int
          BY <3>4
        <5>3. wList'[i].current = total * x
          BY <2>8, <3>4
        <5>4. Tallies'[i] > -total
          BY <2>7 DEF Near
        <5> HIDE DEF x
        <5>5. total * x > -total
          BY <5>1, <5>3, <5>4
        <5>6. total * x >= 0
          BY <2>7, <2>8, <5>2, <5>5, AboveMinusTotal
        <5> QED BY <5>1, <5>3, <5>6
      <4>2. Tallies' \in [1..n -> Int]
        BY <2>1 DEF Pays
      <4>3. \A i \in 1..n : Tallies'[i] = 0
        BY <2>2, <2>7, <4>1, <4>2, AllZero
      <4> QED BY <2>2, <2>15, <4>1, <4>3 DEF reset
    <3>7. WCycle'
      <4>1. total' = total
        BY <2>1
      <4>2. Calls' < total
        BY <2>8, <2>11, <3>2, <3>6
      <4> QED BY <4>1, <4>2 DEF WCycle
    <3> QED BY <3>5, <3>7
  <2>16. (loyal \subseteq Listed)'
    <3>1. Listed' = Listed
      BY <2>1, <2>3 DEF Listed
    <3> QED BY <2>3, <3>1 DEF WInv
  <2>17. WLoyalWeights'
    <3>1. ASSUME NEW i \in Positions, wList[i].addr \in loyal
          PROVE  wList[i].weight = InitialWeight(wList[i].addr)
      BY <3>1 DEF WInv, WLoyalWeights
    <3> QED BY <2>1, <2>3, <3>1 DEF WLoyalWeights, InitialWeight
  <2>18. (SumTo(Tallies, Len(wList)) = 0 /\ Near(Tallies, Len(wList), total))'
    BY <2>1, <2>7
  <2> QED BY <2>13, <2>14, <2>15, <2>16, <2>17, <2>18 DEF WInv
<1> QED BY <1>1, <1>2

(* The tallies are the deviations, and they are near 0. *)
LEMMA WInvSmooth == WInv => WSmooth
<1> SUFFICES ASSUME WInv, NEW i \in Positions
             PROVE  /\ Deviation(i) > -total
                    /\ 2 * Deviation(i) <= (Len(wList) - 1) * total
                    /\ Len(wList) <= 3 => Deviation(i) < total
  BY DEF WSmooth
<1> DEFINE n == Len(wList)
           t == total
           x == Deviation(i)
<1>1. n \in Nat /\ n > 0 /\ Positions = 1..n /\ wPicks \in [1..n -> Nat] /\ wList # <<>>
  <2>1. WTypeOK
    BY DEF WInv
  <2>2. n \in Nat /\ Positions = 1..n /\ wPicks \in [1..n -> Nat]
    BY <2>1, ListParts
  <2>3. wList # <<>>
    BY <2>2
  <2> QED BY <2>2, <2>3
<1>2. t \in Nat /\ t > 0
  <2>1. ListWeights \in [1..n -> Nat] /\ t = SumTo(ListWeights, n)
    BY ListParts DEF WInv
  <2>2. t \in Nat
    BY <1>1, <2>1, SumOfNats
  <2>3. Calls \in Nat
    BY <1>1, SumOfNats DEF Calls
  <2> QED BY <1>1, <2>2, <2>3 DEF WInv, WCycle
<1>3. x = Tallies[i]
  BY DEF WInv, WTallies, Tallies
<1>4. x \in Int
  BY <1>1, <1>3, ListParts DEF WInv
<1>5. x > -t /\ 2 * x <= t + (n - 2) * (t - 1)
  BY <1>1, <1>3 DEF WInv, Near
<1> HIDE DEF n, t, x
<1>6. /\ (n - 2) * (t - 1) = (n - 2) * t - (n - 2) /\ (n - 1) * t = (n - 2) * t + t
      /\ (n - 2) * t \in Int /\ (n - 1) * t \in Int
  BY <1>1, <1>2
<1>7. 2 * x <= (n - 1) * t - (n - 2)
  BY <1>1, <1>2, <1>4, <1>5, <1>6
<1>8. CASE n = 1
  BY <1>2, <1>4, <1>5, <1>7, <1>8 DEF n, t, x
<1>9. CASE n = 2
  BY <1>2, <1>4, <1>5, <1>7, <1>9 DEF n, t, x
<1>10. CASE n = 3
  BY <1>2, <1>4, <1>5, <1>7, <1>10 DEF n, t, x
<1>11. CASE n > 3
  BY <1>1, <1>2, <1>4, <1>5, <1>6, <1>7, <1>11 DEF n, t, x
<1> QED BY <1>1, <1>8, <1>9, <1>10, <1>11

(* The addresses of the list. *)
Addresses == [i \in Positions |-> wList[i].addr]

(* Next answers from the list. *)
LEMMA WAnswers == WTypeOK => WAnswer \in Answers(Addresses)
<1> SUFFICES ASSUME WTypeOK PROVE WAnswer \in Answers(Addresses)
  OBVIOUS
<1>1. /\ Len(wList) \in Nat /\ Positions = 1..Len(wList) /\ (wList # <<>> => Len(wList) > 0)
      /\ \A i \in Positions : wList[i] \in Entries
  BY ListParts
<1>2. CASE wList = <<>>
  <2>1. Addresses = <<>>
    BY <1>1, <1>2 DEF Addresses
  <2> QED BY <1>2, <2>1 DEF WAnswer, Answers
<1>3. CASE wList # <<>>
  <2>1. Raised \in [1..Len(wList) -> Int]
    BY <1>1 DEF Raised, Entries
  <2>2. Best(Raised) \in Positions
    BY <1>1, <1>3, <2>1, BestIsFirst
  <2>3. DOMAIN Addresses = Positions /\ Addresses[Best(Raised)] = wList[Best(Raised)].addr
    BY <2>2 DEF Addresses
  <2>4. Addresses # <<>>
    <3>1. 1 \in DOMAIN Addresses
      BY <1>1, <1>3, <2>3
    <3> QED BY <3>1
  <2> QED BY <1>3, <2>2, <2>3, <2>4 DEF WAnswer, Answers, Range
<1> QED BY <1>2, <1>3

(* Answers are listed addresses, or none. *)
LEMMA AnswersTyped ==
  ASSUME NEW S, NEW list, NEW n \in Nat, list \in [1..n -> S]
  PROVE  Answers(list) \subseteq S \cup {None}
BY DEF Answers, Range

-----------------------------------------------------------------------------
(* The balancer of the gate. *)

(* The list the chosen balancer holds, which is always the one given last.   *)
CurrentList == IF algorithm = "weighted" THEN [i \in Positions |-> wList[i].addr] ELSE rrList

IInv ==
  /\ algorithm \in {"round_robin", "weighted"}
  /\ RRInv /\ WInv
  /\ CurrentList = installed
  /\ answer \in Addrs \cup {None} /\ installed \in Lists
  /\ replaced \in 0..MaxSets

LEMMA RRInvKept == RRInv /\ UNCHANGED rrVars => RRInv'
BY DEF RRInv, RRTypeOK, Rounds, rrVars

LEMMA WInvKept == WInv /\ UNCHANGED wVars => WInv'
BY DEF WInv, wVars, WTypeOK, Tallies, Positions, Near, WTallies, Deviation, Calls, WCycle, Listed,
       WLoyalWeights, InitialWeight

LEMMA IInvInit == RouterInit => IInv
<1> SUFFICES ASSUME RouterInit PROVE IInv
  OBVIOUS
<1>1. algorithm \in {"round_robin", "weighted"} /\ answer = None /\ replaced = 0
  BY DEF RouterInit
<1>2. 0 \in 0..MaxSets
  BY MaxSetsAssumption
<1>3. /\ installed \in Lists
      /\ IF algorithm = "weighted" THEN WInit(installed) /\ RRInit(<<>>)
                                   ELSE RRInit(installed) /\ WInit(<<>>)
  BY DEF RouterInit
<1>4. <<>> \in Lists \cup {<<>>} /\ installed \in Lists \cup {<<>>}
  BY <1>3
<1>5. RRInv /\ WInv
  <2>1. CASE algorithm = "weighted"
    BY <1>3, <1>4, <2>1, WInitInv, RRInitInv
  <2>2. CASE algorithm # "weighted"
    BY <1>3, <1>4, <2>2, WInitInv, RRInitInv
  <2> QED BY <2>1, <2>2
<1>6. CurrentList = installed
  <2>1. CASE algorithm = "weighted"
    <3>1. wList = Fresh(installed, InitialWeight)
      BY <1>3, <2>1 DEF WInit
    <3>2. installed \in Seq(Addrs) /\ Len(installed) \in Nat
      BY <1>3, SomeLength
    <3> QED BY <2>1, <3>1, <3>2 DEF CurrentList, Positions, Fresh
  <2>2. CASE algorithm # "weighted"
    BY <1>3, <2>2 DEF RRInit, CurrentList
  <2> QED BY <2>1, <2>2
<1> QED BY <1>1, <1>2, <1>3, <1>5, <1>6 DEF IInv

(* What a call of Next returns, for the list it is asked of. *)
LEMMA ChosenAnswer ==
  ASSUME IInv, Pick
  PROVE  answer' \in Answers(CurrentList) /\ CurrentList' = CurrentList
<1>1. CASE algorithm = "weighted"
  <2>1. answer' = WAnswer /\ WNext /\ algorithm' = algorithm
    BY <1>1 DEF Pick
  <2>2. CurrentList = Addresses /\ CurrentList' = Addresses'
    BY <1>1, <2>1 DEF CurrentList, Addresses
  <2>3. WAnswer \in Answers(Addresses)
    BY WAnswers DEF IInv, WInv
  <2>4. Addresses' = Addresses
    <3>1. CASE wList = <<>>
      BY <2>1, <3>1 DEF WNext, wVars, Addresses, Positions
    <3>2. CASE wList # <<>>
      <4>1. Positions' = Positions /\ \A i \in Positions : wList'[i].addr = wList[i].addr
        BY <2>1, <3>2, WTurn DEF IInv, Positions
      <4> QED BY <4>1 DEF Addresses
    <3> QED BY <3>1, <3>2
  <2> QED BY <2>1, <2>2, <2>3, <2>4
<1>2. CASE algorithm # "weighted"
  <2>1. answer' = RRAnswer /\ RRNext /\ algorithm' = algorithm
    BY <1>2 DEF Pick
  <2>2. rrList' = rrList
    BY <2>1 DEF RRNext, rrVars
  <2>3. RRAnswer \in Answers(rrList)
    BY RRAnswers DEF IInv, RRInv
  <2> QED BY <1>2, <2>1, <2>2, <2>3 DEF CurrentList
<1> QED BY <1>1, <1>2

LEMMA IInvChoose == ASSUME IInv, Pick PROVE IInv'
<1>1. algorithm' = algorithm /\ installed' = installed /\ replaced' = replaced
  BY DEF Pick
<1>2. RRInv' /\ WInv'
  <2>1. CASE algorithm = "weighted"
    BY <2>1, WNextInv, RRInvKept DEF Pick, IInv
  <2>2. CASE algorithm # "weighted"
    BY <2>2, RRNextInv, WInvKept DEF Pick, IInv
  <2> QED BY <2>1, <2>2
<1>3. answer' \in Addrs \cup {None}
  <2>1. PICK n \in Nat : CurrentList \in [1..n -> Addrs]
    <3>1. CASE algorithm = "weighted"
      <4>1. Len(wList) \in Nat /\ Positions = 1..Len(wList) /\ \A i \in Positions : wList[i] \in Entries
        BY ListParts DEF IInv, WInv
      <4>2. CurrentList \in [1..Len(wList) -> Addrs]
        BY <3>1, <4>1 DEF CurrentList, Entries
      <4> QED BY <4>1, <4>2
    <3>2. CASE algorithm # "weighted"
      <4>1. rrList \in Seq(Addrs) /\ Len(rrList) \in Nat
        BY SomeLength DEF IInv, RRInv, RRTypeOK
      <4>2. rrList \in [1..Len(rrList) -> Addrs]
        BY <4>1
      <4> QED BY <3>2, <4>1, <4>2 DEF CurrentList
    <3> QED BY <3>1, <3>2
  <2> QED BY <2>1, ChosenAnswer, AnswersTyped
<1>4. CurrentList' = installed'
  BY <1>1, ChosenAnswer DEF IInv
<1> QED BY <1>1, <1>2, <1>3, <1>4 DEF IInv

LEMMA IInvReplace == ASSUME IInv, Replace PROVE IInv'
<1>1. /\ algorithm' = algorithm /\ answer' = answer /\ installed' \in Lists
      /\ replaced' = replaced + 1 /\ replaced < MaxSets
  BY DEF Replace
<1>2. replaced' \in 0..MaxSets
  BY <1>1, MaxSetsAssumption DEF IInv
<1>3. IF algorithm = "weighted" THEN WSetBackends(installed') /\ UNCHANGED rrVars
                                ELSE RRSetBackends(installed') /\ UNCHANGED wVars
  BY DEF Replace
<1>4. RRInv' /\ WInv'
  <2>1. CASE algorithm = "weighted"
    BY <1>1, <1>3, <2>1, WSetBackendsInv, RRInvKept DEF IInv
  <2>2. CASE algorithm # "weighted"
    BY <1>1, <1>3, <2>2, RRSetBackendsInv, WInvKept DEF IInv
  <2> QED BY <2>1, <2>2
<1>5. CurrentList' = installed'
  <2>1. installed' \in Seq(Addrs) /\ Len(installed') \in Nat
    BY <1>1, SomeLength
  <2>2. CASE algorithm = "weighted"
    <3>1. wList' = Fresh(installed', KeptWeight)
      BY <1>3, <2>2 DEF WSetBackends
    <3> QED BY <1>1, <2>1, <2>2, <3>1 DEF CurrentList, Positions, Fresh
  <2>3. CASE algorithm # "weighted"
    BY <1>1, <1>3, <2>3 DEF RRSetBackends, CurrentList
  <2> QED BY <2>2, <2>3
<1> QED BY <1>1, <1>2, <1>4, <1>5 DEF IInv

LEMMA IInvInductive == IInv /\ [RouterNext]_routerVars => IInv'
<1> SUFFICES ASSUME IInv, [RouterNext]_routerVars PROVE IInv'
  OBVIOUS
<1>1. CASE Pick
  BY <1>1, IInvChoose
<1>2. CASE Replace
  BY <1>2, IInvReplace
<1>3. CASE UNCHANGED routerVars
  <2>1. CurrentList' = CurrentList
    BY <1>3 DEF routerVars, rrVars, wVars, CurrentList, Positions
  <2> QED BY <1>3, <2>1, RRInvKept, WInvKept DEF IInv, routerVars
<1> QED BY <1>1, <1>2, <1>3 DEF RouterNext

THEOREM InvCorrect == RouterSpec => []IInv
BY IInvInit, IInvInductive, PTL DEF RouterSpec

(* Every variable keeps its type, and w.total is always the sum of the       *)
(* weights of the list.                                                      *)
THEOREM TypeCorrect == RouterSpec => []RouterTypeOK
<1>1. IInv => RouterTypeOK
  BY DEF IInv, RRInv, WInv, RouterTypeOK
<1> QED BY <1>1, InvCorrect, PTL

(* Round robin: as long as neither the list changes nor the counter wraps,   *)
(* no backend gets two calls more than another, wherever the counter stands. *)
THEOREM EvenSpreadCorrect == RouterSpec => []EvenSpread
<1>1. IInv => EvenSpread
  BY RRInvEven DEF IInv, EvenSpread
<1> QED BY <1>1, InvCorrect, PTL

(* Weighted: currentWeight is how many calls the backend is short of, or     *)
(* ahead of, its share of all calls (in parts of the total weight).          *)
THEOREM TalliesCorrect == RouterSpec => []TalliesAreDeviations
<1>1. IInv => TalliesAreDeviations
  BY DEF IInv, WInv, TalliesAreDeviations
<1> QED BY <1>1, InvCorrect, PTL

(* Weighted: no backend is ever a call ahead of its share, and how far it    *)
(* can fall behind.                                                          *)
THEOREM SmoothCorrect == RouterSpec => []Smooth
<1>1. IInv => Smooth
  BY WInvSmooth DEF IInv, Smooth
<1> QED BY <1>1, InvCorrect, PTL

(* Weighted: after as many calls as the weights add up to, every backend has *)
(* answered exactly its share and all tallies are 0 again.                   *)
THEOREM CycleCorrect == RouterSpec => []Cycle
<1>1. IInv => Cycle
  BY DEF IInv, WInv, Cycle
<1> QED BY <1>1, InvCorrect, PTL

(* Weighted: SetBackends keeps the configured weight of a backend that every *)
(* list so far has named.                                                    *)
THEOREM LoyalWeightsCorrect == RouterSpec => []LoyalWeights
<1>1. IInv => LoyalWeights
  BY DEF IInv, WInv, LoyalWeights
<1> QED BY <1>1, InvCorrect, PTL

-----------------------------------------------------------------------------
(* The refinement of the interface. *)

LEMMA InterfaceInit == RouterInit => Interface!Init
BY DEF RouterInit, Interface!Init

LEMMA InterfaceStep ==
  IInv /\ [RouterNext]_routerVars => [Interface!Next \/ Interface!SetBackends]_<<installed, answer>>
<1> SUFFICES ASSUME IInv, [RouterNext]_routerVars
             PROVE  [Interface!Next \/ Interface!SetBackends]_<<installed, answer>>
  OBVIOUS
<1>1. CASE Pick
  <2>1. answer' \in Answers(installed) /\ installed' = installed
    BY <1>1, ChosenAnswer DEF IInv, Pick
  <2>2. Interface!Answers(installed) = Answers(installed)
    BY DEF Interface!Answers, Interface!Range, Answers, Range
  <2> QED BY <2>1, <2>2 DEF Interface!Next
<1>2. CASE Replace
  BY <1>2 DEF Replace, Interface!SetBackends
<1>3. CASE UNCHANGED routerVars
  BY <1>3 DEF routerVars
<1> QED BY <1>1, <1>2, <1>3 DEF RouterNext

(* Either algorithm, built for any list and given any others, answers as the *)
(* interface promises: a backend of the list given last, or "".              *)
THEOREM BalancerImplemented == RouterSpec => ImplementsBalancer
BY InterfaceInit, InterfaceStep, InvCorrect, PTL DEF RouterSpec, ImplementsBalancer, Interface!Spec
=============================================================================
