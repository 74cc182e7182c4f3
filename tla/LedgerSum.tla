----------------------------- MODULE LedgerSum -----------------------------
(***************************************************************************)
(* The fold at the bottom of every budget: cumulative spend is a sum over  *)
(* ledger rows, never a stored counter (rollUpWindow's `amount += ...`).   *)
(* Written as a recursive function; the lemmas say how a sum changes with  *)
(* its terms.                                                              *)
(***************************************************************************)
EXTENDS Integers, WellFoundedInduction, TLAPS

\* The partial sums of f over 0..n, f a function on 1..n.
Running(f, n) ==
  LET s[i \in 0..n] == IF i = 0 THEN 0 ELSE s[i - 1] + f[i]
  IN  s

Total(f, n) == Running(f, n)[n]

----------------------------------------------------------------------------
\* Induction over the naturals, stated with a set: a set of naturals that has 0
\* and is closed under successor has them all.  It is what the lemmas below use
\* to follow rollUpWindow's running sum from entry to entry.
LEMMA NatSetInduction ==
  ASSUME NEW S \in SUBSET Nat, 0 \in S, \A n \in S : n + 1 \in S
  PROVE  S = Nat
<1> DEFINE R == OpToRel(<, Nat)
           T == Nat \ S
<1>1. SUFFICES ASSUME T # {} PROVE FALSE
  OBVIOUS
<1>2. IsWellFoundedOn(R, Nat)
  BY NatLessThanWellFounded
<1>3. T \subseteq Nat
  OBVIOUS
<1>4. PICK x \in T : \A y \in T : ~ (<<y, x>> \in R)
  <2> HIDE DEF R, T
  <2> QED BY <1>1, <1>2, <1>3, WFMin
<1>5. x # 0 /\ x - 1 \in Nat
  OBVIOUS
<1>6. x - 1 \in T
  OBVIOUS
<1>7. <<x - 1, x>> \in R
  BY <1>5 DEF OpToRel
<1>8. QED
  BY <1>4, <1>6, <1>7

\* The equations Running must satisfy.
IsRunning(s, f, n) ==
  /\ s \in [0..n -> Int]
  /\ s[0] = 0
  /\ \A i \in 1..n : s[i] = s[i - 1] + f[i]

\* The partial sums exist, so the recursion of Running (rollUpWindow's loop)
\* defines a function.
LEMMA RunningExists ==
  ASSUME NEW n \in Nat, NEW f \in [1..n -> Int]
  PROVE  \E s : IsRunning(s, f, n)
<1> DEFINE S == {k \in Nat : k <= n => \E s : IsRunning(s, f, k)}
<1>1. 0 \in S
  <2>1. IsRunning([i \in 0..0 |-> 0], f, 0)
    BY DEF IsRunning
  <2> QED BY <2>1
<1>2. ASSUME NEW k \in S PROVE k + 1 \in S
  <2>1. SUFFICES ASSUME k + 1 <= n PROVE \E s : IsRunning(s, f, k + 1)
    OBVIOUS
  <2>2. PICK s : IsRunning(s, f, k)
    BY <2>1
  <2> DEFINE t == [i \in 0..(k + 1) |-> IF i = k + 1 THEN s[k] + f[k + 1] ELSE s[i]]
  <2>3. k \in Nat /\ k + 1 \in 1..n /\ f[k + 1] \in Int /\ s[k] \in Int
    BY <2>1, <2>2 DEF IsRunning
  <2>4. t \in [0..(k + 1) -> Int]
    BY <2>2, <2>3 DEF IsRunning
  <2>5. t[0] = 0
    BY <2>2, <2>3 DEF IsRunning
  <2>6. ASSUME NEW i \in 1..(k + 1) PROVE t[i] = t[i - 1] + f[i]
    <3>1. CASE i = k + 1
      BY <3>1, <2>3
    <3>2. CASE i # k + 1
      <4>1. i \in 1..k /\ i - 1 \in 0..k
        BY <3>2, <2>3
      <4>2. s[i] = s[i - 1] + f[i]
        BY <4>1, <2>2 DEF IsRunning
      <4>3. t[i] = s[i] /\ t[i - 1] = s[i - 1]
        BY <4>1, <2>3
      <4> QED BY <4>2, <4>3
    <3> QED BY <3>1, <3>2
  <2> QED BY <2>4, <2>5, <2>6 DEF IsRunning
<1>3. S = Nat
  <2> HIDE DEF S
  <2> QED BY <1>1, <1>2, NatSetInduction DEF S
<1>4. n \in S
  BY <1>3
<1> QED BY <1>4

\* Running(f, n) satisfies its recursion equations: rollUpWindow adds one entry
\* at a time to the amount so far.
LEMMA RunningDef ==
  ASSUME NEW n \in Nat, NEW f \in [1..n -> Int]
  PROVE  IsRunning(Running(f, n), f, n)
<1> DEFINE Body(s) == [i \in 0..n |-> IF i = 0 THEN 0 ELSE s[i - 1] + f[i]]
           r == Running(f, n)
<1>1. PICK s : IsRunning(s, f, n)
  BY RunningExists
<1>2. s = Body(s)
  BY <1>1 DEF IsRunning
<1>3. r = CHOOSE x : x = Body(x)
  BY DEF Running
<1>4. r = Body(r)
  <2> HIDE DEF Body, r
  <2> QED BY <1>2, <1>3
<1>5. r[0] = 0 /\ DOMAIN r = 0..n
  BY <1>4
<1>6. \A i \in 1..n : r[i] = r[i - 1] + f[i]
  <2> TAKE i \in 1..n
  <2>1. i \in 0..n /\ i # 0
    OBVIOUS
  <2>2. r[i] = Body(r)[i]
    BY <1>4
  <2>3. Body(r)[i] = r[i - 1] + f[i]
    BY <2>1
  <2> QED BY <2>2, <2>3
<1>7. \A i \in 0..n : r[i] \in Int
  <2> HIDE DEF r
  <2> DEFINE S == {k \in Nat : k <= n => r[k] \in Int}
  <2>1. 0 \in S
    BY <1>5
  <2>2. ASSUME NEW k \in S PROVE k + 1 \in S
    BY <1>6
  <2>3. S = Nat
    <3> HIDE DEF S
    <3> QED BY <2>1, <2>2, NatSetInduction DEF S
  <2> QED BY <2>3
<1>8. r \in [0..n -> Int]
  <2>1. r = [i \in 0..n |-> r[i]]
    <3> DEFINE b == Body(r)
    <3>1. r = b
      BY <1>4
    <3>2. b = [i \in 0..n |-> b[i]]
      OBVIOUS
    <3> QED BY <3>1, <3>2
  <2> HIDE DEF r
  <2> QED BY <2>1, <1>7
<1> QED BY <1>5, <1>6, <1>8 DEF IsRunning

\* A sum of integers is an integer: a window's amount is always a number of
\* minor units.
LEMMA TotalInt ==
  ASSUME NEW n \in Nat, NEW f \in [1..n -> Int]
  PROVE  Total(f, n) \in Int
BY RunningDef DEF Total, IsRunning

\* Changing one term changes the sum by the difference: a transaction that writes
\* ledger rows of one authorization moves a window's amount by those rows alone.
LEMMA TotalChangeOne ==
  ASSUME NEW n \in Nat, NEW f \in [1..n -> Int], NEW g \in [1..n -> Int],
         NEW k \in 1..n, \A i \in 1..n : i # k => g[i] = f[i]
  PROVE  Total(g, n) = Total(f, n) + g[k] - f[k]
<1> DEFINE r == Running(f, n)
           q == Running(g, n)
           S == {m \in Nat : m <= n => q[m] = r[m] + (IF m < k THEN 0 ELSE g[k] - f[k])}
<1>1. IsRunning(r, f, n) /\ IsRunning(q, g, n)
  BY RunningDef
<1> HIDE DEF r, q
<1>2. 0 \in S
  BY <1>1 DEF IsRunning
<1>3. ASSUME NEW m \in S PROVE m + 1 \in S
  <2>1. SUFFICES ASSUME m + 1 <= n
                 PROVE q[m + 1] = r[m + 1] + (IF m + 1 < k THEN 0 ELSE g[k] - f[k])
    OBVIOUS
  <2>2. m \in Nat /\ m + 1 \in 1..n /\ m \in 0..n /\ (m + 1) - 1 = m
    BY <2>1
  <2>3. q[m + 1] = q[m] + g[m + 1] /\ r[m + 1] = r[m] + f[m + 1]
    BY <1>1, <2>2 DEF IsRunning
  <2>4. q[m] \in Int /\ r[m] \in Int
    BY <1>1, <2>2 DEF IsRunning
  <2>5. f[m + 1] \in Int /\ g[m + 1] \in Int /\ f[k] \in Int /\ g[k] \in Int
    BY <2>2
  <2>6. CASE m + 1 = k
    <3>1. q[m] = r[m]
      BY <2>1, <2>2, <2>4, <2>6
    <3>2. q[m + 1] = q[m] + g[k] /\ r[m + 1] = r[m] + f[k]
      BY <2>3, <2>6
    <3>3. ~ (m + 1 < k)
      BY <2>2, <2>6
    <3>4. q[m + 1] = r[m + 1] + (g[k] - f[k])
      BY <2>4, <2>5, <3>1, <3>2
    <3> QED BY <3>3, <3>4
  <2>7. CASE m + 1 < k
    <3>1. q[m] = r[m]
      BY <2>1, <2>2, <2>4, <2>7
    <3>2. g[m + 1] = f[m + 1]
      BY <2>2, <2>7
    <3> QED BY <2>2, <2>3, <2>4, <2>5, <2>7, <3>1, <3>2
  <2>8. CASE k < m + 1
    <3>1. q[m] = r[m] + g[k] - f[k]
      BY <2>1, <2>2, <2>4, <2>5, <2>8
    <3>2. g[m + 1] = f[m + 1]
      BY <2>2, <2>8
    <3>3. ~ (m + 1 < k)
      BY <2>2, <2>8
    <3>4. q[m + 1] = (r[m] + g[k] - f[k]) + f[m + 1] /\ r[m + 1] = r[m] + f[m + 1]
      BY <2>3, <3>1, <3>2
    <3>5. \A a, b, c, d \in Int : (a + b - c) + d = (a + d) + (b - c)
      OBVIOUS
    <3>6. q[m + 1] = r[m + 1] + (g[k] - f[k])
      BY <2>4, <2>5, <3>4, <3>5, SMTT(30)
    <3> QED BY <3>3, <3>6
  <2> QED BY <2>2, <2>6, <2>7, <2>8
<1>4. S = Nat
  <2> HIDE DEF S
  <2> QED BY <1>2, <1>3, NatSetInduction DEF S
<1>5. n \in S
  BY <1>4
<1> QED BY <1>5 DEF Total, r, q

\* A sum over one row more is larger by that row's amount: a payment is added to
\* what its window had spent.
LEMMA TotalExtends ==
  ASSUME NEW n \in Nat, NEW f \in [1..n -> Int], NEW g \in [1..(n + 1) -> Int],
         \A i \in 1..n : g[i] = f[i]
  PROVE  Total(g, n + 1) = Total(f, n) + g[n + 1]
<1> DEFINE r == Running(f, n)
           q == Running(g, n + 1)
           S == {m \in Nat : m <= n => q[m] = r[m]}
<1>1. IsRunning(r, f, n) /\ IsRunning(q, g, n + 1)
  BY RunningDef
<1> HIDE DEF r, q
<1>2. 0 \in S
  BY <1>1 DEF IsRunning
<1>3. ASSUME NEW m \in S PROVE m + 1 \in S
  <2>1. SUFFICES ASSUME m + 1 <= n PROVE q[m + 1] = r[m + 1]
    OBVIOUS
  <2>2. m \in Nat /\ m + 1 \in 1..n /\ m + 1 \in 1..(n + 1) /\ (m + 1) - 1 = m /\ q[m] = r[m]
    BY <2>1
  <2>3. q[m + 1] = q[m] + g[m + 1] /\ r[m + 1] = r[m] + f[m + 1]
    BY <1>1, <2>2 DEF IsRunning
  <2> QED BY <2>2, <2>3
<1>4. S = Nat
  <2> HIDE DEF S
  <2> QED BY <1>2, <1>3, NatSetInduction DEF S
<1>5. n \in S
  BY <1>4
<1>6. q[n] = r[n]
  BY <1>5
<1>7. n + 1 \in 1..(n + 1) /\ (n + 1) - 1 = n
  OBVIOUS
<1>8. q[n + 1] = q[n] + g[n + 1]
  BY <1>1, <1>7 DEF IsRunning
<1> QED BY <1>6, <1>8 DEF Total, r, q

\* A sum of non-negative terms is not negative: a window is not driven below zero
\* unless some authorization's own entries are.
LEMMA TotalNonNegative ==
  ASSUME NEW n \in Nat, NEW f \in [1..n -> Int], \A i \in 1..n : f[i] >= 0
  PROVE  Total(f, n) >= 0
<1> DEFINE r == Running(f, n)
           S == {m \in Nat : m <= n => r[m] >= 0}
<1>1. IsRunning(r, f, n)
  BY RunningDef
<1> HIDE DEF r
<1>2. 0 \in S
  BY <1>1 DEF IsRunning
<1>3. ASSUME NEW m \in S PROVE m + 1 \in S
  BY <1>1 DEF IsRunning
<1>4. S = Nat
  <2> HIDE DEF S
  <2> QED BY <1>2, <1>3, NatSetInduction DEF S
<1>5. n \in S
  BY <1>4
<1> QED BY <1>5 DEF Total, r

\* A sum of zeros is zero: a mandate with no ledger rows has spent nothing.
LEMMA TotalZero ==
  ASSUME NEW n \in Nat, NEW f \in [1..n -> Int], \A i \in 1..n : f[i] = 0
  PROVE  Total(f, n) = 0
<1> DEFINE r == Running(f, n)
           S == {m \in Nat : m <= n => r[m] = 0}
<1>1. IsRunning(r, f, n)
  BY RunningDef
<1> HIDE DEF r
<1>2. 0 \in S
  BY <1>1 DEF IsRunning
<1>3. ASSUME NEW m \in S PROVE m + 1 \in S
  BY <1>1 DEF IsRunning
<1>4. S = Nat
  <2> HIDE DEF S
  <2> QED BY <1>2, <1>3, NatSetInduction DEF S
<1>5. n \in S
  BY <1>4
<1> QED BY <1>5 DEF Total, r

\* Sums compare as their terms do, up to a factor: what left an account in atomic
\* units is compared with what a budget holds in cents.
LEMMA TotalScaled ==
  ASSUME NEW n \in Nat, NEW c \in Nat, NEW f \in [1..n -> Int], NEW g \in [1..n -> Int],
         \A i \in 1..n : f[i] <= c * g[i]
  PROVE  Total(f, n) <= c * Total(g, n)
<1> DEFINE r == Running(f, n)
           q == Running(g, n)
           S == {m \in Nat : m <= n => r[m] <= c * q[m]}
<1>1. IsRunning(r, f, n) /\ IsRunning(q, g, n)
  BY RunningDef
<1> HIDE DEF r, q
<1>2. 0 \in S
  BY <1>1 DEF IsRunning
<1>3. ASSUME NEW m \in S PROVE m + 1 \in S
  <2>1. SUFFICES ASSUME m + 1 <= n PROVE r[m + 1] <= c * q[m + 1]
    OBVIOUS
  <2>2. m \in Nat /\ m + 1 \in 1..n /\ m \in 0..n /\ (m + 1) - 1 = m
    BY <2>1
  <2>3. r[m + 1] = r[m] + f[m + 1] /\ q[m + 1] = q[m] + g[m + 1]
    BY <1>1, <2>2 DEF IsRunning
  <2>4. r[m] \in Int /\ q[m] \in Int /\ f[m + 1] \in Int /\ g[m + 1] \in Int
    BY <1>1, <2>2 DEF IsRunning
  <2>5. r[m] <= c * q[m] /\ f[m + 1] <= c * g[m + 1]
    BY <2>2
  <2>6. c * q[m + 1] = c * q[m] + c * g[m + 1]
    <3>1. \A x, y \in Int : c * (x + y) = c * x + c * y
      OBVIOUS
    <3> QED BY <2>3, <2>4, <3>1
  <2>7. \A x, y, u, v \in Int : x <= u /\ y <= v => x + y <= u + v
    OBVIOUS
  <2>8. c * q[m] \in Int /\ c * g[m + 1] \in Int
    <3>1. ASSUME NEW d \in Nat, NEW x \in Int PROVE d * x \in Int
      OBVIOUS
    <3> HIDE DEF S
    <3>2. c \in Nat
      OBVIOUS
    <3> QED BY <2>4, <3>1, <3>2, Zenon
  <2>9. r[m] + f[m + 1] <= c * q[m] + c * g[m + 1]
    BY <2>4, <2>5, <2>7, <2>8
  <2> QED BY <2>3, <2>6, <2>9
<1>4. S = Nat
  <2> HIDE DEF S
  <2> QED BY <1>2, <1>3, NatSetInduction DEF S
<1>5. n \in S
  BY <1>4
<1> QED BY <1>5 DEF Total, r, q

\* A sum of larger terms is no smaller.
LEMMA TotalMonotone ==
  ASSUME NEW n \in Nat, NEW f \in [1..n -> Int], NEW g \in [1..n -> Int], \A i \in 1..n : f[i] <= g[i]
  PROVE  Total(f, n) <= Total(g, n)
<1>1. \A i \in 1..n : f[i] <= 1 * g[i]
  OBVIOUS
<1>2. Total(f, n) <= 1 * Total(g, n) /\ Total(g, n) \in Int
  BY <1>1, TotalScaled, TotalInt
<1> QED BY <1>2

=============================================================================
