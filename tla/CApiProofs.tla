------------------------------ MODULE CApiProofs ------------------------------
(***************************************************************************)
(* Theorems about ThreadInfo and CApi, for any threads, processes, levels, *)
(* addresses and number of buffers in circulation, and for any width of    *)
(* the fields of an info.                                                  *)
(*                                                                         *)
(* ThreadInfo defines powers and the value of bytes by recursion.  That    *)
(* such functions exist is proved here (Recursion), from the fact that <   *)
(* is well founded: the induction theorems of the library take a predicate *)
(* as parameter, so induction is over sets.  A recursive function must be  *)
(* expanded with Zenon only, and only once a function that satisfies the   *)
(* equation is known: the SMT backend takes every recursive equation to    *)
(* have a solution.                                                        *)
(***************************************************************************)
EXTENDS CApi, RtPriorityProofs, SequenceTheorems, WellFoundedInduction

-----------------------------------------------------------------------------
(* Induction and recursion. *)

(* The order of the natural numbers. *)
Less == {ss \in Nat \X Nat : ss[1] < ss[2]}

(* Every set of natural numbers has a least element... *)
LEMMA NatMin ==
  ASSUME NEW S, S \subseteq Nat, S # {}
  PROVE  \E x \in S : \A y \in S : x <= y
<1>1. IsWellFoundedOn(Less, Nat)
  BY NatLessThanWellFounded DEF OpToRel, Less
<1>2. PICK x \in S : \A y \in S : ~ (<<y, x>> \in Less)
  BY <1>1, WFMin
<1>3. ASSUME NEW y \in S PROVE x <= y
  <2>1. x \in Nat /\ y \in Nat /\ << y, x >> \in Nat \X Nat
    OBVIOUS
  <2>2. y < x => << y, x >> \in Less
    BY <2>1 DEF Less
  <2> QED
    BY <1>2, <2>1, <2>2
<1> QED
  BY <1>3

(* ... and induction, over a set instead of a predicate. *)
LEMMA SetInduction ==
  ASSUME NEW S, 0 \in S, \A n \in Nat : n \in S => n + 1 \in S
  PROVE  Nat \subseteq S
<1> SUFFICES ASSUME Nat \ S # {} PROVE FALSE
  OBVIOUS
<1>1. PICK x \in Nat \ S : \A y \in Nat \ S : x <= y
  BY NatMin
<1>2. x - 1 \in Nat /\ x - 1 \in S
  BY <1>1
<1> QED
  BY <1>1, <1>2

(* The first m steps of the function that starts with c and goes on by Step. *)
Prefixes(m, S, c, Step) ==
  {g \in [0..m -> S] : g[0] = c /\ \A i \in 0..(m - 1) : g[i + 1] = Step[i][g[i]]}

(* There are as many steps as one wants... *)
LEMMA PrefixesExist ==
  ASSUME NEW S, NEW c \in S, NEW Step \in [Nat -> [S -> S]]
  PROVE  \A m \in Nat : \E g : g \in Prefixes(m, S, c, Step)
<1> DEFINE M == {m \in Nat : \E g : g \in Prefixes(m, S, c, Step)}
<1>1. 0 \in M
  <2>1. [i \in 0..0 |-> c] \in Prefixes(0, S, c, Step)
    BY DEF Prefixes
  <2> QED
    BY <2>1
<1>2. ASSUME NEW m \in Nat, m \in M PROVE m + 1 \in M
  <2>1. PICK g : g \in Prefixes(m, S, c, Step)
    BY <1>2
  <2> DEFINE h == [i \in 0..(m + 1) |-> IF i = m + 1 THEN Step[m][g[m]] ELSE g[i]]
  <2>2. g \in [0..m -> S] /\ g[m] \in S /\ Step[m][g[m]] \in S
    BY <2>1 DEF Prefixes
  <2>3. h \in [0..(m + 1) -> S] /\ h[0] = c
    BY <2>1, <2>2 DEF Prefixes
  <2>4. ASSUME NEW i \in 0..m PROVE h[i + 1] = Step[i][h[i]]
    <3>1. CASE i = m
      BY <2>2, <3>1
    <3>2. CASE i \in 0..(m - 1)
      <4>1. h[i + 1] = g[i + 1] /\ h[i] = g[i]
        BY <3>2
      <4> QED
        BY <2>1, <3>2, <4>1 DEF Prefixes
    <3> QED
      BY <3>1, <3>2
  <2> HIDE DEF h
  <2>5. h \in Prefixes(m + 1, S, c, Step)
    BY <2>3, <2>4 DEF Prefixes
  <2> QED
    BY <2>5
<1> HIDE DEF M
<1>3. Nat \subseteq M
  BY <1>1, <1>2, SetInduction
<1> QED
  BY <1>3 DEF M

(* ... and only one way to take them. *)
LEMMA PrefixesAgree ==
  ASSUME NEW S, NEW c \in S, NEW Step \in [Nat -> [S -> S]], NEW m \in Nat, NEW k \in Nat,
         m <= k, NEW g \in Prefixes(m, S, c, Step), NEW h \in Prefixes(k, S, c, Step)
  PROVE  g[m] = h[m] /\ g[m] \in S
<1> DEFINE A == {i \in Nat : i <= m => g[i] = h[i]}
<1>1. 0 \in A
  BY DEF Prefixes
<1>2. ASSUME NEW i \in Nat, i \in A PROVE i + 1 \in A
  BY <1>2 DEF Prefixes
<1> HIDE DEF A
<1>3. Nat \subseteq A
  BY <1>1, <1>2, SetInduction
<1> QED
  BY <1>3 DEF A, Prefixes

Steps(Step, c, S) == c \in S /\ Step \in [Nat -> [S -> S]]

Iterates(f, Step, c, S) ==
  f \in [Nat -> S] /\ f[0] = c /\ \A n \in Nat : f[n + 1] = Step[n][f[n]]

(* A function can be defined by recursion over the natural numbers. *)
LEMMA Recursion ==
  ASSUME NEW S, NEW c, NEW Step, Steps(Step, c, S)
  PROVE  \E f : Iterates(f, Step, c, S)
<1> USE DEF Steps
<1> DEFINE P(m) == Prefixes(m, S, c, Step)
           f == [n \in Nat |-> (CHOOSE g : g \in P(n))[n]]
<1>1. ASSUME NEW n \in Nat, NEW g \in P(n) PROVE f[n] = g[n] /\ g[n] \in S
  <2>1. (CHOOSE x : x \in P(n)) \in P(n)
    BY <1>1, Zenon
  <2> QED
    BY <2>1, PrefixesAgree
<1>2. ASSUME NEW n \in Nat
      PROVE  f[n] \in S /\ f[n + 1] = Step[n][f[n]] /\ f[0] = c
  <2>1. PICK g : g \in P(n + 1)
    BY PrefixesExist
  <2>2. PICK h : h \in P(n)
    BY PrefixesExist
  <2>3. PICK z : z \in P(0)
    BY PrefixesExist
  <2>4. f[n + 1] = g[n + 1] /\ f[n] = h[n] /\ h[n] \in S /\ f[0] = z[0]
    BY <1>1, <2>1, <2>2, <2>3
  <2>5. h[n] = g[n]
    BY <2>1, <2>2, PrefixesAgree
  <2>6. g[n + 1] = Step[n][g[n]] /\ z[0] = c
    BY <2>1, <2>3 DEF Prefixes
  <2> QED
    BY <2>4, <2>5, <2>6
<1>3. f \in [Nat -> S] /\ f[0] = c
  BY <1>2
<1> HIDE DEF f
<1>4. Iterates(f, Step, c, S)
  BY <1>2, <1>3 DEF Iterates
<1> QED
  BY <1>4


-----------------------------------------------------------------------------
(* Numbers and bytes. *)

(* The powers of Base. *)
LEMMA PowFacts ==
  /\ \A n \in Nat : Pow[n] \in Nat \ {0} /\ Pow[n + 1] = Pow[n] * Base
  /\ Pow[0] = 1
<1> DEFINE Pos == Nat \ {0}
           Step == [n \in Nat |-> [p \in Pos |-> Base * p]]
<1>1. 1 \in Pos /\ Step \in [Nat -> [Pos -> Pos]] /\ Base \in Nat
  BY WidthAssumption
<1>2. \A p \in Pos, n \in Nat : Step[n][p] = Base * p
  OBVIOUS
<1> HIDE DEF Pos, Step
<1>3. PICK f : f \in [Nat -> Pos] /\ f[0] = 1 /\ \A n \in Nat : f[n + 1] = Step[n][f[n]]
  <2>1. Steps(Step, 1, Pos)
    BY <1>1 DEF Steps
  <2>2. \E f : Iterates(f, Step, 1, Pos)
    BY <2>1, Recursion
  <2> QED
    BY <2>2 DEF Iterates
<1>4. ASSUME NEW n \in Nat PROVE f[n] = IF n = 0 THEN 1 ELSE Base * f[n - 1]
  <2>1. CASE n = 0
    BY <1>3, <2>1
  <2>2. CASE n # 0
    <3>1. n - 1 \in Nat /\ (n - 1) + 1 = n
      BY <2>2
    <3>2. f[(n - 1) + 1] = Step[n - 1][f[n - 1]] /\ f[n - 1] \in Pos
      BY <1>3, <3>1
    <3> QED
      BY <1>2, <2>2, <3>1, <3>2
  <2> QED
    BY <2>1, <2>2
<1>5. f = [n \in Nat |-> IF n = 0 THEN 1 ELSE Base * f[n - 1]]
  BY <1>3, <1>4
<1>6. Pow = [n \in Nat |-> IF n = 0 THEN 1 ELSE Base * Pow[n - 1]]
  BY <1>5, Zenon DEF Pow
<1>7. Pow[0] = 1 /\ \A n \in Nat : Pow[n + 1] = Base * Pow[n]
  <2>1. ASSUME NEW n \in Nat PROVE Pow[n] = IF n = 0 THEN 1 ELSE Base * Pow[n - 1]
    BY <1>6, Zenon
  <2>2. ASSUME NEW n \in Nat PROVE Pow[n + 1] = Base * Pow[n]
    <3>1. n + 1 \in Nat /\ n + 1 # 0 /\ (n + 1) - 1 = n
      OBVIOUS
    <3>2. Pow[n + 1] = IF n + 1 = 0 THEN 1 ELSE Base * Pow[(n + 1) - 1]
      BY <2>1, <3>1
    <3> QED
      BY <3>1, <3>2
  <2> QED
    BY <2>1, <2>2
<1> DEFINE P == {n \in Nat : Pow[n] \in Pos}
<1>8. 0 \in P /\ \A n \in Nat : n \in P => n + 1 \in P
  BY <1>7, WidthAssumption DEF Pos
<1> HIDE DEF P
<1>9. Nat \subseteq P
  BY <1>8, SetInduction
<1>10. ASSUME NEW n \in Nat PROVE Pow[n] \in Nat \ {0} /\ Pow[n + 1] = Pow[n] * Base
  <2>1. n \in P
    BY <1>9
  <2>2. Pow[n] \in Nat \ {0}
    BY <2>1 DEF P, Pos
  <2> QED
    BY <1>1, <1>7, <2>2
<1> QED
  BY <1>7, <1>10

(* The fields fit the struct. *)
LEMMA Packed == PackedSize <= InfoSize /\ PackedSize \in Nat /\ InfoSize \in Nat
<1>1. LongSize \in Nat /\ LongSize > 0 /\ IntSize \in Nat
  BY WidthAssumption
<1>2. PackedSize \in Nat
  BY <1>1 DEF PackedSize
<1> DEFINE n == PackedSize + LongSize - 1
           q == n \div LongSize
<1>3. n \in Nat
  BY <1>1, <1>2
<1>4. q \in Nat /\ n < LongSize * q + LongSize
  <2> HIDE DEF n
  <2> QED
    BY <1>1, <1>3
<1>5. InfoSize = LongSize * q
  BY DEF InfoSize
<1>6. LongSize * q \in Nat
  BY <1>1, <1>4
<1> HIDE DEF q
<1> QED
  BY <1>1, <1>2, <1>4, <1>5, <1>6

(* One more digit. *)
LEMMA DivMod ==
  ASSUME NEW v \in Nat, NEW p \in Nat, p > 0, NEW b \in Nat, b > 0
  PROVE  v % (p * b) = (v % p) + ((v \div p) % b) * p
<1> DEFINE q == v \div p
           r == v % p
           s == q \div b
           d == q % b
<1>1. v = q * p + r /\ q \in Nat /\ r \in 0..(p-1)
  OBVIOUS
<1>2. q = s * b + d /\ s \in Nat /\ d \in 0..(b-1)
  BY <1>1
<1> QED
  OBVIOUS

(* The value of a sequence of bytes, by its first bytes. *)
LEMMA ValueFacts ==
  ASSUME NEW n \in Nat, NEW bytes \in [1..n -> Byte]
  PROVE  \E low \in [0..n -> Nat] :
           /\ low[0] = 0 /\ Value(bytes) = low[n]
           /\ \A k \in 1..n : low[k] = low[k - 1] + bytes[k] * Pow[k - 1]
<1>1. Len(bytes) = n
  OBVIOUS
<1> DEFINE Step == [k \in Nat |-> [x \in Nat |-> IF k < n THEN x + bytes[k + 1] * Pow[k] ELSE x]]
<1>2. Step \in [Nat -> [Nat -> Nat]]
  <2>1. ASSUME NEW k \in Nat, NEW x \in Nat, k < n PROVE x + bytes[k + 1] * Pow[k] \in Nat
    <3>1. k + 1 \in 1..n /\ Pow[k] \in Nat
      <4>1. Pow[k] \in Nat
        BY PowFacts
      <4>2. k + 1 \in 1..n
        BY <2>1
      <4> QED
        BY <4>1, <4>2
    <3>2. bytes[k + 1] \in Byte
      BY <3>1
    <3>3. bytes[k + 1] \in Nat
      BY <3>2, WidthAssumption DEF Byte
    <3> QED
      BY <3>1, <3>3
  <2> QED
    BY <2>1
<1>3. \A k \in 0..(n - 1), x \in Nat : Step[k][x] = x + bytes[k + 1] * Pow[k]
  OBVIOUS
<1> HIDE DEF Step
<1>4. PICK f : f \in [Nat -> Nat] /\ f[0] = 0 /\ \A k \in Nat : f[k + 1] = Step[k][f[k]]
  <2>1. Steps(Step, 0, Nat)
    BY <1>2 DEF Steps
  <2>2. \E f : Iterates(f, Step, 0, Nat)
    BY <2>1, Recursion
  <2> QED
    BY <2>2 DEF Iterates
<1>5. ASSUME NEW k \in 1..n PROVE f[k] = f[k - 1] + bytes[k] * Pow[k - 1]
  <2>1. k - 1 \in 0..(n - 1) /\ k - 1 \in Nat /\ (k - 1) + 1 = k
    OBVIOUS
  <2>2. f[(k - 1) + 1] = Step[k - 1][f[k - 1]] /\ f[k - 1] \in Nat
    BY <1>4, <2>1
  <2>3. Step[k - 1][f[k - 1]] = f[k - 1] + bytes[(k - 1) + 1] * Pow[k - 1]
    BY <1>3, <2>1, <2>2
  <2> QED
    BY <2>1, <2>2, <2>3
<1> DEFINE low == [k \in 0..n |-> f[k]]
<1>6. low \in [0..n -> Nat] /\ low[0] = 0
  <2>1. f \in [Nat -> Nat] /\ f[0] = 0
    BY <1>4
  <2>2. ASSUME NEW k \in 0..n PROVE f[k] \in Nat
    <3>1. k \in Nat
      OBVIOUS
    <3> QED
      BY <2>1, <3>1
  <2>3. 0 \in 0..n /\ low[0] = 0
    BY <2>1
  <2> QED
    BY <2>2, <2>3
<1>7. \A k \in 1..n : low[k] = low[k - 1] + bytes[k] * Pow[k - 1]
  BY <1>5
<1>8. low = [k \in 0..n |-> IF k = 0 THEN 0 ELSE low[k - 1] + bytes[k] * Pow[k - 1]]
  <2>1. ASSUME NEW k \in 0..n
        PROVE  f[k] = IF k = 0 THEN 0 ELSE low[k - 1] + bytes[k] * Pow[k - 1]
    <3>1. CASE k = 0
      BY <1>4, <3>1
    <3>2. CASE k # 0
      <4>1. k \in 1..n /\ k - 1 \in 0..n
        BY <3>2
      <4>2. low[k - 1] = f[k - 1]
        BY <4>1
      <4> QED
        BY <1>5, <3>2, <4>1, <4>2
    <3> QED
      BY <3>1, <3>2
  <2> QED
    BY <2>1, Zenon
<1>9. n \in 0..n
  OBVIOUS
<1> HIDE DEF low
<1> DEFINE Eq(g) == g = [k \in 0..Len(bytes) |-> IF k = 0 THEN 0 ELSE g[k - 1] + bytes[k] * Pow[k - 1]]
<1>10. Eq(low)
  BY <1>1, <1>8
<1>11. Value(bytes) = (CHOOSE g : Eq(g))[Len(bytes)]
  BY Zenon DEF Value
<1>12. Eq(CHOOSE g : Eq(g))
  BY <1>10, Zenon
<1> DEFINE g == CHOOSE g : Eq(g)
<1> HIDE DEF Eq
<1>13. Eq(g)
  BY <1>12
<1> HIDE DEF g
<1>14. g = [k \in 0..n |-> IF k = 0 THEN 0 ELSE g[k - 1] + bytes[k] * Pow[k - 1]]
  BY <1>1, <1>13 DEF Eq
<1>15. \A k \in 0..n : g[k] = IF k = 0 THEN 0 ELSE g[k - 1] + bytes[k] * Pow[k - 1]
  BY <1>14, Zenon
<1> DEFINE A == {k \in Nat : k <= n => g[k] = low[k]}
<1>16. 0 \in A
  BY <1>6, <1>9, <1>15
<1>17. ASSUME NEW k \in Nat, k \in A PROVE k + 1 \in A
  <2> SUFFICES ASSUME k + 1 <= n PROVE g[k + 1] = low[k + 1]
    OBVIOUS
  <2>1. k + 1 \in 1..n /\ k + 1 \in 0..n /\ (k + 1) - 1 = k /\ k + 1 # 0
    OBVIOUS
  <2>2. g[k + 1] = g[(k + 1) - 1] + bytes[k + 1] * Pow[(k + 1) - 1]
    BY <1>15, <2>1
  <2>3. low[k + 1] = low[(k + 1) - 1] + bytes[k + 1] * Pow[(k + 1) - 1]
    BY <1>7, <2>1
  <2>4. g[k] = low[k]
    BY <1>17, <2>1
  <2> QED
    BY <2>1, <2>2, <2>3, <2>4
<1> HIDE DEF A
<1>18. Nat \subseteq A
  BY <1>16, <1>17, SetInduction
<1>19. g[n] = low[n]
  BY <1>18 DEF A
<1>20. Value(bytes) = low[n]
  BY <1>1, <1>11, <1>19 DEF g
<1> QED
  BY <1>6, <1>7, <1>20

(* The bytes to_ne_bytes puts down for v have the value of v. *)
LEMMA BytesOfValue ==
  ASSUME NEW v \in Int, NEW n \in Nat
  PROVE  /\ to_ne_bytes(v, n) \in [1..n -> Byte]
         /\ Value(to_ne_bytes(v, n)) = v % Pow[n]
<1> DEFINE w == v % Pow[n]
           bytes == [i \in 1..n |-> (w \div Pow[i - 1]) % Base]
<1>1. w \in Nat /\ w < Pow[n] /\ to_ne_bytes(v, n) = bytes
  <2>1. Pow[n] \in Nat \ {0}
    BY PowFacts
  <2> QED
    BY <2>1 DEF to_ne_bytes
<1> HIDE DEF w
<1>2. ASSUME NEW i \in 1..n PROVE (w \div Pow[i - 1]) % Base \in Byte
  <2>1. i - 1 \in Nat
    OBVIOUS
  <2>2. Pow[i - 1] \in Nat \ {0}
    BY <2>1, PowFacts
  <2>3. w \div Pow[i - 1] \in Int
    BY <1>1, <2>2
  <2> QED
    BY <2>3, WidthAssumption DEF Byte
<1>3. bytes \in [1..n -> Byte]
  BY <1>2
<1>4. \A i \in 1..n : bytes[i] = (w \div Pow[i - 1]) % Base
  OBVIOUS
<1> HIDE DEF bytes
<1>5. PICK low \in [0..n -> Nat] :
         /\ low[0] = 0 /\ Value(bytes) = low[n]
         /\ \A k \in 1..n : low[k] = low[k - 1] + bytes[k] * Pow[k - 1]
  BY <1>3, ValueFacts
<1> DEFINE A == {k \in Nat : k <= n => low[k] = w % Pow[k]}
<1>6. 0 \in A
  <2>1. w % 1 = 0
    BY <1>1
  <2>2. low[0] = w % Pow[0]
    BY <1>5, <2>1, PowFacts
  <2> QED
    BY <2>2
<1>7. ASSUME NEW k \in Nat, k \in A PROVE k + 1 \in A
  <2> SUFFICES ASSUME k + 1 <= n PROVE low[k + 1] = w % Pow[k + 1]
    OBVIOUS
  <2>1. k + 1 \in 1..n /\ (k + 1) - 1 = k
    OBVIOUS
  <2> HIDE DEF A
  <2>2. low[k + 1] = low[(k + 1) - 1] + bytes[k + 1] * Pow[(k + 1) - 1]
    BY <1>5, <2>1
  <2>3. bytes[k + 1] = (w \div Pow[(k + 1) - 1]) % Base
    BY <1>4, <2>1
  <2>4. low[k] = w % Pow[k]
    BY <1>7, <2>1 DEF A
  <2>5. Pow[k] \in Nat \ {0} /\ Pow[k + 1] = Pow[k] * Base
    BY PowFacts
  <2>6. w % (Pow[k] * Base) = (w % Pow[k]) + ((w \div Pow[k]) % Base) * Pow[k]
    <3> DEFINE p == Pow[k]
    <3>1. p \in Nat /\ p > 0 /\ w \in Nat /\ Base \in Nat /\ Base > 0
      BY <1>1, <2>5, WidthAssumption
    <3> HIDE DEF p
    <3>2. w % (p * Base) = (w % p) + ((w \div p) % Base) * p
      BY <3>1, DivMod
    <3> QED
      BY <3>2 DEF p
  <2> QED
    BY <2>1, <2>2, <2>3, <2>4, <2>5, <2>6
<1> HIDE DEF A
<1>8. Nat \subseteq A
  BY <1>6, <1>7, SetInduction
<1>9. Value(bytes) = w % Pow[n]
  BY <1>5, <1>8 DEF A
<1>10. w % Pow[n] = w
  <2>1. Pow[n] \in Nat \ {0}
    BY PowFacts
  <2> QED
    BY <1>1, <2>1
<1> QED
  BY <1>1, <1>3, <1>9, <1>10 DEF w

(* A field that fits comes back as it was. *)
LEMMA FieldRoundTrip ==
  ASSUME NEW v \in Int, NEW n \in Nat, NEW f,
         IF f \in Unsigned THEN v \in 0..(Pow[n] - 1) ELSE FitsSigned(v, n)
  PROVE  from_ne_bytes(to_ne_bytes(v, n), f) = v
<1>1. Pow[n] \in Nat \ {0}
  BY PowFacts
<1>2. Value(to_ne_bytes(v, n)) = v % Pow[n] /\ to_ne_bytes(v, n) \in [1..n -> Byte]
  BY BytesOfValue
<1>3. Len(to_ne_bytes(v, n)) = n
  BY <1>2
<1> DEFINE p == Pow[n]
<1> HIDE DEF p
<1>4. p \in Nat \ {0}
  BY <1>1 DEF p
<1>5. CASE f \in Unsigned
  <2>1. v % p = v
    BY <1>4, <1>5 DEF p
  <2> QED
    BY <1>2, <1>5, <2>1 DEF from_ne_bytes, p
<1>6. CASE f \notin Unsigned
  <2>1. - p <= 2 * v /\ 2 * v < p
    BY <1>6 DEF FitsSigned, p
  <2>2. v % p = IF v < 0 THEN v + p ELSE v
    BY <1>4, <2>1
  <2>3. (IF 2 * (v % p) >= p THEN (v % p) - p ELSE v % p) = v
    BY <1>4, <2>1, <2>2
  <2> QED
    BY <1>2, <1>3, <1>6, <2>3 DEF from_ne_bytes, AsSigned, p
<1> QED
  BY <1>5, <1>6

-----------------------------------------------------------------------------
(* Packing fields. *)

(* s is a sequence of n bytes. *)
IsBytes(s, n) == n \in Nat /\ s \in [1..n -> Byte]

(* The n bytes of t are in s after the first k. *)
At(s, k, t, n) == \A j \in 1..n : s[k + j] = t[j]

(* Both parts of a concatenation are in it. *)
LEMMA ConcatBytes ==
  ASSUME NEW m, NEW k, NEW s, NEW t, IsBytes(s, m), IsBytes(t, k)
  PROVE  IsBytes(s \o t, m + k) /\ At(s \o t, 0, s, m) /\ At(s \o t, m, t, k)
<1>1. /\ s \in Seq(Byte) /\ Len(s) = m /\ t \in Seq(Byte) /\ Len(t) = k
      /\ m \in Nat /\ k \in Nat
  BY DEF IsBytes
<1> DEFINE st == s \o t
<1>2. /\ st \in Seq(Byte) /\ Len(st) = m + k
      /\ \A j \in 1..(m + k) : st[j] = IF j <= m THEN s[j] ELSE t[j - m]
  BY <1>1, ConcatProperties
<1> HIDE DEF st
<1>3. IsBytes(st, m + k)
  <2>1. st \in [1..Len(st) -> Byte]
    BY <1>2, LenProperties
  <2> QED
    BY <1>1, <1>2, <2>1 DEF IsBytes
<1>4. At(st, 0, s, m)
  BY <1>1, <1>2 DEF At
<1>5. ASSUME NEW j \in 1..k PROVE st[m + j] = t[j]
  <2>1. m + j \in 1..(m + k) /\ ~ (m + j <= m) /\ (m + j) - m = j
    BY <1>1
  <2> QED
    BY <1>2, <2>1
<1> QED
  BY <1>3, <1>4, <1>5 DEF At, st

(* What is in a prefix is in the whole. *)
LEMMA AtInPrefix ==
  ASSUME NEW r, NEW s, NEW m \in Nat, NEW k \in Nat, NEW t, NEW n \in Nat,
         At(r, 0, s, m), At(s, k, t, n), k + n <= m
  PROVE  At(r, k, t, n)
<1> SUFFICES ASSUME NEW j \in 1..n PROVE r[k + j] = t[j]
  BY DEF At
<1>1. k + j \in 1..m /\ 0 + (k + j) = k + j
  OBVIOUS
<1>2. r[0 + (k + j)] = s[k + j] /\ s[k + j] = t[j]
  BY <1>1 DEF At
<1> QED
  BY <1>1, <1>2

(* What is in a sequence can be taken out of it. *)
LEMMA SubBytes ==
  ASSUME NEW n, NEW k \in Nat, NEW s, NEW bytes, IsBytes(s, n), At(bytes, k, s, n)
  PROVE  SubSeq(bytes, k + 1, k + n) = s
<1> DEFINE sub == SubSeq(bytes, k + 1, k + n)
<1>1. /\ n \in Nat /\ s \in [1..n -> Byte] /\ s \in Seq(Byte) /\ Len(s) = n
      /\ \A j \in 1..n : bytes[k + j] = s[j]
  BY DEF IsBytes, At
<1>2. \A j \in (k + 1)..(k + n) : bytes[j] \in Byte
  <2> TAKE j \in (k + 1)..(k + n)
  <2>1. j - k \in 1..n /\ k + (j - k) = j
    BY <1>1
  <2> QED
    BY <1>1, <2>1
<1>3. /\ sub \in Seq(Byte)
      /\ Len(sub) = IF k + 1 <= k + n THEN (k + n) - (k + 1) + 1 ELSE 0
      /\ \A j \in 1..((k + n) - (k + 1) + 1) : sub[j] = bytes[k + 1 + j - 1]
  BY <1>1, <1>2, SubSeqProperties
<1> HIDE DEF sub
<1>4. Len(sub) = n
  BY <1>1, <1>3
<1>5. ASSUME NEW j \in 1..n PROVE sub[j] = s[j]
  <2>1. j \in 1..((k + n) - (k + 1) + 1) /\ k + 1 + j - 1 = k + j
    BY <1>1
  <2> QED
    BY <1>1, <1>3, <2>1
<1>6. sub = s
  BY <1>1, <1>3, <1>4, <1>5, SeqEqual
<1> QED
  BY <1>6 DEF sub

(* Each field has a value of its type. *)
InfoFits(info) ==
  /\ FitsSigned(info.thread_id, LongSize)
  /\ info.pthread_id \in 0..(Pow[LongSize] - 1)
  /\ FitsSigned(info.pid, IntSize)
  /\ FitsSigned(info.policy, IntSize)
  /\ FitsSigned(info.priority, IntSize)

(* deserialize undoes serialize, for every width of the fields, base of a byte
   and value of each type: nothing is cut off, no sign is lost, no field ends in
   another (rt_linux.rs:59-101). *)
THEOREM SerializeRoundTrip ==
  ASSUME NEW info \in [thread_id : Int, pthread_id : Int, pid : Int, policy : Int, priority : Int],
         InfoFits(info)
  PROVE  deserialize(serialize(info)) = info
<1> DEFINE L == LongSize
           I == IntSize
           b1 == to_ne_bytes(info.thread_id, L)
           b2 == to_ne_bytes(info.pthread_id, L)
           b3 == to_ne_bytes(info.pid, I)
           b4 == to_ne_bytes(info.policy, I)
           b5 == to_ne_bytes(info.priority, I)
           p2 == b1 \o b2
           p3 == p2 \o b3
           p4 == p3 \o b4
           p5 == p4 \o b5
           bytes == serialize(info)
<1>1. I \in Nat \ {0} /\ I <= L /\ L \in Nat
  BY WidthAssumption
<1>2. /\ info.thread_id \in Int /\ info.pthread_id \in Int /\ info.pid \in Int
      /\ info.policy \in Int /\ info.priority \in Int
  OBVIOUS
<1>3. IsBytes(b1, L) /\ IsBytes(b2, L) /\ IsBytes(b3, I) /\ IsBytes(b4, I) /\ IsBytes(b5, I)
  BY <1>1, <1>2, BytesOfValue DEF IsBytes
<1>4. bytes = [i \in 1..InfoSize |-> IF i <= Len(p5) THEN p5[i] ELSE 0]
  BY DEF serialize, Fields, FieldSize
<1>5. /\ from_ne_bytes(b1, "thread_id") = info.thread_id
      /\ from_ne_bytes(b2, "pthread_id") = info.pthread_id
      /\ from_ne_bytes(b3, "pid") = info.pid
      /\ from_ne_bytes(b4, "policy") = info.policy
      /\ from_ne_bytes(b5, "priority") = info.priority
  BY <1>1, <1>2, FieldRoundTrip DEF InfoFits, Unsigned
<1> HIDE DEF b1, b2, b3, b4, b5, bytes
<1>6. IsBytes(p2, L + L) /\ At(p2, 0, b1, L) /\ At(p2, L, b2, L)
  BY <1>3, ConcatBytes
<1> HIDE DEF p2
<1>7. IsBytes(p3, L + L + I) /\ At(p3, 0, p2, L + L) /\ At(p3, L + L, b3, I)
  BY <1>3, <1>6, ConcatBytes
<1> HIDE DEF p3
<1>8. IsBytes(p4, L + L + I + I) /\ At(p4, 0, p3, L + L + I) /\ At(p4, L + L + I, b4, I)
  BY <1>3, <1>7, ConcatBytes
<1> HIDE DEF p4
<1>9. /\ IsBytes(p5, L + L + I + I + I) /\ At(p5, 0, p4, L + L + I + I)
      /\ At(p5, L + L + I + I, b5, I)
  BY <1>3, <1>8, ConcatBytes
<1> HIDE DEF p5
<1>10. At(bytes, 0, p5, L + L + I + I + I)
  <2>1. Len(p5) = L + L + I + I + I
    BY <1>9 DEF IsBytes
  <2>2. L + L + I + I + I = PackedSize
    BY <1>1 DEF PackedSize
  <2>3. L + L + I + I + I <= InfoSize /\ InfoSize \in Nat
    BY <2>2, Packed
  <2> QED
    BY <1>1, <1>4, <2>1, <2>3 DEF At
<1>11. At(bytes, L + L + I + I, b5, I) /\ At(bytes, 0, p4, L + L + I + I)
  BY <1>1, <1>9, <1>10, AtInPrefix
<1>12. At(bytes, L + L + I, b4, I) /\ At(bytes, 0, p3, L + L + I)
  BY <1>1, <1>8, <1>11, AtInPrefix
<1>13. At(bytes, L + L, b3, I) /\ At(bytes, 0, p2, L + L)
  BY <1>1, <1>7, <1>12, AtInPrefix
<1>14. At(bytes, L, b2, L) /\ At(bytes, 0, b1, L)
  BY <1>1, <1>6, <1>13, AtInPrefix
<1>15. /\ SubSeq(bytes, 0 + 1, 0 + L) = b1
       /\ SubSeq(bytes, L + 1, L + L) = b2
       /\ SubSeq(bytes, L + L + 1, L + L + I) = b3
       /\ SubSeq(bytes, L + L + I + 1, L + L + I + I) = b4
       /\ SubSeq(bytes, L + L + I + I + 1, L + L + I + I + I) = b5
  <2>1. L + L \in Nat /\ L + L + I \in Nat /\ L + L + I + I \in Nat
    BY <1>1
  <2>2. SubSeq(bytes, 0 + 1, 0 + L) = b1 /\ SubSeq(bytes, L + 1, L + L) = b2
    BY <1>1, <1>3, <1>14, SubBytes
  <2>3. SubSeq(bytes, L + L + 1, L + L + I) = b3
    BY <1>3, <1>13, <2>1, SubBytes
  <2>4. SubSeq(bytes, L + L + I + 1, L + L + I + I) = b4
    BY <1>3, <1>12, <2>1, SubBytes
  <2>5. SubSeq(bytes, L + L + I + I + 1, L + L + I + I + I) = b5
    BY <1>3, <1>11, <2>1, SubBytes
  <2> QED
    BY <2>2, <2>3, <2>4, <2>5
<1>16. /\ Take(bytes, 1) = b1 /\ Take(bytes, 2) = b2 /\ Take(bytes, 3) = b3
       /\ Take(bytes, 4) = b4 /\ Take(bytes, 5) = b5
  BY <1>1, <1>15 DEF Take, Taken, FieldSize
<1>17. deserialize(bytes) =
        [thread_id |-> info.thread_id, pthread_id |-> info.pthread_id, pid |-> info.pid,
         policy |-> info.policy, priority |-> info.priority]
  BY <1>5, <1>16 DEF deserialize, Fields
<1> QED
  BY <1>17 DEF bytes

-----------------------------------------------------------------------------
(* The invariant. *)

(* Every info a client can hold fits its fields. *)
LEMMA FieldsFit == \A info \in Infos : deserialize(serialize(info)) = info
<1> SUFFICES ASSUME NEW info \in Infos PROVE deserialize(serialize(info)) = info
  OBVIOUS
<1>1. /\ info \in [thread_id : Threads, pthread_id : Pthreads, pid : {Home[t] : t \in Threads},
                   policy : {l[1] : l \in Levels}, priority : {l[2] : l \in Levels}]
      /\ info.thread_id \in Threads /\ info.pthread_id \in Pthreads
  BY DEF Infos
<1>2. PICK t \in Threads : info.pid = Home[t]
  BY <1>1
<1>3. PICK l \in Levels : info.policy = l[1]
  BY <1>1
<1>4. PICK k \in Levels : info.priority = k[2]
  BY <1>1
<1>5. InfoFits(info)
  BY <1>1, <1>2, <1>3, <1>4, FieldsAssumption DEF InfoFits
<1>6. info \in [thread_id : Int, pthread_id : Int, pid : Int, policy : Int, priority : Int]
  BY <1>1, <1>5 DEF InfoFits, FitsSigned
<1> QED
  BY <1>5, <1>6, SerializeRoundTrip

(* The level thread t is to be at once no promotion is in effect. *)
Promised(t) == IF before[t] = None THEN level[t] ELSE before[t]

(* An info of a thread that still runs saves the level the thread is to come
   back to; an info of an earlier thread is never taken for one of a later. *)
Faithful(info) ==
  /\ info.pthread_id <= pthread[info.thread_id]
  /\ info.pthread_id = pthread[info.thread_id] => Saved(info) = Promised(info.thread_id)

BuffersGenuine == \A bytes \in buffers : \E info \in gathered : bytes = serialize(info)

IInv ==
  /\ ApiTypeOK
  /\ BoxesOwned
  /\ InfosGenuine
  /\ BuffersGenuine
  /\ \A info \in gathered : Faithful(info)

-----------------------------------------------------------------------------
(* Boxes. *)

Boxed == heap \in [Ptrs -> Boxes \cup {None}] /\ held \subseteq Ptrs /\ BoxesOwned

(* A pointer the client may pass leads to a box, and to a genuine info. *)
LEMMA HeldFacts ==
  ASSUME IInv, NEW p \in held
  PROVE  /\ p \in Ptrs /\ heap[p] \in Boxes /\ heap[p].info \in gathered
         /\ heap[p].info \in Infos
  BY DEF IInv, ApiTypeOK, BoxesOwned, InfosGenuine

LEMMA GiveStep ==
  ASSUME IInv, NEW c \in Threads, NEW kind \in {"handle", "info"}, NEW info \in Infos,
         Give(c, kind, info), gathered \subseteq gathered', info \in gathered'
  PROVE  Boxed' /\ InfosGenuine'
<1>1. PICK p \in Ptrs :
        /\ heap[p] = None
        /\ heap' = [heap EXCEPT ![p] = [kind |-> kind, proc |-> Home[c], info |-> info]]
        /\ held' = held \cup {p}
  BY DEF Give
<1> DEFINE box == [kind |-> kind, proc |-> Home[c], info |-> info]
<1>2. box \in Boxes /\ box # None /\ box.info = info
  BY ApiAssumption DEF Boxes
<1> HIDE DEF box
<1>3. heap' = [heap EXCEPT ![p] = box]
  BY <1>1 DEF box
<1>4. Boxed'
  BY <1>1, <1>2, <1>3 DEF Boxed, IInv, ApiTypeOK, BoxesOwned
<1>5. InfosGenuine'
  BY <1>1, <1>2, <1>3, HeldFacts DEF InfosGenuine, IInv, ApiTypeOK
<1> QED
  BY <1>4, <1>5

LEMMA TakeBackStep ==
  ASSUME IInv, NEW p \in held, NEW ok \in BOOLEAN, TakeBack(p, ok), gathered' = gathered
  PROVE  Boxed' /\ InfosGenuine'
<1>1. held' = held \ {p} /\ heap' = [heap EXCEPT ![p] = None]
  BY DEF TakeBack, TakenBack
<1>2. Boxed'
  BY <1>1, HeldFacts DEF Boxed, IInv, ApiTypeOK, BoxesOwned
<1>3. InfosGenuine'
  BY <1>1, HeldFacts DEF InfosGenuine, IInv, ApiTypeOK
<1> QED
  BY <1>2, <1>3

-----------------------------------------------------------------------------
(* The backend. *)

(* What the library reads from a thread is an info that saves its level. *)
LEMMA InfoFacts ==
  ASSUME IInv, NEW t \in Threads
  PROVE  /\ InfoOf(t) \in Infos /\ Saved(InfoOf(t)) = level[t]
         /\ InfoOf(t).thread_id = t /\ InfoOf(t).pthread_id = pthread[t]
<1>1. level[t] \in Levels /\ pthread[t] \in Pthreads
  BY DEF IInv, ApiTypeOK, TypeOK
<1>2. level[t] \in Int \X Int
  BY <1>1, ApiAssumption
<1>3. << level[t][1], level[t][2] >> = level[t]
  BY <1>2
<1> QED
  BY <1>1, <1>3 DEF InfoOf, Infos, Saved

LEMMA FreshFacts ==
  ASSUME IInv, NEW info \in gathered, Fresh(info)
  PROVE  /\ info.thread_id \in Threads /\ Saved(info) = Promised(info.thread_id)
<1>1. info.thread_id \in Threads /\ info.pthread_id = InfoOf(info.thread_id).pthread_id
  BY DEF Fresh, SameThread
<1> QED
  BY <1>1, InfoFacts DEF IInv, Faithful

LEMMA PromoteStep ==
  ASSUME IInv, NEW t \in Threads, NEW l \in RealTimeLevels, NEW info,
         Saved(info) = level[t], PromoteTo(t, l, info)
  PROVE  TypeOK' /\ Promote(t) /\ \A u \in Threads : Promised(u)' = Promised(u)
<1>1. /\ level \in [Threads -> Levels] /\ before \in [Threads -> Levels \cup {None}]
      /\ l \in Levels /\ None \notin Levels
  BY LevelsAssumption DEF IInv, ApiTypeOK, TypeOK
<1>2. /\ before[t] = None /\ level' = [level EXCEPT ![t] = l]
      /\ before' = [before EXCEPT ![t] = level[t]]
  BY DEF PromoteTo
<1>3. \A u \in Threads : Promised(u)' = Promised(u)
  BY <1>1, <1>2 DEF Promised
<1> QED
  BY <1>1, <1>2, <1>3 DEF TypeOK, Promote

LEMMA DemoteStep ==
  ASSUME IInv, NEW t \in Threads, NEW info, NEW ok \in BOOLEAN,
         Saved(info) = Promised(t), DemoteBy(t, info, ok)
  PROVE  /\ TypeOK' /\ (Demote(t) \/ UNCHANGED vars)
         /\ \A u \in Threads : Promised(u)' = Promised(u)
<1>1. /\ level \in [Threads -> Levels] /\ before \in [Threads -> Levels \cup {None}]
      /\ None \notin Levels
  BY LevelsAssumption DEF IInv, ApiTypeOK, TypeOK
<1>2. before[t] # None /\ Saved(info) = before[t] /\ before[t] \in Levels
  BY <1>1 DEF DemoteBy, Promised
<1>3. CASE ok
  <2>1. level' = [level EXCEPT ![t] = before[t]] /\ before' = [before EXCEPT ![t] = None]
    BY <1>2, <1>3 DEF DemoteBy, Result
  <2>2. \A u \in Threads : Promised(u)' = Promised(u)
    BY <1>1, <1>2, <2>1 DEF Promised
  <2> QED
    BY <1>1, <1>2, <2>1, <2>2 DEF TypeOK, Demote
<1>4. CASE ~ ok
  <2>1. level' = level /\ before' = before
    BY <1>4 DEF DemoteBy, Result
  <2> QED
    BY <1>1, <2>1 DEF TypeOK, Promised, vars
<1> QED
  BY <1>3, <1>4

LEMMA RestartStep ==
  ASSUME IInv, NEW t \in Threads, ThreadRestart(t) PROVE IInv' /\ Restart(t)
<1>1. /\ pthread \in [Threads -> Pthreads] /\ Pthreads \subseteq Nat
      /\ pthread' = [pthread EXCEPT ![t] = pthread[t] + 1] /\ pthread' \in [Threads -> Pthreads]
      /\ UNCHANGED << heap, held, buffers, gathered >>
  BY ApiAssumption DEF IInv, ApiTypeOK, ThreadRestart
<1>2. Restart(t) /\ TypeOK'
  BY LevelsAssumption DEF ThreadRestart, Restart, Ordinary, IInv, ApiTypeOK, TypeOK
<1>3. \A info \in gathered : Faithful(info)'
  <2> SUFFICES ASSUME NEW info \in gathered PROVE Faithful(info)'
    OBVIOUS
  <2>1. info.thread_id \in Threads /\ info.pthread_id \in Nat /\ Faithful(info)
    BY <1>1 DEF IInv, ApiTypeOK, Infos
  <2>2. pthread[info.thread_id] \in Nat /\ pthread[t] \in Nat
    BY <1>1, <2>1
  <2>3. CASE info.thread_id = t
    BY <1>1, <2>1, <2>2, <2>3 DEF Faithful
  <2>4. CASE info.thread_id # t
    <3>1. level'[info.thread_id] = level[info.thread_id]
          /\ before'[info.thread_id] = before[info.thread_id]
      BY <1>2, <2>1, <2>4 DEF Restart, IInv, ApiTypeOK, TypeOK
    <3> QED
      BY <1>1, <2>1, <2>4, <3>1 DEF Faithful, Promised, Saved
  <2> QED
    BY <2>3, <2>4
<1> QED
  BY <1>1, <1>2, <1>3
     DEF IInv, ApiTypeOK, BoxesOwned, InfosGenuine, BuffersGenuine

(* What a call gathers, it reads from a thread that is not promoted. *)
OnlyOrdinaryGathered ==
  \A info \in gathered' : info \in gathered \/ \E t \in Threads : info = InfoOf(t) /\ before[t] = None

(* A call that leaves what is promised, and gathers only what a thread of now
   has to say, keeps every info faithful. *)
LEMMA FaithfulStep ==
  ASSUME IInv, pthread' = pthread, \A u \in Threads : Promised(u)' = Promised(u),
         OnlyOrdinaryGathered
  PROVE  gathered' \subseteq Infos /\ \A info \in gathered' : Faithful(info)'
<1>1. gathered' \subseteq Infos
  BY InfoFacts DEF IInv, ApiTypeOK, OnlyOrdinaryGathered
<1>2. ASSUME NEW info \in gathered' PROVE Faithful(info)
  <2>1. CASE info \in gathered
    BY <2>1 DEF IInv
  <2>2. ASSUME NEW t \in Threads, info = InfoOf(t), before[t] = None PROVE Faithful(info)
    <3>1. pthread[t] \in Nat
      BY ApiAssumption DEF IInv, ApiTypeOK
    <3> QED
      BY <2>2, <3>1, InfoFacts DEF Faithful, Promised
  <2> QED
    BY <1>2, <2>1, <2>2 DEF OnlyOrdinaryGathered
<1>3. ASSUME NEW info \in gathered' PROVE Faithful(info)'
  <2>1. info.thread_id \in Threads
    BY <1>1, <1>3 DEF Infos
  <2> QED
    BY <1>2, <1>3, <2>1 DEF Faithful, Saved
<1> QED
  BY <1>1, <1>3

(* What is left to show of a call once its boxes and buffers are in order. *)
LEMMA Keeping ==
  ASSUME IInv, TypeOK', Boxed', InfosGenuine', BuffersGenuine', pthread' = pthread,
         \A u \in Threads : Promised(u)' = Promised(u),
         OnlyOrdinaryGathered
  PROVE  IInv'
  BY FaithfulStep DEF IInv, ApiTypeOK, Boxed

-----------------------------------------------------------------------------
(* The calls. *)

LEMMA InfoStep ==
  ASSUME IInv, NEW c \in Threads, InfoCalls(c)
  PROVE  IInv' /\ UNCHANGED vars
<1>1. pthread' = pthread /\ UNCHANGED vars
  BY DEF InfoCalls, atp_get_current_thread_info, atp_free_thread_info,
         atp_serialize_thread_info, atp_deserialize_thread_info, vars
<1>2. TypeOK' /\ \A u \in Threads : Promised(u)' = Promised(u)
  BY <1>1 DEF IInv, ApiTypeOK, TypeOK, Promised, vars
<1>3. CASE atp_get_current_thread_info(c)
  <2>1. /\ before[c] = None /\ Give(c, "info", InfoOf(c)) /\ buffers' = buffers
        /\ gathered' = gathered \cup {InfoOf(c)} /\ InfoOf(c) \in Infos
    BY <1>3, InfoFacts DEF atp_get_current_thread_info
  <2>2. Boxed' /\ InfosGenuine'
    BY <2>1, GiveStep
  <2>3. BuffersGenuine'
    BY <2>1 DEF IInv, BuffersGenuine
  <2> QED
    BY <1>1, <1>2, <2>1, <2>2, <2>3, Keeping DEF OnlyOrdinaryGathered
<1>4. ASSUME NEW p \in Ptrs, atp_free_thread_info(c, p) PROVE IInv'
  <2>1. p \in held /\ TakeBack(p, TRUE) /\ buffers' = buffers /\ gathered' = gathered
    BY <1>4 DEF atp_free_thread_info, Passes
  <2>2. Boxed' /\ InfosGenuine'
    BY <2>1, TakeBackStep
  <2>3. BuffersGenuine'
    BY <2>1 DEF IInv, BuffersGenuine
  <2> QED
    BY <1>1, <1>2, <2>1, <2>2, <2>3, Keeping DEF OnlyOrdinaryGathered
<1>5. ASSUME NEW p \in Ptrs, atp_serialize_thread_info(c, p) PROVE IInv'
  <2>1. /\ p \in held /\ heap[p].info \in gathered /\ UNCHANGED << heap, held, gathered >>
        /\ buffers' = buffers \cup {serialize(heap[p].info)}
    BY <1>5, HeldFacts DEF atp_serialize_thread_info, Passes
  <2>2. Boxed' /\ InfosGenuine'
    BY <2>1 DEF IInv, ApiTypeOK, Boxed, BoxesOwned, InfosGenuine
  <2>3. BuffersGenuine'
    BY <2>1 DEF IInv, BuffersGenuine
  <2> QED
    BY <1>1, <1>2, <2>1, <2>2, <2>3, Keeping DEF OnlyOrdinaryGathered
<1>6. ASSUME NEW bytes \in buffers, atp_deserialize_thread_info(c, bytes) PROVE IInv'
  <2>1. PICK info \in gathered : bytes = serialize(info)
    BY DEF IInv, BuffersGenuine
  <2>2. info \in Infos /\ deserialize(bytes) = info
    BY <2>1, FieldsFit DEF IInv, ApiTypeOK
  <2>3. Give(c, "info", info) /\ buffers' = buffers /\ gathered' = gathered
    BY <1>6, <2>2 DEF atp_deserialize_thread_info
  <2>4. Boxed' /\ InfosGenuine'
    BY <2>2, <2>3, GiveStep
  <2>5. BuffersGenuine'
    BY <2>3 DEF IInv, BuffersGenuine
  <2> QED
    BY <1>1, <1>2, <2>3, <2>4, <2>5, Keeping DEF OnlyOrdinaryGathered
<1> QED
  BY <1>1, <1>3, <1>4, <1>5, <1>6 DEF InfoCalls

LEMMA PromotionStep ==
  ASSUME IInv, NEW c \in Threads, Promotions(c)
  PROVE  IInv' /\ \E t \in Threads : Promote(t)
<1>1. PICK rate \in Rates, l \in RealTimeLevels :
        \/ atp_promote_current_thread_to_real_time(c, rate, l)
        \/ \E p \in Ptrs : atp_promote_thread_to_real_time(c, p, rate, l)
  BY DEF Promotions
<1>2. CASE atp_promote_current_thread_to_real_time(c, rate, l)
  <2>1. /\ PromoteTo(c, l, InfoOf(c)) /\ Give(c, "handle", InfoOf(c)) /\ before[c] = None
        /\ gathered' = gathered \cup {InfoOf(c)} /\ pthread' = pthread /\ buffers' = buffers
    BY <1>2 DEF atp_promote_current_thread_to_real_time, OwnInfo, PromoteTo
  <2>2. InfoOf(c) \in Infos /\ Saved(InfoOf(c)) = level[c]
    BY InfoFacts
  <2>3. TypeOK' /\ Promote(c) /\ \A u \in Threads : Promised(u)' = Promised(u)
    BY <2>1, <2>2, PromoteStep
  <2>4. Boxed' /\ InfosGenuine'
    BY <2>1, <2>2, GiveStep
  <2>5. BuffersGenuine'
    BY <2>1 DEF IInv, BuffersGenuine
  <2> QED
    BY <2>1, <2>3, <2>4, <2>5, Keeping DEF OnlyOrdinaryGathered
<1>3. ASSUME NEW p \in Ptrs, atp_promote_thread_to_real_time(c, p, rate, l)
      PROVE  IInv' /\ \E t \in Threads : Promote(t)
  <2> DEFINE info == heap[p].info
             t == info.thread_id
  <2>1. /\ p \in held /\ Fresh(info) /\ PromoteTo(t, l, info) /\ Give(c, "handle", info)
        /\ pthread' = pthread /\ buffers' = buffers /\ gathered' = gathered
    BY <1>3 DEF atp_promote_thread_to_real_time, Passes
  <2>2. info \in gathered /\ info \in Infos /\ t \in Threads /\ Saved(info) = Promised(t)
    BY <2>1, HeldFacts, FreshFacts
  <2>3. Saved(info) = level[t]
    BY <2>1, <2>2 DEF PromoteTo, Promised
  <2> HIDE DEF info, t
  <2>4. TypeOK' /\ Promote(t) /\ \A u \in Threads : Promised(u)' = Promised(u)
    BY <2>1, <2>2, <2>3, PromoteStep
  <2>5. Boxed' /\ InfosGenuine'
    BY <2>1, <2>2, GiveStep
  <2>6. BuffersGenuine'
    BY <2>1 DEF IInv, BuffersGenuine
  <2> QED
    BY <2>1, <2>2, <2>4, <2>5, <2>6, Keeping DEF OnlyOrdinaryGathered
<1> QED
  BY <1>1, <1>2, <1>3

LEMMA DemotionStep ==
  ASSUME IInv, NEW c \in Threads, Demotions(c)
  PROVE  IInv' /\ ((\E t \in Threads : Demote(t)) \/ UNCHANGED vars)
<1>1. PICK p \in Ptrs :
        \/ \E ok \in BOOLEAN : \/ atp_demote_current_thread_from_real_time(c, p, ok)
                               \/ atp_demote_thread_from_real_time(c, p, ok)
        \/ atp_free_handle(c, p)
  BY DEF Demotions
<1>2. p \in held /\ UNCHANGED << pthread, buffers, gathered >>
  BY <1>1 DEF atp_demote_current_thread_from_real_time, atp_demote_thread_from_real_time,
              atp_free_handle, Passes
<1> DEFINE info == heap[p].info
<1>3. info \in gathered
  BY <1>2, HeldFacts
<1>4. BuffersGenuine'
  BY <1>2 DEF IInv, BuffersGenuine
<1>5. CASE atp_free_handle(c, p)
  <2>1. UNCHANGED vars /\ TakeBack(p, TRUE)
    BY <1>5 DEF atp_free_handle, vars
  <2>2. TypeOK' /\ \A u \in Threads : Promised(u)' = Promised(u)
    BY <2>1 DEF IInv, ApiTypeOK, TypeOK, Promised, vars
  <2>3. Boxed' /\ InfosGenuine'
    BY <1>2, <2>1, TakeBackStep
  <2> QED
    BY <1>2, <1>4, <2>1, <2>2, <2>3, Keeping DEF OnlyOrdinaryGathered
<1>6. ASSUME NEW ok \in BOOLEAN, atp_demote_current_thread_from_real_time(c, p, ok)
      PROVE  IInv' /\ ((\E t \in Threads : Demote(t)) \/ UNCHANGED vars)
  <2>1. Fresh(info) /\ info.thread_id = c /\ DemoteBy(c, info, ok) /\ TakeBack(p, ok)
    BY <1>6 DEF atp_demote_current_thread_from_real_time
  <2>2. Saved(info) = Promised(c)
    BY <1>3, <2>1, FreshFacts
  <2> HIDE DEF info
  <2>3. /\ TypeOK' /\ (Demote(c) \/ UNCHANGED vars)
        /\ \A u \in Threads : Promised(u)' = Promised(u)
    BY <2>1, <2>2, DemoteStep
  <2>4. Boxed' /\ InfosGenuine'
    BY <1>2, <2>1, TakeBackStep
  <2> QED
    BY <1>2, <1>4, <2>3, <2>4, Keeping DEF OnlyOrdinaryGathered
<1>7. ASSUME NEW ok \in BOOLEAN, atp_demote_thread_from_real_time(c, p, ok)
      PROVE  IInv' /\ ((\E t \in Threads : Demote(t)) \/ UNCHANGED vars)
  <2> DEFINE t == info.thread_id
  <2>1. Fresh(info) /\ DemoteBy(t, info, ok) /\ UNCHANGED << heap, held >>
    BY <1>7 DEF atp_demote_thread_from_real_time
  <2>2. t \in Threads /\ Saved(info) = Promised(t)
    BY <1>3, <2>1, FreshFacts
  <2>3. Boxed' /\ InfosGenuine'
    BY <1>2, <2>1 DEF IInv, ApiTypeOK, Boxed, BoxesOwned, InfosGenuine
  <2> HIDE DEF info, t
  <2>4. /\ TypeOK' /\ (Demote(t) \/ UNCHANGED vars)
        /\ \A u \in Threads : Promised(u)' = Promised(u)
    BY <2>1, <2>2, DemoteStep
  <2> QED
    BY <1>2, <1>4, <2>2, <2>3, <2>4, Keeping DEF OnlyOrdinaryGathered
<1> QED
  BY <1>1, <1>5, <1>6, <1>7

LEMMA AnyStep ==
  ASSUME IInv, [ApiNext]_apiVars
  PROVE  IInv' /\ [Next]_vars
<1>1. CASE UNCHANGED apiVars
  BY <1>1 DEF apiVars, vars, IInv, ApiTypeOK, TypeOK, BoxesOwned, InfosGenuine,
              BuffersGenuine, Faithful, Promised
<1>2. ASSUME NEW c \in Threads,
             InfoCalls(c) \/ Promotions(c) \/ Demotions(c) \/ ThreadRestart(c)
      PROVE  IInv' /\ [Next]_vars
  BY <1>2, InfoStep, PromotionStep, DemotionStep, RestartStep DEF Next
<1> QED
  BY <1>1, <1>2 DEF ApiNext

(* The inductive invariant: the boxes are those the client may use, what is in
   them and in the buffers is what was gathered, and an info of a thread that
   runs saves what its thread is to come back to. *)
THEOREM Inductive == ApiSpec => []IInv
<1>1. ApiInit => IInv
  <2> SUFFICES ASSUME ApiInit PROVE IInv
    OBVIOUS
  <2>1. TypeOK
    BY LevelsAssumption DEF ApiInit, Init, TypeOK, Ordinary
  <2>2. pthread \in [Threads -> Pthreads]
    BY ApiAssumption DEF ApiInit
  <2> QED
    BY <2>1, <2>2 DEF ApiInit, IInv, ApiTypeOK, BoxesOwned, InfosGenuine, BuffersGenuine
<1>2. IInv /\ [ApiNext]_apiVars => IInv'
  BY AnyStep
<1> QED
  BY <1>1, <1>2, PTL DEF ApiSpec

(* The type invariant, for any threads, levels and addresses. *)
THEOREM ApiTypeCorrect == ApiSpec => []ApiTypeOK
<1>1. IInv => ApiTypeOK
  BY DEF IInv
<1> QED
  BY <1>1, Inductive, PTL

(* Infos can be sent on any number of times. *)
THEOREM SentOn == ApiSpec => []RoundTrip
<1>1. IInv => RoundTrip
  BY HeldFacts, FieldsFit DEF RoundTrip
<1> QED
  BY <1>1, Inductive, PTL

(* A box is live exactly while the client holds its pointer, whatever demotions
   fail: the library leaks nothing and frees nothing twice. *)
THEOREM NothingLeaked == ApiSpec => []BoxesOwned
<1>1. IInv => BoxesOwned
  BY DEF IInv
<1> QED
  BY <1>1, Inductive, PTL

(* Every info a client holds, however it came, was read from a thread. *)
THEOREM OnlyGenuineInfos == ApiSpec => []InfosGenuine
<1>1. IInv => InfosGenuine
  BY DEF IInv
<1> QED
  BY <1>1, Inductive, PTL

(* The C API keeps the contract: promotions and demotions with handles or with
   copies of infos, in any process, are those of RtPriority. *)
THEOREM ApiKeepsContract == ApiSpec => KeepsContract
<1>1. ApiInit => Init
  BY DEF ApiInit
<1>2. IInv /\ [ApiNext]_apiVars => [Next]_vars
  BY AnyStep
<1> QED
  BY <1>1, <1>2, Inductive, PTL DEF ApiSpec, KeepsContract, Spec
(* So a thread is real-time exactly while a promotion is in effect... *)
THEOREM ApiRealTime == ApiSpec => []RealTimeIffPromised
  BY ApiKeepsContract, ContractRealTime, PTL DEF KeepsContract

(* ... and what comes back is never real-time. *)
THEOREM ApiOrdinary == ApiSpec => []RemembersOrdinary
  BY ApiKeepsContract, ContractOrdinary, PTL DEF KeepsContract
=============================================================================
