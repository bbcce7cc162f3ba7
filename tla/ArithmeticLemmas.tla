-------------------------- MODULE ArithmeticLemmas ---------------------------
(***************************************************************************)
(* The facts about numbers that the proofs of several components rest on:  *)
(* induction and loops, products and quotients of naturals (indexes,       *)
(* weighted averages), how the total of a ledger changes with one entry,   *)
(* for every finite set of owners (conservation), and what the arithmetic  *)
(* of the distribution manager does to a record, which the staked token    *)
(* and the incentives controller share.                                    *)
(***************************************************************************)
EXTENDS PegasysDistributionManager, LedgerTotal, FiniteSetTheorems, WellFoundedInduction, TLAPS

\* The naturals are well-founded, ...
LEMMA NatsWellFounded ==
    IsWellFoundedOn({p \in Nat \X Nat : p[1] < p[2]}, Nat)
  BY NatLessThanWellFounded DEF OpToRel

(***************************************************************************)
(* ... so a set of naturals that has 0 and the successor of each of its    *)
(* members has them all: induction over a set, for what a recursive        *)
(* definition computes.                                                    *)
(***************************************************************************)
LEMMA SetInduction ==
    ASSUME NEW T \in SUBSET Nat, 0 \in T, \A n \in T : n + 1 \in T
    PROVE  T = Nat
<1> DEFINE R == {p \in Nat \X Nat : p[1] < p[2]}
<1>1. SUFFICES ASSUME Nat \ T # {} PROVE FALSE
  OBVIOUS
<1>2. PICK x \in Nat \ T : \A y \in Nat \ T : ~ (<<y, x>> \in R)
  <2>1. IsWellFoundedOn(R, Nat)
    BY NatsWellFounded
  <2> HIDE DEF R
  <2> QED
    BY <1>1, <2>1, WFMin
<1>3. x # 0 /\ x - 1 \in Nat /\ <<x - 1, x>> \in R
  BY <1>2
<1>4. x - 1 \in T
  BY <1>2, <1>3
<1> QED
  BY <1>2, <1>3, <1>4

-----------------------------------------------------------------------------
(* Loops: a value per round, from that of the round before. *)

LEMMA LoopInduction ==
    ASSUME NEW n \in Nat, NEW T, 0 \in T, \A i \in 1 .. n : i - 1 \in T => i \in T
    PROVE  \A i \in 0 .. n : i \in T
<1> DEFINE U == {k \in Nat : k <= n => k \in T}
<1>1. 0 \in U
  OBVIOUS
<1>2. \A k \in U : k + 1 \in U
  OBVIOUS
<1> HIDE DEF U
<1>3. U = Nat
  <2>1. U \in SUBSET Nat
    BY DEF U
  <2> QED
    BY <1>1, <1>2, <2>1, SetInduction
<1> QED
  BY <1>3 DEF U

LoopValues(V, base, n, round) ==
    {f \in [0 .. n -> V] :
        f[0] = base /\ \A i \in 1 .. n : f[i] = round[<<f[i - 1], i>>]}

\* A loop has values, whatever its rounds do with them.
LEMMA LoopExists ==
    ASSUME NEW V, NEW base \in V, NEW n \in Nat, NEW round \in [V \X (1 .. n) -> V]
    PROVE  LoopValues(V, base, n, round) # {}
<1> DEFINE Runs(f, k) == /\ f \in [0 .. k -> V] /\ f[0] = base
                         /\ \A i \in 1 .. k : f[i] = round[<<f[i - 1], i>>]
           T == {k \in 0 .. n : \E f : Runs(f, k)}
<1>1. 0 \in T
  <2> DEFINE f == [i \in 0 .. 0 |-> base]
  <2>1. f \in [0 .. 0 -> V] /\ f[0] = base /\ 1 .. 0 = {}
    OBVIOUS
  <2> HIDE DEF f
  <2>2. Runs(f, 0)
    BY <2>1
  <2> QED
    BY <2>2
<1>2. ASSUME NEW k \in 1 .. n, k - 1 \in T PROVE k \in T
  <2>1. PICK f : Runs(f, k - 1)
    BY <1>2
  <2> DEFINE g == [i \in 0 .. k |-> IF i = k THEN round[<<f[k - 1], k>>] ELSE f[i]]
  <2>2. f[k - 1] \in V /\ round[<<f[k - 1], k>>] \in V
    <3>1. f[k - 1] \in V
      BY <2>1
    <3> QED
      BY <3>1
  <2>3. g \in [0 .. k -> V] /\ g[0] = base
    BY <2>1, <2>2
  <2>4. ASSUME NEW i \in 1 .. k PROVE g[i] = round[<<g[i - 1], i>>]
    <3>1. i - 1 \in 0 .. k /\ i - 1 # k /\ i \in 0 .. k
      OBVIOUS
    <3>2. g[i - 1] = f[i - 1]
      BY <3>1
    <3>3. g[i] = round[<<f[i - 1], i>>]
      <4>1. CASE i = k
        BY <3>1, <4>1
      <4>2. CASE i # k
        <5>1. i \in 1 .. (k - 1) /\ g[i] = f[i]
          BY <3>1, <4>2
        <5> QED
          BY <2>1, <5>1
      <4> QED
        BY <4>1, <4>2
    <3> QED
      BY <3>2, <3>3
  <2> HIDE DEF g
  <2>5. Runs(g, k)
    BY <2>3, <2>4
  <2> QED
    BY <2>5
<1> HIDE DEF T
<1>3. \A k \in 0 .. n : k \in T
  BY <1>1, <1>2, LoopInduction
<1>4. PICK f : Runs(f, n)
  BY <1>3 DEF T
<1> QED
  BY <1>4 DEF LoopValues

\* A product of naturals is a natural.
LEMMA ProductNat ==
    ASSUME NEW a \in Nat, NEW b \in Nat
    PROVE  a * b \in Nat
  OBVIOUS

\* Multiplication by a natural keeps the order.
LEMMA ProductMonotone ==
    ASSUME NEW a \in Nat, NEW b \in Nat, NEW c \in Nat, a <= b
    PROVE  c * a <= c * b
<1>1. PICK d \in Nat : b = a + d
  BY b - a \in Nat
<1>2. c * b = c * a + c * d
  BY <1>1
<1>3. c * d \in Nat
  BY <1>1, ProductNat
<1> QED
  BY <1>1, <1>2, <1>3, ProductNat

\* A factor that both products have can be left out.
LEMMA ProductCancel ==
    ASSUME NEW a \in Nat, NEW b \in Nat, NEW c \in Nat, c # 0, a * c <= b * c
    PROVE  a <= b
<1> SUFFICES ASSUME b + 1 <= a PROVE FALSE
  OBVIOUS
<1>1. c * (b + 1) <= c * a
  BY ProductMonotone
<1>2. c * (b + 1) = b * c + c /\ c * a = a * c
  OBVIOUS
<1>3. a * c \in Nat /\ b * c \in Nat
  BY ProductNat
<1> QED
  BY <1>1, <1>2, <1>3

\* The quotient is the largest number of times the divisor fits.
LEMMA QuotientBounds ==
    ASSUME NEW n \in Nat, NEW d \in Nat, d # 0
    PROVE  /\ n \div d \in Nat
           /\ d * (n \div d) <= n
           /\ n < d * ((n \div d) + 1)
<1>1. n \div d \in Int /\ n % d \in 0 .. (d - 1)
  OBVIOUS
<1>2. n = d * (n \div d) + (n % d)
  OBVIOUS
<1>3. n \div d \in Nat
  OBVIOUS
<1>4. d * ((n \div d) + 1) = d * (n \div d) + d
  BY <1>1
<1> QED
  BY <1>1, <1>2, <1>3, <1>4

\* The quotient of a greater number is not less.
LEMMA QuotientMonotone ==
    ASSUME NEW m \in Nat, NEW n \in Nat, NEW d \in Nat, d # 0, m <= n
    PROVE  m \div d <= n \div d
<1> DEFINE p == m \div d
           q == n \div d
<1>1. p \in Nat /\ q \in Nat /\ d * p <= m /\ n < d * (q + 1)
  BY QuotientBounds
<1> HIDE DEF p, q
<1>2. SUFFICES ASSUME q + 1 <= p PROVE FALSE
  BY <1>1 DEF p, q
<1>3. d * (q + 1) <= d * p /\ d * (q + 1) \in Nat /\ d * p \in Nat
  BY <1>1, <1>2, ProductMonotone, ProductNat
<1> QED
  BY <1>1, <1>3

\* Half of what is left is less than that.
LEMMA HalfIsLess ==
    ASSUME NEW n \in Nat, n # 0
    PROVE  n \div 2 \in 0 .. (n - 1)
  OBVIOUS

(***************************************************************************)
(* The rounded weighted average of two numbers lies between them.          *)
(***************************************************************************)
LEMMA AverageBetween ==
    ASSUME NEW low \in Nat, NEW high \in Nat, low <= high,
           NEW x \in Nat, NEW y \in Nat, x + y # 0
    PROVE  (x * high + y * low) \div (x + y) \in low .. high
<1> DEFINE n == x * high + y * low
           d == x + y
           q == n \div d
<1>1. n \in Nat /\ d \in Nat /\ d # 0
  BY ProductNat
<1>2. q \in Nat /\ d * q <= n /\ n < d * (q + 1)
  BY <1>1, QuotientBounds
<1>3. d * low <= n
  <2>1. d * low = x * low + y * low
    OBVIOUS
  <2>2. x * low <= x * high
    BY ProductMonotone
  <2> QED
    BY <2>1, <2>2, ProductNat
<1>4. n <= d * high
  <2>1. d * high = x * high + y * high
    OBVIOUS
  <2>2. y * low <= y * high
    BY ProductMonotone
  <2> QED
    BY <2>1, <2>2, ProductNat
<1>5. low <= q
  <2>1. SUFFICES ASSUME q + 1 <= low PROVE FALSE
    BY <1>2
  <2>2. d * (q + 1) <= d * low
    BY <1>1, <1>2, <2>1, ProductMonotone
  <2>3. d * (q + 1) \in Nat /\ d * low \in Nat
    BY <1>1, <1>2, ProductNat
  <2> HIDE DEF n, d, q
  <2> QED
    BY <1>1, <1>2, <1>3, <2>2, <2>3
<1>6. q <= high
  <2>1. SUFFICES ASSUME high + 1 <= q PROVE FALSE
    BY <1>2
  <2>2. d * (high + 1) <= d * q
    BY <1>1, <1>2, <2>1, ProductMonotone
  <2>3. d * (high + 1) = d * high + d
    BY <1>1
  <2>4. d * high \in Nat /\ d * q \in Nat
    BY <1>1, <1>2, ProductNat
  <2> HIDE DEF n, d, q
  <2> QED
    BY <1>1, <1>2, <1>4, <2>2, <2>3, <2>4
<1> QED
  BY <1>2, <1>5, <1>6

-----------------------------------------------------------------------------
(* Totals of ledgers. *)

\* The units of one owner.
OwnUnits(ledger, o) == {o} \X (1 .. ledger[o])

\* The units of some of the owners, and of all but one.
UnitsOf(ledger, P) == UNION {OwnUnits(ledger, o) : o \in P}
OtherUnits(ledger, o) == UnitsOf(ledger, DOMAIN ledger \ {o})

\* The units of finitely many owners are finitely many.
LEMMA UnitsFinite ==
    ASSUME NEW S, IsFiniteSet(S), NEW P \in SUBSET S, NEW f \in [S -> Nat]
    PROVE  IsFiniteSet(UnitsOf(f, P))
<1> DEFINE T == {OwnUnits(f, o) : o \in P}
           g == [o \in P |-> OwnUnits(f, o)]
<1>1. IsFiniteSet(P)
  BY FS_Subset
<1>2. g \in Surjection(P, T)
  BY DEF Surjection
<1>3. IsFiniteSet(T)
  <2> HIDE DEF T, g
  <2> QED
    BY <1>1, <1>2, FS_Surjection
<1>4. \A t \in T : IsFiniteSet(t)
  <2>1. SUFFICES ASSUME NEW o \in P PROVE IsFiniteSet(OwnUnits(f, o))
    OBVIOUS
  <2>2. IsFiniteSet({o})
    BY FS_Singleton
  <2>3. IsFiniteSet(1 .. f[o])
    <3>1. 1 \in Int /\ f[o] \in Int
      OBVIOUS
    <3> QED
      BY <3>1, FS_Interval
  <2> QED
    BY <2>2, <2>3, FS_Product DEF OwnUnits
<1> HIDE DEF T
<1> QED
  BY <1>3, <1>4, FS_UNION DEF T, UnitsOf

\* An owner has as many units as its balance.
LEMMA OwnUnitsCount ==
    ASSUME NEW S, NEW f \in [S -> Nat], NEW o \in S
    PROVE  IsFiniteSet(OwnUnits(f, o)) /\ Cardinality(OwnUnits(f, o)) = f[o]
<1>1. IsFiniteSet({o}) /\ Cardinality({o}) = 1
  BY FS_Singleton
<1>2. f[o] \in Nat
  OBVIOUS
<1>3. IsFiniteSet(1 .. f[o]) /\ Cardinality(1 .. f[o]) = f[o]
  BY <1>2, FS_Interval
<1>4. Cardinality(OwnUnits(f, o)) = 1 * f[o] /\ IsFiniteSet(OwnUnits(f, o))
  BY <1>1, <1>3, FS_Product DEF OwnUnits
<1> QED
  BY <1>2, <1>4

\* The total is an owner's balance and the count of everybody else's units.
LEMMA TotalSplit ==
    ASSUME NEW S, IsFiniteSet(S), NEW f \in [S -> Nat], NEW o \in S
    PROVE  /\ Cardinality(OtherUnits(f, o)) \in Nat
           /\ Total(f) = Cardinality(OtherUnits(f, o)) + f[o]
<1> DEFINE rest == OtherUnits(f, o)
           own == OwnUnits(f, o)
<1>1. IsFiniteSet(rest)
  <2>1. rest = UnitsOf(f, S \ {o})
    BY DEF OtherUnits
  <2>2. S \ {o} \in SUBSET S
    OBVIOUS
  <2> QED
    BY <2>1, <2>2, UnitsFinite
<1>2. IsFiniteSet(own) /\ Cardinality(own) = f[o]
  BY OwnUnitsCount
<1>3. Units(f) = rest \cup own
  BY DEF Units, OtherUnits, UnitsOf, OwnUnits
<1>4. rest \cap own = {}
  BY DEF OtherUnits, UnitsOf, OwnUnits
<1> HIDE DEF rest, own
<1>5. Cardinality(rest \cup own) = Cardinality(rest) + Cardinality(own)
                                     - Cardinality(rest \cap own)
  BY <1>1, <1>2, FS_Union
<1>6. Cardinality(rest \cap own) = 0
  BY <1>4, FS_EmptySet
<1>7. Cardinality(rest) \in Nat
  BY <1>1, FS_CardinalityType
<1>8. f[o] \in Nat
  OBVIOUS
<1>9. Cardinality(rest \cup own) = Cardinality(rest) + f[o]
  BY <1>2, <1>4, <1>5, <1>6, <1>7, <1>8
<1>10. Total(f) = Cardinality(rest) + f[o]
  BY <1>3, <1>9 DEF Total
<1> QED
  BY <1>7, <1>10 DEF rest

\* A ledger of finitely many owners has finitely many units.
LEMMA LedgerFinite ==
    ASSUME NEW S, IsFiniteSet(S), NEW f \in [S -> Nat]
    PROVE  IsFiniteSet(Units(f))
<1>1. Units(f) = UnitsOf(f, S)
  BY DEF Units, UnitsOf, OwnUnits
<1> QED
  BY <1>1, UnitsFinite

\* The total is a natural, and no owner has more than that.
LEMMA TotalBounds ==
    ASSUME NEW S, IsFiniteSet(S), NEW f \in [S -> Nat]
    PROVE  /\ Total(f) \in Nat
           /\ \A o \in S : f[o] <= Total(f)
<1>1. Total(f) \in Nat
  BY LedgerFinite, FS_CardinalityType DEF Total
<1>2. ASSUME NEW o \in S PROVE f[o] <= Total(f)
  <2>1. f[o] \in Nat
    OBVIOUS
  <2> QED
    BY <2>1, TotalSplit
<1> QED
  BY <1>1, <1>2

\* Writing one entry changes the total by the difference.
LEMMA TotalUpdate ==
    ASSUME NEW S, IsFiniteSet(S), NEW f \in [S -> Nat], NEW o \in S, NEW v \in Nat
    PROVE  Total([f EXCEPT ![o] = v]) = Total(f) - f[o] + v
<1> DEFINE g == [f EXCEPT ![o] = v]
<1>1. g \in [S -> Nat] /\ g[o] = v
  OBVIOUS
<1>2. OtherUnits(g, o) = OtherUnits(f, o)
  <2>1. \A p \in S \ {o} : OwnUnits(g, p) = OwnUnits(f, p)
    BY DEF OwnUnits
  <2> QED
    BY <1>1, <2>1 DEF OtherUnits, UnitsOf
<1> HIDE DEF g
<1>3. /\ Total(f) = Cardinality(OtherUnits(f, o)) + f[o]
      /\ Cardinality(OtherUnits(f, o)) \in Nat
  BY TotalSplit
<1>4. Total(g) = Cardinality(OtherUnits(g, o)) + v
  BY <1>1, TotalSplit
<1>5. f[o] \in Nat
  OBVIOUS
<1> QED
  BY <1>2, <1>3, <1>4, <1>5 DEF g

\* A ledger of zeros is worth nothing.
LEMMA TotalZero ==
    ASSUME NEW S
    PROVE  Total([o \in S |-> 0]) = 0
<1>1. Units([o \in S |-> 0]) = {}
  BY DEF Units
<1> QED
  BY <1>1, FS_EmptySet DEF Total

\* Two ledgers that agree everywhere but on one owner.
LEMMA TotalChange ==
    ASSUME NEW S, IsFiniteSet(S), NEW f \in [S -> Nat], NEW g \in [S -> Nat],
           NEW o \in S, \A p \in S \ {o} : g[p] = f[p]
    PROVE  Total(g) = Total(f) - f[o] + g[o]
<1>1. g = [f EXCEPT ![o] = g[o]]
  OBVIOUS
<1>2. g[o] \in Nat
  OBVIOUS
<1> QED
  BY <1>1, <1>2, TotalUpdate

\* Two ledgers that agree everywhere but on two owners.
LEMMA TotalChange2 ==
    ASSUME NEW S, IsFiniteSet(S), NEW f \in [S -> Nat], NEW g \in [S -> Nat],
           NEW o \in S, NEW p \in S, o # p,
           \A q \in S \ {o, p} : g[q] = f[q]
    PROVE  Total(g) = Total(f) - f[o] + g[o] - f[p] + g[p]
<1> DEFINE h == [f EXCEPT ![o] = g[o]]
<1>1. h \in [S -> Nat] /\ h[p] = f[p] /\ \A q \in S \ {p} : g[q] = h[q]
  OBVIOUS
<1>2. Total(h) = Total(f) - f[o] + g[o]
  <2>1. g[o] \in Nat
    OBVIOUS
  <2> QED
    BY <2>1, TotalUpdate
<1>3. Total(g) = Total(h) - h[p] + g[p]
  <2> HIDE DEF h
  <2> QED
    BY <1>1, TotalChange
<1>4. f[o] \in Nat /\ g[o] \in Nat /\ f[p] \in Nat /\ g[p] \in Nat
  OBVIOUS
<1>5. Total(f) \in Nat
  BY TotalBounds
<1> HIDE DEF h
<1> QED
  BY <1>1, <1>2, <1>3, <1>4, <1>5

(***************************************************************************)
(* The total of a sum is the sum of the totals: what an owner has in both  *)
(* ledgers is what it has in the first one, followed by what it has in the *)
(* second.                                                                 *)
(***************************************************************************)
LEMMA TotalSum ==
    ASSUME NEW S, IsFiniteSet(S), NEW f \in [S -> Nat], NEW g \in [S -> Nat]
    PROVE  Total([o \in S |-> f[o] + g[o]]) = Total(f) + Total(g)
<1> DEFINE sum == [o \in S |-> f[o] + g[o]]
           shift == [unit \in Units(g) |-> <<unit[1], f[unit[1]] + unit[2]>>]
           second == {<<unit[1], f[unit[1]] + unit[2]>> : unit \in Units(g)}
<1>1. sum \in [S -> Nat] /\ \A o \in S : sum[o] = f[o] + g[o]
  OBVIOUS
<1> HIDE DEF sum
<1>2. /\ \A u \in Units(f) : /\ u = <<u[1], u[2]>> /\ u[1] \in S
                             /\ u[2] \in 1 .. f[u[1]]
      /\ \A u \in Units(g) : /\ u = <<u[1], u[2]>> /\ u[1] \in S
                             /\ u[2] \in 1 .. g[u[1]]
      /\ \A u \in Units(sum) : /\ u = <<u[1], u[2]>> /\ u[1] \in S
                               /\ u[2] \in 1 .. sum[u[1]]
  BY <1>1 DEF Units
<1>3. /\ \A o \in S : \A i \in 1 .. f[o] : <<o, i>> \in Units(f)
      /\ \A o \in S : \A i \in 1 .. g[o] : <<o, i>> \in Units(g)
      /\ \A o \in S : \A i \in 1 .. sum[o] : <<o, i>> \in Units(sum)
  BY <1>1 DEF Units
<1>4. IsFiniteSet(Units(f)) /\ IsFiniteSet(Units(g))
  BY LedgerFinite
<1>5. shift \in Bijection(Units(g), second)
  <2>1. shift \in [Units(g) -> second] /\ \A y \in second : \E u \in Units(g) : shift[u] = y
    OBVIOUS
  <2>2. ASSUME NEW u \in Units(g), NEW v \in Units(g), shift[u] = shift[v]
        PROVE  u = v
    <3>1. u[1] = v[1] /\ f[u[1]] + u[2] = f[v[1]] + v[2]
      BY <2>2
    <3>2. f[u[1]] \in Nat /\ u[2] \in Nat /\ v[2] \in Nat
      BY <1>2
    <3>3. u[2] = v[2]
      BY <3>1, <3>2
    <3> QED
      BY <1>2, <3>1, <3>3
  <2> HIDE DEF shift, second
  <2> QED
    BY <2>1, <2>2 DEF Bijection, Injection, IsInjective, Surjection
<1>6. IsFiniteSet(second) /\ Cardinality(second) = Total(g)
  <2> HIDE DEF shift, second
  <2> QED
    BY <1>4, <1>5, FS_Bijection DEF Total, ExistsBijection
<1>7. Units(sum) = Units(f) \cup second
  <2>1. ASSUME NEW u \in Units(sum) PROVE u \in Units(f) \cup second
    <3>1. u[1] \in S /\ u = <<u[1], u[2]>> /\ f[u[1]] \in Nat /\ g[u[1]] \in Nat
          /\ u[2] \in 1 .. f[u[1]] + g[u[1]]
      BY <1>1, <1>2
    <3>2. CASE u[2] <= f[u[1]]
      BY <1>3, <3>1, <3>2
    <3>3. CASE u[2] > f[u[1]]
      <4> DEFINE v == <<u[1], u[2] - f[u[1]]>>
      <4>1. u[2] - f[u[1]] \in 1 .. g[u[1]]
        BY <3>1, <3>3
      <4>2. v \in Units(g) /\ v[1] = u[1] /\ f[v[1]] + v[2] = u[2]
        BY <1>3, <3>1, <4>1
      <4> QED
        BY <3>1, <4>2
    <3> QED
      BY <3>1, <3>2, <3>3
  <2>2. ASSUME NEW u \in Units(f) PROVE u \in Units(sum)
    <3>1. u[2] \in 1 .. sum[u[1]] /\ u[1] \in S /\ u = <<u[1], u[2]>>
      BY <1>1, <1>2
    <3> QED
      BY <1>3, <3>1
  <2>3. ASSUME NEW u \in Units(g) PROVE <<u[1], f[u[1]] + u[2]>> \in Units(sum)
    <3>1. f[u[1]] + u[2] \in 1 .. sum[u[1]] /\ u[1] \in S
      BY <1>1, <1>2
    <3> QED
      BY <1>3, <3>1
  <2> QED
    BY <2>1, <2>2, <2>3
<1>8. Units(f) \cap second = {}
  <2>1. ASSUME NEW u \in Units(g), <<u[1], f[u[1]] + u[2]>> \in Units(f) PROVE FALSE
    <3>1. f[u[1]] + u[2] \in 1 .. f[u[1]] /\ u[2] \in Nat /\ u[2] # 0 /\ f[u[1]] \in Nat
      BY <1>2, <2>1
    <3> QED
      BY <3>1
  <2> QED
    BY <2>1
<1> HIDE DEF second
<1>9. Cardinality(Units(sum)) = Cardinality(Units(f)) + Cardinality(second) - 0
  BY <1>4, <1>6, <1>7, <1>8, FS_Union, FS_EmptySet
<1>10. Total(f) \in Nat /\ Total(g) \in Nat
  BY TotalBounds
<1> QED
  BY <1>6, <1>9, <1>10 DEF Total, sum

\* If no owner has more, the total is not more.
LEMMA TotalMonotone ==
    ASSUME NEW S, IsFiniteSet(S), NEW f \in [S -> Nat], NEW g \in [S -> Nat],
           \A o \in S : f[o] <= g[o]
    PROVE  Total(f) <= Total(g)
<1>1. IsFiniteSet(Units(g))
  BY LedgerFinite
<1>2. \A o \in S : 1 .. f[o] \subseteq 1 .. g[o]
  OBVIOUS
<1>3. Units(f) \in SUBSET Units(g)
  BY <1>2 DEF Units
<1> QED
  BY <1>1, <1>3, FS_Subset DEF Total

\* The total of a multiple is the multiple of the total.
LEMMA TotalTimes ==
    ASSUME NEW S, IsFiniteSet(S), NEW f \in [S -> Nat], NEW c \in Nat
    PROVE  Total([o \in S |-> f[o] * c]) = Total(f) * c
<1> DEFINE T == {n \in Nat : Total([o \in S |-> f[o] * n]) = Total(f) * n}
<1>1. Total(f) \in Nat
  BY TotalBounds
<1>2. 0 \in T
  <2>1. [o \in S |-> f[o] * 0] = [o \in S |-> 0]
    OBVIOUS
  <2> QED
    BY <1>1, <2>1, TotalZero
<1>3. ASSUME NEW n \in T PROVE n + 1 \in T
  <2> DEFINE h == [o \in S |-> f[o] * n]
  <2>1. h \in [S -> Nat]
    BY ProductNat
  <2>2. [o \in S |-> f[o] * (n + 1)] = [o \in S |-> h[o] + f[o]]
    <3>1. \A o \in S : f[o] * (n + 1) = f[o] * n + f[o]
      OBVIOUS
    <3> QED
      BY <3>1
  <2>3. Total(h) = Total(f) * n
    OBVIOUS
  <2> HIDE DEF h
  <2>4. Total([o \in S |-> h[o] + f[o]]) = Total(h) + Total(f)
    BY <2>1, TotalSum
  <2>5. Total(f) * (n + 1) = Total(f) * n + Total(f)
    BY <1>1
  <2> QED
    BY <2>2, <2>3, <2>4, <2>5
<1>4. T = Nat
  <2>1. T \in SUBSET Nat
    OBVIOUS
  <2> HIDE DEF T
  <2> QED
    BY <1>2, <1>3, <2>1, SetInduction
<1>5. c \in T
  BY <1>4
<1> QED
  BY <1>5

\* Everybody has the same.
LEMMA TotalConstant ==
    ASSUME NEW S, IsFiniteSet(S), NEW c \in Nat
    PROVE  Total([o \in S |-> c]) = Cardinality(S) * c
<1>1. Units([o \in S |-> c]) = S \X (1 .. c)
  BY DEF Units
<1>2. IsFiniteSet(1 .. c) /\ Cardinality(1 .. c) = c
  BY FS_Interval
<1> QED
  BY <1>1, <1>2, FS_Product DEF Total

(***************************************************************************)
(* The sum of a table of naturals, by columns, is its sum by rows.         *)
(***************************************************************************)
LEMMA TotalSwap ==
    ASSUME NEW S, IsFiniteSet(S), NEW R, IsFiniteSet(R), NEW f \in [S -> [R -> Nat]]
    PROVE  Total([r \in R |-> Total([s \in S |-> f[s][r]])])
             = Total([s \in S |-> Total(f[s])])
<1> DEFINE cell(P, s, r) == IF s \in P THEN f[s][r] ELSE 0
           column(P, r) == [s \in S |-> cell(P, s, r)]
           byColumn(P) == [r \in R |-> Total(column(P, r))]
           byRow(P) == [s \in S |-> IF s \in P THEN Total(f[s]) ELSE 0]
           T == {n \in Nat : \A P \in SUBSET S :
                    Cardinality(P) = n => Total(byColumn(P)) = Total(byRow(P))}
<1>1. \A s \in S : f[s] \in [R -> Nat] /\ Total(f[s]) \in Nat
  BY TotalBounds
<1>2. ASSUME NEW P \in SUBSET S
      PROVE  /\ byRow(P) \in [S -> Nat] /\ byColumn(P) \in [R -> Nat]
             /\ \A r \in R : column(P, r) \in [S -> Nat]
  <2>1. \A s \in S, r \in R : f[s][r] \in Nat
    BY <1>1
  <2>2. \A r \in R : column(P, r) \in [S -> Nat]
    BY <2>1
  <2>3. \A r \in R : Total(column(P, r)) \in Nat
    <3> HIDE DEF column
    <3> QED
      BY <2>2, TotalBounds
  <2> QED
    BY <1>1, <2>2, <2>3
<1>3. 0 \in T
  <2> SUFFICES ASSUME NEW P \in SUBSET S, Cardinality(P) = 0
               PROVE  Total(byColumn(P)) = Total(byRow(P))
    OBVIOUS
  <2>1. P = {}
    BY FS_Subset, FS_EmptySet
  <2>2. byRow(P) = [s \in S |-> 0]
    BY <2>1
  <2>3. \A r \in R : column(P, r) = [s \in S |-> 0]
    BY <2>1
  <2>4. \A r \in R : Total(column(P, r)) = 0
    BY <2>3, TotalZero
  <2>5. byColumn(P) = [r \in R |-> 0]
    BY <2>4
  <2> QED
    BY <2>2, <2>5, TotalZero
<1>4. ASSUME NEW n \in T PROVE n + 1 \in T
  <2> SUFFICES ASSUME NEW P \in SUBSET S, Cardinality(P) = n + 1
               PROVE  Total(byColumn(P)) = Total(byRow(P))
    OBVIOUS
  <2>1. IsFiniteSet(P) /\ P # {}
    BY FS_Subset, FS_EmptySet
  <2>2. PICK p \in P : TRUE
    BY <2>1
  <2> DEFINE Q == P \ {p}
  <2>3. Q \in SUBSET S /\ Cardinality(Q) = n /\ p \in S /\ p \notin Q /\ P = Q \cup {p}
    <3>1. Cardinality(Q) = Cardinality(P) - 1
      BY <2>1, FS_RemoveElement, Zenon
    <3>2. Cardinality(P) - 1 = n
      <4> HIDE DEF Q
      <4> QED
        OBVIOUS
    <3> QED
      BY <2>2, <3>1, <3>2
  <2> HIDE DEF Q
  <2>4. Total(byColumn(Q)) = Total(byRow(Q))
    BY <2>3
  <2>5. ASSUME NEW r \in R
        PROVE  Total(column(P, r)) = Total(column(Q, r)) + f[p][r]
    <3>1. column(Q, r) \in [S -> Nat] /\ column(P, r) \in [S -> Nat]
      BY <1>2, <2>3
    <3>2. /\ column(Q, r)[p] = 0 /\ column(P, r)[p] = f[p][r]
          /\ \A s \in S \ {p} : column(P, r)[s] = column(Q, r)[s]
      BY <2>2, <2>3
    <3>3. f[p][r] \in Nat
      BY <1>1, <2>3
    <3> DEFINE g == column(P, r)
               h == column(Q, r)
    <3>0. /\ g \in [S -> Nat] /\ h \in [S -> Nat] /\ h[p] = 0 /\ g[p] = f[p][r]
          /\ \A s \in S \ {p} : g[s] = h[s]
      BY <3>1, <3>2
    <3> HIDE DEF column, g, h
    <3>4. Total(g) = Total(h) - 0 + f[p][r]
      BY <2>3, <3>0, TotalChange
    <3>5. Total(h) \in Nat
      BY <3>0, TotalBounds
    <3> QED
      BY <3>3, <3>4, <3>5 DEF g, h
  <2>6. byColumn(P) = [r \in R |-> byColumn(Q)[r] + f[p][r]]
    BY <2>5
  <2>7. Total(byColumn(P)) = Total(byColumn(Q)) + Total(f[p])
    <3>1. byColumn(Q) \in [R -> Nat] /\ f[p] \in [R -> Nat]
      BY <1>1, <1>2, <2>3
    <3> HIDE DEF byColumn
    <3> QED
      BY <2>6, <3>1, TotalSum
  <2>8. Total(byRow(P)) = Total(byRow(Q)) + Total(f[p])
    <3>1. byRow(Q) \in [S -> Nat] /\ byRow(P) \in [S -> Nat]
      BY <1>2, <2>3
    <3>2. /\ byRow(Q)[p] = 0 /\ byRow(P)[p] = Total(f[p])
          /\ \A s \in S \ {p} : byRow(P)[s] = byRow(Q)[s]
      BY <2>2, <2>3
    <3> DEFINE g == byRow(P)
               h == byRow(Q)
    <3>3. /\ g \in [S -> Nat] /\ h \in [S -> Nat] /\ h[p] = 0 /\ g[p] = Total(f[p])
          /\ \A s \in S \ {p} : g[s] = h[s]
      BY <3>1, <3>2
    <3> HIDE DEF byRow, g, h
    <3>4. Total(g) = Total(h) - 0 + Total(f[p])
      BY <2>3, <3>3, TotalChange
    <3>5. Total(h) \in Nat /\ Total(f[p]) \in Nat
      BY <1>1, <2>3, <3>3, TotalBounds
    <3> QED
      BY <3>4, <3>5 DEF g, h
  <2> QED
    BY <2>4, <2>7, <2>8
<1>5. T = Nat
  <2>1. T \in SUBSET Nat
    OBVIOUS
  <2> HIDE DEF T
  <2> QED
    BY <1>3, <1>4, <2>1, SetInduction
<1>6. Total(byColumn(S)) = Total(byRow(S))
  <2>1. Cardinality(S) \in Nat
    BY FS_CardinalityType
  <2> QED
    BY <1>5, <2>1
<1>7. byRow(S) = [s \in S |-> Total(f[s])]
  OBVIOUS
<1>8. byColumn(S) = [r \in R |-> Total([s \in S |-> f[s][r]])]
  <2>1. \A r \in R : column(S, r) = [s \in S |-> f[s][r]]
    OBVIOUS
  <2> QED
    BY <2>1
<1> QED
  BY <1>6, <1>7, <1>8

-----------------------------------------------------------------------------
(* What settling a distribution does to its record, for every record,      *)
(* balance and time: the index only grows, and no user gets ahead of it.   *)

\* The index never goes back.  (_getAssetIndex)
LEMMA IndexGrows ==
    ASSUME NEW H, NEW a \in AssetData(H), NEW total \in Nat, NEW t \in Nat,
           a.lastUpdateTimestamp <= t
    PROVE  /\ GetAssetIndex(a, total, t) \in Nat
           /\ a.index <= GetAssetIndex(a, total, t)
<1> DEFINE last == a.lastUpdateTimestamp
           upTo == IF t > DISTRIBUTION_END THEN DISTRIBUTION_END ELSE t
           standing == \/ a.emissionPerSecond = 0
                       \/ total = 0
                       \/ last = t
                       \/ last >= DISTRIBUTION_END
           step == (a.emissionPerSecond * (upTo - last) * Scale) \div total
<1>1. /\ a.emissionPerSecond \in Nat /\ last \in Nat /\ a.index \in Nat
      /\ Scale \in Nat /\ DISTRIBUTION_END \in Nat
  BY DistributionAssumption DEF AssetData
<1>2. CASE standing
  <2>1. GetAssetIndex(a, total, t) = a.index
    BY <1>2 DEF GetAssetIndex
  <2> QED
    BY <1>1, <2>1
<1>3. CASE ~ standing
  <2>1. GetAssetIndex(a, total, t) = step + a.index
    BY <1>3 DEF GetAssetIndex
  <2>2. upTo - last \in Nat
    BY <1>1, <1>3
  <2>3. a.emissionPerSecond * (upTo - last) * Scale \in Nat
    BY <1>1, <2>2, ProductNat
  <2>4. step \in Nat
    BY <1>3, <2>3, QuotientBounds
  <2> HIDE DEF step
  <2> QED
    BY <1>1, <2>1, <2>4
<1> QED
  BY <1>2, <1>3

\* What a user accrues is a natural, unless the settlement reverts.
LEMMA AccruedNat ==
    ASSUME NEW H, NEW a \in AssetData(H), NEW total \in Nat, NEW t \in Nat,
           a.lastUpdateTimestamp <= t, NEW h \in H, NEW stake \in Nat,
           RewardsDefined(a, h, stake, total, t)
    PROVE  AccruedRewards(a, h, stake, total, t) \in Nat
<1> DEFINE i == GetAssetIndex(a, total, t)
           earned == stake * (i - a.users[h])
<1>1. i \in Nat /\ a.users[h] \in Nat
  BY IndexGrows DEF AssetData
<1>2. CASE stake = 0
  BY <1>2 DEF AccruedRewards
<1>3. CASE stake # 0
  <2>1. a.users[h] <= i
    BY <1>3 DEF RewardsDefined
  <2> HIDE DEF i
  <2>2. earned \in Nat
    BY <1>1, <2>1, ProductNat
  <2>3. earned \div Scale \in Nat
    BY <2>2, QuotientBounds, DistributionAssumption
  <2> QED
    BY <1>3, <2>3 DEF AccruedRewards, GetRewards, i
<1> QED
  BY <1>2, <1>3

\* A record settled at the time t: never in the future, no user ahead.
SettledAt(a, H, t) ==
    /\ a \in AssetData(H)
    /\ a.lastUpdateTimestamp <= t
    /\ \A h \in H : a.users[h] <= a.index

\* _updateAssetStateInternal keeps a record settled.
LEMMA AssetStateSettled ==
    ASSUME NEW H, NEW t \in Nat, NEW total \in Nat, NEW a, SettledAt(a, H, t)
    PROVE  SettledAt(UpdateAssetState(a, total, t), H, t)
<1> DEFINE b == UpdateAssetState(a, total, t)
           i == GetAssetIndex(a, total, t)
<1>1. a \in AssetData(H) /\ a.lastUpdateTimestamp <= t
  BY DEF SettledAt
<1>2. i \in Nat /\ a.index <= i
  BY <1>1, IndexGrows
<1>3. b = [a EXCEPT !.index = i, !.lastUpdateTimestamp = t]
  BY DEF UpdateAssetState
<1> HIDE DEF b, i
<1>4. /\ b \in AssetData(H)
      /\ b.index = i /\ b.lastUpdateTimestamp = t /\ b.users = a.users
  BY <1>1, <1>2, <1>3 DEF AssetData
<1>5. \A h \in H : a.users[h] \in Nat /\ a.users[h] <= a.index
  BY <1>1 DEF SettledAt, AssetData
<1>6. a.index \in Nat
  BY <1>1 DEF AssetData
<1>7. \A h \in H : b.users[h] <= b.index
  BY <1>2, <1>4, <1>5, <1>6
<1> QED
  BY <1>4, <1>7 DEF SettledAt, b

\* _updateUserAssetInternal keeps a record settled.
LEMMA UserAssetSettled ==
    ASSUME NEW H, NEW t \in Nat, NEW total \in Nat, NEW a, SettledAt(a, H, t),
           NEW u \in H
    PROVE  SettledAt(UpdateUserAsset(a, u, total, t), H, t)
<1> DEFINE b == UpdateAssetState(a, total, t)
           c == UpdateUserAsset(a, u, total, t)
<1>1. SettledAt(b, H, t)
  BY AssetStateSettled
<1>2. c = [b EXCEPT !.users[u] = b.index]
  BY DEF UpdateUserAsset
<1> HIDE DEF b, c
<1>3. b \in AssetData(H) /\ b.index \in Nat
  BY <1>1 DEF SettledAt, AssetData
<1>4. /\ c \in AssetData(H)
      /\ c.index = b.index /\ c.lastUpdateTimestamp = b.lastUpdateTimestamp
      /\ \A h \in H : c.users[h] = IF h = u THEN b.index ELSE b.users[h]
  BY <1>2, <1>3 DEF AssetData
<1>5. \A h \in H : c.users[h] <= c.index
  BY <1>1, <1>3, <1>4 DEF SettledAt
<1> QED
  BY <1>1, <1>4, <1>5 DEF SettledAt, c

\* One entry of configureAssets keeps a record settled.
LEMMA ConfiguredSettled ==
    ASSUME NEW H, NEW t \in Nat, NEW total \in Nat, NEW a, SettledAt(a, H, t),
           NEW e \in Nat
    PROVE  SettledAt(ConfigureAsset(a, e, total, t), H, t)
<1> DEFINE b == UpdateAssetState(a, total, t)
           c == ConfigureAsset(a, e, total, t)
<1>1. SettledAt(b, H, t)
  BY AssetStateSettled
<1>2. c = [b EXCEPT !.emissionPerSecond = e]
  BY DEF ConfigureAsset
<1> HIDE DEF b, c
<1>3. b \in AssetData(H)
  BY <1>1 DEF SettledAt
<1>4. /\ c \in AssetData(H)
      /\ c.index = b.index /\ c.lastUpdateTimestamp = b.lastUpdateTimestamp
      /\ c.users = b.users
  BY <1>2, <1>3 DEF AssetData
<1> QED
  BY <1>1, <1>4 DEF SettledAt, c

-----------------------------------------------------------------------------
(* What a distribution emits, and what its users get of it. *)

\* The last second that counts.
LastSecond(t) == IF t > DISTRIBUTION_END THEN DISTRIBUTION_END ELSE t

(***************************************************************************)
(* What the distribution of the record r emitted since it was last         *)
(* settled, before it is divided and rounded to an index.                  *)
(***************************************************************************)
PendingOf(r, total, t) ==
    IF total = 0 \/ r.lastUpdateTimestamp >= DISTRIBUTION_END THEN 0
    ELSE r.emissionPerSecond * (LastSecond(t) - r.lastUpdateTimestamp)

\* The index gives out no more than that.
LEMMA IndexWithinPending ==
    ASSUME NEW H, NEW r \in AssetData(H), NEW supply \in Nat, NEW t \in Nat,
           r.lastUpdateTimestamp <= t
    PROVE  /\ PendingOf(r, supply, t) \in Nat
           /\ (GetAssetIndex(r, supply, t) - r.index) * supply
                 <= PendingOf(r, supply, t) * Scale
           /\ supply = 0 => GetAssetIndex(r, supply, t) = r.index
<1> DEFINE e == r.emissionPerSecond
           last == r.lastUpdateTimestamp
           x == e * (LastSecond(t) - last) * Scale
           p == PendingOf(r, supply, t)
           i == GetAssetIndex(r, supply, t)
<1>1. /\ e \in Nat /\ last \in Nat /\ r.index \in Nat /\ last <= t
      /\ DISTRIBUTION_END \in Nat /\ Scale \in Nat
  BY DistributionAssumption DEF AssetData
<1>2. CASE supply = 0 \/ last >= DISTRIBUTION_END
  <2>1. p = 0 /\ i = r.index
    BY <1>2 DEF PendingOf, GetAssetIndex
  <2> HIDE DEF p, i
  <2> QED
    BY <1>1, <2>1 DEF p, i
<1>3. CASE ~ (supply = 0 \/ last >= DISTRIBUTION_END)
  <2>1. LastSecond(t) - last \in Nat
    BY <1>1, <1>3 DEF LastSecond
  <2>2. p = e * (LastSecond(t) - last)
    BY <1>3 DEF PendingOf
  <2>3. p \in Nat
    <3> HIDE DEF e, last, p
    <3> QED
      BY <1>1, <2>1, <2>2, ProductNat
  <2>4. x = p * Scale /\ x \in Nat
    <3> HIDE DEF p
    <3> QED
      BY <1>1, <2>2, <2>3, ProductNat
  <2>5. CASE e = 0 \/ last = t
    <3>1. i = r.index
      BY <2>5 DEF GetAssetIndex
    <3> HIDE DEF x, i, p
    <3>2. (i - r.index) * supply = 0
      BY <1>1, <3>1
    <3> QED
      BY <1>3, <2>3, <2>4, <3>2 DEF i, p
  <2>6. CASE ~ (e = 0 \/ last = t)
    <3>1. i = x \div supply + r.index
      BY <1>3, <2>6 DEF GetAssetIndex, LastSecond
    <3> HIDE DEF x, i, p
    <3>2. x \div supply \in Nat /\ supply * (x \div supply) <= x
      BY <1>1, <1>3, <2>4, QuotientBounds
    <3>3. i - r.index = x \div supply
      BY <1>1, <3>1, <3>2
    <3>4. (x \div supply) * supply <= x
      BY <1>1, <3>2
    <3> QED
      BY <1>3, <2>3, <2>4, <3>3, <3>4 DEF i, p
  <2> QED
    BY <2>5, <2>6
<1> QED
  BY <1>2, <1>3

\* The second that passes adds its emission, if it is one that counts.
LEMMA PendingNextSecond ==
    ASSUME NEW H, NEW r \in AssetData(H), NEW supply \in Nat, NEW t \in Nat,
           r.lastUpdateTimestamp <= t
    PROVE  PendingOf(r, supply, t + 1)
             = PendingOf(r, supply, t)
               + (IF t < DISTRIBUTION_END /\ supply # 0 THEN r.emissionPerSecond ELSE 0)
<1> DEFINE e == r.emissionPerSecond
           last == r.lastUpdateTimestamp
           p(s) == PendingOf(r, supply, s)
<1>1. e \in Nat /\ last \in Nat /\ last <= t /\ DISTRIBUTION_END \in Nat /\ p(t) \in Nat
  BY IndexWithinPending, DistributionAssumption DEF AssetData
<1>2. CASE t < DISTRIBUTION_END /\ supply # 0
  <2>1. LastSecond(t) = t /\ LastSecond(t + 1) = t + 1 /\ ~ (last >= DISTRIBUTION_END)
    BY <1>1, <1>2 DEF LastSecond
  <2>2. p(t) = e * (t - last) /\ p(t + 1) = e * (t + 1 - last)
    BY <1>1, <1>2, <2>1 DEF PendingOf
  <2> HIDE DEF p, e, last
  <2>3. e * (t + 1 - last) = e * (t - last) + e
    BY <1>1
  <2> QED
    BY <1>2, <2>2, <2>3 DEF p, e
<1>3. CASE ~ (t < DISTRIBUTION_END /\ supply # 0)
  <2>1. CASE supply = 0 \/ last >= DISTRIBUTION_END
    <3>1. p(t) = 0 /\ p(t + 1) = 0
      BY <1>1, <2>1 DEF PendingOf
    <3> QED
      BY <1>3, <3>1
  <2>2. CASE ~ (supply = 0 \/ last >= DISTRIBUTION_END)
    <3>1. LastSecond(t) = DISTRIBUTION_END /\ LastSecond(t + 1) = DISTRIBUTION_END
      BY <1>1, <1>3, <2>2 DEF LastSecond
    <3>2. p(t + 1) = p(t)
      BY <1>1, <3>1 DEF PendingOf
    <3> HIDE DEF p
    <3> QED
      BY <1>1, <1>3, <3>2 DEF p
  <2> QED
    BY <2>1, <2>2
<1> QED
  BY <1>2, <1>3

\* The index does not go back as time passes.
LEMMA IndexNextSecond ==
    ASSUME NEW H, NEW r \in AssetData(H), NEW supply \in Nat, NEW now \in Nat,
           r.lastUpdateTimestamp <= now
    PROVE  /\ GetAssetIndex(r, supply, now + 1) \in Nat
           /\ GetAssetIndex(r, supply, now) <= GetAssetIndex(r, supply, now + 1)
<1> DEFINE e == r.emissionPerSecond
           last == r.lastUpdateTimestamp
           i == GetAssetIndex(r, supply, now)
           j == GetAssetIndex(r, supply, now + 1)
           t == LastSecond(now) - last
           u == LastSecond(now + 1) - last
<1>1. /\ e \in Nat /\ last \in Nat /\ r.index \in Nat /\ last <= now /\ last <= now + 1
      /\ DISTRIBUTION_END \in Nat /\ Scale \in Nat /\ now + 1 \in Nat
  BY DistributionAssumption DEF AssetData
<1>2. i \in Nat /\ r.index <= i /\ j \in Nat /\ r.index <= j
  BY <1>1, IndexGrows
<1>3. CASE e = 0 \/ supply = 0 \/ last = now \/ last >= DISTRIBUTION_END
  <2>1. i = r.index
    BY <1>3 DEF GetAssetIndex
  <2> HIDE DEF i, j
  <2> QED
    BY <1>2, <2>1 DEF i, j
<1>4. CASE ~ (e = 0 \/ supply = 0 \/ last = now \/ last >= DISTRIBUTION_END)
  <2>1. i = (e * t * Scale) \div supply + r.index
    BY <1>4 DEF GetAssetIndex, LastSecond
  <2>2. j = (e * u * Scale) \div supply + r.index
    <3>1. last # now + 1
      BY <1>1
    <3> QED
      BY <1>1, <1>4, <3>1 DEF GetAssetIndex, LastSecond
  <2>3. t \in Nat /\ u \in Nat /\ t <= u
    BY <1>1, <1>4 DEF LastSecond
  <2> HIDE DEF e, t, u, i, j
  <2>4. e * t \in Nat /\ e * u \in Nat /\ e * t <= e * u
    BY <1>1, <2>3, ProductNat, ProductMonotone
  <2>5. e * t * Scale \in Nat /\ e * u * Scale \in Nat /\ e * t * Scale <= e * u * Scale
    <3>1. Scale * (e * t) <= Scale * (e * u)
      BY <1>1, <2>4, ProductMonotone
    <3>2. Scale * (e * t) = e * t * Scale /\ Scale * (e * u) = e * u * Scale
      BY <1>1, <2>4
    <3> QED
      BY <1>1, <2>4, <3>1, <3>2, ProductNat
  <2>6. (e * t * Scale) \div supply <= (e * u * Scale) \div supply
    BY <1>4, <2>5, QuotientMonotone
  <2>7. (e * t * Scale) \div supply \in Nat /\ (e * u * Scale) \div supply \in Nat
    BY <1>4, <2>5, QuotientBounds
  <2> QED
    BY <1>1, <1>2, <2>1, <2>2, <2>6, <2>7 DEF i, j
<1> QED
  BY <1>3, <1>4

(***************************************************************************)
(* What a user accrued since its index was updated: a share of what the    *)
(* index gained, of which the rounding only loses.                         *)
(***************************************************************************)
LEMMA AccruedIsShare ==
    ASSUME NEW H, NEW t \in Nat, NEW total \in Nat, NEW r, SettledAt(r, H, t),
           NEW h \in H, NEW b \in Nat
    PROVE  /\ GetAssetIndex(r, total, t) \in Nat /\ r.index \in Nat /\ r.users[h] \in Nat
           /\ r.users[h] <= r.index /\ r.index <= GetAssetIndex(r, total, t)
           /\ b * (r.index - r.users[h]) \in Nat
           /\ b * (GetAssetIndex(r, total, t) - r.users[h]) \in Nat
           /\ AccruedRewards(r, h, b, total, t)
                = (b * (GetAssetIndex(r, total, t) - r.users[h])) \div Scale
           /\ AccruedRewards(r, h, b, total, t) \in Nat
           /\ AccruedRewards(r, h, b, total, t) * Scale
                <= b * (GetAssetIndex(r, total, t) - r.users[h])
<1> DEFINE i == GetAssetIndex(r, total, t)
           u == r.users[h]
           x == b * (i - u)
           earned == AccruedRewards(r, h, b, total, t)
<1>1. /\ i \in Nat /\ r.index \in Nat /\ u \in Nat /\ u <= r.index /\ r.index <= i
      /\ Scale \in Nat /\ Scale # 0
  BY IndexGrows, DistributionAssumption DEF SettledAt, AssetData
<1>2. earned = IF b = 0 THEN 0 ELSE x \div Scale
  BY DEF AccruedRewards, GetRewards
<1> HIDE DEF i, u, earned
<1>3. i - u \in Nat /\ r.index - u \in Nat
  BY <1>1
<1>4. x \in Nat /\ b * (r.index - u) \in Nat
  BY <1>3, ProductNat
<1>5. earned = x \div Scale
  <2>1. CASE b = 0
    <3>1. x = 0
      BY <1>3, <2>1
    <3> HIDE DEF x
    <3> QED
      BY <1>1, <1>2, <2>1, <3>1
  <2>2. CASE b # 0
    BY <1>2, <2>2
  <2> QED
    BY <2>1, <2>2
<1>6. earned \in Nat /\ earned * Scale <= x
  <2> HIDE DEF x
  <2>1. x \div Scale \in Nat /\ Scale * (x \div Scale) <= x
    BY <1>1, <1>4, QuotientBounds
  <2> QED
    BY <1>1, <1>5, <2>1
<1> QED
  BY <1>1, <1>4, <1>5, <1>6 DEF i, u, earned

\* The record a settlement of the user u leaves behind.
LEMMA UserAssetRecord ==
    ASSUME NEW H, NEW t \in Nat, NEW total \in Nat, NEW r, SettledAt(r, H, t),
           NEW u \in H, NEW c, c = UpdateUserAsset(r, u, total, t)
    PROVE  /\ c \in AssetData(H) /\ c.index = GetAssetIndex(r, total, t)
           /\ c.lastUpdateTimestamp = t /\ c.emissionPerSecond = r.emissionPerSecond
           /\ \A h \in H : c.users[h] = IF h = u THEN c.index ELSE r.users[h]
<1> DEFINE i == GetAssetIndex(r, total, t)
           b == [r EXCEPT !.index = i, !.lastUpdateTimestamp = t]
<1>1. i \in Nat /\ r \in AssetData(H)
  BY IndexGrows DEF SettledAt
<1>2. c = [b EXCEPT !.users[u] = b.index]
  BY DEF UpdateUserAsset, UpdateAssetState
<1> HIDE DEF i
<1>3. /\ b \in AssetData(H) /\ b.index = i /\ b.lastUpdateTimestamp = t
      /\ b.emissionPerSecond = r.emissionPerSecond /\ b.users = r.users
  BY <1>1 DEF AssetData
<1> HIDE DEF b
<1>4. /\ c \in AssetData(H) /\ c.index = b.index
      /\ c.lastUpdateTimestamp = b.lastUpdateTimestamp
      /\ c.emissionPerSecond = b.emissionPerSecond
      /\ \A h \in H : c.users[h] = IF h = u THEN b.index ELSE b.users[h]
  BY <1>1, <1>2, <1>3 DEF AssetData
<1> QED
  BY <1>3, <1>4 DEF i

\* The record an entry of configureAssets leaves behind.
LEMMA ConfiguredRecord ==
    ASSUME NEW H, NEW t \in Nat, NEW total \in Nat, NEW r, SettledAt(r, H, t),
           NEW e \in Nat, NEW c, c = ConfigureAsset(r, e, total, t)
    PROVE  /\ c \in AssetData(H) /\ c.index = GetAssetIndex(r, total, t)
           /\ c.lastUpdateTimestamp = t /\ c.emissionPerSecond = e
           /\ c.users = r.users
<1> DEFINE i == GetAssetIndex(r, total, t)
           b == [r EXCEPT !.index = i, !.lastUpdateTimestamp = t]
<1>1. i \in Nat /\ r \in AssetData(H)
  BY IndexGrows DEF SettledAt
<1>2. c = [b EXCEPT !.emissionPerSecond = e]
  BY DEF ConfigureAsset, UpdateAssetState
<1> HIDE DEF i
<1>3. /\ b \in AssetData(H) /\ b.index = i /\ b.lastUpdateTimestamp = t
      /\ b.users = r.users
  BY <1>1 DEF AssetData
<1> HIDE DEF b
<1>4. /\ c \in AssetData(H) /\ c.index = b.index
      /\ c.lastUpdateTimestamp = b.lastUpdateTimestamp
      /\ c.emissionPerSecond = e /\ c.users = b.users
  BY <1>1, <1>2, <1>3 DEF AssetData
<1> QED
  BY <1>3, <1>4 DEF i

\* Once settled, a record stays as it is for the rest of the second.
LEMMA SettledNow ==
    ASSUME NEW H, NEW r \in AssetData(H), NEW total \in Nat, NEW t \in Nat,
           r.lastUpdateTimestamp = t
    PROVE  GetAssetIndex(r, total, t) = r.index /\ PendingOf(r, total, t) = 0
<1>1. GetAssetIndex(r, total, t) = r.index
  BY DEF GetAssetIndex
<1>2. r.emissionPerSecond \in Nat /\ DISTRIBUTION_END \in Nat
  BY DistributionAssumption DEF AssetData
<1>3. CASE t < DISTRIBUTION_END
  <2>1. LastSecond(t) - r.lastUpdateTimestamp = 0
    BY <1>2, <1>3 DEF LastSecond
  <2> QED
    BY <1>1, <1>2, <2>1 DEF PendingOf
<1>4. CASE ~ (t < DISTRIBUTION_END)
  BY <1>1, <1>2, <1>4 DEF PendingOf
<1> QED
  BY <1>3, <1>4

=============================================================================
