----------------------------- MODULE SumTheorems ----------------------------
(***************************************************************************)
(* Facts about sums over finite sets, as SumFunctionOnSet of the community *)
(* module Functions computes them: it takes the elements in an order that  *)
(* CHOOSE determines.  The stake of a set of validators, the votes counted *)
(* for a block and the balances of a token are such sums.                  *)
(*                                                                         *)
(* Induction over finite sets is done with minimal counterexamples: a set  *)
(* of subsets of a finite set has a minimal element (WFMin).               *)
(***************************************************************************)
EXTENDS Integers, Sequences, FiniteSetsExt, FiniteSetTheorems, SequenceTheorems, TLAPS

(* A non-empty set of subsets of a finite set has a minimal element.       *)
LEMMA MinimalSubset ==
  ASSUME NEW S, IsFiniteSet(S), NEW C \in SUBSET (SUBSET S), C # {}
  PROVE  \E m \in C : \A U \in C : U \subseteq m => U = m
<1>1. IsWellFoundedOn(StrictSubsetOrdering(S), SUBSET S)
  BY FS_StrictSubsetOrderingWellFounded, FS_FiniteSubsetsOfFinite
<1>2. PICK m \in C : \A U \in C : ~(<<U, m>> \in StrictSubsetOrdering(S))
  BY <1>1, WFMin
<1>3. ASSUME NEW U \in C, U \subseteq m PROVE U = m
  <2>1. U \in SUBSET S /\ m \in SUBSET S
    OBVIOUS
  <2>2. <<U, m>> \notin StrictSubsetOrdering(S)
    BY <1>2
  <2> QED BY <1>3, <2>1, <2>2 DEF StrictSubsetOrdering
<1> QED BY <1>3

-----------------------------------------------------------------------------
(* The element that the sum over a set takes first, and what is left.      *)
First(s) == CHOOSE x \in s : TRUE
Less1(s) == s \ {First(s)}

Sums == INSTANCE FoldTheorems WITH Op <- LAMBDA x, y : x + y, Pick <- First

LEMMA SumIsFold == ASSUME NEW f, NEW S PROVE SumFunctionOnSet(f, S) = Sums!Fold(0, f, S)
BY DEF SumFunctionOnSet, FoldFunctionOnSet, MapThenFoldSet, Sums!Fold, Sums!Fixpoint,
       Sums!Unfolded, First

LEMMA FirstIn == ASSUME NEW s, s # {} PROVE First(s) \in s
BY DEF First

LEMMA SumsFounded == ASSUME NEW S, IsFiniteSet(S) PROVE Sums!Founded(S) /\ Sums!Picks(S)
BY MinimalSubset, FirstIn DEF Sums!Founded, Sums!Picks

(* The recursion of the sum itself.                                        *)
LEMMA SumEmpty == ASSUME NEW f PROVE SumFunctionOnSet(f, {}) = 0
BY SumIsFold, SumsFounded, FS_EmptySet, Sums!FoldEmpty

LEMMA SumTakesFirst ==
  ASSUME NEW f, NEW S, IsFiniteSet(S), S # {}
  PROVE  SumFunctionOnSet(f, S) = f[First(S)] + SumFunctionOnSet(f, Less1(S))
BY SumIsFold, SumsFounded, Sums!FoldTakes DEF Less1

(* A sum depends only on the values it adds.                               *)
LEMMA SumSame ==
  ASSUME NEW f, NEW g, NEW S, IsFiniteSet(S), \A x \in S : f[x] = g[x]
  PROVE  SumFunctionOnSet(f, S) = SumFunctionOnSet(g, S)
BY SumIsFold, SumsFounded, Sums!FoldSame

(* A sum of integers is one, and its order does not matter.                *)
LEMMA SumAnyOrder ==
  ASSUME NEW f, NEW S, IsFiniteSet(S), \A x \in S : f[x] \in Int
  PROVE  /\ SumFunctionOnSet(f, S) \in Int
         /\ \A y \in S : SumFunctionOnSet(f, S) = f[y] + SumFunctionOnSet(f, S \ {y})
<1> DEFINE Fine(T) == /\ SumFunctionOnSet(f, T) \in Int
                      /\ \A y \in T : SumFunctionOnSet(f, T) = f[y] + SumFunctionOnSet(f, T \ {y})
           bad == {T \in SUBSET S : ~Fine(T)}
<1> SUFFICES ASSUME bad # {} PROVE FALSE
  OBVIOUS
<1>1. bad \in SUBSET (SUBSET S)
  OBVIOUS
<1>2. PICK m \in bad : \A U \in bad : U \subseteq m => U = m
  <2> HIDE DEF bad
  <2> QED BY <1>1, MinimalSubset
<1>3. m \in SUBSET S /\ ~Fine(m) /\ IsFiniteSet(m)
  BY <1>2, FS_Subset
<1>4. ASSUME NEW U \in SUBSET m, U # m PROVE Fine(U)
  <2> HIDE DEF Fine
  <2>1. U \notin bad /\ U \in SUBSET S
    BY <1>2, <1>3, <1>4
  <2> QED BY <2>1
<1>5. m # {}
  <2>1. Fine({})
    BY SumEmpty
  <2> QED BY <1>3, <2>1
<1> DEFINE x == First(m)
           Rest == Less1(m)
<1>6. x \in m /\ Rest = m \ {x} /\ Rest \in SUBSET m /\ Rest # m
  BY <1>5, FirstIn DEF Less1
<1>7. SumFunctionOnSet(f, m) = f[x] + SumFunctionOnSet(f, Rest)
  BY <1>3, <1>5, SumTakesFirst
<1> HIDE DEF x, Rest, Fine, bad
<1>8. SumFunctionOnSet(f, Rest) \in Int /\ SumFunctionOnSet(f, m) \in Int /\ f[x] \in Int
  BY <1>3, <1>4, <1>6, <1>7 DEF Fine
<1>9. ASSUME NEW y \in m PROVE SumFunctionOnSet(f, m) = f[y] + SumFunctionOnSet(f, m \ {y})
  <2>1. CASE y = x
    BY <1>6, <1>7, <2>1
  <2>2. CASE y # x
    <3> DEFINE both == (m \ {x}) \ {y}
    <3>1. y \in Rest /\ Rest \ {y} = both
      BY <1>6, <2>2
    <3>2. SumFunctionOnSet(f, Rest) = f[y] + SumFunctionOnSet(f, both)
      BY <1>4, <1>6, <3>1 DEF Fine
    <3>3. m \ {y} \in SUBSET m /\ m \ {y} # m /\ x \in m \ {y} /\ (m \ {y}) \ {x} = both
      BY <1>6, <2>2
    <3>4. SumFunctionOnSet(f, m \ {y}) = f[x] + SumFunctionOnSet(f, both)
      BY <1>4, <3>3 DEF Fine
    <3>5. both \in SUBSET m /\ both # m
      BY <1>6
    <3>6. SumFunctionOnSet(f, both) \in Int /\ f[y] \in Int
      BY <1>3, <1>4, <3>5 DEF Fine
    <3> HIDE DEF both
    <3> QED BY <1>7, <1>8, <3>2, <3>4, <3>6
  <2> QED BY <2>1, <2>2
<1> QED BY <1>3, <1>8, <1>9 DEF Fine

LEMMA SumNat ==
  ASSUME NEW f, NEW S, IsFiniteSet(S), \A x \in S : f[x] \in Nat
  PROVE  SumFunctionOnSet(f, S) \in Nat
<1> DEFINE bad == {T \in SUBSET S : SumFunctionOnSet(f, T) \notin Nat}
<1> SUFFICES ASSUME bad # {} PROVE FALSE
  OBVIOUS
<1>1. bad \in SUBSET (SUBSET S)
  OBVIOUS
<1>2. PICK m \in bad : \A U \in bad : U \subseteq m => U = m
  <2> HIDE DEF bad
  <2> QED BY <1>1, MinimalSubset
<1>3. m \in SUBSET S /\ SumFunctionOnSet(f, m) \notin Nat /\ IsFiniteSet(m)
  BY <1>2, FS_Subset
<1>4. m # {} /\ IsFiniteSet(m)
  <2>1. SumFunctionOnSet(f, {}) \in Nat
    BY SumEmpty
  <2> QED BY <1>3, <2>1
<1>5. First(m) \in m /\ Less1(m) \subseteq m /\ Less1(m) # m
  BY <1>4, FirstIn DEF Less1
<1>6. SumFunctionOnSet(f, Less1(m)) \in Nat
  BY <1>2, <1>3, <1>5
<1>7. f[First(m)] \in Nat
  BY <1>3, <1>5
<1> QED BY <1>3, <1>4, <1>6, <1>7, SumTakesFirst

(* The sum over two sets together.                                         *)
LEMMA SumUnion ==
  ASSUME NEW f, NEW A, NEW B, IsFiniteSet(A), IsFiniteSet(B), \A x \in A \cup B : f[x] \in Int
  PROVE  SumFunctionOnSet(f, A \cup B) + SumFunctionOnSet(f, A \cap B)
           = SumFunctionOnSet(f, A) + SumFunctionOnSet(f, B)
<1> DEFINE Sum(T) == SumFunctionOnSet(f, T)
           Fine(T) == Sum(A \cup T) + Sum(A \cap T) = Sum(A) + Sum(T)
           bad == {T \in SUBSET B : ~Fine(T)}
<1>0. ASSUME NEW T \in SUBSET (A \cup B)
      PROVE  Sum(T) \in Int /\ \A y \in T : Sum(T) = f[y] + Sum(T \ {y})
  <2>1. IsFiniteSet(T)
    BY FS_Union, FS_Subset
  <2> QED BY <2>1, SumAnyOrder
<1>e. Sum({}) = 0
  BY SumEmpty
<1> SUFFICES ASSUME bad # {} PROVE FALSE
  OBVIOUS
<1>1. bad \in SUBSET (SUBSET B)
  OBVIOUS
<1>2. PICK m \in bad : \A U \in bad : U \subseteq m => U = m
  <2> HIDE DEF bad
  <2> QED BY <1>1, MinimalSubset
<1>3. m \in SUBSET B /\ ~Fine(m)
  BY <1>2
<1>4. ASSUME NEW U \in SUBSET m, U # m PROVE Fine(U)
  <2> HIDE DEF Fine
  <2>1. U \notin bad /\ U \in SUBSET B
    BY <1>2, <1>3, <1>4
  <2> QED BY <2>1
<1> HIDE DEF bad, Sum
<1>5. m # {}
  <2>1. A \cup {} = A /\ A \cap {} = {} /\ Sum(A) \in Int
    BY <1>0
  <2>2. Fine({})
    BY <1>e, <2>1
  <2> QED BY <1>3, <2>2
<1>6. PICK y : y \in m
  BY <1>5
<1> DEFINE u == m \ {y}
<1>7. Fine(u)
  BY <1>4, <1>6
<1>8. Sum(m) = f[y] + Sum(u) /\ f[y] \in Int
  BY <1>0, <1>3, <1>6
<1>9. /\ Sum(A) \in Int /\ Sum(u) \in Int /\ Sum(A \cup u) \in Int /\ Sum(A \cap u) \in Int
  BY <1>0, <1>3
<1>10. CASE y \in A
  <2>1. A \cup m = A \cup u /\ (A \cap m) \ {y} = A \cap u /\ y \in A \cap m
    BY <1>6, <1>10
  <2>2. Sum(A \cap m) = f[y] + Sum(A \cap u)
    BY <1>0, <1>3, <2>1
  <2>3. Sum(A \cup m) = Sum(A \cup u)
    BY <2>1
  <2> HIDE DEF u
  <2>4. Sum(A \cup m) + Sum(A \cap m) = Sum(A) + Sum(m)
    BY <1>7, <1>8, <1>9, <2>2, <2>3
  <2> QED BY <1>3, <2>4
<1>11. CASE y \notin A
  <2>1. A \cap m = A \cap u /\ (A \cup m) \ {y} = A \cup u /\ y \in A \cup m
    BY <1>6, <1>11
  <2>2. Sum(A \cup m) = f[y] + Sum(A \cup u)
    BY <1>0, <1>3, <2>1
  <2>3. Sum(A \cap m) = Sum(A \cap u)
    BY <2>1
  <2> HIDE DEF u
  <2>4. Sum(A \cup m) + Sum(A \cap m) = Sum(A) + Sum(m)
    BY <1>7, <1>8, <1>9, <2>2, <2>3
  <2> QED BY <1>3, <2>4
<1> QED BY <1>10, <1>11

(* Sums of naturals grow with the set.                                     *)
LEMMA SumMonotone ==
  ASSUME NEW f, NEW A, NEW B, IsFiniteSet(B), A \subseteq B, \A x \in B : f[x] \in Nat
  PROVE  SumFunctionOnSet(f, A) <= SumFunctionOnSet(f, B)
<1> DEFINE Rest == B \ A
<1>1. IsFiniteSet(A) /\ IsFiniteSet(Rest)
  BY FS_Subset
<1>2. A \cup Rest = B /\ A \cap Rest = {}
  OBVIOUS
<1>3. SumFunctionOnSet(f, B) + SumFunctionOnSet(f, {})
        = SumFunctionOnSet(f, A) + SumFunctionOnSet(f, Rest)
  <2>1. \A x \in A \cup Rest : f[x] \in Int
    OBVIOUS
  <2> HIDE DEF Rest
  <2>2. SumFunctionOnSet(f, A \cup Rest) + SumFunctionOnSet(f, A \cap Rest)
          = SumFunctionOnSet(f, A) + SumFunctionOnSet(f, Rest)
    BY <1>1, <2>1, SumUnion
  <2> QED BY <1>2, <2>2
<1>4. /\ SumFunctionOnSet(f, A) \in Nat /\ SumFunctionOnSet(f, Rest) \in Nat
      /\ SumFunctionOnSet(f, B) \in Nat
  BY <1>1, SumNat
<1> HIDE DEF Rest
<1> QED BY <1>3, <1>4, SumEmpty

(* What is zero can be left out.                                           *)
LEMMA SumZero ==
  ASSUME NEW f, NEW S, IsFiniteSet(S), \A x \in S : f[x] = 0
  PROVE  SumFunctionOnSet(f, S) = 0
<1> DEFINE bad == {T \in SUBSET S : SumFunctionOnSet(f, T) # 0}
<1> SUFFICES ASSUME bad # {} PROVE FALSE
  OBVIOUS
<1>1. bad \in SUBSET (SUBSET S)
  OBVIOUS
<1>2. PICK m \in bad : \A U \in bad : U \subseteq m => U = m
  <2> HIDE DEF bad
  <2> QED BY <1>1, MinimalSubset
<1>3. m \in SUBSET S /\ SumFunctionOnSet(f, m) # 0 /\ IsFiniteSet(m)
  BY <1>2, FS_Subset
<1>4. m # {}
  BY <1>3, SumEmpty
<1>5. First(m) \in m /\ Less1(m) \subseteq m /\ Less1(m) # m
  BY <1>4, FirstIn DEF Less1
<1>6. SumFunctionOnSet(f, Less1(m)) = 0
  BY <1>2, <1>3, <1>5
<1>7. f[First(m)] = 0
  BY <1>3, <1>5
<1> QED BY <1>3, <1>4, <1>6, <1>7, SumTakesFirst

LEMMA SumSupport ==
  ASSUME NEW f, NEW A, NEW B, IsFiniteSet(B), A \subseteq B,
         \A x \in B : f[x] \in Int, \A x \in B \ A : f[x] = 0
  PROVE  SumFunctionOnSet(f, B) = SumFunctionOnSet(f, A)
<1> DEFINE Rest == B \ A
<1>1. IsFiniteSet(A) /\ IsFiniteSet(Rest)
  BY FS_Subset
<1>2. A \cup Rest = B /\ A \cap Rest = {}
  OBVIOUS
<1>3. \A x \in A \cup Rest : f[x] \in Int
  OBVIOUS
<1>4. SumFunctionOnSet(f, Rest) = 0
  BY <1>1, SumZero
<1> HIDE DEF Rest
<1>5. SumFunctionOnSet(f, A \cup Rest) + SumFunctionOnSet(f, A \cap Rest)
        = SumFunctionOnSet(f, A) + SumFunctionOnSet(f, Rest)
  BY <1>1, <1>3, SumUnion
<1>6. SumFunctionOnSet(f, A) \in Int /\ SumFunctionOnSet(f, B) \in Int
  BY <1>1, SumAnyOrder
<1>7. SumFunctionOnSet(f, B) + 0 = SumFunctionOnSet(f, A) + 0
  BY <1>2, <1>4, <1>5, SumEmpty
<1> QED BY <1>6, <1>7

LEMMA SumSingleton ==
  ASSUME NEW f, NEW x, f[x] \in Int
  PROVE  SumFunctionOnSet(f, {x}) = f[x]
<1>1. IsFiniteSet({x}) /\ {x} \ {x} = {}
  BY FS_Singleton
<1>2. SumFunctionOnSet(f, {x}) = f[x] + SumFunctionOnSet(f, {x} \ {x})
  BY <1>1, SumAnyOrder
<1>3. SumFunctionOnSet(f, {x} \ {x}) = 0
  BY <1>1, SumEmpty
<1> QED BY <1>2, <1>3

(* A larger function has a larger sum.                                     *)
LEMMA SumPointwise ==
  ASSUME NEW f, NEW g, NEW S, IsFiniteSet(S),
         \A x \in S : f[x] \in Nat /\ g[x] \in Nat /\ f[x] <= g[x]
  PROVE  SumFunctionOnSet(f, S) <= SumFunctionOnSet(g, S)
<1> DEFINE Fine(T) == SumFunctionOnSet(f, T) <= SumFunctionOnSet(g, T)
           bad == {T \in SUBSET S : ~Fine(T)}
<1> SUFFICES ASSUME bad # {} PROVE FALSE
  OBVIOUS
<1>1. bad \in SUBSET (SUBSET S)
  OBVIOUS
<1>2. PICK m \in bad : \A U \in bad : U \subseteq m => U = m
  <2> HIDE DEF bad
  <2> QED BY <1>1, MinimalSubset
<1>3. m \in SUBSET S /\ ~Fine(m) /\ IsFiniteSet(m)
  BY <1>2, FS_Subset
<1>4. m # {}
  <2>1. Fine({})
    BY SumEmpty
  <2> QED BY <1>3, <2>1
<1>5. First(m) \in m /\ Less1(m) \subseteq m /\ Less1(m) # m
  BY <1>4, FirstIn DEF Less1
<1>6. Fine(Less1(m))
  <2> HIDE DEF Fine
  <2>1. Less1(m) \notin bad /\ Less1(m) \in SUBSET S
    BY <1>2, <1>3, <1>5
  <2> QED BY <2>1
<1>7. /\ SumFunctionOnSet(f, m) = f[First(m)] + SumFunctionOnSet(f, Less1(m))
      /\ SumFunctionOnSet(g, m) = g[First(m)] + SumFunctionOnSet(g, Less1(m))
  BY <1>3, <1>4, SumTakesFirst
<1>8. SumFunctionOnSet(f, Less1(m)) \in Nat /\ SumFunctionOnSet(g, Less1(m)) \in Nat
  <2>1. IsFiniteSet(Less1(m)) /\ Less1(m) \in SUBSET S
    BY <1>3, <1>5, FS_Subset
  <2> QED BY <2>1, SumNat
<1>9. f[First(m)] \in Nat /\ g[First(m)] \in Nat /\ f[First(m)] <= g[First(m)]
  BY <1>3, <1>5
<1> QED BY <1>3, <1>6, <1>7, <1>8, <1>9

(* One value changes.                                                      *)
LEMMA SumUpdate ==
  ASSUME NEW S, IsFiniteSet(S), NEW f \in [S -> Int], NEW v \in S, NEW e \in Int
  PROVE  /\ SumFunction([f EXCEPT ![v] = e]) = SumFunction(f) - f[v] + e
         /\ SumFunction(f) \in Int
<1> DEFINE g == [f EXCEPT ![v] = e]
<1>1. g \in [S -> Int] /\ g[v] = e /\ \A x \in S \ {v} : g[x] = f[x]
  OBVIOUS
<1>2. SumFunction(f) = SumFunctionOnSet(f, S) /\ SumFunction(g) = SumFunctionOnSet(g, S)
  BY <1>1 DEF SumFunction
<1> HIDE DEF g
<1>3. /\ SumFunctionOnSet(f, S) = f[v] + SumFunctionOnSet(f, S \ {v})
      /\ SumFunctionOnSet(f, S) \in Int
  BY SumAnyOrder
<1>4. SumFunctionOnSet(g, S) = e + SumFunctionOnSet(g, S \ {v})
  BY <1>1, SumAnyOrder
<1>5. IsFiniteSet(S \ {v})
  BY FS_Subset
<1>6. /\ SumFunctionOnSet(f, S \ {v}) = SumFunctionOnSet(g, S \ {v})
      /\ SumFunctionOnSet(f, S \ {v}) \in Int
  BY <1>1, <1>5, SumSame, SumAnyOrder
<1>7. f[v] \in Int
  OBVIOUS
<1> QED BY <1>2, <1>3, <1>4, <1>6, <1>7 DEF g

-----------------------------------------------------------------------------
(* Products, and remainders for sums in counters of a fixed width.         *)
LEMMA TimesMore ==
  ASSUME NEW a \in Nat, NEW b \in Nat, NEW c \in Nat, a <= b
  PROVE  a * c <= b * c /\ c * a <= c * b
OBVIOUS

LEMMA TimesNat == ASSUME NEW a \in Nat, NEW b \in Nat PROVE a * b \in Nat /\ a * b = b * a
OBVIOUS

LEMMA TimesPositive ==
  ASSUME NEW a \in Nat, NEW b \in Nat, a >= 1, b >= 1 PROVE a * b \in Nat /\ a * b >= 1
OBVIOUS

LEMMA DivMod ==
  ASSUME NEW a \in Int, NEW M \in Nat \ {0}
  PROVE  a = M * (a \div M) + (a % M) /\ a % M \in 0..M-1 /\ a \div M \in Int
OBVIOUS

LEMMA ModSmall == ASSUME NEW M \in Nat \ {0}, NEW a \in 0..M-1 PROVE a % M = a
OBVIOUS

LEMMA Distribute ==
  ASSUME NEW M \in Int, NEW p \in Int, NEW q \in Int
  PROVE  M * p - M * q = M * (p - q) /\ M * p + M * q = M * (p + q)
OBVIOUS

LEMMA RemainderUnique ==
  ASSUME NEW M \in Nat \ {0}, NEW p \in Int, NEW q \in Int, NEW r \in 0..M-1, NEW s \in 0..M-1,
         M * p + r = M * q + s
  PROVE  r = s
<1>1. M * (p - q) = s - r /\ p - q \in Int
  BY Distribute
<1>2. \A k \in Int : (k >= 1 => M * k >= M) /\ (k <= -1 => M * k <= -M)
  OBVIOUS
<1>3. CASE p - q >= 1 \/ p - q <= -1
  BY <1>1, <1>2, <1>3
<1>4. CASE p = q
  BY <1>4
<1> QED BY <1>3, <1>4

(* Adding to a remainder is the same as adding and then taking it.         *)
LEMMA ModAdd ==
  ASSUME NEW a \in Int, NEW c \in Int, NEW M \in Nat \ {0}
  PROVE  ((a % M) + c) % M = (a + c) % M
<1> DEFINE x == a % M
           d == x + c
           e == a + c
           y == d % M
           z == e % M
           p == a \div M
           q == d \div M
           r == e \div M
<1>1. a = M * p + x /\ x \in Int /\ p \in Int
  BY DivMod
<1>2. d \in Int /\ e \in Int
  BY <1>1
<1>3. d = M * q + y /\ y \in 0..M-1 /\ q \in Int
  <2> HIDE DEF d
  <2> QED BY <1>2, DivMod
<1>4. e = M * r + z /\ z \in 0..M-1 /\ r \in Int
  <2> HIDE DEF e
  <2> QED BY <1>2, DivMod
<1>5. d = x + c /\ e = a + c
  OBVIOUS
<1> HIDE DEF x, d, e, y, z, p, q, r
<1>6. M * (p + q) = M * p + M * q /\ p + q \in Int
  BY <1>1, <1>3, Distribute
<1>7. M * p \in Int /\ M * q \in Int /\ M * r \in Int
  BY <1>1, <1>3, <1>4
<1>8. M * (p + q) + y = M * r + z
  BY <1>1, <1>2, <1>3, <1>4, <1>5, <1>6, <1>7
<1>9. y = z
  BY <1>3, <1>4, <1>6, <1>8, RemainderUnique
<1> QED BY <1>9 DEF x, d, e, y, z

-----------------------------------------------------------------------------
(* Numbers that are least and greatest, induction, and folding a sequence  *)
(* from the left.                                                          *)

LEMMA LeastNat ==
  ASSUME NEW G \in SUBSET Nat, G # {} PROVE \E n \in G : \A m \in G : n <= m
<1>1. PICK n \in G : \A m \in G : <<m, n>> \notin OpToRel(<, Nat)
  BY NatLessThanWellFounded, WFMin
<1>2. ASSUME NEW m \in G PROVE n <= m
  <2>1. m \in Nat /\ n \in Nat
    BY <1>1
  <2>2. ~(m < n)
    BY <1>1, <2>1 DEF OpToRel
  <2> QED BY <2>1, <2>2
<1> QED BY <1>2

(* Induction over the natural numbers, for a set of them.                  *)
LEMMA NatSetInduction ==
  ASSUME NEW G, 0 \in G, \A n \in Nat : n \in G => n + 1 \in G
  PROVE  Nat \subseteq G
<1> SUFFICES ASSUME Nat \ G # {} PROVE FALSE
  OBVIOUS
<1>1. PICK n \in Nat \ G : \A m \in Nat \ G : n <= m
  BY LeastNat
<1>2. n # 0 /\ n - 1 \in Nat /\ ~(n <= n - 1) /\ (n - 1) + 1 = n
  BY <1>1
<1>3. n - 1 \in G
  BY <1>1, <1>2
<1> QED BY <1>1, <1>2, <1>3

(* Induction over the length of a sequence.                                *)
LEMMA SeqInduction ==
  ASSUME NEW T, NEW G, <<>> \in G, \A s \in Seq(T), x \in T : s \in G => Append(s, x) \in G
  PROVE  Seq(T) \subseteq G
<1> DEFINE N == {n \in Nat : \A s \in Seq(T) : Len(s) = n => s \in G}
<1>1. 0 \in N
  <2> SUFFICES ASSUME NEW s \in Seq(T), Len(s) = 0 PROVE s \in G
    OBVIOUS
  <2>1. s = <<>>
    BY EmptySeq
  <2> QED BY <2>1
<1>2. ASSUME NEW n \in Nat, n \in N PROVE n + 1 \in N
  <2> SUFFICES ASSUME NEW s \in Seq(T), Len(s) = n + 1 PROVE s \in G
    OBVIOUS
  <2>1. s # <<>>
    OBVIOUS
  <2>2. PICK t \in Seq(T), x \in T : s = Append(t, x)
    BY <2>1, SequenceEmptyOrAppend
  <2>3. Len(t) = n
    BY <2>2, AppendProperties
  <2>4. t \in G
    BY <1>2, <2>3
  <2> QED BY <2>2, <2>4
<1>3. Nat \subseteq N
  <2> HIDE DEF N
  <2> QED BY <1>1, <1>2, NatSetInduction
<1> SUFFICES ASSUME NEW s \in Seq(T) PROVE s \in G
  OBVIOUS
<1>4. Len(s) \in Nat
  OBVIOUS
<1> QED BY <1>3, <1>4

LEMMA MaxIn ==
  ASSUME NEW n \in Nat, NEW s \in SUBSET (0..n), s # {}
  PROVE  Max(s) \in s /\ \A y \in s : Max(s) >= y
<1> DEFINE G == {n - x : x \in s}
<1>1. G \in SUBSET Nat /\ G # {}
  <2>1. \A x \in s : n - x \in Nat
    OBVIOUS
  <2> QED BY <2>1
<1>2. PICK d \in G : \A m \in G : d <= m
  <2> HIDE DEF G
  <2> QED BY <1>1, LeastNat
<1>3. PICK x \in s : d = n - x
  BY <1>2
<1>4. ASSUME NEW y \in s PROVE x >= y
  <2>1. n - x <= n - y
    BY <1>2, <1>3
  <2> QED BY <2>1
<1> QED BY <1>4 DEF Max

LEMMA MaxInterval == ASSUME NEW n \in Nat PROVE Max(1..(n + 1)) = n + 1
<1>1. n + 1 \in Nat /\ 1..(n + 1) \in SUBSET (0..(n + 1)) /\ n + 1 \in 1..(n + 1)
  OBVIOUS
<1>2. Max(1..(n + 1)) \in 1..(n + 1) /\ Max(1..(n + 1)) >= n + 1
  <2> DEFINE s == 1..(n + 1)
  <2>1. s # {}
    BY <1>1
  <2> HIDE DEF s
  <2>2. s = 1..(n + 1)
    BY DEF s
  <2> QED BY <1>1, <2>1, <2>2, MaxIn
<1> QED BY <1>2

(* What FoldTheorems asks of a fold from the left.                         *)
LEMMA LeftFounded ==
  ASSUME NEW n \in Nat
  PROVE  /\ \A C \in SUBSET (SUBSET (1..n)) :
              C # {} => \E m \in C : \A U \in C : U \subseteq m => U = m
         /\ \A s \in SUBSET (1..n) : s # {} => Max(s) \in s
<1>1. IsFiniteSet(1..n)
  BY FS_Interval
<1>2. ASSUME NEW s \in SUBSET (1..n), s # {} PROVE Max(s) \in s
  <2>1. s \in SUBSET (0..n)
    OBVIOUS
  <2> QED BY <1>2, <2>1, MaxIn
<1>3. \A S : IsFiniteSet(S) => \A C \in SUBSET (SUBSET S) :
        C # {} => \E m \in C : \A U \in C : U \subseteq m => U = m
  BY MinimalSubset
<1>4. \A C \in SUBSET (SUBSET (1..n)) :
        C # {} => \E m \in C : \A U \in C : U \subseteq m => U = m
  <2> DEFINE S == 1..n
  <2>1. IsFiniteSet(S)
    BY <1>1
  <2> HIDE DEF S
  <2>2. \A C \in SUBSET (SUBSET S) :
          C # {} => \E m \in C : \A U \in C : U \subseteq m => U = m
    BY <1>3, <2>1
  <2>3. S = 1..n
    BY DEF S
  <2> QED BY <2>2, <2>3, Zenon
<1> QED BY <1>2, <1>4

LEMMA Regroup ==
  ASSUME NEW S, NEW s \in Seq(S), NEW t \in Seq(S), NEW u \in Seq(S)
  PROVE  (s \o t) \o u = s \o (t \o u)
OBVIOUS
=============================================================================
