---------------------------- MODULE FoldTheorems ----------------------------
(***************************************************************************)
(* What a fold of the community module Folds computes.  MapThenFoldSet is  *)
(* a function that is defined by recursion over the subsets of a set; the  *)
(* operator it folds with and the choice of the next element are           *)
(* parameters of this module, which is instantiated once for each fold.    *)
(*                                                                         *)
(* The statements speak of the definitions of this module only: finiteness *)
(* enters as Founded, that sets of subsets have minimal elements.          *)
(***************************************************************************)
EXTENDS Naturals, Sequences, TLAPS

CONSTANTS Op(_, _), Pick(_)

(* The recursion over the subsets of S, and what it yields for S itself.   *)
Unfolded(base, f, S, g) ==
  [s \in SUBSET S |-> IF s = {} THEN base ELSE Op(f[Pick(s)], g[s \ {Pick(s)}])]

Fixpoint(base, f, S) == CHOOSE g : g = Unfolded(base, f, S, g)

Fold(base, f, S) == Fixpoint(base, f, S)[S]

Founded(S) ==
  \A C \in SUBSET (SUBSET S) : C # {} => \E m \in C : \A U \in C : U \subseteq m => U = m

Picks(S) == \A s \in SUBSET S : s # {} => Pick(s) \in s

LEMMA FoundedSubset ==
  ASSUME NEW S, Founded(S), Picks(S), NEW T \in SUBSET S
  PROVE  Founded(T) /\ Picks(T)
<1>1. SUBSET T \subseteq SUBSET S /\ SUBSET (SUBSET T) \subseteq SUBSET (SUBSET S)
  OBVIOUS
<1> QED BY <1>1 DEF Founded, Picks

(* Two solutions of the recursion agree where both are defined.            *)
LEMMA FixpointsAgree ==
  ASSUME NEW base, NEW f, NEW A, NEW B, Founded(A), Picks(A), NEW g, NEW h,
         g = Unfolded(base, f, A, g), h = Unfolded(base, f, B, h)
  PROVE  \A s \in SUBSET (A \cap B) : g[s] = h[s]
<1> DEFINE bad == {s \in SUBSET (A \cap B) : g[s] # h[s]}
<1> SUFFICES ASSUME bad # {} PROVE FALSE
  OBVIOUS
<1>1. bad \in SUBSET (SUBSET A)
  OBVIOUS
<1>2. PICK m \in bad : \A U \in bad : U \subseteq m => U = m
  <2> HIDE DEF bad
  <2> QED BY <1>1 DEF Founded
<1>3. m \in SUBSET A /\ m \in SUBSET B /\ g[m] # h[m]
  BY <1>2
<1> DEFINE rest == m \ {Pick(m)}
<1>4. /\ g[m] = IF m = {} THEN base ELSE Op(f[Pick(m)], g[rest])
      /\ h[m] = IF m = {} THEN base ELSE Op(f[Pick(m)], h[rest])
  <2>1. Unfolded(base, f, A, g)[m] = IF m = {} THEN base ELSE Op(f[Pick(m)], g[rest])
    BY <1>3 DEF Unfolded
  <2>2. Unfolded(base, f, B, h)[m] = IF m = {} THEN base ELSE Op(f[Pick(m)], h[rest])
    BY <1>3 DEF Unfolded
  <2> QED BY <2>1, <2>2
<1>5. m # {} /\ g[rest] # h[rest]
  BY <1>3, <1>4
<1>6. rest \in SUBSET (A \cap B) /\ rest \subseteq m /\ rest # m
  BY <1>3, <1>5 DEF Picks
<1>7. rest \in bad
  BY <1>5, <1>6
<1> QED BY <1>2, <1>6, <1>7

(* The recursion has a solution, which Fixpoint therefore is.              *)
LEMMA FixpointExists ==
  ASSUME NEW base, NEW f, NEW S, Founded(S), Picks(S)
  PROVE  Fixpoint(base, f, S) = Unfolded(base, f, S, Fixpoint(base, f, S))
<1> DEFINE Solved(T) == Fixpoint(base, f, T) = Unfolded(base, f, T, Fixpoint(base, f, T))
           bad == {T \in SUBSET S : ~Solved(T)}
<1> SUFFICES ASSUME bad # {} PROVE FALSE
  OBVIOUS
<1>1. bad \in SUBSET (SUBSET S)
  OBVIOUS
<1>2. PICK m \in bad : \A U \in bad : U \subseteq m => U = m
  <2> HIDE DEF bad
  <2> QED BY <1>1 DEF Founded
<1>3. m \in SUBSET S /\ ~Solved(m) /\ Picks(m)
  BY <1>2, FoundedSubset
<1>4. ASSUME NEW U \in SUBSET m, U # m PROVE Solved(U)
  <2> HIDE DEF Solved
  <2>1. U \notin bad /\ U \in SUBSET S
    BY <1>2, <1>3, <1>4
  <2> QED BY <2>1
<1> HIDE DEF bad
<1> DEFINE Less(s) == s \ {Pick(s)}
           part(s) == Fixpoint(base, f, s)[s]
           g == [s \in SUBSET m |-> IF s = {} THEN base ELSE Op(f[Pick(s)], part(Less(s)))]
<1>0. ASSUME NEW s \in SUBSET m, s # {} PROVE Less(s) \in SUBSET m /\ Less(s) \in SUBSET s /\ Less(s) # s
  BY <1>0, <1>3 DEF Picks
<1>5. ASSUME NEW s \in SUBSET m, s # {}
      PROVE  g[Less(s)] = part(Less(s))
  <2> DEFINE u == Less(s)
  <2>1. u \in SUBSET m /\ u # m
    BY <1>0, <1>5
  <2> HIDE DEF Less, u
  <2>2. Solved(u)
    BY <1>4, <2>1
  <2>3. part(u) = IF u = {} THEN base ELSE Op(f[Pick(u)], Fixpoint(base, f, u)[Less(u)])
    <3>1. Unfolded(base, f, u, Fixpoint(base, f, u))[u] =
            IF u = {} THEN base ELSE Op(f[Pick(u)], Fixpoint(base, f, u)[Less(u)])
      BY DEF Unfolded, Less
    <3> QED BY <2>2, <3>1
  <2>4. g[u] = IF u = {} THEN base ELSE Op(f[Pick(u)], part(Less(u)))
    BY <2>1
  <2>5. CASE u = {}
    BY <2>3, <2>4, <2>5 DEF u
  <2>6. CASE u # {}
    <3> DEFINE w == Less(u)
    <3>1. w \in SUBSET m /\ w \in SUBSET u /\ w # m
      <4>1. w \in SUBSET u /\ w # u /\ w \in SUBSET m
        BY <1>0, <2>1, <2>6
      <4> HIDE DEF w
      <4> QED BY <2>1, <4>1
    <3> HIDE DEF w
    <3>2. Solved(w)
      BY <1>4, <3>1
    <3>3. Founded(u) /\ Picks(u)
      BY <1>3, <2>1, FoundedSubset
    <3>4. w \in SUBSET (u \cap w)
      BY <3>1
    <3>5. Fixpoint(base, f, u)[w] = Fixpoint(base, f, w)[w]
      BY <2>2, <3>2, <3>3, <3>4, FixpointsAgree
    <3> QED BY <2>3, <2>4, <2>6, <3>5 DEF u, w
  <2> QED BY <2>5, <2>6
<1>6. g = Unfolded(base, f, m, g)
  <2>1. Unfolded(base, f, m, g) =
          [s \in SUBSET m |-> IF s = {} THEN base ELSE Op(f[Pick(s)], g[Less(s)])]
    BY DEF Unfolded
  <2>2. ASSUME NEW s \in SUBSET m
        PROVE  (IF s = {} THEN base ELSE Op(f[Pick(s)], part(Less(s))))
                 = (IF s = {} THEN base ELSE Op(f[Pick(s)], g[Less(s)]))
    <3> HIDE DEF g, Less
    <3> QED BY <1>5
  <2>3. g = [s \in SUBSET m |-> IF s = {} THEN base ELSE Op(f[Pick(s)], g[Less(s)])]
    <3> DEFINE G == g
    <3>1. G = [s \in SUBSET m |-> IF s = {} THEN base ELSE Op(f[Pick(s)], part(Less(s)))]
      OBVIOUS
    <3> HIDE DEF g, G, Less
    <3> QED BY <2>2, <3>1 DEF G
  <2> QED BY <2>1, <2>3
<1> HIDE DEF g
<1>7. \E x : x = Unfolded(base, f, m, x)
  BY <1>6
<1> QED BY <1>3, <1>7 DEF Fixpoint

-----------------------------------------------------------------------------
(* The fold of nothing, and of anything else by its first element.         *)
LEMMA FoldEmpty ==
  ASSUME NEW base, NEW f, Founded({})
  PROVE  Fold(base, f, {}) = base
<1>1. Picks({})
  BY DEF Picks
<1>2. Fixpoint(base, f, {}) = Unfolded(base, f, {}, Fixpoint(base, f, {}))
  BY <1>1, FixpointExists
<1>3. Unfolded(base, f, {}, Fixpoint(base, f, {}))[{}] = base
  BY DEF Unfolded
<1> QED BY <1>2, <1>3 DEF Fold

LEMMA FoldTakes ==
  ASSUME NEW base, NEW f, NEW S, Founded(S), Picks(S), S # {}
  PROVE  Fold(base, f, S) = Op(f[Pick(S)], Fold(base, f, S \ {Pick(S)}))
<1> DEFINE R == S \ {Pick(S)}
<1>1. R \in SUBSET S /\ Founded(R) /\ Picks(R)
  BY FoundedSubset
<1>2. /\ Fixpoint(base, f, S) = Unfolded(base, f, S, Fixpoint(base, f, S))
      /\ Fixpoint(base, f, R) = Unfolded(base, f, R, Fixpoint(base, f, R))
  BY <1>1, FixpointExists
<1>3. Unfolded(base, f, S, Fixpoint(base, f, S))[S] = Op(f[Pick(S)], Fixpoint(base, f, S)[R])
  BY DEF Unfolded
<1> HIDE DEF R
<1>4. R \in SUBSET (S \cap R)
  BY <1>1
<1>5. Fixpoint(base, f, S)[R] = Fixpoint(base, f, R)[R]
  BY <1>2, <1>4, FixpointsAgree
<1> QED BY <1>2, <1>3, <1>5 DEF Fold, R

(* A fold depends only on the values it is given.                          *)
LEMMA FoldSame ==
  ASSUME NEW base, NEW f, NEW h, NEW S, Founded(S), Picks(S), \A x \in S : f[x] = h[x]
  PROVE  Fold(base, f, S) = Fold(base, h, S)
<1> DEFINE bad == {T \in SUBSET S : Fold(base, f, T) # Fold(base, h, T)}
<1> SUFFICES ASSUME bad # {} PROVE FALSE
  OBVIOUS
<1>1. bad \in SUBSET (SUBSET S)
  OBVIOUS
<1>2. PICK m \in bad : \A U \in bad : U \subseteq m => U = m
  <2> HIDE DEF bad
  <2> QED BY <1>1 DEF Founded
<1>3. m \in SUBSET S /\ Fold(base, f, m) # Fold(base, h, m) /\ Founded(m) /\ Picks(m)
  BY <1>2, FoundedSubset
<1>4. m # {}
  BY <1>3, FoldEmpty
<1> DEFINE rest == m \ {Pick(m)}
<1>5. Pick(m) \in m /\ Pick(m) \in S /\ rest \subseteq m /\ rest # m
  BY <1>3, <1>4 DEF Picks
<1>6. Fold(base, f, rest) = Fold(base, h, rest)
  BY <1>2, <1>3, <1>5
<1>7. /\ Fold(base, f, m) = Op(f[Pick(m)], Fold(base, f, rest))
      /\ Fold(base, h, m) = Op(h[Pick(m)], Fold(base, h, rest))
  BY <1>3, <1>4, FoldTakes
<1> HIDE DEF rest
<1> QED BY <1>3, <1>5, <1>6, <1>7

(* Folding a sequence from the left, which takes the greatest index first: *)
(* an element that is appended is folded in last.                          *)
LEMMA FoldAppend ==
  ASSUME NEW base, NEW V, NEW seq \in Seq(V), NEW x \in V,
         \A n \in Nat : Founded(1..n) /\ Picks(1..n),
         \A n \in Nat : Pick(1..(n + 1)) = n + 1
  PROVE  Fold(base, Append(seq, x), DOMAIN Append(seq, x)) = Op(x, Fold(base, seq, DOMAIN seq))
<1> DEFINE n == Len(seq)
           longer == Append(seq, x)
<1>1. n \in Nat /\ DOMAIN seq = 1..n /\ DOMAIN longer = 1..(n + 1) /\ longer[n + 1] = x
      /\ \A i \in 1..n : longer[i] = seq[i]
  <2>1. longer \in Seq(V) /\ Len(longer) = n + 1 /\ n \in Nat
    OBVIOUS
  <2>2. DOMAIN seq = 1..n /\ DOMAIN longer = 1..(n + 1)
    BY <2>1
  <2>3. longer[n + 1] = x /\ \A i \in 1..n : longer[i] = seq[i]
    OBVIOUS
  <2> QED BY <2>1, <2>2, <2>3
<1> HIDE DEF n, longer
<1>2. 1..(n + 1) # {} /\ (1..(n + 1)) \ {n + 1} = 1..n /\ n + 1 \in Nat
  <2>1. n \in Nat
    BY <1>1
  <2>2. n + 1 \in 1..(n + 1)
    BY <2>1
  <2>3. \A i : i \in (1..(n + 1)) \ {n + 1} <=> i \in 1..n
    BY <2>1
  <2>4. (1..(n + 1)) \ {n + 1} = 1..n
    BY <2>3
  <2>5. 1..(n + 1) # {}
    BY <2>2, Zenon
  <2>6. n + 1 \in Nat
    BY <2>1
  <2> QED BY <2>4, <2>5, <2>6, Zenon
<1>3. Fold(base, longer, 1..(n + 1)) = Op(x, Fold(base, longer, 1..n))
  BY <1>1, <1>2, FoldTakes
<1>4. Fold(base, longer, 1..n) = Fold(base, seq, 1..n)
  BY <1>1, FoldSame
<1> QED BY <1>1, <1>3, <1>4 DEF longer

-----------------------------------------------------------------------------
(* Recursion over the natural numbers, as f[n \in D] == ... f[n - 1] ...   *)
(* defines a function: some solution of its equation.                      *)
Recursion(base, D, g) == [n \in D |-> IF n = 0 THEN base ELSE Op(n, g[n - 1])]

Solution(base, D) == CHOOSE g : g = Recursion(base, D, g)

Initial(D) == D \subseteq Nat /\ \A n \in D : 0..n \subseteq D

LeastNumbers == \A G \in SUBSET Nat : G # {} => \E n \in G : \A m \in G : n <= m

LEMMA SolutionsAgree ==
  ASSUME NEW base, NEW A, NEW B, Initial(A), Initial(B), LeastNumbers, NEW g, NEW h,
         g = Recursion(base, A, g), h = Recursion(base, B, h)
  PROVE  \A n \in A \cap B : g[n] = h[n]
<1> DEFINE bad == {n \in A \cap B : g[n] # h[n]}
<1> SUFFICES ASSUME bad # {} PROVE FALSE
  OBVIOUS
<1>1. bad \in SUBSET Nat
  BY DEF Initial
<1>2. PICK n \in bad : \A m \in bad : n <= m
  <2> HIDE DEF bad
  <2> QED BY <1>1 DEF LeastNumbers
<1>3. n \in A /\ n \in B /\ n \in Nat /\ g[n] # h[n]
  BY <1>1, <1>2
<1>4. /\ g[n] = IF n = 0 THEN base ELSE Op(n, g[n - 1])
      /\ h[n] = IF n = 0 THEN base ELSE Op(n, h[n - 1])
  <2>1. Recursion(base, A, g)[n] = IF n = 0 THEN base ELSE Op(n, g[n - 1])
    BY <1>3 DEF Recursion
  <2>2. Recursion(base, B, h)[n] = IF n = 0 THEN base ELSE Op(n, h[n - 1])
    BY <1>3 DEF Recursion
  <2> QED BY <2>1, <2>2
<1>5. n # 0 /\ g[n - 1] # h[n - 1]
  BY <1>3, <1>4
<1>6. n - 1 \in 0..n /\ ~(n <= n - 1)
  BY <1>3, <1>5
<1>7. n - 1 \in A /\ n - 1 \in B
  BY <1>3, <1>6 DEF Initial
<1> QED BY <1>2, <1>5, <1>6, <1>7

LEMMA SolvedTo ==
  ASSUME NEW base, NEW n \in Nat, LeastNumbers
  PROVE  Solution(base, 0..n) = Recursion(base, 0..n, Solution(base, 0..n))
<1> DEFINE Solved(k) == \E g : g = Recursion(base, 0..k, g)
           bad == {k \in Nat : ~Solved(k)}
<1>1. bad = {}
  <2> SUFFICES ASSUME bad # {} PROVE FALSE
    OBVIOUS
  <2>1. bad \in SUBSET Nat
    OBVIOUS
  <2>2. PICK k \in bad : \A m \in bad : k <= m
    <3> HIDE DEF bad
    <3> QED BY <2>1 DEF LeastNumbers
  <2>3. k \in Nat /\ ~Solved(k)
    BY <2>2
  <2>4. k # 0
    <3> SUFFICES ASSUME k = 0 PROVE FALSE
      OBVIOUS
    <3> DEFINE g == [j \in 0..0 |-> base]
    <3>1. \A j \in 0..0 : j = 0
      OBVIOUS
    <3>2. g = Recursion(base, 0..0, g)
      BY <3>1 DEF Recursion
    <3> QED BY <2>3, <3>2
  <2>5. k - 1 \in Nat /\ ~(k <= k - 1)
    BY <2>3, <2>4
  <2>6. Solved(k - 1)
    <3> HIDE DEF Solved
    <3> QED BY <2>2, <2>5
  <2>7. PICK h : h = Recursion(base, 0..(k - 1), h)
    BY <2>6
  <2> DEFINE g == [j \in 0..k |-> IF j = k THEN Op(k, h[k - 1]) ELSE h[j]]
  <2>8. ASSUME NEW j \in 0..k PROVE g[j] = IF j = 0 THEN base ELSE Op(j, g[j - 1])
    <3>1. CASE j = k
      <4>1. k - 1 \in 0..k /\ k - 1 # k /\ k \in 0..k
        BY <2>3, <2>5
      <4>2. g[k - 1] = h[k - 1] /\ g[k] = Op(k, h[k - 1])
        BY <4>1
      <4> QED BY <2>4, <3>1, <4>2
    <3>2. CASE j # k
      <4>1. j \in 0..(k - 1) /\ j \in Nat
        BY <2>3, <3>2
      <4>2. Recursion(base, 0..(k - 1), h)[j] = IF j = 0 THEN base ELSE Op(j, h[j - 1])
        BY <4>1 DEF Recursion
      <4>3. g[j] = IF j = 0 THEN base ELSE Op(j, h[j - 1])
        BY <2>7, <3>2, <4>2
      <4>4. j # 0 => j - 1 \in 0..k /\ j - 1 # k
        BY <2>3, <4>1
      <4>5. j # 0 => g[j - 1] = h[j - 1]
        BY <4>4
      <4> QED BY <4>3, <4>5
    <3> QED BY <3>1, <3>2
  <2>9. g = Recursion(base, 0..k, g)
    <3>1. DOMAIN g = 0..k /\ g = [j \in 0..k |-> g[j]]
      OBVIOUS
    <3> HIDE DEF g
    <3>2. g = [j \in 0..k |-> IF j = 0 THEN base ELSE Op(j, g[j - 1])]
      BY <2>8, <3>1
    <3> QED BY <3>2 DEF Recursion
  <2> HIDE DEF g
  <2> QED BY <2>3, <2>9
<1> HIDE DEF Solved
<1>2. Solved(n)
  BY <1>1
<1> QED BY <1>2 DEF Solved, Solution

(* The recursion has a solution, which the defined function therefore is.  *)
LEMMA RecursionSolved ==
  ASSUME NEW base, NEW D, Initial(D), LeastNumbers
  PROVE  /\ DOMAIN Solution(base, D) = D
         /\ \A n \in D : Solution(base, D)[n] =
              IF n = 0 THEN base ELSE Op(n, Solution(base, D)[n - 1])
<1> DEFINE To(n) == Solution(base, 0..n)
           g == [n \in D |-> To(n)[n]]
<1>1. ASSUME NEW n \in D PROVE g[n] = IF n = 0 THEN base ELSE Op(n, g[n - 1])
  <2>1. n \in Nat /\ 0..n \subseteq D
    BY DEF Initial
  <2>2. To(n) = Recursion(base, 0..n, To(n))
    BY <2>1, SolvedTo
  <2>3. g[n] = To(n)[n]
    OBVIOUS
  <2>4. Recursion(base, 0..n, To(n))[n] = IF n = 0 THEN base ELSE Op(n, To(n)[n - 1])
    <3>1. n \in 0..n
      BY <2>1
    <3> HIDE DEF To
    <3> QED BY <3>1 DEF Recursion
  <2>5. ASSUME n # 0 PROVE g[n - 1] = To(n)[n - 1]
    <3>1. /\ n - 1 \in Nat /\ n - 1 \in (0..(n - 1)) \cap (0..n) /\ n - 1 \in 0..n
          /\ Initial(0..(n - 1)) /\ Initial(0..n)
      BY <2>1, <2>5 DEF Initial
    <3>2. To(n - 1) = Recursion(base, 0..(n - 1), To(n - 1))
      BY <3>1, SolvedTo
    <3>3. n - 1 \in D
      BY <2>1, <3>1
    <3>4. g[n - 1] = To(n - 1)[n - 1]
      BY <3>3
    <3> HIDE DEF To, g
    <3>5. \A m \in (0..(n - 1)) \cap (0..n) : To(n - 1)[m] = To(n)[m]
      <4> DEFINE A == 0..(n - 1)
                 B == 0..n
      <4>1. Initial(A) /\ Initial(B)
        BY <3>1
      <4>2. To(n - 1) = Recursion(base, A, To(n - 1)) /\ To(n) = Recursion(base, B, To(n))
        BY <2>2, <3>2
      <4> HIDE DEF A, B
      <4>3. \A m \in A \cap B : To(n - 1)[m] = To(n)[m]
        BY <4>1, <4>2, SolutionsAgree
      <4> QED BY <4>3 DEF A, B
    <3> QED BY <3>1, <3>4, <3>5
  <2> HIDE DEF g, To
  <2> QED BY <2>2, <2>3, <2>4, <2>5
<1>2. g = Recursion(base, D, g)
  <2>1. g = [n \in D |-> g[n]]
    OBVIOUS
  <2> HIDE DEF g
  <2>2. g = [n \in D |-> IF n = 0 THEN base ELSE Op(n, g[n - 1])]
    BY <1>1, <2>1
  <2> QED BY <2>2 DEF Recursion
<1> HIDE DEF g
<1>3. Solution(base, D) = Recursion(base, D, Solution(base, D))
  BY <1>2 DEF Solution
<1> DEFINE s == Solution(base, D)
<1> HIDE DEF s
<1>4. s = Recursion(base, D, s)
  BY <1>3 DEF s
<1>5. Recursion(base, D, s) = [n \in D |-> IF n = 0 THEN base ELSE Op(n, s[n - 1])]
  BY DEF Recursion
<1>6. DOMAIN s = D /\ \A n \in D : s[n] = IF n = 0 THEN base ELSE Op(n, s[n - 1])
  BY <1>4, <1>5
<1> QED BY <1>6 DEF s
=============================================================================
