----------------------------- MODULE DataProofs -----------------------------
(***************************************************************************)
(* Theorems about the parts that compute on data: the gas and the          *)
(* arithmetic of the virtual machine, the code of the compiler, the        *)
(* inclusion proofs of the light client, the binary form of transactions,  *)
(* blocks and votes, and the tally of the governance engine.               *)
(***************************************************************************)
EXTENDS Contracts, Wire, LightClient, Governance, SumTheorems, SequenceTheorems, TLAPS

-----------------------------------------------------------------------------
(* The gas limit, for every program, every request and all prices.         *)
Prices == {GAS_PUSH, GAS_ADD, GAS_MUL, GAS_SLOAD, GAS_SSTORE}

GasInv == gas_used \in Nat /\ GasBounded

LEMMA PriceType == \A price \in Prices : price \in Nat /\ price > 0
  BY VMConstants DEF Prices

LEMMA CostIsPrice == \A op : Cost(op) = 0 \/ Cost(op) \in Prices
<1> SUFFICES ASSUME NEW op PROVE Cost(op) = 0 \/ Cost(op) \in Prices
  OBVIOUS
<1>1. \/ Cost(op) = 0 \/ Cost(op) = GAS_PUSH \/ Cost(op) = GAS_ADD
      \/ Cost(op) = GAS_MUL \/ Cost(op) = GAS_SLOAD \/ Cost(op) = GAS_SSTORE
  BY DEF Cost, Pushing
<1> QED BY <1>1 DEF Prices

(* Nothing spent is within every limit.                                    *)
LEMMA UnspentBounded == ASSUME gas_used' = 0 PROVE GasInv'
<1>1. GAS_PUSH \in Prices /\ GAS_PUSH \in Nat /\ GAS_PUSH > 0 /\ gas_limit \in Nat
  BY PriceType, VMConstants DEF Prices
<1>2. 0 < gas_limit + GAS_PUSH
  BY <1>1
<1> QED BY <1>2 DEF GasInv, GasBounded

(* The check before an instruction bounds what the instruction leaves.     *)
LEMMA ChargeBounded ==
  ASSUME GasInv, CheckGas, NEW op, gas_used' = Charged(op)
  PROVE  GasInv'
<1>1. gas_used \in Nat /\ gas_limit \in Nat /\ gas_used + 1 <= gas_limit
  BY VMConstants DEF GasInv, CheckGas
<1>2. CASE Cost(op) = 0
  <2>1. gas_used' = gas_used
    BY <1>1, <1>2 DEF Charged
  <2> QED BY <2>1 DEF GasInv, GasBounded
<1>3. CASE Cost(op) \in Prices
  <2>1. Cost(op) \in Nat
    BY <1>3, PriceType
  <2>2. gas_used' \in Nat /\ gas_used' < gas_limit + Cost(op)
    BY <1>1, <2>1 DEF Charged
  <2> QED BY <1>3, <2>2 DEF GasInv, GasBounded, Prices
<1> QED BY <1>2, <1>3, CostIsPrice

(* Each opcode either is charged after the check or leaves the gas alone.  *)
LEMMA ExecuteBounded == GasInv /\ Execute => GasInv'
<1> SUFFICES ASSUME GasInv, Execute PROVE GasInv'
  OBVIOUS
<1>1. ASSUME UNCHANGED gas_used PROVE GasInv'
  BY <1>1 DEF GasInv, GasBounded
<1>2. ASSUME CheckGas, NEW stk, Proceed(stk) PROVE GasInv'
  BY <1>2, ChargeBounded DEF Proceed
<1>3. CASE EndOfCode \/ OutOfGas \/ Abort \/ Jump \/ Halt
  BY <1>1, <1>3 DEF EndOfCode, OutOfGas, Abort, Jump, Halt
<1>4. CASE Push
  BY <1>2, <1>4 DEF Push, Fetch
<1>5. CASE PushEnvironment
  BY <1>2, <1>5 DEF PushEnvironment, Fetch
<1>6. CASE Rearrange
  BY <1>2, <1>6 DEF Rearrange, Fetch
<1>7. CASE Compute
  BY <1>2, <1>7 DEF Compute, Fetch
<1>8. CASE Divide
  BY <1>2, <1>8 DEF Divide, Fetch
<1>9. CASE DivideUndefined
  BY <1>1, <1>2, <1>9 DEF DivideUndefined, Fetch
<1>10. CASE MemoryLoad
  BY <1>2, <1>10 DEF MemoryLoad, Fetch
<1>11. CASE MemoryStore
  BY <1>2, <1>11 DEF MemoryStore, Fetch
<1>12. CASE StorageLoad
  BY <1>2, <1>12 DEF StorageLoad, Fetch
<1>13. CASE StorageStore
  BY <1>2, <1>13 DEF StorageStore, Fetch
<1>14. CASE JumpNotTaken
  BY <1>2, <1>14 DEF JumpNotTaken, Fetch
<1> QED BY <1>3, <1>4, <1>5, <1>6, <1>7, <1>8, <1>9, <1>10, <1>11, <1>12, <1>13, <1>14 DEF Execute

LEMMA NextBounded == GasInv /\ [Next]_vars => GasInv'
<1> SUFFICES ASSUME GasInv, [Next]_vars PROVE GasInv'
  OBVIOUS
<1>1. ASSUME NEW c \in Deployable, DeployContract(c) PROVE GasInv'
  BY <1>1 DEF DeployContract, vmVars, GasInv, GasBounded
<1>2. ASSUME NEW c, NEW from, Start(c, from) PROVE GasInv'
  BY <1>2, UnspentBounded DEF Start, VMBecomes, Load
<1>3. CASE Run
  BY <1>3, ExecuteBounded DEF Run
<1>4. CASE Respond
  BY <1>4, UnspentBounded DEF Respond, VMBecomes, Idle, Load
<1>5. CASE UNCHANGED vars
  BY <1>5 DEF vars, vmVars, GasInv, GasBounded
<1> QED BY <1>1, <1>2, <1>3, <1>4, <1>5 DEF Next, CallContract, EstimateGas

(* No program, compiled or not, spends the price of one instruction or     *)
(* more beyond its gas limit.                                              *)
THEOREM ContractsGasBounded == Spec => []GasBounded
<1>1. Init => GasInv
  <2> SUFFICES ASSUME Init PROVE GasInv
    OBVIOUS
  <2>1. gas_used = 0 /\ gas_limit \in Nat
    BY VMConstants DEF Init
  <2>2. GAS_PUSH \in Nat /\ GAS_PUSH > 0
    BY PriceType DEF Prices
  <2> QED BY <2>1, <2>2 DEF GasInv, GasBounded
<1>2. GasInv /\ [Next]_vars => GasInv'
  BY NextBounded
<1>3. GasInv => GasBounded
  BY DEF GasInv
<1> QED BY <1>1, <1>2, <1>3, PTL DEF Spec

-----------------------------------------------------------------------------
(* A value that is computed in a number of steps                           *)
Iterated(N, V, f, base, g) ==
  /\ g \in [0..N -> V] /\ g[0] = base
  /\ \A n \in 1..N : g[n] = f[n][g[n - 1]]

HasIteration(N, V, f, base) == \E g : Iterated(N, V, f, base, g)

LEMMA Iteration ==
  ASSUME NEW N \in Nat, NEW V, NEW f \in [1..N -> [V -> V]], NEW base \in V
  PROVE  HasIteration(N, V, f, base)
<1> DEFINE Done(n) == \E g : Iterated(n, V, f, base, g)
           G == {n \in Nat : n <= N => Done(n)}
<1>1. 0 \in G
  <2> DEFINE g == [n \in 0..0 |-> base]
  <2>1. Iterated(0, V, f, base, g)
    BY DEF Iterated
  <2> HIDE DEF g
  <2> QED BY <2>1
<1>2. ASSUME NEW n \in Nat, n \in G PROVE n + 1 \in G
  <2> SUFFICES ASSUME n + 1 <= N PROVE Done(n + 1)
    OBVIOUS
  <2>1. PICK g : Iterated(n, V, f, base, g)
    BY <1>2
  <2>2. /\ g \in [0..n -> V] /\ g[0] = base
        /\ \A m \in 1..n : g[m] = f[m][g[m - 1]]
    BY <2>1 DEF Iterated
  <2> DEFINE e == f[n + 1][g[n]]
             h == [m \in 0..(n + 1) |-> IF m = n + 1 THEN e ELSE g[m]]
  <2>3. g[n] \in V /\ n + 1 \in 1..N
    BY <2>2
  <2>4. e \in V
    BY <2>3
  <2>5. h[n + 1] = e /\ \A m \in 0..n : h[m] = g[m]
    OBVIOUS
  <2>6. h \in [0..(n + 1) -> V]
    <3> HIDE DEF e
    <3> QED BY <2>2, <2>4
  <2>7. h[0] = base
    BY <2>2, <2>5
  <2>8. ASSUME NEW m \in 1..(n + 1) PROVE h[m] = f[m][h[m - 1]]
    <3> HIDE DEF h
    <3>1. CASE m = n + 1
      <4>1. m - 1 = n /\ n \in 0..n
        BY <3>1
      <4> QED BY <2>5, <3>1, <4>1
    <3>2. CASE m \in 1..n
      <4>1. m \in 0..n /\ m - 1 \in 0..n
        BY <3>2
      <4> QED BY <2>2, <2>5, <3>2, <4>1
    <3> QED BY <3>1, <3>2
  <2> HIDE DEF h
  <2>9. Iterated(n + 1, V, f, base, h)
    BY <2>6, <2>7, <2>8 DEF Iterated
  <2> QED BY <2>9
<1>3. N \in G
  <2> HIDE DEF G
  <2> QED BY <1>1, <1>2, NatSetInduction
<1> QED BY <1>3 DEF HasIteration

-----------------------------------------------------------------------------
(* Words and the numbers they stand for                                    *)
Weights == INSTANCE FoldTheorems WITH Op <- LAMBDA k, n : ByteBase * n, Pick <- Max

LEMMA PowerSteps == Power[0] = 1 /\ \A k \in Nat : Power[k + 1] = ByteBase * Power[k]
<1>1. Power = Weights!Solution(1, Nat)
  BY DEF Power, Weights!Solution, Weights!Recursion
<1>2. Weights!LeastNumbers
  BY LeastNat DEF Weights!LeastNumbers
<1>3. Weights!Initial(Nat)
  BY DEF Weights!Initial
<1>4. \A n \in Nat : Power[n] = IF n = 0 THEN 1 ELSE ByteBase * Power[n - 1]
  BY <1>1, <1>2, <1>3, Weights!RecursionSolved
<1>5. ASSUME NEW k \in Nat PROVE Power[k + 1] = ByteBase * Power[k]
  <2>1. k + 1 \in Nat /\ k + 1 # 0 /\ (k + 1) - 1 = k
    OBVIOUS
  <2> QED BY <1>4, <2>1
<1> QED BY <1>4, <1>5

LEMMA BytesAre ==
  /\ ByteBase \in Nat /\ ByteBase >= 2 /\ WordBytes \in Nat /\ WordBytes >= 1
  /\ LowBytes \in Nat /\ LowBytes >= 1 /\ LowBytes <= WordBytes
BY VMConstants

LEMMA PowerNat == \A k \in Nat : Power[k] \in Nat /\ Power[k] >= 1
<1> DEFINE G == {k \in Nat : Power[k] \in Nat /\ Power[k] >= 1}
<1>1. 0 \in G
  BY PowerSteps
<1>2. ASSUME NEW n \in Nat, n \in G PROVE n + 1 \in G
  <2>1. Power[n] \in Nat /\ Power[n] >= 1 /\ Power[n + 1] = ByteBase * Power[n]
    BY <1>2, PowerSteps
  <2>2. ByteBase \in Nat /\ ByteBase >= 1
    BY BytesAre
  <2>3. Power[n + 1] \in Nat /\ Power[n + 1] >= 1
    BY <2>1, <2>2, TimesPositive
  <2> QED BY <2>3
<1>3. Nat \subseteq G
  <2> HIDE DEF G
  <2> QED BY <1>1, <1>2, NatSetInduction
<1> QED BY <1>3

(* The numbers that the first bytes of a word stand for                    *)
DigitSums(w) ==
  CHOOSE v : v = [n \in 0..WordBytes |-> IF n = 0 THEN 0 ELSE v[n - 1] * ByteBase + w[n]]

PrefixesAre(w, v) ==
  /\ v \in [0..WordBytes -> Nat] /\ v[0] = 0
  /\ \A n \in 0..(WordBytes - 1) : v[n + 1] = v[n] * ByteBase + w[n + 1]

LEMMA WordDigits ==
  ASSUME NEW w \in Word, NEW n \in 1..WordBytes
  PROVE  w[n] \in Nat /\ w[n] <= ByteBase - 1
BY BytesAre DEF Word, Byte

LEMMA PrefixesOf ==
  ASSUME NEW w \in Word
  PROVE  PrefixesAre(w, DigitSums(w)) /\ Value(w) = DigitSums(w)[WordBytes]
<1> DEFINE N == WordBytes
           f == [n \in 1..N |-> [v \in Nat |-> v * ByteBase + w[n]]]
           Solves(v) == v = [n \in 0..N |-> IF n = 0 THEN 0 ELSE v[n - 1] * ByteBase + w[n]]
<1>0. N \in Nat /\ ByteBase \in Nat
  BY BytesAre
<1>1. \A n \in 1..N : w[n] \in Nat
  BY WordDigits
<1>2. f \in [1..N -> [Nat -> Nat]]
  <2>1. \A n \in 1..N, v \in Nat : v * ByteBase + w[n] \in Nat
    BY <1>0, <1>1
  <2> QED BY <2>1
<1>3. HasIteration(N, Nat, f, 0)
  <2> HIDE DEF f, N
  <2> QED BY <1>0, <1>2, Iteration
<1>4. PICK g : Iterated(N, Nat, f, 0, g)
  BY ONLY <1>3 DEF HasIteration
<1>5. g \in [0..N -> Nat] /\ g[0] = 0 /\ \A n \in 1..N : g[n] = f[n][g[n - 1]]
  BY <1>4 DEF Iterated
<1>6. Solves(g)
  <2>1. ASSUME NEW n \in 0..N PROVE g[n] = IF n = 0 THEN 0 ELSE g[n - 1] * ByteBase + w[n]
    <3>1. CASE n = 0
      BY <1>5, <3>1
    <3>2. CASE n # 0
      <4>1. n \in 1..N /\ n - 1 \in 0..N
        BY <1>0, <3>2
      <4>2. g[n - 1] \in Nat /\ g[n] = f[n][g[n - 1]]
        BY <1>5, <4>1
      <4> QED BY <3>2, <4>1, <4>2
    <3> QED BY <3>1, <3>2
  <2> QED BY <1>5, <2>1
<1> DEFINE v == DigitSums(w)
<1>7. Solves(v)
  <2>1. v = CHOOSE x : Solves(x)
    BY DEF DigitSums
  <2> HIDE DEF Solves, v
  <2> QED BY <1>6, <2>1
<1> HIDE DEF v
<1>8. \A n \in 0..N : v[n] = IF n = 0 THEN 0 ELSE v[n - 1] * ByteBase + w[n]
  BY <1>7
<1>9. ASSUME NEW n \in 0..(N - 1) PROVE v[n + 1] = v[n] * ByteBase + w[n + 1]
  <2>1. n + 1 \in 0..N /\ n + 1 # 0 /\ (n + 1) - 1 = n
    BY <1>0
  <2> QED BY <1>8, <2>1
<1>10. v[0] = 0
  BY <1>0, <1>8
<1>11. ASSUME NEW n \in 0..N PROVE v[n] \in Nat
  <2> DEFINE G == {m \in Nat : m <= N => v[m] \in Nat}
  <2>1. 0 \in G
    BY <1>10
  <2>2. ASSUME NEW m \in Nat, m \in G PROVE m + 1 \in G
    <3> SUFFICES ASSUME m + 1 <= N PROVE v[m + 1] \in Nat
      OBVIOUS
    <3>1. v[m] \in Nat /\ m \in 0..(N - 1) /\ m + 1 \in 1..N
      BY <1>0, <2>2
    <3>2. w[m + 1] \in Nat
      BY <1>1, <3>1
    <3>3. v[m + 1] = v[m] * ByteBase + w[m + 1]
      BY <1>9, <3>1
    <3> QED BY <1>0, <3>1, <3>2, <3>3
  <2>3. n \in G
    <3> HIDE DEF G
    <3> QED BY <2>1, <2>2, NatSetInduction
  <2> QED BY <2>3
<1>12. v \in [0..N -> Nat]
  BY <1>7, <1>11
<1>13. PrefixesAre(w, v)
  BY <1>9, <1>10, <1>12 DEF PrefixesAre
<1>14. Value(w) = v[WordBytes]
  BY DEF Value, v, DigitSums
<1> QED BY <1>13, <1>14 DEF v

(* Induction over the bytes of a word                                      *)
LEMMA ByteInduction ==
  ASSUME NEW G, 0 \in G, \A n \in 0..(WordBytes - 1) : n \in G => n + 1 \in G
  PROVE  \A n \in 0..WordBytes : n \in G
<1> DEFINE H == {n \in Nat : n <= WordBytes => n \in G}
<1>0. WordBytes \in Nat
  BY BytesAre
<1>1. 0 \in H
  OBVIOUS
<1>2. ASSUME NEW n \in Nat, n \in H PROVE n + 1 \in H
  BY <1>0, <1>2
<1>3. Nat \subseteq H
  <2> HIDE DEF H
  <2> QED BY <1>1, <1>2, NatSetInduction
<1> QED BY <1>0, <1>3

LEMMA PrefixBound ==
  ASSUME NEW w \in Word, NEW v, PrefixesAre(w, v)
  PROVE  \A n \in 0..WordBytes : v[n] < Power[n]
<1> DEFINE G == {n \in Nat : v[n] < Power[n]}
           B == ByteBase
<1>0. B \in Nat /\ B >= 2 /\ WordBytes \in Nat
  BY BytesAre
<1>1. 0 \in G
  BY PowerSteps DEF PrefixesAre
<1>2. ASSUME NEW n \in 0..(WordBytes - 1), n \in G PROVE n + 1 \in G
  <2> DEFINE x == v[n]
             p == Power[n]
             d == w[n + 1]
  <2>1. n \in Nat /\ n + 1 \in 1..WordBytes /\ n \in 0..WordBytes
    BY <1>0
  <2>2. x \in Nat /\ p \in Nat /\ x < p
    BY <1>2, <2>1, PowerNat DEF PrefixesAre
  <2>3. d \in Nat /\ d <= B - 1
    BY <2>1, WordDigits
  <2>4. v[n + 1] = x * B + d /\ Power[n + 1] = B * p
    BY <2>1, PowerSteps DEF PrefixesAre
  <2> HIDE DEF x, p, d, B
  <2>5. (x + 1) * B <= p * B
    BY <1>0, <2>2, TimesMore
  <2>6. (x + 1) * B = x * B + B /\ p * B = B * p /\ x * B \in Nat /\ B * p \in Nat
    BY <1>0, <2>2
  <2>7. x * B + d < B * p
    BY <1>0, <2>3, <2>5, <2>6
  <2> QED BY <2>1, <2>4, <2>7
<1>3. \A n \in 0..WordBytes : n \in G
  <2> HIDE DEF G
  <2> QED BY <1>1, <1>2, ByteInduction
<1> QED BY <1>3

LEMMA ValueNat == ASSUME NEW w \in Word PROVE Value(w) \in Nat /\ Value(w) < Power[WordBytes]
<1>1. PrefixesAre(w, DigitSums(w)) /\ Value(w) = DigitSums(w)[WordBytes]
  BY PrefixesOf
<1>2. WordBytes \in 0..WordBytes
  BY BytesAre
<1>3. DigitSums(w)[WordBytes] \in Nat
  BY <1>1, <1>2 DEF PrefixesAre
<1>4. DigitSums(w)[WordBytes] < Power[WordBytes]
  BY <1>1, <1>2, PrefixBound
<1> QED BY <1>1, <1>3, <1>4
-----------------------------------------------------------------------------
(* The loops of add and sub: what goes on to the next byte                 *)
AddCarries(a, b) ==
  CHOOSE carry : carry = [i \in 1..(WordBytes + 1) |->
    IF i > WordBytes THEN 0 ELSE (a[i] + b[i] + carry[i + 1]) \div ByteBase]

CarriesAre(a, b, carry) ==
  /\ carry \in [1..(WordBytes + 1) -> Nat] /\ carry[WordBytes + 1] = 0
  /\ \A i \in 1..WordBytes : carry[i] = (a[i] + b[i] + carry[i + 1]) \div ByteBase

SubBorrows(a, b) ==
  CHOOSE borrow : borrow = [i \in 1..(WordBytes + 1) |->
    IF i > WordBytes THEN 0 ELSE IF a[i] - b[i] - borrow[i + 1] < 0 THEN 1 ELSE 0]

BorrowsAre(a, b, borrow) ==
  /\ borrow \in [1..(WordBytes + 1) -> {0, 1}] /\ borrow[WordBytes + 1] = 0
  /\ \A i \in 1..WordBytes : borrow[i] = IF a[i] - b[i] - borrow[i + 1] < 0 THEN 1 ELSE 0

LEMMA CarriesOf ==
  ASSUME NEW a \in Word, NEW b \in Word
  PROVE  CarriesAre(a, b, AddCarries(a, b))
<1> DEFINE N == WordBytes
           B == ByteBase
           f == [n \in 1..N |-> [c \in Nat |-> (a[N + 1 - n] + b[N + 1 - n] + c) \div B]]
           Solves(x) == x = [i \in 1..(N + 1) |-> IF i > N THEN 0 ELSE (a[i] + b[i] + x[i + 1]) \div B]
<1>0. N \in Nat /\ B \in Nat \ {0}
  BY BytesAre
<1>1. \A i \in 1..N : a[i] \in Nat /\ b[i] \in Nat
  BY WordDigits
<1>2. f \in [1..N -> [Nat -> Nat]]
  <2>1. ASSUME NEW n \in 1..N, NEW c \in Nat PROVE (a[N + 1 - n] + b[N + 1 - n] + c) \div B \in Nat
    <3> DEFINE i == N + 1 - n
               s == a[i] + b[i] + c
    <3>1. i \in 1..N
      BY <1>0
    <3>2. s \in Nat
      BY <1>1, <3>1
    <3> HIDE DEF s
    <3>3. s \div B \in Nat
      BY <1>0, <3>2
    <3> QED BY <3>3 DEF s
  <2> QED BY <2>1
<1>3. HasIteration(N, Nat, f, 0)
  <2> HIDE DEF f, N
  <2> QED BY <1>0, <1>2, Iteration
<1>4. PICK g : Iterated(N, Nat, f, 0, g)
  BY ONLY <1>3 DEF HasIteration
<1>5. g \in [0..N -> Nat] /\ g[0] = 0 /\ \A n \in 1..N : g[n] = f[n][g[n - 1]]
  BY <1>4 DEF Iterated
<1> DEFINE h == [i \in 1..(N + 1) |-> g[N + 1 - i]]
<1>6. Solves(h)
  <2>1. ASSUME NEW i \in 1..(N + 1)
        PROVE  h[i] = IF i > N THEN 0 ELSE (a[i] + b[i] + h[i + 1]) \div B
    <3>1. CASE i = N + 1
      <4>1. N + 1 - i = 0 /\ i > N
        BY <1>0, <3>1
      <4> QED BY <1>5, <4>1
    <3>2. CASE i # N + 1
      <4> DEFINE n == N + 1 - i
      <4>1. n \in 1..N /\ n - 1 \in 0..N /\ N + 1 - n = i /\ N + 1 - (i + 1) = n - 1 /\ ~(i > N) /\ i + 1 \in 1..(N + 1)
        BY <1>0, <3>2
      <4>2. h[i] = g[n] /\ h[i + 1] = g[n - 1]
        BY <4>1
      <4> HIDE DEF n, h
      <4>3. g[n - 1] \in Nat /\ g[n] = f[n][g[n - 1]]
        BY <1>5, <4>1
      <4>4. g[n] = (a[i] + b[i] + g[n - 1]) \div B
        BY <4>1, <4>3
      <4> QED BY <4>1, <4>2, <4>4
    <3> QED BY <3>1, <3>2
  <2> QED BY <2>1
<1> DEFINE carry == AddCarries(a, b)
<1>7. Solves(carry)
  <2>1. carry = CHOOSE x : Solves(x)
    BY DEF AddCarries
  <2> HIDE DEF Solves, carry
  <2> QED BY <1>6, <2>1
<1> HIDE DEF carry
<1>8. \A i \in 1..(N + 1) : carry[i] = IF i > N THEN 0 ELSE (a[i] + b[i] + carry[i + 1]) \div B
  BY <1>7
<1>9. carry[N + 1] = 0
  BY <1>0, <1>8
<1>10. ASSUME NEW i \in 1..N PROVE carry[i] = (a[i] + b[i] + carry[i + 1]) \div B
  BY <1>0, <1>8
<1>11. \A n \in 0..N : carry[N + 1 - n] \in Nat
  <2> DEFINE G == {n \in Nat : carry[N + 1 - n] \in Nat}
  <2>1. 0 \in G
    BY <1>0, <1>9
  <2>2. ASSUME NEW n \in 0..(N - 1), n \in G PROVE n + 1 \in G
    <3> DEFINE i == N + 1 - (n + 1)
               s == a[i] + b[i] + carry[i + 1]
    <3>1. i \in 1..N /\ i + 1 = N + 1 - n /\ n + 1 \in Nat
      BY <1>0
    <3>2. s \in Nat
      BY <1>1, <2>2, <3>1
    <3>3. carry[i] = s \div B
      BY <1>10, <3>1
    <3> HIDE DEF s, i
    <3>4. carry[i] \in Nat
      BY <1>0, <3>2, <3>3
    <3> QED BY <3>1, <3>4 DEF i
  <2>3. \A n \in 0..N : n \in G
    <3> HIDE DEF G
    <3> QED BY <2>1, <2>2, ByteInduction
  <2> QED BY <2>3
<1>12. ASSUME NEW i \in 1..(N + 1) PROVE carry[i] \in Nat
  <2>1. N + 1 - i \in 0..N /\ N + 1 - (N + 1 - i) = i
    BY <1>0
  <2> QED BY <1>11, <2>1
<1>13. carry \in [1..(N + 1) -> Nat]
  BY <1>7, <1>12
<1>14. CarriesAre(a, b, carry)
  BY <1>9, <1>10, <1>13 DEF CarriesAre
<1> QED BY <1>14 DEF carry

LEMMA AddIs ==
  ASSUME NEW a \in Word, NEW b \in Word
  PROVE  Add(a, b) = [i \in 1..WordBytes |-> (a[i] + b[i] + AddCarries(a, b)[i + 1]) % ByteBase]
BY DEF Add, AddCarries

LEMMA BorrowsOf ==
  ASSUME NEW a \in Word, NEW b \in Word
  PROVE  BorrowsAre(a, b, SubBorrows(a, b))
<1> DEFINE N == WordBytes
           V == {0, 1}
           f == [n \in 1..N |-> [c \in V |-> IF a[N + 1 - n] - b[N + 1 - n] - c < 0 THEN 1 ELSE 0]]
           Solves(x) == x = [i \in 1..(N + 1) |->
                               IF i > N THEN 0 ELSE IF a[i] - b[i] - x[i + 1] < 0 THEN 1 ELSE 0]
<1>0. N \in Nat
  BY BytesAre
<1>2. f \in [1..N -> [V -> V]] /\ 0 \in V
  OBVIOUS
<1>3. HasIteration(N, V, f, 0)
  <2> HIDE DEF f, N, V
  <2> QED BY <1>0, <1>2, Iteration
<1>4. PICK g : Iterated(N, V, f, 0, g)
  BY ONLY <1>3 DEF HasIteration
<1>5. g \in [0..N -> V] /\ g[0] = 0 /\ \A n \in 1..N : g[n] = f[n][g[n - 1]]
  BY <1>4 DEF Iterated
<1> DEFINE h == [i \in 1..(N + 1) |-> g[N + 1 - i]]
<1>6. Solves(h)
  <2>1. ASSUME NEW i \in 1..(N + 1)
        PROVE  h[i] = IF i > N THEN 0 ELSE IF a[i] - b[i] - h[i + 1] < 0 THEN 1 ELSE 0
    <3>1. CASE i = N + 1
      <4>1. N + 1 - i = 0 /\ i > N
        BY <1>0, <3>1
      <4> QED BY <1>5, <4>1
    <3>2. CASE i # N + 1
      <4> DEFINE n == N + 1 - i
      <4>1. n \in 1..N /\ n - 1 \in 0..N /\ N + 1 - n = i /\ N + 1 - (i + 1) = n - 1 /\ ~(i > N) /\ i + 1 \in 1..(N + 1)
        BY <1>0, <3>2
      <4>2. h[i] = g[n] /\ h[i + 1] = g[n - 1]
        BY <4>1
      <4> HIDE DEF n, h
      <4>3. g[n - 1] \in V /\ g[n] = f[n][g[n - 1]]
        BY <1>5, <4>1
      <4>4. g[n] = IF a[i] - b[i] - g[n - 1] < 0 THEN 1 ELSE 0
        BY <4>1, <4>3
      <4> QED BY <4>1, <4>2, <4>4
    <3> QED BY <3>1, <3>2
  <2> QED BY <2>1
<1> DEFINE borrow == SubBorrows(a, b)
<1>7. Solves(borrow)
  <2>1. borrow = CHOOSE x : Solves(x)
    BY DEF SubBorrows
  <2> HIDE DEF Solves, borrow
  <2> QED BY <1>6, <2>1
<1> HIDE DEF borrow
<1>8. \A i \in 1..(N + 1) :
        borrow[i] = IF i > N THEN 0 ELSE IF a[i] - b[i] - borrow[i + 1] < 0 THEN 1 ELSE 0
  BY <1>7
<1>9. borrow[N + 1] = 0
  BY <1>0, <1>8
<1>10. ASSUME NEW i \in 1..N PROVE borrow[i] = IF a[i] - b[i] - borrow[i + 1] < 0 THEN 1 ELSE 0
  BY <1>0, <1>8
<1>11. \A i \in 1..(N + 1) : borrow[i] \in V
  BY <1>8
<1>12. borrow \in [1..(N + 1) -> V]
  BY <1>7, <1>11
<1>13. BorrowsAre(a, b, borrow)
  BY <1>9, <1>10, <1>12 DEF BorrowsAre
<1> QED BY <1>13 DEF borrow

LEMMA SubIs ==
  ASSUME NEW a \in Word, NEW b \in Word
  PROVE  LET diff(i) == a[i] - b[i] - SubBorrows(a, b)[i + 1]
         IN  Sub(a, b) = [i \in 1..WordBytes |-> IF diff(i) < 0 THEN diff(i) + ByteBase ELSE diff(i)]
BY DEF Sub, SubBorrows

(* Byte by byte, a sum and its two terms differ by what is carried.        *)
LEMMA AddDigit ==
  ASSUME NEW a \in Word, NEW b \in Word, NEW i \in 1..WordBytes
  PROVE  LET c == AddCarries(a, b)
             r == Add(a, b)
         IN  /\ r[i] \in Byte /\ c[i] \in Nat /\ c[i + 1] \in Nat
             /\ a[i] + b[i] + c[i + 1] = ByteBase * c[i] + r[i]
<1> DEFINE c == AddCarries(a, b)
           s == a[i] + b[i] + c[i + 1]
<1>0. ByteBase \in Nat \ {0} /\ WordBytes \in Nat
  BY BytesAre
<1>1. c \in [1..(WordBytes + 1) -> Nat] /\ c[i] = s \div ByteBase
  BY CarriesOf DEF CarriesAre
<1>2. i \in 1..(WordBytes + 1) /\ i + 1 \in 1..(WordBytes + 1)
  BY <1>0
<1>3. c[i] \in Nat /\ c[i + 1] \in Nat
  BY <1>1, <1>2
<1>4. s \in Nat
  BY <1>3, WordDigits
<1>5. Add(a, b)[i] = s % ByteBase
  BY AddIs
<1> HIDE DEF c, s
<1>6. s = ByteBase * (s \div ByteBase) + (s % ByteBase) /\ s % ByteBase \in 0..(ByteBase - 1)
  BY <1>0, <1>4, DivMod
<1>7. Add(a, b)[i] \in Byte /\ s = ByteBase * c[i] + Add(a, b)[i]
  BY <1>1, <1>5, <1>6 DEF Byte
<1> QED BY <1>3, <1>7 DEF c, s

LEMMA SubDigit ==
  ASSUME NEW a \in Word, NEW b \in Word, NEW i \in 1..WordBytes
  PROVE  LET c == SubBorrows(a, b)
             r == Sub(a, b)
         IN  /\ r[i] \in Byte /\ c[i] \in {0, 1} /\ c[i + 1] \in {0, 1}
             /\ a[i] + ByteBase * c[i] = b[i] + c[i + 1] + r[i]
<1> DEFINE c == SubBorrows(a, b)
           B == ByteBase
           x == a[i]
           y == b[i]
           d == x - y - c[i + 1]
           r == Sub(a, b)[i]
<1>0. B \in Nat /\ B >= 2 /\ WordBytes \in Nat
  BY BytesAre
<1>1. c \in [1..(WordBytes + 1) -> {0, 1}] /\ c[i] = IF d < 0 THEN 1 ELSE 0
  BY BorrowsOf DEF BorrowsAre
<1>2. i \in 1..(WordBytes + 1) /\ i + 1 \in 1..(WordBytes + 1)
  BY <1>0
<1>3. c[i] \in {0, 1} /\ c[i + 1] \in {0, 1}
  BY <1>1, <1>2
<1>4. x \in Nat /\ x <= B - 1 /\ y \in Nat /\ y <= B - 1
  BY WordDigits
<1>5. r = IF d < 0 THEN d + B ELSE d
  BY SubIs
<1> DEFINE z == c[i + 1]
           k == c[i]
<1>6. z \in {0, 1} /\ k = IF x - y - z < 0 THEN 1 ELSE 0
  BY <1>1, <1>3
<1>7. r = IF x - y - z < 0 THEN x - y - z + B ELSE x - y - z
  BY <1>5
<1> HIDE DEF x, y, z, k, r, B
<1>8. r \in 0..(B - 1) /\ x + B * k = y + z + r
  <2>1. CASE x - y - z < 0
    <3>1. B * k = B
      BY <1>0, <1>6, <2>1
    <3> QED BY <1>0, <1>4, <1>6, <1>7, <2>1, <3>1
  <2>2. CASE ~(x - y - z < 0)
    <3>1. B * k = 0
      BY <1>0, <1>6, <2>2
    <3> QED BY <1>0, <1>4, <1>6, <1>7, <2>2, <3>1
  <2> QED BY <2>1, <2>2
<1> QED BY <1>3, <1>8 DEF x, y, z, k, r, B, Byte

LEMMA AddType == ASSUME NEW a \in Word, NEW b \in Word PROVE Add(a, b) \in Word
<1>1. \A i \in 1..WordBytes : Add(a, b)[i] \in Byte
  BY AddDigit
<1>2. DOMAIN Add(a, b) = 1..WordBytes /\ Add(a, b) = [i \in 1..WordBytes |-> Add(a, b)[i]]
  BY AddIs
<1> QED BY <1>1, <1>2 DEF Word

LEMMA SubType == ASSUME NEW a \in Word, NEW b \in Word PROVE Sub(a, b) \in Word
<1>1. \A i \in 1..WordBytes : Sub(a, b)[i] \in Byte
  BY SubDigit
<1>2. Sub(a, b) = [i \in 1..WordBytes |-> Sub(a, b)[i]]
  BY SubIs
<1> QED BY <1>1, <1>2 DEF Word

LEMMA AddValue ==
  ASSUME NEW a \in Word, NEW b \in Word
  PROVE  Value(Add(a, b)) = (Value(a) + Value(b)) % Power[WordBytes]
<1> DEFINE r == Add(a, b)
           B == ByteBase
           c == AddCarries(a, b)
           u == DigitSums(a)
           v == DigitSums(b)
           w == DigitSums(r)
           k == c[1]
           G == {n \in Nat : u[n] + v[n] + c[n + 1] = w[n] + Power[n] * k}
<1>0. r \in Word /\ B \in Nat /\ WordBytes \in Nat /\ WordBytes >= 1
  BY AddType, BytesAre
<1>1. PrefixesAre(a, u) /\ PrefixesAre(b, v) /\ PrefixesAre(r, w)
  BY <1>0, PrefixesOf
<1>2. Value(a) = u[WordBytes] /\ Value(b) = v[WordBytes] /\ Value(r) = w[WordBytes]
  BY <1>0, PrefixesOf
<1>3. CarriesAre(a, b, c)
  BY CarriesOf
<1> HIDE DEF r, u, v, w, c
<1>4. k \in Nat
  BY <1>0, <1>3 DEF CarriesAre
<1>5. 0 \in G
  <2>1. u[0] = 0 /\ v[0] = 0 /\ w[0] = 0 /\ Power[0] = 1
    BY <1>1, PowerSteps DEF PrefixesAre
  <2> QED BY <1>4, <2>1
<1>6. ASSUME NEW n \in 0..(WordBytes - 1), n \in G PROVE n + 1 \in G
  <2> DEFINE i == n + 1
             p == Power[n]
             un == u[n]
             vn == v[n]
             wn == w[n]
             cn == c[n + 1]
             cm == c[i + 1]
             x == a[i]
             y == b[i]
             z == r[i]
  <2>1. i \in 1..WordBytes /\ n \in 0..WordBytes /\ n \in Nat /\ i \in Nat
    BY <1>0
  <2>2. u[i] = un * B + x /\ v[i] = vn * B + y /\ w[i] = wn * B + z /\ Power[i] = B * p
    BY <1>1, <2>1, PowerSteps DEF PrefixesAre
  <2>3. un \in Nat /\ vn \in Nat /\ wn \in Nat /\ p \in Nat
    BY <1>1, <2>1, PowerNat DEF PrefixesAre
  <2>4. x \in Nat /\ y \in Nat /\ z \in Nat
    BY <1>0, <2>1, WordDigits
  <2>5. cn \in Nat /\ cm \in Nat /\ x + y + cm = B * cn + z
    BY <2>1, AddDigit DEF c, r
  <2>6. un + vn + cn = wn + p * k
    BY <1>6
  <2>7. u[i] + v[i] + cm = w[i] + Power[i] * k
    <3> HIDE DEF i, un, vn, wn, p, cn, cm, x, y, z, k, B
    <3>1. (un * B + x) + (vn * B + y) + cm = (un + vn + cn) * B + z
      BY <1>0, <2>3, <2>4, <2>5
    <3>2. (wn + p * k) * B + z = (wn * B + z) + (B * p) * k
      BY <1>0, <1>4, <2>3, <2>4
    <3> QED BY <2>2, <2>6, <3>1, <3>2
  <2> QED BY <2>1, <2>7
<1>7. WordBytes \in G
  <2>1. \A n \in 0..WordBytes : n \in G
    <3> HIDE DEF G
    <3> QED BY <1>5, <1>6, ByteInduction
  <2> QED BY <1>0, <2>1
<1> DEFINE P == Power[WordBytes]
           s == Value(a) + Value(b)
           t == Value(r)
<1>8. s = t + P * k
  <2>1. c[WordBytes + 1] = 0 /\ Value(a) + Value(b) \in Nat
    BY <1>3, ValueNat DEF CarriesAre
  <2>2. u[WordBytes] + v[WordBytes] + 0 = w[WordBytes] + P * k
    BY <1>7, <2>1
  <2> QED BY <1>2, <2>1, <2>2
<1>9. P \in Nat \ {0} /\ t \in 0..(P - 1) /\ s \in Nat
  BY <1>0, PowerNat, ValueNat
<1> HIDE DEF P, s, t, k
<1>10. s % P = t
  BY <1>4, <1>8, <1>9, RemainderUnique
<1> QED BY <1>10 DEF P, s, t, r

LEMMA SubValue ==
  ASSUME NEW a \in Word, NEW b \in Word
  PROVE  (Value(Sub(a, b)) + Value(b)) % Power[WordBytes] = Value(a)
<1> DEFINE r == Sub(a, b)
           B == ByteBase
           c == SubBorrows(a, b)
           u == DigitSums(a)
           v == DigitSums(b)
           w == DigitSums(r)
           k == c[1]
           G == {n \in Nat : u[n] + Power[n] * k = v[n] + c[n + 1] + w[n]}
<1>0. r \in Word /\ B \in Nat /\ WordBytes \in Nat /\ WordBytes >= 1
  BY SubType, BytesAre
<1>1. PrefixesAre(a, u) /\ PrefixesAre(b, v) /\ PrefixesAre(r, w)
  BY <1>0, PrefixesOf
<1>2. Value(a) = u[WordBytes] /\ Value(b) = v[WordBytes] /\ Value(r) = w[WordBytes]
  BY <1>0, PrefixesOf
<1>3. BorrowsAre(a, b, c)
  BY BorrowsOf
<1> HIDE DEF r, u, v, w, c
<1>4. k \in Nat
  BY <1>0, <1>3 DEF BorrowsAre
<1>5. 0 \in G
  <2>1. u[0] = 0 /\ v[0] = 0 /\ w[0] = 0 /\ Power[0] = 1
    BY <1>1, PowerSteps DEF PrefixesAre
  <2> QED BY <1>4, <2>1
<1>6. ASSUME NEW n \in 0..(WordBytes - 1), n \in G PROVE n + 1 \in G
  <2> DEFINE i == n + 1
             p == Power[n]
             un == u[n]
             vn == v[n]
             wn == w[n]
             cn == c[n + 1]
             cm == c[i + 1]
             x == a[i]
             y == b[i]
             z == r[i]
  <2>1. i \in 1..WordBytes /\ n \in 0..WordBytes /\ n \in Nat /\ i \in Nat
    BY <1>0
  <2>2. u[i] = un * B + x /\ v[i] = vn * B + y /\ w[i] = wn * B + z /\ Power[i] = B * p
    BY <1>1, <2>1, PowerSteps DEF PrefixesAre
  <2>3. un \in Nat /\ vn \in Nat /\ wn \in Nat /\ p \in Nat
    BY <1>1, <2>1, PowerNat DEF PrefixesAre
  <2>4. x \in Nat /\ y \in Nat /\ z \in Nat
    BY <1>0, <2>1, WordDigits
  <2>5. cn \in Nat /\ cm \in Nat /\ x + B * cn = y + cm + z
    BY <2>1, SubDigit DEF c, r
  <2>6. un + p * k = vn + cn + wn
    BY <1>6
  <2>7. u[i] + Power[i] * k = v[i] + cm + w[i]
    <3> HIDE DEF i, un, vn, wn, p, cn, cm, x, y, z, k, B
    <3>1. (un * B + x) + (B * p) * k = (un + p * k) * B + x
      BY <1>0, <1>4, <2>3, <2>4
    <3>2. (vn + cn + wn) * B + x = (vn * B + y) + cm + (wn * B + z)
      BY <1>0, <2>3, <2>4, <2>5
    <3> QED BY <2>2, <2>6, <3>1, <3>2
  <2> QED BY <2>1, <2>7
<1>7. WordBytes \in G
  <2>1. \A n \in 0..WordBytes : n \in G
    <3> HIDE DEF G
    <3> QED BY <1>5, <1>6, ByteInduction
  <2> QED BY <1>0, <2>1
<1> DEFINE P == Power[WordBytes]
           s == Value(r) + Value(b)
           t == Value(a)
<1>8. s = t + P * k
  <2>1. c[WordBytes + 1] = 0 /\ Value(a) \in Nat /\ Value(b) \in Nat /\ Value(r) \in Nat
    BY <1>0, <1>3, ValueNat DEF BorrowsAre
  <2>2. u[WordBytes] + P * k = v[WordBytes] + 0 + w[WordBytes]
    BY <1>7, <2>1
  <2> QED BY <1>2, <2>1, <2>2
<1>9. P \in Nat \ {0} /\ t \in 0..(P - 1) /\ s \in Nat
  BY <1>0, PowerNat, ValueNat
<1> HIDE DEF P, s, t, k
<1>10. s % P = t
  BY <1>4, <1>8, <1>9, RemainderUnique
<1> QED BY <1>10 DEF P, s, t, r
-----------------------------------------------------------------------------
(* The order of words is the order of numbers.                             *)
LEMMA LessValue ==
  ASSUME NEW a \in Word, NEW b \in Word, Less(a, b)
  PROVE  Value(a) < Value(b)
<1> DEFINE B == ByteBase
           u == DigitSums(a)
           v == DigitSums(b)
<1>0. B \in Nat /\ B >= 2 /\ WordBytes \in Nat /\ WordBytes >= 1
  BY BytesAre
<1>1. PrefixesAre(a, u) /\ PrefixesAre(b, v)
  BY PrefixesOf
<1>2. Value(a) = u[WordBytes] /\ Value(b) = v[WordBytes]
  BY PrefixesOf
<1>3. PICK k \in 1..WordBytes : a[k] < b[k] /\ \A j \in 1..(k - 1) : a[j] = b[j]
  BY DEF Less
<1> HIDE DEF u, v
<1> DEFINE G == {n \in Nat : (n < k => u[n] = v[n]) /\ (n >= k => u[n] < v[n])}
<1>4. 0 \in G
  BY <1>1 DEF PrefixesAre
<1>5. ASSUME NEW n \in 0..(WordBytes - 1), n \in G PROVE n + 1 \in G
  <2> DEFINE i == n + 1
             un == u[n]
             vn == v[n]
             x == a[i]
             y == b[i]
  <2>1. i \in 1..WordBytes /\ n \in 0..WordBytes /\ n \in Nat /\ i \in Nat
    BY <1>0
  <2>2. u[i] = un * B + x /\ v[i] = vn * B + y
    BY <1>1, <2>1 DEF PrefixesAre
  <2>3. un \in Nat /\ vn \in Nat
    BY <1>1, <2>1 DEF PrefixesAre
  <2>4. x \in Nat /\ y \in Nat /\ x <= B - 1
    BY <2>1, WordDigits
  <2>5. un * B \in Nat /\ vn * B \in Nat
    BY <1>0, <2>3
  <2>6. CASE i < k
    <3>1. x = y /\ un = vn
      BY <1>3, <1>5, <2>1, <2>6
    <3>2. u[i] = v[i]
      BY <2>2, <3>1
    <3> QED BY <2>1, <2>6, <3>2
  <2>7. CASE i = k
    <3>1. x < y /\ un = vn
      BY <1>3, <1>5, <2>1, <2>7
    <3> HIDE DEF x, y, un, vn, i, B
    <3>2. un * B + x < vn * B + y
      BY <2>4, <2>5, <3>1
    <3> QED BY <2>1, <2>2, <2>7, <3>2 DEF i
  <2>8. CASE i > k
    <3>1. un < vn
      BY <1>5, <2>1, <2>8
    <3> HIDE DEF x, y, un, vn, i, B
    <3>2. (un + 1) * B <= vn * B /\ (un + 1) * B = un * B + B
      BY <1>0, <2>3, <3>1, TimesMore
    <3>3. un * B + x < vn * B + y
      BY <1>0, <2>4, <2>5, <3>2
    <3> QED BY <2>1, <2>2, <2>8, <3>3 DEF i
  <2> QED BY <2>1, <2>6, <2>7, <2>8
<1>6. WordBytes \in G
  <2>1. \A n \in 0..WordBytes : n \in G
    <3> HIDE DEF G
    <3> QED BY <1>4, <1>5, ByteInduction
  <2> QED BY <1>0, <2>1
<1> QED BY <1>0, <1>2, <1>3, <1>6

LEMMA LessTotal ==
  ASSUME NEW a \in Word, NEW b \in Word, a # b
  PROVE  Less(a, b) \/ Less(b, a)
<1> DEFINE D == {i \in 1..WordBytes : a[i] # b[i]}
<1>1. D # {} /\ D \in SUBSET Nat
  <2>1. WordBytes \in Nat
    BY BytesAre
  <2>2. a = [i \in 1..WordBytes |-> a[i]] /\ b = [i \in 1..WordBytes |-> b[i]]
    BY DEF Word
  <2>3. ASSUME \A i \in 1..WordBytes : a[i] = b[i] PROVE FALSE
    <3>1. [i \in 1..WordBytes |-> a[i]] = [i \in 1..WordBytes |-> b[i]]
      BY <2>3
    <3> QED BY <3>1, <2>2
  <2> QED BY <2>1, <2>3
<1>2. PICK k \in D : \A m \in D : k <= m
  <2> HIDE DEF D
  <2> QED BY <1>1, LeastNat
<1>3. k \in 1..WordBytes /\ a[k] # b[k] /\ \A j \in 1..(k - 1) : a[j] = b[j]
  BY <1>2, BytesAre
<1>4. a[k] \in Nat /\ b[k] \in Nat
  BY <1>3, WordDigits
<1>5. a[k] < b[k] \/ b[k] < a[k]
  BY <1>3, <1>4
<1> HIDE DEF D
<1> QED BY <1>3, <1>5 DEF Less

LEMMA OrderExact ==
  ASSUME NEW a \in Word, NEW b \in Word
  PROVE  /\ Less(a, b) <=> Value(a) < Value(b)
         /\ (a # b /\ ~Less(a, b)) <=> Value(a) > Value(b)
         /\ a = b <=> Value(a) = Value(b)
<1>1. Value(a) \in Nat /\ Value(b) \in Nat
  BY ValueNat
<1>2. Less(a, b) => Value(a) < Value(b)
  BY LessValue
<1>3. Less(b, a) => Value(b) < Value(a)
  BY LessValue
<1>4. a # b => Less(a, b) \/ Less(b, a)
  BY LessTotal
<1>5. a = b => Value(a) = Value(b)
  OBVIOUS
<1> QED BY <1>1, <1>2, <1>3, <1>4, <1>5

LEMMA ZeroWord == Zero \in Word /\ \A n \in 1..WordBytes : Zero[n] = 0
BY BytesAre DEF Zero, Word, Byte

LEMMA TruthIs ==
  ASSUME NEW t \in Word, \A n \in 1..(WordBytes - 1) : t[n] = 0
  PROVE  Value(t) = t[WordBytes]
<1> DEFINE v == DigitSums(t)
           B == ByteBase
           m == WordBytes - 1
<1>0. B \in Nat /\ WordBytes \in Nat /\ m \in Nat /\ m + 1 = WordBytes
  BY BytesAre
<1>1. PrefixesAre(t, v) /\ Value(t) = v[WordBytes]
  BY PrefixesOf
<1> HIDE DEF v
<1> DEFINE G == {n \in Nat : n < WordBytes => v[n] = 0}
<1>2. 0 \in G
  BY <1>1 DEF PrefixesAre
<1>3. ASSUME NEW n \in 0..(WordBytes - 1), n \in G PROVE n + 1 \in G
  <2> SUFFICES ASSUME n + 1 < WordBytes PROVE v[n + 1] = 0
    BY <1>0
  <2>1. v[n] = 0 /\ t[n + 1] = 0
    BY <1>0, <1>3
  <2>2. v[n + 1] = v[n] * B + t[n + 1]
    BY <1>1 DEF PrefixesAre
  <2> QED BY <1>0, <2>1, <2>2
<1>4. \A n \in 0..WordBytes : n \in G
  <2> HIDE DEF G
  <2> QED BY <1>2, <1>3, ByteInduction
<1>5. v[m] = 0
  BY <1>0, <1>4
<1>6. v[m + 1] = v[m] * B + t[m + 1]
  BY <1>0, <1>1 DEF PrefixesAre
<1>7. t[WordBytes] \in Nat
  BY <1>0, WordDigits
<1> QED BY <1>0, <1>1, <1>5, <1>6, <1>7

LEMMA TruthValue ==
  ASSUME NEW b \in BOOLEAN
  PROVE  Truth(b) \in Word /\ (Value(Truth(b)) = 1) = b
<1> DEFINE e == IF b THEN 1 ELSE 0
           t == [Zero EXCEPT ![WordBytes] = e]
<1>0. WordBytes \in Nat /\ WordBytes >= 1 /\ ByteBase \in Nat /\ ByteBase >= 2
  BY BytesAre
<1>1. e \in Byte /\ e \in {0, 1} /\ (e = 1 <=> b)
  BY <1>0 DEF Byte
<1> HIDE DEF e
<1>2. t \in Word /\ t[WordBytes] = e /\ \A n \in 1..(WordBytes - 1) : t[n] = 0
  BY <1>0, <1>1, ZeroWord DEF Word
<1> HIDE DEF t
<1>3. Value(t) = e
  BY <1>2, TruthIs
<1>4. Truth(b) = t
  BY DEF Truth, t, e
<1> QED BY <1>1, <1>2, <1>3, <1>4

LEMMA ZeroValue == Value(Zero) = 0
<1>1. Zero[WordBytes] = 0 /\ \A n \in 1..(WordBytes - 1) : Zero[n] = 0
  BY ZeroWord, BytesAre
<1> QED BY <1>1, ZeroWord, TruthIs

(* The bytes of a word that do not fit into 64 bits                        *)
Skipped == WordBytes - LowBytes

LowPrefixes(w) ==
  CHOOSE v : v = [n \in 0..LowBytes |-> IF n = 0 THEN 0 ELSE v[n - 1] * ByteBase + w[Skipped + n]]

LowPrefixesAre(w, v) ==
  /\ v \in [0..LowBytes -> Nat] /\ v[0] = 0
  /\ \A n \in 0..(LowBytes - 1) : v[n + 1] = v[n] * ByteBase + w[Skipped + (n + 1)]

LEMMA LowPrefixesOf ==
  ASSUME NEW w \in Word
  PROVE  LowPrefixesAre(w, LowPrefixes(w)) /\ Low(w) = LowPrefixes(w)[LowBytes]
<1> DEFINE N == LowBytes
           f == [n \in 1..N |-> [v \in Nat |-> v * ByteBase + w[Skipped + n]]]
           Solves(v) == v = [n \in 0..N |-> IF n = 0 THEN 0 ELSE v[n - 1] * ByteBase + w[Skipped + n]]
<1>0. N \in Nat /\ ByteBase \in Nat
  BY BytesAre
<1>1. \A n \in 1..N : w[Skipped + n] \in Nat
  <2>1. \A n \in 1..N : Skipped + n \in 1..WordBytes
    BY BytesAre DEF Skipped
  <2> QED BY <2>1, WordDigits
<1>2. f \in [1..N -> [Nat -> Nat]]
  <2>1. \A n \in 1..N, v \in Nat : v * ByteBase + w[Skipped + n] \in Nat
    BY <1>0, <1>1
  <2> QED BY <2>1
<1>3. HasIteration(N, Nat, f, 0)
  <2> HIDE DEF f, N
  <2> QED BY <1>0, <1>2, Iteration
<1>4. PICK g : Iterated(N, Nat, f, 0, g)
  BY ONLY <1>3 DEF HasIteration
<1>5. g \in [0..N -> Nat] /\ g[0] = 0 /\ \A n \in 1..N : g[n] = f[n][g[n - 1]]
  BY <1>4 DEF Iterated
<1>6. Solves(g)
  <2>1. ASSUME NEW n \in 0..N PROVE g[n] = IF n = 0 THEN 0 ELSE g[n - 1] * ByteBase + w[Skipped + n]
    <3>1. CASE n = 0
      BY <1>5, <3>1
    <3>2. CASE n # 0
      <4>1. n \in 1..N /\ n - 1 \in 0..N
        BY <1>0, <3>2
      <4>2. g[n - 1] \in Nat /\ g[n] = f[n][g[n - 1]]
        BY <1>5, <4>1
      <4> QED BY <3>2, <4>1, <4>2
    <3> QED BY <3>1, <3>2
  <2> QED BY <1>5, <2>1
<1> DEFINE v == LowPrefixes(w)
<1>7. Solves(v)
  <2>1. v = CHOOSE x : Solves(x)
    BY DEF LowPrefixes
  <2> HIDE DEF Solves, v
  <2> QED BY <1>6, <2>1
<1> HIDE DEF v
<1>8. \A n \in 0..N : v[n] = IF n = 0 THEN 0 ELSE v[n - 1] * ByteBase + w[Skipped + n]
  BY <1>7
<1>9. ASSUME NEW n \in 0..(N - 1) PROVE v[n + 1] = v[n] * ByteBase + w[Skipped + (n + 1)]
  <2>1. n + 1 \in 0..N /\ n + 1 # 0 /\ (n + 1) - 1 = n
    BY <1>0
  <2> QED BY <1>8, <2>1
<1>10. v[0] = 0
  BY <1>0, <1>8
<1>11. ASSUME NEW n \in 0..N PROVE v[n] \in Nat
  <2> DEFINE G == {m \in Nat : m <= N => v[m] \in Nat}
  <2>1. 0 \in G
    BY <1>10
  <2>2. ASSUME NEW m \in Nat, m \in G PROVE m + 1 \in G
    <3> SUFFICES ASSUME m + 1 <= N PROVE v[m + 1] \in Nat
      OBVIOUS
    <3>1. v[m] \in Nat /\ m \in 0..(N - 1) /\ m + 1 \in 1..N
      BY <1>0, <2>2
    <3>2. w[Skipped + (m + 1)] \in Nat
      BY <1>1, <3>1
    <3>3. v[m + 1] = v[m] * ByteBase + w[Skipped + (m + 1)]
      BY <1>9, <3>1
    <3> QED BY <1>0, <3>1, <3>2, <3>3
  <2>3. n \in G
    <3> HIDE DEF G
    <3> QED BY <2>1, <2>2, NatSetInduction
  <2> QED BY <2>3
<1>12. v \in [0..N -> Nat]
  BY <1>7, <1>11
<1>13. LowPrefixesAre(w, v)
  BY <1>9, <1>10, <1>12 DEF LowPrefixesAre
<1>14. Low(w) = v[LowBytes]
  BY DEF Low, v, LowPrefixes, Skipped
<1> QED BY <1>13, <1>14 DEF v


LEMMA LowNat == ASSUME NEW w \in Word PROVE Low(w) \in Nat
<1>1. LowPrefixesAre(w, LowPrefixes(w)) /\ Low(w) = LowPrefixes(w)[LowBytes]
  BY LowPrefixesOf
<1>2. LowBytes \in 0..LowBytes
  BY BytesAre
<1> QED BY <1>1, <1>2 DEF LowPrefixesAre

(* The upper and the lower bytes together are the number.                  *)
LEMMA LowPart ==
  ASSUME NEW w \in Word
  PROVE  \E h \in Nat : Value(w) = h * Power[LowBytes] + Low(w)
<1> DEFINE v == DigitSums(w)
           u == LowPrefixes(w)
           B == ByteBase
           K == Skipped
           h == v[K]
           G == {j \in Nat : j <= LowBytes => v[K + j] = h * Power[j] + u[j]}
<1>0. B \in Nat /\ K \in Nat /\ LowBytes \in Nat /\ WordBytes \in Nat /\ K + LowBytes = WordBytes
  BY BytesAre DEF Skipped
<1>1. PrefixesAre(w, v) /\ LowPrefixesAre(w, u)
  BY PrefixesOf, LowPrefixesOf
<1>2. Value(w) = v[WordBytes] /\ Low(w) = u[LowBytes]
  BY PrefixesOf, LowPrefixesOf
<1> HIDE DEF v, u, K, B
<1>3. h \in Nat
  BY <1>0, <1>1 DEF PrefixesAre
<1>4. 0 \in G
  <2>1. u[0] = 0 /\ Power[0] = 1 /\ K + 0 = K
    BY <1>0, <1>1, PowerSteps DEF LowPrefixesAre
  <2> QED BY <1>3, <2>1
<1>5. ASSUME NEW j \in Nat, j \in G PROVE j + 1 \in G
  <2> SUFFICES ASSUME j + 1 <= LowBytes PROVE v[K + (j + 1)] = h * Power[j + 1] + u[j + 1]
    OBVIOUS
  <2> DEFINE p == Power[j]
             x == u[j]
             y == v[K + j]
             d == w[K + (j + 1)]
  <2>1. K + j \in 0..(WordBytes - 1) /\ (K + j) + 1 = K + (j + 1) /\ j \in 0..(LowBytes - 1)
    BY <1>0
  <2>2. v[K + (j + 1)] = y * B + d
    BY <1>1, <2>1 DEF PrefixesAre, B
  <2>3. u[j + 1] = x * B + d
    BY <1>1, <2>1 DEF LowPrefixesAre, B, K
  <2>4. Power[j + 1] = B * p /\ p \in Nat
    BY PowerSteps, PowerNat DEF B
  <2>5. y = h * p + x
    BY <1>0, <1>5, <2>1
  <2>6. x \in Nat
    BY <1>0, <1>1, <2>1 DEF LowPrefixesAre
  <2>7. d \in Nat
    <3>1. K + (j + 1) \in 1..WordBytes
      BY <1>0, <2>1
    <3> QED BY <3>1, WordDigits
  <2> HIDE DEF p, x, y, d, h
  <2>8. (h * p + x) * B + d = h * (B * p) + (x * B + d)
    BY <1>0, <1>3, <2>4, <2>6, <2>7
  <2> QED BY <2>2, <2>3, <2>4, <2>5, <2>8
<1>6. LowBytes \in G
  <2> HIDE DEF G
  <2> QED BY <1>0, <1>4, <1>5, NatSetInduction
<1>7. Value(w) = h * Power[LowBytes] + Low(w)
  BY <1>0, <1>2, <1>6
<1> QED BY <1>3, <1>7

LEMMA LowExact ==
  ASSUME NEW w \in Word, Value(w) < Power[LowBytes]
  PROVE  Low(w) = Value(w)
<1> DEFINE P == Power[LowBytes]
           x == Low(w)
           y == Value(w)
<1>1. PICK h \in Nat : y = h * P + x
  BY LowPart
<1>2. P \in Nat /\ P >= 1 /\ x \in Nat /\ y \in Nat /\ y < P
  BY BytesAre, PowerNat, LowNat, ValueNat
<1> HIDE DEF P, x, y
<1>3. h = 0
  <2> SUFFICES ASSUME h >= 1 PROVE FALSE
    BY <1>1
  <2>1. 1 * P <= h * P
    BY <1>2, TimesMore
  <2>2. h * P \in Nat
    BY <1>2, TimesNat
  <2> QED BY <1>1, <1>2, <2>1, <2>2
<1>4. x = y
  BY <1>1, <1>2, <1>3
<1> QED BY <1>4 DEF x, y

LEMMA QuotientUnique ==
  ASSUME NEW M \in Nat \ {0}, NEW a \in Nat, NEW q \in Nat, NEW r \in 0..(M - 1), a = M * q + r
  PROVE  a \div M = q /\ a % M = r
<1>1. a = M * (a \div M) + (a % M) /\ a % M \in 0..M-1 /\ a \div M \in Int
  BY DivMod, SMTT(40)
<1> DEFINE x == a \div M
           y == a % M
<1>2. x \in Int /\ y \in 0..(M - 1) /\ M * x + y = M * q + r
  BY <1>1
<1> HIDE DEF x, y
<1>3. y = r
  BY <1>2, RemainderUnique
<1>4. M * (x - q) = 0
  BY <1>2, <1>3, Distribute
<1>5. x = q
  BY <1>2, <1>4
<1> QED BY <1>3, <1>5 DEF x, y

LEMMA DivNat ==
  ASSUME NEW a \in Nat, NEW M \in Nat \ {0}
  PROVE  a \div M \in Nat /\ a % M \in Nat /\ a \div M <= a /\ a % M <= a /\ a % M < M
         /\ a = M * (a \div M) + (a % M)
<1> DEFINE x == a \div M
           y == a % M
<1>1. a = M * x + y /\ y \in 0..M-1 /\ x \in Int
  BY DivMod
<1> HIDE DEF x, y
<1>2. x \in Nat
  <2> SUFFICES ASSUME x <= -1 PROVE FALSE
    BY <1>1
  <2>1. M * x <= M * (-1)
    BY <1>1
  <2> QED BY <1>1, <2>1
<1>3. 1 * x <= M * x
  BY <1>2, TimesMore
<1>4. M * x \in Nat
  BY <1>2, TimesNat
<1>5. x <= a /\ y <= a
  BY <1>1, <1>2, <1>3, <1>4
<1> QED BY <1>1, <1>2, <1>5 DEF x, y

(* Dividing twice is dividing by the product.                              *)
LEMMA DivTwice ==
  ASSUME NEW n \in Nat, NEW P \in Nat \ {0}, NEW B \in Nat \ {0}
  PROVE  (n \div P) \div B = n \div (B * P)
<1> DEFINE q == n \div P
           r == n % P
           s == q \div B
           t == q % B
           e == P * t + r
           M == B * P
<1>1. q \in Nat /\ r \in Nat /\ r < P /\ n = P * q + r
  BY DivNat
<1> HIDE DEF q, r
<1>2. s \in Nat /\ t \in Nat /\ t < B /\ q = B * s + t
  BY <1>1, DivNat
<1> HIDE DEF s, t
<1>3. M \in Nat \ {0}
  <2>1. B \in Nat /\ P \in Nat /\ B >= 1 /\ P >= 1
    OBVIOUS
  <2>2. M \in Nat /\ M >= 1
    BY <2>1, TimesPositive
  <2> QED BY <2>2
<1>4. e \in 0..(M - 1)
  <2>1. t + 1 <= B /\ t + 1 \in Nat /\ P \in Nat /\ B \in Nat
    BY <1>2
  <2>2. P * (t + 1) <= P * B
    BY <2>1, TimesMore
  <2>3. P * (t + 1) = P * t + P /\ P * B = M
    BY <1>2, <2>1
  <2>4. P * t \in Nat
    BY <1>2, <2>1, TimesNat
  <2> QED BY <1>1, <1>3, <2>1, <2>2, <2>3, <2>4
<1>5. n = M * s + e
  BY <1>1, <1>2
<1> HIDE DEF M, e
<1>6. n \div M = s
  BY <1>2, <1>3, <1>4, <1>5, QuotientUnique
<1> QED BY <1>6 DEF M, s, q

LEMMA WordOfType == ASSUME NEW n \in Nat PROVE WordOf(n) \in Word
<1> DEFINE d(i) == IF i <= WordBytes - LowBytes THEN 0 ELSE (n \div Power[WordBytes - i]) % ByteBase
<1>1. ASSUME NEW i \in 1..WordBytes PROVE d(i) \in Byte
  <2> DEFINE M == Power[WordBytes - i]
             q == n \div M
  <2>1. WordBytes - i \in Nat
    BY BytesAre
  <2>2. M \in Nat \ {0} /\ ByteBase \in Nat \ {0}
    BY <2>1, PowerNat, BytesAre
  <2>3. q \in Nat
    <3> HIDE DEF M
    <3> QED BY <2>2, DivNat
  <2>4. q % ByteBase \in Nat /\ q % ByteBase < ByteBase
    <3> HIDE DEF q
    <3> QED BY <2>2, <2>3, DivNat
  <2>5. q % ByteBase \in Byte
    <3> HIDE DEF q
    <3> QED BY <2>2, <2>4 DEF Byte
  <2>6. 0 \in Byte
    BY <2>2 DEF Byte
  <2> QED BY <2>5, <2>6
<1>2. WordOf(n) = [i \in 1..WordBytes |-> d(i)]
  BY DEF WordOf
<1> HIDE DEF d
<1> QED BY <1>1, <1>2 DEF Word

(* A number that fits into 64 bits survives the conversion.                *)
LEMMA WordOfValue ==
  ASSUME NEW n \in Nat, n < Power[LowBytes]
  PROVE  Value(WordOf(n)) = n
<1> DEFINE w == WordOf(n)
           v == DigitSums(w)
           B == ByteBase
           K == Skipped
           Q(j) == n \div Power[WordBytes - j]
           G == {j \in Nat : (j <= K => v[j] = 0) /\ (j >= K => v[j] = Q(j))}
<1>0. /\ B \in Nat \ {0} /\ K \in Nat /\ LowBytes \in Nat /\ WordBytes \in Nat /\ WordBytes >= 1
      /\ WordBytes - K = LowBytes /\ K <= WordBytes
  BY BytesAre DEF Skipped
<1>1. w \in Word
  BY WordOfType
<1>2. PrefixesAre(w, v) /\ Value(w) = v[WordBytes]
  BY <1>1, PrefixesOf
<1>3. ASSUME NEW i \in 1..WordBytes
      PROVE  w[i] = IF i <= K THEN 0 ELSE (n \div Power[WordBytes - i]) % B
  BY DEF WordOf, Skipped
<1> HIDE DEF w, v, B, K
<1>4. ASSUME NEW j \in 0..WordBytes PROVE Power[WordBytes - j] \in Nat \ {0}
  <2>1. WordBytes - j \in Nat
    BY <1>0
  <2> QED BY <2>1, PowerNat
<1>5. Q(K) = 0
  <2>1. Power[LowBytes] \in Nat \ {0}
    BY <1>0, PowerNat
  <2> DEFINE M == Power[LowBytes]
  <2>2. n = M * 0 + n /\ n \in 0..(M - 1) /\ 0 \in Nat
    BY <2>1
  <2> HIDE DEF M
  <2>3. n \div M = 0
    BY <2>1, <2>2, QuotientUnique DEF M
  <2> QED BY <1>0, <2>3 DEF M
<1>6. 0 \in G
  <2>1. v[0] = 0
    BY <1>2 DEF PrefixesAre
  <2>2. 0 >= K => K = 0
    BY <1>0
  <2> QED BY <1>0, <1>5, <2>1, <2>2
<1>7. ASSUME NEW j \in 0..(WordBytes - 1), j \in G PROVE j + 1 \in G
  <2> DEFINE i == j + 1
  <2>1. i \in 1..WordBytes /\ j \in 0..WordBytes /\ i \in Nat /\ i \in 0..WordBytes /\ j \in Nat
    BY <1>0
  <2>2. v[i] = v[j] * B + w[i]
    BY <1>2, <2>1 DEF PrefixesAre, B
  <2>3. CASE i <= K
    <3>1. v[j] = 0 /\ w[i] = 0
      <4>1. j <= K
        BY <1>0, <2>1, <2>3
      <4> QED BY <1>3, <1>7, <2>1, <2>3, <4>1
    <3>2. v[i] = 0
      BY <1>0, <2>2, <3>1
    <3>3. i >= K => i = K
      BY <1>0, <2>1, <2>3
    <3> QED BY <1>5, <2>1, <3>2, <3>3
  <2>4. CASE ~(i <= K)
    <3> DEFINE P == Power[WordBytes - i]
               q == n \div P
               e == v[j]
               d == w[i]
    <3>1. j >= K /\ (WordBytes - i) + 1 = WordBytes - j /\ WordBytes - i \in Nat
      BY <1>0, <2>1, <2>4
    <3>2. e = Q(j)
      BY <1>7, <3>1
    <3>3. Power[WordBytes - j] = B * P /\ P \in Nat \ {0}
      BY <3>1, <1>4, <2>1, PowerSteps DEF B
    <3>4. q \in Nat
      <4> HIDE DEF P
      <4> QED BY <3>3, DivNat
    <3>5. e = q \div B
      <4>1. e = n \div (B * P)
        BY <3>2, <3>3
      <4> HIDE DEF P, e
      <4>2. (n \div P) \div B = n \div (B * P)
        BY <1>0, <3>3, DivTwice
      <4> QED BY <4>1, <4>2
    <3>6. d = q % B
      BY <1>3, <2>1, <2>4
    <3> HIDE DEF q, e, d
    <3>7. q = B * (q \div B) + (q % B) /\ q \div B \in Nat
      BY <1>0, <3>4, DivNat
    <3>8. e * B = B * e
      BY <1>0, <3>5, <3>7
    <3>9. v[i] = q
      BY <2>2, <3>5, <3>6, <3>7, <3>8 DEF e, d
    <3> QED BY <2>1, <2>4, <3>9 DEF q
  <2> QED BY <2>3, <2>4
<1>8. WordBytes \in G
  <2>1. \A j \in 0..WordBytes : j \in G
    <3> HIDE DEF G
    <3> QED BY <1>6, <1>7, ByteInduction
  <2> QED BY <1>0, <2>1
<1>9. Q(WordBytes) = n
  <2>1. WordBytes - WordBytes = 0 /\ Power[0] = 1
    BY <1>0, PowerSteps
  <2> QED BY <2>1
<1>10. Value(w) = n
  BY <1>0, <1>2, <1>8, <1>9
<1> QED BY <1>10 DEF w

LEMMA MulType == ASSUME NEW a \in Word, NEW b \in Word PROVE Mul(a, b) \in Word
<1> DEFINE x == Low(a) * Low(b)
           M == Power[LowBytes]
<1>1. x \in Nat /\ M \in Nat \ {0}
  BY LowNat, TimesNat, PowerNat, BytesAre
<1> HIDE DEF x, M
<1>2. x % M \in Nat
  BY <1>1, DivNat
<1> QED BY <1>2, WordOfType DEF Mul, x, M

LEMMA MulValue ==
  ASSUME NEW a \in Word, NEW b \in Word, Value(a) < Power[LowBytes], Value(b) < Power[LowBytes]
  PROVE  Value(Mul(a, b)) = (Value(a) * Value(b)) % Power[LowBytes]
<1> DEFINE x == Value(a) * Value(b)
           M == Power[LowBytes]
<1>1. x \in Nat /\ M \in Nat \ {0}
  BY ValueNat, TimesNat, PowerNat, BytesAre
<1>2. Mul(a, b) = WordOf(x % M)
  BY LowExact DEF Mul
<1> HIDE DEF x, M
<1>3. x % M \in Nat /\ x % M < M
  BY <1>1, DivNat
<1>4. Value(WordOf(x % M)) = x % M
  BY <1>3, WordOfValue DEF M
<1> QED BY <1>2, <1>4 DEF x, M

(* Division by the lower bytes of a word, where they are not zero          *)
LEMMA DivideValue ==
  ASSUME NEW a \in Word, NEW b \in Word, Value(a) < Power[LowBytes], Value(b) < Power[LowBytes], Low(b) # 0
  PROVE  /\ Value(b) # 0
         /\ Value(WordOf(Low(a) \div Low(b))) = Value(a) \div Value(b)
         /\ Value(WordOf(Low(a) % Low(b))) = Value(a) % Value(b)
<1> DEFINE x == Value(a)
           y == Value(b)
           M == Power[LowBytes]
<1>1. x \in Nat /\ y \in Nat \ {0} /\ M \in Nat /\ x < M /\ y < M
  BY ValueNat, PowerNat, BytesAre, LowExact
<1>2. Low(a) = x /\ Low(b) = y
  BY LowExact
<1> HIDE DEF x, y, M
<1>3. x \div y \in Nat /\ x % y \in Nat /\ x \div y <= x /\ x % y <= x
  BY <1>1, DivNat
<1>4. x \div y < M /\ x % y < M
  BY <1>1, <1>3
<1>5. Value(WordOf(x \div y)) = x \div y /\ Value(WordOf(x % y)) = x % y
  BY <1>3, <1>4, WordOfValue DEF M
<1> QED BY <1>1, <1>2, <1>5 DEF x, y

LEMMA QuotientType ==
  ASSUME NEW a \in Word, NEW b \in Word, Low(b) # 0
  PROVE  WordOf(Low(a) \div Low(b)) \in Word /\ WordOf(Low(a) % Low(b)) \in Word
<1> DEFINE x == Low(a)
           y == Low(b)
<1>1. x \in Nat /\ y \in Nat \ {0}
  BY LowNat
<1> HIDE DEF x, y
<1>2. x \div y \in Nat /\ x % y \in Nat
  BY <1>1, DivNat
<1> QED BY <1>2, WordOfType DEF x, y

-----------------------------------------------------------------------------
(* The machine: words on the stack and in the storage, bytes in the code   *)
(* and in the memory.                                                      *)
MachineTyped ==
  /\ code \in Seq(Byte) /\ caller \in Word /\ pc \in Nat /\ gas_used \in Nat
  /\ stack \in Seq(Word)
  /\ memory \in [0..(MemoryBytes - 1) -> Byte]
  /\ \A k \in DOMAIN storage : storage[k] \in Word

MachineInv == MachineTyped /\ contracts \in SUBSET Seq(Byte)

LEMMA PriceNat == \A op : Cost(op) \in Nat
BY CostIsPrice, PriceType

LEMMA ImmediateNat == \A op : Immediate(op) \in Nat
BY BytesAre DEF Immediate

LEMMA StackParts ==
  ASSUME stack \in Seq(Word)
  PROVE  /\ Len(stack) \in Nat
         /\ Len(stack) >= 1 => Top \in Word
         /\ Len(stack) >= 2 => Second \in Word
         /\ \A k \in Nat : Len(stack) >= k => Below(k) \in Seq(Word) /\ Len(Below(k)) = Len(stack) - k
<1>1. Len(stack) \in Nat
  OBVIOUS
<1>2. ASSUME NEW k \in Nat, Len(stack) >= k
      PROVE  Below(k) \in Seq(Word) /\ Len(Below(k)) = Len(stack) - k
  <2>1. Len(stack) - k \in 0..Len(stack)
    BY <1>1, <1>2
  <2>2. \A i \in 1..(Len(stack) - k) : stack[i] \in Word
    BY <1>1, <2>1
  <2> QED BY <2>1, <2>2, SubSeqProperties DEF Below
<1> QED BY <1>1, <1>2 DEF Top, Second

LEMMA ProceedTyped ==
  ASSUME MachineTyped, NEW stk \in Seq(Word), Proceed(stk),
         memory' \in [0..(MemoryBytes - 1) -> Byte], \A k \in DOMAIN storage' : storage'[k] \in Word
  PROVE  MachineTyped'
<1>1. stack' \in Seq(Word)
  BY DEF Proceed
<1>2. gas_used' \in Nat
  <2>1. Cost(Opcode) \in Nat /\ gas_used \in Nat /\ gas_used' = gas_used + Cost(Opcode)
    BY PriceNat DEF Proceed, Charged, MachineTyped
  <2> QED BY <2>1
<1>3. pc' \in Nat
  <2>1. Immediate(Opcode) \in Nat /\ pc \in Nat /\ pc' = pc + 1 + Immediate(Opcode)
    BY ImmediateNat DEF Proceed, MachineTyped
  <2> QED BY <2>1
<1>4. code' \in Seq(Byte) /\ caller' \in Word
  BY DEF Proceed, MachineTyped
<1> QED BY <1>1, <1>2, <1>3, <1>4 DEF MachineTyped

LEMMA Proceeds ==
  ASSUME MachineTyped, NEW stk \in Seq(Word), Proceed(stk), UNCHANGED <<memory, storage>>
  PROVE  MachineTyped'
<1>1. memory' \in [0..(MemoryBytes - 1) -> Byte] /\ \A k \in DOMAIN storage' : storage'[k] \in Word
  BY DEF MachineTyped
<1> QED BY <1>1, ProceedTyped

LEMMA PushTyped == MachineTyped /\ Push => MachineTyped'
<1> SUFFICES ASSUME MachineTyped, Push PROVE MachineTyped'
  OBVIOUS
<1> DEFINE w == CASE Opcode = "PUSH0" -> Zero
                  [] Opcode = "PUSH1" -> [Zero EXCEPT ![WordBytes] = code[pc + 2]]
                  [] Opcode = "PUSH32" -> SubSeq(code, pc + 2, pc + 1 + WordBytes)
<1>0. code \in Seq(Byte) /\ pc \in Nat /\ stack \in Seq(Word) /\ Len(code) \in Nat
  BY DEF MachineTyped
<1>1. Opcode \in Pushing /\ pc + Immediate(Opcode) < Len(code)
  BY DEF Push, Fetch, Sound
<1>2. CASE Opcode = "PUSH0"
  <2>1. w = Zero
    BY <1>2
  <2> HIDE DEF w
  <2>2. Append(stack, w) \in Seq(Word)
    BY <1>0, <2>1, ZeroWord
  <2> QED BY <2>2, Proceeds DEF Push, w
<1>3. CASE Opcode = "PUSH1"
  <2>1. w = [Zero EXCEPT ![WordBytes] = code[pc + 2]]
    BY <1>3
  <2>2. pc + 2 \in 1..Len(code)
    BY <1>0, <1>1, <1>3 DEF Immediate
  <2>3. code[pc + 2] \in Byte
    BY <1>0, <2>2
  <2>4. w \in Word
    BY <2>1, <2>3, ZeroWord DEF Word
  <2> HIDE DEF w
  <2>5. Append(stack, w) \in Seq(Word)
    BY <1>0, <2>4
  <2> QED BY <2>5, Proceeds DEF Push, w
<1>4. CASE Opcode = "PUSH32"
  <2>1. w = SubSeq(code, pc + 2, pc + 1 + WordBytes)
    BY <1>4
  <2>2. pc + 2 \in Nat /\ pc + 1 + WordBytes \in Nat /\ pc + 1 + WordBytes <= Len(code) /\ WordBytes \in Nat
    BY <1>0, <1>1, <1>4, BytesAre DEF Immediate
  <2>3. w = [i \in 1..WordBytes |-> code[i + (pc + 1)]]
    <3>1. (pc + 1 + WordBytes) - (pc + 2) + 1 = WordBytes
      BY <1>0, <2>2
    <3>2. \A i \in 1..WordBytes : (pc + 2) + i - 1 = i + (pc + 1)
      BY <1>0, <2>2
    <3>3. SubSeq(code, pc + 2, pc + 1 + WordBytes)
            = [i \in 1..((pc + 1 + WordBytes) - (pc + 2) + 1) |-> code[(pc + 2) + i - 1]]
      BY <1>0, <2>2
    <3> QED BY <2>1, <3>1, <3>2, <3>3
  <2>4. \A i \in 1..WordBytes : code[i + (pc + 1)] \in Byte
    <3>1. \A i \in 1..WordBytes : i + (pc + 1) \in 1..Len(code)
      BY <1>0, <2>2
    <3> QED BY <1>0, <3>1
  <2>5. w \in Word
    BY <2>3, <2>4 DEF Word
  <2> HIDE DEF w
  <2>6. Append(stack, w) \in Seq(Word)
    BY <1>0, <2>5
  <2> QED BY <2>6, Proceeds DEF Push, w
<1> QED BY <1>1, <1>2, <1>3, <1>4 DEF Pushing

LEMMA EnvironmentTyped == MachineTyped /\ PushEnvironment => MachineTyped'
<1> SUFFICES ASSUME MachineTyped, PushEnvironment PROVE MachineTyped'
  OBVIOUS
<1> DEFINE left == IF gas_limit > gas_used THEN gas_limit - gas_used ELSE 0
           W(now) == CASE Opcode = "CALLER" -> caller
                       [] Opcode = "CALLVALUE" -> Zero
                       [] Opcode = "TIMESTAMP" -> WordOf(now)
                       [] Opcode = "GASLIMIT" -> WordOf(left)
<1>1. stack \in Seq(Word) /\ caller \in Word /\ left \in Nat
  BY VMConstants DEF MachineTyped
<1>2. Opcode \in Environment
  BY DEF PushEnvironment, Fetch
<1>3. PICK now \in Clock : Proceed(Append(stack, W(now)))
  BY DEF PushEnvironment
<1>4. now \in Nat
  BY VMConstants
<1>5. W(now) \in Word
  <2> HIDE DEF left
  <2>1. CASE Opcode = "CALLER"
    BY <1>1, <2>1
  <2>2. CASE Opcode = "CALLVALUE"
    BY <2>2, ZeroWord
  <2>3. CASE Opcode = "TIMESTAMP"
    BY <1>4, <2>3, WordOfType
  <2>4. CASE Opcode = "GASLIMIT"
    BY <1>1, <2>4, WordOfType
  <2> QED BY <1>2, <2>1, <2>2, <2>3, <2>4 DEF Environment
<1> HIDE DEF W
<1>6. Append(stack, W(now)) \in Seq(Word)
  BY <1>1, <1>5
<1>7. UNCHANGED <<memory, storage>>
  BY DEF PushEnvironment
<1> QED BY <1>3, <1>6, <1>7, Proceeds

LEMMA RearrangeTyped == MachineTyped /\ Rearrange => MachineTyped'
<1> SUFFICES ASSUME MachineTyped, Rearrange PROVE MachineTyped'
  OBVIOUS
<1>0. stack \in Seq(Word) /\ UNCHANGED <<memory, storage>>
  BY DEF MachineTyped, Rearrange
<1>1. Len(stack) >= Operands(Opcode) /\ Opcode \in {"POP", "DUP1", "SWAP1"}
  BY DEF Rearrange, Fetch, Sound
<1>2. CASE Opcode = "POP"
  <2>1. Proceed(Below(1)) /\ Len(stack) >= 1
    BY <1>1, <1>2 DEF Rearrange, Operands
  <2>2. Below(1) \in Seq(Word)
    BY <1>0, <2>1, StackParts
  <2> QED BY <1>0, <2>1, <2>2, Proceeds
<1>3. CASE Opcode = "DUP1"
  <2>1. Proceed(Append(stack, Top)) /\ Len(stack) >= 1
    BY <1>1, <1>3 DEF Rearrange, Operands
  <2>2. Top \in Word
    BY <1>0, <2>1, StackParts
  <2>3. Append(stack, Top) \in Seq(Word)
    BY <1>0, <2>2
  <2> QED BY <1>0, <2>1, <2>3, Proceeds
<1>4. CASE Opcode = "SWAP1"
  <2>1. Proceed(Below(2) \o <<Top, Second>>) /\ Len(stack) >= 2
    BY <1>1, <1>4 DEF Rearrange, Operands, Binary
  <2>2. Top \in Word /\ Second \in Word /\ Below(2) \in Seq(Word)
    BY <1>0, <2>1, StackParts
  <2>3. <<Top, Second>> \in Seq(Word)
    BY <2>2
  <2>4. Below(2) \o <<Top, Second>> \in Seq(Word)
    BY <2>2, <2>3, ConcatProperties
  <2> QED BY <1>0, <2>1, <2>4, Proceeds
<1> QED BY <1>1, <1>2, <1>3, <1>4

(* Any other opcode that leaves a word in place of two                     *)
LEMMA BinaryTyped ==
  ASSUME MachineTyped, Len(stack) >= 2, NEW w \in Word, Proceed(Append(Below(2), w)),
         UNCHANGED <<memory, storage>>
  PROVE  MachineTyped'
<1>1. stack \in Seq(Word)
  BY DEF MachineTyped
<1>2. Below(2) \in Seq(Word)
  BY <1>1, StackParts
<1>3. Append(Below(2), w) \in Seq(Word)
  BY <1>2
<1> QED BY <1>3, Proceeds

LEMMA ComputedWord ==
  ASSUME NEW a \in Word, NEW b \in Word
  PROVE  /\ Add(a, b) \in Word /\ Sub(a, b) \in Word /\ Mul(a, b) \in Word
         /\ Truth(Less(a, b)) \in Word /\ Truth(a # b /\ ~Less(a, b)) \in Word /\ Truth(a = b) \in Word
<1>1. Less(a, b) \in BOOLEAN /\ (a # b /\ ~Less(a, b)) \in BOOLEAN /\ (a = b) \in BOOLEAN
  BY DEF Less
<1>2. Add(a, b) \in Word /\ Sub(a, b) \in Word /\ Mul(a, b) \in Word
  BY AddType, SubType, MulType
<1>3. Truth(Less(a, b)) \in Word
  BY <1>1, TruthValue
<1>4. Truth(a # b /\ ~Less(a, b)) \in Word
  BY <1>1, TruthValue
<1>5. Truth(a = b) \in Word
  BY <1>1, TruthValue
<1> QED BY <1>2, <1>3, <1>4, <1>5

LEMMA ComputeTyped == MachineTyped /\ Compute => MachineTyped'
<1> SUFFICES ASSUME MachineTyped, Compute PROVE MachineTyped'
  OBVIOUS
<1> DEFINE a == Second
           b == Top
           w == CASE Opcode = "ADD" -> Add(a, b)
                  [] Opcode = "SUB" -> Sub(a, b)
                  [] Opcode = "MUL" -> Mul(a, b)
                  [] Opcode = "LT" -> Truth(Less(a, b))
                  [] Opcode = "GT" -> Truth(a # b /\ ~Less(a, b))
                  [] Opcode = "EQ" -> Truth(a = b)
<1>1. Opcode \in Binary /\ Len(stack) >= Operands(Opcode)
  BY DEF Compute, Fetch, Sound
<1>2. Len(stack) >= 2
  BY <1>1 DEF Operands, Binary
<1>3. a \in Word /\ b \in Word
  BY <1>2, StackParts DEF MachineTyped
<1>4. Proceed(Append(Below(2), w)) /\ UNCHANGED <<memory, storage>>
  BY DEF Compute
<1> HIDE DEF a, b
<1>5. w \in Word
  <2>1. CASE Opcode = "ADD"
    BY <1>3, <2>1, ComputedWord
  <2>2. CASE Opcode = "SUB"
    BY <1>3, <2>2, ComputedWord
  <2>3. CASE Opcode = "MUL"
    BY <1>3, <2>3, ComputedWord
  <2>4. CASE Opcode = "LT"
    BY <1>3, <2>4, ComputedWord
  <2>5. CASE Opcode = "GT"
    BY <1>3, <2>5, ComputedWord
  <2>6. CASE Opcode = "EQ"
    BY <1>3, <2>6, ComputedWord
  <2> QED BY <1>1, <2>1, <2>2, <2>3, <2>4, <2>5, <2>6 DEF Binary
<1> HIDE DEF w
<1> QED BY <1>2, <1>4, <1>5, BinaryTyped

LEMMA DivideTyped == MachineTyped /\ (Divide \/ DivideUndefined) => MachineTyped'
<1> SUFFICES ASSUME MachineTyped, Divide \/ DivideUndefined PROVE MachineTyped'
  OBVIOUS
<1> DEFINE a == Second
           b == Top
<1>1. Opcode \in {"DIV", "MOD"} /\ Len(stack) >= Operands(Opcode)
  BY DEF Divide, DivideUndefined, Fetch, Sound
<1>2. Len(stack) >= 2
  BY <1>1 DEF Operands, Binary
<1>3. a \in Word /\ b \in Word
  BY <1>2, StackParts DEF MachineTyped
<1>4. UNCHANGED <<memory, storage>>
  BY DEF Divide, DivideUndefined
<1>5. CASE Divide
  <2> DEFINE w == IF b = Zero THEN Zero ELSE WordOf(Quotient(Low(a), Low(b)))
  <2>1. Proceed(Append(Below(2), w)) /\ (b = Zero \/ Low(b) # 0)
    BY <1>5 DEF Divide
  <2> HIDE DEF a, b
  <2>2. w \in Word
    BY <1>3, <2>1, ZeroWord, QuotientType DEF Quotient
  <2> HIDE DEF w
  <2> QED BY <1>2, <1>4, <2>1, <2>2, BinaryTyped
<1>6. CASE DivideUndefined
  <2> DEFINE w == WordOf(IF Opcode = "DIV" THEN 0 ELSE Low(a))
  <2>1. CASE UNCHANGED <<code, caller, pc, stack, gas_used>>
    BY <1>4, <2>1 DEF MachineTyped
  <2>2. CASE Proceed(Append(Below(2), w))
    <3> HIDE DEF a, b
    <3>1. Low(a) \in Nat
      BY <1>3, LowNat
    <3>2. w \in Word
      BY <3>1, WordOfType
    <3> HIDE DEF w
    <3> QED BY <1>2, <1>4, <2>2, <3>2, BinaryTyped
  <2> QED BY <1>6, <2>1, <2>2 DEF DivideUndefined
<1> QED BY <1>5, <1>6

LEMMA MemoryTyped == MachineTyped /\ (MemoryLoad \/ MemoryStore) => MachineTyped'
<1> SUFFICES ASSUME MachineTyped, MemoryLoad \/ MemoryStore PROVE MachineTyped'
  OBVIOUS
<1> DEFINE at == Lowest(Top)
<1>0. stack \in Seq(Word) /\ memory \in [0..(MemoryBytes - 1) -> Byte]
  BY DEF MachineTyped
<1>1. /\ Opcode \in {"MLOAD", "MSTORE"} /\ Len(stack) >= Operands(Opcode)
      /\ at + WordBytes <= MemoryBytes
  BY DEF MemoryLoad, MemoryStore, Fetch, Sound
<1>2. Len(stack) >= 1
  BY <1>0, <1>1 DEF Operands, Binary
<1>3. Top \in Word
  BY <1>0, <1>2, StackParts
<1>4. at \in Nat /\ WordBytes \in Nat /\ WordBytes >= 1 /\ MemoryBytes \in Nat
  <2>1. WordBytes \in 1..WordBytes
    BY BytesAre
  <2> QED BY <1>3, <2>1, WordDigits, BytesAre, VMConstants DEF Lowest
<1>5. CASE MemoryLoad
  <2> DEFINE w == [i \in 1..WordBytes |-> memory[at + i - 1]]
  <2>1. Proceed(Append(Below(1), w)) /\ UNCHANGED <<memory, storage>>
    BY <1>5 DEF MemoryLoad
  <2> HIDE DEF at
  <2>2. \A i \in 1..WordBytes : at + i - 1 \in 0..(MemoryBytes - 1)
    BY <1>1, <1>4
  <2>3. w \in Word
    BY <1>0, <2>2 DEF Word
  <2>4. Below(1) \in Seq(Word)
    BY <1>0, <1>2, StackParts
  <2> HIDE DEF w
  <2>5. Append(Below(1), w) \in Seq(Word)
    BY <2>3, <2>4
  <2> QED BY <2>1, <2>5, Proceeds
<1>6. CASE MemoryStore
  <2>1. /\ Proceed(Below(2)) /\ storage' = storage
        /\ memory' = [x \in DOMAIN memory |->
                        IF x \in at..(at + WordBytes - 1) THEN Second[x - at + 1] ELSE memory[x]]
    BY <1>6 DEF MemoryStore
  <2>2. Opcode = "MSTORE"
    BY <1>6 DEF MemoryStore, Fetch
  <2>3. Len(stack) >= 2
    BY <1>1, <2>2 DEF Operands
  <2>4. Second \in Word /\ Below(2) \in Seq(Word)
    BY <1>0, <2>3, StackParts
  <2> HIDE DEF at
  <2>5. ASSUME NEW x \in 0..(MemoryBytes - 1), x \in at..(at + WordBytes - 1)
        PROVE  Second[x - at + 1] \in Byte
    <3>1. x - at + 1 \in 1..WordBytes
      BY <1>4, <2>5
    <3> QED BY <2>4, <3>1 DEF Word
  <2>6. memory' \in [0..(MemoryBytes - 1) -> Byte]
    BY <1>0, <2>1, <2>5
  <2>7. \A k \in DOMAIN storage' : storage'[k] \in Word
    BY <2>1 DEF MachineTyped
  <2> QED BY <2>1, <2>4, <2>6, <2>7, ProceedTyped
<1> QED BY <1>5, <1>6

LEMMA StorageTyped == MachineTyped /\ (StorageLoad \/ StorageStore) => MachineTyped'
<1> SUFFICES ASSUME MachineTyped, StorageLoad \/ StorageStore PROVE MachineTyped'
  OBVIOUS
<1>0. stack \in Seq(Word) /\ \A k \in DOMAIN storage : storage[k] \in Word
  BY DEF MachineTyped
<1>1. CASE StorageLoad
  <2> DEFINE w == IF Top \in DOMAIN storage THEN storage[Top] ELSE Zero
  <2>1. Proceed(Append(Below(1), w)) /\ UNCHANGED <<memory, storage>>
    BY <1>1 DEF StorageLoad
  <2>2. Len(stack) >= 1
    BY <1>1 DEF StorageLoad, Fetch, Sound, Operands
  <2>3. w \in Word
    BY <1>0, ZeroWord
  <2>4. Below(1) \in Seq(Word)
    BY <1>0, <2>2, StackParts
  <2> HIDE DEF w
  <2>5. Append(Below(1), w) \in Seq(Word)
    BY <2>3, <2>4
  <2> QED BY <2>1, <2>5, Proceeds
<1>2. CASE StorageStore
  <2>1. /\ Proceed(Below(2)) /\ memory' = memory
        /\ storage' = [k \in DOMAIN storage \cup {Top} |-> IF k = Top THEN Second ELSE storage[k]]
    BY <1>2 DEF StorageStore
  <2>2. Len(stack) >= 2
    BY <1>2 DEF StorageStore, Fetch, Sound, Operands
  <2>3. Second \in Word /\ Below(2) \in Seq(Word)
    BY <1>0, <2>2, StackParts
  <2>4. \A k \in DOMAIN storage' : storage'[k] \in Word
    BY <1>0, <2>1, <2>3
  <2>5. memory' \in [0..(MemoryBytes - 1) -> Byte]
    BY <2>1 DEF MachineTyped
  <2> QED BY <2>1, <2>3, <2>4, <2>5, ProceedTyped
<1> QED BY <1>1, <1>2

LEMMA JumpTyped == MachineTyped /\ (Jump \/ JumpNotTaken \/ Halt) => MachineTyped'
<1> SUFFICES ASSUME MachineTyped, Jump \/ JumpNotTaken \/ Halt PROVE MachineTyped'
  OBVIOUS
<1>0. stack \in Seq(Word)
  BY DEF MachineTyped
<1>1. CASE Jump
  <2>1. Opcode \in {"JMP", "JMPI"} /\ Len(stack) >= Operands(Opcode)
    BY <1>1 DEF Jump, Fetch, Sound
  <2>2. Operands(Opcode) \in {1, 2}
    BY <2>1 DEF Operands
  <2>3. Below(Operands(Opcode)) \in Seq(Word) /\ Top \in Word
    <3>1. Operands(Opcode) \in Nat /\ Len(stack) >= 1 /\ Len(stack) \in Nat
      BY <1>0, <2>1, <2>2
    <3> QED BY <1>0, <2>1, <3>1, StackParts
  <2>4. Lowest(Top) \in Nat
    <3>1. WordBytes \in 1..WordBytes
      BY BytesAre
    <3> QED BY <2>3, <3>1, WordDigits DEF Lowest
  <2>5. /\ pc' = Lowest(Top) /\ stack' = Below(Operands(Opcode))
        /\ UNCHANGED <<code, caller, memory, storage, gas_used>>
    BY <1>1 DEF Jump
  <2> QED BY <2>3, <2>4, <2>5 DEF MachineTyped
<1>2. CASE JumpNotTaken
  <2>1. Proceed(Below(2)) /\ UNCHANGED <<memory, storage>>
    BY <1>2 DEF JumpNotTaken
  <2>2. Len(stack) >= 2
    BY <1>2 DEF JumpNotTaken, Fetch, Sound, Operands
  <2>3. Below(2) \in Seq(Word)
    BY <1>0, <2>2, StackParts
  <2> QED BY <2>1, <2>3, Proceeds
<1>3. CASE Halt
  BY <1>3 DEF Halt, MachineTyped
<1> QED BY <1>1, <1>2, <1>3

LEMMA ExecuteTyped == MachineTyped /\ Execute => MachineTyped'
<1>1. MachineTyped /\ (EndOfCode \/ OutOfGas \/ Abort) => MachineTyped'
  BY DEF EndOfCode, OutOfGas, Abort, MachineTyped
<1> QED BY <1>1, PushTyped, EnvironmentTyped, RearrangeTyped, ComputeTyped, DivideTyped,
           MemoryTyped, StorageTyped, JumpTyped DEF Execute

LEMMA LoadTyped ==
  ASSUME NEW c \in Seq(Byte), NEW from \in Word, NEW st,
         VMBecomes([Load(c, from) EXCEPT !.status = st]) \/ VMBecomes(Load(c, from))
  PROVE  MachineTyped'
<1>1. /\ code' = c /\ caller' = from /\ pc' = 0 /\ stack' = <<>> /\ gas_used' = 0
      /\ memory' = [i \in 0..(MemoryBytes - 1) |-> 0] /\ storage' = <<>>
  BY DEF VMBecomes, Load
<1>2. 0 \in Byte
  BY BytesAre DEF Byte
<1>3. memory' \in [0..(MemoryBytes - 1) -> Byte]
  BY <1>1, <1>2
<1>4. stack' \in Seq(Word) /\ DOMAIN storage' = {}
  BY <1>1
<1> QED BY <1>1, <1>3, <1>4 DEF MachineTyped

LEMMA NextTyped == MachineInv /\ [Next]_vars => MachineInv'
<1> SUFFICES ASSUME MachineInv, [Next]_vars PROVE MachineInv'
  OBVIOUS
<1>0. MachineTyped /\ contracts \in SUBSET Seq(Byte) /\ NoCode \in Seq(Byte) /\ Zero \in Word
  BY ZeroWord DEF MachineInv, NoCode
<1>1. ASSUME NEW c \in Deployable, DeployContract(c) PROVE MachineInv'
  BY <1>0, <1>1, ContractsConstants DEF DeployContract, vmVars, MachineInv, MachineTyped
<1>2. ASSUME NEW c \in Seq(Byte), NEW from \in Word, Start(c, from) PROVE MachineInv'
  BY <1>0, <1>2, LoadTyped DEF Start, MachineInv
<1>3. ASSUME NEW a \in Deployable, NEW from \in Callers, CallContract(a, NoCode, from) PROVE MachineInv'
  <2>1. (IF a \in contracts THEN a ELSE NoCode) \in Seq(Byte) /\ from \in Word
    BY <1>0, ContractsConstants
  <2> QED BY <1>2, <1>3, <2>1 DEF CallContract
<1>4. ASSUME NEW c \in Programs, NEW from \in Callers, CallContract(NoCode, c, from) PROVE MachineInv'
  <2>1. (IF NoCode \in contracts THEN NoCode ELSE c) \in Seq(Byte) /\ from \in Word
    BY <1>0, ContractsConstants
  <2> QED BY <1>2, <1>4, <2>1 DEF CallContract
<1>5. ASSUME NEW c \in Programs, EstimateGas(c) PROVE MachineInv'
  BY <1>0, <1>2, <1>5, ContractsConstants DEF EstimateGas
<1>6. CASE Run
  BY <1>0, <1>6, ExecuteTyped DEF Run, MachineInv
<1>7. CASE Respond
  BY <1>0, <1>7, LoadTyped DEF Respond, Idle, MachineInv
<1>8. CASE UNCHANGED vars
  BY <1>8 DEF vars, vmVars, MachineInv, MachineTyped
<1> QED BY <1>1, <1>3, <1>4, <1>5, <1>6, <1>7, <1>8 DEF Next

LEMMA InitTyped == Init => MachineInv
<1> SUFFICES ASSUME Init PROVE MachineInv
  OBVIOUS
<1>1. code = <<>> /\ caller = Zero /\ pc = 0 /\ stack = <<>> /\ gas_used = 0 /\ storage = <<>> /\ contracts = {}
  BY DEF Init, NoCode
<1>2. memory = [i \in 0..(MemoryBytes - 1) |-> 0]
  BY DEF Init, Idle, Load
<1>3. 0 \in Byte
  BY BytesAre DEF Byte
<1>4. memory \in [0..(MemoryBytes - 1) -> Byte]
  BY <1>2, <1>3
<1>5. DOMAIN storage = {} /\ stack \in Seq(Word) /\ code \in Seq(Byte)
  BY <1>1
<1> QED BY <1>1, <1>4, <1>5, ZeroWord DEF MachineInv, MachineTyped

(* What an instruction has pushed is on top.                               *)
LEMMA PushedOnTop ==
  ASSUME stack \in Seq(Word), Len(stack) >= 2, NEW w, Proceed(Append(Below(2), w))
  PROVE  stack'[Len(stack')] = w
<1>1. Below(2) \in Seq(Word)
  BY StackParts
<1>2. stack' = Append(Below(2), w)
  BY DEF Proceed
<1> HIDE DEF Below
<1>3. Len(Append(Below(2), w)) = Len(Below(2)) + 1 /\ Append(Below(2), w)[Len(Below(2)) + 1] = w
  BY <1>1, AppendProperties
<1> QED BY <1>2, <1>3

LEMMA ComputeExact == MachineTyped /\ Compute => ExactResult
<1> SUFFICES ASSUME MachineTyped, Compute PROVE ExactResult
  OBVIOUS
<1> DEFINE a == Second
           b == Top
           r == stack'[Len(stack')]
           w == CASE Opcode = "ADD" -> Add(a, b)
                  [] Opcode = "SUB" -> Sub(a, b)
                  [] Opcode = "MUL" -> Mul(a, b)
                  [] Opcode = "LT" -> Truth(Less(a, b))
                  [] Opcode = "GT" -> Truth(a # b /\ ~Less(a, b))
                  [] Opcode = "EQ" -> Truth(a = b)
<1>1. Opcode \in Binary /\ Len(stack) >= 2
  BY DEF Compute, Fetch, Sound, Operands, Binary
<1>2. a \in Word /\ b \in Word /\ stack \in Seq(Word)
  BY <1>1, StackParts DEF MachineTyped
<1>3. r = w
  <2>1. Proceed(Append(Below(2), w))
    BY DEF Compute
  <2> HIDE DEF w
  <2> QED BY <1>1, <1>2, <2>1, PushedOnTop
<1> HIDE DEF a, b, r
<1>4. Value(a) \in Nat /\ Value(b) \in Nat
  BY <1>2, ValueNat
<1>5. Opcode = "ADD" => Value(r) = (Value(a) + Value(b)) % Power[WordBytes]
  BY <1>2, <1>3, AddValue
<1>6. Opcode = "SUB" => (Value(r) + Value(b)) % Power[WordBytes] = Value(a)
  BY <1>2, <1>3, SubValue
<1>7. Opcode = "LT" => (Value(r) = 1) = (Value(a) < Value(b))
  <2> SUFFICES ASSUME Opcode = "LT" PROVE (Value(r) = 1) = (Value(a) < Value(b))
    OBVIOUS
  <2> DEFINE p == Less(a, b)
  <2>1. r = Truth(p) /\ p \in BOOLEAN
    BY <1>3 DEF Less
  <2>2. p <=> Value(a) < Value(b)
    BY <1>2, OrderExact
  <2> HIDE DEF p
  <2>3. (Value(r) = 1) = p
    BY <2>1, TruthValue
  <2>4. Value(r) = 1 <=> p
    BY <2>3
  <2> QED BY <2>2, <2>4
<1>8. Opcode = "GT" => (Value(r) = 1) = (Value(a) > Value(b))
  <2> SUFFICES ASSUME Opcode = "GT" PROVE (Value(r) = 1) = (Value(a) > Value(b))
    OBVIOUS
  <2> DEFINE p == a # b /\ ~Less(a, b)
  <2>1. r = Truth(p) /\ p \in BOOLEAN
    BY <1>3
  <2>2. p <=> Value(a) > Value(b)
    BY <1>2, OrderExact
  <2> HIDE DEF p
  <2>3. (Value(r) = 1) = p
    BY <2>1, TruthValue
  <2>4. Value(r) = 1 <=> p
    BY <2>3
  <2> QED BY <2>2, <2>4
<1>9. Opcode = "EQ" => (Value(r) = 1) = (Value(a) = Value(b))
  <2> SUFFICES ASSUME Opcode = "EQ" PROVE (Value(r) = 1) = (Value(a) = Value(b))
    OBVIOUS
  <2> DEFINE p == a = b
  <2>1. r = Truth(p) /\ p \in BOOLEAN
    BY <1>3
  <2>2. p <=> Value(a) = Value(b)
    BY <1>2, OrderExact
  <2> HIDE DEF p
  <2>3. (Value(r) = 1) = p
    BY <2>1, TruthValue
  <2>4. Value(r) = 1 <=> p
    BY <2>3
  <2> QED BY <2>2, <2>4
<1>10. Value(a) < Power[LowBytes] /\ Value(b) < Power[LowBytes] /\ Opcode = "MUL"
         => Value(r) = (Value(a) * Value(b)) % Power[LowBytes]
  BY <1>2, <1>3, MulValue
<1>11. Opcode # "DIV" /\ Opcode # "MOD"
  BY <1>1 DEF Binary
<1> QED BY <1>5, <1>6, <1>7, <1>8, <1>9, <1>10, <1>11 DEF ExactResult, a, b, r

LEMMA DivideExact ==
  ASSUME MachineTyped, Divide \/ DivideUndefined, stack' # stack
  PROVE  ExactResult
<1> DEFINE a == Second
           b == Top
           r == stack'[Len(stack')]
<1>1. Opcode \in {"DIV", "MOD"} /\ Len(stack) >= 2
  BY DEF Divide, DivideUndefined, Fetch, Sound, Operands, Binary
<1>2. a \in Word /\ b \in Word /\ stack \in Seq(Word)
  BY <1>1, StackParts DEF MachineTyped
<1>3. Value(b) = 0 <=> b = Zero
  BY <1>2, ZeroWord, ZeroValue, OrderExact
<1> DEFINE small == Value(a) < Power[LowBytes] /\ Value(b) < Power[LowBytes]
<1>4. CASE Divide
  <2> DEFINE w == IF b = Zero THEN Zero ELSE WordOf(Quotient(Low(a), Low(b)))
  <2>1. Proceed(Append(Below(2), w)) /\ (b = Zero \/ Low(b) # 0)
    BY <1>4 DEF Divide
  <2>2. r = w
    <3> HIDE DEF w
    <3> QED BY <1>1, <1>2, <2>1, PushedOnTop
  <2> HIDE DEF a, b, r
  <2>3. CASE b = Zero
    <3>1. Value(r) = 0 /\ Value(b) = 0
      BY <2>2, <2>3, ZeroValue
    <3> QED BY <1>1, <3>1 DEF ExactResult, a, b, r
  <2>4. CASE b # Zero
    <3>1. r = WordOf(Quotient(Low(a), Low(b))) /\ Low(b) # 0
      BY <2>1, <2>2, <2>4
    <3>2. small /\ Opcode = "DIV" => Value(b) # 0 /\ Value(r) = Value(a) \div Value(b)
      BY <1>2, <3>1, DivideValue DEF Quotient
    <3>3. small /\ Opcode = "MOD" => Value(b) # 0 /\ Value(r) = Value(a) % Value(b)
      BY <1>2, <3>1, DivideValue DEF Quotient
    <3> QED BY <1>1, <3>2, <3>3 DEF ExactResult, a, b, r
  <2> QED BY <2>3, <2>4
<1>5. CASE DivideUndefined
  <2>1. b # Zero /\ Low(b) = 0
    BY <1>5 DEF DivideUndefined
  <2>2. ~(Value(b) < Power[LowBytes])
    BY <1>2, <1>3, <2>1, LowExact
  <2> QED BY <1>1, <2>2 DEF ExactResult, b
<1> QED BY <1>4, <1>5

LEMMA StepExact ==
  ASSUME MachineInv, [Next]_vars, Fetch(Binary \cup {"DIV", "MOD"}), stack' # stack
  PROVE  ExactResult
<1>1. /\ status = "running" /\ pc < Len(code) /\ CheckGas /\ Sound
      /\ Opcode \in Binary \cup {"DIV", "MOD"}
  BY DEF Fetch, Fetched
<1>2. MachineTyped /\ pc \in Nat /\ Len(code) \in Nat
  BY DEF MachineInv, MachineTyped
<1>3. Execute
  <2>1. ~(UNCHANGED vars)
    BY DEF vars, vmVars
  <2>2. \A c, from : ~Start(c, from)
    BY <1>1 DEF Start
  <2>3. \A c : ~DeployContract(c)
    BY <1>1 DEF DeployContract
  <2>4. ~Respond
    BY <1>1 DEF Respond
  <2> QED BY <2>1, <2>2, <2>3, <2>4 DEF Next, CallContract, EstimateGas, Run
<1>4. ~EndOfCode /\ ~OutOfGas /\ ~Abort
  BY <1>1, <1>2 DEF EndOfCode, OutOfGas, Abort
<1>5. ~Push /\ ~PushEnvironment /\ ~Rearrange
  BY <1>1 DEF Push, PushEnvironment, Rearrange, Fetch, Pushing, Environment, Binary
<1>6. ~MemoryLoad /\ ~MemoryStore /\ ~StorageLoad /\ ~StorageStore
  BY <1>1 DEF MemoryLoad, MemoryStore, StorageLoad, StorageStore, Fetch, Binary
<1>7. ~Jump /\ ~JumpNotTaken /\ ~Halt
  BY <1>1 DEF Jump, JumpNotTaken, Halt, Fetch, Binary
<1>8. Compute \/ Divide \/ DivideUndefined
  BY <1>3, <1>4, <1>5, <1>6, <1>7 DEF Execute
<1> QED BY <1>2, <1>8, ComputeExact, DivideExact

(* Whatever the width of bytes and words, and whatever the program: the    *)
(* byte loops with their carries and borrows, the comparison from the      *)
(* first byte and the detour over 64 bits compute what they stand for.     *)
THEOREM ContractsArithmeticExact == Spec => ArithmeticExact
<1>1. Init => MachineInv
  BY InitTyped
<1>2. MachineInv /\ [Next]_vars => MachineInv'
  BY NextTyped
<1>3. MachineInv /\ [Next]_vars
        => [Fetch(Binary \cup {"DIV", "MOD"}) /\ stack' # stack => ExactResult]_vmVars
  BY StepExact
<1> QED BY <1>1, <1>2, <1>3, PTL DEF Spec, ArithmeticExact

-----------------------------------------------------------------------------
(* Compiled assignments.  A certificate gives for each place of a piece of *)
(* code how many words are on the stack at least when an instruction       *)
(* starts there, or Midway for the operand of one.                         *)
Midway == 3

Continues(b, p, k) ==
  LET op == OpcodeOf[b[k + 1]]
  IN  \/ op = "CALLER" /\ p[k] = 0 /\ p[k + 1] = 0
      \/ op = "PUSH1" /\ p[k] \in {0, 1} /\ k + 1 < Len(b) /\ p[k + 2] = p[k] + 1
      \/ op = "SSTORE" /\ p[k] = 2 /\ p[k + 1] = 0

Certified(b, p) ==
  /\ p \in [0..Len(b) -> 0..Midway] /\ p[0] = 0 /\ p[Len(b)] = 0
  /\ \A k \in 0..(Len(b) - 1) : p[k] # Midway => Continues(b, p, k)

Straight(b) == b \in Seq(Byte) /\ \E p : Certified(b, p)

LEMMA EmptyStraight == Straight(<<>>)
<1> DEFINE p == [k \in 0..0 |-> 0]
<1>1. <<>> \in Seq(Byte) /\ Len(<<>>) = 0
  OBVIOUS
<1>2. Certified(<<>>, p)
  BY <1>1 DEF Certified, Midway
<1> QED BY <1>1, <1>2 DEF Straight

LEMMA JoinedStraight ==
  ASSUME NEW b, NEW c, Straight(b), Straight(c) PROVE Straight(b \o c)
<1>0. b \in Seq(Byte) /\ c \in Seq(Byte) /\ Len(b) \in Nat /\ Len(c) \in Nat
  BY DEF Straight
<1>1. PICK p : Certified(b, p)
  BY DEF Straight
<1>2. PICK q : Certified(c, q)
  BY DEF Straight
<1> DEFINE d == b \o c
           n == Len(b)
           m == Len(c)
           r == [k \in 0..(n + m) |-> IF k <= n THEN p[k] ELSE q[k - n]]
<1>3. d \in Seq(Byte) /\ Len(d) = n + m /\ n \in Nat /\ m \in Nat
  BY <1>0, ConcatProperties
<1>4. (\A k \in 1..n : d[k] = b[k]) /\ (\A k \in 1..m : d[n + k] = c[k])
  <2>1. \A i \in 1..(n + m) : d[i] = IF i <= n THEN b[i] ELSE c[i - n]
    BY <1>0, ConcatProperties
  <2> HIDE DEF d, n, m
  <2> QED BY <1>3, <2>1
<1>5. p \in [0..n -> 0..Midway] /\ p[0] = 0 /\ p[n] = 0
  BY <1>1 DEF Certified
<1>6. q \in [0..m -> 0..Midway] /\ q[0] = 0 /\ q[m] = 0
  BY <1>2 DEF Certified
<1>7. \A k \in 0..(n - 1) : p[k] # Midway => Continues(b, p, k)
  BY <1>1 DEF Certified
<1>8. \A k \in 0..(m - 1) : q[k] # Midway => Continues(c, q, k)
  BY <1>2 DEF Certified
<1> HIDE DEF d
<1>9. Len(b) = n /\ Len(c) = m
  OBVIOUS
<1> HIDE DEF n, m
<1>10. (\A k \in 0..n : r[k] = p[k]) /\ (\A k \in 0..m : r[n + k] = q[k])
  <2>1. \A k \in 0..n : r[k] = p[k]
    BY <1>3
  <2>2. ASSUME NEW k \in 0..m PROVE r[n + k] = q[k]
    <3>1. CASE k = 0
      BY <1>3, <1>5, <1>6, <2>1, <3>1
    <3>2. CASE k # 0
      <4>1. n + k \in 0..(n + m) /\ ~(n + k <= n) /\ (n + k) - n = k
        BY <1>3, <3>2
      <4> QED BY <4>1
    <3> QED BY <3>1, <3>2
  <2> QED BY <2>1, <2>2
<1>11. r \in [0..(n + m) -> 0..Midway]
  <2>1. ASSUME NEW k \in 0..(n + m) PROVE r[k] \in 0..Midway
    <3>1. CASE k <= n
      BY <1>3, <1>5, <3>1
    <3>2. CASE ~(k <= n)
      <4>1. k - n \in 0..m
        BY <1>3, <3>2
      <4> QED BY <1>6, <3>2, <4>1
    <3> QED BY <3>1, <3>2
  <2> QED BY <2>1
<1> HIDE DEF r
<1>12. r[0] = 0 /\ r[n + m] = 0
  BY <1>3, <1>5, <1>6, <1>10
<1>13. ASSUME NEW k \in 0..(n + m - 1), r[k] # Midway PROVE Continues(d, r, k)
  <2>1. CASE k < n
    <3>1. k \in 0..(n - 1) /\ k \in 0..n /\ k + 1 \in 0..n /\ k + 1 \in 1..n
      BY <1>3, <2>1
    <3>2. r[k] = p[k] /\ r[k + 1] = p[k + 1] /\ d[k + 1] = b[k + 1]
      BY <1>4, <1>10, <3>1
    <3>3. Continues(b, p, k)
      BY <1>7, <1>13, <3>1, <3>2
    <3>4. k + 1 < n => k + 2 \in 0..n /\ k + 1 < n + m
      BY <1>3, <3>1
    <3>5. k + 1 < n => r[k + 2] = p[k + 2]
      BY <1>10, <3>4
    <3> QED BY <1>3, <1>9, <3>2, <3>3, <3>4, <3>5 DEF Continues
  <2>2. CASE ~(k < n)
    <3> DEFINE j == k - n
    <3>1. j \in 0..(m - 1) /\ j \in 0..m /\ j + 1 \in 0..m /\ j + 1 \in 1..m
      BY <1>3, <2>2
    <3>2. k = n + j /\ k + 1 = n + (j + 1) /\ k + 2 = n + (j + 2)
      BY <1>3
    <3> HIDE DEF j
    <3>3. r[k] = q[j] /\ r[k + 1] = q[j + 1] /\ d[k + 1] = c[j + 1]
      BY <1>4, <1>10, <3>1, <3>2
    <3>4. Continues(c, q, j)
      BY <1>8, <1>13, <3>1, <3>3
    <3>5. j + 1 < m => j + 2 \in 0..m /\ k + 1 < n + m
      BY <1>3, <3>1, <3>2
    <3>6. j + 1 < m => r[k + 2] = q[j + 2]
      BY <1>10, <3>2, <3>5
    <3> QED BY <1>3, <1>9, <3>3, <3>4, <3>5, <3>6 DEF Continues
  <2> QED BY <2>1, <2>2
<1>14. Certified(d, r)
  BY <1>3, <1>11, <1>12, <1>13 DEF Certified
<1> QED BY <1>3, <1>14 DEF Straight, d

LEMMA EmittedByte ==
  ASSUME NEW op \in Emitted PROVE ByteOf(op) \in Byte /\ OpcodeOf[ByteOf(op)] = op
BY MerliteConstants DEF ByteOf

LEMMA CastByte == ASSUME NEW n \in Nat PROVE Cast(n) \in Byte
<1>1. ByteBase \in Nat \ {0}
  BY BytesAre
<1>2. n % ByteBase \in Nat /\ n % ByteBase < ByteBase
  BY <1>1, DivNat
<1> QED BY <1>1, <1>2 DEF Cast, Byte

LEMMA CallerStraight == Straight(<<ByteOf("CALLER")>>)
<1> DEFINE b == <<ByteOf("CALLER")>>
           p == [k \in 0..1 |-> 0]
<1>1. ByteOf("CALLER") \in Byte /\ OpcodeOf[ByteOf("CALLER")] = "CALLER"
  BY EmittedByte DEF Emitted
<1>2. b \in Seq(Byte) /\ Len(b) = 1 /\ b[1] = ByteOf("CALLER")
  BY <1>1
<1> HIDE DEF b
<1>3. p \in [0..1 -> 0..Midway] /\ p[0] = 0 /\ p[1] = 0
  BY DEF Midway
<1> HIDE DEF p
<1>4. ASSUME NEW k \in 0..(Len(b) - 1) PROVE Continues(b, p, k)
  <2>1. k = 0
    BY <1>2
  <2> QED BY <1>1, <1>2, <1>3, <2>1 DEF Continues
<1>5. Certified(b, p)
  BY <1>2, <1>3, <1>4 DEF Certified
<1> QED BY <1>2, <1>5 DEF Straight, b

LEMMA StoreStraight ==
  ASSUME NEW x \in Byte, NEW y \in Byte
  PROVE  Straight(<<ByteOf("PUSH1"), x, ByteOf("PUSH1"), y, ByteOf("SSTORE")>>)
<1> DEFINE push == ByteOf("PUSH1")
           store == ByteOf("SSTORE")
           b == <<push, x, push, y, store>>
           p == [k \in 0..5 |-> IF k \in {0, 5} THEN 0 ELSE IF k = 2 THEN 1 ELSE IF k = 4 THEN 2 ELSE 3]
<1>1. /\ push \in Byte /\ OpcodeOf[push] = "PUSH1"
      /\ store \in Byte /\ OpcodeOf[store] = "SSTORE"
  BY EmittedByte DEF Emitted
<1> HIDE DEF push, store
<1>2. b \in Seq(Byte) /\ Len(b) = 5 /\ b[1] = push /\ b[3] = push /\ b[5] = store
  BY <1>1
<1> HIDE DEF b
<1>3. /\ p[0] = 0 /\ p[1] = 3 /\ p[2] = 1 /\ p[3] = 3 /\ p[4] = 2 /\ p[5] = 0
      /\ p \in [0..5 -> 0..Midway]
  BY DEF Midway
<1> HIDE DEF p
<1>4. ASSUME NEW k \in 0..(Len(b) - 1), p[k] # Midway PROVE Continues(b, p, k)
  <2>1. k = 0 \/ k = 2 \/ k = 4
    BY <1>2, <1>3, <1>4 DEF Midway
  <2>2. CASE k = 0
    BY <1>1, <1>2, <1>3, <2>2 DEF Continues
  <2>3. CASE k = 2
    BY <1>1, <1>2, <1>3, <2>3 DEF Continues
  <2>4. CASE k = 4
    BY <1>1, <1>2, <1>3, <2>4 DEF Continues
  <2> QED BY <2>1, <2>2, <2>3, <2>4
<1>5. Certified(b, p)
  BY <1>2, <1>3, <1>4 DEF Certified
<1> QED BY <1>2, <1>5 DEF Straight, b, push, store

(* The code of one assignment                                              *)
LEMMA AssignStraight ==
  ASSUME NEW it \in Item, it.kind = "assign", it.val # "refused",
         NEW slots, \A v \in DOMAIN slots : slots[v] \in Nat
  PROVE  Straight(EmitAssign(slots, it))
<1> DEFINE head == IF it.val = "caller" THEN <<ByteOf("CALLER")>> ELSE <<>>
           x == Cast(SlotOf(slots, it.var))
           y == Cast(Literal(it))
           tail == <<ByteOf("PUSH1"), x, ByteOf("PUSH1"), y, ByteOf("SSTORE")>>
<1>1. it.val \in {"number", "caller", "expr"} /\ it.num \in Nat
  BY DEF Item
<1>2. Literal(it) \in Nat
  BY <1>1 DEF Literal
<1>3. SlotOf(slots, it.var) \in Nat
  BY DEF SlotOf
<1>4. x \in Byte /\ y \in Byte
  BY <1>2, <1>3, CastByte
<1> HIDE DEF x, y
<1>5. Straight(tail)
  BY <1>4, StoreStraight
<1>6. Straight(head)
  BY EmptyStraight, CallerStraight
<1>7. EmitAssign(slots, it) = head \o tail
  BY DEF EmitAssign, x, y
<1> HIDE DEF head, tail
<1> QED BY <1>5, <1>6, <1>7, JoinedStraight

(* The state of the compiler while it has seen no require                  *)
Fields(c) ==
  c = [slots |-> c.slots, next |-> c.next, bytes |-> c.bytes, depth |-> c.depth, done |-> c.done,
       error |-> c.error]

Plain == {it \in Item : it.kind # "require"}

CompilerInv(c) ==
  /\ Fields(c) /\ c.next \in Nat /\ Straight(c.bytes)
  /\ \A v \in DOMAIN c.slots : c.slots[v] \in Nat

ParseCases(c, it) ==
  \/ Parse(c, it) = c
  \/ \E d : Parse(c, it) = [c EXCEPT !.depth = d]
  \/ Parse(c, it) = [c EXCEPT !.done = TRUE]
  \/ Parse(c, it) = [c EXCEPT !.slots = [v \in DOMAIN c.slots \cup {it.var} |->
                                             IF v = it.var THEN c.next ELSE c.slots[v]],
                                !.next = c.next + 1]
  \/ Parse(c, it) = [c EXCEPT !.done = TRUE, !.error = TRUE]
  \/ /\ it.kind = "assign" /\ it.val # "refused"
     /\ Parse(c, it) = [c EXCEPT !.bytes = c.bytes \o EmitAssign(c.slots, it)]

LEMMA ParseSplit == ASSUME NEW c, NEW it \in Plain PROVE ParseCases(c, it)
<1>1. it.kind # "require"
  BY DEF Plain
<1>2. CASE c.done
  <2>1. Parse(c, it) = c
    BY <1>2 DEF Parse
  <2> QED BY <2>1 DEF ParseCases
<1>3. CASE ~c.done /\ it.kind = "close"
  <2>1. Parse(c, it) = IF c.depth > 1 THEN [c EXCEPT !.depth = c.depth - 1] ELSE [c EXCEPT !.done = TRUE]
    BY <1>3 DEF Parse
  <2> QED BY <2>1 DEF ParseCases
<1>4. CASE ~c.done /\ (it.kind = "fn" \/ (it.kind = "open" /\ c.depth > 0))
  <2>1. Parse(c, it) = [c EXCEPT !.depth = c.depth + 1]
    BY <1>4 DEF Parse
  <2> QED BY <2>1 DEF ParseCases
<1>5. CASE ~c.done /\ it.kind = "state" /\ c.depth = 0
  <2>1. Parse(c, it) = [c EXCEPT !.slots = [v \in DOMAIN c.slots \cup {it.var} |->
                                               IF v = it.var THEN c.next ELSE c.slots[v]],
                                   !.next = c.next + 1]
    BY <1>5 DEF Parse
  <2> QED BY <2>1 DEF ParseCases
<1>6. CASE ~c.done /\ it.kind = "assign" /\ c.depth = 1 /\ it.val # "refused"
  <2>1. Parse(c, it) = [c EXCEPT !.bytes = c.bytes \o EmitAssign(c.slots, it)]
    BY <1>6 DEF Parse
  <2> QED BY <1>6, <2>1 DEF ParseCases
<1>7. CASE /\ ~c.done /\ it.kind \notin {"close", "fn"}
           /\ ~(it.kind = "open" /\ c.depth > 0)
           /\ ~(it.kind = "state" /\ c.depth = 0)
           /\ ~(it.kind = "assign" /\ c.depth = 1)
  <2>1. Parse(c, it) = c
    BY <1>1, <1>7 DEF Parse
  <2> QED BY <2>1 DEF ParseCases
<1>8. CASE ~c.done /\ it.kind = "assign" /\ c.depth = 1 /\ it.val = "refused"
  <2>1. Parse(c, it) = [c EXCEPT !.done = TRUE, !.error = TRUE]
    BY <1>8 DEF Parse
  <2> QED BY <2>1 DEF ParseCases
<1> QED BY <1>2, <1>3, <1>4, <1>5, <1>6, <1>7, <1>8

LEMMA ParseKeeps == ASSUME NEW c, CompilerInv(c), NEW it \in Plain PROVE CompilerInv(Parse(c, it))
<1> DEFINE e == Parse(c, it)
<1>1. Fields(c) /\ c.next \in Nat /\ Straight(c.bytes) /\ \A v \in DOMAIN c.slots : c.slots[v] \in Nat
  BY DEF CompilerInv
<1>2. ParseCases(c, it) /\ it \in Item
  BY ParseSplit DEF Plain
<1>3. CASE e = c
  BY <1>3
<1>4. CASE \E d : e = [c EXCEPT !.depth = d]
  <2>1. PICK d : e = [c EXCEPT !.depth = d]
    BY <1>4
  <2>2. e = [slots |-> c.slots, next |-> c.next, bytes |-> c.bytes, depth |-> d, done |-> c.done,
             error |-> c.error]
    BY <1>1, <2>1 DEF Fields
  <2> HIDE DEF e
  <2>3. Fields(e) /\ e.slots = c.slots /\ e.next = c.next /\ e.bytes = c.bytes
    BY <2>2 DEF Fields
  <2>4. CompilerInv(e)
    BY <1>1, <2>3 DEF CompilerInv
  <2> QED BY <2>4 DEF e
<1>5. CASE e = [c EXCEPT !.done = TRUE]
  <2>2. e = [slots |-> c.slots, next |-> c.next, bytes |-> c.bytes, depth |-> c.depth, done |-> TRUE,
             error |-> c.error]
    BY <1>1, <1>5 DEF Fields
  <2> HIDE DEF e
  <2>3. Fields(e) /\ e.slots = c.slots /\ e.next = c.next /\ e.bytes = c.bytes
    BY <2>2 DEF Fields
  <2>4. CompilerInv(e)
    BY <1>1, <2>3 DEF CompilerInv
  <2> QED BY <2>4 DEF e
<1> DEFINE t == [v \in DOMAIN c.slots \cup {it.var} |-> IF v = it.var THEN c.next ELSE c.slots[v]]
<1>6. CASE e = [c EXCEPT !.slots = t, !.next = c.next + 1]
  <2>1. \A v \in DOMAIN t : t[v] \in Nat
    BY <1>1
  <2> HIDE DEF t
  <2>2. e = [slots |-> t, next |-> c.next + 1, bytes |-> c.bytes, depth |-> c.depth, done |-> c.done,
             error |-> c.error]
    BY <1>1, <1>6 DEF Fields
  <2> HIDE DEF e
  <2>3. Fields(e) /\ e.slots = t /\ e.next = c.next + 1 /\ e.bytes = c.bytes
    BY <2>2 DEF Fields
  <2>4. CompilerInv(e)
    BY <1>1, <2>1, <2>3 DEF CompilerInv
  <2> QED BY <2>4 DEF e
<1> HIDE DEF t
<1> DEFINE b == c.bytes \o EmitAssign(c.slots, it)
<1>7. CASE it.kind = "assign" /\ it.val # "refused" /\ e = [c EXCEPT !.bytes = b]
  <2>1. Straight(b)
    <3>1. Straight(EmitAssign(c.slots, it))
      BY <1>1, <1>2, <1>7, AssignStraight
    <3> QED BY <1>1, <3>1, JoinedStraight
  <2> HIDE DEF b
  <2>2. e = [slots |-> c.slots, next |-> c.next, bytes |-> b, depth |-> c.depth, done |-> c.done,
             error |-> c.error]
    BY <1>1, <1>7 DEF Fields
  <2> HIDE DEF e
  <2>3. Fields(e) /\ e.slots = c.slots /\ e.next = c.next /\ e.bytes = b
    BY <2>2 DEF Fields
  <2>4. CompilerInv(e)
    BY <1>1, <2>1, <2>3 DEF CompilerInv
  <2> QED BY <2>4 DEF e
<1>8. CASE e = [c EXCEPT !.done = TRUE, !.error = TRUE]
  <2>2. e = [slots |-> c.slots, next |-> c.next, bytes |-> c.bytes, depth |-> c.depth, done |-> TRUE,
             error |-> TRUE]
    BY <1>1, <1>8 DEF Fields
  <2> HIDE DEF e
  <2>3. Fields(e) /\ e.slots = c.slots /\ e.next = c.next /\ e.bytes = c.bytes
    BY <2>2 DEF Fields
  <2>4. CompilerInv(e)
    BY <1>1, <2>3 DEF CompilerInv
  <2> QED BY <2>4 DEF e
<1> QED BY <1>2, <1>3, <1>4, <1>5, <1>6, <1>7, <1>8 DEF ParseCases, t

Parsing == INSTANCE FoldTheorems WITH Op <- LAMBDA it, c : Parse(c, it), Pick <- Max

LEMMA ParsingFold ==
  ASSUME NEW base
  PROVE  /\ FoldLeft(Parse, base, <<>>) = base
         /\ \A V : \A seq \in Seq(V), x \in V :
              FoldLeft(Parse, base, Append(seq, x)) = Parse(FoldLeft(Parse, base, seq), x)
<1> DEFINE Made(s) == FoldLeft(Parse, base, s)
<1>1. \A s : Made(s) = Parsing!Fold(base, s, DOMAIN s)
  BY DEF FoldLeft, MapThenFoldSet, Parsing!Fold, Parsing!Fixpoint, Parsing!Unfolded
<1>2. \A n \in Nat : Parsing!Founded(1..n) /\ Parsing!Picks(1..n)
  BY LeftFounded DEF Parsing!Founded, Parsing!Picks
<1>3. \A n \in Nat : Max(1..(n + 1)) = n + 1
  BY MaxInterval
<1>4. Parsing!Fold(base, <<>>, DOMAIN <<>>) = base
  <2>1. DOMAIN <<>> = {} /\ 1..0 = {} /\ Parsing!Founded(1..0)
    BY <1>2
  <2> QED BY <2>1, Parsing!FoldEmpty
<1>5. ASSUME NEW V, NEW seq \in Seq(V), NEW x \in V
      PROVE  Parsing!Fold(base, Append(seq, x), DOMAIN Append(seq, x))
               = Parse(Parsing!Fold(base, seq, DOMAIN seq), x)
  BY <1>2, <1>3, Parsing!FoldAppend
<1> QED BY <1>1, <1>4, <1>5

Scanning == INSTANCE FoldTheorems WITH Op <- LAMBDA line, items : items \o Scanned(line), Pick <- Max

LEMMA ScanningFold ==
  /\ Tokenize(<<>>) = <<>>
  /\ \A V : \A seq \in Seq(V), x \in V : Tokenize(Append(seq, x)) = Tokenize(seq) \o Scanned(x)
<1>1. \A s : Tokenize(s) = Scanning!Fold(<<>>, s, DOMAIN s)
  BY DEF Tokenize, FoldLeft, MapThenFoldSet, Scanning!Fold, Scanning!Fixpoint, Scanning!Unfolded
<1>2. \A n \in Nat : Scanning!Founded(1..n) /\ Scanning!Picks(1..n)
  BY LeftFounded DEF Scanning!Founded, Scanning!Picks
<1>3. \A n \in Nat : Max(1..(n + 1)) = n + 1
  BY MaxInterval
<1>4. Scanning!Fold(<<>>, <<>>, DOMAIN <<>>) = <<>>
  <2>1. DOMAIN <<>> = {} /\ 1..0 = {} /\ Scanning!Founded(1..0)
    BY <1>2
  <2> QED BY <2>1, Scanning!FoldEmpty
<1>5. ASSUME NEW V, NEW seq \in Seq(V), NEW x \in V
      PROVE  Scanning!Fold(<<>>, Append(seq, x), DOMAIN Append(seq, x))
               = Scanning!Fold(<<>>, seq, DOMAIN seq) \o Scanned(x)
  BY <1>2, <1>3, Scanning!FoldAppend
<1> QED BY <1>1, <1>4, <1>5

LEMMA ScannedItems == ASSUME NEW line \in Seq(Item) PROVE Scanned(line) \in Seq(Item)
<1> DEFINE ends == {n \in DOMAIN line : Terminated(line[n])}
           cut == CHOOSE n \in ends : \A m \in ends : n <= m
<1>1. CASE ends = {}
  <2>1. Scanned(line) = line
    BY <1>1 DEF Scanned
  <2> QED BY <2>1
<1>2. CASE ends # {}
  <2>1. ends \in SUBSET Nat /\ DOMAIN line = 1..Len(line) /\ Len(line) \in Nat
    OBVIOUS
  <2>2. \E n \in ends : \A m \in ends : n <= m
    <3> HIDE DEF ends
    <3> QED BY <1>2, <2>1, LeastNat
  <2>3. cut \in ends
    <3> HIDE DEF ends
    <3> QED BY <2>2
  <2>4. cut \in 1..Len(line)
    <3> HIDE DEF cut
    <3> QED BY <2>1, <2>3
  <2>5. Scanned(line) = SubSeq(line, 1, cut)
    BY <1>2 DEF Scanned
  <2> HIDE DEF cut
  <2>6. cut \in 0..Len(line) /\ \A i \in 1..cut : line[i] \in Item
    BY <2>1, <2>4
  <2> QED BY <2>5, <2>6, SubSeqProperties
<1> QED BY <1>1, <1>2

LEMMA TokenizedItems == ASSUME NEW s \in Seq(Seq(Item)) PROVE Tokenize(s) \in Seq(Item)
<1> DEFINE G == {x \in Seq(Seq(Item)) : Tokenize(x) \in Seq(Item)}
<1>1. <<>> \in G
  <2>1. <<>> \in Seq(Seq(Item)) /\ <<>> \in Seq(Item)
    OBVIOUS
  <2> QED BY <2>1, ScanningFold
<1>2. ASSUME NEW x \in Seq(Seq(Item)), NEW line \in Seq(Item), x \in G PROVE Append(x, line) \in G
  <2>1. Tokenize(Append(x, line)) = Tokenize(x) \o Scanned(line)
    BY ScanningFold
  <2>2. Tokenize(x) \in Seq(Item) /\ Scanned(line) \in Seq(Item)
    BY <1>2, ScannedItems
  <2>3. Tokenize(x) \o Scanned(line) \in Seq(Item)
    BY <2>2, ConcatProperties
  <2>4. Append(x, line) \in Seq(Seq(Item))
    OBVIOUS
  <2> QED BY <2>1, <2>3, <2>4
<1>3. Seq(Seq(Item)) \subseteq G
  <2> HIDE DEF G
  <2> QED BY <1>1, <1>2, SeqInduction
<1> QED BY <1>3

LEMMA PlainStraight == ASSUME NEW items \in Seq(Plain) PROVE CompilerInv(FoldLeft(Parse, Begin, items))
<1> DEFINE G == {x \in Seq(Plain) : CompilerInv(FoldLeft(Parse, Begin, x))}
<1>1. <<>> \in G
  <2>1. <<>> \in Seq(Plain)
    OBVIOUS
  <2>2. FoldLeft(Parse, Begin, <<>>) = Begin
    BY ParsingFold
  <2>3. Fields(Begin) /\ Begin.next = 0 /\ Begin.bytes = <<>> /\ Begin.slots = <<>>
    BY DEF Fields, Begin
  <2>4. DOMAIN Begin.slots = {}
    BY <2>3
  <2>5. CompilerInv(Begin)
    BY <2>3, <2>4, EmptyStraight DEF CompilerInv
  <2> QED BY <2>1, <2>2, <2>5
<1>2. ASSUME NEW x \in Seq(Plain), NEW it \in Plain, x \in G PROVE Append(x, it) \in G
  <2>1. FoldLeft(Parse, Begin, Append(x, it)) = Parse(FoldLeft(Parse, Begin, x), it)
    <3>1. \A V : \A seq \in Seq(V), y \in V :
            FoldLeft(Parse, Begin, Append(seq, y)) = Parse(FoldLeft(Parse, Begin, seq), y)
      BY ParsingFold
    <3> QED BY <3>1, Zenon
  <2>2. CompilerInv(FoldLeft(Parse, Begin, x))
    BY <1>2
  <2>3. CompilerInv(Parse(FoldLeft(Parse, Begin, x), it))
    BY <2>2, ParseKeeps
  <2>4. Append(x, it) \in Seq(Plain)
    OBVIOUS
  <2> QED BY <2>1, <2>3, <2>4
<1>3. Seq(Plain) \subseteq G
  <2> HIDE DEF G
  <2> QED BY <1>1, <1>2, SeqInduction
<1> QED BY <1>3

LEMMA CompiledStraight ==
  ASSUME NEW s \in Sources, ~HasRequire(s), Compile(s) # <<>>
  PROVE  \E b : Straight(b) /\ Compile(s) = Append(b, ByteOf("STOP"))
<1> DEFINE items == Tokenize(s)
           b == Parsed(s).bytes
<1>1. items \in Seq(Item)
  BY ContractsConstants, TokenizedItems
<1>2. items \in Seq(Plain)
  <2>1. \A n \in 1..Len(items) : items[n] \in Plain
    BY <1>1 DEF HasRequire, Plain
  <2> HIDE DEF items
  <2>2. items \in [1..Len(items) -> Plain] /\ Len(items) \in Nat
    BY <1>1, <2>1
  <2> QED BY <2>2
<1>3. CompilerInv(Parsed(s))
  BY <1>2, PlainStraight DEF Parsed
<1>4. Straight(b)
  BY <1>3 DEF CompilerInv
<1>5. Compile(s) = Append(b, ByteOf("STOP"))
  BY DEF Compile
<1> QED BY <1>4, <1>5

-----------------------------------------------------------------------------
(* A run of straight code.  Whatever certificate it has, an instruction    *)
(* finds the words it needs, and no more words than bytes are passed.      *)
OnCourse(b, p) ==
  /\ status = "running" =>
       pc <= Len(b) /\ p[pc] # Midway /\ p[pc] <= Len(stack) /\ Len(stack) <= pc
  /\ status = "failed" => ~CheckGas

CourseInv ==
  /\ status # "idle" => code # NoCode
  /\ \A b, p : b \in Seq(Byte) /\ Certified(b, p) /\ code = Append(b, ByteOf("STOP"))
                 /\ Len(code) <= MaxStack => OnCourse(b, p)

(* What the next instruction is, and what it leaves.                       *)
LEMMA StepOnCourse ==
  ASSUME MachineTyped, NEW b \in Seq(Byte), NEW p, Certified(b, p),
         code = Append(b, ByteOf("STOP")), Len(code) <= MaxStack, OnCourse(b, p), Execute
  PROVE  OnCourse(b, p)'
<1> DEFINE n == Len(b)
           h == Len(stack)
<1>0. code \in Seq(Byte) /\ pc \in Nat /\ stack \in Seq(Word) /\ h \in Nat /\ n \in Nat /\ MaxStack \in Nat
  BY VMConstants DEF MachineTyped
<1>1. Len(code) = n + 1 /\ (\A k \in 1..n : code[k] = b[k]) /\ code[n + 1] = ByteOf("STOP")
  BY AppendProperties
<1>2. CASE status # "running"
  <2>1. FALSE
    BY <1>2 DEF Execute, EndOfCode, OutOfGas, Abort, Push, PushEnvironment, Rearrange, Compute, Divide,
         DivideUndefined, MemoryLoad, MemoryStore, StorageLoad, StorageStore, Jump, JumpNotTaken, Halt,
         Fetch, Fetched
  <2> QED BY <2>1
<1>3. CASE status = "running"
  <2>1. pc <= n /\ p[pc] # Midway /\ p[pc] <= h /\ h <= pc
    BY <1>3 DEF OnCourse
  <2>2. p \in [0..n -> 0..Midway] /\ p[0] = 0 /\ p[n] = 0
    BY DEF Certified
  <2>3. p[pc] \in Nat /\ pc \in 0..n /\ pc < Len(code)
    BY <1>0, <1>1, <2>1, <2>2, SMTT(40) DEF Midway
  <2>4. CASE pc = n
    <3>1. Opcode = "STOP"
      BY <1>1, <2>4, EmittedByte DEF Opcode, Emitted
    <3>2. Sound
      BY <1>0, <2>3, <3>1 DEF Sound, Operands, Binary, Immediate, Pushing, Environment
    <3>3. OutOfGas \/ Halt
      <4>1. ~EndOfCode /\ ~Abort
        BY <1>0, <1>1, <2>3, <3>2 DEF EndOfCode, Abort
      <4>2. ~Push /\ ~PushEnvironment /\ ~Rearrange /\ ~Compute /\ ~Divide /\ ~DivideUndefined
        BY <3>1 DEF Push, PushEnvironment, Rearrange, Compute, Divide, DivideUndefined, Fetch,
             Pushing, Environment, Binary
      <4>3. ~MemoryLoad /\ ~MemoryStore /\ ~StorageLoad /\ ~StorageStore /\ ~Jump /\ ~JumpNotTaken
        BY <3>1 DEF MemoryLoad, MemoryStore, StorageLoad, StorageStore, Jump, JumpNotTaken, Fetch
      <4> QED BY <4>1, <4>2, <4>3 DEF Execute
    <3> QED BY <3>3 DEF OutOfGas, Halt, OnCourse, CheckGas
  <2>5. CASE pc < n
    <3>1. pc \in 0..(n - 1) /\ pc + 1 \in 1..n /\ pc + 1 \in 0..n
      BY <1>0, <2>5
    <3>2. Continues(b, p, pc)
      BY <2>1, <3>1 DEF Certified
    <3>3. Opcode = OpcodeOf[b[pc + 1]]
      BY <1>1, <3>1 DEF Opcode
    <3>4. \/ Opcode = "CALLER" /\ p[pc] = 0 /\ p[pc + 1] = 0
          \/ Opcode = "PUSH1" /\ p[pc] \in {0, 1} /\ pc + 1 < n /\ p[pc + 2] = p[pc] + 1
          \/ Opcode = "SSTORE" /\ p[pc] = 2 /\ p[pc + 1] = 0
      BY <3>2, <3>3 DEF Continues
    <3>5. h < MaxStack
      BY <1>0, <1>1, <2>1, <2>5
    <3>6. Sound
      <4>1. CASE Opcode = "CALLER"
        BY <1>0, <2>3, <3>5, <4>1 DEF Sound, Operands, Binary, Immediate, Pushing, Environment
      <4>2. CASE Opcode = "PUSH1" /\ pc + 1 < n
        BY <1>0, <1>1, <3>5, <4>2 DEF Sound, Operands, Binary, Immediate, Pushing, Environment
      <4>3. CASE Opcode = "SSTORE" /\ p[pc] = 2
        BY <1>0, <2>1, <2>3, <4>3 DEF Sound, Operands, Binary, Immediate, Pushing, Environment
      <4> QED BY <3>4, <4>1, <4>2, <4>3
    <3>7. OutOfGas \/ Push \/ PushEnvironment \/ StorageStore
      <4>1. ~EndOfCode /\ ~Abort
        BY <1>0, <1>1, <2>3, <3>6 DEF EndOfCode, Abort
      <4>2. ~Rearrange /\ ~Compute /\ ~Divide /\ ~DivideUndefined /\ ~Halt
        BY <3>4 DEF Rearrange, Compute, Divide, DivideUndefined, Halt, Fetch, Binary
      <4>3. ~MemoryLoad /\ ~MemoryStore /\ ~StorageLoad /\ ~Jump /\ ~JumpNotTaken
        BY <3>4 DEF MemoryLoad, MemoryStore, StorageLoad, Jump, JumpNotTaken, Fetch
      <4> QED BY <4>1, <4>2, <4>3 DEF Execute
    <3>8. CASE OutOfGas
      BY <3>8 DEF OutOfGas, OnCourse, CheckGas
    <3>9. CASE Push
      <4>1. Opcode = "PUSH1"
        BY <3>4, <3>9 DEF Push, Fetch, Pushing
      <4>2. p[pc] \in {0, 1} /\ pc + 1 < n /\ p[pc + 2] = p[pc] + 1
        BY <3>4, <4>1
      <4>3. PICK w : Proceed(Append(stack, w))
        BY <3>9 DEF Push
      <4>4. pc' = pc + 2 /\ Len(stack') = h + 1 /\ status' = "running"
        BY <1>0, <1>3, <4>1, <4>3 DEF Proceed, Immediate
      <4>5. pc + 2 <= n /\ p[pc + 2] # Midway /\ p[pc + 2] <= h + 1 /\ h + 1 <= pc + 2
        BY <1>0, <2>1, <2>3, <4>2 DEF Midway
      <4> HIDE DEF h
      <4> QED BY <4>4, <4>5 DEF OnCourse
    <3>10. CASE PushEnvironment
      <4>1. Opcode = "CALLER"
        BY <3>4, <3>10 DEF PushEnvironment, Fetch, Environment
      <4>2. p[pc + 1] = 0
        BY <3>4, <4>1
      <4>3. PICK w : Proceed(Append(stack, w))
        BY <3>10 DEF PushEnvironment
      <4>4. pc' = pc + 1 /\ Len(stack') = h + 1 /\ status' = "running"
        BY <1>0, <1>3, <4>1, <4>3 DEF Proceed, Immediate
      <4>5. pc + 1 <= n /\ p[pc + 1] # Midway /\ p[pc + 1] <= h + 1 /\ h + 1 <= pc + 1
        BY <1>0, <2>1, <2>5, <4>2 DEF Midway
      <4> HIDE DEF h
      <4> QED BY <4>4, <4>5 DEF OnCourse
    <3>11. CASE StorageStore
      <4>1. Opcode = "SSTORE"
        BY <3>11 DEF StorageStore, Fetch
      <4>2. p[pc] = 2 /\ p[pc + 1] = 0
        BY <3>4, <4>1
      <4>3. Proceed(Below(2)) /\ h >= 2
        BY <1>0, <2>1, <3>11, <4>2 DEF StorageStore
      <4>4. Len(Below(2)) = h - 2
        BY <1>0, <4>3, StackParts
      <4>5. pc' = pc + 1 /\ Len(stack') = h - 2 /\ status' = "running"
        BY <1>0, <1>3, <4>1, <4>3, <4>4 DEF Proceed, Immediate
      <4>6. pc + 1 <= n /\ p[pc + 1] # Midway /\ p[pc + 1] <= h - 2 /\ h - 2 <= pc + 1
        BY <1>0, <2>1, <2>5, <4>2, <4>3 DEF Midway
      <4> HIDE DEF h
      <4> QED BY <4>5, <4>6 DEF OnCourse
    <3> QED BY <3>7, <3>8, <3>9, <3>10, <3>11
  <2> QED BY <1>0, <2>1, <2>4, <2>5
<1> QED BY <1>2, <1>3

LEMMA CourseKept == MachineInv /\ CourseInv /\ [Next]_vars => CourseInv'
<1> SUFFICES ASSUME MachineInv, CourseInv, [Next]_vars PROVE CourseInv'
  OBVIOUS
<1>0. MachineTyped
  BY DEF MachineInv
<1>1. ASSUME UNCHANGED vmVars PROVE CourseInv'
  BY <1>1 DEF CourseInv, OnCourse, CheckGas, vmVars
<1>2. ASSUME NEW c, NEW from, Start(c, from) PROVE CourseInv'
  <2>1. c # NoCode /\ code' = c /\ pc' = 0 /\ stack' = <<>> /\ status' = "running"
    BY <1>2 DEF Start, VMBecomes, Load
  <2>2. ASSUME NEW b \in Seq(Byte), NEW p, Certified(b, p) PROVE OnCourse(b, p)'
    <3>1. p[0] = 0 /\ 0 <= Len(b) /\ Len(stack') = 0
      BY <2>1, <2>2 DEF Certified
    <3> QED BY <2>1, <3>1 DEF OnCourse, Midway
  <2>3. status' # "idle" => code' # NoCode
    BY <2>1
  <2> QED BY <2>2, <2>3 DEF CourseInv
<1>3. CASE Run
  <2>1. Execute
    BY <1>3 DEF Run
  <2>2. code' = code /\ status = "running"
    BY <2>1 DEF Execute, EndOfCode, OutOfGas, Abort, Push, PushEnvironment, Rearrange, Compute, Divide,
         DivideUndefined, MemoryLoad, MemoryStore, StorageLoad, StorageStore, Jump, JumpNotTaken, Halt,
         Fetch, Fetched, Proceed
  <2>3. ASSUME NEW b \in Seq(Byte), NEW p, Certified(b, p), code' = Append(b, ByteOf("STOP")),
               Len(code') <= MaxStack
        PROVE  OnCourse(b, p)'
    <3>1. code = Append(b, ByteOf("STOP")) /\ Len(code) <= MaxStack
      BY <2>2, <2>3
    <3>2. OnCourse(b, p)
      BY <2>3, <3>1 DEF CourseInv
    <3> QED BY <1>0, <2>1, <2>3, <3>1, <3>2, StepOnCourse
  <2>4. status' # "idle" => code' # NoCode
    BY <2>2 DEF CourseInv
  <2> QED BY <2>3, <2>4 DEF CourseInv
<1>4. CASE Respond
  <2>1. status' = "idle"
    BY <1>4 DEF Respond, VMBecomes, Idle, Load
  <2> QED BY <2>1 DEF CourseInv, OnCourse
<1>5. ASSUME NEW c \in Deployable, DeployContract(c) PROVE CourseInv'
  BY <1>1, <1>5 DEF DeployContract
<1>6. CASE UNCHANGED vars
  BY <1>1, <1>6 DEF vars
<1> QED BY <1>2, <1>3, <1>4, <1>5, <1>6 DEF Next, CallContract, EstimateGas

LEMMA CourseJudged == CourseInv => CompiledRuns
<1> SUFFICES ASSUME CourseInv, NEW s \in Sources, code = Compiled[s], ~HasRequire(s), status = "failed"
             PROVE  ~CheckGas
  BY DEF CompiledRuns
<1>1. code = Compile(s) /\ Len(code) <= MaxStack
  BY ContractsConstants DEF Compiled
<1>2. Compile(s) # <<>>
  BY <1>1 DEF CourseInv, NoCode
<1>3. PICK b : Straight(b) /\ Compile(s) = Append(b, ByteOf("STOP"))
  BY <1>2, CompiledStraight
<1>4. PICK p : Certified(b, p)
  BY <1>3 DEF Straight
<1>5. OnCourse(b, p)
  BY <1>1, <1>3, <1>4 DEF CourseInv, Straight
<1> QED BY <1>5 DEF OnCourse

(* Any source of assignments compiles to code that runs to its STOP,       *)
(* whatever is in the assignments and however the gas is priced: only the  *)
(* limit can end it before.                                                *)
THEOREM ContractsCompiledRuns == Spec => []CompiledRuns
<1>1. Init => MachineInv /\ CourseInv
  <2>1. Init => CourseInv
    BY DEF Init, CourseInv, OnCourse
  <2> QED BY <2>1, InitTyped
<1>2. MachineInv /\ CourseInv /\ [Next]_vars => (MachineInv /\ CourseInv)'
  BY NextTyped, CourseKept
<1>3. CourseInv => CompiledRuns
  BY CourseJudged
<1> QED BY <1>1, <1>2, <1>3, PTL DEF Spec

-----------------------------------------------------------------------------
(* Merkle trees.  The levels, the ancestors of a leaf and the hashes of a  *)
(* proof are each computed by recursion.                                   *)
Growing == INSTANCE FoldTheorems WITH Op <- LAMBDA k, level : Parents(level, "raw"), Pick <- Max

Halving == INSTANCE FoldTheorems WITH Op <- LAMBDA k, i : i \div 2, Pick <- Max

Climbing == INSTANCE FoldTheorems WITH Op <- LAMBDA step, hash : Climb(hash, step), Pick <- Max

LEMMA AncestorSteps ==
  ASSUME NEW i \in Nat
  PROVE  /\ Ancestor(i)[0] = i
         /\ \A k \in Nat : Ancestor(i)[k] \in Nat /\ Ancestor(i)[k + 1] = Ancestor(i)[k] \div 2
<1> DEFINE at == Ancestor(i)
<1>1. at = Halving!Solution(i, Nat)
  BY DEF Ancestor, Halving!Solution, Halving!Recursion
<1>2. Halving!LeastNumbers
  BY LeastNat DEF Halving!LeastNumbers
<1>3. Halving!Initial(Nat)
  BY DEF Halving!Initial
<1>4. \A n \in Nat : at[n] = IF n = 0 THEN i ELSE at[n - 1] \div 2
  BY <1>1, <1>2, <1>3, Halving!RecursionSolved
<1> HIDE DEF at
<1>5. ASSUME NEW k \in Nat PROVE at[k + 1] = at[k] \div 2
  <2>1. k + 1 \in Nat /\ k + 1 # 0 /\ (k + 1) - 1 = k
    OBVIOUS
  <2> QED BY <1>4, <2>1
<1> DEFINE G == {k \in Nat : at[k] \in Nat}
<1>6. 0 \in G /\ \A n \in Nat : n \in G => n + 1 \in G
  <2>1. at[0] \in Nat
    BY <1>4
  <2>2. ASSUME NEW n \in Nat, at[n] \in Nat PROVE at[n + 1] \in Nat
    BY <1>5, <2>2
  <2> QED BY <2>1, <2>2
<1> HIDE DEF G
<1>7. Nat \subseteq G
  BY <1>6, NatSetInduction
<1> QED BY <1>4, <1>5, <1>7 DEF G, at

LEMMA LevelSteps ==
  ASSUME NEW V, NEW leaves \in Seq(V)
  PROVE  /\ DOMAIN Level(leaves, "raw") = 0..Len(leaves)
         /\ Level(leaves, "raw")[0] = leaves
         /\ \A k \in 0..(Len(leaves) - 1) :
              Level(leaves, "raw")[k + 1] = Parents(Level(leaves, "raw")[k], "raw")
<1> DEFINE at == Level(leaves, "raw")
           n == Len(leaves)
<1>1. at = Growing!Solution(leaves, 0..n)
  BY DEF Level, Growing!Solution, Growing!Recursion
<1>2. Growing!LeastNumbers
  BY LeastNat DEF Growing!LeastNumbers
<1>3. Growing!Initial(0..n) /\ n \in Nat
  BY DEF Growing!Initial
<1>4. /\ DOMAIN at = 0..n
      /\ \A k \in 0..n : at[k] = IF k = 0 THEN leaves ELSE Parents(at[k - 1], "raw")
  BY <1>1, <1>2, <1>3, Growing!RecursionSolved
<1> HIDE DEF at, n
<1>5. ASSUME NEW k \in 0..(n - 1) PROVE at[k + 1] = Parents(at[k], "raw")
  <2>1. k + 1 \in 0..n /\ k + 1 # 0 /\ (k + 1) - 1 = k
    BY <1>3
  <2> QED BY <1>4, <2>1
<1>6. at[0] = leaves
  BY <1>3, <1>4
<1> QED BY <1>4, <1>5, <1>6 DEF at, n

(* The hash after all steps of a proof, and after the first of them.       *)
Folded(leaf, proof) == FoldLeft(Climb, leaf, proof)

LEMMA ClimbNone == ASSUME NEW leaf PROVE Folded(leaf, <<>>) = leaf
<1>1. Folded(leaf, <<>>) = Climbing!Fold(leaf, <<>>, DOMAIN <<>>)
  BY DEF Folded, FoldLeft, MapThenFoldSet, Climbing!Fold, Climbing!Fixpoint, Climbing!Unfolded
<1>2. DOMAIN <<>> = {} /\ 1..0 = {}
  OBVIOUS
<1>3. Climbing!Founded(1..0)
  BY LeftFounded DEF Climbing!Founded
<1> QED BY <1>1, <1>2, <1>3, Climbing!FoldEmpty

LEMMA ClimbOne ==
  ASSUME NEW leaf, NEW V, NEW proof \in Seq(V), NEW step \in V
  PROVE  Folded(leaf, Append(proof, step)) = Climb(Folded(leaf, proof), step)
<1>1. \A s : Folded(leaf, s) = Climbing!Fold(leaf, s, DOMAIN s)
  BY DEF Folded, FoldLeft, MapThenFoldSet, Climbing!Fold, Climbing!Fixpoint, Climbing!Unfolded
<1>2. \A n \in Nat : Climbing!Founded(1..n) /\ Climbing!Picks(1..n)
  BY LeftFounded DEF Climbing!Founded, Climbing!Picks
<1>3. \A n \in Nat : Max(1..(n + 1)) = n + 1
  BY MaxInterval
<1>4. Climbing!Fold(leaf, Append(proof, step), DOMAIN Append(proof, step))
        = Climb(Climbing!Fold(leaf, proof, DOMAIN proof), step)
  BY <1>2, <1>3, Climbing!FoldAppend
<1> QED BY <1>1, <1>4

After(leaf, proof, m) == Folded(leaf, SubSeq(proof, 1, m))

LEMMA AfterEnds ==
  ASSUME NEW leaf, NEW V, NEW proof \in Seq(V)
  PROVE  After(leaf, proof, 0) = leaf /\ After(leaf, proof, Len(proof)) = Folded(leaf, proof)
<1>1. SubSeq(proof, 1, 0) = <<>>
  OBVIOUS
<1>2. SubSeq(proof, 1, Len(proof)) = proof
  OBVIOUS
<1> QED BY <1>1, <1>2, ClimbNone DEF After

LEMMA AfterOne ==
  ASSUME NEW leaf, NEW V, NEW proof \in Seq(V), NEW k \in 0..(Len(proof) - 1)
  PROVE  After(leaf, proof, k + 1) = Climb(After(leaf, proof, k), proof[k + 1])
<1> DEFINE part == SubSeq(proof, 1, k)
           step == proof[k + 1]
<1>1. k \in Nat /\ k + 1 \in 1..Len(proof) /\ Len(proof) \in Nat
  OBVIOUS
<1>2. part \in Seq(V) /\ step \in V
  BY <1>1
<1>3. SubSeq(proof, 1, k + 1) = Append(part, step)
  BY <1>1
<1> HIDE DEF part, step
<1>4. Folded(leaf, Append(part, step)) = Climb(Folded(leaf, part), step)
  BY <1>2, ClimbOne
<1> QED BY <1>3, <1>4 DEF After, part, step

(* A function over an initial interval is a sequence.                      *)
LEMMA FunctionIsSeq ==
  ASSUME NEW n \in Nat, NEW f, DOMAIN f = 1..n, f = [i \in 1..n |-> f[i]]
  PROVE  f \in Seq(Range(f)) /\ Len(f) = n
<1>1. \A i \in 1..n : f[i] \in Range(f)
  BY DEF Range
<1>2. f \in [1..n -> Range(f)]
  BY <1>1
<1>3. f \in Seq(Range(f))
  BY <1>2
<1> QED BY <1>3

IsSeq(s) == Len(s) \in Nat /\ s \in Seq(Range(s))

LEMMA ParentsShape ==
  ASSUME NEW level, IsSeq(level)
  PROVE  LET up == Parents(level, "raw")
             n == Len(level)
         IN  /\ IsSeq(up) /\ Len(up) = (n + 1) \div 2
             /\ \A i \in 1..Len(up) :
                  up[i] = <<"raw", level[2 * i - 1],
                            level[IF 2 * i <= n THEN 2 * i ELSE 2 * i - 1]>>
<1> DEFINE up == Parents(level, "raw")
           n == Len(level)
           m == (n + 1) \div 2
           node(i) == <<"raw", level[2 * i - 1], level[IF 2 * i <= n THEN 2 * i ELSE 2 * i - 1]>>
<1>1. n \in Nat /\ m \in Nat
  BY DEF IsSeq
<1>2. up = [i \in 1..m |-> node(i)]
  BY DEF Parents, Hash, hash_pair
<1> HIDE DEF up, node, m
<1>3. DOMAIN up = 1..m /\ up = [i \in 1..m |-> up[i]] /\ \A i \in 1..m : up[i] = node(i)
  BY <1>2
<1>4. up \in Seq(Range(up)) /\ Len(up) = m
  BY <1>1, <1>3, FunctionIsSeq
<1> QED BY <1>1, <1>3, <1>4 DEF IsSeq, up, node, m

(* Every level is a sequence, not empty, and shorter than the one below it *)
(* until it has one node.                                                  *)
LEMMA LevelShape ==
  ASSUME NEW V, NEW leaves \in Seq(V), leaves # <<>>, NEW k \in 0..Len(leaves)
  PROVE  LET level == Level(leaves, "raw")[k]
         IN  /\ IsSeq(level) /\ Len(level) >= 1
             /\ Len(level) = 1 \/ Len(level) + k <= Len(leaves)
<1> DEFINE at == Level(leaves, "raw")
           n == Len(leaves)
           Good(j) == /\ IsSeq(at[j]) /\ Len(at[j]) >= 1
                      /\ Len(at[j]) = 1 \/ Len(at[j]) + j <= n
           G == {j \in Nat : j <= n => Good(j)}
<1>1. at[0] = leaves /\ n \in Nat /\ n >= 1 /\ k \in Nat /\ k <= n
  BY LevelSteps
<1>2. \A j \in 0..(n - 1) : at[j + 1] = Parents(at[j], "raw")
  BY LevelSteps
<1> HIDE DEF at
<1>3. IsSeq(leaves)
  <2>1. DOMAIN leaves = 1..n /\ leaves = [i \in 1..n |-> leaves[i]]
    OBVIOUS
  <2> QED BY <1>1, <2>1, FunctionIsSeq DEF IsSeq
<1>4. 0 \in G
  BY <1>1, <1>3
<1>5. ASSUME NEW j \in Nat, j \in G PROVE j + 1 \in G
  <2> HIDE DEF Good
  <2> SUFFICES ASSUME j + 1 <= n PROVE Good(j + 1)
    OBVIOUS
  <2> USE DEF Good
  <2>1. j \in 0..(n - 1) /\ j <= n
    BY <1>1
  <2>2. Good(j)
    BY <1>5, <2>1
  <2>3. at[j + 1] = Parents(at[j], "raw")
    BY <1>2, <2>1
  <2> DEFINE a == Len(at[j])
             b == Len(at[j + 1])
  <2>4. IsSeq(at[j + 1]) /\ b = (a + 1) \div 2 /\ a \in Nat
    BY <2>2, <2>3, ParentsShape DEF IsSeq
  <2>5. a >= 1 /\ (a = 1 \/ a + j <= n)
    BY <2>2
  <2> HIDE DEF a, b
  <2>6. b \in Nat /\ b >= 1 /\ (b = 1 \/ b + 1 <= a)
    BY <2>4, <2>5
  <2>7. b = 1 \/ b + (j + 1) <= n
    BY <1>1, <2>4, <2>5, <2>6
  <2> QED BY <2>4, <2>6, <2>7 DEF b
<1> HIDE DEF G
<1>6. Nat \subseteq G
  BY <1>4, <1>5, NatSetInduction
<1> QED BY <1>1, <1>6 DEF G, at

(* The tree: its levels up to the first with one node.                     *)
LEMMA BuildShape ==
  ASSUME NEW V, NEW leaves \in Seq(V), leaves # <<>>
  PROVE  \E depth \in 0..Len(leaves) :
           LET level == Level(leaves, "raw")
               levels == build(leaves)
           IN  /\ Len(level[depth]) = 1
               /\ levels = [k \in 1..(depth + 1) |-> level[k - 1]]
               /\ Len(levels) = depth + 1
               /\ get_root(levels) = level[depth][1]
<1> DEFINE level == Level(leaves, "raw")
           n == Len(leaves)
           single == {k \in 0..n : Len(level[k]) = 1}
           First1(k) == Len(level[k]) = 1 /\ \A j \in 0..(k - 1) : Len(level[j]) > 1
           depth == CHOOSE k \in DOMAIN level : First1(k)
<1>1. n \in Nat /\ DOMAIN level = 0..n
  BY LevelSteps
<1>2. \A k \in 0..n : /\ Len(level[k]) \in Nat /\ Len(level[k]) >= 1
                      /\ Len(level[k]) = 1 \/ Len(level[k]) + k <= n
  BY LevelShape DEF IsSeq
<1> HIDE DEF level, n
<1>3. n \in single
  BY <1>1, <1>2
<1>4. PICK k \in single : \A j \in single : k <= j
  <2>1. single \in SUBSET Nat /\ single # {}
    BY <1>1, <1>3
  <2> HIDE DEF single
  <2> QED BY <2>1, LeastNat
<1>5. k \in 0..n /\ First1(k)
  <2>1. k \in 0..n /\ Len(level[k]) = 1
    BY <1>4
  <2>2. ASSUME NEW j \in 0..(k - 1) PROVE Len(level[j]) > 1
    <3>1. j \in 0..n /\ ~(k <= j)
      BY <1>1, <2>1
    <3>2. Len(level[j]) # 1
      BY <1>4, <3>1
    <3> DEFINE x == Len(level[j])
    <3>3. x \in Nat /\ x >= 1 /\ x # 1
      BY <1>2, <3>1, <3>2
    <3> HIDE DEF x
    <3>4. x > 1
      BY <3>3
    <3> QED BY <3>4 DEF x
  <2> QED BY <2>1, <2>2
<1>6. depth \in 0..n /\ First1(depth)
  <2> HIDE DEF First1
  <2> QED BY <1>1, <1>5
<1> DEFINE levels == build(leaves)
<1>7. levels = [j \in 1..(depth + 1) |-> level[j - 1]]
  BY DEF build, level
<1> HIDE DEF depth, levels
<1>8. DOMAIN levels = 1..(depth + 1) /\ levels = [j \in 1..(depth + 1) |-> levels[j]]
  BY <1>7
<1>9. depth + 1 \in Nat /\ depth + 1 \in 1..(depth + 1) /\ (depth + 1) - 1 = depth
  BY <1>1, <1>6
<1>10. Len(levels) = depth + 1
  BY <1>8, <1>9, FunctionIsSeq
<1>11. levels[depth + 1] = level[depth]
  BY <1>7, <1>9
<1>12. get_root(levels) = level[depth][1]
  BY <1>10, <1>11 DEF get_root, Last
<1> QED BY <1>6, <1>7, <1>10, <1>12 DEF level, n, levels

(* One level up: the node beside which a step puts its sibling.            *)
Sibling(a) == IF a % 2 = 1 THEN a - 1 ELSE a + 1

LEMMA ParentOf ==
  ASSUME NEW level, IsSeq(level), NEW a \in Nat, a < Len(level)
  PROVE  LET step == [hash |-> level[1 + IF Sibling(a) < Len(level) THEN Sibling(a) ELSE a],
                      is_right |-> a % 2 = 0]
         IN  /\ a \div 2 < Len(Parents(level, "raw"))
             /\ Climb(level[a + 1], step) = Parents(level, "raw")[(a \div 2) + 1]
<1> DEFINE n == Len(level)
           b == a \div 2
           up == Parents(level, "raw")
           step == [hash |-> level[1 + IF Sibling(a) < n THEN Sibling(a) ELSE a],
                    is_right |-> a % 2 = 0]
<1>1. /\ IsSeq(up) /\ Len(up) = (n + 1) \div 2 /\ n \in Nat
      /\ \A i \in 1..Len(up) :
           up[i] = <<"raw", level[2 * i - 1], level[IF 2 * i <= n THEN 2 * i ELSE 2 * i - 1]>>
  BY ParentsShape DEF IsSeq
<1>2. /\ b \in Nat /\ a % 2 \in {0, 1} /\ a = 2 * b + (a % 2)
  OBVIOUS
<1> HIDE DEF n, up
<1>3. b < Len(up) /\ b + 1 \in 1..Len(up) /\ Len(up) \in Nat
  BY <1>1, <1>2 DEF n
<1>4. up[b + 1] = <<"raw", level[2 * b + 1], level[IF 2 * b + 2 <= n THEN 2 * b + 2 ELSE 2 * b + 1]>>
  <2>1. 2 * (b + 1) - 1 = 2 * b + 1 /\ 2 * (b + 1) = 2 * b + 2
    BY <1>2
  <2> HIDE DEF b
  <2> QED BY <1>1, <1>3, <2>1
<1>5. CASE a % 2 = 0
  <2>1. a = 2 * b /\ Sibling(a) = a + 1
    BY <1>2, <1>5 DEF Sibling
  <2>2. Climb(level[a + 1], step) = <<"raw", level[a + 1], step.hash>>
    <3>0. step.is_right = (a % 2 = 0) /\ a % 2 = 0
      BY <1>5
    <3>1. step.is_right
      BY <3>0, Zenon
    <3> HIDE DEF step
    <3> QED BY <3>1 DEF Climb, hash_pair
  <2>3. step.hash = level[IF a + 2 <= n THEN a + 2 ELSE a + 1]
    <3>1. 1 + (IF a + 1 < n THEN a + 1 ELSE a) = IF a + 2 <= n THEN a + 2 ELSE a + 1
      BY <1>1
    <3> QED BY <2>1, <3>1
  <2>4. up[b + 1] = <<"raw", level[a + 1], level[IF a + 2 <= n THEN a + 2 ELSE a + 1]>>
    BY <1>4, <2>1
  <2> HIDE DEF step, b
  <2>5. Climb(level[a + 1], step) = up[b + 1]
    BY <2>2, <2>3, <2>4
  <2> QED BY <1>3, <2>5 DEF step, b, n, up
<1>6. CASE a % 2 = 1
  <2>1. a = 2 * b + 1 /\ Sibling(a) = a - 1 /\ a - 1 = 2 * b /\ a - 1 < n
    BY <1>1, <1>2, <1>6 DEF Sibling, n
  <2>2. Climb(level[a + 1], step) = <<"raw", step.hash, level[a + 1]>>
    <3>0. step.is_right = (a % 2 = 0) /\ a % 2 # 0
      BY <1>6
    <3>1. ~step.is_right
      BY <3>0, Zenon
    <3> HIDE DEF step
    <3> QED BY <3>1 DEF Climb, hash_pair
  <2>3. step.hash = level[a]
    <3>1. 1 + (IF a - 1 < n THEN a - 1 ELSE a) = a
      BY <1>1, <2>1
    <3> QED BY <2>1, <3>1
  <2>4. up[b + 1] = <<"raw", level[a], level[a + 1]>>
    <3>1. 2 * b + 1 = a /\ 2 * b + 2 = a + 1 /\ a + 1 <= n
      BY <1>1, <1>2, <2>1 DEF n
    <3> HIDE DEF b
    <3> QED BY <1>4, <3>1
  <2> HIDE DEF step, b
  <2>5. Climb(level[a + 1], step) = up[b + 1]
    BY <2>2, <2>3, <2>4
  <2> QED BY <1>3, <2>5 DEF step, b, n, up
<1> QED BY <1>2, <1>5, <1>6

(* The proof of a leaf leads from it to the root: after each step it is at *)
(* the leaf's ancestor of that level.                                      *)
LEMMA ProofVerifies ==
  ASSUME NEW V, NEW leaves \in Seq(V), NEW i \in 1..Len(leaves)
  PROVE  verify_proof(get_root(build(leaves)), leaves[i], generate_proof(build(leaves), i - 1))
<1> DEFINE at == Level(leaves, "raw")
           n == Len(leaves)
           levels == build(leaves)
           proof == generate_proof(levels, i - 1)
           index == Ancestor(i - 1)
           leaf == leaves[i]
<1>0. leaves # <<>> /\ i - 1 \in Nat /\ n \in Nat
  OBVIOUS
<1>1. PICK depth \in 0..n :
        /\ Len(at[depth]) = 1
        /\ levels = [k \in 1..(depth + 1) |-> at[k - 1]]
        /\ Len(levels) = depth + 1
        /\ get_root(levels) = at[depth][1]
  BY <1>0, BuildShape
<1>2. /\ at[0] = leaves
      /\ \A k \in 0..(n - 1) : at[k + 1] = Parents(at[k], "raw")
      /\ \A k \in 0..n : IsSeq(at[k])
  BY <1>0, LevelSteps, LevelShape
<1>3. /\ index[0] = i - 1
      /\ \A k \in Nat : index[k] \in Nat /\ index[k + 1] = index[k] \div 2
  BY <1>0, AncestorSteps
<1> DEFINE step(k) == [hash |-> at[k][1 + IF Sibling(index[k]) < Len(at[k]) THEN Sibling(index[k])
                                          ELSE index[k]],
                       is_right |-> index[k] % 2 = 0]
<1>4. /\ proof = [lvl \in 1..depth |-> step(lvl - 1)]
      /\ Len(proof) = depth /\ proof \in Seq(Range(proof))
  <2>1. proof = [lvl \in 1..(Len(levels) - 1) |->
          [hash |-> levels[lvl][1 + IF Sibling(index[lvl - 1]) < Len(levels[lvl])
                                    THEN Sibling(index[lvl - 1]) ELSE index[lvl - 1]],
           is_right |-> index[lvl - 1] % 2 = 0]]
    BY DEF generate_proof, Sibling
  <2>2. Len(levels) - 1 = depth /\ depth \in Nat
    BY <1>0, <1>1
  <2>3. \A lvl \in 1..depth : levels[lvl] = at[lvl - 1]
    BY <1>0, <1>1
  <2> HIDE DEF levels, at, index, proof
  <2>4. proof = [lvl \in 1..depth |-> step(lvl - 1)]
    BY <2>1, <2>2, <2>3
  <2>5. DOMAIN proof = 1..depth /\ proof = [lvl \in 1..depth |-> proof[lvl]]
    <3> HIDE DEF step
    <3> QED BY <2>4
  <2> QED BY <2>2, <2>4, <2>5, FunctionIsSeq
<1>5. /\ After(leaf, proof, 0) = leaf
      /\ After(leaf, proof, depth) = Folded(leaf, proof)
      /\ \A m \in 0..(depth - 1) : After(leaf, proof, m + 1) = Climb(After(leaf, proof, m), proof[m + 1])
  <2> HIDE DEF proof, step, index, levels
  <2>1. Len(proof) = depth /\ proof \in Seq(Range(proof))
    BY <1>4
  <2>2. After(leaf, proof, 0) = leaf /\ After(leaf, proof, depth) = Folded(leaf, proof)
    BY <2>1, AfterEnds
  <2>3. ASSUME NEW m \in 0..(depth - 1)
        PROVE  After(leaf, proof, m + 1) = Climb(After(leaf, proof, m), proof[m + 1])
    BY <2>1, AfterOne
  <2> QED BY <2>2, <2>3
<1> HIDE DEF at, levels, proof, index, step
<1> DEFINE Reached(m) == index[m] < Len(at[m]) /\ After(leaf, proof, m) = at[m][index[m] + 1]
           G == {m \in Nat : m <= depth => Reached(m)}
<1>6. 0 \in G
  <2>1. index[0] + 1 = i /\ index[0] < Len(at[0])
    BY <1>0, <1>2, <1>3
  <2> QED BY <1>2, <1>5, <2>1
<1>7. ASSUME NEW m \in Nat, m \in G PROVE m + 1 \in G
  <2> HIDE DEF Reached
  <2> SUFFICES ASSUME m + 1 <= depth PROVE Reached(m + 1)
    OBVIOUS
  <2>1. m \in 0..(depth - 1) /\ m <= depth /\ m \in 0..(n - 1) /\ m \in 0..n /\ m + 1 \in 1..depth
    BY <1>0, <1>1
  <2>2. Reached(m)
    BY <1>7, <2>1
  <2> DEFINE a == index[m]
             level == at[m]
  <2>3. a \in Nat /\ a < Len(level) /\ IsSeq(level) /\ After(leaf, proof, m) = level[a + 1]
    BY <1>2, <1>3, <2>1, <2>2 DEF Reached
  <2>4. at[m + 1] = Parents(level, "raw") /\ index[m + 1] = a \div 2
    BY <1>2, <1>3, <2>1
  <2>5. proof[m + 1] = [hash |-> level[1 + IF Sibling(a) < Len(level) THEN Sibling(a) ELSE a],
                        is_right |-> a % 2 = 0]
    <3>1. (m + 1) - 1 = m
      OBVIOUS
    <3>2. proof[m + 1] = step(m)
      BY <1>4, <2>1, <3>1
    <3> QED BY <3>2 DEF step
  <2>6. After(leaf, proof, m + 1) = Climb(level[a + 1], proof[m + 1])
    BY <1>5, <2>1, <2>3
  <2> HIDE DEF a, level
  <2>7. /\ a \div 2 < Len(Parents(level, "raw"))
        /\ Climb(level[a + 1], proof[m + 1]) = Parents(level, "raw")[(a \div 2) + 1]
    BY <2>3, <2>5, ParentOf
  <2> QED BY <2>4, <2>6, <2>7 DEF Reached
<1> HIDE DEF G
<1>8. depth \in G /\ depth \in Nat
  <2>1. Nat \subseteq G
    BY <1>6, <1>7, NatSetInduction
  <2> QED BY <1>0, <1>1, <2>1
<1>9. Reached(depth)
  BY <1>8 DEF G
<1>10. index[depth] = 0
  <2>1. index[depth] \in Nat /\ index[depth] < 1
    BY <1>1, <1>3, <1>8, <1>9
  <2> QED BY <2>1
<1>11. Folded(leaf, proof) = at[depth][1]
  BY <1>5, <1>9, <1>10
<1> QED BY <1>1, <1>11 DEF verify_proof, Folded, proof, levels

(* A leaf and a pair are different digests, and a pair determines its two  *)
(* parts.                                                                  *)
LEMMA Digests ==
  ASSUME NEW x, NEW y, NEW u, NEW v, NEW name
  PROVE  /\ <<"raw", x, y>> # <<name>>
         /\ <<"raw", x, y>> = <<"raw", u, v>> => x = u /\ y = v
<1>1. <<"raw", x, y>> # <<name>>
  <2>1. Len(<<"raw", x, y>>) = 3 /\ Len(<<name>>) = 1
    OBVIOUS
  <2> QED BY <2>1
<1>2. <<"raw", x, y>> = <<"raw", u, v>> => x = u /\ y = v
  OBVIOUS
<1> QED BY <1>1, <1>2

(* A step yields a pair of which the hash before it is a part.             *)
LEMMA ClimbPair ==
  ASSUME NEW hash, NEW step
  PROVE  \E x, y : Climb(hash, step) = <<"raw", x, y>> /\ (hash = x \/ hash = y)
BY DEF Climb, hash_pair

(* Above the leaves a level has only pairs of nodes of the level below it. *)
LEMMA NodePair ==
  ASSUME NEW level, IsSeq(level), NEW h, h \in ToSet(Parents(level, "raw"))
  PROVE  \E x, y \in ToSet(level) : h = <<"raw", x, y>>
<1> DEFINE up == Parents(level, "raw")
           n == Len(level)
<1>1. /\ IsSeq(up) /\ Len(up) = (n + 1) \div 2 /\ n \in Nat
      /\ \A i \in 1..Len(up) :
           up[i] = <<"raw", level[2 * i - 1], level[IF 2 * i <= n THEN 2 * i ELSE 2 * i - 1]>>
  BY ParentsShape DEF IsSeq
<1>2. PICK i \in DOMAIN up : h = up[i]
  BY DEF ToSet
<1> HIDE DEF up
<1>3. i \in 1..Len(up) /\ DOMAIN level = 1..n
  BY <1>1, <1>2 DEF IsSeq
<1>4. 2 * i - 1 \in 1..n /\ (IF 2 * i <= n THEN 2 * i ELSE 2 * i - 1) \in 1..n
  BY <1>1, <1>3
<1>5. level[2 * i - 1] \in ToSet(level)
      /\ level[IF 2 * i <= n THEN 2 * i ELSE 2 * i - 1] \in ToSet(level)
  BY <1>3, <1>4 DEF ToSet
<1> QED BY <1>1, <1>2, <1>3, <1>5

(* No sequence of steps leads from anything but a leaf of a tree to its    *)
(* root: read backwards, the hashes are nodes of the tree, level by level. *)
LEMMA OnlyLeavesVerify ==
  ASSUME NEW leaves \in Seq(Leaves), NEW tx \in Leaves, NEW V, NEW proof \in Seq(V),
         "empty" \notin TxNames, verify_proof(get_root(build(leaves)), tx, proof)
  PROVE  tx \in ToSet(leaves)
<1> DEFINE m == Len(proof)
           h(k) == After(tx, proof, k)
<1>1. /\ h(0) = tx /\ h(m) = get_root(build(leaves)) /\ m \in Nat
      /\ \A k \in 0..(m - 1) : h(k + 1) = Climb(h(k), proof[k + 1])
  <2>1. get_root(build(leaves)) = Folded(tx, proof)
    BY DEF verify_proof, Folded
  <2>2. h(0) = tx
    BY AfterEnds
  <2>3. h(m) = Folded(tx, proof)
    BY AfterEnds
  <2>4. ASSUME NEW k \in 0..(m - 1) PROVE h(k + 1) = Climb(h(k), proof[k + 1])
    BY AfterOne
  <2>5. m \in Nat
    OBVIOUS
  <2> QED BY <2>1, <2>2, <2>3, <2>4, <2>5
<1> HIDE DEF m, h
<1>2. PICK name \in TxNames : tx = <<name>>
  BY DEF Leaves
<1>3. ASSUME NEW k \in 1..m PROVE \E x, y : h(k) = <<"raw", x, y>> /\ (h(k - 1) = x \/ h(k - 1) = y)
  <2>1. k - 1 \in 0..(m - 1) /\ (k - 1) + 1 = k
    BY <1>1
  <2> DEFINE before == h(k - 1)
             step == proof[k]
  <2>2. h(k) = Climb(before, step)
    BY <1>1, <2>1
  <2> HIDE DEF before, step
  <2>3. PICK x, y : Climb(before, step) = <<"raw", x, y>> /\ (before = x \/ before = y)
    BY ClimbPair
  <2> QED BY <2>2, <2>3 DEF before
<1>4. CASE leaves = <<>>
  <2>1. get_root(build(leaves)) = <<"empty">>
    BY <1>4 DEF get_root, build, Last
  <2>2. CASE m = 0
    <3>1. <<name>>[1] = name /\ <<"empty">>[1] = "empty"
      OBVIOUS
    <3> QED BY <1>1, <1>2, <2>1, <2>2, <3>1
  <2>3. CASE m # 0
    <3>1. m \in 1..m
      BY <1>1, <2>3
    <3> QED BY <1>1, <1>3, <2>1, <3>1, Digests
  <2> QED BY <2>2, <2>3
<1>5. CASE leaves # <<>>
  <2> DEFINE at == Level(leaves, "raw")
             n == Len(leaves)
  <2>1. PICK depth \in 0..n : Len(at[depth]) = 1 /\ get_root(build(leaves)) = at[depth][1]
    BY <1>5, BuildShape
  <2>2. /\ at[0] = leaves /\ n \in Nat
        /\ \A k \in 0..(n - 1) : at[k + 1] = Parents(at[k], "raw")
        /\ \A k \in 0..n : IsSeq(at[k])
    <3>1. at[0] = leaves /\ \A k \in 0..(n - 1) : at[k + 1] = Parents(at[k], "raw")
      BY LevelSteps
    <3>2. \A k \in 0..n : IsSeq(at[k])
      BY <1>5, LevelShape
    <3>3. n \in Nat
      OBVIOUS
    <3> QED BY <3>1, <3>2, <3>3
  <2> HIDE DEF at, n
  <2>3. ASSUME NEW k \in 1..depth, NEW g \in ToSet(at[k])
        PROVE  \E x, y \in ToSet(at[k - 1]) : g = <<"raw", x, y>>
    <3>1. k - 1 \in 0..(n - 1) /\ (k - 1) + 1 = k /\ k - 1 \in 0..n
      BY <2>1, <2>2
    <3>2. at[k] = Parents(at[k - 1], "raw") /\ IsSeq(at[k - 1])
      BY <2>2, <3>1
    <3> QED BY <2>3, <3>2, NodePair
  <2> DEFINE Inside(j) == h(m - j) \in ToSet(at[depth - j])
             G == {j \in Nat : j <= m /\ j <= depth => Inside(j)}
  <2>4. 0 \in G
    <3>1. DOMAIN at[depth] = 1..1
      BY <2>1, <2>2 DEF IsSeq
    <3>2. 1 \in 1..1
      OBVIOUS
    <3>3. at[depth][1] \in ToSet(at[depth])
      BY <3>1, <3>2 DEF ToSet
    <3>4. m - 0 = m /\ depth - 0 = depth
      BY <1>1, <2>1, <2>2
    <3> QED BY <1>1, <2>1, <3>3, <3>4
  <2>5. ASSUME NEW j \in Nat, j \in G PROVE j + 1 \in G
    <3> HIDE DEF Inside
    <3> SUFFICES ASSUME j + 1 <= m, j + 1 <= depth PROVE Inside(j + 1)
      OBVIOUS
    <3>1. /\ j <= m /\ j <= depth /\ m - j \in 1..m /\ depth - j \in 1..depth
          /\ (m - j) - 1 = m - (j + 1) /\ (depth - j) - 1 = depth - (j + 1)
      BY <1>1, <2>1, <2>2, SMTT(40)
    <3>2. h(m - j) \in ToSet(at[depth - j])
      BY <2>5, <3>1 DEF Inside
    <3>3. PICK x, y : h(m - j) = <<"raw", x, y>> /\ (h(m - (j + 1)) = x \/ h(m - (j + 1)) = y)
      BY <1>3, <3>1
    <3>4. PICK u, v \in ToSet(at[depth - (j + 1)]) : h(m - j) = <<"raw", u, v>>
      BY <2>3, <3>1, <3>2
    <3>5. x = u /\ y = v
      BY <3>3, <3>4, Digests
    <3> QED BY <3>3, <3>4, <3>5 DEF Inside
  <2> HIDE DEF G
  <2>6. Nat \subseteq G
    BY <2>4, <2>5, NatSetInduction
  <2>7. depth \in Nat
    BY <2>1, <2>2
  <2>8. CASE m < depth
    <3>1. m \in G /\ m <= depth /\ m - m = 0 /\ depth - m \in 1..depth
      BY <1>1, <2>6, <2>7, <2>8
    <3>2. tx \in ToSet(at[depth - m])
      BY <1>1, <3>1 DEF G
    <3>3. PICK u, v : tx = <<"raw", u, v>>
      BY <2>3, <3>1, <3>2
    <3> QED BY <1>2, <3>3, Digests
  <2>9. CASE m = depth
    <3>1. m \in G /\ m <= depth /\ m - m = 0 /\ depth - m = 0
      BY <1>1, <2>6, <2>7, <2>9
    <3> QED BY <1>1, <2>2, <3>1 DEF G
  <2>10. CASE m > depth
    <3>1. depth \in G /\ depth <= m /\ depth - depth = 0 /\ m - depth \in 1..m
      BY <1>1, <2>6, <2>7, <2>10
    <3>2. h(m - depth) \in ToSet(leaves)
      BY <2>2, <2>7, <3>1 DEF G
    <3>3. ToSet(leaves) \subseteq Leaves
      BY DEF ToSet
    <3>4. PICK other \in TxNames : h(m - depth) = <<other>>
      BY <3>2, <3>3 DEF Leaves
    <3>5. PICK x, y : h(m - depth) = <<"raw", x, y>>
      BY <1>3, <3>1
    <3> QED BY <3>4, <3>5, Digests
  <2> QED BY <1>1, <2>7, <2>8, <2>9, <2>10
<1> QED BY <1>4, <1>5

LEMMA SeqGrows ==
  ASSUME NEW s, IsSeq(s), NEW x
  PROVE  LET t == Append(s, x)
         IN  /\ IsSeq(t) /\ Len(t) = Len(s) + 1 /\ ToSet(t) = ToSet(s) \cup {x}
             /\ t[Len(s) + 1] = x /\ \A n \in 1..Len(s) : t[n] = s[n]
<1> DEFINE t == Append(s, x)
           n == Len(s)
           V == Range(s) \cup {x}
<1>1. s \in Seq(V) /\ n \in Nat /\ x \in V
  BY DEF IsSeq
<1> HIDE DEF V
<1>2. t \in Seq(V) /\ Len(t) = n + 1
  BY <1>1
<1>3. t[n + 1] = x /\ \A k \in 1..n : t[k] = s[k]
  BY <1>1
<1>4. DOMAIN s = 1..n /\ DOMAIN t = 1..(n + 1)
  BY <1>1, <1>2
<1> HIDE DEF t, n
<1>5. t = [k \in 1..(n + 1) |-> t[k]]
  BY <1>2, <1>4
<1>6. IsSeq(t)
  BY <1>1, <1>2, <1>4, <1>5, FunctionIsSeq DEF IsSeq
<1>7. \A k \in 1..(n + 1) : k \in 1..n \/ k = n + 1
  BY <1>1
<1>8. 1..n \subseteq 1..(n + 1) /\ n + 1 \in 1..(n + 1)
  BY <1>1
<1>9. ToSet(t) = ToSet(s) \cup {x}
  BY <1>3, <1>4, <1>7, <1>8 DEF ToSet
<1> QED BY <1>2, <1>3, <1>6, <1>9 DEF t, n

-----------------------------------------------------------------------------
(* The light client.  Blocks stay as they were published, and the client's *)
(* headers are those of published blocks, up to a signature.               *)
LcInv ==
  /\ IsSeq(published) /\ IsSeq(headers)
  /\ \A n \in 1..Len(published) :
       LET block == published[n]
       IN  /\ block.body \in LcBodies /\ block.header.height = n
           /\ block.by = "tree" => block.header.merkle_root = get_root(build(block.body))
  /\ \A h \in ToSet(headers) :
       /\ h.height \in 1..Len(published)
       /\ h.merkle_root = published[h.height].header.merkle_root

LEMMA LcSynced ==
  ASSUME LcInv, NEW n \in 1..Len(published), NEW h, h.height = n,
         h.merkle_root = published[n].header.merkle_root,
         headers' \in {Append(headers, h), headers}, UNCHANGED published
  PROVE  LcInv'
<1>1. IsSeq(headers') /\ ToSet(headers') \subseteq ToSet(headers) \cup {h}
  <2>1. IsSeq(headers)
    BY DEF LcInv
  <2>2. IsSeq(Append(headers, h)) /\ ToSet(Append(headers, h)) = ToSet(headers) \cup {h}
    BY <2>1, SeqGrows
  <2> QED BY <2>1, <2>2
<1>2. ASSUME NEW g \in ToSet(headers')
      PROVE  /\ g.height \in 1..Len(published)
             /\ g.merkle_root = published[g.height].header.merkle_root
  BY <1>1 DEF LcInv
<1>3. published' = published
  OBVIOUS
<1> QED BY <1>1, <1>2, <1>3 DEF LcInv

LEMMA LcInductive == LcSpec => []LcInv
<1>1. LcInit => LcInv
  <2> SUFFICES ASSUME LcInit PROVE LcInv
    OBVIOUS
  <2>1. published = <<>> /\ headers = <<>>
    BY DEF LcInit
  <2>2. IsSeq(<<>>) /\ Len(<<>>) = 0 /\ 1..0 = {} /\ ToSet(<<>>) = {}
    BY DEF IsSeq, ToSet
  <2> QED BY <2>1, <2>2 DEF LcInv
<1>2. LcInv /\ [LcNext]_lcVars => LcInv'
  <2> SUFFICES ASSUME LcInv, [LcNext]_lcVars PROVE LcInv'
    OBVIOUS
  <2>0. Len(published) \in Nat
    BY DEF LcInv, IsSeq
  <2>1. ASSUME NEW p \in Publishers, NEW signed \in BOOLEAN, NEW body \in LcBodies, Publish(p, signed, body)
        PROVE  LcInv'
    <3> DEFINE h == [height |-> Len(published) + 1,
                     prev_block_hash |-> Len(published),
                     merkle_root |-> IF p = "tree" THEN get_root(build(body))
                                     ELSE IF body = <<>> THEN <<>> ELSE calculate_tree_hash(body),
                     validator_signature |-> <<>>]
               new == [by |-> p, body |-> body,
                       header |-> [h EXCEPT !.validator_signature =
                                     CASE ~signed -> <<>>
                                       [] signed /\ p = "node" -> BlockPayload(h, body)
                                       [] signed /\ p = "tree" -> HeaderPayload(h)]]
               n == Len(published)
    <3>1. published' = Append(published, new) /\ headers' = headers
      BY <2>1 DEF Publish
    <3>2. /\ new.body \in LcBodies /\ new.header.height = n + 1
          /\ new.by = "tree" => new.header.merkle_root = get_root(build(new.body))
      OBVIOUS
    <3> HIDE DEF new, h
    <3>3. /\ IsSeq(published') /\ Len(published') = n + 1 /\ published'[n + 1] = new
          /\ \A k \in 1..n : published'[k] = published[k]
      BY <3>1, SeqGrows DEF LcInv
    <3> HIDE DEF n
    <3>4. ASSUME NEW k \in 1..(n + 1)
          PROVE  LET block == published'[k]
                 IN  /\ block.body \in LcBodies /\ block.header.height = k
                     /\ block.by = "tree" => block.header.merkle_root = get_root(build(block.body))
      <4>1. k \in 1..n \/ k = n + 1
        BY <2>0 DEF n
      <4> QED BY <3>2, <3>3, <4>1 DEF LcInv, n
    <3>5. ASSUME NEW g \in ToSet(headers)
          PROVE  /\ g.height \in 1..(n + 1)
                 /\ g.merkle_root = published'[g.height].header.merkle_root
      <4>1. g.height \in 1..n /\ g.merkle_root = published[g.height].header.merkle_root
        BY DEF LcInv, n
      <4>2. 1..n \subseteq 1..(n + 1)
        BY <2>0 DEF n
      <4> QED BY <3>3, <4>1, <4>2
    <3>6. IsSeq(headers)
      BY DEF LcInv
    <3> QED BY <3>1, <3>3, <3>4, <3>5, <3>6 DEF LcInv
  <2>2. ASSUME NEW n \in 1..Len(published), SyncHeader(n) PROVE LcInv'
    <3> DEFINE h == published[n].header
    <3>1. headers' \in {Append(headers, h), headers} /\ UNCHANGED published
      BY <2>2 DEF SyncHeader
    <3>2. h.height = n
      BY DEF LcInv
    <3> QED BY <3>1, <3>2, LcSynced
  <2>3. ASSUME NEW n \in 1..Len(published), SyncBareHeader(n) PROVE LcInv'
    <3> DEFINE h == [published[n].header EXCEPT !.validator_signature = <<>>]
    <3>1. headers' \in {Append(headers, h), headers} /\ UNCHANGED published
      BY <2>3 DEF SyncBareHeader
    <3>2. h.height = n /\ h.merkle_root = published[n].header.merkle_root
      BY DEF LcInv
    <3> HIDE DEF h
    <3> QED BY <3>1, <3>2, LcSynced
  <2>4. CASE UNCHANGED lcVars
    BY <2>4 DEF lcVars, LcInv
  <2> QED BY <2>1, <2>2, <2>3, <2>4 DEF LcNext
<1> QED BY <1>1, <1>2, PTL DEF LcSpec

LEMMA LcProofSeq ==
  ASSUME NEW body \in LcBodies, NEW k
  PROVE  \E V : generate_proof(build(body), k) \in Seq(V)
<1> DEFINE levels == build(body)
           proof == generate_proof(levels, k)
           m == Len(levels) - 1
<1>0. body \in Seq(Leaves)
  BY LcConstants
<1>1. m \in Nat
  <2>1. CASE body = <<>>
    BY <2>1 DEF build
  <2>2. CASE body # <<>>
    <3>1. PICK depth \in 0..Len(body) : Len(levels) = depth + 1
      BY <1>0, <2>2, BuildShape
    <3> HIDE DEF levels
    <3>2. Len(body) \in Nat
      BY <1>0
    <3> QED BY <3>1, <3>2
  <2> QED BY <2>1, <2>2
<1> HIDE DEF levels
<1>2. DOMAIN proof = 1..m /\ proof = [lvl \in 1..m |-> proof[lvl]]
  BY DEF generate_proof
<1> HIDE DEF proof, m
<1>3. proof \in Seq(Range(proof))
  BY <1>1, <1>2, FunctionIsSeq
<1> QED BY <1>3 DEF proof, levels

LEMMA LcJudged == LcInv => InclusionExact
<1> SUFFICES ASSUME LcInv, NEW h \in ToSet(headers), published[h.height].by = "tree"
             PROVE  LET block == published[h.height] IN
                    /\ \A i \in DOMAIN block.body :
                         verify_transaction_inclusion(h.height, block.body[i],
                                                      generate_proof(build(block.body), i - 1))
                    /\ \A other \in ToSet(published) : \A i \in DOMAIN other.body :
                         \A tx \in Leaves \ ToSet(block.body) :
                           ~verify_transaction_inclusion(h.height, tx,
                                                         generate_proof(build(other.body), i - 1))
  BY DEF InclusionExact
<1> DEFINE block == published[h.height]
           root == get_root(build(block.body))
<1>1. /\ h.height \in 1..Len(published) /\ block.body \in LcBodies /\ h.merkle_root = root
      /\ \A g \in ToSet(headers) : g.height = h.height => g.merkle_root = root
  BY DEF LcInv
<1>2. block.body \in Seq(Leaves) /\ DOMAIN block.body = 1..Len(block.body)
  BY <1>1, LcConstants
<1> HIDE DEF block
<1>3. ASSUME NEW i \in DOMAIN block.body
      PROVE  verify_transaction_inclusion(h.height, block.body[i],
                                          generate_proof(build(block.body), i - 1))
  <2>1. verify_proof(root, block.body[i], generate_proof(build(block.body), i - 1))
    BY <1>2, ProofVerifies
  <2>2. h \in get_header(h.height)
    BY DEF get_header
  <2> HIDE DEF root
  <2> QED BY <1>1, <2>1, <2>2 DEF verify_transaction_inclusion
<1>4. ASSUME NEW other \in ToSet(published), NEW i \in DOMAIN other.body,
             NEW tx \in Leaves \ ToSet(block.body),
             verify_transaction_inclusion(h.height, tx, generate_proof(build(other.body), i - 1))
      PROVE  FALSE
  <2> DEFINE proof == generate_proof(build(other.body), i - 1)
  <2>1. PICK g \in get_header(h.height) : verify_proof(g.merkle_root, tx, proof)
    BY <1>4 DEF verify_transaction_inclusion
  <2>2. g.merkle_root = root
    BY <1>1, <2>1 DEF get_header
  <2>3. other.body \in LcBodies
    <3>1. DOMAIN published = 1..Len(published)
      BY DEF LcInv, IsSeq
    <3>2. PICK n \in DOMAIN published : other = published[n]
      BY DEF ToSet
    <3> QED BY <3>1, <3>2 DEF LcInv
  <2>4. PICK V : proof \in Seq(V)
    BY <2>3, LcProofSeq
  <2>5. "empty" \notin TxNames /\ tx \in Leaves /\ tx \notin ToSet(block.body)
    BY LcConstants
  <2>6. verify_proof(get_root(build(block.body)), tx, proof)
    BY <2>1, <2>2
  <2> HIDE DEF proof, root
  <2> QED BY <1>2, <2>4, <2>5, <2>6, OnlyLeavesVerify
<1> QED BY <1>3, <1>4 DEF block

(* For trees of any size and any sequence of blocks and headers, a client  *)
(* that holds the header of a block of the tree class is convinced of every*)
(* transaction in it by the proof that generate_proof makes for its leaf,  *)
(* and of no other transaction by a proof made for any leaf of any block.  *)
THEOREM LightClientInclusionExact == LcSpec => []InclusionExact
<1> QED BY LcInductive, LcJudged, PTL

-----------------------------------------------------------------------------
(* The binary form.  Three kinds of fields, how each is written, and which *)
(* values a reader accepts.                                                *)
Kinds == {"int", "string", "bytes"}

FieldValue(kind) == IF kind = "int" THEN Nat ELSE Bytes

Encode(kind, v) == IF kind = "int" THEN <<v>> ELSE WriteString(v)

Fits(kind, v) == kind = "int" \/ Len(v) <= Limit(kind)

LEMMA EncodeType ==
  ASSUME NEW kind, NEW v \in FieldValue(kind)
  PROVE  Encode(kind, v) \in Bytes
<1>1. CASE kind = "int"
  BY <1>1 DEF Encode, FieldValue, Bytes
<1>2. CASE kind # "int"
  <2>1. v \in Seq(Nat) /\ <<Len(v)>> \in Seq(Nat)
    BY <1>2 DEF FieldValue, Bytes
  <2> QED BY <1>2, <2>1 DEF Encode, WriteString, Bytes
<1> QED BY <1>1, <1>2

LEMMA LimitType == ASSUME NEW kind PROVE Limit(kind) \in Nat
BY WireConstants DEF Limit

LEMMA Readers ==
  ASSUME NEW left, NEW got
  PROVE  /\ Reader(left, got).left = left /\ Reader(left, got).got = got
         /\ Reader(left, got).ok = TRUE /\ Thrown.ok = FALSE
BY DEF Reader, Thrown

(* Cutting a concatenation where it was joined, and joining what was cut.  *)
LEMMA CutConcat ==
  ASSUME NEW s \in Seq(Nat), NEW t \in Seq(Nat)
  PROVE  /\ s \o t \in Seq(Nat) /\ Len(s \o t) = Len(s) + Len(t)
         /\ SubSeq(s \o t, 1, Len(s)) = s
         /\ SubSeq(s \o t, Len(s) + 1, Len(s \o t)) = t
<1> DEFINE m == Len(s)
           n == Len(t)
           w == s \o t
<1>1. /\ w \in Seq(Nat) /\ Len(w) = m + n /\ m \in Nat /\ n \in Nat
      /\ \A i \in 1..(m + n) : w[i] = IF i <= m THEN s[i] ELSE t[i - m]
  BY ConcatProperties
<1> HIDE DEF w
<1>2. SubSeq(w, 1, m) = s
  <2> DEFINE part == SubSeq(w, 1, m)
  <2>1. part \in Seq(Nat) /\ Len(part) = m /\ \A i \in 1..m : part[i] = w[i]
    BY <1>1
  <2>2. \A i \in 1..m : part[i] = s[i]
    BY <1>1, <2>1
  <2> HIDE DEF part
  <2> QED BY <2>1, <2>2, SeqEqual DEF part
<1>3. SubSeq(w, m + 1, m + n) = t
  <2> DEFINE part == SubSeq(w, m + 1, m + n)
  <2>1. part \in Seq(Nat) /\ Len(part) = n
    BY <1>1, SMTT(40)
  <2>2. ASSUME NEW i \in 1..n PROVE part[i] = t[i]
    <3> DEFINE k == m + i
    <3>1. part[i] = w[k]
      BY <1>1
    <3>2. k \in 1..(m + n) /\ ~(k <= m) /\ k - m = i
      BY <1>1
    <3> HIDE DEF k, part
    <3> QED BY <1>1, <3>1, <3>2
  <2> HIDE DEF part
  <2> QED BY <2>1, <2>2, SeqEqual DEF part
<1> QED BY <1>1, <1>2, <1>3 DEF w

LEMMA JoinCut ==
  ASSUME NEW s \in Seq(Nat), NEW n \in 0..Len(s)
  PROVE  LET v == SubSeq(s, 1, n)
             rest == SubSeq(s, n + 1, Len(s))
         IN  v \in Seq(Nat) /\ Len(v) = n /\ rest \in Seq(Nat) /\ v \o rest = s
<1> DEFINE m == Len(s)
<1>1. m \in Nat /\ 1 \in 1..(m + 1) /\ n \in 0..m /\ n \in (1 - 1)..m /\ m \in n..m
  OBVIOUS
<1>2. SubSeq(s, 1, n) \o SubSeq(s, n + 1, m) = SubSeq(s, 1, m)
  BY <1>1, ConcatAdjacentSubSeq
<1>3. SubSeq(s, 1, m) = s
  BY SubSeqFull
<1>4. SubSeq(s, 1, n) \in Seq(Nat) /\ Len(SubSeq(s, 1, n)) = n
  BY <1>1
<1>5. SubSeq(s, n + 1, m) \in Seq(Nat)
  BY <1>1
<1> QED BY <1>2, <1>3, <1>4, <1>5

LEMMA HeadAndTail ==
  ASSUME NEW n \in Nat, NEW s \in Seq(Nat)
  PROVE  <<n>> \o s # <<>> /\ Head(<<n>> \o s) = n /\ Tail(<<n>> \o s) = s
OBVIOUS

(* What was written is read, unless it is too long.                        *)
LEMMA ReadEncoded ==
  ASSUME NEW kind \in Kinds, NEW v \in FieldValue(kind), NEW rest \in Bytes, NEW got
  PROVE  Read(Reader(Encode(kind, v) \o rest, got), kind)
           = IF Fits(kind, v) THEN Reader(rest, Append(got, v)) ELSE Thrown
<1> DEFINE left == Encode(kind, v) \o rest
           r == Reader(left, got)
<1>0. rest \in Seq(Nat)
  BY DEF Bytes
<1>1. r.ok /\ r.left = left /\ r.got = got
  BY Readers, ZenonT(60)
<1>2. CASE kind = "int"
  <2>1. left = <<v>> \o rest /\ v \in Nat
    BY <1>2 DEF Encode, FieldValue
  <2>2. left # <<>> /\ Head(left) = v /\ Tail(left) = rest
    <3> HIDE DEF left
    <3> QED BY <1>0, <2>1
  <2> HIDE DEF left, r
  <2>3. Read(r, kind) = Reader(rest, Append(got, v))
    BY <1>1, <1>2, <2>2 DEF Read
  <2> QED BY <1>2, <2>3 DEF Fits, r, left
<1>3. CASE kind # "int"
  <2> DEFINE n == Len(v)
             w == v \o rest
  <2>1. v \in Seq(Nat) /\ n \in Nat /\ <<n>> \in Seq(Nat)
    BY <1>3 DEF FieldValue, Bytes
  <2>2. /\ w \in Seq(Nat) /\ Len(w) = n + Len(rest) /\ Len(rest) \in Nat
        /\ SubSeq(w, 1, n) = v /\ SubSeq(w, n + 1, Len(w)) = rest
    BY <1>0, <2>1, CutConcat
  <2>3. left = <<n>> \o w
    <3>1. left = (<<n>> \o v) \o rest
      BY <1>3 DEF Encode, WriteString
    <3> HIDE DEF left, n
    <3> QED BY <1>0, <2>1, <3>1, Regroup, SMTT(40)
  <2> HIDE DEF left, r, n, w
  <2>4. left # <<>> /\ Head(left) = n /\ Tail(left) = w
    BY <2>1, <2>2, <2>3, HeadAndTail
  <2>5. ~(n > Len(w)) /\ Limit(kind) \in Nat
    BY <2>1, <2>2, LimitType
  <2>6. Read(r, kind) = IF n > Limit(kind) THEN Thrown ELSE Reader(rest, Append(got, v))
    BY <1>1, <1>3, <2>2, <2>4, <2>5 DEF Read
  <2>7. Fits(kind, v) <=> ~(n > Limit(kind))
    BY <1>3, <2>1, <2>5 DEF Fits, n
  <2> QED BY <2>6, <2>7 DEF r, left
<1> QED BY <1>2, <1>3

(* What is read was written, and fits.                                     *)
LEMMA ReadDecodes ==
  ASSUME NEW kind \in Kinds, NEW left \in Bytes, NEW got, Read(Reader(left, got), kind).ok
  PROVE  \E v \in FieldValue(kind), rest \in Bytes : Fits(kind, v) /\ left = Encode(kind, v) \o rest
<1> DEFINE r == Reader(left, got)
           word == Head(left)
<1>0. left \in Seq(Nat)
  BY DEF Bytes
<1>1. r.ok /\ r.left = left /\ r.got = got /\ ~Thrown.ok
  BY Readers
<1> HIDE DEF r
<1>2. left # <<>>
  BY <1>1 DEF Read, r
<1>3. word \in Nat /\ Tail(left) \in Seq(Nat) /\ left = <<word>> \o Tail(left)
  BY <1>0, <1>2
<1>4. CASE kind = "int"
  <2>1. word \in FieldValue(kind) /\ Tail(left) \in Bytes /\ Fits(kind, word)
        /\ left = Encode(kind, word) \o Tail(left)
    BY <1>3, <1>4 DEF FieldValue, Bytes, Fits, Encode
  <2> QED BY <2>1
<1>5. CASE kind # "int"
  <2> DEFINE w == Tail(left)
             v == SubSeq(w, 1, word)
             rest == SubSeq(w, word + 1, Len(w))
  <2>1. ~(word > Limit(kind)) /\ ~(word > Len(w))
    BY <1>1, <1>5 DEF Read, r
  <2> HIDE DEF word, w
  <2>2. w \in Seq(Nat) /\ Len(w) \in Nat /\ word \in 0..Len(w) /\ word <= Limit(kind)
    BY <1>3, <2>1, LimitType DEF w
  <2>3. v \in Seq(Nat) /\ Len(v) = word /\ rest \in Seq(Nat) /\ v \o rest = w
    BY <2>2, JoinCut
  <2> HIDE DEF v, rest
  <2>4. left = WriteString(v) \o rest
    <3>1. <<word>> \in Seq(Nat)
      BY <1>3
    <3>2. v \in Seq(Nat) /\ rest \in Seq(Nat)
      BY <2>3
    <3>3. (<<word>> \o v) \o rest = <<word>> \o (v \o rest)
      BY ONLY <3>1, <3>2, Regroup
    <3>4. v \o rest = w /\ WriteString(v) = <<word>> \o v
      BY <2>3 DEF WriteString
    <3>5. left = <<word>> \o w
      BY <1>3 DEF w
    <3> QED BY <3>3, <3>4, <3>5
  <2>5. v \in FieldValue(kind) /\ rest \in Bytes /\ Fits(kind, v) /\ left = Encode(kind, v) \o rest
    BY <1>5, <2>2, <2>3, <2>4 DEF FieldValue, Bytes, Fits, Encode
  <2> QED BY <2>5
<1> QED BY <1>4, <1>5

LEMMA ReadThrown == ASSUME NEW kind PROVE Read(Thrown, kind) = Thrown
BY DEF Read, Thrown


-----------------------------------------------------------------------------
(* Writing and reading are folds.                                          *)
Writing == INSTANCE FoldTheorems WITH Op <- LAMBDA part, output : output \o part, Pick <- Max

ReadingFields == INSTANCE FoldTheorems WITH Op <- LAMBDA kind, r : Read(r, kind), Pick <- Max

ReadingList == INSTANCE FoldTheorems WITH Op <- LAMBDA kinds, r : ReadElement(r, kinds), Pick <- Max

LEMMA WrittenNone == Written(<<>>) = <<>>
<1>1. Written(<<>>) = Writing!Fold(<<>>, <<>>, DOMAIN <<>>)
  BY DEF Written, FoldLeft, MapThenFoldSet, Writing!Fold, Writing!Fixpoint, Writing!Unfolded
<1>2. DOMAIN <<>> = {} /\ 1..0 = {}
  OBVIOUS
<1>3. Writing!Founded(1..0)
  BY LeftFounded DEF Writing!Founded
<1> QED BY <1>1, <1>2, <1>3, Writing!FoldEmpty

LEMMA WrittenOne ==
  ASSUME NEW V, NEW parts \in Seq(V), NEW part \in V
  PROVE  Written(Append(parts, part)) = Written(parts) \o part
<1>1. \A s : Written(s) = Writing!Fold(<<>>, s, DOMAIN s)
  BY DEF Written, FoldLeft, MapThenFoldSet, Writing!Fold, Writing!Fixpoint, Writing!Unfolded
<1>2. \A n \in Nat : Writing!Founded(1..n) /\ Writing!Picks(1..n)
  BY LeftFounded DEF Writing!Founded, Writing!Picks
<1>3. \A n \in Nat : Max(1..(n + 1)) = n + 1
  BY MaxInterval
<1>4. Writing!Fold(<<>>, Append(parts, part), DOMAIN Append(parts, part))
        = Writing!Fold(<<>>, parts, DOMAIN parts) \o part
  BY <1>2, <1>3, Writing!FoldAppend
<1> QED BY <1>1, <1>4

LEMMA FieldsNone == ASSUME NEW r PROVE ReadFields(r, <<>>) = r
<1>1. ReadFields(r, <<>>) = ReadingFields!Fold(r, <<>>, DOMAIN <<>>)
  BY DEF ReadFields, FoldLeft, MapThenFoldSet, ReadingFields!Fold, ReadingFields!Fixpoint,
         ReadingFields!Unfolded
<1>2. DOMAIN <<>> = {} /\ 1..0 = {}
  OBVIOUS
<1>3. ReadingFields!Founded(1..0)
  BY LeftFounded DEF ReadingFields!Founded
<1> QED BY <1>1, <1>2, <1>3, ReadingFields!FoldEmpty

LEMMA FieldsOne ==
  ASSUME NEW r, NEW V, NEW kinds \in Seq(V), NEW kind \in V
  PROVE  ReadFields(r, Append(kinds, kind)) = Read(ReadFields(r, kinds), kind)
<1>1. \A s : ReadFields(r, s) = ReadingFields!Fold(r, s, DOMAIN s)
  BY DEF ReadFields, FoldLeft, MapThenFoldSet, ReadingFields!Fold, ReadingFields!Fixpoint,
         ReadingFields!Unfolded
<1>2. \A n \in Nat : ReadingFields!Founded(1..n) /\ ReadingFields!Picks(1..n)
  BY LeftFounded DEF ReadingFields!Founded, ReadingFields!Picks
<1>3. \A n \in Nat : Max(1..(n + 1)) = n + 1
  BY MaxInterval
<1>4. ReadingFields!Fold(r, Append(kinds, kind), DOMAIN Append(kinds, kind))
        = Read(ReadingFields!Fold(r, kinds, DOMAIN kinds), kind)
  BY <1>2, <1>3, ReadingFields!FoldAppend
<1> QED BY <1>1, <1>4

Copies(kinds, n) == [i \in 1..n |-> kinds]

LEMMA CopiesGrow ==
  ASSUME NEW kinds, NEW n \in Nat
  PROVE  /\ Copies(kinds, n) \in Seq({kinds}) /\ Copies(kinds, 0) = <<>>
         /\ Copies(kinds, n + 1) = Append(Copies(kinds, n), kinds)
<1>1. \A m \in Nat : Copies(kinds, m) \in Seq({kinds}) /\ Len(Copies(kinds, m)) = m
  BY DEF Copies
<1>2. Copies(kinds, 0) = <<>>
  BY DEF Copies
<1> DEFINE s == Copies(kinds, n + 1)
           t == Append(Copies(kinds, n), kinds)
<1>3. s \in Seq({kinds}) /\ Len(s) = n + 1 /\ t \in Seq({kinds}) /\ Len(t) = n + 1
  BY <1>1
<1> HIDE DEF s, t
<1>4. \A i \in 1..(n + 1) : s[i] = kinds /\ t[i] = kinds
  BY <1>3
<1>5. s = t
  BY <1>3, <1>4
<1> QED BY <1>1, <1>2, <1>5 DEF s, t

LEMMA ElementsNone == ASSUME NEW r, NEW kinds PROVE ReadElements(r, kinds, 0) = r
<1>1. ReadElements(r, kinds, 0) = ReadingList!Fold(r, Copies(kinds, 0), DOMAIN Copies(kinds, 0))
  BY DEF ReadElements, Copies, FoldLeft, MapThenFoldSet, ReadingList!Fold, ReadingList!Fixpoint,
         ReadingList!Unfolded
<1>2. DOMAIN Copies(kinds, 0) = {} /\ 1..0 = {}
  BY DEF Copies
<1>3. ReadingList!Founded(1..0)
  BY LeftFounded DEF ReadingList!Founded
<1> QED BY <1>1, <1>2, <1>3, ReadingList!FoldEmpty

LEMMA ElementsOne ==
  ASSUME NEW r, NEW kinds, NEW n \in Nat
  PROVE  ReadElements(r, kinds, n + 1) = ReadElement(ReadElements(r, kinds, n), kinds)
<1>1. \A m : ReadElements(r, kinds, m)
               = ReadingList!Fold(r, Copies(kinds, m), DOMAIN Copies(kinds, m))
  BY DEF ReadElements, Copies, FoldLeft, MapThenFoldSet, ReadingList!Fold, ReadingList!Fixpoint,
         ReadingList!Unfolded
<1>2. \A m \in Nat : ReadingList!Founded(1..m) /\ ReadingList!Picks(1..m)
  BY LeftFounded DEF ReadingList!Founded, ReadingList!Picks
<1>3. \A m \in Nat : Max(1..(m + 1)) = m + 1
  BY MaxInterval
<1> DEFINE s == Copies(kinds, n)
<1>4. s \in Seq({kinds}) /\ kinds \in {kinds} /\ Copies(kinds, n + 1) = Append(s, kinds)
  BY CopiesGrow
<1> HIDE DEF s
<1>5. ReadingList!Fold(r, Append(s, kinds), DOMAIN Append(s, kinds))
        = ReadElement(ReadingList!Fold(r, s, DOMAIN s), kinds)
  BY <1>2, <1>3, <1>4, ReadingList!FoldAppend
<1> QED BY <1>1, <1>4, <1>5 DEF s

LEMMA SplitLast ==
  ASSUME NEW V, NEW s \in Seq(V), NEW n \in Nat, Len(s) = n + 1
  PROVE  \E t \in Seq(V), x \in V : s = Append(t, x) /\ Len(t) = n
<1> DEFINE t == SubSeq(s, 1, n)
           x == s[n + 1]
<1>1. t \in Seq(V) /\ x \in V /\ Len(t) = n
  OBVIOUS
<1>2. s = Append(t, x)
  OBVIOUS
<1> QED BY <1>1, <1>2

-----------------------------------------------------------------------------
(* The fields of a record: one value for each kind.                        *)
Field == Nat \cup Bytes

Row(kinds) ==
  {f \in Seq(Field) : Len(f) = Len(kinds) /\ \A i \in 1..Len(kinds) : f[i] \in FieldValue(kinds[i])}

RowEncoded(kinds, f) == Written([i \in 1..Len(kinds) |-> Encode(kinds[i], f[i])])

RowFits(kinds, f) == \A i \in 1..Len(kinds) : Fits(kinds[i], f[i])

LEMMA RowNone ==
  /\ Row(<<>>) = {<<>>} /\ RowEncoded(<<>>, <<>>) = <<>> /\ RowFits(<<>>, <<>>)
<1>1. \A f \in Seq(Field) : Len(f) = 0 <=> f = <<>>
  OBVIOUS
<1>2. <<>> \in Seq(Field) /\ Len(<<>>) = 0 /\ 1..0 = {}
  OBVIOUS
<1>3. Row(<<>>) = {<<>>} /\ RowFits(<<>>, <<>>)
  BY <1>1, <1>2 DEF Row, RowFits
<1>4. [i \in 1..Len(<<>>) |-> Encode(<<>>[i], <<>>[i])] = <<>>
  OBVIOUS
<1> QED BY <1>3, <1>4, WrittenNone DEF RowEncoded

LEMMA ValueIsField == ASSUME NEW kind, NEW v \in FieldValue(kind) PROVE v \in Field
BY DEF FieldValue, Field

LEMMA RowOne ==
  ASSUME NEW kinds \in Seq(Kinds), NEW kind \in Kinds, NEW f \in Row(kinds), NEW v \in FieldValue(kind)
  PROVE  LET ks == Append(kinds, kind)
             g == Append(f, v)
         IN  /\ g \in Row(ks)
             /\ RowEncoded(ks, g) = RowEncoded(kinds, f) \o Encode(kind, v)
             /\ RowFits(ks, g) <=> RowFits(kinds, f) /\ Fits(kind, v)
<1> DEFINE ks == Append(kinds, kind)
           g == Append(f, v)
           n == Len(kinds)
           parts == [i \in 1..n |-> Encode(kinds[i], f[i])]
<1>1. /\ n \in Nat /\ f \in Seq(Field) /\ Len(f) = n /\ v \in Field
      /\ \A i \in 1..n : f[i] \in FieldValue(kinds[i])
  BY ValueIsField DEF Row
<1>2. /\ ks \in Seq(Kinds) /\ Len(ks) = n + 1 /\ ks[n + 1] = kind
      /\ \A i \in 1..n : ks[i] = kinds[i]
  OBVIOUS
<1>3. /\ g \in Seq(Field) /\ Len(g) = n + 1 /\ g[n + 1] = v
      /\ \A i \in 1..n : g[i] = f[i]
  <2> HIDE DEF n
  <2> QED BY <1>1
<1> HIDE DEF ks, g, n
<1>4. \A i \in 1..(n + 1) : i \in 1..n \/ i = n + 1
  BY <1>1
<1>5. 1..n \subseteq 1..(n + 1) /\ n + 1 \in 1..(n + 1)
  BY <1>1
<1>6. g \in Row(ks)
  BY <1>1, <1>2, <1>3, <1>4 DEF Row
<1>7. RowFits(ks, g) <=> RowFits(kinds, f) /\ Fits(kind, v)
  BY <1>2, <1>3, <1>4, <1>5 DEF RowFits, n
<1>8. parts \in Seq(Bytes) /\ Len(parts) = n
  <2>1. \A i \in 1..n : Encode(kinds[i], f[i]) \in Bytes
    BY <1>1, EncodeType
  <2> QED BY <1>1, <2>1
<1>9. Encode(kind, v) \in Bytes
  BY EncodeType
<1>10. [i \in 1..(n + 1) |-> Encode(ks[i], g[i])] = Append(parts, Encode(kind, v))
  <2> DEFINE left == [i \in 1..(n + 1) |-> Encode(ks[i], g[i])]
             right == Append(parts, Encode(kind, v))
  <2>1. \A i \in 1..n : parts[i] = Encode(kinds[i], f[i])
    OBVIOUS
  <2> HIDE DEF parts
  <2>2. /\ right \in Seq(Bytes) /\ Len(right) = n + 1 /\ right[n + 1] = Encode(kind, v)
        /\ \A i \in 1..n : right[i] = parts[i]
    BY <1>1, <1>8, <1>9
  <2>3. \A i \in 1..(n + 1) : left[i] = right[i]
    BY <1>2, <1>3, <1>4, <2>1, <2>2
  <2>4. n + 1 \in Nat
    BY <1>1
  <2> HIDE DEF right
  <2>5. \A i \in 1..(n + 1) : left[i] \in Bytes
    BY <2>2, <2>3, <2>4
  <2>6. left = right
    <3>1. left \in Seq(Bytes) /\ Len(left) = n + 1
      BY <2>4, <2>5
    <3> HIDE DEF left
    <3> QED BY <2>2, <2>3, <3>1, SeqEqual
  <2> QED BY <2>6 DEF left, right
<1>11. Written(Append(parts, Encode(kind, v))) = Written(parts) \o Encode(kind, v)
  <2> HIDE DEF parts
  <2> QED BY <1>8, <1>9, WrittenOne
<1>12. RowEncoded(ks, g) = RowEncoded(kinds, f) \o Encode(kind, v)
  BY <1>2, <1>10, <1>11 DEF RowEncoded, n
<1> QED BY <1>6, <1>7, <1>12 DEF ks, g

LEMMA RowSplit ==
  ASSUME NEW kinds \in Seq(Kinds), NEW kind \in Kinds, NEW g \in Row(Append(kinds, kind))
  PROVE  \E f \in Row(kinds), v \in FieldValue(kind) : g = Append(f, v)
<1> DEFINE ks == Append(kinds, kind)
           n == Len(kinds)
<1>1. /\ n \in Nat /\ Len(ks) = n + 1 /\ ks[n + 1] = kind
      /\ \A i \in 1..n : ks[i] = kinds[i]
  OBVIOUS
<1> HIDE DEF ks
<1>2. g \in Seq(Field) /\ Len(g) = n + 1 /\ \A i \in 1..(n + 1) : g[i] \in FieldValue(ks[i])
  BY <1>1 DEF Row, ks
<1> HIDE DEF n
<1>3. PICK f \in Seq(Field), v \in Field : g = Append(f, v) /\ Len(f) = n
  BY <1>1, <1>2, SplitLast
<1>4. g[n + 1] = v /\ \A i \in 1..n : g[i] = f[i]
  BY <1>1, <1>3
<1>5. 1..n \subseteq 1..(n + 1) /\ n + 1 \in 1..(n + 1)
  BY <1>1
<1>6. v \in FieldValue(kind) /\ f \in Row(kinds)
  BY <1>1, <1>2, <1>3, <1>4, <1>5 DEF Row, n
<1> QED BY <1>3, <1>6

(* A record that was written is read back, unless one of its fields is too *)
(* long; and what is read as a record was written as one.                  *)
RowReads(kinds) ==
  \A f \in Row(kinds), rest \in Bytes :
    /\ RowEncoded(kinds, f) \in Bytes
    /\ ReadFields(Reader(RowEncoded(kinds, f) \o rest, <<>>), kinds)
         = IF RowFits(kinds, f) THEN Reader(rest, f) ELSE Thrown

RowDecodes(kinds) ==
  \A left \in Bytes :
    ReadFields(Reader(left, <<>>), kinds).ok =>
      \E f \in Row(kinds), rest \in Bytes :
        RowFits(kinds, f) /\ left = RowEncoded(kinds, f) \o rest

LEMMA EmptyConcat == ASSUME NEW s \in Bytes PROVE <<>> \in Bytes /\ <<>> \o s = s /\ s \o <<>> = s
BY DEF Bytes

LEMMA BytesConcat ==
  ASSUME NEW s \in Bytes, NEW t \in Bytes
  PROVE  s \o t \in Bytes
BY DEF Bytes

LEMMA BytesRegroup ==
  ASSUME NEW s \in Bytes, NEW t \in Bytes, NEW u \in Bytes
  PROVE  (s \o t) \o u = s \o (t \o u)
BY Regroup, SMTT(40) DEF Bytes

LEMMA RowReadsGrow ==
  ASSUME NEW kinds \in Seq(Kinds), NEW kind \in Kinds, RowReads(kinds)
  PROVE  RowReads(Append(kinds, kind))
<1> DEFINE ks == Append(kinds, kind)
<1> SUFFICES ASSUME NEW g \in Row(ks), NEW rest \in Bytes
             PROVE  /\ RowEncoded(ks, g) \in Bytes
                    /\ ReadFields(Reader(RowEncoded(ks, g) \o rest, <<>>), ks)
                         = IF RowFits(ks, g) THEN Reader(rest, g) ELSE Thrown
  BY DEF RowReads
<1>1. PICK f \in Row(kinds), v \in FieldValue(kind) : g = Append(f, v)
  BY RowSplit
<1> DEFINE x == RowEncoded(kinds, f)
           y == Encode(kind, v)
           later == y \o rest
<1>2. /\ RowEncoded(ks, g) = x \o y
      /\ RowFits(ks, g) <=> RowFits(kinds, f) /\ Fits(kind, v)
  BY <1>1, RowOne
<1>3. y \in Bytes /\ later \in Bytes
  BY EncodeType, BytesConcat
<1>4. /\ x \in Bytes
      /\ ReadFields(Reader(x \o later, <<>>), kinds)
           = IF RowFits(kinds, f) THEN Reader(later, f) ELSE Thrown
  BY <1>3 DEF RowReads
<1>5. (x \o y) \o rest = x \o later /\ x \o y \in Bytes
  BY <1>3, <1>4, BytesRegroup, BytesConcat
<1> DEFINE r == Reader(x \o later, <<>>)
<1>6. ReadFields(r, ks) = Read(ReadFields(r, kinds), kind)
  BY FieldsOne
<1>7. Read(Reader(later, f), kind) = IF Fits(kind, v) THEN Reader(rest, g) ELSE Thrown
  BY <1>1, ReadEncoded
<1>8. Read(Thrown, kind) = Thrown
  BY ReadThrown
<1> HIDE DEF ks, x, y, later
<1> QED BY <1>2, <1>4, <1>5, <1>6, <1>7, <1>8

LEMMA RowDecodesGrow ==
  ASSUME NEW kinds \in Seq(Kinds), NEW kind \in Kinds, RowReads(kinds), RowDecodes(kinds)
  PROVE  RowDecodes(Append(kinds, kind))
<1> DEFINE ks == Append(kinds, kind)
<1> SUFFICES ASSUME NEW left \in Bytes, ReadFields(Reader(left, <<>>), ks).ok
             PROVE  \E g \in Row(ks), rest \in Bytes :
                      RowFits(ks, g) /\ left = RowEncoded(ks, g) \o rest
  BY DEF RowDecodes
<1> DEFINE r == Reader(left, <<>>)
           inner == ReadFields(r, kinds)
<1>1. ReadFields(r, ks) = Read(inner, kind)
  BY FieldsOne
<1>2. inner.ok
  <2>1. ~inner.ok => Read(inner, kind) = Thrown
    BY DEF Read
  <2> QED BY <1>1, <2>1, Readers
<1>3. PICK f \in Row(kinds), later \in Bytes :
        RowFits(kinds, f) /\ left = RowEncoded(kinds, f) \o later
  BY <1>2 DEF RowDecodes
<1>4. inner = Reader(later, f) /\ RowEncoded(kinds, f) \in Bytes
  BY <1>3 DEF RowReads
<1>5. Read(Reader(later, f), kind).ok
  BY <1>1, <1>4
<1>6. PICK v \in FieldValue(kind), rest \in Bytes : Fits(kind, v) /\ later = Encode(kind, v) \o rest
  BY <1>5, ReadDecodes
<1> DEFINE g == Append(f, v)
<1>7. /\ g \in Row(ks) /\ RowEncoded(ks, g) = RowEncoded(kinds, f) \o Encode(kind, v)
      /\ RowFits(ks, g)
  BY <1>3, <1>6, RowOne
<1>8. left = (RowEncoded(kinds, f) \o Encode(kind, v)) \o rest
  BY <1>3, <1>4, <1>6, EncodeType, BytesRegroup, SMTT(40)
<1> HIDE DEF g, ks
<1> QED BY <1>7, <1>8

LEMMA RowCodec ==
  ASSUME NEW kinds \in Seq(Kinds)
  PROVE  RowReads(kinds) /\ RowDecodes(kinds)
<1> DEFINE Good(ks) == RowReads(ks) /\ RowDecodes(ks)
           G == {n \in Nat : \A ks \in Seq(Kinds) : Len(ks) = n => Good(ks)}
<1>1. Good(<<>>)
  <2>1. Row(<<>>) = {<<>>} /\ RowEncoded(<<>>, <<>>) = <<>> /\ RowFits(<<>>, <<>>)
    BY RowNone
  <2>2. \A left : ReadFields(Reader(left, <<>>), <<>>) = Reader(left, <<>>)
    BY FieldsNone
  <2>3. \A s \in Bytes : <<>> \in Bytes /\ <<>> \o s = s
    BY EmptyConcat
  <2>4. RowReads(<<>>)
    BY <2>1, <2>2, <2>3 DEF RowReads
  <2>5. RowDecodes(<<>>)
    BY <2>1, <2>3 DEF RowDecodes
  <2> QED BY <2>4, <2>5
<1> HIDE DEF Good
<1>2. 0 \in G
  <2>1. \A ks \in Seq(Kinds) : Len(ks) = 0 => ks = <<>>
    OBVIOUS
  <2> QED BY <1>1, <2>1
<1>3. ASSUME NEW n \in Nat, n \in G PROVE n + 1 \in G
  <2> SUFFICES ASSUME NEW ks \in Seq(Kinds), Len(ks) = n + 1 PROVE Good(ks)
    OBVIOUS
  <2>1. PICK before \in Seq(Kinds), kind \in Kinds : ks = Append(before, kind) /\ Len(before) = n
    BY SplitLast
  <2>2. Good(before)
    BY <1>3, <2>1
  <2> QED BY <2>1, <2>2, RowReadsGrow, RowDecodesGrow DEF Good
<1>4. Len(kinds) \in G
  <2> HIDE DEF G
  <2>1. Nat \subseteq G
    BY <1>2, <1>3, NatSetInduction
  <2> QED BY <2>1
<1> QED BY <1>4 DEF Good

-----------------------------------------------------------------------------
(* Lists of records.                                                       *)
RowsEncoded(kinds, fs) == Written([n \in 1..Len(fs) |-> RowEncoded(kinds, fs[n])])

RowsFit(kinds, fs) == \A n \in 1..Len(fs) : RowFits(kinds, fs[n])

LEMMA RowsNone ==
  ASSUME NEW kinds PROVE RowsEncoded(kinds, <<>>) = <<>> /\ RowsFit(kinds, <<>>)
<1>1. [n \in 1..Len(<<>>) |-> RowEncoded(kinds, <<>>[n])] = <<>>
  OBVIOUS
<1>2. 1..Len(<<>>) = {}
  OBVIOUS
<1> QED BY <1>1, <1>2, WrittenNone DEF RowsEncoded, RowsFit

LEMMA RowsOne ==
  ASSUME NEW kinds \in Seq(Kinds), NEW fs \in Seq(Row(kinds)), NEW f \in Row(kinds)
  PROVE  LET gs == Append(fs, f)
         IN  /\ RowsEncoded(kinds, gs) = RowsEncoded(kinds, fs) \o RowEncoded(kinds, f)
             /\ RowsFit(kinds, gs) <=> RowsFit(kinds, fs) /\ RowFits(kinds, f)
<1> DEFINE gs == Append(fs, f)
           n == Len(fs)
           parts == [i \in 1..n |-> RowEncoded(kinds, fs[i])]
           part == RowEncoded(kinds, f)
<1>0. \A g \in Row(kinds) : RowEncoded(kinds, g) \in Bytes
  <2>1. <<>> \in Bytes
    BY DEF Bytes
  <2> QED BY <2>1, RowCodec DEF RowReads
<1>1. n \in Nat /\ \A i \in 1..n : fs[i] \in Row(kinds)
  OBVIOUS
<1>2. /\ gs \in Seq(Row(kinds)) /\ Len(gs) = n + 1 /\ gs[n + 1] = f
      /\ \A i \in 1..n : gs[i] = fs[i]
  OBVIOUS
<1> HIDE DEF gs, n
<1>3. \A i \in 1..(n + 1) : i \in 1..n \/ i = n + 1
  BY <1>1
<1>4. 1..n \subseteq 1..(n + 1) /\ n + 1 \in 1..(n + 1) /\ n + 1 \in Nat
  BY <1>1
<1>5. RowsFit(kinds, gs) <=> RowsFit(kinds, fs) /\ RowFits(kinds, f)
  BY <1>2, <1>3, <1>4 DEF RowsFit, n
<1>6. /\ parts \in Seq(Bytes) /\ Len(parts) = n /\ part \in Bytes
      /\ \A i \in 1..n : parts[i] = RowEncoded(kinds, fs[i])
  BY <1>0, <1>1
<1>7. [i \in 1..(n + 1) |-> RowEncoded(kinds, gs[i])] = Append(parts, part)
  <2> DEFINE left == [i \in 1..(n + 1) |-> RowEncoded(kinds, gs[i])]
             right == Append(parts, part)
  <2> HIDE DEF parts, part
  <2>1. /\ right \in Seq(Bytes) /\ Len(right) = n + 1 /\ right[n + 1] = part
        /\ \A i \in 1..n : right[i] = parts[i]
    BY <1>1, <1>6
  <2>2. \A i \in 1..(n + 1) : left[i] = right[i]
    BY <1>2, <1>3, <1>6, <2>1 DEF part
  <2> HIDE DEF right
  <2>3. \A i \in 1..(n + 1) : left[i] \in Bytes
    BY <1>4, <2>1, <2>2
  <2>4. left \in Seq(Bytes) /\ Len(left) = n + 1
    BY <1>4, <2>3
  <2> HIDE DEF left
  <2>5. left = right
    BY <2>1, <2>2, <2>4, SeqEqual
  <2> QED BY <2>5 DEF left, right
<1>8. Written(Append(parts, part)) = Written(parts) \o part
  <2> HIDE DEF parts, part
  <2> QED BY <1>6, WrittenOne
<1>9. RowsEncoded(kinds, gs) = RowsEncoded(kinds, fs) \o RowEncoded(kinds, f)
  BY <1>2, <1>7, <1>8 DEF RowsEncoded, n
<1> QED BY <1>5, <1>9 DEF gs

LEMMA ElementThrown == ASSUME NEW kinds PROVE ReadElement(Thrown, kinds) = Thrown
BY Readers DEF ReadElement

LEMMA ElementReads ==
  ASSUME NEW kinds, NEW left, NEW got
  PROVE  LET fields == ReadFields(Reader(left, <<>>), kinds)
         IN  ReadElement(Reader(left, got), kinds)
               = IF fields.ok THEN Reader(fields.left, Append(got, fields.got)) ELSE Thrown
<1> DEFINE r == Reader(left, got)
<1>1. r.left = left /\ r.got = got /\ r.ok
  BY Readers, ZenonT(60)
<1> HIDE DEF r
<1>2. ReadElement(r, kinds)
        = LET fields == ReadFields(Reader(left, <<>>), kinds)
          IN  IF fields.ok THEN Reader(fields.left, Append(got, fields.got)) ELSE Thrown
  BY <1>1 DEF ReadElement
<1> QED BY <1>2 DEF r

(* n records, written and read back.                                       *)
RowsRead(kinds, n) ==
  \A fs \in Seq(Row(kinds)), rest \in Bytes :
    Len(fs) = n =>
      /\ RowsEncoded(kinds, fs) \in Bytes
      /\ ReadElements(Reader(RowsEncoded(kinds, fs) \o rest, <<>>), kinds, n)
           = IF RowsFit(kinds, fs) THEN Reader(rest, fs) ELSE Thrown

RowsDecode(kinds, n) ==
  \A left \in Bytes :
    LET r == ReadElements(Reader(left, <<>>), kinds, n)
    IN  /\ r.ok \/ r = Thrown
        /\ r.ok => \E fs \in Seq(Row(kinds)), rest \in Bytes :
                     Len(fs) = n /\ RowsFit(kinds, fs) /\ left = RowsEncoded(kinds, fs) \o rest

LEMMA RowsReadGrow ==
  ASSUME NEW kinds \in Seq(Kinds), NEW n \in Nat, RowsRead(kinds, n)
  PROVE  RowsRead(kinds, n + 1)
<1> SUFFICES ASSUME NEW gs \in Seq(Row(kinds)), NEW rest \in Bytes, Len(gs) = n + 1
             PROVE  /\ RowsEncoded(kinds, gs) \in Bytes
                    /\ ReadElements(Reader(RowsEncoded(kinds, gs) \o rest, <<>>), kinds, n + 1)
                         = IF RowsFit(kinds, gs) THEN Reader(rest, gs) ELSE Thrown
  BY DEF RowsRead
<1>1. PICK fs \in Seq(Row(kinds)), f \in Row(kinds) : gs = Append(fs, f) /\ Len(fs) = n
  BY SplitLast
<1> DEFINE x == RowsEncoded(kinds, fs)
           y == RowEncoded(kinds, f)
           later == y \o rest
<1>2. /\ RowsEncoded(kinds, gs) = x \o y
      /\ RowsFit(kinds, gs) <=> RowsFit(kinds, fs) /\ RowFits(kinds, f)
  BY <1>1, RowsOne
<1>3. /\ y \in Bytes
      /\ ReadFields(Reader(later, <<>>), kinds)
           = IF RowFits(kinds, f) THEN Reader(rest, f) ELSE Thrown
  BY RowCodec DEF RowReads
<1>4. later \in Bytes
  BY <1>3, BytesConcat
<1>5. /\ x \in Bytes
      /\ ReadElements(Reader(x \o later, <<>>), kinds, n)
           = IF RowsFit(kinds, fs) THEN Reader(later, fs) ELSE Thrown
  BY <1>1, <1>4 DEF RowsRead
<1>6. (x \o y) \o rest = x \o later /\ x \o y \in Bytes
  BY <1>3, <1>5, BytesRegroup, BytesConcat
<1> DEFINE r == Reader(x \o later, <<>>)
<1>7. ReadElements(r, kinds, n + 1) = ReadElement(ReadElements(r, kinds, n), kinds)
  BY ElementsOne
<1>8. ReadElement(Thrown, kinds) = Thrown
  BY ElementThrown
<1> HIDE DEF x, y, later
<1>9. ReadElement(Reader(later, fs), kinds) = IF RowFits(kinds, f) THEN Reader(rest, gs) ELSE Thrown
  <2> DEFINE fields == ReadFields(Reader(later, <<>>), kinds)
  <2>1. ReadElement(Reader(later, fs), kinds)
          = IF fields.ok THEN Reader(fields.left, Append(fs, fields.got)) ELSE Thrown
    BY ElementReads
  <2>2. /\ Reader(rest, f).ok = TRUE /\ Thrown.ok = FALSE
        /\ Reader(rest, f).left = rest /\ Reader(rest, f).got = f
    BY Readers, ZenonT(60)
  <2> HIDE DEF fields
  <2> QED BY <1>1, <1>3, <2>1, <2>2 DEF fields
<1> QED BY <1>2, <1>5, <1>6, <1>7, <1>8, <1>9

LEMMA RowsDecodeGrow ==
  ASSUME NEW kinds \in Seq(Kinds), NEW n \in Nat, RowsRead(kinds, n), RowsDecode(kinds, n)
  PROVE  RowsDecode(kinds, n + 1)
<1> SUFFICES ASSUME NEW left \in Bytes
             PROVE  LET r == ReadElements(Reader(left, <<>>), kinds, n + 1)
                    IN  /\ r.ok \/ r = Thrown
                        /\ r.ok => \E gs \in Seq(Row(kinds)), rest \in Bytes :
                                     /\ Len(gs) = n + 1 /\ RowsFit(kinds, gs)
                                     /\ left = RowsEncoded(kinds, gs) \o rest
  BY DEF RowsDecode
<1> DEFINE inner == ReadElements(Reader(left, <<>>), kinds, n)
           r == ReadElements(Reader(left, <<>>), kinds, n + 1)
<1>1. r = ReadElement(inner, kinds)
  BY ElementsOne
<1>2. r.ok \/ r = Thrown
  <2>1. \A left2, got2 : Reader(left2, got2).ok
    BY Readers
  <2> HIDE DEF r, inner
  <2> QED BY <1>1, <2>1 DEF ReadElement
<1>3. ASSUME r.ok
      PROVE  \E gs \in Seq(Row(kinds)), rest \in Bytes :
               Len(gs) = n + 1 /\ RowsFit(kinds, gs) /\ left = RowsEncoded(kinds, gs) \o rest
  <2>1. inner.ok
    <3>1. inner.ok \/ inner = Thrown
      BY DEF RowsDecode
    <3>2. inner = Thrown => r = Thrown
      BY <1>1, ElementThrown
    <3>3. ~Thrown.ok
      BY Readers
    <3> HIDE DEF inner, r
    <3> QED BY <1>3, <3>1, <3>2, <3>3
  <2>2. PICK fs \in Seq(Row(kinds)), later \in Bytes :
          Len(fs) = n /\ RowsFit(kinds, fs) /\ left = RowsEncoded(kinds, fs) \o later
    BY <2>1 DEF RowsDecode
  <2>3. inner = Reader(later, fs) /\ RowsEncoded(kinds, fs) \in Bytes
    BY <2>2 DEF RowsRead
  <2>4. ReadFields(Reader(later, <<>>), kinds).ok
    <3> DEFINE fields == ReadFields(Reader(later, <<>>), kinds)
    <3>1. ~fields.ok => ReadElement(Reader(later, fs), kinds) = Thrown
      BY ElementReads
    <3>2. ~Thrown.ok
      BY Readers
    <3> HIDE DEF fields, inner, r
    <3> QED BY <1>1, <1>3, <2>3, <3>1, <3>2 DEF fields
  <2>5. PICK f \in Row(kinds), rest \in Bytes :
          RowFits(kinds, f) /\ later = RowEncoded(kinds, f) \o rest
    BY <2>4, RowCodec DEF RowDecodes
  <2>6. RowEncoded(kinds, f) \in Bytes
    BY RowCodec DEF RowReads
  <2> DEFINE gs == Append(fs, f)
  <2>7. /\ RowsEncoded(kinds, gs) = RowsEncoded(kinds, fs) \o RowEncoded(kinds, f)
        /\ RowsFit(kinds, gs)
    BY <2>2, <2>5, RowsOne
  <2>8. left = (RowsEncoded(kinds, fs) \o RowEncoded(kinds, f)) \o rest
    <3> DEFINE x == RowsEncoded(kinds, fs)
               y == RowEncoded(kinds, f)
    <3>1. x \in Bytes /\ y \in Bytes /\ left = x \o (y \o rest)
      BY <2>2, <2>3, <2>5, <2>6
    <3> HIDE DEF x, y
    <3>2. left = (x \o y) \o rest
      BY ONLY <3>1, rest \in Bytes, BytesRegroup, SMTT(40)
    <3> QED BY <3>2 DEF x, y
  <2>9. gs \in Seq(Row(kinds)) /\ Len(gs) = n + 1
    BY <2>2
  <2> HIDE DEF gs
  <2> QED BY <2>7, <2>8, <2>9
<1> QED BY <1>2, <1>3

LEMMA RowsCodec ==
  ASSUME NEW kinds \in Seq(Kinds), NEW n \in Nat
  PROVE  RowsRead(kinds, n) /\ RowsDecode(kinds, n)
<1> DEFINE Good(m) == RowsRead(kinds, m) /\ RowsDecode(kinds, m)
           G == {m \in Nat : Good(m)}
<1>1. Good(0)
  <2>1. RowsEncoded(kinds, <<>>) = <<>> /\ RowsFit(kinds, <<>>)
    BY RowsNone
  <2>2. \A left : ReadElements(Reader(left, <<>>), kinds, 0) = Reader(left, <<>>)
    BY ElementsNone
  <2>3. \A s \in Bytes : <<>> \in Bytes /\ <<>> \o s = s
    BY EmptyConcat
  <2>4. /\ <<>> \in Seq(Row(kinds)) /\ Len(<<>>) = 0
        /\ \A fs \in Seq(Row(kinds)) : Len(fs) = 0 => fs = <<>>
    OBVIOUS
  <2>5. RowsRead(kinds, 0)
    BY <2>1, <2>2, <2>3, <2>4 DEF RowsRead
  <2>6. \A left : Reader(left, <<>>).ok
    BY Readers
  <2>7. RowsDecode(kinds, 0)
    BY <2>1, <2>2, <2>3, <2>4, <2>6 DEF RowsDecode
  <2> QED BY <2>5, <2>7
<1>2. ASSUME NEW m \in Nat, Good(m) PROVE Good(m + 1)
  BY <1>2, RowsReadGrow, RowsDecodeGrow
<1> HIDE DEF Good
<1>3. Nat \subseteq G
  <2>1. 0 \in G /\ \A m \in Nat : m \in G => m + 1 \in G
    BY <1>1, <1>2
  <2> HIDE DEF G
  <2> QED BY <2>1, NatSetInduction
<1> QED BY <1>3 DEF Good

(* A list is the number of its records and the records.                    *)
ListEncoded(kinds, fs) == WriteList([n \in 1..Len(fs) |-> RowEncoded(kinds, fs[n])])

LEMMA ListForm ==
  ASSUME NEW kinds \in Seq(Kinds), NEW fs \in Seq(Row(kinds))
  PROVE  /\ ListEncoded(kinds, fs) = Encode("int", Len(fs)) \o RowsEncoded(kinds, fs)
         /\ Len(fs) \in FieldValue("int") /\ Encode("int", Len(fs)) \in Bytes
         /\ RowsEncoded(kinds, fs) \in Bytes /\ ListEncoded(kinds, fs) \in Bytes
<1>1. Len(fs) \in Nat
  OBVIOUS
<1>2. Len(fs) \in FieldValue("int") /\ Encode("int", Len(fs)) \in Bytes
  BY <1>1, EncodeType DEF FieldValue
<1>3. RowsEncoded(kinds, fs) \in Bytes
  <2>1. <<>> \in Bytes
    BY DEF Bytes
  <2> QED BY <1>1, <2>1, RowsCodec DEF RowsRead
<1>4. ListEncoded(kinds, fs) = Encode("int", Len(fs)) \o RowsEncoded(kinds, fs)
  <2>1. Len([n \in 1..Len(fs) |-> RowEncoded(kinds, fs[n])]) = Len(fs)
    BY <1>1
  <2> QED BY <2>1 DEF ListEncoded, WriteList, Encode, RowsEncoded
<1> QED BY <1>2, <1>3, <1>4, BytesConcat

LEMMA LastAppended == ASSUME NEW S, NEW s \in Seq(S), NEW x PROVE Last(Append(s, x)) = x
<1>1. s \in Seq(S \cup {x}) /\ x \in S \cup {x}
  OBVIOUS
<1>2. Len(Append(s, x)) = Len(s) + 1 /\ Append(s, x)[Len(s) + 1] = x
  BY <1>1
<1> QED BY <1>2 DEF Last

LEMMA ListThrown ==
  ASSUME NEW limit, NEW kinds
  PROVE  ReadList(Thrown, limit, kinds) = Thrown
<1>1. Read(Thrown, "int") = Thrown /\ ~Thrown.ok
  BY ReadThrown, Readers
<1> QED BY <1>1 DEF ReadList

(* ReadList once the number of records has been read                       *)
LEMMA ListCounted ==
  ASSUME NEW r, NEW limit, NEW kinds, NEW S, NEW got \in Seq(S), NEW n, NEW later,
         r.got = got, Read(r, "int") = Reader(later, Append(got, n))
  PROVE  LET list == ReadElements(Reader(later, <<>>), kinds, n)
         IN  ReadList(r, limit, kinds)
               = IF n > limit THEN Thrown
                 ELSE IF list.ok THEN Reader(list.left, Append(got, list.got)) ELSE Thrown
<1> DEFINE counted == Read(r, "int")
           after == Append(got, n)
<1> HIDE DEF counted, after
<1>1. counted.ok /\ counted.left = later /\ counted.got = after
  <2>1. Reader(later, after).left = later /\ Reader(later, after).got = after /\ Reader(later, after).ok
    BY ONLY Readers, ZenonT(60)
  <2>2. counted = Reader(later, after)
    BY DEF counted, after
  <2> QED BY <2>1, <2>2
<1>2. Last(counted.got) = n
  BY <1>1, LastAppended DEF after
<1> DEFINE list == ReadElements(Reader(later, <<>>), kinds, n)
<1> HIDE DEF list
<1>3. ReadList(r, limit, kinds)
        = IF n > limit THEN Thrown
          ELSE IF list.ok THEN Reader(list.left, Append(got, list.got)) ELSE Thrown
  BY <1>1, <1>2 DEF ReadList, counted, list
<1> QED BY <1>3 DEF list

LEMMA ListReads ==
  ASSUME NEW kinds \in Seq(Kinds), NEW fs \in Seq(Row(kinds)), NEW rest \in Bytes,
         NEW limit \in Nat, NEW S, NEW got \in Seq(S)
  PROVE  ReadList(Reader(ListEncoded(kinds, fs) \o rest, got), limit, kinds)
           = IF Len(fs) <= limit /\ RowsFit(kinds, fs)
             THEN Reader(rest, Append(got, fs)) ELSE Thrown
<1> DEFINE n == Len(fs)
           x == RowsEncoded(kinds, fs)
           later == x \o rest
           r == Reader(ListEncoded(kinds, fs) \o rest, got)
           list == ReadElements(Reader(later, <<>>), kinds, n)
<1>1. /\ ListEncoded(kinds, fs) = Encode("int", n) \o x /\ n \in Nat
      /\ n \in FieldValue("int") /\ Encode("int", n) \in Bytes /\ x \in Bytes
  BY ListForm
<1>2. later \in Bytes
  BY <1>1, BytesConcat
<1>3. r = Reader(Encode("int", n) \o later, got)
  <2> DEFINE y == Encode("int", n)
  <2>1. y \in Bytes /\ x \in Bytes /\ rest \in Bytes
    BY <1>1
  <2> HIDE DEF x, y
  <2>2. (y \o x) \o rest = y \o (x \o rest)
    BY ONLY <2>1, BytesRegroup
  <2> QED BY <1>1, <2>2 DEF y
<1>4. Read(r, "int") = Reader(later, Append(got, n))
  <2>1. "int" \in Kinds /\ Fits("int", n)
    BY DEF Kinds, Fits
  <2> HIDE DEF n, later, r
  <2> QED BY <1>1, <1>2, <1>3, <2>1, ReadEncoded
<1>5. r.got = got
  BY Readers, ZenonT(60)
<1>6. ReadList(r, limit, kinds)
        = IF n > limit THEN Thrown
          ELSE IF list.ok THEN Reader(list.left, Append(got, list.got)) ELSE Thrown
  <2> HIDE DEF r, n, later
  <2> QED BY <1>4, <1>5, ListCounted
<1>7. list = IF RowsFit(kinds, fs) THEN Reader(rest, fs) ELSE Thrown
  <2>1. RowsRead(kinds, n)
    BY <1>1, RowsCodec
  <2> QED BY <2>1 DEF RowsRead
<1>8. /\ Reader(rest, fs).ok = TRUE /\ Thrown.ok = FALSE
      /\ Reader(rest, fs).left = rest /\ Reader(rest, fs).got = fs
  BY Readers, ZenonT(60)
<1>9. n > limit <=> ~(n <= limit)
  BY <1>1
<1> HIDE DEF n, r, list
<1>10. ReadList(r, limit, kinds)
        = IF n <= limit /\ RowsFit(kinds, fs) THEN Reader(rest, Append(got, fs)) ELSE Thrown
  BY <1>6, <1>7, <1>8, <1>9
<1> QED BY <1>10 DEF n, r

(* A reader of a list that has not thrown has found one.                   *)
ListFound(kinds, left, limit, got) ==
  \E fs \in Seq(Row(kinds)), rest \in Bytes :
    /\ Len(fs) <= limit /\ RowsFit(kinds, fs) /\ left = ListEncoded(kinds, fs) \o rest
    /\ ReadList(Reader(left, got), limit, kinds) = Reader(rest, Append(got, fs))

LEMMA ListDecodes ==
  ASSUME NEW kinds \in Seq(Kinds), NEW left \in Bytes, NEW limit \in Nat, NEW S, NEW got \in Seq(S),
         ReadList(Reader(left, got), limit, kinds) # Thrown
  PROVE  ListFound(kinds, left, limit, got)
<1> DEFINE r == Reader(left, got)
<1>0. r.got = got /\ r.ok /\ ~Thrown.ok
  BY Readers, ZenonT(60)
<1>1. Read(r, "int").ok
  <2>1. ~Read(r, "int").ok => ReadList(r, limit, kinds) = Thrown
    <3> HIDE DEF r
    <3> QED BY DEF ReadList
  <2> QED BY <1>0, <2>1
<1>2. PICK n \in FieldValue("int"), later \in Bytes : left = Encode("int", n) \o later
  BY <1>1, ReadDecodes, ZenonT(60) DEF Kinds
<1>3. n \in Nat
  BY DEF FieldValue
<1>4. Read(r, "int") = Reader(later, Append(got, n))
  <2>1. "int" \in Kinds /\ Fits("int", n)
    BY DEF Kinds, Fits
  <2> QED BY <1>2, <2>1, ReadEncoded
<1> DEFINE list == ReadElements(Reader(later, <<>>), kinds, n)
<1>5. list.ok
  <2>1. ReadList(r, limit, kinds)
          = IF n > limit THEN Thrown
            ELSE IF list.ok THEN Reader(list.left, Append(got, list.got)) ELSE Thrown
    <3> HIDE DEF r
    <3> QED BY <1>0, <1>4, ListCounted
  <2> HIDE DEF list
  <2> QED BY <1>0, <2>1
<1>6. PICK fs \in Seq(Row(kinds)), rest \in Bytes :
        Len(fs) = n /\ later = RowsEncoded(kinds, fs) \o rest
  <2>1. RowsDecode(kinds, n)
    BY <1>3, RowsCodec
  <2> QED BY <1>5, <2>1 DEF RowsDecode
<1>7. left = ListEncoded(kinds, fs) \o rest
  <2> DEFINE y == Encode("int", Len(fs))
             x == RowsEncoded(kinds, fs)
  <2>1. y \in Bytes /\ x \in Bytes /\ rest \in Bytes /\ ListEncoded(kinds, fs) = y \o x
    BY ListForm
  <2>2. left = y \o (x \o rest)
    BY <1>2, <1>6
  <2> HIDE DEF x, y
  <2>3. (y \o x) \o rest = y \o (x \o rest)
    BY ONLY <2>1, BytesRegroup
  <2> QED BY <2>1, <2>2, <2>3
<1>8. ReadList(r, limit, kinds)
        = IF Len(fs) <= limit /\ RowsFit(kinds, fs)
          THEN Reader(rest, Append(got, fs)) ELSE Thrown
  BY <1>7, ListReads
<1>9. Len(fs) <= limit /\ RowsFit(kinds, fs)
  <2> HIDE DEF r
  <2> QED BY <1>0, <1>8 DEF r
<1> QED BY <1>7, <1>8, <1>9 DEF ListFound

-----------------------------------------------------------------------------
(* Inputs and outputs as records                                           *)
InKinds == <<"string", "int", "bytes", "bytes">>

InRow(i) == <<i.prev_tx_hash, i.prev_output_idx, i.signature, i.public_key>>

InFits(i) ==
  /\ Len(i.prev_tx_hash) <= MAX_SERIALIZED_STRING
  /\ Len(i.signature) <= MAX_SERIALIZED_BYTES
  /\ Len(i.public_key) <= MAX_SERIALIZED_BYTES

OutKinds == <<"string", "int">>

OutRow(o) == <<o.address, o.amount>>

OutFits(o) == Len(o.address) <= MAX_SERIALIZED_STRING

LEMMA InputRow ==
  ASSUME NEW i \in TxInput
  PROVE  /\ InRow(i) \in Row(InKinds) /\ InputOf(InRow(i)) = i
         /\ WriteInput(i) = RowEncoded(InKinds, InRow(i))
         /\ RowFits(InKinds, InRow(i)) <=> InFits(i)
<1> DEFINE a == i.prev_tx_hash
           b == i.prev_output_idx
           c == i.signature
           d == i.public_key
<1>1. a \in Bytes /\ b \in Nat /\ c \in Bytes /\ d \in Bytes
  BY DEF TxInput
<1>2. InputOf(InRow(i)) = i
  BY DEF TxInput, InputOf, InRow
<1>3. InRow(i) = <<a, b, c, d>>
  BY DEF InRow
<1> HIDE DEF a, b, c, d
<1> DEFINE f == <<a, b, c, d>>
           K == InKinds
<1>4. /\ Len(K) = 4 /\ K[1] = "string" /\ K[2] = "int" /\ K[3] = "bytes" /\ K[4] = "bytes"
      /\ 1..4 = {1, 2, 3, 4}
  BY DEF InKinds
<1>5. f[1] = a /\ f[2] = b /\ f[3] = c /\ f[4] = d /\ Len(f) = 4
  OBVIOUS
<1>6. f \in Seq(Field)
  <2>1. a \in Field /\ b \in Field /\ c \in Field /\ d \in Field
    BY <1>1 DEF Field
  <2> QED BY <2>1
<1> HIDE DEF f, K
<1>7. f \in Row(K)
  BY <1>1, <1>4, <1>5, <1>6 DEF Row, FieldValue
<1>8. RowFits(K, f) <=> /\ Len(a) <= MAX_SERIALIZED_STRING
                        /\ Len(c) <= MAX_SERIALIZED_BYTES /\ Len(d) <= MAX_SERIALIZED_BYTES
  BY <1>4, <1>5 DEF RowFits, Fits, Limit
<1>9. WriteInput(i) = RowEncoded(K, f)
  <2> DEFINE s == <<WriteString(a), <<b>>, WriteString(c), WriteString(d)>>
             t == [n \in 1..Len(K) |-> Encode(K[n], f[n])]
  <2>1. s = t
    BY <1>4, <1>5 DEF Encode
  <2>2. WriteInput(i) = Written(s)
    BY DEF WriteInput, a, b, c, d
  <2> QED BY <2>1, <2>2 DEF RowEncoded
<1> QED BY <1>2, <1>3, <1>7, <1>8, <1>9 DEF f, K, InFits, a, c, d

LEMMA RowInput ==
  ASSUME NEW f \in Row(InKinds)
  PROVE  InputOf(f) \in TxInput /\ InRow(InputOf(f)) = f
<1> DEFINE K == InKinds
<1>1. /\ Len(K) = 4 /\ K[1] = "string" /\ K[2] = "int" /\ K[3] = "bytes" /\ K[4] = "bytes"
      /\ 1..4 = {1, 2, 3, 4}
  BY DEF InKinds
<1>2. f \in Seq(Field) /\ Len(f) = 4 /\ f[1] \in Bytes /\ f[2] \in Nat /\ f[3] \in Bytes /\ f[4] \in Bytes
  BY <1>1 DEF Row, FieldValue
<1>3. InputOf(f) \in TxInput
  BY <1>2 DEF InputOf, TxInput
<1>4. InRow(InputOf(f)) = <<f[1], f[2], f[3], f[4]>>
  BY DEF InRow, InputOf
<1>5. f = <<f[1], f[2], f[3], f[4]>>
  BY <1>2
<1> QED BY <1>3, <1>4, <1>5

LEMMA OutputRow ==
  ASSUME NEW o \in TxOutput
  PROVE  /\ OutRow(o) \in Row(OutKinds) /\ OutputOf(OutRow(o)) = o
         /\ WriteOutput(o) = RowEncoded(OutKinds, OutRow(o))
         /\ RowFits(OutKinds, OutRow(o)) <=> OutFits(o)
<1> DEFINE a == o.address
           b == o.amount
<1>1. a \in Bytes /\ b \in Nat
  BY DEF TxOutput
<1>2. OutputOf(OutRow(o)) = o
  BY DEF TxOutput, OutputOf, OutRow
<1>3. OutRow(o) = <<a, b>>
  BY DEF OutRow
<1> HIDE DEF a, b
<1> DEFINE f == <<a, b>>
           K == OutKinds
<1>4. Len(K) = 2 /\ K[1] = "string" /\ K[2] = "int" /\ 1..2 = {1, 2}
  BY DEF OutKinds
<1>5. f[1] = a /\ f[2] = b /\ Len(f) = 2
  OBVIOUS
<1>6. f \in Seq(Field)
  <2>1. a \in Field /\ b \in Field
    BY <1>1 DEF Field
  <2> QED BY <2>1
<1> HIDE DEF f, K
<1>7. f \in Row(K)
  BY <1>1, <1>4, <1>5, <1>6 DEF Row, FieldValue
<1>8. RowFits(K, f) <=> Len(a) <= MAX_SERIALIZED_STRING
  BY <1>4, <1>5 DEF RowFits, Fits, Limit
<1>9. WriteOutput(o) = RowEncoded(K, f)
  <2> DEFINE s == <<WriteString(a), <<b>>>>
             t == [n \in 1..Len(K) |-> Encode(K[n], f[n])]
  <2>1. s = t
    BY <1>4, <1>5 DEF Encode
  <2>2. WriteOutput(o) = Written(s)
    BY DEF WriteOutput, a, b
  <2> QED BY <2>1, <2>2 DEF RowEncoded
<1> QED BY <1>2, <1>3, <1>7, <1>8, <1>9 DEF f, K, OutFits, a

LEMMA RowOutput ==
  ASSUME NEW f \in Row(OutKinds)
  PROVE  OutputOf(f) \in TxOutput /\ OutRow(OutputOf(f)) = f
<1> DEFINE K == OutKinds
<1>1. Len(K) = 2 /\ K[1] = "string" /\ K[2] = "int" /\ 1..2 = {1, 2}
  BY DEF OutKinds
<1>2. f \in Seq(Field) /\ Len(f) = 2 /\ f[1] \in Bytes /\ f[2] \in Nat
  BY <1>1 DEF Row, FieldValue
<1>3. OutputOf(f) \in TxOutput
  BY <1>2 DEF OutputOf, TxOutput
<1>4. OutRow(OutputOf(f)) = <<f[1], f[2]>>
  BY DEF OutRow, OutputOf
<1>5. f = <<f[1], f[2]>>
  BY <1>2
<1> QED BY <1>3, <1>4, <1>5

InRows(s) == [n \in 1..Len(s) |-> InRow(s[n])]

InList(fs) == [n \in 1..Len(fs) |-> InputOf(fs[n])]

LEMMA InRowsOf ==
  ASSUME NEW s \in Seq(TxInput)
  PROVE  /\ InRows(s) \in Seq(Row(InKinds)) /\ Len(InRows(s)) = Len(s)
         /\ InList(InRows(s)) = s
         /\ WriteList([n \in 1..Len(s) |-> WriteInput(s[n])]) = ListEncoded(InKinds, InRows(s))
         /\ RowsFit(InKinds, InRows(s)) <=> \A n \in DOMAIN s : InFits(s[n])
<1> DEFINE m == Len(s)
           fs == InRows(s)
           back == InList(fs)
<1>1. m \in Nat /\ DOMAIN s = 1..m /\ \A n \in 1..m : s[n] \in TxInput
  OBVIOUS
<1>2. \A n \in 1..m : InRow(s[n]) \in Row(InKinds)
  BY <1>1, InputRow
<1>3. fs \in Seq(Row(InKinds)) /\ Len(fs) = m /\ \A n \in 1..m : fs[n] = InRow(s[n])
  <2> HIDE DEF m
  <2> QED BY <1>1, <1>2 DEF InRows, m
<1> HIDE DEF fs, m
<1>4. \A n \in 1..m : InputOf(fs[n]) = s[n]
  BY <1>1, <1>3, InputRow
<1>5. back = s
  <2>1. back = [n \in 1..m |-> InputOf(fs[n])]
    BY <1>3 DEF InList
  <2>2. s = [n \in 1..m |-> s[n]]
    BY <1>1
  <2> QED BY <1>4, <2>1, <2>2
<1>6. WriteList([n \in 1..m |-> WriteInput(s[n])]) = ListEncoded(InKinds, fs)
  <2>1. \A n \in 1..m : WriteInput(s[n]) = RowEncoded(InKinds, fs[n])
    BY <1>1, <1>3, InputRow
  <2>2. [n \in 1..m |-> WriteInput(s[n])] = [n \in 1..Len(fs) |-> RowEncoded(InKinds, fs[n])]
    BY <1>3, <2>1
  <2> QED BY <2>2 DEF ListEncoded
<1>7. RowsFit(InKinds, fs) <=> \A n \in DOMAIN s : InFits(s[n])
  <2>1. \A n \in 1..m : RowFits(InKinds, fs[n]) <=> InFits(s[n])
    BY <1>1, <1>3, InputRow
  <2> QED BY <1>1, <1>3, <2>1 DEF RowsFit
<1> QED BY <1>3, <1>5, <1>6, <1>7 DEF fs, m

LEMMA InListOf ==
  ASSUME NEW fs \in Seq(Row(InKinds))
  PROVE  InList(fs) \in Seq(TxInput) /\ InRows(InList(fs)) = fs
<1> DEFINE m == Len(fs)
           s == InList(fs)
<1>1. m \in Nat /\ fs = [n \in 1..m |-> fs[n]] /\ \A n \in 1..m : fs[n] \in Row(InKinds)
  OBVIOUS
<1>2. \A n \in 1..m : InputOf(fs[n]) \in TxInput /\ InRow(InputOf(fs[n])) = fs[n]
  BY <1>1, RowInput
<1>3. s \in Seq(TxInput) /\ Len(s) = m /\ \A n \in 1..m : s[n] = InputOf(fs[n])
  <2> HIDE DEF m
  <2> QED BY <1>1, <1>2 DEF InList, m
<1> HIDE DEF s, m
<1>4. InRows(s) = [n \in 1..m |-> InRow(s[n])]
  BY <1>3 DEF InRows
<1>5. [n \in 1..m |-> InRow(s[n])] = [n \in 1..m |-> fs[n]]
  BY <1>2, <1>3
<1> QED BY <1>1, <1>3, <1>4, <1>5 DEF s

OutRows(s) == [n \in 1..Len(s) |-> OutRow(s[n])]

OutList(fs) == [n \in 1..Len(fs) |-> OutputOf(fs[n])]

LEMMA OutRowsOf ==
  ASSUME NEW s \in Seq(TxOutput)
  PROVE  /\ OutRows(s) \in Seq(Row(OutKinds)) /\ Len(OutRows(s)) = Len(s)
         /\ OutList(OutRows(s)) = s
         /\ WriteList([n \in 1..Len(s) |-> WriteOutput(s[n])]) = ListEncoded(OutKinds, OutRows(s))
         /\ RowsFit(OutKinds, OutRows(s)) <=> \A n \in DOMAIN s : OutFits(s[n])
<1> DEFINE m == Len(s)
           fs == OutRows(s)
           back == OutList(fs)
<1>1. m \in Nat /\ DOMAIN s = 1..m /\ \A n \in 1..m : s[n] \in TxOutput
  OBVIOUS
<1>2. \A n \in 1..m : OutRow(s[n]) \in Row(OutKinds)
  BY <1>1, OutputRow
<1>3. fs \in Seq(Row(OutKinds)) /\ Len(fs) = m /\ \A n \in 1..m : fs[n] = OutRow(s[n])
  <2> HIDE DEF m
  <2> QED BY <1>1, <1>2 DEF OutRows, m
<1> HIDE DEF fs, m
<1>4. \A n \in 1..m : OutputOf(fs[n]) = s[n]
  BY <1>1, <1>3, OutputRow
<1>5. back = s
  <2>1. back = [n \in 1..m |-> OutputOf(fs[n])]
    BY <1>3 DEF OutList
  <2>2. s = [n \in 1..m |-> s[n]]
    BY <1>1
  <2> QED BY <1>4, <2>1, <2>2
<1>6. WriteList([n \in 1..m |-> WriteOutput(s[n])]) = ListEncoded(OutKinds, fs)
  <2>1. \A n \in 1..m : WriteOutput(s[n]) = RowEncoded(OutKinds, fs[n])
    BY <1>1, <1>3, OutputRow
  <2>2. [n \in 1..m |-> WriteOutput(s[n])] = [n \in 1..Len(fs) |-> RowEncoded(OutKinds, fs[n])]
    BY <1>3, <2>1
  <2> QED BY <2>2 DEF ListEncoded
<1>7. RowsFit(OutKinds, fs) <=> \A n \in DOMAIN s : OutFits(s[n])
  <2>1. \A n \in 1..m : RowFits(OutKinds, fs[n]) <=> OutFits(s[n])
    BY <1>1, <1>3, OutputRow
  <2> QED BY <1>1, <1>3, <2>1 DEF RowsFit
<1> QED BY <1>3, <1>5, <1>6, <1>7 DEF fs, m

LEMMA OutListOf ==
  ASSUME NEW fs \in Seq(Row(OutKinds))
  PROVE  OutList(fs) \in Seq(TxOutput) /\ OutRows(OutList(fs)) = fs
<1> DEFINE m == Len(fs)
           s == OutList(fs)
<1>1. m \in Nat /\ fs = [n \in 1..m |-> fs[n]] /\ \A n \in 1..m : fs[n] \in Row(OutKinds)
  OBVIOUS
<1>2. \A n \in 1..m : OutputOf(fs[n]) \in TxOutput /\ OutRow(OutputOf(fs[n])) = fs[n]
  BY <1>1, RowOutput
<1>3. s \in Seq(TxOutput) /\ Len(s) = m /\ \A n \in 1..m : s[n] = OutputOf(fs[n])
  <2> HIDE DEF m
  <2> QED BY <1>1, <1>2 DEF OutList, m
<1> HIDE DEF s, m
<1>4. OutRows(s) = [n \in 1..m |-> OutRow(s[n])]
  BY <1>3 DEF OutRows
<1>5. [n \in 1..m |-> OutRow(s[n])] = [n \in 1..m |-> fs[n]]
  BY <1>2, <1>3
<1> QED BY <1>1, <1>3, <1>4, <1>5 DEF s

-----------------------------------------------------------------------------
(* A transaction: its own fields, the inputs and the outputs               *)
TxKinds == <<"string", "int", "int">>

TxRow(tx) == <<tx.id, tx.fee, tx.timestamp>>

TxEncoded(f, ins, outs) ==
  RowEncoded(TxKinds, f) \o (ListEncoded(InKinds, ins) \o ListEncoded(OutKinds, outs))

TxGot(f, ins, outs) == Append(Append(f, ins), outs)

TxFits(f, ins, outs) ==
  /\ RowFits(TxKinds, f)
  /\ Len(ins) <= MAX_TRANSACTION_INPUTS /\ RowsFit(InKinds, ins)
  /\ Len(outs) <= MAX_TRANSACTION_OUTPUTS /\ RowsFit(OutKinds, outs)

LEMMA KindsOfRecords ==
  /\ TxKinds \in Seq(Kinds) /\ InKinds \in Seq(Kinds) /\ OutKinds \in Seq(Kinds)
  /\ MAX_TRANSACTION_INPUTS \in Nat /\ MAX_TRANSACTION_OUTPUTS \in Nat
  /\ MAX_BLOCK_TRANSACTIONS \in Nat
<1>1. "int" \in Kinds /\ "string" \in Kinds /\ "bytes" \in Kinds
  BY DEF Kinds
<1>2. TxKinds \in Seq(Kinds) /\ InKinds \in Seq(Kinds) /\ OutKinds \in Seq(Kinds)
  BY <1>1 DEF TxKinds, InKinds, OutKinds
<1> QED BY <1>2, WireConstants

LEMMA RowIsSeq == ASSUME NEW kinds, NEW f \in Row(kinds) PROVE f \in Seq(Field)
BY DEF Row

LEMMA ListNotOk ==
  ASSUME NEW r, NEW limit, NEW kinds, ReadList(r, limit, kinds).ok
  PROVE  r.ok
<1>1. ~r.ok => Read(r, "int") = Thrown
  BY DEF Read
<1>2. ~Thrown.ok
  BY Readers
<1>3. ~r.ok => ReadList(r, limit, kinds) = Thrown
  BY <1>1, <1>2 DEF ReadList
<1> QED BY <1>2, <1>3

LEMMA TxReads ==
  ASSUME NEW f \in Row(TxKinds), NEW ins \in Seq(Row(InKinds)), NEW outs \in Seq(Row(OutKinds)),
         NEW rest \in Bytes
  PROVE  /\ TxEncoded(f, ins, outs) \in Bytes
         /\ ReadTx(TxEncoded(f, ins, outs) \o rest)
              = IF TxFits(f, ins, outs) THEN Reader(rest, TxGot(f, ins, outs)) ELSE Thrown
<1> DEFINE x == RowEncoded(TxKinds, f)
           y == ListEncoded(InKinds, ins)
           z == ListEncoded(OutKinds, outs)
           third == z \o rest
           second == y \o third
<1>1. x \in Bytes
  <2>1. <<>> \in Bytes
    BY DEF Bytes
  <2> QED BY <2>1, KindsOfRecords, RowCodec DEF RowReads
<1>2. y \in Bytes /\ z \in Bytes
  BY KindsOfRecords, ListForm
<1>3. third \in Bytes /\ second \in Bytes /\ y \o z \in Bytes
  BY <1>2, BytesConcat
<1>4. TxEncoded(f, ins, outs) \in Bytes
  BY <1>1, <1>3, BytesConcat DEF TxEncoded
<1>5. TxEncoded(f, ins, outs) \o rest = x \o second
  <2>1. TxEncoded(f, ins, outs) = x \o (y \o z)
    BY DEF TxEncoded
  <2> HIDE DEF x, y, z
  <2>2. (x \o (y \o z)) \o rest = x \o ((y \o z) \o rest)
    BY ONLY <1>1, <1>3, rest \in Bytes, BytesRegroup
  <2>3. (y \o z) \o rest = y \o third
    BY ONLY <1>2, rest \in Bytes, BytesRegroup
  <2> QED BY <2>1, <2>2, <2>3
<1> DEFINE top == ReadFields(Reader(x \o second, <<>>), TxKinds)
           list == ReadList(top, MAX_TRANSACTION_INPUTS, InKinds)
<1>6. top = IF RowFits(TxKinds, f) THEN Reader(second, f) ELSE Thrown
  BY <1>3, KindsOfRecords, RowCodec DEF RowReads
<1>7. ReadTx(x \o second) = ReadList(list, MAX_TRANSACTION_OUTPUTS, OutKinds)
  BY DEF ReadTx, TxKinds, InKinds, OutKinds
<1>8. f \in Seq(Field) /\ Append(f, ins) \in Seq(Field \cup {ins})
  BY RowIsSeq
<1>9. ReadList(Reader(second, f), MAX_TRANSACTION_INPUTS, InKinds)
        = IF Len(ins) <= MAX_TRANSACTION_INPUTS /\ RowsFit(InKinds, ins)
          THEN Reader(third, Append(f, ins)) ELSE Thrown
  <2> HIDE DEF third
  <2> QED BY <1>3, <1>8, KindsOfRecords, ListReads
<1> DEFINE got == Append(f, ins)
<1> HIDE DEF got
<1>10. ReadList(Reader(third, got), MAX_TRANSACTION_OUTPUTS, OutKinds)
        = IF Len(outs) <= MAX_TRANSACTION_OUTPUTS /\ RowsFit(OutKinds, outs)
          THEN Reader(rest, Append(got, outs)) ELSE Thrown
  <2>1. got \in Seq(Field \cup {ins})
    BY <1>8 DEF got
  <2> QED BY <2>1, KindsOfRecords, ListReads
<1>11. \A limit, kinds : ReadList(Thrown, limit, kinds) = Thrown
  BY ListThrown
<1> HIDE DEF top, list, x, y, z, second, third
<1>12. list = IF RowFits(TxKinds, f) /\ Len(ins) <= MAX_TRANSACTION_INPUTS /\ RowsFit(InKinds, ins)
              THEN Reader(third, got) ELSE Thrown
  BY <1>6, <1>9, <1>11 DEF list, got
<1>13. ReadTx(x \o second) = IF TxFits(f, ins, outs) THEN Reader(rest, TxGot(f, ins, outs)) ELSE Thrown
  BY <1>7, <1>10, <1>11, <1>12 DEF TxFits, TxGot, got
<1> QED BY <1>4, <1>5, <1>13

LEMMA TxDecodes ==
  ASSUME NEW left \in Bytes, ReadTx(left).ok
  PROVE  \E f \in Row(TxKinds), ins \in Seq(Row(InKinds)), outs \in Seq(Row(OutKinds)), rest \in Bytes :
           TxFits(f, ins, outs) /\ left = TxEncoded(f, ins, outs) \o rest
<1> DEFINE top == ReadFields(Reader(left, <<>>), TxKinds)
           list == ReadList(top, MAX_TRANSACTION_INPUTS, InKinds)
<1>1. ReadTx(left) = ReadList(list, MAX_TRANSACTION_OUTPUTS, OutKinds)
  BY DEF ReadTx, TxKinds, InKinds, OutKinds
<1>2. list.ok
  BY <1>1, ListNotOk
<1>3. top.ok
  BY <1>2, ListNotOk
<1>4. PICK f \in Row(TxKinds), second \in Bytes :
        RowFits(TxKinds, f) /\ left = RowEncoded(TxKinds, f) \o second
  BY <1>3, KindsOfRecords, RowCodec DEF RowDecodes
<1>5. top = Reader(second, f)
  BY <1>4, KindsOfRecords, RowCodec DEF RowReads
<1>6. f \in Seq(Field)
  BY RowIsSeq
<1>7. PICK ins \in Seq(Row(InKinds)), third \in Bytes :
        /\ second = ListEncoded(InKinds, ins) \o third
        /\ list = Reader(third, Append(f, ins))
  <2> HIDE DEF top
  <2>1. ReadList(Reader(second, f), MAX_TRANSACTION_INPUTS, InKinds) # Thrown
    BY <1>2, <1>5, Readers
  <2>2. InKinds \in Seq(Kinds) /\ MAX_TRANSACTION_INPUTS \in Nat
    BY KindsOfRecords
  <2>3. ListFound(InKinds, second, MAX_TRANSACTION_INPUTS, f)
    BY ONLY <1>6, <2>1, <2>2, second \in Bytes, ListDecodes
  <2>4. PICK ins \in Seq(Row(InKinds)), third \in Bytes :
          /\ second = ListEncoded(InKinds, ins) \o third
          /\ ReadList(Reader(second, f), MAX_TRANSACTION_INPUTS, InKinds)
               = Reader(third, Append(f, ins))
    BY ONLY <2>3 DEF ListFound
  <2> QED BY <1>5, <2>4
<1> DEFINE got == Append(f, ins)
<1>8. got \in Seq(Field \cup {ins})
  BY <1>6
<1> HIDE DEF got
<1>9. PICK outs \in Seq(Row(OutKinds)), rest \in Bytes : third = ListEncoded(OutKinds, outs) \o rest
  <2> HIDE DEF list
  <2>1. ReadList(Reader(third, got), MAX_TRANSACTION_OUTPUTS, OutKinds) # Thrown
    BY <1>1, <1>7, Readers DEF got
  <2>2. OutKinds \in Seq(Kinds) /\ MAX_TRANSACTION_OUTPUTS \in Nat
    BY KindsOfRecords
  <2>3. ListFound(OutKinds, third, MAX_TRANSACTION_OUTPUTS, got)
    BY ONLY <1>8, <2>1, <2>2, third \in Bytes, ListDecodes
  <2> QED BY ONLY <2>3 DEF ListFound
<1>10. left = TxEncoded(f, ins, outs) \o rest
  <2> DEFINE x == RowEncoded(TxKinds, f)
             y == ListEncoded(InKinds, ins)
             z == ListEncoded(OutKinds, outs)
  <2>1. x \in Bytes
    BY KindsOfRecords, RowCodec DEF RowReads
  <2>2. y \in Bytes /\ z \in Bytes
    BY KindsOfRecords, ListForm
  <2>3. y \o z \in Bytes
    BY <2>2, BytesConcat
  <2>4. left = x \o (y \o (z \o rest)) /\ TxEncoded(f, ins, outs) = x \o (y \o z)
    BY <1>4, <1>7, <1>9 DEF TxEncoded
  <2> HIDE DEF x, y, z
  <2>5. (x \o (y \o z)) \o rest = x \o ((y \o z) \o rest)
    BY ONLY <2>1, <2>3, rest \in Bytes, BytesRegroup, SMTT(40)
  <2>6. (y \o z) \o rest = y \o (z \o rest)
    BY ONLY <2>2, rest \in Bytes, BytesRegroup, ZenonT(60)
  <2> QED BY <2>4, <2>5, <2>6
<1>11. TxFits(f, ins, outs)
  <2>1. ReadTx(left) = IF TxFits(f, ins, outs) THEN Reader(rest, TxGot(f, ins, outs)) ELSE Thrown
    BY <1>10, TxReads
  <2> QED BY <2>1, Readers
<1> QED BY <1>10, <1>11

LEMMA TxForm ==
  ASSUME NEW tx \in Transaction
  PROVE  LET f == TxRow(tx)
             ins == InRows(tx.inputs)
             outs == OutRows(tx.outputs)
         IN  /\ f \in Row(TxKinds) /\ ins \in Seq(Row(InKinds)) /\ outs \in Seq(Row(OutKinds))
             /\ SerializeTx(tx) = TxEncoded(f, ins, outs)
             /\ TxFits(f, ins, outs) <=> TxWithinLimits(tx)
             /\ TxOf(TxGot(f, ins, outs)) = tx
<1> DEFINE a == tx.id
           b == tx.fee
           c == tx.timestamp
           f == TxRow(tx)
           ins == InRows(tx.inputs)
           outs == OutRows(tx.outputs)
           K == TxKinds
<1>1. a \in Bytes /\ b \in Nat /\ c \in Nat /\ tx.inputs \in Seq(TxInput) /\ tx.outputs \in Seq(TxOutput)
  BY DEF Transaction
<1>2. f = <<a, b, c>>
  BY DEF TxRow
<1> HIDE DEF a, b, c, f
<1>3. f \in Seq(Field) /\ Len(f) = 3 /\ f[1] = a /\ f[2] = b /\ f[3] = c
  <2>1. a \in Field /\ b \in Field /\ c \in Field
    BY <1>1 DEF Field
  <2> QED BY <1>2, <2>1
<1>4. Len(K) = 3 /\ K[1] = "string" /\ K[2] = "int" /\ K[3] = "int" /\ 1..3 = {1, 2, 3}
  BY DEF TxKinds
<1> HIDE DEF K
<1>5. f \in Row(K)
  BY <1>1, <1>3, <1>4 DEF Row, FieldValue
<1>6. /\ ins \in Seq(Row(InKinds)) /\ Len(ins) = Len(tx.inputs) /\ InList(ins) = tx.inputs
      /\ WriteList([n \in 1..Len(tx.inputs) |-> WriteInput(tx.inputs[n])]) = ListEncoded(InKinds, ins)
      /\ RowsFit(InKinds, ins) <=> \A n \in DOMAIN tx.inputs : InFits(tx.inputs[n])
  BY <1>1, InRowsOf
<1>7. /\ outs \in Seq(Row(OutKinds)) /\ Len(outs) = Len(tx.outputs) /\ OutList(outs) = tx.outputs
      /\ WriteList([n \in 1..Len(tx.outputs) |-> WriteOutput(tx.outputs[n])])
           = ListEncoded(OutKinds, outs)
      /\ RowsFit(OutKinds, outs) <=> \A n \in DOMAIN tx.outputs : OutFits(tx.outputs[n])
  BY <1>1, OutRowsOf
<1> HIDE DEF ins, outs
<1>8. RowFits(K, f) <=> Len(a) <= MAX_SERIALIZED_STRING
  BY <1>3, <1>4 DEF RowFits, Fits, Limit
<1>9. TxFits(f, ins, outs) <=> TxWithinLimits(tx)
  BY <1>6, <1>7, <1>8 DEF TxFits, TxWithinLimits, InFits, OutFits, K, a
<1>10. TxOf(TxGot(f, ins, outs)) = tx
  <2> DEFINE got == TxGot(f, ins, outs)
  <2>1. got[1] = a /\ got[2] = b /\ got[3] = c /\ got[4] = ins /\ got[5] = outs
    BY <1>2 DEF TxGot
  <2> HIDE DEF got
  <2>2. TxOf(got) = [kind |-> "tx", id |-> a, fee |-> b, timestamp |-> c,
                     inputs |-> InList(ins), outputs |-> OutList(outs)]
    BY <2>1 DEF TxOf, InList, OutList
  <2> QED BY <1>6, <1>7, <2>2 DEF Transaction, a, b, c, got
<1>11. SerializeTx(tx) = TxEncoded(f, ins, outs)
  <2> DEFINE x == RowEncoded(K, f)
             y == ListEncoded(InKinds, ins)
             z == ListEncoded(OutKinds, outs)
             s == <<WriteString(a), <<b>>, <<c>>>>
  <2>1. s = [n \in 1..Len(K) |-> Encode(K[n], f[n])]
    BY <1>3, <1>4 DEF Encode
  <2>2. Written(s) = x
    BY <2>1 DEF RowEncoded
  <2>3. x \in Bytes
    <3>1. <<>> \in Bytes
      BY DEF Bytes
    <3> QED BY <1>5, <3>1, KindsOfRecords, RowCodec DEF RowReads, K
  <2>4. y \in Bytes /\ z \in Bytes
    BY <1>6, <1>7, KindsOfRecords, ListForm
  <2>5. s \in Seq(Bytes)
    <3>1. WriteString(a) \in Bytes /\ <<b>> \in Bytes /\ <<c>> \in Bytes
      <4>1. \A v : v \in FieldValue("string") => Encode("string", v) \in Bytes
        BY EncodeType
      <4>2. \A v : v \in FieldValue("int") => Encode("int", v) \in Bytes
        BY EncodeType
      <4> QED BY <1>1, <4>1, <4>2 DEF Encode, FieldValue
    <3> QED BY <3>1
  <2>6. SerializeTx(tx) = Written(Append(Append(s, y), z))
    <3>1. SerializeTx(tx) = Written(<<WriteString(a), <<b>>, <<c>>, y, z>>)
      BY <1>6, <1>7 DEF SerializeTx, a, b, c
    <3> HIDE DEF y, z
    <3>2. <<WriteString(a), <<b>>, <<c>>, y, z>> = Append(Append(s, y), z)
      OBVIOUS
    <3> QED BY <3>1, <3>2
  <2> HIDE DEF x, y, z, s
  <2>7. Append(s, y) \in Seq(Bytes)
    BY <2>4, <2>5
  <2>8. Written(Append(s, y)) = Written(s) \o y
    BY <2>4, <2>5, WrittenOne
  <2>9. Written(Append(Append(s, y), z)) = Written(Append(s, y)) \o z
    BY <2>4, <2>7, WrittenOne
  <2>10. (x \o y) \o z = x \o (y \o z)
    BY <2>3, <2>4, BytesRegroup
  <2>11. TxEncoded(f, ins, outs) = x \o (y \o z)
    BY DEF TxEncoded, x, y, z, K
  <2> QED BY <2>2, <2>6, <2>8, <2>9, <2>10, <2>11
<1> QED BY <1>5, <1>6, <1>7, <1>9, <1>10, <1>11 DEF f, ins, outs, K

LEMMA FiveAppended ==
  ASSUME NEW a, NEW b, NEW c, NEW d, NEW e
  PROVE  LET s == Append(Append(<<a, b, c>>, d), e)
         IN  s[1] = a /\ s[2] = b /\ s[3] = c /\ s[4] = d /\ s[5] = e
OBVIOUS

LEMMA TxOfRows ==
  ASSUME NEW f \in Row(TxKinds), NEW ins \in Seq(Row(InKinds)), NEW outs \in Seq(Row(OutKinds))
  PROVE  LET tx == TxOf(TxGot(f, ins, outs))
         IN  tx \in Transaction /\ SerializeTx(tx) = TxEncoded(f, ins, outs)
<1> DEFINE got == TxGot(f, ins, outs)
           tx == TxOf(got)
           K == TxKinds
<1>1. Len(K) = 3 /\ K[1] = "string" /\ K[2] = "int" /\ K[3] = "int" /\ 1..3 = {1, 2, 3}
  BY DEF TxKinds
<1>2. f \in Seq(Field) /\ Len(f) = 3 /\ f[1] \in Bytes /\ f[2] \in Nat /\ f[3] \in Nat
  BY <1>1 DEF Row, FieldValue
<1>3. f = <<f[1], f[2], f[3]>>
  BY <1>2
<1>4. got[1] = f[1] /\ got[2] = f[2] /\ got[3] = f[3] /\ got[4] = ins /\ got[5] = outs
  <2> DEFINE a == f[1]
             b == f[2]
             c == f[3]
  <2>1. f = <<a, b, c>>
    BY <1>3
  <2> HIDE DEF a, b, c
  <2>2. got = Append(Append(<<a, b, c>>, ins), outs)
    BY <2>1 DEF TxGot
  <2> HIDE DEF got
  <2>3. got[1] = a /\ got[2] = b /\ got[3] = c /\ got[4] = ins /\ got[5] = outs
    BY ONLY <2>2, FiveAppended
  <2> QED BY <2>3 DEF a, b, c
<1> HIDE DEF got
<1>5. /\ InList(ins) \in Seq(TxInput) /\ InRows(InList(ins)) = ins
      /\ OutList(outs) \in Seq(TxOutput) /\ OutRows(OutList(outs)) = outs
  BY InListOf, OutListOf
<1>6. tx = [kind |-> "tx", id |-> f[1], fee |-> f[2], timestamp |-> f[3],
            inputs |-> InList(ins), outputs |-> OutList(outs)]
  <2>1. TxOf(got) = [kind |-> "tx", id |-> got[1], fee |-> got[2], timestamp |-> got[3],
                     inputs |-> InList(got[4]), outputs |-> OutList(got[5])]
    BY DEF TxOf, InList, OutList
  <2> QED BY <1>4, <2>1
<1> HIDE DEF tx
<1>7. tx \in Transaction
  BY <1>2, <1>5, <1>6 DEF Transaction
<1>8. TxRow(tx) = f /\ InRows(tx.inputs) = ins /\ OutRows(tx.outputs) = outs
  BY <1>3, <1>5, <1>6 DEF TxRow
<1>9. SerializeTx(tx) = TxEncoded(TxRow(tx), InRows(tx.inputs), OutRows(tx.outputs))
  BY <1>7, TxForm
<1> QED BY <1>7, <1>8, <1>9 DEF tx, got

(* A transaction is decoded to itself, and only from its encoding.         *)
LEMMA TxRoundTrip ==
  ASSUME NEW tx \in Transaction
  PROVE  /\ SerializeTx(tx) \in Bytes
         /\ DeserializeTx(SerializeTx(tx)) = IF TxWithinLimits(tx) THEN <<tx>> ELSE <<>>
<1> DEFINE f == TxRow(tx)
           ins == InRows(tx.inputs)
           outs == OutRows(tx.outputs)
           s == SerializeTx(tx)
           r == ReadTx(s)
<1>1. /\ f \in Row(TxKinds) /\ ins \in Seq(Row(InKinds)) /\ outs \in Seq(Row(OutKinds))
      /\ s = TxEncoded(f, ins, outs)
      /\ TxFits(f, ins, outs) <=> TxWithinLimits(tx)
      /\ TxOf(TxGot(f, ins, outs)) = tx
  BY TxForm
<1> HIDE DEF f, ins, outs, s
<1>2. <<>> \in Bytes
  BY DEF Bytes
<1>3. /\ TxEncoded(f, ins, outs) \in Bytes
      /\ ReadTx(TxEncoded(f, ins, outs) \o <<>>)
              = IF TxFits(f, ins, outs) THEN Reader(<<>>, TxGot(f, ins, outs)) ELSE Thrown
  BY <1>1, <1>2, TxReads
<1>4. s \in Bytes /\ s \o <<>> = s
  BY <1>1, <1>3, EmptyConcat
<1>5. r = IF TxWithinLimits(tx) THEN Reader(<<>>, TxGot(f, ins, outs)) ELSE Thrown
  BY <1>1, <1>3, <1>4
<1> HIDE DEF r
<1>6. DeserializeTx(s) = IF r.ok /\ r.left = <<>> THEN <<TxOf(r.got)>> ELSE <<>>
  BY DEF DeserializeTx, r
<1>7. DeserializeTx(s) = IF TxWithinLimits(tx) THEN <<tx>> ELSE <<>>
  <2> DEFINE got == TxGot(f, ins, outs)
  <2>1. /\ Reader(<<>>, got).ok = TRUE /\ Thrown.ok = FALSE
        /\ Reader(<<>>, got).left = <<>> /\ Reader(<<>>, got).got = got
    BY Readers, ZenonT(60)
  <2> HIDE DEF got
  <2>2. CASE TxWithinLimits(tx)
    <3>1. r = Reader(<<>>, got)
      BY <1>5, <2>2 DEF got
    <3> QED BY <1>1, <1>6, <2>1, <2>2, <3>1 DEF got
  <2>3. CASE ~TxWithinLimits(tx)
    BY <1>5, <1>6, <2>1, <2>3
  <2> QED BY <2>2, <2>3
<1> QED BY <1>4, <1>7 DEF s

LEMMA TxUnique ==
  ASSUME NEW left \in Bytes, DeserializeTx(left) # <<>>
  PROVE  \E tx \in Transaction : DeserializeTx(left) = <<tx>> /\ left = SerializeTx(tx)
<1> DEFINE r == ReadTx(left)
<1>1. DeserializeTx(left) = IF r.ok /\ r.left = <<>> THEN <<TxOf(r.got)>> ELSE <<>>
  BY DEF DeserializeTx
<1>2. r.ok /\ r.left = <<>> /\ DeserializeTx(left) = <<TxOf(r.got)>>
  <2> HIDE DEF r
  <2> QED BY <1>1
<1>3. PICK f \in Row(TxKinds), ins \in Seq(Row(InKinds)), outs \in Seq(Row(OutKinds)), rest \in Bytes :
           TxFits(f, ins, outs) /\ left = TxEncoded(f, ins, outs) \o rest
  BY <1>2, TxDecodes
<1>4. TxEncoded(f, ins, outs) \in Bytes /\ r = Reader(rest, TxGot(f, ins, outs))
  BY <1>3, TxReads
<1>5. rest = <<>> /\ r.got = TxGot(f, ins, outs)
  <2> DEFINE got == TxGot(f, ins, outs)
  <2> HIDE DEF got
  <2>1. Reader(rest, got).left = rest /\ Reader(rest, got).got = got
    BY Readers, ZenonT(60)
  <2>2. r = Reader(rest, got)
    BY <1>4 DEF got
  <2> HIDE DEF r
  <2> QED BY <1>2, <2>1, <2>2 DEF got
<1> DEFINE tx == TxOf(TxGot(f, ins, outs))
<1>6. tx \in Transaction /\ SerializeTx(tx) = TxEncoded(f, ins, outs)
  BY TxOfRows
<1>7. left = SerializeTx(tx) /\ DeserializeTx(left) = <<tx>>
  BY <1>2, <1>3, <1>4, <1>5, <1>6, EmptyConcat
<1> QED BY <1>6, <1>7

-----------------------------------------------------------------------------
(* A vote, and the fields of a block before its transactions               *)
VoteKinds ==
  <<"string", "string", "int", "int", "bytes", "bytes">>

VoteRow(v) ==
  <<v.validator_address, v.block_hash, v.block_height, v.timestamp, v.validator_public_key,
    v.signature>>

LEMMA VoteRowOf ==
  ASSUME NEW v \in Vote
  PROVE  LET f == VoteRow(v)
         IN  /\ f \in Row(VoteKinds)
             /\ RowEncoded(VoteKinds, f)
                  = Written(<<WriteString(v.validator_address), WriteString(v.block_hash),
                              <<v.block_height>>, <<v.timestamp>>,
                              WriteString(v.validator_public_key), WriteString(v.signature)>>)
             /\ RowFits(VoteKinds, f) <=> /\ Len(v.validator_address) <= MAX_SERIALIZED_STRING
                                           /\ Len(v.block_hash) <= MAX_SERIALIZED_STRING
                                           /\ Len(v.validator_public_key) <= MAX_SERIALIZED_BYTES
                                           /\ Len(v.signature) <= MAX_SERIALIZED_BYTES
<1> DEFINE a == v.validator_address
           b == v.block_hash
           c == v.block_height
           d == v.timestamp
           e == v.validator_public_key
           g == v.signature
           f == VoteRow(v)
           K == VoteKinds
<1>1. /\ a \in Bytes /\ b \in Bytes /\ c \in Nat /\ d \in Nat
      /\ e \in Bytes /\ g \in Bytes
  BY DEF Vote
<1>2. f = <<a, b, c, d, e, g>>
  BY DEF VoteRow
<1>3. /\ Len(K) = 6 /\ K[1] = "string" /\ K[2] = "string" /\ K[3] = "int"
      /\ K[4] = "int" /\ K[5] = "bytes" /\ K[6] = "bytes"
      /\ 1..6 = {1, 2, 3, 4, 5, 6}
  BY DEF VoteKinds
<1> HIDE DEF a, b, c, d, e, g, f, K
<1>4. /\ Len(f) = 6 /\ f[1] = a /\ f[2] = b /\ f[3] = c /\ f[4] = d
      /\ f[5] = e /\ f[6] = g
  BY <1>2
<1>5. f \in Seq(Field)
  <2>1. /\ a \in Field /\ b \in Field /\ c \in Field /\ d \in Field
        /\ e \in Field /\ g \in Field
    BY <1>1 DEF Field
  <2> QED BY <1>2, <2>1
<1>6. f \in Row(K)
  BY <1>1, <1>3, <1>4, <1>5 DEF Row, FieldValue
<1>7. RowFits(K, f) <=> /\ Len(a) <= MAX_SERIALIZED_STRING
                        /\ Len(b) <= MAX_SERIALIZED_STRING
                        /\ Len(e) <= MAX_SERIALIZED_BYTES
                        /\ Len(g) <= MAX_SERIALIZED_BYTES
  BY <1>3, <1>4 DEF RowFits, Fits, Limit
<1>8. <<WriteString(a), WriteString(b), <<c>>, <<d>>, WriteString(e), WriteString(g)>>
        = [n \in 1..Len(K) |-> Encode(K[n], f[n])]
  BY <1>3, <1>4 DEF Encode
<1>9. RowEncoded(K, f) = Written(<<WriteString(a), WriteString(b), <<c>>, <<d>>,
                                    WriteString(e), WriteString(g)>>)
  BY <1>8 DEF RowEncoded
<1> QED BY <1>6, <1>7, <1>9 DEF f, K, a, b, c, d, e, g

LEMMA VoteRowSplit ==
  ASSUME NEW f \in Row(VoteKinds)
  PROVE  /\ Len(f) = 6 /\ f[1] \in Bytes /\ f[2] \in Bytes /\ f[3] \in Nat /\ f[4] \in Nat
         /\ f[5] \in Bytes /\ f[6] \in Bytes
         /\ f = <<f[1], f[2], f[3], f[4], f[5], f[6]>>
<1> DEFINE K == VoteKinds
<1>1. /\ Len(K) = 6 /\ K[1] = "string" /\ K[2] = "string" /\ K[3] = "int"
      /\ K[4] = "int" /\ K[5] = "bytes" /\ K[6] = "bytes"
      /\ 1..6 = {1, 2, 3, 4, 5, 6}
  BY DEF VoteKinds
<1>2. /\ f \in Seq(Field) /\ Len(f) = 6
      /\ f[1] \in Bytes /\ f[2] \in Bytes /\ f[3] \in Nat /\ f[4] \in Nat
      /\ f[5] \in Bytes /\ f[6] \in Bytes
  BY <1>1 DEF Row, FieldValue
<1>3. f = <<f[1], f[2], f[3], f[4], f[5], f[6]>>
  BY <1>2
<1> QED BY <1>2, <1>3

BlockKinds ==
  <<"int", "int", "string", "string", "int", "int", "string", "int", "int", "bytes", "bytes">>

BlockRow(x) ==
  <<x.version, x.height, x.prev_block_hash, x.merkle_root, x.timestamp, x.nonce,
    x.validator_address, x.validator_stake, x.validator_age, x.validator_public_key,
    x.validator_signature>>

LEMMA BlockRowOf ==
  ASSUME NEW x \in Block
  PROVE  LET f == BlockRow(x)
         IN  /\ f \in Row(BlockKinds)
             /\ RowEncoded(BlockKinds, f)
                  = Written(<<<<x.version>>, <<x.height>>, WriteString(x.prev_block_hash),
                              WriteString(x.merkle_root), <<x.timestamp>>, <<x.nonce>>,
                              WriteString(x.validator_address), <<x.validator_stake>>,
                              <<x.validator_age>>, WriteString(x.validator_public_key),
                              WriteString(x.validator_signature)>>)
             /\ RowFits(BlockKinds, f) <=> /\ Len(x.prev_block_hash) <= MAX_SERIALIZED_STRING
                                            /\ Len(x.merkle_root) <= MAX_SERIALIZED_STRING
                                            /\ Len(x.validator_address) <= MAX_SERIALIZED_STRING
                                            /\ Len(x.validator_public_key) <= MAX_SERIALIZED_BYTES
                                            /\ Len(x.validator_signature) <= MAX_SERIALIZED_BYTES
<1> DEFINE a == x.version
           b == x.height
           c == x.prev_block_hash
           d == x.merkle_root
           e == x.timestamp
           g == x.nonce
           h == x.validator_address
           i == x.validator_stake
           j == x.validator_age
           k == x.validator_public_key
           l == x.validator_signature
           f == BlockRow(x)
           K == BlockKinds
<1>1. /\ a \in Nat /\ b \in Nat /\ c \in Bytes /\ d \in Bytes
      /\ e \in Nat /\ g \in Nat /\ h \in Bytes /\ i \in Nat
      /\ j \in Nat /\ k \in Bytes /\ l \in Bytes
  BY DEF Block
<1>2. f = <<a, b, c, d, e, g, h, i, j, k, l>>
  BY DEF BlockRow
<1>3. /\ Len(K) = 11 /\ K[1] = "int" /\ K[2] = "int" /\ K[3] = "string"
      /\ K[4] = "string" /\ K[5] = "int" /\ K[6] = "int" /\ K[7] = "string"
      /\ K[8] = "int" /\ K[9] = "int" /\ K[10] = "bytes" /\ K[11] = "bytes"
      /\ 1..11 = {1, 2, 3, 4, 5, 6, 7, 8, 9, 10, 11}
  BY DEF BlockKinds
<1> HIDE DEF a, b, c, d, e, g, h, i, j, k, l, f, K
<1>4. /\ Len(f) = 11 /\ f[1] = a /\ f[2] = b /\ f[3] = c /\ f[4] = d
      /\ f[5] = e /\ f[6] = g /\ f[7] = h /\ f[8] = i
      /\ f[9] = j /\ f[10] = k /\ f[11] = l
  BY <1>2
<1>5. f \in Seq(Field)
  <2>1. /\ a \in Field /\ b \in Field /\ c \in Field /\ d \in Field
        /\ e \in Field /\ g \in Field /\ h \in Field /\ i \in Field
        /\ j \in Field /\ k \in Field /\ l \in Field
    BY <1>1 DEF Field
  <2> QED BY <1>2, <2>1
<1>6. f \in Row(K)
  BY <1>1, <1>3, <1>4, <1>5 DEF Row, FieldValue
<1>7. RowFits(K, f) <=> /\ Len(c) <= MAX_SERIALIZED_STRING
                        /\ Len(d) <= MAX_SERIALIZED_STRING
                        /\ Len(h) <= MAX_SERIALIZED_STRING
                        /\ Len(k) <= MAX_SERIALIZED_BYTES
                        /\ Len(l) <= MAX_SERIALIZED_BYTES
  BY <1>3, <1>4 DEF RowFits, Fits, Limit
<1>8. <<<<a>>, <<b>>, WriteString(c), WriteString(d), <<e>>, <<g>>, WriteString(h), <<i>>,
        <<j>>, WriteString(k), WriteString(l)>>
        = [n \in 1..Len(K) |-> Encode(K[n], f[n])]
  BY <1>3, <1>4 DEF Encode
<1>9. RowEncoded(K, f) = Written(<<<<a>>, <<b>>, WriteString(c), WriteString(d), <<e>>,
                                    <<g>>, WriteString(h), <<i>>, <<j>>, WriteString(k),
                                    WriteString(l)>>)
  BY <1>8 DEF RowEncoded
<1> QED BY <1>6, <1>7, <1>9 DEF f, K, a, b, c, d, e, g, h, i, j, k, l

LEMMA BlockRowSplit ==
  ASSUME NEW f \in Row(BlockKinds)
  PROVE  /\ Len(f) = 11 /\ f[1] \in Nat /\ f[2] \in Nat /\ f[3] \in Bytes /\ f[4] \in Bytes
         /\ f[5] \in Nat /\ f[6] \in Nat /\ f[7] \in Bytes /\ f[8] \in Nat
         /\ f[9] \in Nat /\ f[10] \in Bytes /\ f[11] \in Bytes
         /\ f = <<f[1], f[2], f[3], f[4], f[5], f[6], f[7], f[8], f[9], f[10], f[11]>>
<1> DEFINE K == BlockKinds
<1>1. /\ Len(K) = 11 /\ K[1] = "int" /\ K[2] = "int" /\ K[3] = "string"
      /\ K[4] = "string" /\ K[5] = "int" /\ K[6] = "int" /\ K[7] = "string"
      /\ K[8] = "int" /\ K[9] = "int" /\ K[10] = "bytes" /\ K[11] = "bytes"
      /\ 1..11 = {1, 2, 3, 4, 5, 6, 7, 8, 9, 10, 11}
  BY DEF BlockKinds
<1>2. /\ f \in Seq(Field) /\ Len(f) = 11
      /\ f[1] \in Nat /\ f[2] \in Nat /\ f[3] \in Bytes /\ f[4] \in Bytes
      /\ f[5] \in Nat /\ f[6] \in Nat /\ f[7] \in Bytes /\ f[8] \in Nat
      /\ f[9] \in Nat /\ f[10] \in Bytes /\ f[11] \in Bytes
  BY <1>1 DEF Row, FieldValue
<1>3. f = <<f[1], f[2], f[3], f[4], f[5], f[6], f[7], f[8], f[9], f[10], f[11]>>
  BY <1>2
<1> QED BY <1>2, <1>3

(* A vote is decoded to itself, and only from data that begins with its    *)
(* encoding.                                                               *)
LEMMA VoteKindsType == VoteKinds \in Seq(Kinds)
<1>1. "int" \in Kinds /\ "string" \in Kinds /\ "bytes" \in Kinds
  BY DEF Kinds
<1> QED BY <1>1 DEF VoteKinds

LEMMA VoteRoundTrip ==
  ASSUME NEW v \in Vote
  PROVE  /\ SerializeVote(v) \in Bytes
         /\ DeserializeVote(SerializeVote(v)) = IF VoteWithinLimits(v) THEN <<v>> ELSE <<>>
<1> DEFINE f == VoteRow(v)
           s == SerializeVote(v)
           r == ReadFields(Reader(s, <<>>), VoteKinds)
<1>1. f \in Row(VoteKinds) /\ s = RowEncoded(VoteKinds, f)
      /\ (RowFits(VoteKinds, f) <=> VoteWithinLimits(v))
  BY VoteRowOf DEF SerializeVote, VoteWithinLimits
<1>2. VoteOf(f) = v
  BY DEF VoteOf, VoteRow, Vote
<1> HIDE DEF f, s
<1>3. <<>> \in Bytes
  BY DEF Bytes
<1>4. s \in Bytes /\ s \o <<>> = s
  BY <1>1, <1>3, VoteKindsType, RowCodec, EmptyConcat DEF RowReads
<1>5. r = IF RowFits(VoteKinds, f) THEN Reader(<<>>, f) ELSE Thrown
  <2>1. ReadFields(Reader(RowEncoded(VoteKinds, f) \o <<>>, <<>>), VoteKinds)
          = IF RowFits(VoteKinds, f) THEN Reader(<<>>, f) ELSE Thrown
    BY <1>1, <1>3, VoteKindsType, RowCodec DEF RowReads
  <2> QED BY <1>1, <1>4, <2>1
<1>6. DeserializeVote(s) = IF r.ok THEN <<VoteOf(r.got)>> ELSE <<>>
  BY DEF DeserializeVote, VoteKinds
<1> HIDE DEF r
<1>7. Reader(<<>>, f).ok /\ Reader(<<>>, f).got = f /\ ~Thrown.ok
  BY Readers, ZenonT(60)
<1>8. DeserializeVote(s) = IF VoteWithinLimits(v) THEN <<v>> ELSE <<>>
  BY <1>1, <1>2, <1>5, <1>6, <1>7
<1> QED BY <1>4, <1>8 DEF s

LEMMA VoteUnique ==
  ASSUME NEW left \in Bytes, DeserializeVote(left) # <<>>
  PROVE  \E v \in Vote, rest \in Bytes :
           DeserializeVote(left) = <<v>> /\ left = SerializeVote(v) \o rest
<1> DEFINE r == ReadFields(Reader(left, <<>>), VoteKinds)
<1>1. DeserializeVote(left) = IF r.ok THEN <<VoteOf(r.got)>> ELSE <<>>
  BY DEF DeserializeVote, VoteKinds
<1>2. r.ok /\ DeserializeVote(left) = <<VoteOf(r.got)>>
  <2> HIDE DEF r
  <2> QED BY <1>1
<1>3. PICK f \in Row(VoteKinds), rest \in Bytes :
        RowFits(VoteKinds, f) /\ left = RowEncoded(VoteKinds, f) \o rest
  BY <1>2, VoteKindsType, RowCodec DEF RowDecodes
<1>4. r = Reader(rest, f)
  BY <1>3, VoteKindsType, RowCodec DEF RowReads
<1>5. r.got = f
  <2>1. Reader(rest, f).got = f
    BY Readers, ZenonT(60)
  <2> HIDE DEF r
  <2> QED BY <1>4, <2>1
<1> DEFINE v == VoteOf(f)
<1>6. /\ f[1] \in Bytes /\ f[2] \in Bytes /\ f[3] \in Nat /\ f[4] \in Nat
      /\ f[5] \in Bytes /\ f[6] \in Bytes
      /\ f = <<f[1], f[2], f[3], f[4], f[5], f[6]>>
  BY VoteRowSplit
<1>7. v \in Vote
  BY <1>6 DEF VoteOf, Vote
<1>8. VoteRow(v) = f
  <2>1. VoteRow(v) = <<f[1], f[2], f[3], f[4], f[5], f[6]>>
    BY DEF VoteRow, VoteOf
  <2> QED BY <1>6, <2>1
<1>9. SerializeVote(v) = RowEncoded(VoteKinds, f)
  BY <1>7, <1>8, VoteRowOf DEF SerializeVote
<1> HIDE DEF v
<1>10. DeserializeVote(left) = <<v>> /\ left = SerializeVote(v) \o rest
  BY <1>2, <1>3, <1>5, <1>9 DEF v
<1> QED BY <1>7, <1>10

-----------------------------------------------------------------------------
(* The transactions of a block, each in a string                           *)
PayKinds == <<"string">>

PayRows(txs) == [n \in 1..Len(txs) |-> <<SerializeTx(txs[n])>>]

LEMMA PayRow ==
  ASSUME NEW s \in Bytes
  PROVE  /\ <<s>> \in Row(PayKinds) /\ RowEncoded(PayKinds, <<s>>) = WriteString(s)
         /\ RowFits(PayKinds, <<s>>) <=> Len(s) <= MAX_SERIALIZED_STRING
<1> DEFINE f == <<s>>
           K == PayKinds
           w == WriteString(s)
<1>1. Len(K) = 1 /\ K[1] = "string" /\ 1..1 = {1}
  BY DEF PayKinds
<1>2. f \in Seq(Field) /\ Len(f) = 1 /\ f[1] = s
  <2>1. s \in Field
    BY DEF Field
  <2> QED BY <2>1
<1> HIDE DEF f, K
<1>3. f \in Row(K) /\ (RowFits(K, f) <=> Len(s) <= MAX_SERIALIZED_STRING)
  BY <1>1, <1>2 DEF Row, RowFits, FieldValue, Fits, Limit
<1>4. w \in Bytes
  <2>1. s \in FieldValue("string") /\ Encode("string", s) = w
    BY DEF FieldValue, Encode
  <2> QED BY <2>1, EncodeType
<1> HIDE DEF w
<1>5. RowEncoded(K, f) = Written(<<w>>)
  <2>1. <<w>> = [n \in 1..Len(K) |-> Encode(K[n], f[n])]
    BY <1>1, <1>2 DEF Encode, w
  <2> QED BY <2>1 DEF RowEncoded
<1>6. Written(<<w>>) = w
  <2>1. <<w>> = Append(<<>>, w) /\ <<>> \in Seq(Bytes)
    OBVIOUS
  <2>2. Written(Append(<<>>, w)) = Written(<<>>) \o w
    BY <1>4, <2>1, WrittenOne
  <2> QED BY <1>4, <2>1, <2>2, WrittenNone, EmptyConcat
<1> QED BY <1>3, <1>5, <1>6 DEF f, K, w

LEMMA RowPay ==
  ASSUME NEW f \in Row(PayKinds)
  PROVE  f[1] \in Bytes /\ f = <<f[1]>>
<1>1. Len(PayKinds) = 1 /\ PayKinds[1] = "string" /\ 1..1 = {1}
  BY DEF PayKinds
<1>2. f \in Seq(Field) /\ Len(f) = 1 /\ f[1] \in Bytes
  BY <1>1 DEF Row, FieldValue
<1> QED BY <1>2

LEMMA PayRowsOf ==
  ASSUME NEW txs \in Seq(Transaction)
  PROVE  LET rows == PayRows(txs)
         IN  /\ rows \in Seq(Row(PayKinds)) /\ Len(rows) = Len(txs)
             /\ \A n \in 1..Len(txs) : rows[n][1] = SerializeTx(txs[n])
             /\ WriteList([n \in 1..Len(txs) |-> WriteString(SerializeTx(txs[n]))])
                  = ListEncoded(PayKinds, rows)
             /\ RowsFit(PayKinds, rows)
                  <=> \A n \in DOMAIN txs : Len(SerializeTx(txs[n])) <= MAX_SERIALIZED_STRING
<1> DEFINE m == Len(txs)
           rows == PayRows(txs)
<1>1. m \in Nat /\ DOMAIN txs = 1..m /\ \A n \in 1..m : txs[n] \in Transaction
  OBVIOUS
<1>2. \A n \in 1..m : SerializeTx(txs[n]) \in Bytes
  BY <1>1, TxRoundTrip
<1>3. \A n \in 1..m : <<SerializeTx(txs[n])>> \in Row(PayKinds)
  BY <1>2, PayRow
<1>4. rows \in Seq(Row(PayKinds)) /\ Len(rows) = m /\ \A n \in 1..m : rows[n] = <<SerializeTx(txs[n])>>
  <2> HIDE DEF m
  <2> QED BY <1>1, <1>3 DEF PayRows, m
<1> HIDE DEF rows, m
<1>5. \A n \in 1..m : rows[n][1] = SerializeTx(txs[n])
  BY <1>4
<1>6. WriteList([n \in 1..m |-> WriteString(SerializeTx(txs[n]))]) = ListEncoded(PayKinds, rows)
  <2>1. \A n \in 1..m : WriteString(SerializeTx(txs[n])) = RowEncoded(PayKinds, rows[n])
    BY <1>2, <1>4, PayRow
  <2>2. [n \in 1..m |-> WriteString(SerializeTx(txs[n]))]
          = [n \in 1..Len(rows) |-> RowEncoded(PayKinds, rows[n])]
    BY <1>4, <2>1
  <2> QED BY <2>2 DEF ListEncoded
<1>7. RowsFit(PayKinds, rows)
        <=> \A n \in DOMAIN txs : Len(SerializeTx(txs[n])) <= MAX_SERIALIZED_STRING
  <2>1. \A n \in 1..m :
          RowFits(PayKinds, rows[n]) <=> Len(SerializeTx(txs[n])) <= MAX_SERIALIZED_STRING
    BY <1>2, <1>4, PayRow
  <2> QED BY <1>1, <1>4, <2>1 DEF RowsFit
<1> QED BY <1>4, <1>5, <1>6, <1>7 DEF rows, m

-----------------------------------------------------------------------------
(* A block: its own fields and the transactions                            *)
BlockEncoded(f, rows) == RowEncoded(BlockKinds, f) \o ListEncoded(PayKinds, rows)

BlockFits(f, rows) ==
  RowFits(BlockKinds, f) /\ Len(rows) <= MAX_BLOCK_TRANSACTIONS /\ RowsFit(PayKinds, rows)

LEMMA BlockKindsType == BlockKinds \in Seq(Kinds) /\ PayKinds \in Seq(Kinds)
<1>1. "int" \in Kinds /\ "string" \in Kinds /\ "bytes" \in Kinds
  BY DEF Kinds
<1> QED BY <1>1 DEF BlockKinds, PayKinds

LEMMA BlockPartTypes ==
  ASSUME NEW f \in Row(BlockKinds), NEW rows \in Seq(Row(PayKinds))
  PROVE  /\ RowEncoded(BlockKinds, f) \in Bytes /\ ListEncoded(PayKinds, rows) \in Bytes
         /\ BlockEncoded(f, rows) \in Bytes
<1>1. RowEncoded(BlockKinds, f) \in Bytes
  <2>1. <<>> \in Bytes
    BY DEF Bytes
  <2> QED BY <2>1, BlockKindsType, RowCodec DEF RowReads
<1>2. ListEncoded(PayKinds, rows) \in Bytes
  BY BlockKindsType, ListForm
<1> QED BY <1>1, <1>2, BytesConcat DEF BlockEncoded

LEMMA BlockReads ==
  ASSUME NEW f \in Row(BlockKinds), NEW rows \in Seq(Row(PayKinds)), NEW rest \in Bytes
  PROVE  ReadBlock(BlockEncoded(f, rows) \o rest)
           = IF BlockFits(f, rows) THEN Reader(rest, Append(f, rows)) ELSE Thrown
<1> DEFINE x == RowEncoded(BlockKinds, f)
           y == ListEncoded(PayKinds, rows)
           later == y \o rest
           top == ReadFields(Reader(x \o later, <<>>), BlockKinds)
<1>1. x \in Bytes /\ y \in Bytes /\ later \in Bytes
  BY BlockPartTypes, BytesConcat
<1>2. BlockEncoded(f, rows) \o rest = x \o later
  <2>1. BlockEncoded(f, rows) = x \o y
    BY DEF BlockEncoded
  <2> HIDE DEF x, y
  <2>2. (x \o y) \o rest = x \o (y \o rest)
    BY ONLY <1>1, rest \in Bytes, BytesRegroup
  <2> QED BY <2>1, <2>2
<1>3. top = IF RowFits(BlockKinds, f) THEN Reader(later, f) ELSE Thrown
  BY <1>1, BlockKindsType, RowCodec DEF RowReads
<1>4. ReadBlock(x \o later) = ReadList(top, MAX_BLOCK_TRANSACTIONS, PayKinds)
  BY DEF ReadBlock, BlockKinds, PayKinds
<1>5. ReadList(Reader(later, f), MAX_BLOCK_TRANSACTIONS, PayKinds)
        = IF Len(rows) <= MAX_BLOCK_TRANSACTIONS /\ RowsFit(PayKinds, rows)
          THEN Reader(rest, Append(f, rows)) ELSE Thrown
  <2>1. f \in Seq(Field) /\ PayKinds \in Seq(Kinds) /\ MAX_BLOCK_TRANSACTIONS \in Nat
    BY RowIsSeq, BlockKindsType, KindsOfRecords
  <2> QED BY <2>1, ListReads
<1>6. ReadList(Thrown, MAX_BLOCK_TRANSACTIONS, PayKinds) = Thrown
  BY ListThrown
<1> HIDE DEF x, y, later, top
<1>7. ReadBlock(x \o later) = IF BlockFits(f, rows) THEN Reader(rest, Append(f, rows)) ELSE Thrown
  BY <1>3, <1>4, <1>5, <1>6 DEF BlockFits
<1> QED BY <1>2, <1>7

LEMMA BlockDecodes ==
  ASSUME NEW left \in Bytes, ReadBlock(left).ok
  PROVE  \E f \in Row(BlockKinds), rows \in Seq(Row(PayKinds)), rest \in Bytes :
           BlockFits(f, rows) /\ left = BlockEncoded(f, rows) \o rest
<1> DEFINE top == ReadFields(Reader(left, <<>>), BlockKinds)
<1>1. ReadBlock(left) = ReadList(top, MAX_BLOCK_TRANSACTIONS, PayKinds)
  BY DEF ReadBlock, BlockKinds, PayKinds
<1>2. top.ok
  BY <1>1, ListNotOk
<1>3. PICK f \in Row(BlockKinds), later \in Bytes :
        RowFits(BlockKinds, f) /\ left = RowEncoded(BlockKinds, f) \o later
  BY <1>2, BlockKindsType, RowCodec DEF RowDecodes
<1>4. top = Reader(later, f)
  BY <1>3, BlockKindsType, RowCodec DEF RowReads
<1>5. PICK rows \in Seq(Row(PayKinds)), rest \in Bytes : later = ListEncoded(PayKinds, rows) \o rest
  <2> HIDE DEF top
  <2>1. ReadList(Reader(later, f), MAX_BLOCK_TRANSACTIONS, PayKinds) # Thrown
    BY <1>1, <1>4, Readers
  <2>2. f \in Seq(Field) /\ PayKinds \in Seq(Kinds) /\ MAX_BLOCK_TRANSACTIONS \in Nat
    BY RowIsSeq, BlockKindsType, KindsOfRecords
  <2>3. ListFound(PayKinds, later, MAX_BLOCK_TRANSACTIONS, f)
    BY ONLY <2>1, <2>2, later \in Bytes, ListDecodes
  <2> QED BY ONLY <2>3 DEF ListFound
<1>6. left = BlockEncoded(f, rows) \o rest
  <2> DEFINE x == RowEncoded(BlockKinds, f)
             y == ListEncoded(PayKinds, rows)
  <2>1. x \in Bytes /\ y \in Bytes
    BY BlockPartTypes
  <2>2. left = x \o (y \o rest) /\ BlockEncoded(f, rows) = x \o y
    BY <1>3, <1>5 DEF BlockEncoded
  <2> HIDE DEF x, y
  <2>3. (x \o y) \o rest = x \o (y \o rest)
    BY ONLY <2>1, rest \in Bytes, BytesRegroup, SMTT(40)
  <2> QED BY <2>2, <2>3
<1>7. BlockFits(f, rows)
  <2>1. ReadBlock(left) = IF BlockFits(f, rows) THEN Reader(rest, Append(f, rows)) ELSE Thrown
    BY <1>6, BlockReads
  <2> QED BY <2>1, Readers
<1> QED BY <1>6, <1>7

LEMMA BlockGot ==
  ASSUME NEW f \in Row(BlockKinds), NEW rows, NEW txs
  PROVE  Append(f, rows)[12] = rows /\ BlockOf(Append(f, rows), txs) = BlockOf(f, txs)
<1> DEFINE g == Append(f, rows)
           V == Field \cup {rows}
<1>1. f \in Seq(V) /\ rows \in V /\ Len(f) = 11
  BY RowIsSeq, BlockRowSplit
<1> HIDE DEF V
<1>2. g[12] = rows /\ \A n \in 1..11 : g[n] = f[n]
  <2> DEFINE m == 11
  <2>1. m \in Nat /\ m + 1 = 12 /\ Len(f) = m
    BY <1>1
  <2> HIDE DEF m
  <2>2. g[m + 1] = rows /\ \A n \in 1..m : g[n] = f[n]
    BY <1>1, <2>1
  <2> HIDE DEF g
  <2> QED BY <2>1, <2>2 DEF m
<1> HIDE DEF g
<1>3. /\ g[1] = f[1] /\ g[2] = f[2] /\ g[3] = f[3] /\ g[4] = f[4] /\ g[5] = f[5] /\ g[6] = f[6]
      /\ g[7] = f[7] /\ g[8] = f[8] /\ g[9] = f[9] /\ g[10] = f[10] /\ g[11] = f[11]
  BY <1>2
<1>4. BlockOf(g, txs) = BlockOf(f, txs)
  BY <1>3 DEF BlockOf
<1> QED BY <1>2, <1>4 DEF g

LEMMA TwelveAppended ==
  ASSUME NEW a, NEW b, NEW c, NEW d, NEW e, NEW g, NEW h, NEW i, NEW j, NEW k, NEW l, NEW y
  PROVE  Append(<<a, b, c, d, e, g, h, i, j, k, l>>, y) = <<a, b, c, d, e, g, h, i, j, k, l, y>>
<1> DEFINE V == {a, b, c, d, e, g, h, i, j, k, l, y}
           s == <<a, b, c, d, e, g, h, i, j, k, l>>
           t == <<a, b, c, d, e, g, h, i, j, k, l, y>>
           w == Append(s, y)
<1>1. /\ a \in V /\ b \in V /\ c \in V /\ d \in V /\ e \in V /\ g \in V
      /\ h \in V /\ i \in V /\ j \in V /\ k \in V /\ l \in V /\ y \in V
  OBVIOUS
<1> HIDE DEF V
<1>2. s \in Seq(V) /\ Len(s) = 11
  BY <1>1
<1>3. t \in Seq(V) /\ Len(t) = 12
  BY <1>1
<1>4. /\ s[1] = t[1] /\ s[2] = t[2] /\ s[3] = t[3] /\ s[4] = t[4] /\ s[5] = t[5] /\ s[6] = t[6]
      /\ s[7] = t[7] /\ s[8] = t[8] /\ s[9] = t[9] /\ s[10] = t[10] /\ s[11] = t[11]
  OBVIOUS
<1>5. t[12] = y
  OBVIOUS
<1> HIDE DEF s, t
<1> DEFINE m == 11
<1>6. m \in Nat /\ m + 1 = 12 /\ Len(s) = m
  BY <1>2
<1> HIDE DEF m
<1>7. w \in Seq(V) /\ Len(w) = 12 /\ w[12] = y /\ \A n \in 1..11 : w[n] = s[n]
  <2>1. /\ w \in Seq(V) /\ Len(w) = m + 1 /\ w[m + 1] = y
        /\ \A n \in 1..m : w[n] = s[n]
    BY <1>1, <1>2, <1>6
  <2> HIDE DEF w
  <2> QED BY <1>6, <2>1 DEF m
<1> HIDE DEF w
<1>8. \A n \in 1..12 : n \in 1..11 \/ n = 12
  OBVIOUS
<1>9. \A n \in 1..11 : s[n] = t[n]
  BY <1>4
<1>10. \A n \in 1..12 : w[n] = t[n]
  BY <1>5, <1>7, <1>8, <1>9
<1> QED BY <1>3, <1>7, <1>10, SeqEqual DEF s, t, w

LEMMA BlockForm ==
  ASSUME NEW x \in Block
  PROVE  LET f == BlockRow(x)
             rows == PayRows(x.transactions)
         IN  /\ f \in Row(BlockKinds) /\ rows \in Seq(Row(PayKinds))
             /\ SerializeBlock(x) = BlockEncoded(f, rows)
             /\ BlockWithinLimits(x)
                  <=> BlockFits(f, rows) /\ \A n \in DOMAIN x.transactions : TxWithinLimits(x.transactions[n])
             /\ BlockOf(f, x.transactions) = x
<1> DEFINE f == BlockRow(x)
           rows == PayRows(x.transactions)
           y == ListEncoded(PayKinds, rows)
           s == <<<<x.version>>, <<x.height>>, WriteString(x.prev_block_hash),
                  WriteString(x.merkle_root), <<x.timestamp>>, <<x.nonce>>,
                  WriteString(x.validator_address), <<x.validator_stake>>, <<x.validator_age>>,
                  WriteString(x.validator_public_key), WriteString(x.validator_signature)>>
<1>1. x.transactions \in Seq(Transaction)
  BY DEF Block
<1>2. /\ rows \in Seq(Row(PayKinds)) /\ Len(rows) = Len(x.transactions)
      /\ WriteList([n \in 1..Len(x.transactions) |-> WriteString(SerializeTx(x.transactions[n]))]) = y
      /\ RowsFit(PayKinds, rows)
           <=> \A n \in DOMAIN x.transactions :
                 Len(SerializeTx(x.transactions[n])) <= MAX_SERIALIZED_STRING
  BY <1>1, PayRowsOf
<1>3. f \in Row(BlockKinds) /\ RowEncoded(BlockKinds, f) = Written(s)
  BY BlockRowOf
<1>4. RowFits(BlockKinds, f) <=> /\ Len(x.prev_block_hash) <= MAX_SERIALIZED_STRING
                                 /\ Len(x.merkle_root) <= MAX_SERIALIZED_STRING
                                 /\ Len(x.validator_address) <= MAX_SERIALIZED_STRING
                                 /\ Len(x.validator_public_key) <= MAX_SERIALIZED_BYTES
                                 /\ Len(x.validator_signature) <= MAX_SERIALIZED_BYTES
  BY BlockRowOf
<1>5. BlockOf(f, x.transactions) = x
  BY DEF BlockOf, BlockRow, Block
<1>6. s \in Seq(Bytes)
  <2>1. \A v \in Bytes : WriteString(v) \in Bytes
    <3>1. \A v : v \in FieldValue("string") => Encode("string", v) \in Bytes
      BY EncodeType
    <3> QED BY <3>1 DEF Encode, FieldValue
  <2>2. \A v \in Nat : <<v>> \in Bytes
    BY DEF Bytes
  <2>3. /\ <<x.version>> \in Bytes /\ <<x.height>> \in Bytes /\ WriteString(x.prev_block_hash) \in Bytes
        /\ WriteString(x.merkle_root) \in Bytes /\ <<x.timestamp>> \in Bytes /\ <<x.nonce>> \in Bytes
        /\ WriteString(x.validator_address) \in Bytes /\ <<x.validator_stake>> \in Bytes
        /\ <<x.validator_age>> \in Bytes /\ WriteString(x.validator_public_key) \in Bytes
        /\ WriteString(x.validator_signature) \in Bytes
    BY <2>1, <2>2 DEF Block
  <2> QED BY <2>3
<1>7. y \in Bytes
  BY <1>2, <1>3, BlockPartTypes
<1>8. SerializeBlock(x) = Written(Append(s, y))
  <2>1. SerializeBlock(x) = Written(<<<<x.version>>, <<x.height>>, WriteString(x.prev_block_hash),
                  WriteString(x.merkle_root), <<x.timestamp>>, <<x.nonce>>,
                  WriteString(x.validator_address), <<x.validator_stake>>, <<x.validator_age>>,
                  WriteString(x.validator_public_key), WriteString(x.validator_signature), y>>)
    BY <1>2 DEF SerializeBlock
  <2> HIDE DEF y
  <2>2. Append(s, y) = <<<<x.version>>, <<x.height>>, WriteString(x.prev_block_hash),
                  WriteString(x.merkle_root), <<x.timestamp>>, <<x.nonce>>,
                  WriteString(x.validator_address), <<x.validator_stake>>, <<x.validator_age>>,
                  WriteString(x.validator_public_key), WriteString(x.validator_signature), y>>
    BY TwelveAppended
  <2> QED BY <2>1, <2>2
<1>9. Written(Append(s, y)) = Written(s) \o y
  <2> HIDE DEF s, y
  <2> QED BY <1>6, <1>7, WrittenOne
<1>10. SerializeBlock(x) = BlockEncoded(f, rows)
  <2> HIDE DEF s, f
  <2> QED BY <1>3, <1>8, <1>9 DEF BlockEncoded
<1>11. BlockWithinLimits(x)
         <=> BlockFits(f, rows) /\ \A n \in DOMAIN x.transactions : TxWithinLimits(x.transactions[n])
  <2> HIDE DEF f, rows
  <2> QED BY <1>2, <1>4 DEF BlockWithinLimits, BlockFits
<1> QED BY <1>2, <1>3, <1>5, <1>10, <1>11

(* DeserializeBlock once the fields and the strings have been read         *)
Payload(rows) == [n \in 1..Len(rows) |-> DeserializeTx(rows[n][1])]

Firsts(s) == [n \in DOMAIN s |-> s[n][1]]

LEMMA BlockOfRows ==
  ASSUME NEW left, NEW f \in Row(BlockKinds), NEW rows \in Seq(Row(PayKinds)), NEW rest,
         ReadBlock(left) = Reader(rest, Append(f, rows))
  PROVE  DeserializeBlock(left)
           = IF rest = <<>> /\ \A n \in DOMAIN Payload(rows) : Payload(rows)[n] # <<>>
             THEN <<BlockOf(f, Firsts(Payload(rows)))>> ELSE <<>>
<1> DEFINE r == ReadBlock(left)
           got == Append(f, rows)
           txs == [n \in 1..Len(r.got[12]) |-> DeserializeTx(r.got[12][n][1])]
<1>1. DeserializeBlock(left)
        = IF r.ok /\ r.left = <<>> /\ \A n \in DOMAIN txs : txs[n] # <<>>
          THEN <<BlockOf(r.got, Firsts(txs))>> ELSE <<>>
  BY DEF DeserializeBlock, Firsts
<1>2. got[12] = rows /\ \A ts : BlockOf(got, ts) = BlockOf(f, ts)
  BY BlockGot
<1> HIDE DEF got
<1>3. r.ok /\ r.left = rest /\ r.got = got
  <2>1. Reader(rest, got).ok /\ Reader(rest, got).left = rest /\ Reader(rest, got).got = got
    BY ONLY Readers, ZenonT(60)
  <2>2. r = Reader(rest, got)
    BY DEF got
  <2> HIDE DEF r
  <2> QED BY <2>1, <2>2
<1> HIDE DEF r
<1>4. txs = Payload(rows)
  BY <1>2, <1>3 DEF Payload
<1> HIDE DEF txs
<1> QED BY <1>1, <1>2, <1>3, <1>4

LEMMA BlockRoundTrip ==
  ASSUME NEW x \in Block
  PROVE  /\ SerializeBlock(x) \in Bytes
         /\ DeserializeBlock(SerializeBlock(x)) = IF BlockWithinLimits(x) THEN <<x>> ELSE <<>>
<1> DEFINE f == BlockRow(x)
           txs == x.transactions
           rows == PayRows(txs)
           s == SerializeBlock(x)
           m == Len(txs)
           pay == Payload(rows)
<1>1. /\ f \in Row(BlockKinds) /\ rows \in Seq(Row(PayKinds)) /\ s = BlockEncoded(f, rows)
      /\ BlockWithinLimits(x)
           <=> BlockFits(f, rows) /\ \A n \in DOMAIN txs : TxWithinLimits(txs[n])
      /\ BlockOf(f, txs) = x
  BY BlockForm
<1>2. txs \in Seq(Transaction)
  BY DEF Block
<1> HIDE DEF txs
<1>3. /\ m \in Nat /\ DOMAIN txs = 1..m /\ txs = [n \in 1..m |-> txs[n]]
      /\ \A n \in 1..m : txs[n] \in Transaction
  BY <1>2
<1>4. Len(rows) = m /\ \A n \in 1..m : rows[n][1] = SerializeTx(txs[n])
  BY <1>2, PayRowsOf
<1> HIDE DEF f, rows, s, m
<1>5. /\ DOMAIN pay = 1..m
      /\ \A n \in 1..m : pay[n] = IF TxWithinLimits(txs[n]) THEN <<txs[n]>> ELSE <<>>
  BY <1>3, <1>4, TxRoundTrip DEF Payload
<1> HIDE DEF pay
<1>6. (\A n \in DOMAIN pay : pay[n] # <<>>) <=> \A n \in DOMAIN txs : TxWithinLimits(txs[n])
  <2>1. \A n \in 1..m : <<txs[n]>> # <<>>
    OBVIOUS
  <2> QED BY <1>3, <1>5, <2>1
<1>7. (\A n \in DOMAIN txs : TxWithinLimits(txs[n])) => Firsts(pay) = txs
  <2> SUFFICES ASSUME \A n \in 1..m : TxWithinLimits(txs[n]) PROVE Firsts(pay) = txs
    BY <1>3
  <2>1. \A n \in 1..m : pay[n][1] = txs[n]
    BY <1>5
  <2>2. Firsts(pay) = [n \in 1..m |-> pay[n][1]]
    BY <1>5 DEF Firsts
  <2> QED BY <1>3, <2>1, <2>2
<1>8. <<>> \in Bytes
  BY DEF Bytes
<1>9. s \in Bytes /\ s \o <<>> = s
  BY <1>1, BlockPartTypes, EmptyConcat
<1>10. ReadBlock(s) = IF BlockFits(f, rows) THEN Reader(<<>>, Append(f, rows)) ELSE Thrown
  <2>1. ReadBlock(BlockEncoded(f, rows) \o <<>>)
          = IF BlockFits(f, rows) THEN Reader(<<>>, Append(f, rows)) ELSE Thrown
    BY <1>1, <1>8, BlockReads
  <2> QED BY <1>1, <1>9, <2>1
<1>11. CASE BlockFits(f, rows)
  <2>1. DeserializeBlock(s)
          = IF <<>> = <<>> /\ \A n \in DOMAIN pay : pay[n] # <<>>
            THEN <<BlockOf(f, Firsts(pay))>> ELSE <<>>
    <3>1. ReadBlock(s) = Reader(<<>>, Append(f, rows))
      BY <1>10, <1>11
    <3> QED BY <1>1, <3>1, BlockOfRows DEF pay
  <2>2. DeserializeBlock(s) = IF BlockWithinLimits(x) THEN <<x>> ELSE <<>>
    BY <1>1, <1>6, <1>7, <1>11, <2>1
  <2> QED BY <1>9, <2>2 DEF s
<1>12. CASE ~BlockFits(f, rows)
  <2>1. ReadBlock(s) = Thrown /\ ~Thrown.ok
    BY <1>10, <1>12, Readers
  <2>2. DeserializeBlock(s) = <<>>
    BY <2>1 DEF DeserializeBlock
  <2> QED BY <1>1, <1>9, <1>12, <2>2 DEF s
<1> QED BY <1>11, <1>12

LEMMA BlockUnique ==
  ASSUME NEW left \in Bytes, DeserializeBlock(left) # <<>>
  PROVE  \E x \in Block : DeserializeBlock(left) = <<x>> /\ left = SerializeBlock(x)
<1>1. ReadBlock(left).ok
  BY DEF DeserializeBlock
<1>2. PICK f \in Row(BlockKinds), rows \in Seq(Row(PayKinds)), rest \in Bytes :
           BlockFits(f, rows) /\ left = BlockEncoded(f, rows) \o rest
  BY <1>1, BlockDecodes
<1>3. ReadBlock(left) = Reader(rest, Append(f, rows))
  BY <1>2, BlockReads
<1> DEFINE pay == Payload(rows)
           txs == Firsts(pay)
           m == Len(rows)
<1>4. DeserializeBlock(left)
        = IF rest = <<>> /\ \A n \in DOMAIN pay : pay[n] # <<>> THEN <<BlockOf(f, txs)>> ELSE <<>>
  BY <1>3, BlockOfRows
<1>5. /\ rest = <<>> /\ \A n \in DOMAIN pay : pay[n] # <<>>
      /\ DeserializeBlock(left) = <<BlockOf(f, txs)>>
  <2> HIDE DEF pay, txs
  <2> QED BY <1>4
<1>6. /\ m \in Nat /\ rows = [n \in 1..m |-> rows[n]] /\ \A n \in 1..m : rows[n] \in Row(PayKinds)
  OBVIOUS
<1>7. DOMAIN pay = 1..m /\ \A n \in 1..m : pay[n] = DeserializeTx(rows[n][1])
  BY DEF Payload
<1>8. ASSUME NEW n \in 1..m
      PROVE  pay[n][1] \in Transaction /\ rows[n] = <<SerializeTx(pay[n][1])>>
  <2>1. rows[n][1] \in Bytes /\ rows[n] = <<rows[n][1]>>
    BY <1>6, RowPay
  <2>2. DeserializeTx(rows[n][1]) # <<>>
    BY <1>5, <1>7
  <2>3. PICK tx \in Transaction :
          DeserializeTx(rows[n][1]) = <<tx>> /\ rows[n][1] = SerializeTx(tx)
    BY <2>1, <2>2, TxUnique
  <2>4. pay[n][1] = tx
    BY <1>7, <2>3
  <2> QED BY <2>1, <2>3, <2>4
<1>9. txs = [n \in 1..m |-> pay[n][1]]
  BY <1>7 DEF Firsts
<1> HIDE DEF pay, txs, m
<1>10. txs \in Seq(Transaction) /\ Len(txs) = m /\ \A n \in 1..m : txs[n] = pay[n][1]
  BY <1>6, <1>8, <1>9
<1>11. PayRows(txs) = rows
  <2>1. PayRows(txs) = [n \in 1..m |-> <<SerializeTx(txs[n])>>]
    BY <1>10 DEF PayRows
  <2>2. \A n \in 1..m : <<SerializeTx(txs[n])>> = rows[n]
    BY <1>8, <1>10
  <2> QED BY <1>6, <2>1, <2>2
<1> DEFINE x == BlockOf(f, txs)
<1>12. /\ f[1] \in Nat /\ f[2] \in Nat /\ f[3] \in Bytes /\ f[4] \in Bytes
       /\ f[5] \in Nat /\ f[6] \in Nat /\ f[7] \in Bytes /\ f[8] \in Nat
       /\ f[9] \in Nat /\ f[10] \in Bytes /\ f[11] \in Bytes
       /\ f = <<f[1], f[2], f[3], f[4], f[5], f[6], f[7], f[8], f[9], f[10], f[11]>>
  BY BlockRowSplit
<1>13. x \in Block
  BY <1>10, <1>12 DEF BlockOf, Block
<1>14. BlockRow(x) = f /\ x.transactions = txs
  <2>1. BlockRow(x) = <<f[1], f[2], f[3], f[4], f[5], f[6], f[7], f[8], f[9], f[10], f[11]>>
    BY DEF BlockRow, BlockOf
  <2>2. x.transactions = txs
    BY DEF BlockOf
  <2> QED BY <1>12, <2>1, <2>2
<1> HIDE DEF x
<1>15. SerializeBlock(x) = BlockEncoded(f, rows)
  BY <1>11, <1>13, <1>14, BlockForm
<1>16. left = SerializeBlock(x)
  BY <1>2, <1>5, <1>15, BlockPartTypes, EmptyConcat
<1> QED BY <1>5, <1>13, <1>16 DEF x

-----------------------------------------------------------------------------
(* What is on the wire, and what the reader has made of it                 *)
WireInv ==
  /\ item \in Items
  /\ data \in Bytes
  /\ decoded = Deserialize(item.kind, data)

LEMMA WireInitInv == WireInit => WireInv
<1> SUFFICES ASSUME WireInit PROVE WireInv
  OBVIOUS
<1>1. item \in Items /\ decoded = Deserialize(item.kind, data)
  BY DEF WireInit
<1>2. Serialize(item) \in Bytes
  <2>1. CASE item \in Transaction
    <3>1. item.kind = "tx"
      BY <2>1 DEF Transaction
    <3> QED BY <2>1, <3>1, TxRoundTrip DEF Serialize
  <2>2. CASE item \in Vote
    <3>1. item.kind = "vote"
      BY <2>2 DEF Vote
    <3> QED BY <2>2, <3>1, VoteRoundTrip DEF Serialize
  <2>3. CASE item \in Block
    <3>1. item.kind = "block"
      BY <2>3 DEF Block
    <3> QED BY <2>3, <3>1, BlockRoundTrip DEF Serialize
  <2> QED BY <1>1, <2>1, <2>2, <2>3, WireConstants
<1> QED BY <1>1, <1>2 DEF WireInit, WireInv

LEMMA WireNextInv == WireInv /\ [WireNext]_wireVars => WireInv'
<1> SUFFICES ASSUME WireInv, [WireNext]_wireVars PROVE WireInv'
  OBVIOUS
<1>1. item \in Items /\ data \in Seq(Nat) /\ decoded = Deserialize(item.kind, data)
  BY DEF WireInv, Bytes
<1>2. ASSUME NEW bytes \in Bytes, Arrive(bytes) PROVE WireInv'
  BY <1>1, <1>2 DEF Arrive, WireInv
<1>3. CASE CutShort
  <2>1. PICK n \in 0..(Len(data) - 1) : Arrive(SubSeq(data, 1, n))
    BY <1>3 DEF CutShort
  <2>2. SubSeq(data, 1, n) \in Bytes
    BY <1>1 DEF Bytes
  <2> QED BY <1>2, <2>1, <2>2
<1>4. CASE Extended
  <2>1. PICK unit \in Units : Arrive(Append(data, unit))
    BY <1>4 DEF Extended
  <2>2. unit \in Nat
    BY WireConstants
  <2>3. Append(data, unit) \in Bytes
    BY <1>1, <2>2 DEF Bytes
  <2> QED BY <1>2, <2>1, <2>3
<1>5. CASE Garbled
  <2>1. PICK n \in DOMAIN data, unit \in Units : Arrive([data EXCEPT ![n] = unit])
    BY <1>5 DEF Garbled
  <2>2. unit \in Nat
    BY WireConstants
  <2>3. [data EXCEPT ![n] = unit] \in Bytes
    BY <1>1, <2>2 DEF Bytes
  <2> QED BY <1>2, <2>1, <2>3
<1>6. CASE UNCHANGED wireVars
  BY <1>6 DEF wireVars, WireInv
<1> QED BY <1>3, <1>4, <1>5, <1>6 DEF WireNext

LEMMA PrefixOf ==
  ASSUME NEW s \in Bytes, NEW t \in Bytes
  PROVE  IsPrefix(s, s \o t)
<1>1. s \in Seq(Nat) /\ t \in Seq(Nat)
  BY DEF Bytes
<1>2. Len(s) \in Nat /\ Len(t) \in Nat /\ Len(s \o t) = Len(s) + Len(t) /\ SubSeq(s \o t, 1, Len(s)) = s
  BY <1>1, CutConcat
<1>3. SubSeq(s, 1, Len(s)) = s
  BY <1>1, SubSeqFull
<1> DEFINE w == s \o t
<1> HIDE DEF w
<1>4. Len(s) <= Len(w) /\ SubSeq(w, 1, Len(s)) = s
  BY <1>2 DEF w
<1>5. IsPrefix(s, w)
  BY <1>3, <1>4 DEF IsPrefix
<1> QED BY <1>5 DEF w

LEMMA WireInvExact == WireInv => CodecExact
<1> SUFFICES ASSUME WireInv PROVE CodecExact
  OBVIOUS
<1>1. item \in Items /\ data \in Bytes /\ decoded = Deserialize(item.kind, data)
  BY DEF WireInv
<1>2. \A x : <<x>>[1] = x
  OBVIOUS
<1>3. CASE item \in Transaction
  <2>1. item.kind = "tx"
    BY <1>3 DEF Transaction
  <2>2. Serialize(item) = SerializeTx(item) /\ decoded = DeserializeTx(data)
        /\ (WithinLimits(item) <=> TxWithinLimits(item))
    BY <1>1, <2>1 DEF Serialize, Deserialize, WithinLimits
  <2>3. data = Serialize(item) => decoded = IF WithinLimits(item) THEN <<item>> ELSE <<>>
    BY <1>3, <2>2, TxRoundTrip
  <2>4. ASSUME decoded # <<>> PROVE Serialize(decoded[1]) = data
    <3>1. PICK tx \in Transaction : decoded = <<tx>> /\ data = SerializeTx(tx)
      BY <1>1, <2>2, <2>4, TxUnique
    <3>2. decoded[1] = tx /\ tx.kind = "tx"
      BY <1>2, <3>1 DEF Transaction
    <3> QED BY <3>1, <3>2 DEF Serialize
  <2> QED BY <2>3, <2>4 DEF CodecExact
<1>4. CASE item \in Vote
  <2>1. item.kind = "vote"
    BY <1>4 DEF Vote
  <2>2. Serialize(item) = SerializeVote(item) /\ decoded = DeserializeVote(data)
        /\ (WithinLimits(item) <=> VoteWithinLimits(item))
    BY <1>1, <2>1 DEF Serialize, Deserialize, WithinLimits
  <2>3. data = Serialize(item) => decoded = IF WithinLimits(item) THEN <<item>> ELSE <<>>
    BY <1>4, <2>2, VoteRoundTrip
  <2>4. ASSUME decoded # <<>> PROVE IsPrefix(Serialize(decoded[1]), data)
    <3>1. PICK v \in Vote, rest \in Bytes : decoded = <<v>> /\ data = SerializeVote(v) \o rest
      BY <1>1, <2>2, <2>4, VoteUnique
    <3>2. decoded[1] = v /\ v.kind = "vote"
      BY <1>2, <3>1 DEF Vote
    <3>3. Serialize(v) = SerializeVote(v) /\ SerializeVote(v) \in Bytes
      BY <3>2, VoteRoundTrip DEF Serialize
    <3> QED BY <3>1, <3>2, <3>3, PrefixOf
  <2> QED BY <2>1, <2>3, <2>4 DEF CodecExact
<1>5. CASE item \in Block
  <2>1. item.kind = "block"
    BY <1>5 DEF Block
  <2>2. Serialize(item) = SerializeBlock(item) /\ decoded = DeserializeBlock(data)
        /\ (WithinLimits(item) <=> BlockWithinLimits(item))
    BY <1>1, <2>1 DEF Serialize, Deserialize, WithinLimits
  <2>3. data = Serialize(item) => decoded = IF WithinLimits(item) THEN <<item>> ELSE <<>>
    BY <1>5, <2>2, BlockRoundTrip
  <2>4. ASSUME decoded # <<>> PROVE Serialize(decoded[1]) = data
    <3>1. PICK x \in Block : decoded = <<x>> /\ data = SerializeBlock(x)
      BY <1>1, <2>2, <2>4, BlockUnique
    <3>2. decoded[1] = x /\ x.kind = "block"
      BY <1>2, <3>1 DEF Block
    <3> QED BY <3>1, <3>2 DEF Serialize
  <2> QED BY <2>3, <2>4 DEF CodecExact
<1> QED BY <1>1, <1>3, <1>4, <1>5, WireConstants

(* Whatever is sent, whatever becomes of it on the way and whatever the    *)
(* limits are: what arrives intact is decoded by the deserialize functions *)
(* to what was sent unless a limit is exceeded, and nothing is decoded     *)
(* from two different encodings, except for what follows a vote.           *)
THEOREM WireCodecExact == WireSpec => []CodecExact
<1>1. WireInit => WireInv
  BY WireInitInv
<1>2. WireInv /\ [WireNext]_wireVars => WireInv'
  BY WireNextInv
<1>3. WireInv => CodecExact
  BY WireInvExact
<1> QED BY <1>1, <1>2, <1>3, PTL DEF WireSpec

-----------------------------------------------------------------------------
(* Governance.  More products of natural numbers                           *)
LEMMA TimesLess ==
  ASSUME NEW a \in Nat, NEW b \in Nat, NEW c \in Nat, c >= 1, a < b
  PROVE  a * c < b * c /\ c * a < c * b
OBVIOUS

LEMMA CancelMore ==
  ASSUME NEW a \in Nat, NEW b \in Nat, NEW c \in Nat, c >= 1, a * c <= b * c
  PROVE  a <= b
<1>1. b < a => b * c < a * c
  BY TimesLess
<1>2. a * c \in Nat /\ b * c \in Nat
  OBVIOUS
<1> QED BY <1>1, <1>2

LEMMA CancelLess ==
  ASSUME NEW a \in Nat, NEW b \in Nat, NEW c \in Nat, a * c < b * c
  PROVE  a < b
<1>1. b <= a => b * c <= a * c
  BY TimesMore
<1>2. a * c \in Nat /\ b * c \in Nat
  OBVIOUS
<1> QED BY <1>1, <1>2

LEMMA TimesRegroup ==
  ASSUME NEW a \in Nat, NEW b \in Nat, NEW c \in Nat
  PROVE  (a * b) * c = a * (b * c) /\ (a * b) * c = (a * c) * b
OBVIOUS

(* Powers of two                                                           *)
Doubling == INSTANCE FoldTheorems WITH Op <- LAMBDA k, n : 2 * n, Pick <- Max

LEMMA TwoSteps == Two[0] = 1 /\ \A k \in Nat : Two[k + 1] = 2 * Two[k]
<1>1. Two = Doubling!Solution(1, Nat)
  BY DEF Two, Doubling!Solution, Doubling!Recursion
<1>2. Doubling!LeastNumbers
  BY LeastNat DEF Doubling!LeastNumbers
<1>3. Doubling!Initial(Nat)
  BY DEF Doubling!Initial
<1>4. \A n \in Nat : Two[n] = IF n = 0 THEN 1 ELSE 2 * Two[n - 1]
  BY <1>1, <1>2, <1>3, Doubling!RecursionSolved
<1>5. ASSUME NEW k \in Nat PROVE Two[k + 1] = 2 * Two[k]
  <2>1. k + 1 \in Nat /\ k + 1 # 0 /\ (k + 1) - 1 = k
    OBVIOUS
  <2> QED BY <1>4, <2>1
<1> QED BY <1>4, <1>5

LEMMA TwoNat == \A k \in Nat : Two[k] \in Nat /\ Two[k] >= 1
<1> DEFINE G == {k \in Nat : Two[k] \in Nat /\ Two[k] >= 1}
<1>1. 0 \in G
  BY TwoSteps
<1>2. ASSUME NEW n \in Nat, n \in G PROVE n + 1 \in G
  <2>1. Two[n] \in Nat /\ Two[n] >= 1 /\ Two[n + 1] = 2 * Two[n]
    BY <1>2, TwoSteps
  <2> QED BY <2>1
<1>3. Nat \subseteq G
  <2> HIDE DEF G
  <2> QED BY <1>1, <1>2, NatSetInduction
<1> QED BY <1>3

LEMMA TwoPlus == ASSUME NEW a \in Nat, NEW b \in Nat PROVE Two[a + b] = Two[a] * Two[b]
<1> DEFINE G == {k \in Nat : Two[a + k] = Two[a] * Two[k]}
           x == Two[a]
<1>0. x \in Nat
  BY TwoNat
<1>1. 0 \in G
  <2>1. a + 0 = a /\ Two[0] = 1
    BY TwoSteps
  <2> QED BY <1>0, <2>1
<1>2. ASSUME NEW n \in Nat, n \in G PROVE n + 1 \in G
  <2> DEFINE y == Two[n]
             z == Two[a + n]
  <2>1. z = x * y /\ y \in Nat
    BY <1>2, TwoNat
  <2>2. a + n \in Nat /\ a + (n + 1) = (a + n) + 1
    OBVIOUS
  <2>3. Two[a + (n + 1)] = 2 * z /\ Two[n + 1] = 2 * y
    BY <2>2, TwoSteps
  <2> HIDE DEF x, y, z
  <2>4. 2 * (x * y) = x * (2 * y)
    BY <1>0, <2>1
  <2>5. Two[a + (n + 1)] = x * Two[n + 1]
    BY <2>1, <2>3, <2>4
  <2> QED BY <2>5 DEF x
<1>3. Nat \subseteq G
  <2> HIDE DEF G
  <2> QED BY <1>1, <1>2, NatSetInduction
<1> QED BY <1>3

LEMMA TwoGrows ==
  ASSUME NEW a \in Nat, NEW b \in Nat, a < b
  PROVE  2 * Two[a] <= Two[b]
<1> DEFINE c == b - (a + 1)
<1>1. c \in Nat /\ a + 1 \in Nat /\ b = (a + 1) + c
  OBVIOUS
<1> HIDE DEF c
<1>2. Two[b] = Two[a + 1] * Two[c]
  BY <1>1, TwoPlus
<1>3. Two[a + 1] = 2 * Two[a]
  BY TwoSteps
<1>4. Two[a] \in Nat /\ Two[c] \in Nat /\ Two[c] >= 1
  BY <1>1, TwoNat
<1> DEFINE x == 2 * Two[a]
           y == Two[c]
<1>5. x \in Nat /\ y \in Nat /\ 1 <= y
  BY <1>4
<1>6. Two[b] = x * y
  BY <1>2, <1>3
<1> HIDE DEF x, y
<1>7. x * 1 <= x * y /\ x * 1 = x
  BY <1>5, TimesMore
<1> QED BY <1>6, <1>7 DEF x

LEMMA TwoOrder ==
  ASSUME NEW a \in Nat, NEW b \in Nat, a <= b
  PROVE  Two[a] <= Two[b]
<1>1. Two[a] \in Nat /\ Two[b] \in Nat
  BY TwoNat
<1>2. CASE a = b
  BY <1>1, <1>2
<1>3. CASE a < b
  BY <1>1, <1>3, TwoGrows
<1> QED BY <1>2, <1>3
-----------------------------------------------------------------------------
(* Rounding to an integer                                                  *)
LEMMA DivModNat ==
  ASSUME NEW n \in Nat, NEW d \in Nat \ {0}
  PROVE  /\ n \div d \in Nat /\ n % d \in 0..(d - 1)
         /\ n = d * (n \div d) + (n % d)
OBVIOUS

Rounds(n, d) ==
  \E q \in Nat, r \in 0..(d - 1) :
    /\ n = d * q + r
    /\ RoundToEven(n, d) = IF 2 * r < d \/ (2 * r = d /\ q % 2 = 0) THEN q ELSE q + 1

LEMMA RoundCases == ASSUME NEW n \in Nat, NEW d \in Nat \ {0} PROVE Rounds(n, d)
<1> DEFINE q == n \div d
           r == n % d
<1>1. q \in Nat /\ r \in 0..(d - 1) /\ n = d * q + r
  BY DivModNat
<1>2. RoundToEven(n, d) = IF 2 * r < d \/ (2 * r = d /\ q % 2 = 0) THEN q ELSE q + 1
  BY DEF RoundToEven
<1> HIDE DEF q, r
<1> QED BY <1>1, <1>2 DEF Rounds

LEMMA RoundNear ==
  ASSUME NEW n \in Nat, NEW d \in Nat \ {0}
  PROVE  LET m == RoundToEven(n, d)
         IN  m \in Nat /\ 2 * (d * m) <= 2 * n + d /\ 2 * n <= 2 * (d * m) + d
<1>0. Rounds(n, d)
  BY RoundCases
<1>1. PICK q \in Nat, r \in 0..(d - 1) :
        /\ n = d * q + r
        /\ RoundToEven(n, d) = IF 2 * r < d \/ (2 * r = d /\ q % 2 = 0) THEN q ELSE q + 1
  BY ONLY <1>0 DEF Rounds
<1> DEFINE m == RoundToEven(n, d)
<1> HIDE DEF m
<1>2. d * (q + 1) = d * q + d /\ d * q \in Nat
  OBVIOUS
<1>3. CASE m = q /\ 2 * r <= d
  BY <1>1, <1>2, <1>3 DEF m
<1>4. CASE m = q + 1 /\ 2 * r >= d
  BY <1>1, <1>2, <1>4 DEF m
<1> QED BY <1>1, <1>3, <1>4 DEF m

(* A smaller ratio is not rounded to a larger integer.                     *)
LEMMA RoundMonotone ==
  ASSUME NEW a \in Nat, NEW b \in Nat \ {0}, NEW c \in Nat, NEW d \in Nat \ {0}, a * d <= c * b
  PROVE  RoundToEven(a, b) <= RoundToEven(c, d)
<1>0. Rounds(a, b) /\ Rounds(c, d)
  BY RoundCases
<1>1. PICK q \in Nat, r \in 0..(b - 1) :
        /\ a = b * q + r
        /\ RoundToEven(a, b) = IF 2 * r < b \/ (2 * r = b /\ q % 2 = 0) THEN q ELSE q + 1
  BY ONLY <1>0 DEF Rounds
<1>2. PICK p \in Nat, s \in 0..(d - 1) :
        /\ c = d * p + s
        /\ RoundToEven(c, d) = IF 2 * s < d \/ (2 * s = d /\ p % 2 = 0) THEN p ELSE p + 1
  BY ONLY <1>0 DEF Rounds
<1> DEFINE e == b * d
<1>3. e \in Nat /\ r * d \in Nat /\ s * b \in Nat /\ e * q \in Nat /\ e * p \in Nat
  OBVIOUS
<1>4. a * d = e * q + r * d /\ c * b = e * p + s * b
  BY <1>1, <1>2
<1>5. s * b < e
  <2>1. s < d /\ s \in Nat /\ b >= 1
    OBVIOUS
  <2>2. s * b < d * b
    BY <2>1, TimesLess
  <2> QED BY <2>2
<1> HIDE DEF e
<1>6. q <= p
  <2> SUFFICES ASSUME p < q PROVE FALSE
    OBVIOUS
  <2>1. p + 1 <= q /\ p + 1 \in Nat
    OBVIOUS
  <2>2. e * (p + 1) <= e * q /\ e * (p + 1) = e * p + e
    BY <1>3, <2>1, TimesMore
  <2> DEFINE x == e * p
             y == e * q
             z == r * d
             w == s * b
  <2>3. x \in Nat /\ y \in Nat /\ z \in Nat /\ w \in Nat /\ y + z <= x + w /\ w < e /\ x + e <= y
    BY <1>3, <1>4, <1>5, <2>2
  <2> HIDE DEF x, y, z, w
  <2> QED BY <1>3, <2>3
<1>7. CASE q < p
  BY <1>1, <1>2, <1>7
<1>8. CASE q = p
  <2>1. r * d <= s * b
    <3> DEFINE x == e * q
               z == r * d
               w == s * b
    <3>1. x \in Nat /\ z \in Nat /\ w \in Nat /\ x + z <= x + w
      BY <1>3, <1>4, <1>8
    <3> HIDE DEF x, z, w
    <3>2. z <= w
      BY <3>1
    <3> QED BY <3>2 DEF z, w
  <2>2. 2 * r >= b => 2 * s >= d
    <3> SUFFICES ASSUME b <= 2 * r PROVE d <= 2 * s
      OBVIOUS
    <3>1. b * d <= (2 * r) * d
      BY TimesMore
    <3>2. (2 * r) * d = 2 * (r * d) /\ 2 * (s * b) = (2 * s) * b
      OBVIOUS
    <3>3. d * b <= (2 * s) * b
      BY <1>3, <2>1, <3>1, <3>2
    <3> QED BY <3>3, CancelMore
  <2>3. 2 * r > b => 2 * s > d
    <3> SUFFICES ASSUME b < 2 * r PROVE d < 2 * s
      OBVIOUS
    <3>1. b * d < (2 * r) * d
      BY TimesLess
    <3>2. (2 * r) * d = 2 * (r * d) /\ 2 * (s * b) = (2 * s) * b
      OBVIOUS
    <3>3. d * b < (2 * s) * b
      BY <1>3, <2>1, <3>1, <3>2
    <3> QED BY <3>3, CancelLess
  <2>4. q % 2 = p % 2
    BY <1>8
  <2> HIDE DEF e
  <2> QED BY <1>1, <1>2, <1>8, <2>2, <2>3, <2>4
<1> QED BY <1>6, <1>7, <1>8

(* Integers are fixed points of rounding.                                  *)
LEMMA RoundExact ==
  ASSUME NEW m \in Nat, NEW d \in Nat \ {0}
  PROVE  RoundToEven(m * d, d) = m
<1> DEFINE n == m * d
<1>1. n \in Nat
  OBVIOUS
<1>2. n \div d = m /\ n % d = 0
  OBVIOUS
<1> HIDE DEF n
<1>3. RoundToEven(n, d) = m
  BY <1>2 DEF RoundToEven
<1> QED BY <1>3 DEF n

-----------------------------------------------------------------------------
(* Floats                                                                  *)
Mantissas == Two[GovMantissa]

HalfMantissas == Two[GovMantissa - 1]

LEMMA GovNumbers ==
  /\ Unit \in Nat /\ Unit >= 1 /\ Mantissas \in Nat /\ HalfMantissas \in Nat
  /\ Mantissas = 2 * HalfMantissas /\ HalfMantissas >= 2
  /\ GovModulus \in Nat /\ GovModulus >= 8 /\ HalfMantissas * GovModulus <= Unit
  /\ GovMantissa \in Nat /\ GovMantissa - 1 \in Nat /\ GovExponent \in Nat
<1>1. /\ GovMantissa \in Nat /\ GovExponent \in Nat /\ GovMantissa >= 2
      /\ GovModulus \in Nat /\ GovModulus >= 8 /\ HalfMantissas * GovModulus <= Unit
  BY GovernanceConstants DEF HalfMantissas
<1> DEFINE m == GovMantissa - 1
<1>2. m \in Nat /\ m + 1 = GovMantissa /\ 0 < m
  BY <1>1
<1> HIDE DEF m
<1>3. Two[m + 1] = 2 * Two[m] /\ Two[m] \in Nat /\ Two[0] = 1
  BY <1>2, TwoSteps, TwoNat
<1>4. 2 * Two[0] <= Two[m]
  BY <1>2, TwoGrows
<1>5. Unit \in Nat /\ Unit >= 1
  BY <1>1, TwoNat DEF Unit
<1>6. Two[m] >= 2
  BY <1>3, <1>4
<1> QED BY <1>1, <1>2, <1>3, <1>5, <1>6 DEF Mantissas, HalfMantissas, m

(* Ratios within the range of a float                                      *)
Widest == Two[GovMantissa + 3 * GovExponent]

Posed(n, d) == n \in Nat /\ d \in Nat \ {0} /\ n * Unit < Widest * d

LEMMA WidestIs == Widest = Mantissas * (Unit * (Unit * Unit)) /\ Widest \in Nat
<1> DEFINE E == GovExponent
           M == GovMantissa
<1>1. E \in Nat /\ M \in Nat
  BY GovNumbers
<1> HIDE DEF E, M
<1>2. E + E \in Nat /\ 3 * E = E + (E + E) /\ E + (E + E) \in Nat
  BY <1>1
<1>3. Two[M + (E + (E + E))] = Two[M] * Two[E + (E + E)]
  BY <1>1, <1>2, TwoPlus
<1>4. Two[E + (E + E)] = Two[E] * Two[E + E]
  BY <1>1, <1>2, TwoPlus
<1>5. Two[E + E] = Two[E] * Two[E]
  BY <1>1, TwoPlus
<1>6. Widest = Mantissas * (Unit * (Unit * Unit))
  BY <1>2, <1>3, <1>4, <1>5 DEF Widest, Mantissas, Unit, E, M
<1>7. Widest \in Nat
  <2>1. M + 3 * E \in Nat
    BY <1>1
  <2> QED BY <2>1, TwoNat DEF Widest, E, M
<1> QED BY <1>6, <1>7

FloatAt(n, d, k) ==
  /\ n * Unit < (Mantissas * Two[k]) * d
  /\ k = 0 \/ (HalfMantissas * Two[k]) * d <= n * Unit
  /\ ToFloat(n, d) = RoundToEven(n * Unit, d * Two[k]) * Two[k]

HasForm(n, d) == \E k \in Nat : FloatAt(n, d, k)

LEMMA FloatForm ==
  ASSUME NEW n, NEW d, Posed(n, d)
  PROVE  HasForm(n, d)
<1> DEFINE a == n * Unit
           Fine(k) == a < Two[GovMantissa + k] * d
           G == {k \in Nat : Fine(k)}
           K == 0..(3 * GovExponent)
           LastAt(k) == Fine(k) /\ (k = 0 \/ Two[GovMantissa + k - 1] * d <= a)
<1>0. n \in Nat /\ d \in Nat /\ d >= 1 /\ a \in Nat /\ GovExponent \in Nat /\ GovMantissa \in Nat
      /\ GovMantissa - 1 \in Nat
  BY GovNumbers DEF Posed
<1>1. 3 * GovExponent \in G
  BY <1>0 DEF Posed, Widest
<1>2. PICK k \in G : \A m \in G : k <= m
  <2>1. G \in SUBSET Nat /\ G # {}
    BY <1>1
  <2> HIDE DEF G
  <2> QED BY <2>1, LeastNat
<1>3. k \in K
  BY <1>0, <1>1, <1>2
<1>4. LastAt(k)
  <2>1. CASE k = 0
    BY <1>2, <2>1
  <2>2. CASE k # 0
    <3> DEFINE j == k - 1
    <3>1. j \in Nat /\ ~(k <= j) /\ GovMantissa + k - 1 = GovMantissa + j /\ GovMantissa + j \in Nat
      BY <1>0, <1>2, <2>2
    <3> HIDE DEF j
    <3>2. ~Fine(j)
      BY <1>2, <3>1
    <3>3. Two[GovMantissa + j] * d \in Nat
      BY <1>0, <3>1, TwoNat, TimesNat
    <3>4. Two[GovMantissa + j] * d <= a
      BY <1>0, <3>2, <3>3
    <3> QED BY <1>2, <3>1, <3>4
  <2> QED BY <2>1, <2>2
<1> DEFINE b == LastBit(n, d)
<1>5. b = CHOOSE l \in K : LastAt(l)
  BY DEF LastBit
<1>6. b \in K /\ LastAt(b)
  <2> HIDE DEF LastAt, K, b
  <2> QED BY <1>3, <1>4, <1>5
<1>7. b \in Nat
  BY <1>0, <1>6
<1> HIDE DEF b
<1>8. a < (Mantissas * Two[b]) * d
  <2>1. Two[GovMantissa + b] = Mantissas * Two[b]
    BY <1>0, <1>7, TwoPlus DEF Mantissas
  <2> QED BY <1>6, <2>1
<1>9. b = 0 \/ (HalfMantissas * Two[b]) * d <= a
  <2> DEFINE m == GovMantissa - 1
  <2>1. GovMantissa + b - 1 = m + b /\ m \in Nat
    BY <1>0, <1>7
  <2> HIDE DEF m
  <2>2. Two[m + b] = Two[m] * Two[b]
    BY <1>7, <2>1, TwoPlus
  <2> QED BY <1>6, <2>1, <2>2 DEF HalfMantissas, m
<1>10. ToFloat(n, d) = RoundToEven(a, d * Two[b]) * Two[b]
  BY DEF ToFloat, b
<1>11. FloatAt(n, d, b)
  BY <1>8, <1>9, <1>10 DEF FloatAt
<1> QED BY <1>7, <1>11 DEF HasForm

LEMMA FloatBounds ==
  ASSUME NEW n, NEW d, Posed(n, d), NEW k \in Nat, FloatAt(n, d, k)
  PROVE  /\ ToFloat(n, d) \in Nat /\ ToFloat(n, d) <= Mantissas * Two[k]
         /\ k # 0 => HalfMantissas * Two[k] <= ToFloat(n, d)
<1> DEFINE a == n * Unit
           s == Two[k]
           u == Mantissas
           h == HalfMantissas
           D == d * s
           r == RoundToEven(a, D)
           F == ToFloat(n, d)
<1>1. n \in Nat /\ d \in Nat \ {0} /\ u \in Nat /\ h \in Nat /\ a \in Nat
  BY GovNumbers, TimesNat DEF Posed
<1>2. s \in Nat \ {0}
  BY TwoNat
<1>3. a < (u * s) * d /\ (k # 0 => (h * s) * d <= a) /\ F = r * s
  BY DEF FloatAt
<1> HIDE DEF a, s, u, h, r, F
<1>4. D \in Nat \ {0} /\ (u * s) * d = u * D /\ (h * s) * d = h * D
  BY <1>1, <1>2
<1> HIDE DEF D
<1>5. r \in Nat
  BY <1>1, <1>4, RoundNear DEF r
<1>6. r <= u
  <2> DEFINE b == u * D
  <2>1. b \in Nat /\ a <= b
    BY <1>1, <1>3, <1>4
  <2> HIDE DEF b
  <2>2. a * D <= b * D
    BY <1>1, <1>4, <2>1, TimesMore
  <2>3. RoundToEven(a, D) <= RoundToEven(b, D)
    BY <1>1, <1>4, <2>1, <2>2, RoundMonotone
  <2>4. RoundToEven(b, D) = u
    BY <1>1, <1>4, RoundExact DEF b
  <2> QED BY <2>3, <2>4 DEF r
<1>7. ASSUME k # 0 PROVE h <= r
  <2> DEFINE b == h * D
  <2>1. b \in Nat /\ b <= a
    BY <1>1, <1>3, <1>4, <1>7
  <2> HIDE DEF b
  <2>2. b * D <= a * D
    BY <1>1, <1>4, <2>1, TimesMore
  <2>3. RoundToEven(b, D) <= RoundToEven(a, D)
    BY <1>1, <1>4, <2>1, <2>2, RoundMonotone
  <2>4. RoundToEven(b, D) = h
    BY <1>1, <1>4, RoundExact DEF b
  <2> QED BY <2>3, <2>4 DEF r
<1>8. F \in Nat /\ F <= u * s
  BY <1>1, <1>2, <1>3, <1>5, <1>6, TimesMore, TimesNat
<1>9. k # 0 => h * s <= F
  BY <1>1, <1>2, <1>3, <1>5, <1>7, TimesMore
<1> QED BY <1>8, <1>9 DEF F, u, h, s

(* A larger ratio has no smaller float.                                    *)
LEMMA FloatMonotone ==
  ASSUME NEW m, NEW c, Posed(m, c), NEW n, NEW d, Posed(n, d), m * d <= n * c
  PROVE  ToFloat(m, c) <= ToFloat(n, d)
<1>1. HasForm(m, c) /\ HasForm(n, d)
  BY FloatForm
<1>2. PICK j \in Nat : FloatAt(m, c, j)
  BY ONLY <1>1 DEF HasForm
<1>3. PICK k \in Nat : FloatAt(n, d, k)
  BY ONLY <1>1 DEF HasForm
<1> DEFINE a == m * Unit
           b == n * Unit
           s == Two[j]
           t == Two[k]
           u == Mantissas
           h == HalfMantissas
           F == ToFloat(m, c)
           G == ToFloat(n, d)
<1>4. /\ m \in Nat /\ n \in Nat /\ c \in Nat \ {0} /\ d \in Nat \ {0} /\ u \in Nat /\ h \in Nat
      /\ u = 2 * h /\ Unit \in Nat /\ a \in Nat /\ b \in Nat /\ h >= 1
  BY GovNumbers, TimesNat DEF Posed
<1>5. s \in Nat \ {0} /\ t \in Nat \ {0}
  BY TwoNat
<1>6. /\ F \in Nat /\ F <= u * s /\ G \in Nat /\ (k # 0 => h * t <= G)
  BY <1>2, <1>3, FloatBounds
<1>7. /\ (j # 0 => (h * s) * c <= a) /\ b < (u * t) * d
      /\ F = RoundToEven(a, c * s) * s /\ G = RoundToEven(b, d * t) * t
  BY <1>2, <1>3 DEF FloatAt
<1>8. a * d <= b * c
  <2> DEFINE x == m * d
             y == n * c
  <2>1. x \in Nat /\ y \in Nat /\ x <= y
    BY <1>4
  <2>2. a * d = x * Unit /\ b * c = y * Unit
    BY <1>4
  <2> HIDE DEF x, y
  <2>3. x * Unit <= y * Unit
    BY <1>4, <2>1, TimesMore
  <2> QED BY <2>2, <2>3
<1>9. j < k => 2 * s <= t
  BY TwoGrows
<1>10. k < j => 2 * t <= s
  BY TwoGrows
<1>11. s = t => F <= G
  <2> SUFFICES ASSUME s = t PROVE F <= G
    OBVIOUS
  <2> HIDE DEF a, b, s, t, u, h, F, G
  <2> DEFINE C == c * s
             D == d * s
  <2>1. C \in Nat \ {0} /\ D \in Nat \ {0}
    BY <1>4, <1>5
  <2>2. a * D = (a * d) * s /\ b * C = (b * c) * s
    BY <1>4, <1>5
  <2>3. (a * d) * s <= (b * c) * s
    BY <1>4, <1>5, <1>8, TimesMore, TimesNat
  <2>4. F = RoundToEven(a, C) * s /\ G = RoundToEven(b, D) * s
    BY <1>7
  <2> HIDE DEF C, D
  <2>5. RoundToEven(a, C) <= RoundToEven(b, D)
    BY <1>4, <2>1, <2>2, <2>3, RoundMonotone
  <2>6. RoundToEven(a, C) \in Nat /\ RoundToEven(b, D) \in Nat
    BY <1>4, <2>1, RoundNear
  <2> QED BY <1>5, <2>4, <2>5, <2>6, TimesMore
<1>12. j = k => s = t
  OBVIOUS
<1> HIDE DEF a, b, s, t, u, h, F, G
<1>13. CASE j < k
  <2>1. u * s = h * (2 * s)
    BY <1>4, <1>5
  <2>2. h * (2 * s) <= h * t
    BY <1>4, <1>5, <1>9, <1>13, TimesMore
  <2>3. k # 0 /\ u * s \in Nat /\ h * t \in Nat
    BY <1>4, <1>5, <1>13
  <2> QED BY <1>6, <2>1, <2>2, <2>3 DEF F, G
<1>14. CASE k < j
  <2> DEFINE x == (h * s) * c
             y == (u * t) * d
             e == (h * s)
             g == (u * t)
  <2>1. j # 0 /\ e \in Nat /\ g \in Nat /\ x \in Nat /\ y \in Nat
    BY <1>4, <1>5, <1>14
  <2>2. g <= e
    <3>1. g = h * (2 * t)
      BY <1>4, <1>5
    <3>2. h * (2 * t) <= h * s
      BY <1>4, <1>5, <1>10, <1>14, TimesMore
    <3> QED BY <3>1, <3>2
  <2>3. x * d <= a * d
    BY <1>4, <1>7, <2>1, TimesMore
  <2>4. b * c < y * c
    BY <1>4, <1>7, <2>1, TimesLess
  <2> HIDE DEF e, g
  <2>5. y * c = g * (c * d) /\ x * d = e * (c * d)
    BY <1>4, <2>1 DEF e, g
  <2>6. g * (c * d) <= e * (c * d)
    BY <1>4, <2>1, <2>2, TimesMore, TimesNat
  <2>7. a * d \in Nat /\ b * c \in Nat /\ x * d \in Nat /\ y * c \in Nat
    BY <1>4, <2>1, TimesNat
  <2> HIDE DEF x, y
  <2> QED BY <1>8, <2>3, <2>4, <2>5, <2>6, <2>7
<1> QED BY <1>11, <1>12, <1>13, <1>14 DEF F, G

LEMMA FloatNat == ASSUME NEW n, NEW d, Posed(n, d) PROVE ToFloat(n, d) \in Nat
<1>1. HasForm(n, d)
  BY FloatForm
<1>2. PICK k \in Nat : FloatAt(n, d, k)
  BY ONLY <1>1 DEF HasForm
<1> QED BY <1>2, FloatBounds

(* The float of a ratio of a full mantissa is off by one part in Mantissas.*)
LEMMA FloatNear ==
  ASSUME NEW n, NEW d, Posed(n, d), NEW k \in Nat, FloatAt(n, d, k), k # 0
  PROVE  LET a == n * Unit
             x == d * ToFloat(n, d)
         IN  Mantissas * x <= Mantissas * a + a /\ Mantissas * a <= Mantissas * x + a
<1> DEFINE a == n * Unit
           s == Two[k]
           u == Mantissas
           h == HalfMantissas
           D == d * s
           r == RoundToEven(a, D)
           F == ToFloat(n, d)
<1>1. n \in Nat /\ d \in Nat \ {0} /\ u \in Nat /\ h \in Nat /\ a \in Nat /\ u = 2 * h
  BY GovNumbers, TimesNat DEF Posed
<1>2. s \in Nat \ {0}
  BY TwoNat
<1>3. (h * s) * d <= a /\ F = r * s
  BY DEF FloatAt
<1> HIDE DEF a, s, u, h, r, F
<1>4. D \in Nat \ {0} /\ (h * s) * d = h * D
  BY <1>1, <1>2
<1> HIDE DEF D
<1>5. r \in Nat /\ 2 * (D * r) <= 2 * a + D /\ 2 * a <= 2 * (D * r) + D
  BY <1>1, <1>4, RoundNear DEF r
<1> DEFINE x == d * F
           y == D * r
<1>6. x = y /\ x \in Nat
  BY <1>1, <1>2, <1>3, <1>5 DEF D
<1>7. u * D <= 2 * a /\ u * D \in Nat
  <2>1. u * D = 2 * (h * D) /\ h * D \in Nat
    BY <1>1, <1>4
  <2> QED BY <1>1, <1>3, <1>4, <2>1
<1>8. 2 * x <= 2 * a + D /\ 2 * a <= 2 * x + D
  BY <1>5, <1>6
<1> HIDE DEF x, y
<1>9. u * (2 * x) <= u * (2 * a + D) /\ u * (2 * a) <= u * (2 * x + D)
  BY <1>1, <1>4, <1>6, <1>8, TimesMore
<1>10. /\ u * (2 * x) = 2 * (u * x) /\ u * (2 * a + D) = 2 * (u * a) + u * D
       /\ u * (2 * a) = 2 * (u * a) /\ u * (2 * x + D) = 2 * (u * x) + u * D
       /\ u * x \in Nat /\ u * a \in Nat
  BY <1>1, <1>4, <1>6
<1> DEFINE p == u * x
           q == u * a
           e == u * D
<1>11. p \in Nat /\ q \in Nat /\ e \in Nat /\ e <= 2 * a /\ 2 * p <= 2 * q + e /\ 2 * q <= 2 * p + e
  BY <1>7, <1>9, <1>10
<1> HIDE DEF p, q, e
<1>12. p <= q + a /\ q <= p + a
  BY <1>1, <1>11
<1> QED BY <1>12 DEF p, q, x, a, u, F
-----------------------------------------------------------------------------
(* The floats of stakes and of their ratios                                *)
LEMMA UnitBounds ==
  /\ Unit >= 16 /\ GovModulus <= Unit /\ Mantissas >= 4
  /\ Unit * (Unit * Unit) \in Nat /\ Unit <= Unit * (Unit * Unit)
  /\ 4 * (Unit * (Unit * Unit)) <= Widest /\ Widest \in Nat
<1> DEFINE U == Unit
           h == HalfMantissas
           G == GovModulus
           Q == U * (U * U)
<1>1. U \in Nat /\ U >= 1 /\ h \in Nat /\ h >= 2 /\ G \in Nat /\ G >= 8 /\ h * G <= U /\ Mantissas = 2 * h
  BY GovNumbers
<1> HIDE DEF U, h, G
<1>2. 2 * G <= h * G /\ 2 * G <= U
  <2>1. 2 * G <= h * G
    BY <1>1, TimesMore
  <2>2. h * G \in Nat
    BY <1>1, TimesNat
  <2> QED BY <1>1, <2>1, <2>2
<1>3. Q \in Nat /\ U <= Q
  <2>1. U * U \in Nat /\ U * U >= 1
    BY <1>1, TimesPositive
  <2>2. U * 1 <= U * (U * U)
    BY <1>1, <2>1, TimesMore
  <2>3. U * 1 = U /\ Q \in Nat
    BY <1>1, <2>1, TimesNat
  <2> QED BY <2>2, <2>3
<1>4. Widest = Mantissas * Q /\ Widest \in Nat
  BY WidestIs DEF U
<1> HIDE DEF Q
<1>5. 4 * Q <= Mantissas * Q
  BY <1>1, <1>3, TimesMore
<1> QED BY <1>1, <1>2, <1>3, <1>4, <1>5 DEF U, G, Q

LEMMA LiteralsPosed == Posed(1, 2) /\ Posed(2, 5)
<1> DEFINE U == Unit
           Q == U * (U * U)
           W == Widest
<1>1. U \in Nat /\ Q \in Nat /\ W \in Nat /\ U >= 16 /\ U <= Q /\ 4 * Q <= W
  BY UnitBounds, GovNumbers
<1> HIDE DEF U, Q, W
<1>2. 1 * U < W * 2 /\ 2 * U < W * 5
  BY <1>1
<1> QED BY <1>2 DEF Posed, U, W

LEMMA StakePosed == ASSUME NEW n \in Nat, n < GovModulus PROVE Posed(n, 1) /\ n * Unit <= Unit * Unit
<1> DEFINE U == Unit
           W == Widest
           Q == U * (U * U)
<1>1. U \in Nat /\ Q \in Nat /\ W \in Nat /\ U >= 16 /\ 4 * Q <= W /\ n < U
  BY UnitBounds, GovNumbers
<1> HIDE DEF U, W
<1>2. n * U <= U * U /\ n * U \in Nat /\ U * U \in Nat
  BY <1>1, TimesMore, TimesNat
<1>3. 1 * (U * U) <= U * (U * U)
  BY <1>1, <1>2, TimesMore
<1>4. Q >= 1
  BY <1>1, TimesPositive
<1> DEFINE A == n * U
           B == U * U
<1>5. A <= B /\ B <= Q /\ A \in Nat /\ B \in Nat
  BY <1>2, <1>3
<1> HIDE DEF A, B, Q
<1>6. A < W * 1
  BY <1>1, <1>4, <1>5
<1> QED BY <1>2, <1>6 DEF Posed, A, U, W

(* The float of a stake is off by one part in Mantissas.                   *)
LEMMA StakeNear ==
  ASSUME NEW n \in Nat, n < GovModulus
  PROVE  LET a == n * Unit
             x == ToFloat(n, 1)
         IN  /\ x \in Nat /\ a \in Nat
             /\ Mantissas * x <= Mantissas * a + a /\ Mantissas * a <= Mantissas * x + a
<1> DEFINE a == n * Unit
           x == ToFloat(n, 1)
           u == Mantissas
<1>0. Posed(n, 1)
  BY StakePosed
<1>1. HasForm(n, 1)
  BY <1>0, FloatForm
<1>2. PICK k \in Nat : FloatAt(n, 1, k)
  BY ONLY <1>1 DEF HasForm
<1>3. x \in Nat /\ a \in Nat /\ u \in Nat
  BY <1>0, FloatNat, GovNumbers, TimesNat
<1>4. CASE k = 0
  <2>1. x = RoundToEven(a, 1 * Two[0]) * Two[0]
    BY <1>2, <1>4 DEF FloatAt
  <2>2. Two[0] = 1
    BY TwoSteps
  <2> HIDE DEF a, x, u
  <2>3. RoundToEven(a * 1, 1) = a /\ a * 1 = a
    BY <1>3, RoundExact
  <2>4. x = a
    BY <1>3, <2>1, <2>2, <2>3
  <2>5. u * x <= u * a + a /\ u * a <= u * x + a
    BY <1>3, <2>4
  <2> QED BY <1>3, <2>5 DEF a, x, u
<1>5. CASE k # 0
  <2>1. 1 * x = x
    BY <1>3
  <2>2. u * (1 * x) <= u * a + a /\ u * a <= u * (1 * x) + a
    BY <1>0, <1>2, <1>5, FloatNear
  <2> QED BY <1>3, <2>1, <2>2
<1> QED BY <1>4, <1>5

LEMMA StakePositive ==
  ASSUME NEW n \in Nat, n < GovModulus, n >= 1
  PROVE  ToFloat(n, 1) >= 1
<1> DEFINE a == n * Unit
           x == ToFloat(n, 1)
           u == Mantissas
<1>1. x \in Nat /\ a \in Nat /\ u * a <= u * x + a
  BY StakeNear
<1>2. u \in Nat /\ u >= 4 /\ a >= 1
  BY UnitBounds, GovNumbers, TimesPositive
<1> HIDE DEF a, u
<1> SUFFICES ASSUME x = 0 PROVE FALSE
  BY <1>1
<1>3. u * x = 0
  BY <1>2
<1>4. 4 * a <= u * a
  BY <1>1, <1>2, TimesMore
<1> QED BY <1>1, <1>2, <1>3, <1>4

LEMMA RatioPosed ==
  ASSUME NEW n \in Nat, n < GovModulus, NEW y \in Nat, y >= 1
  PROVE  Posed(ToFloat(n, 1), y)
<1> DEFINE a == n * Unit
           x == ToFloat(n, 1)
           u == Mantissas
           U == Unit
           B == U * U
           Q == U * (U * U)
           W == Widest
<1>1. x \in Nat /\ a \in Nat /\ u * x <= u * a + a
  BY StakeNear
<1>2. /\ u \in Nat /\ u >= 4 /\ U \in Nat /\ U >= 16 /\ W \in Nat /\ Q \in Nat /\ 4 * Q <= W
  BY UnitBounds, GovNumbers
<1>3. a <= B
  BY StakePosed
<1> HIDE DEF a, x, u, U, W
<1>4. x <= 2 * a
  <2>1. 1 * a <= u * a /\ u * a \in Nat
    BY <1>1, <1>2, TimesMore, TimesNat
  <2>2. u * (2 * a) = u * a + u * a /\ x * u = u * x /\ (2 * a) * u = u * (2 * a)
    BY <1>1, <1>2
  <2>3. x * u \in Nat
    BY <1>1, <1>2, TimesNat
  <2>4. x * u <= (2 * a) * u
    BY <1>1, <2>1, <2>2, <2>3
  <2> QED BY <1>1, <1>2, <2>4, CancelMore
<1>5. B \in Nat /\ Q >= 1 /\ Q = U * B
  BY <1>2, TimesPositive
<1>6. x * U <= 2 * Q
  <2>1. x <= 2 * B
    BY <1>1, <1>3, <1>4, <1>5
  <2> HIDE DEF B
  <2>2. x * U <= (2 * B) * U
    BY <1>1, <1>2, <1>5, <2>1, TimesMore
  <2>3. (2 * B) * U = 2 * (U * B)
    BY <1>2, <1>5
  <2> QED BY <1>5, <2>2, <2>3
<1>7. W * 1 <= W * y /\ W * 1 = W
  BY <1>2, TimesMore
<1>8. x * U \in Nat /\ W * y \in Nat
  BY <1>1, <1>2, TimesNat
<1> DEFINE p == x * U
           q == W * y
<1>9. p \in Nat /\ q \in Nat /\ p <= 2 * Q /\ W <= q
  BY <1>6, <1>7, <1>8
<1> HIDE DEF p, q, Q
<1>10. p < q
  BY <1>2, <1>5, <1>9
<1> QED BY <1>1, <1>10 DEF Posed, p, q, x, U, W

(* Twice a stake has twice its float, or more.                             *)
LEMMA StakeDoubles ==
  ASSUME NEW n \in Nat, 2 * n < GovModulus
  PROVE  2 * ToFloat(n, 1) <= ToFloat(2 * n, 1)
<1> DEFINE a == n * Unit
           b == (2 * n) * Unit
           u == Mantissas
           h == HalfMantissas
           x == ToFloat(n, 1)
           y == ToFloat(2 * n, 1)
<1>0. n < GovModulus /\ 2 * n \in Nat
  BY GovNumbers
<1>1. Posed(n, 1) /\ Posed(2 * n, 1)
  BY <1>0, StakePosed
<1>2. HasForm(n, 1) /\ HasForm(2 * n, 1)
  BY <1>1, FloatForm
<1>3. PICK j \in Nat : FloatAt(n, 1, j)
  BY ONLY <1>2 DEF HasForm
<1>4. PICK k \in Nat : FloatAt(2 * n, 1, k)
  BY ONLY <1>2 DEF HasForm
<1> DEFINE s == Two[j]
           t == Two[k]
<1>5. a \in Nat /\ b = 2 * a /\ b \in Nat /\ u \in Nat /\ h \in Nat /\ u = 2 * h /\ h >= 1
  BY GovNumbers
<1>6. s \in Nat /\ s >= 1 /\ t \in Nat /\ t >= 1
  BY TwoNat
<1>7. /\ a < (u * s) * 1 /\ (j = 0 \/ (h * s) * 1 <= a) /\ x = RoundToEven(a, 1 * s) * s
      /\ b < (u * t) * 1 /\ (k = 0 \/ (h * t) * 1 <= b) /\ y = RoundToEven(b, 1 * t) * t
  BY <1>3, <1>4 DEF FloatAt
<1> HIDE DEF a, b, u, h, x, y
<1>8. CASE k = 0
  <2>1. t = 1
    BY <1>8, TwoSteps
  <2>2. b < u
    BY <1>5, <1>7, <2>1
  <2>3. j = 0
    <3> SUFFICES ASSUME 0 < j PROVE FALSE
      OBVIOUS
    <3>1. 2 * Two[0] <= Two[j] /\ Two[0] = 1
      BY TwoGrows, TwoSteps
    <3>2. 2 <= s
      BY <3>1
    <3> HIDE DEF s
    <3>3. h * 2 <= h * s
      BY <1>5, <1>6, <3>2, TimesMore
    <3>4. h * s <= a /\ h * s \in Nat
      BY <1>5, <1>6, <1>7
    <3> QED BY <1>5, <2>2, <3>3, <3>4
  <2>4. s = 1
    BY <2>3, TwoSteps
  <2>5. RoundToEven(a * 1, 1) = a /\ RoundToEven(b * 1, 1) = b /\ a * 1 = a /\ b * 1 = b
    BY <1>5, RoundExact
  <2>6. x = a /\ y = b
    BY <1>5, <1>7, <2>1, <2>4, <2>5
  <2>7. 2 * x <= y
    BY <1>5, <2>6
  <2> QED BY <2>7 DEF x, y
<1>9. CASE k # 0
  <2> DEFINE i == k - 1
             r == Two[i]
  <2>1. i \in Nat /\ k = i + 1
    BY <1>9
  <2> HIDE DEF i
  <2>2. t = 2 * r /\ r \in Nat /\ r >= 1
    BY <2>1, TwoSteps, TwoNat
  <2>3. j < i => 2 * s <= r
    BY <2>1, TwoGrows
  <2>4. i < j => 2 * r <= s
    BY <2>1, TwoGrows
  <2>5. i = j => r = s
    OBVIOUS
  <2> HIDE DEF r, s, t
  <2>6. h * r <= a /\ a < u * r
    <3>1. h * t = 2 * (h * r) /\ u * t = 2 * (u * r) /\ h * r \in Nat /\ u * r \in Nat
      BY <1>5, <2>2
    <3>2. h * t <= b /\ b < u * t
      BY <1>5, <1>6, <1>7, <1>9
    <3> QED BY <1>5, <3>1, <3>2
  <2>7. ~(j < i)
    <3> SUFFICES ASSUME j < i PROVE FALSE
      OBVIOUS
    <3>1. h * (2 * s) <= h * r
      BY <1>5, <1>6, <2>2, <2>3, TimesMore
    <3>2. h * (2 * s) = u * s /\ u * s \in Nat /\ h * r \in Nat
      BY <1>5, <1>6, <2>2
    <3>3. a < u * s
      BY <1>5, <1>6, <1>7
    <3> QED BY <1>5, <2>6, <3>1, <3>2, <3>3
  <2>8. ~(i < j)
    <3> SUFFICES ASSUME i < j PROVE FALSE
      OBVIOUS
    <3>1. h * (2 * r) <= h * s
      BY <1>5, <1>6, <2>2, <2>4, TimesMore
    <3>2. h * (2 * r) = u * r /\ u * r \in Nat /\ h * s \in Nat
      BY <1>5, <1>6, <2>2
    <3>3. h * s <= a
      BY <1>5, <1>6, <1>7, <2>1
    <3> QED BY <1>5, <2>6, <3>1, <3>2, <3>3
  <2>9. s = r
    BY <2>1, <2>5, <2>7, <2>8
  <2> DEFINE p == RoundToEven(a, s)
             q == RoundToEven(b, t)
  <2>10. p <= q
    <3>1. a * t <= b * s
      BY <1>5, <1>6, <2>2, <2>9
    <3>2. s \in Nat \ {0} /\ t \in Nat \ {0}
      BY <1>6
    <3> QED BY <1>5, <3>1, <3>2, RoundMonotone
  <2>11. p \in Nat /\ q \in Nat
    <3>1. s \in Nat \ {0} /\ t \in Nat \ {0}
      BY <1>6
    <3> QED BY <1>5, <3>1, RoundNear
  <2>12. x = p * s /\ y = q * t
    BY <1>6, <1>7
  <2> HIDE DEF p, q
  <2>13. p * t <= q * t
    BY <1>6, <2>10, <2>11, TimesMore
  <2>14. p * t = 2 * (p * s)
    BY <1>6, <2>2, <2>9, <2>11
  <2> QED BY <2>12, <2>13, <2>14 DEF x, y
<1> QED BY <1>8, <1>9

(* What the comparison of floats says of the stakes                        *)
LEMMA MajorityExact ==
  ASSUME NEW yes \in Nat, NEW all \in Nat, yes < GovModulus, all < GovModulus, all > 0,
         FloatQuotient(yes, all) > PassThreshold
  PROVE  2 * yes > all
<1> DEFINE x == ToFloat(yes, 1)
           y == ToFloat(all, 1)
           z == ToFloat(2 * yes, 1)
<1> SUFFICES ASSUME 2 * yes <= all PROVE FALSE
  OBVIOUS
<1>0. GovModulus \in Nat /\ 2 * yes \in Nat /\ 2 * yes < GovModulus
  BY GovNumbers
<1>1. Posed(yes, 1) /\ Posed(all, 1) /\ Posed(2 * yes, 1)
  BY <1>0, StakePosed
<1>2. x \in Nat /\ y \in Nat /\ z \in Nat
  BY <1>1, FloatNat
<1>3. y >= 1
  BY StakePositive
<1>4. z <= y
  <2>1. (2 * yes) * 1 <= all * 1
    OBVIOUS
  <2> QED BY <1>1, <2>1, FloatMonotone
<1>5. 2 * x <= z
  BY <1>0, StakeDoubles
<1>6. Posed(x, y) /\ Posed(1, 2)
  BY <1>2, <1>3, RatioPosed, LiteralsPosed
<1>7. x * 2 <= 1 * y
  <2> HIDE DEF x, y, z
  <2> QED BY <1>2, <1>4, <1>5
<1>8. ToFloat(x, y) <= ToFloat(1, 2)
  <2> HIDE DEF x, y
  <2> QED BY <1>6, <1>7, FloatMonotone
<1>9. ToFloat(x, y) \in Nat /\ ToFloat(1, 2) \in Nat
  BY <1>6, FloatNat
<1>10. ToFloat(x, y) > ToFloat(1, 2)
  BY DEF FloatQuotient, PassThreshold
<1> HIDE DEF x, y
<1> QED BY <1>8, <1>9, <1>10

LEMMA ParticipationNear ==
  ASSUME NEW votes \in Nat, NEW total \in Nat, votes < GovModulus, total < GovModulus, total > 0,
         ~(FloatQuotient(votes, total) < QuorumThreshold)
  PROVE  5 * votes * Mantissas >= 2 * total * (Mantissas - 3)
<1> DEFINE V == votes
           T == total
           x == ToFloat(V, 1)
           y == ToFloat(T, 1)
           z == ToFloat(x, y)
           t == QuorumThreshold
           u == Mantissas
           U == Unit
           A == V * U
           B == T * U
<1>1. x \in Nat /\ A \in Nat /\ u * x <= u * A + A
  BY StakeNear
<1>2. y \in Nat /\ B \in Nat /\ u * B <= u * y + B
  BY StakeNear
<1>3. y >= 1
  BY StakePositive
<1>4. Posed(x, y) /\ Posed(2, 5)
  BY <1>2, <1>3, RatioPosed, LiteralsPosed
<1>5. z \in Nat /\ t \in Nat
  BY <1>4, FloatNat DEF QuorumThreshold
<1>6. t <= z
  BY <1>5 DEF FloatQuotient
<1>7. /\ 5 * t >= 2 * U /\ U \in Nat /\ U >= 1 /\ u \in Nat /\ u >= 4
      /\ u * GovModulus <= 2 * U /\ GovModulus \in Nat /\ GovModulus >= 8
  <2> DEFINE h == HalfMantissas
             G == GovModulus
  <2>1. u = 2 * h /\ h \in Nat /\ G \in Nat /\ h * G <= U /\ U \in Nat /\ G >= 8 /\ U >= 1 /\ u >= 4
    BY GovNumbers, UnitBounds
  <2> HIDE DEF h, G, u, U
  <2>2. u * G = 2 * (h * G) /\ h * G \in Nat
    BY <2>1
  <2>3. u * G <= 2 * U
    BY <2>1, <2>2
  <2>4. 5 * t >= 2 * Unit
    BY GovernanceConstants
  <2> QED BY <2>1, <2>3, <2>4 DEF G, U
<1>8. HasForm(x, y)
  BY <1>4, FloatForm
<1>9. PICK k \in Nat : FloatAt(x, y, k)
  BY ONLY <1>8 DEF HasForm
<1>10. k # 0
  <2> SUFFICES ASSUME k = 0 PROVE FALSE
    OBVIOUS
  <2>1. z <= u * Two[0] /\ Two[0] = 1
    BY <1>4, <1>9, FloatBounds, TwoSteps
  <2>2. u * 8 <= u * GovModulus
    BY <1>7, TimesMore
  <2>3. u * GovModulus \in Nat
    BY <1>7, TimesNat
  <2> HIDE DEF u, U, z, t
  <2> QED BY <1>5, <1>6, <1>7, <2>1, <2>2, <2>3
<1> DEFINE C == x * U
<1>11. u * (y * z) <= u * C + C
  BY <1>4, <1>9, <1>10, FloatNear
<1> HIDE DEF x, y, z, t, u, U
<1>12. 2 * (u * y) <= 5 * (u * x + x)
  <2> DEFINE e == u * y
             f == u * x + x
  <2>1. e \in Nat /\ f \in Nat /\ C \in Nat
    BY <1>1, <1>2, <1>7
  <2>2. (2 * U) * e <= (5 * z) * e
    <3>1. 2 * U <= 5 * z
      BY <1>5, <1>6, <1>7
    <3>2. 2 * U \in Nat /\ 5 * z \in Nat
      BY <1>5, <1>7
    <3> HIDE DEF e
    <3> QED BY <2>1, <3>1, <3>2, TimesMore
  <2>3. (5 * z) * e = 5 * (u * (y * z)) /\ u * (y * z) \in Nat
    BY <1>2, <1>5, <1>7
  <2>4. u * C + C = f * U /\ f * U \in Nat
    BY <1>1, <1>7
  <2>5. (2 * U) * e = (2 * e) * U /\ 5 * (f * U) = (5 * f) * U
    BY <1>7, <2>1
  <2>6. (2 * e) * U <= (5 * f) * U
    <3> DEFINE g == u * (y * z)
               m == f * U
    <3>1. g \in Nat /\ m \in Nat /\ g <= m
      BY <1>11, <2>3, <2>4
    <3>2. (2 * e) * U <= 5 * g /\ 5 * m = (5 * f) * U
      BY <2>2, <2>3, <2>5
    <3> HIDE DEF g, m
    <3>3. 5 * g <= 5 * m
      BY <3>1
    <3>4. (2 * e) * U \in Nat
      BY <1>7, <2>1
    <3> HIDE DEF e, f
    <3> QED BY <3>1, <3>2, <3>3, <3>4
  <2> HIDE DEF e, f
  <2>7. 2 * e <= 5 * f
    BY <1>7, <2>1, <2>6, CancelMore
  <2> QED BY <2>7 DEF e, f
<1> DEFINE w == u * u
           P == w * T
           R == u * T
<1>13. 2 * (u * (u * B)) <= 2 * (u * B) + 5 * (u * (u * A) + 2 * (u * A) + A)
  <2> DEFINE p == u * x
             q == u * y
             b == u * B
             a == u * A
  <2>1. p \in Nat /\ q \in Nat /\ b \in Nat /\ a \in Nat
    BY <1>1, <1>2, <1>7, TimesNat
  <2>2. p <= a + A /\ b <= q + B /\ 2 * q <= 5 * (p + x)
    BY <1>1, <1>2, <1>12
  <2>3. u * p = u * p /\ u * x = p
    OBVIOUS
  <2> HIDE DEF p, q, b, a
  <2>4. 2 * b <= 5 * (p + x) + 2 * B
    BY <1>1, <1>2, <2>1, <2>2
  <2>5. u * (2 * b) <= u * (5 * (p + x) + 2 * B)
    BY <1>1, <1>2, <1>7, <2>1, <2>4, TimesMore
  <2>6. u * (2 * b) = 2 * (u * b) /\ u * (5 * (p + x) + 2 * B) = 5 * (u * p) + 5 * (u * x) + 2 * (u * B)
    BY <1>1, <1>2, <1>7, <2>1
  <2>7. u * p <= u * (a + A) /\ u * (a + A) = u * a + u * A
    BY <1>1, <1>7, <2>1, <2>2, TimesMore
  <2>8. u * b \in Nat /\ u * p \in Nat /\ u * a \in Nat
    BY <1>7, <2>1, TimesNat
  <2> DEFINE ub == u * b
             up == u * p
             ua == u * a
  <2>9. 2 * ub <= 5 * up + 5 * p + 2 * b
    BY <2>5, <2>6 DEF p, b
  <2>10. up <= ua + a
    BY <2>7 DEF a
  <2> HIDE DEF ub, up, ua
  <2>11. 2 * ub <= 5 * (ua + a) + 5 * (a + A) + 2 * b
    BY <1>1, <2>1, <2>2, <2>8, <2>9, <2>10 DEF ub, up, ua
  <2>12. 2 * ub <= 2 * b + 5 * (ua + 2 * a + A)
    BY <1>1, <2>1, <2>8, <2>11 DEF ub, ua
  <2> QED BY <2>12 DEF ub, ua, a, b
<1>14. 2 * P <= 2 * R + 5 * (w * V + 2 * (u * V) + V)
  <2>0. V \in Nat /\ T \in Nat /\ U \in Nat /\ u \in Nat
    BY <1>7
  <2> HIDE DEF V, T
  <2> DEFINE l == 2 * (w * T)
             r == 2 * (u * T) + 5 * (w * V + 2 * (u * V) + V)
  <2>1. l \in Nat /\ r \in Nat
    BY <2>0
  <2>2. l * U = 2 * (u * (u * B))
    BY <2>0
  <2>3. r * U = 2 * (u * B) + 5 * (u * (u * A) + 2 * (u * A) + A)
    BY <2>0
  <2> HIDE DEF l, r
  <2>4. l <= r
    BY <1>7, <1>13, <2>1, <2>2, <2>3, CancelMore
  <2> QED BY <2>4 DEF l, r
<1> SUFFICES ASSUME ~(5 * V * u >= 2 * T * (u - 3)) PROVE FALSE
  BY DEF u
<1>15. V \in Nat /\ T \in Nat /\ T >= 1 /\ w \in Nat /\ w >= 1 /\ P \in Nat /\ R \in Nat /\ R >= 1 /\ P >= 1
  BY <1>7
<1>16. 5 * (u * V) + 6 * T < 2 * R
  <2>1. 5 * V * u = 5 * (u * V) /\ 2 * T * (u - 3) = 2 * R - 6 * T /\ u * V \in Nat
    BY <1>7
  <2> QED BY <1>7, <1>15, <2>1
<1> HIDE DEF V, T
<1> DEFINE a == 5 * (u * V) + 6 * T + 1
           b == 2 * R
           c == w + 2 * u + 1
           S == w * (u * V)
           X == u * P
<1>17. a * c <= b * c
  <2>1. a \in Nat /\ b \in Nat /\ c \in Nat /\ a <= b
    BY <1>7, <1>15, <1>16
  <2> HIDE DEF a, b, c
  <2> QED BY <2>1, TimesMore
<1>18. /\ a * c = 5 * S + 10 * (w * V) + 5 * (u * V) + 6 * P + 12 * R + 6 * T + c
       /\ b * c = 2 * X + 4 * P + 2 * R
  BY <1>7, <1>15
<1>19. 2 * X <= 2 * P + 5 * S + 10 * (w * V) + 5 * (u * V)
  <2> DEFINE l == 2 * P
             r == 2 * R + 5 * (w * V + 2 * (u * V) + V)
  <2>1. l \in Nat /\ r \in Nat /\ l <= r
    BY <1>7, <1>14, <1>15
  <2>2. u * l = 2 * X /\ u * r = 2 * P + 5 * S + 10 * (w * V) + 5 * (u * V)
    BY <1>7, <1>15
  <2> HIDE DEF l, r
  <2>3. u * l <= u * r
    BY <1>7, <2>1, TimesMore
  <2> QED BY <2>2, <2>3
<1>20. S \in Nat /\ w * V \in Nat /\ u * V \in Nat /\ X \in Nat /\ c \in Nat
  BY <1>7, <1>15
<1> DEFINE f == w * V
           g == u * V
<1>21. 5 * S + 10 * f + 5 * g + 6 * P + 12 * R + 6 * T + c <= 2 * X + 4 * P + 2 * R
  BY <1>17, <1>18
<1>22. 2 * X <= 2 * P + 5 * S + 10 * f + 5 * g
  BY <1>19
<1>23. f \in Nat /\ g \in Nat
  BY <1>20
<1> HIDE DEF S, X, P, R, c, f, g
<1> QED BY <1>15, <1>20, <1>21, <1>22, <1>23

-----------------------------------------------------------------------------
(* What is known of a proposal and of the votes accepted for it            *)
Words == 0..(GovModulus - 1)

Statuses == {"ACTIVE", "PASSED", "EXECUTED", "REJECTED"}

ProposalRecords ==
  [type : {"PARAMETER_CHANGE", "TEXT_PROPOSAL"}, status : Statuses, end_block : Nat,
   yes : Words, no : Words, voters : SUBSET Voters, total : Words]

VoteRecords == [voter : Voters, stake : Words, yes : BOOLEAN]

Ballots(v, support) == {n \in DOMAIN v : v[n].yes = support}

StakesOf(v) == [n \in DOMAIN v |-> v[n].stake]

StakeFor(v, support) == SumFunctionOnSet(StakesOf(v), Ballots(v, support))

Counted(p, v) ==
  p.yes = StakeFor(v, TRUE) % GovModulus /\ p.no = StakeFor(v, FALSE) % GovModulus

OnceEach(p, v) ==
  /\ \A n \in DOMAIN v : v[n].voter \in p.voters
  /\ \A m, n \in DOMAIN v : v[m].voter = v[n].voter => m = n

Decided(p) == p.status \in {"PASSED", "EXECUTED"} => HasQuorum(p, p.total) /\ Carries(p)

SoundProposal(p, v) ==
  p \in ProposalRecords /\ v \in Seq(VoteRecords) /\ Counted(p, v) /\ OnceEach(p, v) /\ Decided(p)

LEMMA ModulusIs == GovModulus \in Nat \ {0} /\ 0 \in Words
BY GovNumbers DEF Words

LEMMA CounterOf == ASSUME NEW a \in Int PROVE a % GovModulus \in Words
BY ModulusIs, DivMod DEF Words

LEMMA StakeForNat ==
  ASSUME NEW v \in Seq(VoteRecords), NEW support
  PROVE  /\ IsFiniteSet(Ballots(v, support)) /\ Ballots(v, support) \subseteq 1..Len(v)
         /\ \A n \in 1..Len(v) : StakesOf(v)[n] = v[n].stake /\ StakesOf(v)[n] \in Nat
         /\ StakeFor(v, support) \in Nat
<1> DEFINE S == Ballots(v, support)
<1>1. Len(v) \in Nat /\ DOMAIN v = 1..Len(v)
  BY LenProperties
<1>2. S \subseteq 1..Len(v) /\ IsFiniteSet(1..Len(v))
  BY <1>1, FS_Interval DEF Ballots
<1>3. IsFiniteSet(S)
  BY <1>2, FS_Subset
<1>4. ASSUME NEW n \in 1..Len(v) PROVE StakesOf(v)[n] = v[n].stake /\ StakesOf(v)[n] \in Nat
  <2>1. v[n] \in VoteRecords
    BY <1>1, ElementOfSeq
  <2>2. v[n].stake \in Nat
    BY <2>1, GovNumbers DEF VoteRecords, Words
  <2> QED BY <1>1, <2>2 DEF StakesOf
<1>5. StakeFor(v, support) \in Nat
  <2>1. \A n \in S : StakesOf(v)[n] \in Nat
    BY <1>2, <1>4
  <2> HIDE DEF S
  <2>2. SumFunctionOnSet(StakesOf(v), S) \in Nat
    BY <1>3, <2>1, SumNat
  <2> QED BY <2>2 DEF StakeFor, S
<1> QED BY <1>2, <1>3, <1>4, <1>5

LEMMA StakeForAppend ==
  ASSUME NEW v \in Seq(VoteRecords), NEW e \in VoteRecords, NEW support \in BOOLEAN
  PROVE  StakeFor(Append(v, e), support)
           = IF e.yes = support THEN StakeFor(v, support) + e.stake ELSE StakeFor(v, support)
<1> DEFINE w == Append(v, e)
           m == Len(v) + 1
           f == StakesOf(v)
           g == StakesOf(w)
           S == Ballots(v, support)
           T == Ballots(w, support)
<1>1. w \in Seq(VoteRecords) /\ Len(v) \in Nat /\ Len(w) = m /\ DOMAIN v = 1..Len(v) /\ DOMAIN w = 1..m
  BY AppendProperties, LenProperties
<1>2. w[m] = e /\ \A n \in 1..Len(v) : w[n] = v[n]
  BY AppendProperties
<1>3. T = IF e.yes = support THEN S \cup {m} ELSE S
  <2> HIDE DEF w
  <2> QED BY <1>1, <1>2 DEF Ballots
<1>4. /\ IsFiniteSet(S) /\ S \subseteq 1..Len(v) /\ IsFiniteSet(T) /\ T \subseteq 1..m
      /\ \A n \in 1..Len(v) : f[n] = v[n].stake
      /\ \A n \in 1..m : g[n] = w[n].stake /\ g[n] \in Nat
  <2> HIDE DEF w
  <2> QED BY <1>1, StakeForNat
<1> HIDE DEF w, f, g, S, T
<1>5. SumFunctionOnSet(g, S) = SumFunctionOnSet(f, S)
  <2>1. \A n \in S : g[n] = f[n]
    BY <1>1, <1>2, <1>4
  <2> QED BY <1>4, <2>1, SumSame
<1>6. e.yes = support => SumFunctionOnSet(g, T) = e.stake + SumFunctionOnSet(g, S)
  <2> SUFFICES ASSUME e.yes = support PROVE SumFunctionOnSet(g, T) = e.stake + SumFunctionOnSet(g, S)
    OBVIOUS
  <2>1. T = S \cup {m} /\ m \notin S
    BY <1>1, <1>3, <1>4
  <2>2. m \in T /\ T \ {m} = S
    BY <2>1
  <2>3. \A n \in T : g[n] \in Int
    BY <1>4
  <2>4. SumFunctionOnSet(g, T) = g[m] + SumFunctionOnSet(g, T \ {m})
    <3>1. IsFiniteSet(T)
      BY <1>4
    <3> HIDE DEF m
    <3> QED BY ONLY <2>2, <2>3, <3>1, SumAnyOrder
  <2>5. g[m] = e.stake
    BY <1>1, <1>2, <1>4
  <2> QED BY <2>2, <2>4, <2>5
<1>7. StakeFor(w, support) = SumFunctionOnSet(g, T) /\ StakeFor(v, support) = SumFunctionOnSet(f, S)
  BY DEF StakeFor, f, g, S, T
<1>8. e.stake \in Nat /\ StakeFor(v, support) \in Nat
  <2>1. e.stake \in Nat
    BY GovNumbers DEF VoteRecords, Words
  <2> QED BY <2>1, StakeForNat
<1>9. CASE e.yes = support
  BY <1>5, <1>6, <1>7, <1>8, <1>9 DEF w
<1>10. CASE ~(e.yes = support)
  BY <1>3, <1>5, <1>7, <1>10 DEF w
<1> QED BY <1>9, <1>10

(* A vote is counted on its side, once.                                    *)
LEMMA VoteKeepsSound ==
  ASSUME NEW p, NEW v, SoundProposal(p, v), NEW voter \in Voters, NEW stake \in Words, NEW support \in BOOLEAN,
         p.status = "ACTIVE", voter \notin p.voters
  PROVE  SoundProposal([p EXCEPT !.voters = @ \cup {voter},
                         !.yes = IF support THEN (@ + stake) % GovModulus ELSE @,
                         !.no = IF support THEN @ ELSE (@ + stake) % GovModulus],
               Append(v, [voter |-> voter, stake |-> stake, yes |-> support]))
<1> DEFINE q == [p EXCEPT !.voters = @ \cup {voter},
                          !.yes = IF support THEN (@ + stake) % GovModulus ELSE @,
                          !.no = IF support THEN @ ELSE (@ + stake) % GovModulus]
           e == [voter |-> voter, stake |-> stake, yes |-> support]
           w == Append(v, e)
<1>1. p \in ProposalRecords /\ v \in Seq(VoteRecords) /\ Counted(p, v) /\ OnceEach(p, v)
  BY DEF SoundProposal
<1>2. p.yes \in Words /\ p.no \in Words /\ p.voters \in SUBSET Voters
  BY <1>1 DEF ProposalRecords
<1>3. \A a \in Words : (a + stake) % GovModulus \in Words
  <2>1. \A a \in Words : a + stake \in Int
    BY GovNumbers DEF Words
  <2> QED BY <2>1, CounterOf
<1> DEFINE y == IF support THEN (p.yes + stake) % GovModulus ELSE p.yes
           n == IF support THEN p.no ELSE (p.no + stake) % GovModulus
<1>4. y \in Words /\ n \in Words
  BY <1>2, <1>3
<1>5. q.voters = p.voters \cup {voter} /\ q.yes = y /\ q.no = n /\ q.status = "ACTIVE"
  BY <1>1 DEF ProposalRecords
<1>6. q \in ProposalRecords
  <2> HIDE DEF y, n
  <2>1. q = [p EXCEPT !.voters = p.voters \cup {voter}, !.yes = y, !.no = n]
    BY DEF y, n
  <2> HIDE DEF q
  <2> QED BY <1>1, <1>2, <1>4, <2>1 DEF ProposalRecords
<1>7. e \in VoteRecords /\ e.voter = voter /\ e.stake = stake /\ e.yes = support
  BY DEF VoteRecords
<1>8. w \in Seq(VoteRecords)
  BY <1>1, <1>7, AppendProperties
<1> HIDE DEF q, e
<1>9. Counted(q, w)
  <2>1. p.yes = StakeFor(v, TRUE) % GovModulus /\ p.no = StakeFor(v, FALSE) % GovModulus
    BY <1>1 DEF Counted
  <2>2. StakeFor(v, TRUE) \in Nat /\ StakeFor(v, FALSE) \in Nat /\ stake \in Nat
    <3>1. stake \in Nat
      BY GovNumbers DEF Words
    <3> QED BY <1>1, <3>1, StakeForNat
  <2>3. /\ StakeFor(w, TRUE) = IF support = TRUE THEN StakeFor(v, TRUE) + stake ELSE StakeFor(v, TRUE)
        /\ StakeFor(w, FALSE) = IF support = FALSE THEN StakeFor(v, FALSE) + stake ELSE StakeFor(v, FALSE)
    BY <1>1, <1>7, StakeForAppend
  <2>4. ((StakeFor(v, TRUE) % GovModulus) + stake) % GovModulus = (StakeFor(v, TRUE) + stake) % GovModulus
    <3> DEFINE a == StakeFor(v, TRUE)
    <3>0. a \in Nat /\ stake \in Nat
      BY <2>2
    <3> HIDE DEF a
    <3>1. a \in Int /\ stake \in Int /\ GovModulus \in Nat \ {0}
      BY <3>0, ModulusIs
    <3>2. ((a % GovModulus) + stake) % GovModulus = (a + stake) % GovModulus
      BY ONLY <3>1, ModAdd
    <3> QED BY <3>2 DEF a
  <2>5. ((StakeFor(v, FALSE) % GovModulus) + stake) % GovModulus = (StakeFor(v, FALSE) + stake) % GovModulus
    <3> DEFINE a == StakeFor(v, FALSE)
    <3>0. a \in Nat /\ stake \in Nat
      BY <2>2
    <3> HIDE DEF a
    <3>1. a \in Int /\ stake \in Int /\ GovModulus \in Nat \ {0}
      BY <3>0, ModulusIs
    <3>2. ((a % GovModulus) + stake) % GovModulus = (a + stake) % GovModulus
      BY ONLY <3>1, ModAdd
    <3> QED BY <3>2 DEF a
  <2> DEFINE a == StakeFor(v, TRUE)
             b == StakeFor(v, FALSE)
             c == StakeFor(w, TRUE)
             d == StakeFor(w, FALSE)
  <2> HIDE DEF a, b, c, d, w
  <2>6. CASE support = TRUE
    <3>1. c = a + stake /\ d = b /\ y = (p.yes + stake) % GovModulus /\ n = p.no
      BY <2>3, <2>6 DEF a, b, c, d
    <3>2. q.yes = c % GovModulus /\ q.no = d % GovModulus
      BY <1>5, <2>1, <2>4, <3>1 DEF a, b
    <3> QED BY <3>2 DEF Counted, c, d
  <2>7. CASE support = FALSE
    <3>1. c = a /\ d = b + stake /\ y = p.yes /\ n = (p.no + stake) % GovModulus
      BY <2>3, <2>7 DEF a, b, c, d
    <3>2. q.yes = c % GovModulus /\ q.no = d % GovModulus
      BY <1>5, <2>1, <2>5, <3>1 DEF a, b
    <3> QED BY <3>2 DEF Counted, c, d
  <2> QED BY <2>6, <2>7
<1>10. OnceEach(q, w)
  <2> DEFINE m == Len(v) + 1
  <2>1. Len(v) \in Nat /\ DOMAIN v = 1..Len(v) /\ DOMAIN w = 1..m
    BY <1>1, <1>7, AppendProperties, LenProperties
  <2>2. w[m] = e /\ \A i \in 1..Len(v) : w[i] = v[i]
    BY <1>1, <1>7, AppendProperties
  <2>3. /\ \A i \in 1..Len(v) : v[i].voter \in p.voters
        /\ \A i, j \in 1..Len(v) : v[i].voter = v[j].voter => i = j
    BY <1>1, <2>1 DEF OnceEach
  <2> HIDE DEF w
  <2>4. ASSUME NEW i \in 1..m PROVE w[i].voter \in q.voters
    BY <1>5, <1>7, <2>1, <2>2, <2>3
  <2>5. ASSUME NEW i \in 1..m, NEW j \in 1..m, w[i].voter = w[j].voter PROVE i = j
    BY <1>7, <2>1, <2>2, <2>3, <2>5
  <2> QED BY <2>1, <2>4, <2>5 DEF OnceEach
<1>11. Decided(q)
  BY <1>5 DEF Decided
<1>12. SoundProposal(q, w)
  <2> HIDE DEF w
  <2> QED BY <1>6, <1>8, <1>9, <1>10, <1>11 DEF SoundProposal
<1> QED BY <1>12 DEF q, w, e

(* The verdict is taken on the counts, which the tally leaves alone.       *)
LEMMA TallyKeepsSound ==
  ASSUME NEW p, NEW v, SoundProposal(p, v), NEW total \in Words
  PROVE  SoundProposal([p EXCEPT !.status = Verdict(p, total), !.total = total], v)
<1> DEFINE s == Verdict(p, total)
           q == [p EXCEPT !.status = s, !.total = total]
<1>1. p \in ProposalRecords /\ v \in Seq(VoteRecords) /\ Counted(p, v) /\ OnceEach(p, v)
  BY DEF SoundProposal
<1>2. s \in Statuses /\ (s \in {"PASSED", "EXECUTED"} => HasQuorum(p, total) /\ Carries(p))
  BY DEF Verdict, Statuses
<1> HIDE DEF s
<1>3. /\ q \in ProposalRecords /\ q.status = s /\ q.total = total
      /\ q.yes = p.yes /\ q.no = p.no /\ q.voters = p.voters
  BY <1>1, <1>2 DEF ProposalRecords
<1> HIDE DEF q
<1>4. Counted(q, v) /\ OnceEach(q, v)
  BY <1>1, <1>3 DEF Counted, OnceEach
<1>5. Voted(q) = Voted(p)
  BY <1>3 DEF Voted
<1>6. Decided(q)
  BY <1>2, <1>3, <1>5 DEF Decided, HasQuorum, Carries
<1>7. SoundProposal(q, v)
  BY <1>1, <1>3, <1>4, <1>6 DEF SoundProposal
<1> QED BY <1>7 DEF q, s

LEMMA NewIsSound ==
  ASSUME NEW type \in {"PARAMETER_CHANGE", "TEXT_PROPOSAL"}, NEW end \in Nat
  PROVE  SoundProposal([type |-> type, status |-> "ACTIVE", end_block |-> end,
                yes |-> 0, no |-> 0, voters |-> {}, total |-> 0], <<>>)
<1> DEFINE p == [type |-> type, status |-> "ACTIVE", end_block |-> end,
                 yes |-> 0, no |-> 0, voters |-> {}, total |-> 0]
           v == << >>
<1>1. v \in Seq(VoteRecords) /\ DOMAIN v = {}
  BY EmptySeq
<1>2. p \in ProposalRecords
  BY ModulusIs DEF ProposalRecords, Statuses
<1>3. p.yes = 0 /\ p.no = 0 /\ p.status = "ACTIVE"
  OBVIOUS
<1> HIDE DEF p, v
<1>4. \A b : StakeFor(v, b) = 0
  <2>1. \A b : Ballots(v, b) = {}
    BY <1>1 DEF Ballots
  <2> QED BY <2>1, SumEmpty DEF StakeFor
<1>5. 0 % GovModulus = 0
  BY ModulusIs, ModSmall, GovNumbers
<1>6. Counted(p, v)
  BY <1>3, <1>4, <1>5 DEF Counted
<1>7. OnceEach(p, v)
  BY <1>1 DEF OnceEach
<1>8. Decided(p)
  BY <1>3 DEF Decided
<1>9. SoundProposal(p, v)
  BY <1>1, <1>2, <1>6, <1>7, <1>8 DEF SoundProposal
<1> QED BY <1>9 DEF p, v

(* The inductive invariant: every proposal is sound with its own votes.    *)
GovInv ==
  /\ gov_block \in Nat /\ proposals \in Seq(ProposalRecords) /\ cast \in Seq(Seq(VoteRecords))
  /\ Len(cast) = Len(proposals)
  /\ \A id \in DOMAIN proposals : SoundProposal(proposals[id], cast[id])

(* In exact arithmetic, a decision has the stake it claims.                *)
LEMMA SoundMajority ==
  ASSUME NEW p, NEW v, SoundProposal(p, v), p.status \in {"PASSED", "EXECUTED"},
         StakeFor(v, TRUE) + StakeFor(v, FALSE) < GovModulus
  PROVE  2 * StakeFor(v, TRUE) > StakeFor(v, TRUE) + StakeFor(v, FALSE)
<1> DEFINE a == StakeFor(v, TRUE)
           b == StakeFor(v, FALSE)
<1>1. v \in Seq(VoteRecords) /\ Counted(p, v) /\ Carries(p)
  BY DEF SoundProposal, Decided
<1>2. a \in Nat /\ b \in Nat
  BY <1>1, StakeForNat
<1>3. p.yes = a % GovModulus /\ p.no = b % GovModulus
  BY <1>1 DEF Counted
<1>4. a + b < GovModulus
  OBVIOUS
<1> HIDE DEF a, b
<1>5. /\ GovModulus \in Nat \ {0} /\ a \in 0..(GovModulus - 1) /\ b \in 0..(GovModulus - 1)
      /\ a + b \in 0..(GovModulus - 1)
  BY <1>2, <1>4, ModulusIs
<1>6. p.yes = a /\ p.no = b /\ (a + b) % GovModulus = a + b
  BY <1>3, <1>5, ModSmall
<1>7. Voted(p) = a + b
  BY <1>6 DEF Voted
<1>8. a + b > 0 /\ FloatQuotient(a, a + b) > PassThreshold
  BY <1>1, <1>6, <1>7 DEF Carries
<1> DEFINE c == a + b
<1>9. c \in Nat /\ c > 0 /\ c < GovModulus /\ a < GovModulus /\ FloatQuotient(a, c) > PassThreshold
  BY <1>2, <1>4, <1>5, <1>8
<1> HIDE DEF c
<1>10. 2 * a > c
  BY <1>2, <1>9, MajorityExact
<1> QED BY <1>10 DEF a, b, c

LEMMA SoundParticipation ==
  ASSUME NEW p, NEW v, SoundProposal(p, v), p.status \in {"PASSED", "EXECUTED"}
  PROVE  5 * Voted(p) * Two[GovMantissa] >= 2 * p.total * (Two[GovMantissa] - 3)
<1> DEFINE V == Voted(p)
           T == p.total
           u == Mantissas
<1>1. p \in ProposalRecords /\ HasQuorum(p, T)
  BY DEF SoundProposal, Decided
<1>2. p.yes \in Words /\ p.no \in Words /\ T \in Words
  BY <1>1 DEF ProposalRecords
<1>3. V \in Words
  <2>1. p.yes + p.no \in Int
    BY <1>2 DEF Words
  <2> QED BY <2>1, CounterOf DEF Voted
<1>4. V \in Nat /\ V < GovModulus /\ T \in Nat /\ T < GovModulus /\ u \in Nat
  BY <1>2, <1>3, GovNumbers DEF Words
<1>5. T > 0 => ~(FloatQuotient(V, T) < QuorumThreshold)
  BY <1>1 DEF HasQuorum
<1> HIDE DEF V, T, u
<1>6. CASE T > 0
  <2>1. 5 * V * Mantissas >= 2 * T * (Mantissas - 3)
    BY <1>4, <1>5, <1>6, ParticipationNear
  <2> QED BY <2>1 DEF V, T, Mantissas
<1>7. CASE T = 0
  <2>1. 2 * T * (u - 3) = 0 /\ 5 * V * u \in Nat
    BY <1>4, <1>7
  <2>2. 5 * V * u >= 2 * T * (u - 3)
    BY <2>1
  <2> QED BY <2>2 DEF V, T, u, Mantissas
<1> QED BY <1>4, <1>6, <1>7

LEMMA GovInvJustifies == GovInv => DecisionJustified
<1> SUFFICES ASSUME GovInv, NEW id \in DOMAIN proposals
             PROVE  LET p == proposals[id]
                        u == Two[GovMantissa]
                        all == StakeOn(id, TRUE) + StakeOn(id, FALSE)
                    IN  /\ p.yes = StakeOn(id, TRUE) % GovModulus /\ p.no = StakeOn(id, FALSE) % GovModulus
                        /\ \A m, n \in DOMAIN cast[id] : cast[id][m].voter = cast[id][n].voter => m = n
                        /\ p.status \in {"PASSED", "EXECUTED"} =>
                              /\ all < GovModulus => 2 * StakeOn(id, TRUE) > all
                              /\ 5 * Voted(p) * u >= 2 * p.total * (u - 3)
  BY DEF DecisionJustified
<1> DEFINE p == proposals[id]
           v == cast[id]
<1>1. SoundProposal(p, v)
  BY DEF GovInv
<1>2. StakeOn(id, TRUE) = StakeFor(v, TRUE) /\ StakeOn(id, FALSE) = StakeFor(v, FALSE)
  BY DEF StakeOn, Side, StakeFor, StakesOf, Ballots
<1>3. p.yes = StakeFor(v, TRUE) % GovModulus /\ p.no = StakeFor(v, FALSE) % GovModulus
  BY <1>1 DEF SoundProposal, Counted
<1>4. \A m, n \in DOMAIN v : v[m].voter = v[n].voter => m = n
  BY <1>1 DEF SoundProposal, OnceEach
<1> DEFINE a == StakeFor(v, TRUE)
           b == StakeFor(v, FALSE)
           u == Two[GovMantissa]
<1>5. p.status \in {"PASSED", "EXECUTED"} => (a + b < GovModulus => 2 * a > a + b)
  <2> HIDE DEF p, v
  <2> QED BY <1>1, SoundMajority
<1>6. p.status \in {"PASSED", "EXECUTED"} => 5 * Voted(p) * u >= 2 * p.total * (u - 3)
  <2> HIDE DEF p, v
  <2> QED BY <1>1, SoundParticipation
<1> HIDE DEF u
<1> QED BY <1>2, <1>3, <1>4, <1>5, <1>6 DEF u

LEMMA GovInvStep == GovInv /\ [GovNext]_govVars => GovInv'
<1> SUFFICES ASSUME GovInv, [GovNext]_govVars PROVE GovInv'
  OBVIOUS
<1>0. /\ gov_block \in Nat /\ proposals \in Seq(ProposalRecords) /\ cast \in Seq(Seq(VoteRecords))
      /\ Len(cast) = Len(proposals) /\ \A id \in DOMAIN proposals : SoundProposal(proposals[id], cast[id])
  BY DEF GovInv
<1>1. /\ Len(proposals) \in Nat
      /\ DOMAIN proposals = 1..Len(proposals) /\ DOMAIN cast = 1..Len(proposals)
  BY <1>0, LenProperties
<1>2. CASE UNCHANGED <<proposals, cast>> /\ gov_block' \in Nat
  BY <1>0, <1>2 DEF GovInv
<1>3. ASSUME NEW type \in {"PARAMETER_CHANGE", "TEXT_PROPOSAL"}, CreateProposal(type) PROVE GovInv'
  <2> DEFINE end == gov_block + VotingPeriod
             p == [type |-> type, status |-> "ACTIVE", end_block |-> end,
                   yes |-> 0, no |-> 0, voters |-> {}, total |-> 0]
             v == << >>
             m == Len(proposals) + 1
  <2>1. proposals' = Append(proposals, p) /\ cast' = Append(cast, v) /\ gov_block' = gov_block
    BY <1>3 DEF CreateProposal
  <2>2. end \in Nat
    BY <1>0, GovernanceConstants
  <2> HIDE DEF end
  <2>3. SoundProposal(p, v)
    BY <2>2, NewIsSound
  <2>4. p \in ProposalRecords /\ v \in Seq(VoteRecords)
    BY <2>3 DEF SoundProposal
  <2> HIDE DEF p, v
  <2>5. /\ proposals' \in Seq(ProposalRecords) /\ DOMAIN proposals' = 1..m /\ Len(proposals') = m
        /\ proposals'[m] = p /\ \A id \in 1..Len(proposals) : proposals'[id] = proposals[id]
    BY <1>0, <1>1, <2>1, <2>4, AppendProperties, LenProperties
  <2>6. /\ cast' \in Seq(Seq(VoteRecords)) /\ Len(cast') = m /\ cast'[m] = v
        /\ \A id \in 1..Len(proposals) : cast'[id] = cast[id]
    BY <1>0, <1>1, <2>1, <2>4, AppendProperties
  <2>7. ASSUME NEW id \in 1..m PROVE SoundProposal(proposals'[id], cast'[id])
    <3>1. CASE id = m
      BY <2>3, <2>5, <2>6, <3>1
    <3>2. CASE id \in 1..Len(proposals)
      <4>1. proposals'[id] = proposals[id] /\ cast'[id] = cast[id] /\ SoundProposal(proposals[id], cast[id])
        BY <1>0, <1>1, <2>5, <2>6, <3>2
      <4> QED BY <4>1
    <3> QED BY <1>1, <3>1, <3>2
  <2> QED BY <1>0, <2>1, <2>5, <2>6, <2>7 DEF GovInv
<1>4. ASSUME NEW id \in DOMAIN proposals, NEW q, NEW w, SoundProposal(q, w), gov_block' = gov_block,
             proposals' = [proposals EXCEPT ![id] = q], cast' = [cast EXCEPT ![id] = w]
      PROVE  GovInv'
  <2>1. q \in ProposalRecords /\ w \in Seq(VoteRecords)
    BY <1>4 DEF SoundProposal
  <2>2. /\ proposals' \in Seq(ProposalRecords) /\ Len(proposals') = Len(proposals)
        /\ DOMAIN proposals' = DOMAIN proposals
    BY <1>0, <1>1, <1>4, <2>1, ExceptSeq
  <2>3. cast' \in Seq(Seq(VoteRecords)) /\ Len(cast') = Len(cast)
    BY <1>0, <1>1, <1>4, <2>1, ExceptSeq
  <2>4. ASSUME NEW i \in DOMAIN proposals PROVE SoundProposal(proposals'[i], cast'[i])
    <3>1. CASE i = id
      <4>1. proposals'[i] = q /\ cast'[i] = w
        BY <1>1, <1>4, <3>1
      <4> QED BY <1>4, <4>1
    <3>2. CASE i # id
      <4>1. proposals'[i] = proposals[i] /\ cast'[i] = cast[i]
        BY <1>1, <1>4, <3>2
      <4> QED BY <1>0, <4>1
    <3> QED BY <3>1, <3>2
  <2> QED BY <1>0, <1>4, <2>2, <2>3, <2>4 DEF GovInv
<1>5. ASSUME NEW id \in DOMAIN proposals, NEW voter \in Voters, NEW stake \in GovStakes,
             NEW support \in BOOLEAN, CastVote(id, voter, stake, support)
      PROVE  GovInv'
  <2> DEFINE p == proposals[id]
             v == cast[id]
             q == [p EXCEPT !.voters = @ \cup {voter},
                            !.yes = IF support THEN (@ + stake) % GovModulus ELSE @,
                            !.no = IF support THEN @ ELSE (@ + stake) % GovModulus]
             w == Append(v, [voter |-> voter, stake |-> stake, yes |-> support])
  <2>1. SoundProposal(p, v) /\ p.status = "ACTIVE" /\ voter \notin p.voters
    BY <1>0, <1>5 DEF CastVote, MayVote
  <2>2. stake \in Words
    BY GovernanceConstants DEF Words
  <2>3. SoundProposal(q, w)
    <3> HIDE DEF p, v
    <3> QED BY <2>1, <2>2, VoteKeepsSound
  <2>4. cast' = [cast EXCEPT ![id] = w] /\ gov_block' = gov_block
    BY <1>5 DEF CastVote
  <2>5. proposals' = [proposals EXCEPT ![id] = q]
    BY <1>5 DEF CastVote
  <2> HIDE DEF q, w
  <2> QED BY <1>4, <2>3, <2>4, <2>5
<1>6. ASSUME NEW id \in DOMAIN proposals, NEW total \in GovTotals, Tally(id, total) PROVE GovInv'
  <2> DEFINE p == proposals[id]
             v == cast[id]
             q == [p EXCEPT !.status = Verdict(p, total), !.total = total]
  <2>1. SoundProposal(p, v) /\ total \in Words
    BY <1>0, GovernanceConstants DEF Words
  <2>2. SoundProposal(q, v)
    <3> HIDE DEF p, v
    <3> QED BY <2>1, TallyKeepsSound
  <2>3. cast' = [cast EXCEPT ![id] = v] /\ gov_block' = gov_block
    BY <1>0, <1>1, <1>6 DEF Tally
  <2>4. proposals' = [proposals EXCEPT ![id] = q]
    BY <1>6 DEF Tally
  <2> HIDE DEF q, v
  <2> QED BY <1>4, <2>2, <2>3, <2>4
<1>7. CASE NewBlock
  <2>1. gov_block' \in Nat /\ UNCHANGED <<proposals, cast>>
    BY <1>0, <1>7 DEF NewBlock
  <2> QED BY <1>2, <2>1
<1>8. CASE UNCHANGED govVars
  <2>1. gov_block' \in Nat /\ UNCHANGED <<proposals, cast>>
    BY <1>0, <1>8 DEF govVars
  <2> QED BY <1>2, <2>1
<1> QED BY <1>3, <1>5, <1>6, <1>7, <1>8 DEF GovNext

(* A decision of the governance engine (tally_and_execute, cast_vote)      *)
(* stands on the votes it was taken on, for any stakes and totals of the   *)
(* counters' width, any number of voters, votes and proposals, and any     *)
(* float that covers the ratios of those counters.                         *)
THEOREM GovernanceDecisionJustified == GovSpec => []DecisionJustified
<1>1. GovInit => GovInv
  <2> SUFFICES ASSUME GovInit PROVE GovInv
    OBVIOUS
  <2>1. proposals = <<>> /\ cast = <<>> /\ gov_block = 0
    BY DEF GovInit
  <2>2. DOMAIN proposals = {} /\ Len(proposals) = Len(cast)
    BY <2>1
  <2>3. proposals \in Seq(ProposalRecords) /\ cast \in Seq(Seq(VoteRecords))
    BY <2>1, EmptySeq
  <2> QED BY <2>1, <2>2, <2>3 DEF GovInv
<1>2. GovInv /\ [GovNext]_govVars => GovInv'
  BY GovInvStep
<1>3. GovInv => DecisionJustified
  BY GovInvJustifies
<1> QED BY <1>1, <1>2, <1>3, PTL DEF GovSpec
=============================================================================
