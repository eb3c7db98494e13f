---------------------------- MODULE MempoolProofs ---------------------------
(***************************************************************************)
(* Theorems about the transaction pool, for every set of transactions and  *)
(* every capacity.                                                         *)
(***************************************************************************)
EXTENDS MempoolQueries, SumTheorems, FiniteSetTheorems, TLAPS

(* The inductive invariant.  NoConflict alone is not inductive: dropping   *)
(* the inputs of an evicted transaction from pending_utxos is only right   *)
(* because no other pooled transaction spends them, and accepting a        *)
(* transaction is only right because pending_utxos misses none.            *)
IInv == TypeOK /\ PendingExact /\ NoConflict

LEMMA StoreMap ==
  ASSUME NEW m, NEW t
  PROVE  /\ DOMAIN Store(m, t) = DOMAIN m \cup {t.id}
         /\ Store(m, t)[t.id] = t
         /\ \A j \in DOMAIN m \ {t.id} : Store(m, t)[j] = m[j]
  BY DEF Store

LEMMA EraseMap ==
  ASSUME NEW m, NEW i
  PROVE  /\ DOMAIN Erase(m, i) = DOMAIN m \ {i}
         /\ \A j \in DOMAIN m \ {i} : Erase(m, i)[j] = m[j]
  BY DEF Erase

(* What an eviction does to the map.                                       *)
LEMMA EvictionEffect ==
  ASSUME NEW t \in Txs, AddByEviction(t)
  PROVE  \E low \in Pooled :
           /\ IsLowest(low)
           /\ transactions[low].fee < t.fee
           /\ t.id \notin Pooled
           /\ t.inputs \cap pending_utxos = {}
           /\ pending_utxos' = (pending_utxos \ transactions[low].inputs) \cup t.inputs
           /\ Pooled' = (Pooled \ {low}) \cup {t.id}
           /\ transactions'[t.id] = t
           /\ \A j \in Pooled \ {low} : transactions'[j] = transactions[j]
<1>1. PICK low \in Pooled :
        /\ IsLowest(low)
        /\ transactions[low].fee < t.fee
        /\ pending_utxos' = (pending_utxos \ transactions[low].inputs) \cup t.inputs
        /\ transactions' = Store(Erase(transactions, low), t)
  BY DEF AddByEviction
<1>2. t.id \notin Pooled /\ t.inputs \cap pending_utxos = {}
  BY DEF AddByEviction, Acceptable
<1> DEFINE rest == Erase(transactions, low)
<1>3. /\ DOMAIN rest = DOMAIN transactions \ {low}
      /\ \A j \in DOMAIN transactions \ {low} : rest[j] = transactions[j]
  BY EraseMap
<1>4. /\ DOMAIN Store(rest, t) = DOMAIN rest \cup {t.id}
      /\ Store(rest, t)[t.id] = t
      /\ \A j \in DOMAIN rest \ {t.id} : Store(rest, t)[j] = rest[j]
  BY StoreMap
<1> HIDE DEF rest
<1>5. /\ Pooled' = (Pooled \ {low}) \cup {t.id}
      /\ transactions'[t.id] = t
      /\ \A j \in Pooled \ {low} : transactions'[j] = transactions[j]
  BY <1>1, <1>2, <1>3, <1>4 DEF Pooled, rest
<1> QED BY <1>1, <1>2, <1>5

(* What the other two changes do to the map.                               *)
LEMMA AddEffect ==
  ASSUME NEW t \in Txs, AddWithRoom(t)
  PROVE  /\ t.id \notin Pooled
         /\ Pooled' = Pooled \cup {t.id}
         /\ transactions'[t.id] = t
         /\ \A j \in Pooled : transactions'[j] = transactions[j]
<1>1. t.id \notin Pooled /\ transactions' = Store(transactions, t)
  BY DEF AddWithRoom, Acceptable
<1>2. /\ DOMAIN Store(transactions, t) = DOMAIN transactions \cup {t.id}
      /\ Store(transactions, t)[t.id] = t
      /\ \A j \in DOMAIN transactions \ {t.id} : Store(transactions, t)[j] = transactions[j]
  BY StoreMap
<1> QED BY <1>1, <1>2 DEF Pooled

LEMMA RemoveEffect ==
  ASSUME NEW i, RemoveTransaction(i)
  PROVE  /\ i \in Pooled
         /\ Pooled' = Pooled \ {i}
         /\ \A j \in Pooled' : transactions'[j] = transactions[j]
<1>1. i \in Pooled /\ transactions' = Erase(transactions, i)
  BY DEF RemoveTransaction
<1>2. /\ DOMAIN Erase(transactions, i) = DOMAIN transactions \ {i}
      /\ \A j \in DOMAIN transactions \ {i} : Erase(transactions, i)[j] = transactions[j]
  BY EraseMap
<1> QED BY <1>1, <1>2 DEF Pooled

LEMMA InitIInv == Init => IInv
  BY DEF Init, IInv, TypeOK, PendingExact, NoConflict, Pooled

LEMMA AddWithRoomIInv ==
  ASSUME IInv, NEW t \in Txs, AddWithRoom(t)
  PROVE  IInv'
<1> USE TxsAssumption DEF IInv, AddWithRoom, Acceptable
<1>1. TypeOK'
  BY AddEffect DEF TypeOK, Ids
<1>2. PendingExact'
  BY AddEffect DEF PendingExact
<1>3. NoConflict'
  BY AddEffect DEF PendingExact, NoConflict
<1> QED BY <1>1, <1>2, <1>3

LEMMA AddByEvictionIInv ==
  ASSUME IInv, NEW t \in Txs, AddByEviction(t)
  PROVE  IInv'
<1> USE TxsAssumption DEF IInv
<1>1. PICK low \in Pooled :
        /\ t.id \notin Pooled
        /\ t.inputs \cap pending_utxos = {}
        /\ pending_utxos' = (pending_utxos \ transactions[low].inputs) \cup t.inputs
        /\ Pooled' = (Pooled \ {low}) \cup {t.id}
        /\ transactions'[t.id] = t
        /\ \A j \in Pooled \ {low} : transactions'[j] = transactions[j]
  BY EvictionEffect
<1>2. TypeOK'
  BY <1>1 DEF TypeOK, Ids
<1>3. PendingExact'
  BY <1>1 DEF PendingExact, NoConflict
<1>4. NoConflict'
  BY <1>1 DEF PendingExact, NoConflict
<1> QED BY <1>2, <1>3, <1>4

LEMMA RemoveIInv ==
  ASSUME IInv, NEW i \in Ids, RemoveTransaction(i)
  PROVE  IInv'
<1> USE DEF IInv, RemoveTransaction
<1>1. TypeOK'
  BY RemoveEffect DEF TypeOK
<1>2. PendingExact'
  BY RemoveEffect DEF PendingExact, NoConflict
<1>3. NoConflict'
  BY RemoveEffect DEF NoConflict
<1> QED BY <1>1, <1>2, <1>3

LEMMA NextIInv == IInv /\ [Next]_vars => IInv'
<1> SUFFICES ASSUME IInv, [Next]_vars PROVE IInv'
  OBVIOUS
<1>1. CASE \E t \in Txs : AddWithRoom(t)
  BY <1>1, AddWithRoomIInv
<1>2. CASE \E t \in Txs : AddByEviction(t)
  BY <1>2, AddByEvictionIInv
<1>3. CASE \E i \in Ids : RemoveTransaction(i)
  BY <1>3, RemoveIInv
<1>4. CASE Clear
  BY <1>4 DEF Clear, IInv, TypeOK, PendingExact, NoConflict, Pooled
<1>5. CASE UNCHANGED vars
  BY <1>5 DEF vars, IInv, TypeOK, PendingExact, NoConflict, Pooled
<1> QED BY <1>1, <1>2, <1>3, <1>4, <1>5 DEF Next

THEOREM PoolInvariant == Spec => []IInv
<1>1. Init => IInv
  BY InitIInv
<1>2. IInv /\ [Next]_vars => IInv'
  BY NextIInv
<1> QED BY <1>1, <1>2, PTL DEF Spec

(* The pool's variables keep their types: every pooled transaction is one  *)
(* that was submitted, stored under its own id.                            *)
THEOREM PoolTypeOK == Spec => []TypeOK
<1>1. IInv => TypeOK
  BY DEF IInv
<1> QED BY <1>1, PoolInvariant, PTL

(* is_utxo_spent is exact for every pool: see PendingExact.                *)
THEOREM PoolPendingExact == Spec => []PendingExact
<1>1. IInv => PendingExact
  BY DEF IInv
<1> QED BY <1>1, PoolInvariant, PTL

(* add_transaction never lets two pooled transactions spend one output.    *)
THEOREM PoolNoConflict == Spec => []NoConflict
<1>1. IInv => NoConflict
  BY DEF IInv
<1> QED BY <1>1, PoolInvariant, PTL

-----------------------------------------------------------------------------
(* The capacity needs the pool to be finite, which holds because it grows  *)
(* by one transaction at a time.                                           *)
CapInv == IsFiniteSet(Pooled) /\ WithinCapacity

LEMMA NextCapInv == CapInv /\ [Next]_vars => CapInv'
<1> SUFFICES ASSUME CapInv, [Next]_vars PROVE CapInv'
  OBVIOUS
<1> USE CapacityAssumption DEF CapInv, WithinCapacity
<1>0. Cardinality(Pooled) \in Nat
  BY FS_CardinalityType
<1>1. ASSUME NEW t \in Txs, AddWithRoom(t) PROVE CapInv'
  <2>1. t.id \notin Pooled /\ Pooled' = Pooled \cup {t.id}
    BY <1>1, AddEffect
  <2>2. Cardinality(Pooled) < max_capacity
    BY <1>0, <1>1 DEF AddWithRoom, Full
  <2>3. IsFiniteSet(Pooled \cup {t.id}) /\ Cardinality(Pooled \cup {t.id}) = Cardinality(Pooled) + 1
    BY <2>1, FS_AddElement
  <2> QED BY <1>0, <2>1, <2>2, <2>3
<1>2. ASSUME NEW t \in Txs, AddByEviction(t) PROVE CapInv'
  <2>1. PICK low \in Pooled : t.id \notin Pooled /\ Pooled' = (Pooled \ {low}) \cup {t.id}
    BY <1>2, EvictionEffect
  <2>2. IsFiniteSet(Pooled \ {low}) /\ Cardinality(Pooled \ {low}) = Cardinality(Pooled) - 1
    BY FS_RemoveElement
  <2>3. /\ IsFiniteSet((Pooled \ {low}) \cup {t.id})
        /\ Cardinality((Pooled \ {low}) \cup {t.id}) = Cardinality(Pooled \ {low}) + 1
    BY <2>1, <2>2, FS_AddElement
  <2> QED BY <1>0, <2>1, <2>2, <2>3
<1>3. ASSUME NEW i \in Ids, RemoveTransaction(i) PROVE CapInv'
  <2>1. i \in Pooled /\ Pooled' = Pooled \ {i}
    BY <1>3, RemoveEffect
  <2>2. IsFiniteSet(Pooled \ {i}) /\ Cardinality(Pooled \ {i}) = Cardinality(Pooled) - 1
    BY <2>1, FS_RemoveElement
  <2> QED BY <1>0, <2>1, <2>2
<1>4. CASE Clear
  <2>1. Pooled' = {}
    BY <1>4 DEF Clear, Pooled
  <2> QED BY <2>1, FS_EmptySet
<1>5. CASE UNCHANGED vars
  BY <1>5 DEF vars, Pooled
<1> QED BY <1>1, <1>2, <1>3, <1>4, <1>5 DEF Next

LEMMA PoolCapInv == Spec => []CapInv
<1>1. Init => CapInv
  <2>1. Init => Pooled = {}
    BY DEF Init, Pooled
  <2> QED BY <2>1, FS_EmptySet, CapacityAssumption DEF CapInv, WithinCapacity
<1>2. CapInv /\ [Next]_vars => CapInv'
  BY NextCapInv
<1> QED BY <1>1, <1>2, PTL DEF Spec

(* The pool never holds more than max_capacity transactions.               *)
THEOREM PoolWithinCapacity == Spec => []WithinCapacity
<1>1. CapInv => WithinCapacity
  BY DEF CapInv
<1> QED BY <1>1, PoolCapInv, PTL

-----------------------------------------------------------------------------
(* An eviction trades the cheapest pooled transaction for one that pays    *)
(* strictly more: no call lowers what the pool has to offer except an      *)
(* explicit removal.                                                       *)
THEOREM PoolEvictionPays == Spec => EvictionPays
<1> DEFINE Pays ==
      \A i \in Pooled \ Pooled', j \in Pooled' \ Pooled :
        /\ transactions[i].fee < transactions'[j].fee
        /\ \A k \in Pooled \cap Pooled' : transactions[i].fee <= transactions[k].fee
        /\ Pooled' = (Pooled \ {i}) \cup {j}
<1>1. TypeOK /\ [Next]_vars => [Pays]_vars
  <2> SUFFICES ASSUME TypeOK, Next PROVE Pays
    OBVIOUS
  <2>1. ASSUME NEW t \in Txs, AddWithRoom(t) PROVE Pays
    BY <2>1, AddEffect
  <2>2. ASSUME NEW t \in Txs, AddByEviction(t) PROVE Pays
    <3>1. PICK low \in Pooled :
            /\ IsLowest(low)
            /\ transactions[low].fee < t.fee
            /\ t.id \notin Pooled
            /\ Pooled' = (Pooled \ {low}) \cup {t.id}
            /\ transactions'[t.id] = t
      BY <2>2, EvictionEffect
    <3>2. \A k \in Pooled : transactions[low].fee <= transactions[k].fee
      BY <3>1, TxsAssumption DEF IsLowest, TypeOK
    <3> QED BY <3>1, <3>2
  <2>3. ASSUME NEW i \in Ids, RemoveTransaction(i) PROVE Pays
    BY <2>3, RemoveEffect
  <2>4. CASE Clear
    <3>1. Pooled' = {}
      BY <2>4 DEF Clear, Pooled
    <3> QED BY <3>1
  <2> QED BY <2>1, <2>2, <2>3, <2>4 DEF Next
<1> QED BY <1>1, PoolTypeOK, PTL DEF Spec, EvictionPays

-----------------------------------------------------------------------------
(* A claimed output is one that add_transaction refuses.                   *)
LEMMA ClaimedIsPending ==
  ASSUME PendingExact, NEW o, Claims!Claimed(o)
  PROVE  o \in pending_utxos
<1>1. PICK i \in Ids : <<o, i>> \in PoolClaims
  BY DEF Claims!Claimed
<1>2. i \in Pooled /\ o \in transactions[i].inputs
  BY <1>1 DEF PoolClaims
<1> QED BY <1>2 DEF PendingExact

(* The pool refines OutputClaims: an output is claimed only while it was   *)
(* free, even in the call that evicts another transaction.                 *)
THEOREM PoolImplementsClaims == Spec => ImplementsClaims
<1> USE DEF PoolClaims
<1>1. Init => Claims!AbsInit
  BY DEF Init, Claims!AbsInit, Pooled
<1>2. IInv /\ [Next]_vars => [Claims!AbsNext]_PoolClaims
  <2> SUFFICES ASSUME IInv, [Next]_vars
               PROVE  Claims!AbsNext \/ UNCHANGED PoolClaims
    OBVIOUS
  <2> USE TxsAssumption DEF IInv, TypeOK
  <2>1. ASSUME NEW t \in Txs, AddWithRoom(t) PROVE Claims!AbsNext
    <3>1. t.id \in Ids /\ t.inputs \in SUBSET Outputs
      BY DEF Ids
    <3>2. \A o \in t.inputs : ~Claims!Claimed(o)
      <4>1. t.inputs \cap pending_utxos = {}
        BY <2>1 DEF AddWithRoom, Acceptable
      <4> QED BY <4>1, ClaimedIsPending
    <3>3. Claims!ClaimsOf(t.id) = {}
      BY <2>1, AddEffect DEF Claims!ClaimsOf
    <3>4. PoolClaims' = {c \in PoolClaims : c[2] \notin {}} \cup {<<o, t.id>> : o \in t.inputs}
      BY <2>1, <3>1, AddEffect
    <3>5. Claims!Claim(t.id, t.inputs, {})
      BY <3>2, <3>3, <3>4 DEF Claims!Claim
    <3> QED BY <3>1, <3>5 DEF Claims!AbsNext
  <2>2. ASSUME NEW t \in Txs, AddByEviction(t) PROVE Claims!AbsNext
    <3>1. t.id \in Ids /\ t.inputs \in SUBSET Outputs
      BY DEF Ids
    <3>2. PICK low \in Pooled :
            /\ t.id \notin Pooled
            /\ t.inputs \cap pending_utxos = {}
            /\ Pooled' = (Pooled \ {low}) \cup {t.id}
            /\ transactions'[t.id] = t
            /\ \A j \in Pooled \ {low} : transactions'[j] = transactions[j]
      BY <2>2, EvictionEffect
    <3>3. \A o \in t.inputs : ~Claims!Claimed(o)
      BY <3>2, ClaimedIsPending
    <3>4. Claims!ClaimsOf(t.id) = {}
      BY <3>2 DEF Claims!ClaimsOf
    <3>5. PoolClaims' = {c \in PoolClaims : c[2] \notin {low}} \cup {<<o, t.id>> : o \in t.inputs}
      BY <3>1, <3>2
    <3>6. Claims!Claim(t.id, t.inputs, {low})
      BY <3>3, <3>4, <3>5 DEF Claims!Claim
    <3> QED BY <3>1, <3>6 DEF Claims!AbsNext
  <2>3. ASSUME NEW i \in Ids, RemoveTransaction(i) PROVE Claims!AbsNext
    <3>1. PoolClaims' = PoolClaims \ Claims!ClaimsOf(i)
      BY <2>3, RemoveEffect DEF Claims!ClaimsOf
    <3> QED BY <3>1 DEF Claims!AbsNext, Claims!Release
  <2>4. CASE Clear
    <3>1. PoolClaims' = {}
      BY <2>4 DEF Clear, Pooled
    <3> QED BY <3>1 DEF Claims!AbsNext, Claims!ReleaseAll
  <2>5. CASE UNCHANGED vars
    BY <2>5 DEF vars, Pooled
  <2> QED BY <2>1, <2>2, <2>3, <2>4, <2>5 DEF Next
<1> QED BY <1>1, <1>2, PoolInvariant, PTL DEF Spec, ImplementsClaims, Claims!AbsSpec

-----------------------------------------------------------------------------
(* The queries.  An arrangement of a finite set is a sequence that holds   *)
(* each of its elements exactly once.                                      *)
LEMMA Arrangement ==
  ASSUME NEW S, IsFiniteSet(S), NEW s \in SetToSeqs(S)
  PROVE  /\ Cardinality(S) \in Nat
         /\ s \in [1..Cardinality(S) -> S]
         /\ s \in Seq(S)
         /\ Len(s) = Cardinality(S)
         /\ \A a, b \in 1..Cardinality(S) : s[a] = s[b] => a = b
         /\ \A x \in S : \E a \in 1..Cardinality(S) : s[a] = x
<1> DEFINE n == Cardinality(S)
<1>1. n \in Nat
  BY FS_CardinalityType
<1>2. s \in [1..n -> S] /\ \A a, b \in 1..n : a # b => s[a] # s[b]
  BY DEF SetToSeqs
<1>3. IsFiniteSet(1..n) /\ Cardinality(1..n) = n
  BY <1>1, FS_Interval
<1>4. s \in Injection(1..n, S)
  BY <1>2 DEF Injection, IsInjective
<1>5. s \in Surjection(1..n, S)
  BY <1>3, <1>4, FS_Injection
<1>6. \A x \in S : \E a \in 1..n : s[a] = x
  BY <1>5 DEF Surjection
<1> HIDE DEF n
<1>7. s \in Seq(S) /\ Len(s) = n
  BY <1>1, <1>2
<1> QED BY <1>1, <1>2, <1>6, <1>7 DEF n

(* The pool holds as many transactions as ids.                             *)
LEMMA PooledTxsFinite ==
  ASSUME TypeOK, IsFiniteSet(Pooled)
  PROVE  IsFiniteSet(PooledTxs) /\ Cardinality(PooledTxs) = Cardinality(Pooled)
<1> DEFINE f == [i \in Pooled |-> transactions[i]]
<1>1. f \in Surjection(Pooled, PooledTxs)
  BY DEF Surjection, PooledTxs
<1>2. f \in Injection(Pooled, PooledTxs)
  BY DEF Injection, IsInjective, PooledTxs, TypeOK
<1> HIDE DEF f
<1>3. /\ IsFiniteSet(PooledTxs)
      /\ Cardinality(PooledTxs) = Cardinality(Pooled) <=> f \in Injection(Pooled, PooledTxs)
  BY <1>1, FS_Surjection
<1> QED BY <1>2, <1>3

(* What every pooled transaction pays is a natural number.                 *)
LEMMA PooledFees == ASSUME TypeOK PROVE \A t \in PooledTxs : t.fee \in Nat
  BY TxsAssumption DEF TypeOK, PooledTxs

LEMMA BestPaying ==
  ASSUME TypeOK, IsFiniteSet(Pooled)
  PROVE  BestPayingFirst
<1> SUFFICES ASSUME NEW limit \in Limits, NEW list \in GetTransactions(limit)
             PROVE  /\ Len(list) = IF limit < Cardinality(Pooled) THEN limit
                                   ELSE Cardinality(Pooled)
                    /\ IsInjective(list)
                    /\ \A i \in DOMAIN list, t \in PooledTxs \ ToSet(list) :
                         t.fee <= list[i].fee
  BY DEF BestPayingFirst
<1> DEFINE n == Cardinality(Pooled)
           k == IF n > limit THEN limit ELSE n
<1>1. IsFiniteSet(PooledTxs) /\ Cardinality(PooledTxs) = n
  BY PooledTxsFinite
<1>2. PICK s \in SetToSeqs(PooledTxs) :
        /\ \A a, b \in DOMAIN s : a < b => s[a].fee >= s[b].fee
        /\ list = SubSeq(s, 1, IF Len(s) > limit THEN limit ELSE Len(s))
  BY DEF GetTransactions
<1>3. /\ n \in Nat
      /\ s \in [1..n -> PooledTxs]
      /\ s \in Seq(PooledTxs)
      /\ Len(s) = n
      /\ \A a, b \in 1..n : s[a] = s[b] => a = b
      /\ \A x \in PooledTxs : \E a \in 1..n : s[a] = x
  <2> HIDE DEF n
  <2> QED BY <1>1, Arrangement
<1>4. limit \in Nat
  BY LimitsAssumption
<1> HIDE DEF n
<1>5. k \in 0..n
  BY <1>3, <1>4
<1>6. list = SubSeq(s, 1, k)
  BY <1>2, <1>3
<1> HIDE DEF k
<1>7. Len(list) = k /\ DOMAIN list = 1..k /\ \A a \in 1..k : list[a] = s[a]
  BY <1>3, <1>5, <1>6
<1>8. Len(list) = IF limit < n THEN limit ELSE n
  BY <1>3, <1>4, <1>7 DEF k
<1>9. IsInjective(list)
  BY <1>3, <1>5, <1>7 DEF IsInjective
<1>10. ASSUME NEW i \in DOMAIN list, NEW t \in PooledTxs \ ToSet(list)
       PROVE  t.fee <= list[i].fee
  <2>1. PICK a \in 1..n : s[a] = t
    BY <1>3
  <2>2. a \notin 1..k
    <3>1. SUFFICES ASSUME a \in 1..k PROVE FALSE
      OBVIOUS
    <3>2. list[a] = t /\ a \in DOMAIN list
      BY <1>7, <2>1, <3>1
    <3> QED BY <3>2 DEF ToSet
  <2>3. i \in 1..k /\ i \in 1..n /\ i < a
    BY <1>3, <1>5, <1>7, <2>2
  <2>4. s[i].fee >= s[a].fee
    BY <1>2, <1>3, <2>3
  <2>5. list[i] = s[i] /\ s[i] \in PooledTxs /\ t.fee \in Nat /\ s[i].fee \in Nat
    BY <1>3, <1>7, <2>3, PooledFees
  <2> QED BY <2>1, <2>4, <2>5
<1> QED BY <1>8, <1>9, <1>10 DEF n

(* get_transactions answers with the best-paying transactions, for every   *)
(* pool, every limit and every order in which the unstable sort leaves     *)
(* transactions of equal fee.                                              *)
THEOREM PoolBestPayingFirst == Spec => []BestPayingFirst
<1>1. TypeOK /\ CapInv => BestPayingFirst
  BY BestPaying DEF CapInv
<1> QED BY <1>1, PoolTypeOK, PoolCapInv, PTL

-----------------------------------------------------------------------------
(* A finite set with natural fees has an element of the highest fee.       *)
LEMMA HighestFee ==
  ASSUME NEW S, IsFiniteSet(S), S # {}, \A x \in S : x.fee \in Nat
  PROVE  \E x \in S : \A y \in S : y.fee <= x.fee
<1> DEFINE Top(V) == \E x \in V : \A y \in V : y.fee <= x.fee
           C == {V \in SUBSET S : V # {} /\ ~Top(V)}
<1>1. SUFFICES C = {}
  <2>1. S \in SUBSET S
    OBVIOUS
  <2> QED BY <1>1, <2>1
<1>2. SUFFICES ASSUME C # {} PROVE FALSE
  OBVIOUS
<1>3. C \in SUBSET (SUBSET S)
  OBVIOUS
<1> HIDE DEF C
<1>4. PICK V \in C : \A U \in C : U \subseteq V => U = V
  BY <1>2, <1>3, MinimalSubset
<1>5. V \in SUBSET S /\ V # {} /\ ~Top(V)
  BY <1>4 DEF C
<1>6. PICK v \in V : TRUE
  BY <1>5
<1>7. V \ {v} \notin C
  BY <1>4, <1>6
<1>8. V \ {v} = {} \/ Top(V \ {v})
  BY <1>5, <1>7 DEF C
<1>9. CASE V \ {v} = {}
  <2>1. v.fee <= v.fee
    BY <1>5, <1>6
  <2>2. \A y \in V : y = v
    BY <1>9
  <2> QED BY <1>5, <1>6, <2>1, <2>2
<1>10. CASE Top(V \ {v})
  <2>1. PICK w \in V \ {v} : \A y \in V \ {v} : y.fee <= w.fee
    BY <1>10
  <2>2. \A y \in V : y.fee \in Nat
    BY <1>5
  <2>3. CASE v.fee <= w.fee
    <3>1. \A y \in V : y.fee <= w.fee
      BY <2>1, <2>3
    <3> QED BY <1>5, <2>1, <3>1
  <2>4. CASE ~(v.fee <= w.fee)
    <3>1. \A y \in V : y.fee <= v.fee
      BY <1>6, <2>1, <2>2, <2>4
    <3> QED BY <1>5, <1>6, <3>1
  <2> QED BY <2>3, <2>4
<1> QED BY <1>8, <1>9, <1>10

(* A finite set can be arranged by ascending fee: what std::sort relies on *)
(* and what gives FeesSorted its meaning.                                  *)
LEMMA AscendingExists ==
  ASSUME NEW S, IsFiniteSet(S), \A x \in S : x.fee \in Nat
  PROVE  \E s \in SetToSeqs(S) : Ascending(s)
<1> DEFINE Sorted(V) == \E s \in SetToSeqs(V) : Ascending(s)
           C == {V \in SUBSET S : ~Sorted(V)}
<1>1. SUFFICES C = {}
  <2>1. S \in SUBSET S
    OBVIOUS
  <2> QED BY <1>1, <2>1
<1>2. SUFFICES ASSUME C # {} PROVE FALSE
  OBVIOUS
<1>3. C \in SUBSET (SUBSET S)
  OBVIOUS
<1> HIDE DEF C
<1>4. PICK V \in C : \A U \in C : U \subseteq V => U = V
  BY <1>2, <1>3, MinimalSubset
<1>5. V \in SUBSET S /\ ~Sorted(V)
  BY <1>4 DEF C
<1>6. IsFiniteSet(V)
  BY <1>5, FS_Subset
<1>7. V # {}
  <2>1. SUFFICES ASSUME V = {} PROVE FALSE
    OBVIOUS
  <2>2. Cardinality(V) = 0
    BY <2>1, FS_EmptySet
  <2> DEFINE s == [i \in 1..0 |-> 0]
  <2>3. 1..0 = {}
    OBVIOUS
  <2>4. s \in SetToSeqs(V) /\ Ascending(s)
    BY <2>2, <2>3 DEF SetToSeqs, Ascending
  <2> QED BY <1>5, <2>4
<1>8. PICK x \in V : \A y \in V : y.fee <= x.fee
  BY <1>5, <1>6, <1>7, HighestFee
<1> DEFINE U == V \ {x}
           n == Cardinality(U)
<1>9. U \notin C /\ U \in SUBSET S
  BY <1>4, <1>5, <1>8
<1>10. PICK s \in SetToSeqs(U) : Ascending(s)
  BY <1>9 DEF C
<1>11. IsFiniteSet(U) /\ n = Cardinality(V) - 1 /\ Cardinality(V) \in Nat
  BY <1>6, <1>8, FS_RemoveElement, FS_CardinalityType
<1>12. n \in Nat /\ Cardinality(V) = n + 1
  BY <1>11, FS_CardinalityType
<1>13. s \in [1..n -> U] /\ \A a, b \in 1..n : a # b => s[a] # s[b]
  BY <1>10 DEF SetToSeqs
<1>14. x \notin U /\ V = U \cup {x} /\ \A y \in U : y.fee <= x.fee /\ y.fee \in Nat
  BY <1>5, <1>8
<1> HIDE DEF n, U
<1> DEFINE r == [a \in 1..(n + 1) |-> IF a = n + 1 THEN x ELSE s[a]]
<1>15. \A a \in 1..(n + 1) : a = n + 1 \/ a \in 1..n
  BY <1>12
<1>16. \A a \in 1..n : a # n + 1 /\ a \in 1..(n + 1) /\ r[a] = s[a] /\ r[a] \in U
  BY <1>12, <1>13
<1>17. n + 1 \in 1..(n + 1) /\ r[n + 1] = x /\ DOMAIN r = 1..(n + 1)
  BY <1>12
<1>18. r \in [1..(n + 1) -> V]
  BY <1>14, <1>15, <1>16, <1>17
<1> HIDE DEF r
<1>19. \A a, b \in 1..(n + 1) : a # b => r[a] # r[b]
  BY <1>13, <1>14, <1>15, <1>16, <1>17
<1>20. r \in SetToSeqs(V)
  BY <1>12, <1>18, <1>19 DEF SetToSeqs
<1>21. ASSUME NEW a \in DOMAIN r, NEW b \in DOMAIN r, a < b PROVE r[a].fee <= r[b].fee
  <2>1. a \in 1..n
    BY <1>12, <1>17, <1>21
  <2>2. CASE b = n + 1
    BY <1>14, <1>16, <1>17, <2>1, <2>2
  <2>3. CASE b \in 1..n
    <3>1. s[a].fee <= s[b].fee
      BY <1>10, <1>13, <1>21, <2>1, <2>3 DEF Ascending
    <3> QED BY <1>16, <2>1, <2>3, <3>1
  <2> QED BY <1>15, <1>17, <2>2, <2>3
<1>22. Ascending(r)
  BY <1>21 DEF Ascending
<1> QED BY <1>5, <1>20, <1>22

(* A set covered by a stretch of a sequence is no larger than the stretch. *)
LEMMA Covered ==
  ASSUME NEW a \in Int, NEW b \in Int, NEW s, NEW T,
         \A x \in T : \E i \in a..b : s[i] = x
  PROVE  IsFiniteSet(T) /\ Cardinality(T) <= Cardinality(a..b)
<1> DEFINE I == {i \in a..b : s[i] \in T}
           f == [i \in I |-> s[i]]
<1>1. f \in Surjection(I, T)
  BY DEF Surjection
<1>2. IsFiniteSet(a..b) /\ I \in SUBSET (a..b)
  BY FS_Interval
<1> HIDE DEF I, f
<1>3. IsFiniteSet(I) /\ Cardinality(I) <= Cardinality(a..b)
  BY <1>2, FS_Subset
<1>4. IsFiniteSet(T) /\ Cardinality(T) <= Cardinality(I)
  BY <1>1, <1>3, FS_Surjection
<1>5. Cardinality(T) \in Nat /\ Cardinality(I) \in Nat /\ Cardinality(a..b) \in Nat
  BY <1>2, <1>3, <1>4, FS_CardinalityType
<1> QED BY <1>3, <1>4, <1>5

LEMMA Median ==
  ASSUME TypeOK, IsFiniteSet(Pooled)
  PROVE  MedianSplits
<1> DEFINE n == Cardinality(Pooled)
           m == GetMedianFee
           k == (n \div 2) + 1
           s == FeesSorted
<1>1. SUFFICES ASSUME n > 0
               PROVE  /\ 2 * Cardinality({t \in PooledTxs : t.fee < m}) <= n
                      /\ 2 * Cardinality({t \in PooledTxs : t.fee > m}) < n
  BY DEF MedianSplits
<1>2. IsFiniteSet(PooledTxs) /\ Cardinality(PooledTxs) = n
  BY PooledTxsFinite
<1>3. s \in SetToSeqs(PooledTxs) /\ Ascending(s)
  BY <1>2, PooledFees, AscendingExists DEF FeesSorted
<1>4. n \in Nat /\ Pooled # {}
  BY <1>1, FS_CardinalityType, FS_EmptySet
<1>5. m = s[(Len(s) \div 2) + 1].fee
  BY <1>4 DEF GetMedianFee
<1> HIDE DEF n, m, s
<1>6. /\ s \in [1..n -> PooledTxs]
      /\ Len(s) = n
      /\ \A x \in PooledTxs : \E a \in 1..n : s[a] = x
  BY <1>2, <1>3, Arrangement
<1>7. k \in 1..n /\ 2 * (k - 1) <= n /\ 2 * (n - k) < n
  BY <1>1, <1>4
<1>8. m = s[k].fee
  BY <1>5, <1>6
<1> HIDE DEF k
<1>9. \A a, b \in 1..n : a < b => s[a].fee <= s[b].fee
  BY <1>3, <1>6 DEF Ascending
<1>10. \A a \in 1..n : s[a].fee \in Nat
  BY <1>6, PooledFees
<1>11. 2 * Cardinality({t \in PooledTxs : t.fee < m}) <= n
  <2> DEFINE T == {t \in PooledTxs : t.fee < m}
  <2>1. ASSUME NEW x \in T PROVE \E i \in 1..(k - 1) : s[i] = x
    <3>1. PICK i \in 1..n : s[i] = x
      BY <1>6
    <3>2. s[i].fee < s[k].fee
      BY <1>8, <3>1
    <3>3. i < k
      BY <1>4, <1>7, <1>9, <1>10, <3>2
    <3> QED BY <1>4, <1>7, <3>1, <3>3
  <2> HIDE DEF T
  <2>2. k - 1 \in Nat /\ 1 \in Int /\ k - 1 \in Int
    BY <1>7
  <2>3. IsFiniteSet(T) /\ Cardinality(T) <= Cardinality(1..(k - 1))
    BY <2>1, <2>2, Covered
  <2>4. Cardinality(1..(k - 1)) = k - 1
    BY <2>2, FS_Interval
  <2>5. Cardinality(T) \in Nat
    BY <2>3, FS_CardinalityType
  <2>6. 2 * Cardinality(T) <= n
    BY <1>4, <1>7, <2>2, <2>3, <2>4, <2>5
  <2> QED BY <2>6 DEF T
<1>12. 2 * Cardinality({t \in PooledTxs : t.fee > m}) < n
  <2> DEFINE T == {t \in PooledTxs : t.fee > m}
  <2>1. ASSUME NEW x \in T PROVE \E i \in (k + 1)..n : s[i] = x
    <3>1. PICK i \in 1..n : s[i] = x
      BY <1>6
    <3>2. s[i].fee > s[k].fee
      BY <1>8, <3>1
    <3>3. i > k
      BY <1>4, <1>7, <1>9, <1>10, <3>2
    <3> QED BY <1>4, <1>7, <3>1, <3>3
  <2> HIDE DEF T
  <2>2. k + 1 \in Int /\ n \in Int /\ k \in Nat /\ k <= n
    BY <1>4, <1>7
  <2>3. IsFiniteSet(T) /\ Cardinality(T) <= Cardinality((k + 1)..n)
    BY <2>1, <2>2, Covered
  <2>4. Cardinality((k + 1)..n) = n - k
    <3>1. Cardinality((k + 1)..n) = IF k + 1 > n THEN 0 ELSE n - (k + 1) + 1
      BY <2>2, FS_Interval
    <3> QED BY <2>2, <3>1
  <2>5. Cardinality(T) \in Nat
    BY <2>3, FS_CardinalityType
  <2>6. 2 * Cardinality(T) < n
    BY <1>4, <1>7, <2>2, <2>3, <2>4, <2>5
  <2> QED BY <2>6 DEF T
<1> QED BY <1>11, <1>12

(* get_median_fee answers with an upper median of the pooled fees, for     *)
(* every pool that is not empty, of an odd or an even number of            *)
(* transactions, however many of them pay the same.                        *)
THEOREM PoolMedianSplits == Spec => []MedianSplits
<1>1. TypeOK /\ CapInv => MedianSplits
  BY Median DEF CapInv
<1> QED BY <1>1, PoolTypeOK, PoolCapInv, PTL
=============================================================================
