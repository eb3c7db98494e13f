------------------------------ MODULE Mempool -------------------------------
(***************************************************************************)
(* The in-memory transaction pool, class mermai_mempool                    *)
(* (src/core/mermai_mempool.cpp).  Every operation holds mempool_mutex     *)
(* from its first to its last statement, so each is one atomic action.     *)
(*                                                                         *)
(* A transaction is a record: its id (tx.id, or its hash when the field is *)
(* empty), the outputs it spends and its fee.  Two different transactions  *)
(* may carry the same id: the field is chosen by the sender.  Ids are      *)
(* natural numbers because std::map keeps them ordered and the order       *)
(* breaks ties between equal fees.  pending_nonces is never written by the *)
(* code, only cleared, and is left out.  A call that returns false changes *)
(* nothing and is a stuttering step.                                       *)
(***************************************************************************)
EXTENDS Naturals, FiniteSets

CONSTANTS Txs,          \* the transactions that clients may submit
          Outputs,      \* the transaction outputs they may spend
          max_capacity  \* constructor argument of the pool

ASSUME TxsAssumption ==
         \A t \in Txs : t.id \in Nat /\ t.fee \in Nat /\ t.inputs \subseteq Outputs
ASSUME CapacityAssumption == max_capacity \in Nat

VARIABLES transactions,   \* id -> transaction, the std::map of pooled transactions
          pending_utxos   \* outputs spent by some pooled transaction

vars == <<transactions, pending_utxos>>

Ids == {t.id : t \in Txs}
Pooled == DOMAIN transactions

TypeOK ==
  /\ Pooled \subseteq Ids
  /\ \A i \in Pooled : transactions[i] \in Txs /\ transactions[i].id = i
  /\ pending_utxos \subseteq Outputs

Init ==
  /\ transactions = [i \in {} |-> i]
  /\ pending_utxos = {}

-----------------------------------------------------------------------------
(* The map without id i.                                                   *)
Erase(m, i) == [j \in DOMAIN m \ {i} |-> m[j]]

(* Faulty variant: the transaction is filed under the wrong key.           *)
StoreMisfiled(m, t) ==
  [j \in DOMAIN m \cup {t.id + 1} |-> IF j = t.id + 1 THEN t ELSE m[j]]

(* The map with transaction t stored at its id.                            *)
Store(m, t) == [j \in DOMAIN m \cup {t.id} |-> IF j = t.id THEN t ELSE m[j]]

(* Faulty variant: the comparison of std::min_element the wrong way round. *)
IsHighest(i) ==
  \A j \in Pooled : transactions[i].fee >= transactions[j].fee

(* std::min_element by fee: the first minimum in id order.                 *)
IsLowest(i) ==
  \A j \in Pooled : \/ transactions[i].fee < transactions[j].fee
                    \/ transactions[i].fee = transactions[j].fee /\ i <= j

(* Faulty variants: no conflict check; a conflict check that already gives *)
(* the newcomer the outputs of the transaction it may evict.               *)
AcceptableById(t) == t.id \notin Pooled

AcceptableAfterEviction(t) ==
  /\ t.id \notin Pooled
  /\ \A i \in Pooled :
       i # t.id /\ transactions[i].inputs \cap t.inputs # {}
         => Cardinality(Pooled) >= max_capacity /\ IsLowest(i)

(* Neither a known id nor an output that a pooled transaction spends.  The *)
(* conflict check comes before any eviction.                               *)
Acceptable(t) ==
  /\ t.id \notin Pooled
  /\ t.inputs \cap pending_utxos = {}

(* Faulty variant: off by one at the limit.                                *)
FullTooLate == Cardinality(Pooled) > max_capacity

Full == Cardinality(Pooled) >= max_capacity

(* add_transaction when there is room.                                     *)
AddWithRoom(t) ==
  /\ Acceptable(t)
  /\ ~Full
  /\ pending_utxos' = pending_utxos \cup t.inputs
  /\ transactions' = Store(transactions, t)

(* Faulty variant: the evicted transaction keeps its outputs reserved.     *)
AddByEvictionLeaking(t) ==
  /\ Acceptable(t)
  /\ Full
  /\ \E low \in Pooled :
       /\ IsLowest(low)
       /\ transactions[low].fee < t.fee
       /\ pending_utxos' = pending_utxos \cup t.inputs
       /\ transactions' = Store(Erase(transactions, low), t)

(* add_transaction when the pool is full and t outbids the lowest fee: the *)
(* lowest one leaves with the outputs it had reserved.                     *)
AddByEviction(t) ==
  /\ Acceptable(t)
  /\ Full
  /\ \E low \in Pooled :
       /\ IsLowest(low)
       /\ transactions[low].fee < t.fee
       /\ pending_utxos' = (pending_utxos \ transactions[low].inputs) \cup t.inputs
       /\ transactions' = Store(Erase(transactions, low), t)

RemoveTransaction(i) ==
  /\ i \in Pooled
  /\ pending_utxos' = pending_utxos \ transactions[i].inputs
  /\ transactions' = Erase(transactions, i)

Clear ==
  /\ transactions' = [i \in {} |-> i]
  /\ pending_utxos' = {}

Next ==
  \/ \E t \in Txs : AddWithRoom(t)
  \/ \E t \in Txs : AddByEviction(t)
  \/ \E i \in Ids : RemoveTransaction(i)
  \/ Clear

Spec == Init /\ [][Next]_vars

-----------------------------------------------------------------------------
(* The reservation index is exact: pending_utxos holds the inputs of the   *)
(* pooled transactions and nothing else, so that is_utxo_spent neither     *)
(* refuses an output that was released by an eviction or a removal nor     *)
(* offers one that is taken.                                               *)
PendingExact == pending_utxos = UNION {transactions[i].inputs : i \in Pooled}

(* No two transactions waiting in the pool spend the same output, whatever *)
(* sequence of additions, evictions and removals led here: every subset of *)
(* the pool can go into one block.                                         *)
NoConflict ==
  \A i, j \in Pooled : i # j => transactions[i].inputs \cap transactions[j].inputs = {}

(* An eviction makes room for exactly one transaction: the pool never      *)
(* outgrows the capacity it was built with.                                *)
WithinCapacity == Cardinality(Pooled) <= max_capacity

(* What one call may do to the fees on offer: a transaction that leaves    *)
(* while another one enters paid strictly less than the newcomer and no    *)
(* more than anything that stayed, and only one leaves.                    *)
EvictionPays ==
  [][ \A i \in Pooled \ Pooled', j \in Pooled' \ Pooled :
        /\ transactions[i].fee < transactions'[j].fee
        /\ \A k \in Pooled \cap Pooled' : transactions[i].fee <= transactions[k].fee
        /\ Pooled' = (Pooled \ {i}) \cup {j} ]_vars

(* The pool implements the claim table: a pooled transaction claims its    *)
(* inputs.                                                                 *)
PoolClaims ==
  {c \in Outputs \X Ids : c[2] \in Pooled /\ c[1] \in transactions[c[2]].inputs}
Claims == INSTANCE OutputClaims WITH claims <- PoolClaims

(* Spec implements OutputClaims!AbsSpec: outputs never change hands in one *)
(* call, not even through an eviction.                                     *)
ImplementsClaims == Claims!AbsSpec
=============================================================================
