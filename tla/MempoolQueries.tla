--------------------------- MODULE MempoolQueries ---------------------------
(***************************************************************************)
(* The read-only operations of mermai_mempool, as operators on a state of  *)
(* the pool, and what their answers promise.                               *)
(***************************************************************************)
EXTENDS Mempool, SequencesExt

CONSTANT Limits   \* the limits a caller may pass to get_transactions

ASSUME LimitsAssumption == Limits \subseteq Nat

PooledTxs == {transactions[i] : i \in Pooled}

(* Faulty variant: the list is cut to limit before it is sorted.           *)
GetTransactionsCutFirst(limit) ==
  {SubSeq(s, 1, IF Len(s) > limit THEN limit ELSE Len(s)) : s \in SetToSeqs(PooledTxs)}

(* Every answer get_transactions(limit) may give: std::sort by descending  *)
(* fee is not stable, so transactions of equal fee come in any order, and  *)
(* the list is cut to limit afterwards.                                    *)
GetTransactions(limit) ==
  LET ByFee == {s \in SetToSeqs(PooledTxs) :
                  \A m, n \in DOMAIN s : m < n => s[m].fee >= s[n].fee}
  IN  {SubSeq(s, 1, IF Len(s) > limit THEN limit ELSE Len(s)) : s \in ByFee}

(* The answer of an empty pool.                                            *)
DefaultFee == 1000

(* The pooled transactions by ascending fee.                               *)
Ascending(s) == \A m, n \in DOMAIN s : m < n => s[m].fee <= s[n].fee

FeesSorted == CHOOSE s \in SetToSeqs(PooledTxs) : Ascending(s)

(* Faulty variant: the index is off by one for even sizes.                 *)
GetLowerMedianFee ==
  IF Pooled = {} THEN DefaultFee ELSE FeesSorted[(Len(FeesSorted) + 1) \div 2].fee

(* The upper median of the fees, or the default of an empty pool.          *)
GetMedianFee ==
  IF Pooled = {} THEN DefaultFee ELSE FeesSorted[(Len(FeesSorted) \div 2) + 1].fee

-----------------------------------------------------------------------------
(* get_transactions returns the best-paying transactions: as many as the   *)
(* limit allows, none left out pays more than one taken, each one once.    *)
BestPayingFirst ==
  \A limit \in Limits : \A list \in GetTransactions(limit) :
    /\ Len(list) = IF limit < Cardinality(Pooled) THEN limit ELSE Cardinality(Pooled)
    /\ IsInjective(list)
    /\ \A n \in DOMAIN list, t \in PooledTxs \ ToSet(list) : t.fee <= list[n].fee

(* get_median_fee splits the pool: at most half of the pooled transactions *)
(* pay less and fewer than half pay more, for odd and for even sizes.      *)
MedianSplits ==
  LET n == Cardinality(Pooled)
      m == GetMedianFee
  IN  n > 0 => /\ 2 * Cardinality({t \in PooledTxs : t.fee < m}) <= n
               /\ 2 * Cardinality({t \in PooledTxs : t.fee > m}) < n
=============================================================================
