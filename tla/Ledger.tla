------------------------------- MODULE Ledger -------------------------------
(***************************************************************************)
(* The persistent ledger of a node, class mermai_db: the blocks, the       *)
(* unspent outputs, the mempool table and the index of transactions        *)
(* (src/db/mermai_db.cpp).                                                 *)
(*                                                                         *)
(* apply_block runs in one SQLite transaction, so it is one step here: it  *)
(* commits completely or not at all (Node.tla has the steps inside it).    *)
(*                                                                         *)
(* A transaction is a record: id, the set of inputs it spends (the output  *)
(* it refers to and the address of the key it is signed with), a sequence  *)
(* of outputs and a fee.  A block is a height and a sequence of            *)
(* transactions, and stands for its own hash; the chain's own checks are   *)
(* Node's subject.  One of them refuses transactions without inputs, so a  *)
(* node creates no outputs from nothing; apply_block itself accepts them.  *)
(* The id is chosen by whoever makes the transaction, and may be used again*)
(* once the outputs it would collide with are spent.                       *)
(*                                                                         *)
(* apply_block does not look at the height.  Its callers compare it with   *)
(* the chain in memory, without a lock: by the time a thread gets here the *)
(* height may have been applied by another one, and later ones after it.   *)
(* The row of a height is then replaced.                                   *)
(***************************************************************************)
EXTENDS Naturals, FiniteSets, SequencesExt

CONSTANTS Allocation,  \* unspent outputs in the table before the first block
          Blocks,      \* blocks that may be applied
          Txs,         \* transactions that clients and peers may send
          MaxAmount,   \* UINT64_MAX
          MaxApplied   \* bound on the number of blocks applied

(* Transactions are what deserialization yields: a list of outputs with    *)
(* unsigned amounts, and an unsigned fee.                                  *)
WellFormed(tx) ==
  /\ tx.outputs \in Seq(ToSet(tx.outputs))
  /\ \A n \in DOMAIN tx.outputs : tx.outputs[n].amount \in Nat
  /\ tx.fee \in Nat

ASSUME LedgerConstants ==
  /\ MaxAmount \in Nat /\ MaxApplied \in Nat
  /\ IsFiniteSet(Allocation) /\ \A u \in Allocation : u.amount \in Nat
  /\ \A b \in Blocks :
       /\ b.height \in Nat
       /\ b.txs \in Seq(ToSet(b.txs))
       /\ \A tx \in ToSet(b.txs) : WellFormed(tx)

VARIABLES blocks,    \* height -> block, the blocks table
          utxos,     \* the utxos table: records tx, idx, address, amount
          mempool,   \* the mempool table: a set of transactions, ids unique
          transactions,  \* the transactions table: records tx, block_hash; ids unique
          applied,   \* history: the blocks that were applied, in that order
          minted,    \* history: the allocation, and what was created without inputs
          fees       \* history: fees of the transactions applied

ledgerVars == <<blocks, utxos, mempool, transactions, applied, minted, fees>>

LedgerInit ==
  /\ blocks = <<>>
  /\ utxos = Allocation
  /\ mempool = {}
  /\ transactions = {}
  /\ applied = <<>>
  /\ minted = MapThenSumSet(LAMBDA u : u.amount, Allocation)
  /\ fees = 0

-----------------------------------------------------------------------------
Amount(outputs) == FoldLeft(LAMBDA sum, o : sum + o.amount, 0, outputs)

Value(table) == MapThenSumSet(LAMBDA u : u.amount, table)

(* The rows a transaction's inputs refer to, and the rows it creates.      *)
Referred(tx, table) == {u \in table : \E i \in tx.inputs : i.tx = u.tx /\ i.idx = u.idx}

Created(tx) ==
  {[tx |-> tx.id, idx |-> n, address |-> tx.outputs[n].address,
    amount |-> tx.outputs[n].amount] : n \in DOMAIN tx.outputs}

(* tx.verify() as far as the ledger is concerned: something is spent and   *)
(* something is paid, each output a positive amount.                       *)
Verified(tx) ==
  /\ tx.inputs # {} /\ tx.outputs # <<>>
  /\ \A n \in DOMAIN tx.outputs : tx.outputs[n].amount > 0

(* Faulty variant: more may go out than comes in.                          *)
ValidInputsGenerous(tx, table) ==
  /\ Verified(tx)
  /\ \A i \in tx.inputs : \E u \in table : i.tx = u.tx /\ i.idx = u.idx /\ i.by = u.address
  /\ Value(Referred(tx, table)) <= Amount(tx.outputs) + tx.fee

(* validate_transaction_inputs: every input is an unspent output of the    *)
(* signer, and what comes in is exactly what goes out plus the fee.  Sums  *)
(* that do not fit into 64 bits are refused.                               *)
ValidInputs(tx, table) ==
  /\ Verified(tx)
  /\ Amount(tx.outputs) + tx.fee <= MaxAmount
  /\ \A i \in tx.inputs : \E u \in table : i.tx = u.tx /\ i.idx = u.idx /\ i.by = u.address
  /\ Value(Referred(tx, table)) <= MaxAmount
  /\ Value(Referred(tx, table)) = Amount(tx.outputs) + tx.fee

(* save_unspent_output: an amount that is positive as a signed number of   *)
(* 64 bits, and a key that is not taken.                                   *)
Insertable(rows, table) ==
  \A r \in rows : /\ r.amount > 0 /\ r.amount <= MaxAmount \div 2
                  /\ \A u \in table : ~(u.tx = r.tx /\ u.idx = r.idx)

(* One transaction of apply_block, on what the ones before it left.  A     *)
(* transaction without inputs only creates.                                *)
ApplyTx(s, tx) ==
  LET rest == s.utxos \ Referred(tx, s.utxos)
  IN  IF s.ok /\ (tx.inputs # {} => ValidInputs(tx, s.utxos)) /\ Insertable(Created(tx), rest)
      THEN [ok |-> TRUE, utxos |-> rest \cup Created(tx)]
      ELSE [s EXCEPT !.ok = FALSE]

ApplyTxs(table, txs) == FoldLeft(ApplyTx, [ok |-> TRUE, utxos |-> table], txs)

Ids(txs) == {txs[n].id : n \in DOMAIN txs}

(* save_block: INSERT OR REPLACE, heights are unique.                      *)
Save(b) == [h \in DOMAIN blocks \cup {b.height} |-> IF h = b.height THEN b ELSE blocks[h]]

\* Faulty variant: an id that is stored already keeps its row.
IndexedFirst(b) ==
  transactions \cup {[tx |-> tx, block_hash |-> b] :
                       tx \in {t \in ToSet(b.txs) : \A r \in transactions : r.tx.id # t.id}}

(* The rest of save_block: every transaction is stored under its id, INSERT*)
(* OR REPLACE, with the hash of the block.                                 *)
Indexed(b) ==
  {r \in transactions : r.tx.id \notin Ids(b.txs)}
    \cup {[tx |-> tx, block_hash |-> b] : tx \in ToSet(b.txs)}

MintedBy(tx) == IF tx.inputs = {} THEN Amount(tx.outputs) + tx.fee ELSE 0

Minted(txs) == FoldLeft(LAMBDA sum, tx : sum + MintedBy(tx), 0, txs)

Fees(txs) == FoldLeft(LAMBDA sum, tx : sum + tx.fee, 0, txs)

(* Faulty variant: an error ends the loop without a ROLLBACK.              *)
ApplyBlockPartly(b) ==
  LET result == ApplyTxs(utxos, b.txs)
  IN  /\ utxos' = result.utxos
      /\ blocks' = IF result.ok THEN Save(b) ELSE blocks
      /\ transactions' = IF result.ok THEN Indexed(b) ELSE transactions
      /\ applied' = IF result.ok THEN Append(applied, b) ELSE applied
      /\ mempool' = {tx \in mempool : result.ok => tx.id \notin Ids(b.txs)}
      /\ minted' = IF result.ok THEN minted + Minted(b.txs) ELSE minted
      /\ fees' = IF result.ok THEN fees + Fees(b.txs) ELSE fees

(* Faulty variant: confirmed transactions stay in the mempool table.       *)
ApplyBlockKeepsPool(b) ==
  LET result == ApplyTxs(utxos, b.txs)
  IN  /\ result.ok
      /\ utxos' = result.utxos
      /\ blocks' = Save(b)
      /\ transactions' = Indexed(b)
      /\ applied' = Append(applied, b)
      /\ mempool' = mempool
      /\ minted' = minted + Minted(b.txs)
      /\ fees' = fees + Fees(b.txs)

(* apply_block when everything succeeds; otherwise nothing changes.        *)
ApplyBlock(b) ==
  LET result == ApplyTxs(utxos, b.txs)
  IN  /\ result.ok
      /\ utxos' = result.utxos
      /\ blocks' = Save(b)
      /\ transactions' = Indexed(b)
      /\ applied' = Append(applied, b)
      /\ mempool' = {tx \in mempool : tx.id \notin Ids(b.txs)}
      /\ minted' = minted + Minted(b.txs)
      /\ fees' = fees + Fees(b.txs)

Height == Max(DOMAIN blocks \cup {0})

(* can_add_block has let through the next height of the chain in memory,   *)
(* which is never ahead of the table (Node.DurableBeforeVisible) but may be*)
(* behind it by now, and no two transactions with the same id.             *)
Add(b) ==
  /\ Len(applied) < MaxApplied
  /\ b.height \in 1..(Height + 1)
  /\ \A m, n \in DOMAIN b.txs : b.txs[m].id = b.txs[n].id => m = n
  /\ ApplyBlock(b)

(* add_to_mempool: INSERT OR REPLACE by id.                                *)
Pool(tx) ==
  /\ mempool' = {p \in mempool : p.id # tx.id} \cup {tx}
  /\ UNCHANGED <<blocks, utxos, transactions, applied, minted, fees>>

(* RPC send_transaction checks the inputs, a transaction from a peer only  *)
(* has to verify.                                                          *)
SendTransaction(tx) == ValidInputs(tx, utxos) /\ Pool(tx)

NewTransaction(tx) == Verified(tx) /\ Pool(tx)

LedgerNext ==
  \/ \E b \in Blocks : Add(b)
  \/ \E tx \in Txs : SendTransaction(tx)
  \/ \E tx \in Txs : NewTransaction(tx)

LedgerSpec == LedgerInit /\ [][LedgerNext]_ledgerVars

-----------------------------------------------------------------------------
(* get_transaction looks into the index first, then into the mempool table.*)
get_transaction(id) ==
  LET stored == {r.tx : r \in {t \in transactions : t.tx.id = id}}
  IN  IF stored # {} THEN stored ELSE {tx \in mempool : tx.id = id}

get_transactions_in_block(b) == {r.tx : r \in {t \in transactions : t.block_hash = b}}

(* Without its order and its limit                                         *)
get_account_transactions(address) ==
  {tx \in {r.tx : r \in transactions} :
     \/ \E n \in DOMAIN tx.outputs : tx.outputs[n].address = address
     \/ \E i \in tx.inputs : i.by = address}

(* Nothing is lost or made up by a sequence of blocks, whatever they       *)
(* spend: what is unspent is what was minted, less the fees.               *)
Conservation == Value(utxos) + fees = minted

ReplayBlock(s, b) == FoldLeft(ApplyTx, s, b.txs)

(* The uses of an id, and the last block applied for a height              *)
Holding(id) == {k \in DOMAIN applied : id \in Ids(applied[k].txs)}

Newest(h) == applied[Max({k \in DOMAIN applied : applied[k].height = h})]

(* The tables follow from the blocks that were applied, from the first to  *)
(* the last: a block that was refused half-way left nothing behind, and    *)
(* none of what an applied block did is missing or was taken back.  The    *)
(* last of each height is the one that can be read.  So when two threads   *)
(* have applied a height, the unspent outputs are those of both blocks,    *)
(* and of one only the effects remain.                                     *)
TablesAreReplay ==
  /\ FoldLeft(ReplayBlock, [ok |-> TRUE, utxos |-> Allocation], applied) = [ok |-> TRUE, utxos |-> utxos]
  /\ DOMAIN blocks = {applied[k].height : k \in DOMAIN applied}
  /\ \A h \in DOMAIN blocks : blocks[h] = Newest(h)

(* A step that applies a block leaves none of the block's transactions in  *)
(* the mempool table, and no step drops a waiting transaction that the     *)
(* stored blocks do not contain, unless another one with its id takes its  *)
(* place.                                                                  *)
PoolDrainsIntoBlocks ==
  [][/\ \A tx \in mempool : tx.id \in {p.id : p \in mempool'}
          \/ \E h \in DOMAIN blocks' : tx.id \in Ids(blocks'[h].txs)
     /\ applied' # applied => \A tx \in mempool' : tx.id \notin Ids(Last(applied').txs)]_ledgerVars

(* The index agrees with the applied blocks and the unspent outputs, also  *)
(* for blocks whose row was replaced: a block lists its transactions but   *)
(* for those whose id a later block used again, an id in some block leads  *)
(* to the last transaction stored with it and never to one that is only    *)
(* waiting, and every unspent output is in the history of its owner unless *)
(* its id was used again.                                                  *)
HistoryExact ==
  LET Lasting(b) == {tx \in ToSet(b.txs) : applied[Max(Holding(tx.id))] = b}
  IN  /\ \A k \in DOMAIN applied :
           /\ get_transactions_in_block(applied[k]) = Lasting(applied[k])
           /\ \A tx \in Lasting(applied[k]) : get_transaction(tx.id) = {tx}
      /\ \A u \in utxos \ Allocation :
           \/ Cardinality(Holding(u.tx)) > 1
           \/ \E tx \in get_account_transactions(u.address) : u \in Created(tx)
=============================================================================
