-------------------------------- MODULE Node --------------------------------
(***************************************************************************)
(* One MERMAI node and the path of a block through it: the production loop *)
(* (src/mermai_main.cpp), the threads that receive blocks from peers       *)
(* (src/network/mermai_network.cpp), proposal validation and the validator *)
(* registry (src/consensus), the chain in memory (src/core) and the SQLite *)
(* database (src/db), which is all that survives a crash.                  *)
(*                                                                         *)
(* Both kinds of thread run                                                *)
(*     can_add_block(b) && apply_block(b) && add_block(b)                  *)
(* with no lock around it.  Its parts are separate steps here: can_add,    *)
(* BEGIN, write and COMMIT (or ROLLBACK), the second can_add inside        *)
(* add_block, and the push_back.                                           *)
(*                                                                         *)
(* Time is counted in slots of block_interval_seconds; addresses are       *)
(* positive numbers in their order.  The hash of a block is its own        *)
(* content appended to the hash of its predecessor, so that it is          *)
(* injective.  A block's txs field says what its transactions are good     *)
(* for: "ok", "malformed" (can_add_block refuses them) or "unspendable"    *)
(* (apply_block does).  The field signed says that the block carries the   *)
(* registered key of its proposer and a signature that verifies.           *)
(***************************************************************************)
EXTENDS Naturals, FiniteSets, SequencesExt

CONSTANTS Peers,             \* threads that receive blocks
          Addresses,         \* validator addresses, a set of positive numbers
          Keyed,             \* the addresses registered with a public key
          StakeOf,           \* address -> stake it registers with
          min_stake,         \* what a validator must have to register or be restored
          InitialValidators, \* registered before the node first started
          Weight(_, _),      \* calculate_weight of an amount and an age
          Draw(_, _),        \* pseudo-random value for a slot and the weights
          FutureSlots,       \* how far ahead of the clock a block may be
          PeerTxs,           \* txs fields of blocks that peers send
          PeerSigned,        \* signed fields of blocks that peers send
          Honest,            \* key holders that sign one block per height and slot
          MaxSlot, MaxHeight, MaxCrashes, MaxRegistrations   \* bounds

Loop == "consensus_loop"
Threads == {Loop} \cup Peers
NoThread == "no thread"
NoAddress == 0

ASSUME NodeConstants ==
  /\ Loop \notin Peers /\ NoThread \notin Threads
  /\ Addresses \subseteq Nat \ {NoAddress} /\ Keyed \subseteq Addresses
  /\ InitialValidators \subseteq Addresses
  /\ StakeOf \in [Addresses -> Nat \ {0}]
  /\ min_stake \in Nat /\ \A v \in Addresses : StakeOf[v] >= min_stake
  /\ PeerTxs \subseteq {"ok", "malformed", "unspendable"}
  /\ PeerSigned \subseteq BOOLEAN /\ Honest \subseteq Keyed
  /\ {FutureSlots, MaxSlot, MaxHeight, MaxCrashes, MaxRegistrations} \subseteq Nat

VARIABLES
  chain,           \* the blocks in memory, genesis first
  active,          \* active_validators, in the order they were added
  seen_proposals,  \* <<height, slot>> -> hash of the first proposal seen
  pending_rewards, \* address -> block rewards credited, in units of one block
  view,            \* the database as its one connection sees it
  disk,            \* the database as it is after a crash
  txn,             \* the thread whose SQLite transaction is open
  pc, blk,         \* thread -> its next step, and the block it works on
  rpc,             \* the address an RPC thread has registered but not saved
  wake,            \* the production loop sleeps until this slot
  now, status, crashes, registrations,
  stored,          \* history: every block ever committed
  signedBlocks     \* history: the blocks that Honest validators have signed

memory == <<chain, active, seen_proposals, pending_rewards>>
database == <<view, disk, txn>>
bounds == <<status, crashes, registrations>>
history == <<stored, signedBlocks>>
vars == <<memory, database, pc, blk, rpc, wake, now, bounds, history>>

-----------------------------------------------------------------------------
Genesis == [height |-> 0, prev |-> <<>>, slot |-> 0, proposer |-> NoAddress,
            stake |-> 0, age |-> 0, signed |-> FALSE, txs |-> "ok"]

Hash(b) == Append(b.prev, [b EXCEPT !.prev = <<>>])

Age(slot, lock) == IF slot >= lock THEN slot - lock ELSE 0

Entry(v, lock) == [address |-> v, amount |-> StakeOf[v], lock_time |-> lock]

(* get_all_validators: ORDER BY address.                                   *)
InOrder(validators) == SetToSortSeq(validators, LAMBDA a, b : a.address < b.address)

(* select_block_proposer: a walk along the cumulative weights, in the      *)
(* order of the registry.                                                  *)
Select(slot, reg) ==
  LET weights == [i \in DOMAIN reg |-> Weight(reg[i].amount, Age(slot, reg[i].lock_time))]
      UpTo(n) == SumFunctionOnSet(weights, 1..n)
      hits == {n \in DOMAIN reg : Draw(slot, weights) <= UpTo(n)}
  IN  CASE reg = <<>> -> NoAddress
        [] reg # <<>> /\ UpTo(Len(reg)) = 0 -> reg[1].address
        [] OTHER -> IF hits = {} THEN reg[Len(reg)].address ELSE reg[Min(hits)].address

(* Faulty variant: the signature is not required.                          *)
AttestedUnsigned(b, reg) ==
  \E n \in DOMAIN reg :
    /\ reg[n].address = b.proposer
    /\ b.stake = reg[n].amount
    /\ b.age = Age(b.slot, reg[n].lock_time)
    /\ Weight(reg[n].amount, b.age) > 0

(* The last part of validate_proposal: what the block says of its proposer *)
(* is what the registry says, and the block is signed if there is a key.   *)
Attested(b, reg) ==
  \E n \in DOMAIN reg :
    /\ reg[n].address = b.proposer
    /\ b.stake = reg[n].amount
    /\ b.age = Age(b.slot, reg[n].lock_time)
    /\ b.proposer \in Keyed => b.signed
    /\ Weight(reg[n].amount, b.age) > 0

(* A candidate block of proposer v in a slot, on top of the block last.    *)
BlockOn(last, v, reg, slot, signed, txs) ==
  LET n == CHOOSE n \in DOMAIN reg : reg[n].address = v
  IN  [height |-> last.height + 1, prev |-> Hash(last), slot |-> slot, proposer |-> v,
       stake |-> reg[n].amount, age |-> Age(slot, reg[n].lock_time),
       signed |-> signed, txs |-> txs]

-----------------------------------------------------------------------------
(* A node that has just started on a database with no block in it.         *)
Init ==
  LET validators == {Entry(v, 1) : v \in InitialValidators}
  IN  /\ chain = <<Genesis>>
      /\ active = InOrder(validators)
      /\ seen_proposals = [k \in {} |-> k]
      /\ pending_rewards = [v \in Addresses |-> 0]
      /\ disk = [blocks |-> <<>>, validators |-> validators]
      /\ view = disk
      /\ txn = NoThread
      /\ pc = [t \in Threads |-> "idle"]
      /\ blk = [t \in Threads |-> Genesis]
      /\ rpc = NoAddress
      /\ now = 1 /\ wake = 1
      /\ status = "up" /\ crashes = 0 /\ registrations = 0
      /\ stored = {} /\ signedBlocks = {}

(* Thread t is through with its block; the loop now sleeps for one slot.   *)
Done(t) ==
  /\ pc' = [pc EXCEPT ![t] = "idle"]
  /\ blk' = [blk EXCEPT ![t] = Genesis]
  /\ wake' = IF t = Loop THEN now + 1 ELSE wake

Goto(t, step) ==
  /\ pc' = [pc EXCEPT ![t] = step]
  /\ UNCHANGED <<blk, wake>>

Take(t, b) ==
  /\ pc' = [pc EXCEPT ![t] = "check"]
  /\ blk' = [blk EXCEPT ![t] = b]
  /\ UNCHANGED wake

-----------------------------------------------------------------------------
(* consensus_loop: whoever the proposer of this slot is, the node builds   *)
(* its block, without a signature and without transactions.  (It reads the *)
(* height and the tip one after the other; a block pushed in between makes *)
(* it a candidate that Check refuses, as it refuses one that comes late.)  *)
Propose ==
  /\ status = "up" /\ pc[Loop] = "idle" /\ wake <= now
  /\ Len(chain) <= MaxHeight
  /\ LET v == Select(now, active)
     IN  IF v = NoAddress
         THEN Done(Loop)
         ELSE LET b == BlockOn(Last(chain), v, active, now, FALSE, "ok")
              IN  Take(Loop, [b EXCEPT !.height = Len(chain)])
  /\ UNCHANGED <<memory, database, rpc, now, bounds, history>>

SlotOf(b) == <<b.height, b.slot>>

(* A peer sends a block on top of our chain or beside its newest block, or *)
(* one that it sent before.  Blocks for older tips are refused by the      *)
(* first comparison of can_add_block in the same way.                      *)
Receive(t, b) ==
  /\ status = "up" /\ pc[t] = "idle"
  /\ b.height <= MaxHeight
  /\ b.signed /\ b.proposer \in Honest
       => \A c \in signedBlocks : c.proposer = b.proposer /\ SlotOf(c) = SlotOf(b) => c = b
  /\ Take(t, b)
  /\ signedBlocks' = IF b.signed /\ b.proposer \in Honest
                     THEN signedBlocks \cup {b} ELSE signedBlocks
  /\ UNCHANGED <<memory, database, rpc, now, bounds, stored>>

PeerBlocks ==
  LET tips == {chain[n] : n \in {Len(chain), Max({1, Len(chain) - 1})}}
      blocks == {BlockOn(last, active[n].address, active, slot, signed, txs) :
                   last \in tips, n \in DOMAIN active, slot \in 1..MaxSlot,
                   signed \in PeerSigned, txs \in PeerTxs}
  IN  {b \in blocks : b.signed => b.proposer \in Keyed}

-----------------------------------------------------------------------------
(* Faulty variant: only a block for the current slot is accepted.          *)
ExtendsNow(b) ==
  /\ b.height = Len(chain)
  /\ b.prev = Hash(Last(chain))
  /\ Last(chain).slot <= b.slot /\ b.slot = now
  /\ b.proposer # NoAddress /\ b.stake > 0

(* The first lines of can_add_block.                                       *)
Extends(b) ==
  /\ b.height = Len(chain)
  /\ b.prev = Hash(Last(chain))
  /\ Last(chain).slot <= b.slot /\ b.slot <= now + FutureSlots
  /\ b.proposer # NoAddress /\ b.stake > 0

Equivocation(b) ==
  SlotOf(b) \in DOMAIN seen_proposals /\ seen_proposals[SlotOf(b)] # Hash(b)

(* slash_validator with a penalty of 0.5.                                  *)
Halve(reg, v) ==
  [n \in DOMAIN reg |-> IF reg[n].address = v
                        THEN [reg[n] EXCEPT !.amount = @ \div 2] ELSE reg[n]]

(* can_add_block refuses before it changes anything.                       *)
Refused(b) == ~Extends(b) \/ Select(b.slot, active) # b.proposer

(* can_add_block with the side effects of validate_proposal: the first     *)
(* proposal for a slot is remembered before its stake, its signature and   *)
(* its transactions are looked at; a different one costs the proposer half *)
(* of its stake.                                                           *)
CanAdd(t, next) ==
  LET b == blk[t]
  IN  \/ Refused(b) /\ Done(t) /\ UNCHANGED memory
      \/ /\ ~Refused(b) /\ Equivocation(b)
         /\ active' = Halve(active, b.proposer)
         /\ Done(t)
         /\ UNCHANGED <<chain, seen_proposals, pending_rewards>>
      \/ /\ ~Refused(b) /\ ~Equivocation(b)
         /\ seen_proposals' = [k \in DOMAIN seen_proposals \cup {SlotOf(b)} |-> 
                                 IF k = SlotOf(b) THEN Hash(b) ELSE seen_proposals[k]]
         /\ IF Attested(b, active) /\ b.txs # "malformed" THEN Goto(t, next) ELSE Done(t)
         /\ UNCHANGED <<chain, active, pending_rewards>>

Check(t) ==
  /\ pc[t] = "check"
  /\ CanAdd(t, "begin")
  /\ UNCHANGED <<database, rpc, now, bounds, history>>

(* Faulty variant: BEGIN does not notice an open transaction.              *)
BeginAlways(t) ==
  /\ pc[t] = "begin"
  /\ txn' = t /\ Goto(t, "commit")
  /\ UNCHANGED <<memory, view, disk, rpc, now, bounds, history>>

(* apply_block: BEGIN IMMEDIATE fails at once while another thread has a   *)
(* transaction open on the shared connection.                              *)
Begin(t) ==
  /\ pc[t] = "begin"
  /\ IF txn = NoThread THEN txn' = t /\ Goto(t, "commit")
                       ELSE txn' = txn /\ Done(t)
  /\ UNCHANGED <<memory, view, disk, rpc, now, bounds, history>>

(* INSERT OR REPLACE: heights are unique in the blocks table.              *)
Insert(blocks, b) ==
  [h \in DOMAIN blocks \cup {b.height} |-> IF h = b.height THEN b ELSE blocks[h]]

(* Faulty variant: the block is not saved.                                 *)
CommitWithoutSave(t) ==
  /\ pc[t] = "commit"
  /\ txn' = NoThread
  /\ IF blk[t].txs = "ok" THEN disk' = view /\ view' = view /\ Goto(t, "recheck")
                          ELSE view' = disk /\ disk' = disk /\ Done(t)
  /\ UNCHANGED <<memory, rpc, now, bounds, history>>

(* The rest of apply_block: the block and its transactions are written and *)
(* committed, or everything since BEGIN is rolled back.                    *)
Commit(t) ==
  /\ pc[t] = "commit"
  /\ txn' = NoThread
  /\ IF blk[t].txs = "ok"
     THEN /\ view' = [view EXCEPT !.blocks = Insert(@, blk[t])]
          /\ disk' = view'
          /\ stored' = stored \cup {blk[t]}
          /\ Goto(t, "recheck")
     ELSE /\ view' = disk
          /\ UNCHANGED <<disk, stored>>
          /\ Done(t)
  /\ UNCHANGED <<memory, rpc, now, bounds, signedBlocks>>

(* add_block: can_add_block once more, then push_back.                     *)
Recheck(t) ==
  /\ pc[t] = "recheck"
  /\ CanAdd(t, "push")
  /\ UNCHANGED <<database, rpc, now, bounds, history>>

Push(t) ==
  /\ pc[t] = "push"
  /\ chain' = Append(chain, blk[t])
  /\ IF t = Loop THEN Goto(t, "finalize") ELSE Done(t)
  /\ UNCHANGED <<active, seen_proposals, pending_rewards, database, rpc, now, bounds, history>>

(* Faulty variant: the proposer is looked up again, for the current slot.  *)
FinalizeNow ==
  /\ pc[Loop] = "finalize"
  /\ pending_rewards' = [pending_rewards EXCEPT ![Select(now, active)] = @ + 1]
  /\ Done(Loop)
  /\ UNCHANGED <<chain, active, seen_proposals, database, rpc, now, bounds, history>>

(* finalize_block: only the production loop credits the reward of a block. *)
Finalize ==
  /\ pc[Loop] = "finalize"
  /\ pending_rewards' = [pending_rewards EXCEPT ![blk[Loop].proposer] = @ + 1]
  /\ Done(Loop)
  /\ UNCHANGED <<chain, active, seen_proposals, database, rpc, now, bounds, history>>

-----------------------------------------------------------------------------
(* RPC register_validator: the registry first, then the database.          *)
Register(v) ==
  /\ status = "up" /\ rpc = NoAddress
  /\ registrations < MaxRegistrations /\ registrations' = registrations + 1
  /\ \A n \in DOMAIN active : active[n].address # v
  /\ active' = Append(active, Entry(v, now))
  /\ rpc' = v
  /\ UNCHANGED <<chain, seen_proposals, pending_rewards, database, pc, blk, wake, now,
                 status, crashes, history>>

(* save_validator: outside of any transaction of its own, so it joins the  *)
(* transaction that another thread may have open.                          *)
SaveValidator ==
  /\ rpc # NoAddress
  /\ view' = [view EXCEPT !.validators =
                {e \in @ : e.address # rpc} \cup {e \in ToSet(active) : e.address = rpc}]
  /\ disk' = IF txn = NoThread THEN view' ELSE disk
  /\ rpc' = NoAddress
  /\ UNCHANGED <<memory, txn, pc, blk, wake, now, bounds, history>>

-----------------------------------------------------------------------------
(* The process dies: memory is lost, an open transaction is rolled back.   *)
Crash ==
  /\ status = "up" /\ crashes < MaxCrashes
  /\ crashes' = crashes + 1 /\ status' = "down"
  /\ chain' = <<Genesis>> /\ active' = <<>>
  /\ seen_proposals' = [k \in {} |-> k]
  /\ pending_rewards' = [v \in Addresses |-> 0]
  /\ view' = disk /\ txn' = NoThread
  /\ pc' = [t \in Threads |-> "idle"] /\ blk' = [t \in Threads |-> Genesis]
  /\ rpc' = NoAddress
  /\ UNCHANGED <<disk, wake, now, registrations, history>>

(* Faulty variant: the newest stored block is forgotten.                   *)
TopButOne(blocks) == IF DOMAIN blocks = {} THEN 0 ELSE Max(DOMAIN blocks) - 1

(* get_latest_block_height: COALESCE(MAX(height), 0).                      *)
Top(blocks) == Max(DOMAIN blocks \cup {0})

(* The genesis block of this process, then the stored blocks in order.     *)
PersistedChain(blocks) == <<Genesis>> \o [h \in 1..Top(blocks) |-> blocks[h]]

(* Faulty variant: the proposer is checked against the clock.              *)
ReplayableNow(candidate, reg) ==
  \A n \in 2..Len(candidate) :
    LET b == candidate[n]
    IN  /\ b.height = n - 1
        /\ b.prev = Hash(candidate[n-1])
        /\ candidate[n-1].slot <= b.slot
        /\ Select(now, reg) = b.proposer
        /\ Attested(b, reg)

(* replace_chain_if_longer on the stored blocks, against the validators    *)
(* as they are restored now.                                               *)
Replayable(candidate, reg) ==
  \A n \in 2..Len(candidate) :
    LET b == candidate[n]
    IN  /\ b.height = n - 1
        /\ b.prev = Hash(candidate[n-1])
        /\ candidate[n-1].slot <= b.slot
        /\ b.proposer # NoAddress /\ b.stake > 0
        /\ Select(b.slot, reg) = b.proposer
        /\ Attested(b, reg)
        /\ b.txs # "malformed"

(* restore_validator: one that was slashed before it was saved may be below*)
(* the minimum.  Addresses are unique in the table and lock times positive.*)
Restored(validators) == \A e \in validators : e.amount >= min_stake

(* initialize(): the validators come back in the order of their addresses, *)
(* then the stored chain is validated as a whole.  If a validator cannot be*)
(* restored, a height is missing or a block is refused the node does not   *)
(* start.                                                                  *)
Initialize ==
  /\ status = "down"
  /\ LET reg == InOrder(disk.validators)
         candidate == PersistedChain(disk.blocks)
     IN  IF /\ Restored(disk.validators)
            /\ 1..Top(disk.blocks) \subseteq DOMAIN disk.blocks /\ Replayable(candidate, reg)
         THEN /\ status' = "up"
              /\ active' = reg
              /\ chain' = candidate
              /\ seen_proposals' = [k \in {SlotOf(candidate[n]) : n \in 2..Len(candidate)} |->
                                      Hash(candidate[k[1] + 1])]
         ELSE /\ status' = "failed"
              /\ UNCHANGED <<active, chain, seen_proposals>>
  /\ wake' = now
  /\ UNCHANGED <<pending_rewards, database, pc, blk, rpc, now, crashes, registrations, history>>

Tick ==
  /\ now < MaxSlot
  /\ now' = now + 1
  /\ UNCHANGED <<memory, database, pc, blk, rpc, wake, bounds, history>>

-----------------------------------------------------------------------------
Step(t) == Check(t) \/ Begin(t) \/ Commit(t) \/ Recheck(t) \/ Push(t)

Next ==
  \/ Propose
  \/ \E t \in Peers : \E b \in PeerBlocks : Receive(t, b)
  \/ \E t \in Threads : Check(t)
  \/ \E t \in Threads : Begin(t)
  \/ \E t \in Threads : Commit(t)
  \/ \E t \in Threads : Recheck(t)
  \/ \E t \in Threads : Push(t)
  \/ Finalize
  \/ \E v \in Addresses : Register(v)
  \/ SaveValidator
  \/ Crash
  \/ Initialize
  \/ Tick

Spec == Init /\ [][Next]_vars

(* A thread that runs is scheduled, and a node that is down is started     *)
(* again by whoever operates it.                                           *)
Fairness ==
  /\ \A t \in Threads : WF_vars(Step(t))
  /\ WF_vars(Finalize)
  /\ WF_vars(Initialize)

FairSpec == Spec /\ Fairness

-----------------------------------------------------------------------------
(* While only the production loop writes, the chain in memory is what the  *)
(* database holds, and the database is ahead by at most the one block the  *)
(* loop has committed but not pushed: a crash at any point loses no block  *)
(* that anybody could see, and a block on its way is not lost either.      *)
MemoryFollowsDisk ==
  status = "up" =>
    /\ \A n \in 1..Len(chain) - 1 :
          n \in DOMAIN disk.blocks /\ disk.blocks[n] = chain[n+1]
    /\ DOMAIN disk.blocks = IF pc[Loop] \in {"recheck", "push"} THEN 1..Len(chain)
                                                           ELSE 1..Len(chain) - 1
    /\ pc[Loop] \in {"recheck", "push"} => disk.blocks[Len(chain)] = blk[Loop]

(* README.md: "Crash recovery from persisted state".  The node always      *)
(* comes back from what it stored.                                         *)
RestartRecovers == status # "failed"

(* A stored block is never lost and never replaced by another one of the   *)
(* same height.                                                            *)
StoredForever ==
  [][\A h \in DOMAIN disk.blocks :
       h \in DOMAIN disk'.blocks /\ disk'.blocks[h] = disk.blocks[h]]_vars

(* The loop credits the proposer of every block it added once, and nobody  *)
(* for a block that is not in the chain; the credits are gone after a      *)
(* crash.                                                                  *)
RewardsBacked ==
  status = "up" => \A v \in Addresses :
    LET blocks == Cardinality({n \in DOMAIN chain : chain[n].proposer = v})
        owed == IF pc[Loop] = "finalize" /\ blk[Loop].proposer = v THEN 1 ELSE 0
    IN  /\ pending_rewards[v] + owed <= blocks
        /\ Peers = {} /\ crashes = 0 => pending_rewards[v] + owed = blocks

(* Every stored block comes to be served from memory, whatever crash hits  *)
(* between its COMMIT and its push_back.                                   *)
StoredIsServed ==
  \A h \in 1..MaxHeight :
    h \in DOMAIN disk.blocks ~> (status = "up" /\ h < Len(chain))

-----------------------------------------------------------------------------
(* With any number of threads that write at the same time.                 *)

(* At most one thread is between BEGIN and COMMIT, and outside of that the *)
(* connection sees exactly what is durable.                                *)
TxnExclusive ==
  /\ \A t \in Threads : pc[t] = "commit" <=> txn = t
  /\ txn = NoThread => view = disk

(* No block is visible in memory before it was made durable.               *)
DurableBeforeVisible == \A n \in 2..Len(chain) : chain[n] \in stored

(* A block of a validator that registered a key is neither in memory nor   *)
(* in the database unless it is signed with that key, although the node    *)
(* itself builds such blocks without a signature in every slot.            *)
OnlySignedBlocks ==
  \A b \in ToSet(chain) \cup {disk.blocks[h] : h \in DOMAIN disk.blocks} :
    b.proposer \in Keyed => b.signed

-----------------------------------------------------------------------------
(* docs/MAINNET.md: "Equivocation (double-proposal)" costs half the stake. *)
(* A validator that signs a single block for each height and slot keeps    *)
(* its stake, whatever the production loop and the peers do.               *)
OnlyEquivocatorsSlashed ==
  [][\A n \in DOMAIN active \cap DOMAIN active' :
       active[n].address \in Honest /\ active'[n].address = active[n].address
         => active'[n].amount >= active[n].amount]_vars
=============================================================================
