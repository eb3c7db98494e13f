# TLA+ verification of the MERMAI node

This directory specifies the MERMAI blockchain node in TLA+, checks the
specifications with TLC on small instances, and proves the most important
properties with TLAPS for every instance. Source paths are relative to the
repository, except in `PROJECT.json`, which counts from the directory above it.

## 1. The system

A MERMAI process is a proof-of-stake node: a production loop, a thread per peer
connection, a detached thread per JSON-RPC connection, one chain in memory, one SQLite file.

| component | state | operations | source |
|---|---|---|---|
| transaction pool | `transactions`, `pending_utxos` | add (with eviction), remove, clear, best-paying list, median fee | `src/core/mermai_mempool.cpp` |
| finality collector | `block_votes`, `vote_stake_totals`, `finalized_blocks` | `add_vote`, `clear`, queries | `src/consensus/mermai_consensus.cpp` |
| validator registry, rewards | `active_validators`, `pending_rewards` | register, unregister, restore, slash, inactivity penalty, finalize, claim, fees | same file, `mermai_consensus_state` in `src/core/mermai_blockchain.cpp` |
| proposer selection, proposal validation | `seen_proposals` | `select_block_proposer`, `validate_proposal` | same files |
| chain in memory | `chain` | `can_add_block`, `add_block`, `replace_chain_if_longer` | `src/core/mermai_blockchain.cpp` |
| ledger database | tables blocks, utxos, transactions, mempool, validators, accounts, contract storage, state roots, key-value | `apply_block` in one transaction, single statements for the rest | `src/db/mermai_db.cpp` |
| P2P sessions | peers, reputations, bans, rate and subnet counters | handshake, GET_BLOCKS/BLOCKS, BLOCK, NEW_TRANSACTION, BLOCK_VOTE, bans | `src/network/mermai_network.cpp` |
| node | the above, `running` | `initialize`, `start`, `consensus_loop`, `network_sync_loop`, `stop` | `src/mermai_main.cpp` |
| JSON-RPC | `server_running`, `server_socket`, `server_thread`; a detached thread per connection | start, stop; send_transaction, register_validator, submit_vote, contract calls, queries | `src/rpc/mermai_rpc.cpp` |
| pub/sub | subscriptions with pending events | subscribe, unsubscribe, publish, poll | `src/rpc/mermai_pubsub.cpp` |
| governance | proposals, who voted | create, vote, tally | `src/consensus/mermai_governance.cpp` |
| VM, Merlite compiler, token | stack, memory, storage, gas; balances, allowances | one per opcode; transfer, approve, mint, burn | `src/vm/` |
| multisig, Merkle tree, light client | signatures collected; none; header chain | sign, combine; prove, verify; add header, verify inclusion | `src/core/` |
| binary form, signatures | none | serialize, deserialize, sign, verify of transactions, votes and blocks | `src/core/mermai_blockchain.cpp` |

**Interaction.** The production loop and every peer thread run
`can_add_block(b) && apply_block(b) && add_block(b)` on the same chain, registry
and SQLite connection, and no lock spans the three calls. RPC threads write the
registry and the database beside them. Votes reach the collector from RPC and peer
threads; the collector reads the registry without a lock and its own maps under
`quorum_mutex`. Only the database survives a crash; `initialize()` rebuilds
the registry and the chain from it and validates the stored chain as a whole.

**What is hard.** Interleavings of the three calls; SQLite statements of one thread
inside another thread's transaction; a crash between COMMIT and `push_back`;
validation of old blocks against the registry of today; state that was copied
before a lock was taken; side effects of a check that fails later; a full pool; a
block that fails at its n-th transaction; clients that connect and say nothing; sums
and divisions at the edge of their types; data whose lengths come from the data.
`PROJECT.json` lists these hazards with
their lines and with the properties that cover them.

**What makes each part correct.** Pool: the reservation index is exact and no
output has two claimants. Collector: nobody is counted twice, and finality takes two
thirds. Pipeline: what is visible is durable, what is durable is signed, what was
stored comes back. Ledger: value is conserved, the tables follow from the
blocks that were applied. Network: whatever arrives only makes a chain grow, greetings end,
and who asks gets an answer. Contracts: words stay words, gas is bounded, and what
the compilers emit runs as the source says. Token, governance, multisig: what was moved,
decided or accepted was authorised by those it took. Light client: a proof convinces of
what the block holds and of nothing else. Pub/sub: each event once, in order. RPC: a
request that can be answered is.

## 2. Modules

| module | models | extends / instantiates |
|---|---|---|
| `OutputClaims` | abstract: which output is claimed by whom | |
| `Mempool` | the pool's operations, each atomic under `mempool_mutex` | instantiates `OutputClaims` |
| `MempoolQueries` | `get_transactions`, `get_median_fee` | `Mempool` |
| `MempoolProofs` | theorems | `MempoolQueries`, `SumTheorems` |
| `Finality` | abstract: quorum finality with a fixed validator set | |
| `FinalityProofs` | theorems | `Finality` |
| `VoteCollector` | `add_vote` in its two steps, registry changes, restarts | instantiates `Finality` |
| `VoteCollectorProofs` | theorems | `VoteCollector`, `SumTheorems`; instantiates `FinalityProofs` |
| `Node` | the path of a block: loop, peer threads, validation, SQLite transaction, memory, RPC registration, crash, start | |
| `NodeProofs` | theorems | `Node` |
| `Ledger` | `apply_block` on the tables blocks, utxos, mempool and transactions, and the queries of the last | |
| `Token` | `mermai_token_contract` | |
| `Governance` | `mermai_governance_engine`, wrapping counters and single-precision divisions included | |
| `Multisig` | `mermai_multisig_engine` and what happens to a transaction between its signers | |
| `LightClient` | both Merkle trees, proofs, headers | |
| `PubSub` | `mermai_pubsub_engine` | |
| `Wire` | serialize and deserialize, and damage in between | |
| `Signing` | sign and verify of transactions, votes and blocks | |
| `RpcServer` | the accepting thread, the workers, start and stop | |
| `VM` | `mermai_vm::execute`, one action per group of opcodes | |
| `Merlite` | `merlite_compiler` and the assembler | `VM` |
| `Contracts` | the RPC calls that deploy, call and estimate | `Merlite` |
| `Network` | sessions between nodes: connecting, greeting, discovery, synchronisation, broadcast | |
| `DataProofs` | theorems | `Contracts`, `Wire`, `LightClient`, `Governance`, `SumTheorems` |
| `ComponentsProofs` | theorems | `Multisig`, `Signing`, `Token`, `Ledger`, `Network`, `PubSub`, `SumTheorems` |
| `FoldTheorems` | what a fold over the subsets of a set, and a recursive function on numbers, computes, for any operator | |
| `SumTheorems` | facts about sums over finite sets, remainders, least numbers and folds over sequences | instantiates `FoldTheorems` |
| `MCComponents` | `Ledger` and the eight modules after it, one at a time | these modules |
| other `MC*` | values of the constants for TLC | the module they name |

Definitions whose comment begins with "Faulty variant" are not part of the model:
they are small mistakes a programmer could make in the definition that
follows. Each property was checked to fail when one of them replaces it.

### How the modules correspond to the code

*Mempool.* `add_transaction` either finds room (`AddWithRoom`), or evicts the first
transaction of least fee in id order (`AddByEviction`), or returns false, which is
no step. `Acceptable` holds the early returns in front of the eviction. Two
transactions may carry one id, since the sender chooses the field.

*VoteCollector.* `LookUp` is everything up to the lock (signature, registered key,
stake); `CountVote` is what happens under it. Sums and products are taken modulo
`Modulus`, as `uint64_t` does. Registry changes and a restart may come in between.

*Node.* Each thread has a program counter `pc[t]` and a block `blk[t]`:

| action | code |
|---|---|
| `Propose` | one turn of `consensus_loop` up to the candidate block |
| `Receive` | a BLOCK message is decoded |
| `Check` | `can_add_block` with the side effects of `validate_proposal`: the proposal is remembered, an equivocator loses half its stake |
| `Begin` | `BEGIN IMMEDIATE`, which fails when another thread's transaction is open on the shared connection |
| `Commit` | the rest of `apply_block`: write and COMMIT, or ROLLBACK |
| `Recheck`, `Push` | the second `can_add_block` inside `add_block`, then `push_back` |
| `Finalize` | `finalize_block`, in the loop only |
| `Register`, `SaveValidator` | the RPC call's two steps: registry, then database |
| `Crash`, `Initialize` | loss of memory and of the open transaction; `initialize()`, which refuses a validator below `min_stake` (`Restored`) and a chain that does not replay |

The variable `view` is what the one connection sees, `disk` what survives.

*Ledger.* `ApplyTx` is the body of the loop in `apply_block`; `ApplyBlock` the whole
call, one step because it is one SQLite transaction. `can_add_block` refuses
transactions without inputs, so a running node does not mint; the database
class accepts them and its tests use them, and so do the blocks of the run. The index of
transactions is replaced row by row under an id that the sender chooses. `apply_block` does
not look at the height, and its callers compare it with the chain in memory without a lock:
`Add` therefore takes any height up to the next one of the table, and a height may be applied
again (two threads, as in `node_race`). Its row is then replaced. The history variable
`applied` has all blocks in the order they were applied, the replaced ones included.

*VM.* The variables are the fields of `mermai_vm` with the bytecode, the caller and a
`status` for the ways `execute` returns or throws. `Fetch` is the head of the loop (end
of code, `check_gas(1)`), and each action is a `case` group: operands popped, the word
functions `Add`, `Sub`, `Mul` byte by byte as in the code, the price charged after the
work. Instructions without a price stay without one. A divisor whose low eight bytes
are zero while others are not divides by zero in the code: `DivideUndefined`.
Words have `WordBytes` bytes of base `ByteBase`, of which DIV reads `LowBytes`.

*Merlite.* A source line is a record of what the tokenizer makes of it. Only the first
function is compiled: its closing brace is not consumed and ends the outer loop. A
`;` starts a comment, so statements end with the line. A number that `std::stoull` refuses ends
the compilation with an error. *Contracts* deploys source text
or bytecode and starts the machine with empty storage, since nothing writes or reads the
table `contract_storage`: what a call stores, the next call does not find, although
`README.md:41` speaks of persistent storage.

*Network.* A session has an endpoint on each side with a socket, a reading thread and an
inbox; `peers` is the vector of a node. `Discover` and `SyncBlocks` are the two calls of
`network_sync_loop`, `ReceiveIn` and `ReceiveOut` the bodies of the two reading threads,
which treat a message without payload differently. `EndOfStream` is the read after the
other side has closed: `receive_message` then returns a message whose type was never
set, and both continuations are possible. Writing twice to a closed connection may end
the process (`send` without `MSG_NOSIGNAL`), wherever in the list of peers that happens.
The only bootstrap address is the bootstrap node's own, so it connects to itself.
Every node produces (`Produce`): `validate_proposal` accepts a block only from the proposer that
the receiver's own registry draws, so nodes that exchange blocks hold the same registry, and
each of them makes the blocks of whoever is drawn, on its own tip. Validators are without keys
here, since a loop never signs.

*Token, Governance, PubSub.* One action per method; a call that is refused changes
nothing and is no step. Sums of the token wrap at `TokenModulus`, those of stakes at
`GovModulus`. A float is a natural number of units of 2^-`GovExponent` (149 in the code): the
least weight of the last bit at which the mantissa has room is found, and the ratio rounded to
it, ties to even. `GovMantissa` bits stand for the 24 of the code, so that small stakes show
what large ones do. `FloatQuotient` rounds three times, as the two casts and the division do.
`sub_mutex` makes each operation of pub/sub one step. `BurnNothing` is `burn` for the empty
address, which may call it and has nothing.

*Multisig.* `SignPayload` is a holder signing the transaction as it is, `AddSignature` enters
any signature made so far under any key, `EditBase` changes the transaction, `ResendTx`
and `ReloadAccount` pass it and its account through their text forms, which lose
signatures and signers.

*LightClient.* A digest is the tuple of what was hashed, "raw" for bytes and "text" for
hexadecimal. `Publish` makes a block of the node (root of `mermai_db.cpp`, signature over
the serialization) or one whose root the tree class computed, as the tests do; either may be
unsigned, as blocks of validators without a key are. `Ancestor` is
the index that `generate_proof` halves on its way up, `Climb` one turn of `verify_proof`.

*Wire.* An integer is one unit, a string its length and its units. A reader holds what is left
behind its offset, the values read so far and whether it has thrown; `ReadFields` reads a
sequence of kinds of fields, `ReadList` a counted list under a limit. `WithinLimits` lists every
limit the decoders know and the encoders do not.

*Signing.* Keys are part of what transactions and blocks sign, signatures are not. `Checked`
stands for the refusals of `mermai_transaction::verify` that come before the signatures.

*RpcServer.* `CheckRunning`, `CallAccept`, `AcceptReturns` and `AcceptFails` are the accepting
thread, `Recv` and `Respond` the worker of a connection, `stop_server` and `Joined` the two
halves of stopping. Closing a socket does not wake a thread that is blocked in accept on it.
`handle_request` runs contract calls, so the sender of a request decides what becomes of its
worker (`Outcome`): it returns, it never does (a loop of instructions without a price), or it
ends the process (a division that traps). `ProcessEnds` is that end, and the one by SIGPIPE
when the client left after its request and before the answer.

### Abstractions

- Time is counted in slots of `block_interval_seconds`. The weight of a
  validator and the pseudo-random draw are parameters (`Weight`, `Draw`). The
  proofs assume nothing of them; for TLC the draw depends on the slot, the
  weights and their order, as the hash in the code does.
- The hash of a block is injective: its content appended to its parent's hash.
- Signatures are a field `signed`; the content of transactions is a field `txs`
  that says which of the checks they fail.
- A peer sends blocks on the newest block or beside it. Those for older tips
  are refused by the same first comparison and change nothing.
- Threads interleave between the steps above. Unlocked accesses to `std::vector`
  and `std::map` inside a step are data races whose further outcomes (torn reads,
  a reallocation under a reader) are not modelled.
- The loop reads the height and the tip one after the other (`mermai_main.cpp:196,198`), which
  is one step of `Propose`. A block added in between gives a candidate whose height is that of
  its parent: the first comparison of `can_add_block` refuses it, and the turn ends without a
  trace.
- In `Network` a block is the sequence of slots that leads to it (proposer, stake and age
  follow from the slot where registries are the same, and the loop puts nothing else into a
  block), `Bad` one that validation refuses (`Node` has the validation); foreign peers repeat,
  reorder and invent blocks, acceptable ones too. Traversing the unlocked list of peers is one
  step.
- Bytecode, source lines and words in `Contracts` come from a fixed set of programs that
  contains every opcode, every statement and every failure.
- `last_proposal` and `pending_nonces` are never read and are left out.

## 3. Runs

`network` and `components` take about two minutes, `votes` one and a half, the others less than
one.

| run | module, configuration | result |
|---|---|---|
| `mempool` | `MCMempool` | pass |
| `votes` | `MCVoteCollector`, `MCVotes` | pass |
| `node_solo` | `MCNode`, `MCNodeSolo` | pass |
| `node_peers` | `MCNode`, `MCNodePeers` | pass |
| `node_race` | `MCNode`, `MCNodeRace` | `RestartRecovers` violated |
| `node_honest_slashed` | `MCNode`, `MCNodeHonestSlashed` | `OnlyEquivocatorsSlashed` violated |
| `contracts` | `MCContracts` | pass |
| `merlite_stored` | `MCContracts`, `MCMerliteStored` | `AssignmentsStored` violated |
| `network` | `MCNetwork` | pass |
| `network_sync` | `MCNetwork`, `MCNetworkSync` | `CatchesUp` violated |
| `components` | `MCComponents` | pass |
| `light_client` | `MCLightClient` | `PaymentsVerifiable` violated |

**mempool.** A pool of three and twelve transactions with equal fees, shared
outputs, one id used twice and one transaction without inputs: enough for every
order of conflict, eviction and removal. `PendingExact`: the index is the
union of the pooled inputs. `NoConflict`: no output is spent twice. `EvictionPays`: an
eviction trades one cheapest transaction for a better paying one.
`ImplementsClaims`: the pool implements `OutputClaims`. `BestPayingFirst`,
`MedianSplits`: what the queries return, in every reachable pool.

**votes.** Stakes 4, 3 and 2, so that two of three validators hold exactly two thirds and
the boundary of the comparison is met; two threads and two blocks. With registrations,
removals, slashes, penalties and a restart between the two steps of `add_vote`,
`CreditExact` (each voter counted once, under its own key, and the total is the sum of the
credits) and `EarnedFinality` (two thirds of the stake active at that moment) hold. Until
the set changes, the collector implements `Finality` (`ImplementsFinality`; a restart goes
back to where `Finality` starts), and two final blocks have a third of the stake voting
for both (`AccountableSafety`). The modulus leaves room for three times the total stake;
with a smaller one (registration has no upper limit) `EarnedFinality` fails, since
`voted_stake * 3` wraps.

**node_solo.** The loop with three validators, five slots, three heights and two
crashes at any step, so a block can be stored, lost from memory, recovered and
built upon twice. `MemoryFollowsDisk`, `RestartRecovers`, `RewardsBacked`,
`StoredForever`, and `StoredIsServed` under fairness: a block that was committed
is eventually served from memory.

**node_peers.** The loop races with one peer thread, one registration and one crash
on two heights of one slot; the peer sends every combination of signed, unsigned, malformed
and unspendable blocks, repeatedly. `TxnExclusive`, `DurableBeforeVisible` and
`OnlySignedBlocks` are also proved, for any number of threads and slots.

**contracts.** Words of three digits to base 32, so that carries, borrows and products
cross digits and DIV reads fewer digits than it tests, and gas limits that end loops in
the middle. `ArithmeticExact` compares the byte loops with arithmetic modulo the word
size; `GasBounded`: the limit is exceeded by less than the price of one instruction;
`ChargedRunsHalt`: a program in which every loop has a price ends; `CompiledRuns`: the
code compiled for assignments runs to its end. `MaxStack` is 12 words: the free loop that
duplicates faster than it jumps meets it, and no compiled source is longer.

**network.** Two nodes, the second one a block behind, which both produce in one slot; two
sessions and a foreign peer with two actions: enough for a fork and for agreement, for the
bootstrap node's session with itself beside another one, a full list of peers, a batch over
its limit, a batch with a refused block, and a process that dies while it broadcasts.
`ForksLast`: chains only grow, and two nodes agree on a height both have exactly if they agreed
on it when the later of the two got there, whatever arrives. So no message can split nodes that
agree, and none can bring nodes together that have forked; the run reaches both.
`HandshakesEnd` under fairness: greetings do not answer each other for ever.
**network_sync** leaves foreign peers, production and SIGPIPE out, so that only the protocol is
to blame. `MIN_PEERS` is 2 for the 8 of `mermai_main.cpp:235`, so that a node connects again.
Its counterexample does not meet a bound: a session is unused, sockets are idle, both loops run.

**components.** The classes that share no state and do not call each other, in one run: the
component that moves is chosen at the start and the others rest. They are separate runs in
all but name, each with its own constants.

| component | instance | properties |
|---|---|---|
| ledger | three blocks applied, each for a new height or one that is taken: mints, a payment with change, a double spend, a payment by a stranger, chained payments, blocks that fail at their second transaction, an id used again | `Conservation`, `TablesAreReplay` (unspent outputs are the replay of all applied blocks, replaced ones included; a row is the last block of its height), `HistoryExact` (the index agrees with the applied blocks and the unspent outputs), `PoolDrainsIntoBlocks` |
| token | two holders, with and without an owner, three calls, counters that wrap at 8 | `BooksAgree` (balances are the replay of the log and add up to the supply), `OnlyWithConsent` |
| governance | three voters, stakes and totals that four bits cannot hold, sums that wrap at 128, votes and tallies before, in and after the end block | `DecisionJustified` |
| multisig | a list of two signers and one with a repeated key, a stranger, thresholds 0 to 2, two entries | `ThresholdMet` |
| light client | trees of 0, 1, 2, 3 and 5 leaves, so that the last node lacks a partner at different levels; blocks and headers with and without signatures, repeated and out of order | `InclusionExact` |
| pub/sub | two subscriptions, two topics, three events | `InOrderOnce` |
| wire | items below, at and above every limit; every truncation, every unit replaced, one appended | `CodecExact` |
| signing | documents of each kind, contents that pass the other checks and one that does not, two inputs, two keys, four steps | `SignedVerifies` |
| RPC | three clients, a backlog of two, two descriptors, stop and start at any time, requests that return, never end or kill the process, clients that leave before or after theirs | `RequestsAnswered`: a request whose handler returns is answered while its client waits, unless its connection is reset (a stop, the end of the process) or the accepting thread has given up |

**light_client** has blocks of the node only.

`CHECK_DEADLOCK FALSE` is set where the model ends: in `Node` its clock and its heights
are bounded, in `Network` what peers do and how many blocks there are; processes may die.
In `MCComponents` and `MCLightClient` calls, blocks and clients are used up.

**Fairness.** Weak fairness of each thread's next step, of `Finalize` and of
`Initialize`: a thread that can run is scheduled by the operating system, no step of
the pipeline waits for a lock another thread could keep, and a node that is down is
started again by its operator. For contracts, the thread that executes a call goes on.
In `Network` the sync loops and the threads with something to accept or to read go on,
and a sender that waits for room gets its turn: this last, strong fairness keeps the
bound on inboxes, which stands for the socket buffer, from being the reason why a node
does not ask. In `RpcServer` the accepting thread, the workers and the join go on when they
can; a thread in accept or recv can only when there is something to return, and a worker whose
request never ends cannot. Nothing is assumed of peers, clients, the clock, or of how often a
type that was never set is read as HELLO.

### What the violated properties show

- `node_race`: the loop and a peer thread pass `can_add_block` for one height; the
  second `INSERT OR REPLACE` overwrites the block that memory keeps, later blocks do not
  link to it, and the node does not start again.
- `node_honest_slashed`: the loop validates an unsigned candidate for whoever is
  drawn, and `validate_proposal` remembers it before it looks at the signature. The one
  block the validator really signed then counts as a double proposal.
- `merlite_stored`: for `x = 5` the compiler pushes the slot and then the value, and SSTORE
  pops the key first. The slot's number is stored under the value.
- `network_sync`: GET_BLOCKS is sent with an empty payload, and both reading threads take
  that for the end of the connection. The request is never answered and the session ends. The
  dead peer stays in the list; as long as fewer than eight are listed the node connects again,
  and its next request ends the new session the same way. After that it does not even
  reconnect. `README.md:187`
  promises "Cross-node block propagation"; only broadcasts of new blocks get through, and
  only to nodes that are not behind.
- `light_client`: a validator signs the serialization of its block, and
  `mermai_block_header::verify_signature` expects a signature over the text of five fields:
  the header of every signed block is refused, as in the trace. An unsigned one is accepted, but
  the root in the block hashes the hexadecimal text of two children
  (`mermai_db.cpp:719`) and a proof hashes their bytes (`mermai_merkle.cpp:37`), so proofs
  for blocks of two or more transactions fail. Both classes are named
  `mermai::mermai_merkle_tree`. `InclusionExact` shows that the tree class agrees with itself.

Further consequences of the same models, without a run of their own:

- The threshold is compared only when a new vote is counted: a slash or a removal that
  makes the counted votes two thirds of the active stake does not finalize the block,
  contrary to the comment at `mermai_consensus.hpp:93`.
- `save_validator` joins the transaction another thread has open; the ROLLBACK of
  that block takes the registration with it after the RPC call answered true.
- At start the stored chain is validated against the validators of today. A validator
  that registered after a block changes the draw for the block's slot, and the node
  refuses its own chain.
- A validator that was slashed below the minimum between its registration and `save_validator`
  is stored as it is, and the node refuses to start.
- When two threads apply one height, the unspent outputs are those of both blocks, while only
  the second can be read from the table.
- Two nodes with the same registry that produce in different slots, or that miss a broadcast,
  fork for good: a peer's chain must contain the local one to be taken. A longer chain wins only
  where there is no database (`mermai_network.cpp:453`), which a node always has.
- Finality is kept in memory only and a restart forgets it (`mermai_main.cpp:95`).
- A second signed block that arrives after the first was added fails the height
  comparison and is not punished.
- The production loop puts no transactions into its blocks: what clients send stays in the
  mempool table until a block of a peer contains it.
- Governance: an exact majority that rounds to one half is rejected; 26 of 66 (39.4 %) can
  meet the quorum of 40 % in the model's precision; a total stake of 0 skips the quorum;
  a tally in the end block precludes votes that the end block still allows.
- Multisig: a wrong entry under a signer's key keeps the right one out; a resent
  transaction has no signatures, a reloaded account no signers, and a base transaction that
  contains the byte of `#` cannot be resent.
- The light client compares heights only, not `prev_block_hash`.
- Signing the inputs of a transaction one after the other, without setting their keys
  first, leaves only the last signature valid.
- A transaction of more than 64 KB is decoded alone, but the block that contains it is not.
- A transaction id that is used again takes the place of the older one in the index.
- RPC: a client that leaves after its request, before the answer, can kill the process
  (`send` without `MSG_NOSIGNAL`, `mermai_rpc.cpp:204`), and so can a contract call that divides
  by zero in the low bytes; one that loops without a price keeps its worker and descriptor;
  a client that leaves without a request leaks a descriptor; one failure of accept
  ends the accepting loop for good; `stop_server` waits in join until another client
  connects, since close does not wake accept; `mrm_getBalance` reads a table that blocks
  never write.

## 4. Proofs

| theorem | states | inductive invariant and argument |
|---|---|---|
| `PoolTypeOK`, `PoolPendingExact`, `PoolNoConflict` | the pool's invariants | inductive together as `IInv`: exactness after a removal needs that inputs are disjoint, and disjointness after an addition needs exactness |
| `PoolWithinCapacity` | capacity | `CapInv` adds that the map is finite |
| `PoolEvictionPays` | action property | from the type invariant and `IsLowest` |
| `PoolImplementsClaims` | refinement of `OutputClaims` | each step maps to a claim, a release or both |
| `PoolBestPayingFirst`, `PoolMedianSplits` | the answers of the queries | an injective sequence as long as a finite set is onto it; a sorted one exists (a minimal set without one has a highest fee to put at its end); what lies before or after the median is covered by a stretch of it |
| `FinalityExact`, `FinalityAccountable` | quorum finality | `FInv`; two quorums intersect in a third of the stake because stake is a measure |
| `StakeSums` | the stake that `VoteCollector` instantiates `Finality` with is a measure | `SumTheorems` |
| `CollectorCreditExact` | who was counted, once each and with which stake | `VInv` |
| `CollectorEarnedFinality`, `CollectorImplementsFinality`, `CollectorAccountable` | finality of the collector; its refinement of `Finality`, and what follows from it | `VInv`; under `NoOverflow` the sums modulo `Modulus` are the sums |
| `NodeTxnExclusive`, `NodeDurableBeforeVisible`, `NodeOnlySignedBlocks` | the pipeline, any number of threads, registrations and crashes | `NInv` |
| `NodeRewardsBacked` | rewards, likewise | `RInv`: what the loop still owes for a block in its hands counts with what it has credited |
| `SoloMemoryFollowsDisk`, `SoloRestartRecovers`, `SoloStoredForever` | the loop alone, any number of slots and crashes | `SInv`, under `Solo` |
| `ContractsGasBounded` | gas, for every program and every price | inductive with the type of the gas counter: `check_gas` precedes each instruction, and each charges once |
| `ContractsArithmeticExact` | the arithmetic opcodes, for bytes and words of any width and every program | `MachineInv`; an induction over the digits for each loop |
| `ContractsCompiledRuns` | compiled assignments, for every source without a require | `CourseInv` with `MachineInv`; an induction over the items of the source |
| `LightClientInclusionExact` | trees of any size, any headers in any order | `LcInv`; an induction over the levels of the tree in both directions |
| `WireCodecExact` | items, damage and limits of any size | `WireInv`; a decoder reads back what an encoder wrote, and only that, field by field and element by element |
| `GovernanceDecisionJustified` | any stakes, voters and proposals; every width of the counters and every float that covers it | `GovInv`; rounding is monotone, halves are exact, and each rounding is off by one part in 2^`GovMantissa` |
| `MultisigThresholdMet` | accounts of any size | `MsInv`: what was entered was signed by somebody |
| `SigningSignedVerifies` | any order of signing and changing | `SignInv`: a signature newer than the last change covers the document as it is |
| `TokenBooksAgree`, `TokenOnlyWithConsent` | any holders and amounts | `TokenInv` adds that balances together are at most what was issued: wrapped sums only make them less |
| `LedgerConservation`, `LedgerTablesAreReplay`, `LedgerHistoryExact`, `LedgerPoolDrains` | any number of blocks, heights applied more than once included | `LedgerInv` |
| `NetworkTypeOK`, `NetworkForksLast` | any nodes, all producing, any initial chains, sessions, losses and foreign peers | `NetInv` |
| `PubSubInOrderOnce` | any subscribers and topics | `PsInv` |

The inductive invariants, and why the properties alone are not enough:

- `NInv`: a block reaches the chain from a thread that committed it or, after a crash, from
  the database. It adds that a thread past `can_add_block` holds a vetted block, that a thread
  past COMMIT holds a stored one, that all stored blocks are vetted, and that the tables
  as the connection sees them and as they survive hold stored blocks only, at finitely
  many heights.
- `SInv`: recovery depends on every stored block passing again all checks of
  `replace_chain_if_longer`, against the registry and the proposals seen. It says that the
  table has no gaps and replays, that what the first `can_add_block` accepted the second
  accepts too, and that no proposal of the loop ever counts as a second one.
- `VInv`: that a vote was looked up with a positive stake and under the voter's own key is
  known only of the calls under way. It keeps this for them, bounds every stake by the one
  a validator started with, and says what an unchanged registry (`changes = 0`) is.
- `LedgerInv`: the index is replaced row by row, so `HistoryExact` needs to know of each row
  that it is the last use of its id among the applied blocks, and of each unspent output which
  applied transaction made it; neither can be told from the table of blocks, whose rows are
  replaced. Conservation over a block that fails half-way needs the value of the table at
  every transaction, which is what the lemmas about `ApplyTx` carry.
- `NetInv`: a message that is still under way may be applied long after it was sent, to
  any chain. The invariant says of sessions and readers that only nodes of this program apply
  messages, each to its own chain, and of everything in an inbox that it is a message; the
  rest is that `Applied` returns a chain which begins with the one it was given, a batch cut at
  its first refused block included, and that chains which only grow keep what they share and
  what they do not.
- `PsInv`: events of a subscription are split between what polls took and what is
  pending; together they are increasing and exactly what is due since it began.

- `MachineInv`: the stack and the storage hold words, code and memory hold bytes, so that the
  loops are applied to digits. Up to each digit, what was carried out of it and the digits
  of the result make up the digits of the two operands (with the borrow for SUB); a number
  below `Power[LowBytes]` survives `Low` and `WordOf`, by dividing once per digit; and the
  first byte in which two words differ decides about the numbers.
- `CourseInv`: a certificate of a piece of code says for each place how many words an
  instruction that starts there finds at least, or that the place is the operand of another one. Each
  assignment has one, pieces with one can be put together, and so the parser keeps code that has
  one. A run is then always at a place where an instruction starts, with the words it needs,
  and with at most as many words as it has passed bytes. The attempt showed that `Parse`
  had two overlapping cases after the end of the compilation, of which TLC takes the
  first one and TLA+ any; they are now one after the other, as in the code.
- `LcInv`: a client that holds a header knows its root only. The invariant ties every header
  to the published block of its height. The rest is about trees: the levels end with one node;
  climbing from a leaf along its own proof meets its ancestors; and two climbs that meet in one
  root started, level by level, from the same pair of nodes, because digests of different
  things differ and a leaf is never a digest of two.
- `WireInv`: `decoded` is what the decoder makes of `data`, for items with the fields of the
  code. The lemmas are an encoder and a decoder for a field, a sequence of fields, a list of
  elements and a whole item, each with the two halves of `CodecExact`: what was written is
  read back unless a limit is exceeded, and whatever was read is what was written before the
  rest. The attempt showed that an earlier `WithinLimits` forgot the limits of the strings in
  votes and in the heads of blocks, which the items of the run did not reach.
- `GovInv`: of each proposal with its own votes, that the counters are the sums modulo their
  width, that who voted is in the set of voters, and that a decision met both comparisons when
  it was taken. What the comparisons say of the stakes is then a matter of floats: a
  majority is exact since twice a stake has at least twice its float and one half is a float; the
  quorum is off by the roundings of three conversions and of the quotient.

Sums, replays and sorted arrangements are the recursive part of the models. The provers
cannot use an induction theorem with an operator as parameter, so each induction is done with
a minimal counterexample: `FoldTheorems` takes the folded operator as a CONSTANT, is
instantiated for each fold, and derives the one-step equation from well-foundedness;
`SumTheorems` builds on it that a sum does not depend on the order CHOOSE takes. The sequences
of `ComponentsProofs` are handled with the least natural number of a set (`LeastNat`). The
carries, borrows and digit sums of `VM` are functions defined by recursion inside an operator;
`Iteration` builds a solution of such an equation, which the definition therefore is.

Assumptions: the named `ASSUME`s of the modules, which TLC evaluates in the runs. They are
types of parameters: widths, prices and limits are natural numbers, sets of validators,
holders and initial outputs are finite, transactions have the fields that deserialization
gives them, the genesis part of a chain is a sequence, an absent key or signature is not one
that somebody holds. Those of `Governance` say what a float must cover: ratios of two counters
are normal (2^23 * 2^64 <= 2^149 in the code), and the literal `0.40f` is not below two fifths
(it is 0.4000000059...). `LightClient` assumes that no transaction hash is the hash of nothing;
SHA-256 is injective in the model itself. `Merlite` assumes that the interpreter knows every
opcode that the compiler emits, and `Contracts` that programs are bytes, callers words and
sources lines of items, and that the memory holds a stack of one word per byte of compiled code. Two hypotheses of theorems say more. `NoOverflow`
(`3 * SumFunction(InitialStake) < Modulus`) is needed: registration has no upper limit, and
beyond it `voted_stake * 3` wraps (section 3, votes). `Solo` (`Peers = {}` and no
registrations) is needed too: `node_race` is the counterexample with one peer. The theorems
about `Finality` have the hypothesis `StakeIsMeasure`, which `StakeSums` discharges.

Only model-checked:

- liveness under fairness: `StoredIsServed`, `HandshakesEnd`, `RequestsAnswered`,
  `ChargedRunsHalt`. Every other property of a passing run is also a theorem.

## 5. Not modelled, and the plan

Encryption and key derivation (`mermai_biometric.cpp` and the OpenSSL wrappers), the
health scores of `mermai_self_aware.cpp`, JSON and text formats, the explorer, the SDKs and
the scripts keep no state that the protocol reads. `stop()` only ends the loops; a crash at
any point covers more.

Operations that nothing in the node calls, and whose effect is one assignment or one row,
are left out: `claim_rewards`, the tables accounts, contract storage, state roots and
key-value, the reputation, rate and subnet counters (`mermai_network.cpp:534-577`).
`distribute_fees` is called for blocks without transactions only. Requests longer than the
4095 bytes of one `recv` are cut, which is a matter of the format.

What would come next: `Ledger` inside `Node`, so that a block's transactions and its place in the
chain are checked together.
