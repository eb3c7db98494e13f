---------------------------- MODULE MCComponents ----------------------------
(***************************************************************************)
(* The classes of this program that keep their state to themselves, one at *)
(* a time: the stored ledger, the token, governance, multisig accounts, the*)
(* light client, the subscriptions, the binary form, signatures, and the   *)
(* connections of the RPC server.  They share no state and make no calls   *)
(* to each other, so which of them moves is chosen at the start, and the   *)
(* others rest in an initial state of theirs.                              *)
(***************************************************************************)
EXTENDS Ledger, Token, Governance, Multisig, MCLightClient, PubSub, Wire, Signing, RpcServer

VARIABLE component

componentVars == <<ledgerVars, tokenVars, govVars, msVars, lcVars, psVars, wireVars, signVars, rpcVars>>

-----------------------------------------------------------------------------
(* Ledger: two minting blocks and one that mints more than a column holds, *)
(* a payment with change, a double spend, a payment by somebody else, a    *)
(* chain of two payments in one block, a block that fails at its second    *)
(* transaction, a payment that does not balance, and an id that is used    *)
(* again; each for three heights, in any order the callers let through.    *)
Out(a, n) == [address |-> a, amount |-> n]
In(t, n, a) == [tx |-> t, idx |-> n, by |-> a]
Tx(i, ins, outs, f) == [id |-> i, inputs |-> ins, outputs |-> outs, fee |-> f]
Blk(h, ts) == [height |-> h, txs |-> ts]

Mint == Tx("mint", {}, <<Out("alice", 4), Out("bob", 2)>>, 0)
Mint2 == Tx("mint2", {}, <<Out("bob", 3)>>, 0)
MintTooMuch == Tx("mint3", {}, <<Out("bob", 5)>>, 0)
Pay == Tx("pay", {In("mint", 1, "alice")}, <<Out("bob", 2), Out("alice", 1)>>, 1)
PayTwice == Tx("pay2", {In("mint", 1, "alice")}, <<Out("carol", 4)>>, 0)
Steal == Tx("steal", {In("mint", 2, "alice")}, <<Out("alice", 2)>>, 0)
Join == Tx("join", {In("mint", 2, "bob"), In("pay", 1, "bob")}, <<Out("carol", 4)>>, 0)
Inflate == Tx("inflate", {In("mint", 2, "bob")}, <<Out("bob", 3)>>, 0)
Zero == Tx("zero", {In("mint", 2, "bob")}, <<Out("bob", 2), Out("carol", 0)>>, 0)

Reuse == Tx("mint", {In("pay", 1, "bob")}, <<Out("carol", 2)>>, 0)

MCLedgerTxs == {Pay, PayTwice, Steal, Join, Inflate, Reuse}

MCLedgerBodies == {<<Mint>>, <<Mint2>>, <<MintTooMuch>>, <<Pay>>, <<PayTwice>>, <<Join>>, <<Reuse>>, <<Pay, Join>>, <<Pay, PayTwice>>,
             <<Mint2, Steal>>, <<Inflate>>, <<Zero>>, <<Mint, Pay>>, <<Mint, Pay, Reuse>>, <<>>}

MCLedgerBlocks == {Blk(h, body) : h \in 1..3, body \in MCLedgerBodies}
(* Multisig: two signers, and one who is listed twice.                     *)
MCSignerLists == {<<"k1", "k2">>, <<"k1", "k1">>}

(* Wire: transactions and votes below, at and above their limits, and      *)
(* blocks that hold transactions.                                          *)
MCInput(signature) ==
  [prev_tx_hash |-> <<3>>, prev_output_idx |-> 1, signature |-> signature, public_key |-> <<2>>]

MCWireTx(inputs, amount) ==
  [kind |-> "tx", id |-> <<7>>, fee |-> 0, timestamp |-> 1, inputs |-> inputs,
   outputs |-> <<[address |-> <<4, 5>>, amount |-> amount]>>]

MCWireBlock(txs) ==
  [kind |-> "block", version |-> 1, height |-> 2, prev_block_hash |-> <<8>>, merkle_root |-> <<>>,
   timestamp |-> 0, nonce |-> 0, validator_address |-> <<6>>, validator_stake |-> 3,
   validator_age |-> 4, validator_public_key |-> <<9>>, validator_signature |-> <<1, 1>>,
   transactions |-> txs]

MCWireVote(signature) ==
  [kind |-> "vote", validator_address |-> <<6>>, block_hash |-> <<8>>, block_height |-> 2,
   timestamp |-> 1, validator_public_key |-> <<9>>, signature |-> signature]

MCVote == MCWireVote(<<1>>)

MCSmall == MCWireTx(<<MCInput(<<1>>)>>, 2)
MCUnsigned == MCWireTx(<<MCInput(<<>>)>>, 0)
MCLarge == MCWireTx(<<MCInput(<<1>>), MCInput(<<2>>)>>, 2)
MCThreeInputs == MCWireTx(<<MCInput(<<1>>), MCInput(<<2>>), MCInput(<<2>>)>>, 2)
MCLongBytes == MCWireTx(<<MCInput(<<1, 2, 3, 4>>)>>, 2)

MCItems == {MCSmall, MCUnsigned, MCLarge, MCThreeInputs, MCLongBytes, MCVote,
            MCWireVote(<<1, 2, 3, 4>>), MCWireBlock(<<>>),
            MCWireBlock(<<MCSmall, MCUnsigned>>), MCWireBlock(<<MCSmall, MCLarge>>),
            MCWireBlock(<<MCSmall, MCSmall, MCSmall>>)}

-----------------------------------------------------------------------------
(* A component that rests has one initial state.                           *)
Rests(name) == component # name

ComponentsInit ==
  /\ component \in {"ledger", "token", "governance", "multisig", "light_client", "pubsub",
                    "wire", "signing", "rpc"}
  /\ LedgerInit
  /\ TokenInit /\ (Rests("token") => owner_ = NoAddress)
  /\ GovInit
  /\ MsInit /\ (Rests("multisig") => /\ account = create_account(1, <<"k1", "k2">>)
                                     /\ mtx.base_tx = "t")
  /\ LcInit
  /\ PsInit
  /\ WireInit /\ (Rests("wire") => item = MCVote)
  /\ SignInit /\ (Rests("signing") => doc.kind = "vote" /\ doc.content = "c")
  /\ RpcInit

ComponentsNext ==
  /\ UNCHANGED component
  /\ \/ /\ component = "ledger" /\ LedgerNext
        /\ UNCHANGED <<tokenVars, govVars, msVars, lcVars, psVars, wireVars, signVars, rpcVars>>
     \/ /\ component = "token" /\ TokenNext
        /\ UNCHANGED <<ledgerVars, govVars, msVars, lcVars, psVars, wireVars, signVars, rpcVars>>
     \/ /\ component = "governance" /\ GovNext
        /\ UNCHANGED <<ledgerVars, tokenVars, msVars, lcVars, psVars, wireVars, signVars, rpcVars>>
     \/ /\ component = "multisig" /\ MsNext
        /\ UNCHANGED <<ledgerVars, tokenVars, govVars, lcVars, psVars, wireVars, signVars, rpcVars>>
     \/ /\ component = "light_client" /\ LcNext
        /\ UNCHANGED <<ledgerVars, tokenVars, govVars, msVars, psVars, wireVars, signVars, rpcVars>>
     \/ /\ component = "pubsub" /\ PsNext
        /\ UNCHANGED <<ledgerVars, tokenVars, govVars, msVars, lcVars, wireVars, signVars, rpcVars>>
     \/ /\ component = "wire" /\ WireNext
        /\ UNCHANGED <<ledgerVars, tokenVars, govVars, msVars, lcVars, psVars, signVars, rpcVars>>
     \/ /\ component = "signing" /\ SignNext
        /\ UNCHANGED <<ledgerVars, tokenVars, govVars, msVars, lcVars, psVars, wireVars, rpcVars>>
     \/ /\ component = "rpc" /\ RpcNext
        /\ UNCHANGED <<ledgerVars, tokenVars, govVars, msVars, lcVars, psVars, wireVars, signVars>>

ComponentsSpec ==
  /\ ComponentsInit
  /\ [][ComponentsNext]_<<component, componentVars>>
  /\ RpcFairness
=============================================================================
