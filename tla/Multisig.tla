------------------------------ MODULE Multisig ------------------------------
(***************************************************************************)
(* M-of-N accounts, src/core/mermai_multisig.cpp.  One account and one     *)
(* transaction that circulates between its signers: entries are collected, *)
(* the transaction may be changed after some were made, and it may pass    *)
(* through its text form.                                                  *)
(*                                                                         *)
(* A signature is the key that made it with the payload it covers; an      *)
(* address is the pair that is hashed into it.                             *)
(***************************************************************************)
EXTENDS Integers, FiniteSets, SequencesExt

CONSTANTS Keys,           \* public keys that parse
          SignerLists,    \* sequences over Keys, repetitions included
          Thresholds,
          BaseTxs,        \* serializations of the base transaction
          HashSignTxs,    \* those that contain the byte of '#'
          MaxEntries      \* bound on the entries collected

ASSUME MultisigConstants ==
  /\ SignerLists \subseteq Seq(Keys)
  /\ Thresholds \subseteq Nat
  /\ HashSignTxs \subseteq BaseTxs
  /\ MaxEntries \in Nat

VARIABLES account, mtx,
          signed      \* history: every signature that a holder of a key has made

msVars == <<account, mtx, signed>>

calculate_multisig_address(threshold, public_keys) == <<threshold, public_keys>>

(* Neither repeated keys nor a threshold of 0 or above the number of keys  *)
(* are refused.                                                            *)
create_account(threshold, public_keys) ==
  [threshold |-> threshold, signers |-> public_keys,
   address |-> calculate_multisig_address(threshold, public_keys)]

MsInit ==
  /\ \E t \in Thresholds, s \in SignerLists : account = create_account(t, s)
  /\ \E b \in BaseTxs : mtx = [base_tx |-> b, multisig_address |-> account.address,
                               signatures |-> <<>>]
  /\ signed = {}

signing_payload(tx) == <<tx.base_tx, tx.multisig_address>>

Signature(key, payload) == [by |-> key, over |-> payload]

(* The holder of a key signs what the transaction says now.                *)
SignPayload(key) ==
  /\ signed' = signed \cup {Signature(key, signing_payload(mtx))}
  /\ UNCHANGED <<account, mtx>>

(* Any signature can be entered under any key, but only one under each: the*)
(* entry is not verified here, and a wrong one is never replaced.          *)
AddSignature(public_key, signature) ==
  /\ Len(mtx.signatures) < MaxEntries
  /\ \A n \in DOMAIN mtx.signatures : mtx.signatures[n].public_key # public_key
  /\ mtx' = [mtx EXCEPT !.signatures =
               Append(@, [public_key |-> public_key, signature |-> signature])]
  /\ UNCHANGED <<account, signed>>

(* The fields are public: the base transaction is changed in place.        *)
EditBase(b) ==
  /\ mtx' = [mtx EXCEPT !.base_tx = b]
  /\ UNCHANGED <<account, signed>>

(* serialize and deserialize of the transaction: the text has no           *)
(* signatures, and is split at the first '#', so that the rest of a base   *)
(* transaction with that byte does not parse and nothing is received.      *)
ResendTx ==
  /\ mtx.base_tx \notin HashSignTxs
  /\ mtx' = [mtx EXCEPT !.signatures = <<>>]
  /\ UNCHANGED <<account, signed>>

(* serialize and deserialize of the account: the signers are written but   *)
(* not read.                                                               *)
ReloadAccount ==
  /\ account' = [account EXCEPT !.signers = <<>>]
  /\ UNCHANGED <<mtx, signed>>

MsNext ==
  \/ \E k \in Keys : SignPayload(k)
  \/ \E k \in Keys, s \in signed : AddSignature(k, s)
  \/ \E b \in BaseTxs : EditBase(b)
  \/ ResendTx
  \/ ReloadAccount

MsSpec == MsInit /\ [][MsNext]_msVars

-----------------------------------------------------------------------------
Valid(entry) == entry.signature = Signature(entry.public_key, signing_payload(mtx))

\* Faulty variant: keys that are not among the signers count as well.
AnyKeyCounts ==
  {mtx.signatures[n].public_key : n \in {k \in DOMAIN mtx.signatures : Valid(mtx.signatures[k])}}

(* The keys that verify_multisig_tx counts: members with a valid entry,    *)
(* each once.                                                              *)
SeenSigners ==
  {mtx.signatures[n].public_key :
     n \in {k \in DOMAIN mtx.signatures :
              /\ mtx.signatures[k].public_key \in ToSet(account.signers)
              /\ Valid(mtx.signatures[k])}}

verify_multisig_tx ==
  /\ Len(mtx.signatures) >= account.threshold
  /\ Cardinality(SeenSigners) >= account.threshold

(* A transaction is accepted only when as many different signers of the    *)
(* account as the threshold asks for have signed the transaction as it is  *)
(* now, whatever was signed, entered or changed before.                    *)
ThresholdMet ==
  verify_multisig_tx =>
    Cardinality({k \in ToSet(account.signers) :
                   Signature(k, signing_payload(mtx)) \in signed}) >= account.threshold
=============================================================================
