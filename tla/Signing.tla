------------------------------- MODULE Signing ------------------------------
(***************************************************************************)
(* sign and verify of transactions, blocks and votes in                    *)
(* src/core/mermai_blockchain.cpp.  A transaction has one slot for a public*)
(* key and a signature per input, a block and a vote have one.             *)
(*                                                                         *)
(* A signature is the key that made it with the payload it covers, and two *)
(* payloads are equal when what they are serialized from is.               *)
(***************************************************************************)
EXTENDS Integers, Sequences

CONSTANTS Signers,     \* key pairs
          NoKey,       \* an empty public_key
          NoSignature, \* an empty signature
          Contents,    \* everything that is serialized but keys and signatures
          Sensible,    \* those that pass the other checks of a transaction's verify
          MaxSteps     \* bound on the steps

ASSUME SigningConstants ==
  /\ NoKey \notin Signers
  /\ MaxSteps \in Nat /\ Sensible \subseteq Contents
  /\ \A key \in Signers, c \in Contents :
       /\ NoSignature # [by |-> key, over |-> <<c>>]
       /\ \A n \in {1, 2} : \A keys \in [1..n -> Signers \cup {NoKey}] :
            NoSignature # [by |-> key, over |-> <<c, keys>>]

VARIABLES doc,
          steps,      \* how many steps were taken
          changed,    \* history: the step of the last change to what a signature covers
          lastSigned  \* history: slot -> by whom and at which step it was last signed

signVars == <<doc, steps, changed, lastSigned>>

SignInit ==
  /\ \E kind \in {"tx", "block", "vote"}, c \in Contents, n \in {1, 2} :
       /\ kind # "tx" => n = 1
       /\ doc = [kind |-> kind, content |-> c, public_key |-> [i \in 1..n |-> NoKey],
                 signature |-> [i \in 1..n |-> NoSignature]]
  /\ steps = 0
  /\ changed = 0
  /\ lastSigned = [i \in DOMAIN doc.signature |-> [by |-> NoKey, at |-> 0]]

\* Faulty variant: the signatures of the other inputs are part of what is signed.
PayloadWithSignatures(d) == <<d.content, d.public_key, d.signature>>

(* unsigned_transaction_payload and mermai_block::signing_payload leave the*)
(* signatures out and keep the keys; a vote's signing_payload has no key.  *)
Payload(d) ==
  IF d.kind = "vote" THEN <<d.content>> ELSE <<d.content, d.public_key>>

Signed(key, d) == [by |-> key, over |-> Payload(d)]

Tick ==
  /\ steps < MaxSteps
  /\ steps' = steps + 1

(* sign: an empty key is filled in first, and so becomes part of what is   *)
(* signed; a key that is there is kept, whoever signs.                     *)
Sign(i, key) ==
  LET filled == IF doc.public_key[i] = NoKey THEN [doc EXCEPT !.public_key[i] = key] ELSE doc
      cleared == [filled EXCEPT !.signature[i] = NoSignature]
  IN  /\ Tick
      /\ doc' = [cleared EXCEPT !.signature[i] = Signed(key, cleared)]
      /\ changed' = IF filled # doc THEN steps' ELSE changed
      /\ lastSigned' = [lastSigned EXCEPT ![i] = [by |-> key, at |-> steps']]

(* The caller sets a public key, or changes another field.                 *)
SetKey(i, key) ==
  /\ Tick
  /\ doc.public_key[i] # key
  /\ doc' = [doc EXCEPT !.public_key[i] = key]
  /\ changed' = IF doc.kind = "vote" THEN changed ELSE steps'
  /\ UNCHANGED lastSigned

Change(c) ==
  /\ Tick
  /\ doc.content # c
  /\ doc' = [doc EXCEPT !.content = c]
  /\ changed' = steps'
  /\ UNCHANGED lastSigned

SignNext ==
  \/ \E i \in DOMAIN doc.signature, key \in Signers : Sign(i, key) \/ SetKey(i, key)
  \/ \E c \in Contents : Change(c)

SignSpec == SignInit /\ [][SignNext]_signVars

(* What verify looks at before the signatures, in transactions only: an id,*)
(* inputs and outputs in the limits, no output spent twice, amounts above 0*)
(* whose sum fits, a time that is not ahead.                               *)
Checked(d) == d.kind = "tx" => d.content \in Sensible

(* verify, verify_validator_signature, verify_signature                    *)
Verifies(d) ==
  /\ Checked(d)
  /\ \A i \in DOMAIN d.signature :
       /\ d.public_key[i] # NoKey
       /\ d.signature[i] # NoSignature
       /\ d.signature[i] = Signed(d.public_key[i], d)

-----------------------------------------------------------------------------
(* A document that is checked verifies whenever every slot was last signed *)
(* by the holder of its key, at or after the last change of what the       *)
(* signatures cover; and what verifies was signed by the holders of all its*)
(* keys.  Filling in a key is such a change: signing the inputs of a       *)
(* transaction one after the other, without setting their keys first,      *)
(* leaves only the last signature valid.                                   *)
SignedVerifies ==
  /\ /\ Checked(doc)
     /\ \A i \in DOMAIN lastSigned : /\ lastSigned[i].by # NoKey
                                     /\ lastSigned[i].by = doc.public_key[i]
                                     /\ lastSigned[i].at >= changed
     => Verifies(doc)
  /\ Verifies(doc) => \A i \in DOMAIN lastSigned : lastSigned[i].by = doc.public_key[i]
=============================================================================
