-------------------------------- MODULE Wire --------------------------------
(***************************************************************************)
(* The binary form of transactions, votes and blocks in                    *)
(* src/core/mermai_blockchain.cpp, between a writer and a reader.          *)
(*                                                                         *)
(* The wire is a sequence of units: an integer of fixed width is one unit, *)
(* a string or a byte array its length followed by one unit per element.   *)
(* Data that ends inside an integer is data that ends before it.           *)
(***************************************************************************)
EXTENDS Integers, SequencesExt

CONSTANTS Items,          \* what is sent: records with a field kind
          Units,          \* units that damage puts on the wire
          MAX_SERIALIZED_STRING, MAX_SERIALIZED_BYTES, MAX_TRANSACTION_INPUTS,
          MAX_TRANSACTION_OUTPUTS, MAX_BLOCK_TRANSACTIONS

Bytes == Seq(Nat)

TxInput ==
  [prev_tx_hash : Bytes, prev_output_idx : Nat, signature : Bytes, public_key : Bytes]

TxOutput == [address : Bytes, amount : Nat]

Transaction ==
  [kind : {"tx"}, id : Bytes, fee : Nat, timestamp : Nat,
   inputs : Seq(TxInput), outputs : Seq(TxOutput)]

Vote ==
  [kind : {"vote"}, validator_address : Bytes, block_hash : Bytes, block_height : Nat,
   timestamp : Nat, validator_public_key : Bytes, signature : Bytes]

Block ==
  [kind : {"block"}, version : Nat, height : Nat, prev_block_hash : Bytes, merkle_root : Bytes,
   timestamp : Nat, nonce : Nat, validator_address : Bytes, validator_stake : Nat,
   validator_age : Nat, validator_public_key : Bytes, validator_signature : Bytes,
   transactions : Seq(Transaction)]

ASSUME WireConstants ==
  /\ \A i \in Items : i \in Transaction \/ i \in Vote \/ i \in Block
  /\ Units \subseteq Nat
  /\ {MAX_SERIALIZED_STRING, MAX_SERIALIZED_BYTES, MAX_TRANSACTION_INPUTS,
      MAX_TRANSACTION_OUTPUTS, MAX_BLOCK_TRANSACTIONS} \subseteq Nat

VARIABLES item,     \* what the writer has
          data,     \* what is on the wire
          decoded   \* what the reader has made of it: <<>> when it threw

wireVars == <<item, data, decoded>>

-----------------------------------------------------------------------------
(* What a sequence of writes leaves in the output                          *)
Written(parts) == FoldLeft(LAMBDA output, part : output \o part, <<>>, parts)

(* write_string and write_bytes                                            *)
WriteString(s) == <<Len(s)>> \o s

(* The elements of a list, each as it is written, after their number       *)
WriteList(elements) == <<Len(elements)>> \o Written(elements)

WriteInput(i) ==
  Written(<<WriteString(i.prev_tx_hash), <<i.prev_output_idx>>, WriteString(i.signature),
            WriteString(i.public_key)>>)

WriteOutput(o) == Written(<<WriteString(o.address), <<o.amount>>>>)

SerializeTx(tx) ==
  Written(<<WriteString(tx.id), <<tx.fee>>, <<tx.timestamp>>,
            WriteList([n \in 1..Len(tx.inputs) |-> WriteInput(tx.inputs[n])]),
            WriteList([n \in 1..Len(tx.outputs) |-> WriteOutput(tx.outputs[n])])>>)

SerializeVote(v) ==
  Written(<<WriteString(v.validator_address), WriteString(v.block_hash), <<v.block_height>>,
            <<v.timestamp>>, WriteString(v.validator_public_key), WriteString(v.signature)>>)

SerializeBlock(b) ==
  Written(<<<<b.version>>, <<b.height>>, WriteString(b.prev_block_hash),
            WriteString(b.merkle_root), <<b.timestamp>>, <<b.nonce>>,
            WriteString(b.validator_address), <<b.validator_stake>>, <<b.validator_age>>,
            WriteString(b.validator_public_key), WriteString(b.validator_signature),
            WriteList([n \in 1..Len(b.transactions) |->
                         WriteString(SerializeTx(b.transactions[n]))])>>)

Serialize(i) ==
  CASE i.kind = "tx" -> SerializeTx(i)
    [] i.kind = "vote" -> SerializeVote(i)
    [] i.kind = "block" -> SerializeBlock(i)

-----------------------------------------------------------------------------
(* A reader: the data behind its offset, the values read so far, and       *)
(* whether it has thrown.                                                  *)
Reader(left, got) == [left |-> left, got |-> got, ok |-> TRUE]

Thrown == [left |-> <<>>, got |-> <<>>, ok |-> FALSE]

Limit(kind) == IF kind = "bytes" THEN MAX_SERIALIZED_BYTES ELSE MAX_SERIALIZED_STRING

(* read_value, read_string and read_bytes, by the kind of the field        *)
Read(r, kind) ==
  LET word == Head(r.left)
      rest == Tail(r.left)
  IN  IF ~r.ok \/ r.left = <<>> THEN Thrown
      ELSE IF kind = "int" THEN Reader(rest, Append(r.got, word))
      ELSE IF word > Limit(kind) \/ word > Len(rest) THEN Thrown
      ELSE Reader(SubSeq(rest, word + 1, Len(rest)), Append(r.got, SubSeq(rest, 1, word)))

ReadFields(r, kinds) == FoldLeft(Read, r, kinds)

(* An element of a list is the sequence of its fields.                     *)
ReadElement(r, kinds) ==
  LET fields == ReadFields(Reader(r.left, <<>>), kinds)
  IN  IF r.ok /\ fields.ok THEN Reader(fields.left, Append(r.got, fields.got)) ELSE Thrown

ReadElements(r, kinds, count) == FoldLeft(ReadElement, r, [n \in 1..count |-> kinds])

(* A list after the number of its elements                                 *)
ReadList(r, limit, kinds) ==
  LET counted == Read(r, "int")
      list == ReadElements(Reader(counted.left, <<>>), kinds, Last(counted.got))
  IN  IF ~counted.ok THEN Thrown
      ELSE IF Last(counted.got) > limit THEN Thrown
      ELSE IF list.ok THEN Reader(list.left, Append(r.got, list.got))
      ELSE Thrown

InputOf(f) == [prev_tx_hash |-> f[1], prev_output_idx |-> f[2], signature |-> f[3],
               public_key |-> f[4]]

OutputOf(f) == [address |-> f[1], amount |-> f[2]]

ReadTx(input) ==
  LET top == ReadFields(Reader(input, <<>>), <<"string", "int", "int">>)
      ins == ReadList(top, MAX_TRANSACTION_INPUTS, <<"string", "int", "bytes", "bytes">>)
  IN  ReadList(ins, MAX_TRANSACTION_OUTPUTS, <<"string", "int">>)

TxOf(f) ==
  [kind |-> "tx", id |-> f[1], fee |-> f[2], timestamp |-> f[3],
   inputs |-> [n \in 1..Len(f[4]) |-> InputOf(f[4][n])],
   outputs |-> [n \in 1..Len(f[5]) |-> OutputOf(f[5][n])]]

\* Faulty variant: data after the end of a transaction is not noticed.
TxWithTrailingData(input) ==
  LET r == ReadTx(input)
  IN  IF r.ok THEN <<TxOf(r.got)>> ELSE <<>>

(* The deserialize functions: a sequence of one value, or none             *)
DeserializeTx(input) ==
  LET r == ReadTx(input)
  IN  IF r.ok /\ r.left = <<>> THEN <<TxOf(r.got)>> ELSE <<>>

VoteOf(f) ==
  [kind |-> "vote", validator_address |-> f[1], block_hash |-> f[2], block_height |-> f[3],
   timestamp |-> f[4], validator_public_key |-> f[5], signature |-> f[6]]

(* A vote is not checked for data after its end.                           *)
DeserializeVote(input) ==
  LET r == ReadFields(Reader(input, <<>>), <<"string", "string", "int", "int", "bytes", "bytes">>)
  IN  IF r.ok THEN <<VoteOf(r.got)>> ELSE <<>>

ReadBlock(input) ==
  LET top == ReadFields(Reader(input, <<>>),
                        <<"int", "int", "string", "string", "int", "int", "string", "int", "int",
                          "bytes", "bytes">>)
  IN  ReadList(top, MAX_BLOCK_TRANSACTIONS, <<"string">>)

BlockOf(f, txs) ==
  [kind |-> "block", version |-> f[1], height |-> f[2], prev_block_hash |-> f[3],
   merkle_root |-> f[4], timestamp |-> f[5], nonce |-> f[6], validator_address |-> f[7],
   validator_stake |-> f[8], validator_age |-> f[9], validator_public_key |-> f[10],
   validator_signature |-> f[11], transactions |-> txs]

DeserializeBlock(input) ==
  LET r == ReadBlock(input)
      txs == [n \in 1..Len(r.got[12]) |-> DeserializeTx(r.got[12][n][1])]
  IN  IF r.ok /\ r.left = <<>> /\ \A n \in DOMAIN txs : txs[n] # <<>>
      THEN <<BlockOf(r.got, [n \in DOMAIN txs |-> txs[n][1]])>>
      ELSE <<>>

Deserialize(kind, input) ==
  CASE kind = "tx" -> DeserializeTx(input)
    [] kind = "vote" -> DeserializeVote(input)
    [] kind = "block" -> DeserializeBlock(input)

-----------------------------------------------------------------------------
WireInit ==
  /\ item \in Items
  /\ data = Serialize(item)
  /\ decoded = Deserialize(item.kind, data)

Arrive(bytes) ==
  /\ data' = bytes
  /\ decoded' = Deserialize(item.kind, bytes)
  /\ UNCHANGED item

(* What arrives is cut short, followed by something else, or different in  *)
(* one place.                                                              *)
CutShort ==
  \E n \in 0..(Len(data) - 1) : data = Serialize(item) /\ Arrive(SubSeq(data, 1, n))

Extended ==
  \E unit \in Units : data = Serialize(item) /\ Arrive(Append(data, unit))

Garbled ==
  \E n \in DOMAIN data, unit \in Units :
    data = Serialize(item) /\ Arrive([data EXCEPT ![n] = unit])

WireNext == CutShort \/ Extended \/ Garbled

WireSpec == WireInit /\ [][WireNext]_wireVars

-----------------------------------------------------------------------------
TxWithinLimits(tx) ==
  /\ Len(tx.id) <= MAX_SERIALIZED_STRING
  /\ Len(tx.inputs) <= MAX_TRANSACTION_INPUTS
  /\ Len(tx.outputs) <= MAX_TRANSACTION_OUTPUTS
  /\ \A n \in DOMAIN tx.inputs :
       /\ Len(tx.inputs[n].prev_tx_hash) <= MAX_SERIALIZED_STRING
       /\ Len(tx.inputs[n].signature) <= MAX_SERIALIZED_BYTES
       /\ Len(tx.inputs[n].public_key) <= MAX_SERIALIZED_BYTES
  /\ \A n \in DOMAIN tx.outputs : Len(tx.outputs[n].address) <= MAX_SERIALIZED_STRING

VoteWithinLimits(v) ==
  /\ Len(v.validator_address) <= MAX_SERIALIZED_STRING
  /\ Len(v.block_hash) <= MAX_SERIALIZED_STRING
  /\ Len(v.validator_public_key) <= MAX_SERIALIZED_BYTES
  /\ Len(v.signature) <= MAX_SERIALIZED_BYTES

BlockWithinLimits(b) ==
  /\ Len(b.prev_block_hash) <= MAX_SERIALIZED_STRING
  /\ Len(b.merkle_root) <= MAX_SERIALIZED_STRING
  /\ Len(b.validator_address) <= MAX_SERIALIZED_STRING
  /\ Len(b.validator_public_key) <= MAX_SERIALIZED_BYTES
  /\ Len(b.validator_signature) <= MAX_SERIALIZED_BYTES
  /\ Len(b.transactions) <= MAX_BLOCK_TRANSACTIONS
  /\ \A n \in DOMAIN b.transactions :
       /\ TxWithinLimits(b.transactions[n])
       /\ Len(SerializeTx(b.transactions[n])) <= MAX_SERIALIZED_STRING

WithinLimits(i) ==
  CASE i.kind = "tx" -> TxWithinLimits(i)
    [] i.kind = "vote" -> VoteWithinLimits(i)
    [] i.kind = "block" -> BlockWithinLimits(i)

(* What arrives intact is decoded to what was sent, unless it exceeds a    *)
(* limit; a block does so too when one of its transactions is longer than  *)
(* a string may be, although that transaction is decoded on its own.  And  *)
(* whatever arrives, intact or not, what is decoded from it has no other   *)
(* encoding: hashes and signatures are computed from the encoding of what  *)
(* was decoded.  Only a vote may have something after its end.             *)
CodecExact ==
  /\ data = Serialize(item) => decoded = IF WithinLimits(item) THEN <<item>> ELSE <<>>
  /\ decoded # <<>> =>
       LET again == Serialize(decoded[1])
       IN  again = data \/ (item.kind = "vote" /\ IsPrefix(again, data))
=============================================================================
