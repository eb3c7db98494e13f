----------------------------- MODULE LightClient ----------------------------
(***************************************************************************)
(* Merkle trees (src/core/mermai_merkle.cpp), the root that a block carries*)
(* (calculate_tree_hash in src/db/mermai_db.cpp) and the header-only client*)
(* (src/core/mermai_light_client.cpp).                                     *)
(*                                                                         *)
(* SHA-256 is taken to be injective: a digest is the tuple of what was     *)
(* hashed.  The two pair hashes differ in what they feed to it: the bytes  *)
(* of the two children ("raw"), or their hexadecimal text ("text").        *)
(*                                                                         *)
(* Headers reach the client in any order and more than once.               *)
(***************************************************************************)
EXTENDS Integers, SequencesExt

CONSTANTS TxNames,      \* what a leaf is the hash of
          LcBodies,     \* sequences of transaction hashes
          Publishers,   \* subset of {"node", "tree"}
          MaxPublished  \* bound on the number of blocks

Leaves == {<<name>> : name \in TxNames}

(* The leaf of a tree without transactions is the hash of nothing.         *)
ASSUME LcConstants ==
  /\ "empty" \notin TxNames
  /\ LcBodies \subseteq Seq(Leaves)
  /\ Publishers \subseteq {"node", "tree"}
  /\ MaxPublished \in Nat

VARIABLES published,  \* the blocks that exist, in order of height
          headers,    \* the headers that the client has accepted
          offered     \* history: heights that the client was offered as its next

lcVars == <<published, headers, offered>>

LcInit == published = <<>> /\ headers = <<>> /\ offered = {}

-----------------------------------------------------------------------------
hash_pair(left, right) == <<"raw", left, right>>

hash_combine(left, right) == <<"text", left, right>>

Hash(form, left, right) ==
  IF form = "raw" THEN hash_pair(left, right) ELSE hash_combine(left, right)

(* The next level of a tree: a last node without a partner is paired with  *)
(* itself.                                                                 *)
Parents(level, form) ==
  [i \in 1..((Len(level) + 1) \div 2) |->
     Hash(form, level[2 * i - 1], level[IF 2 * i <= Len(level) THEN 2 * i ELSE 2 * i - 1])]

Level(leaves, form) ==
  LET at[k \in 0..Len(leaves)] == IF k = 0 THEN leaves ELSE Parents(at[k - 1], form)
  IN  at

(* levels.back() is the first level with one node.                         *)
build(leaves) ==
  IF leaves = <<>> THEN << << <<"empty">> >> >>
  ELSE LET level == Level(leaves, "raw")
           depth == CHOOSE k \in DOMAIN level :
                      Len(level[k]) = 1 /\ \A j \in 0..(k - 1) : Len(level[j]) > 1
       IN  [k \in 1..(depth + 1) |-> level[k - 1]]

get_root(levels) == Last(levels)[1]

calculate_tree_hash(leaves) ==
  IF leaves = <<>> THEN <<"zeros">>
  ELSE LET level == Level(leaves, "text")
       IN  level[CHOOSE k \in DOMAIN level : Len(level[k]) = 1][1]

(* The index of a leaf's ancestor, after that many levels                  *)
Ancestor(leaf_index) ==
  LET at[k \in Nat] == IF k = 0 THEN leaf_index ELSE at[k - 1] \div 2
  IN  at

\* Faulty variant: a last node without a partner contributes no step.
ProofWithoutPartners(levels, leaf_index) ==
  LET index(lvl) == Ancestor(leaf_index)[lvl - 1]
      sibling(lvl) == IF index(lvl) % 2 = 1 THEN index(lvl) - 1 ELSE index(lvl) + 1
      step(lvl) == [hash |-> levels[lvl][sibling(lvl) + 1], is_right |-> index(lvl) % 2 = 0]
      paired == SelectSeq([lvl \in 1..(Len(levels) - 1) |-> lvl],
                          LAMBDA lvl : sibling(lvl) < Len(levels[lvl]))
  IN  [n \in 1..Len(paired) |-> step(paired[n])]

(* The steps of the proof for a leaf (from 0): its sibling at every level  *)
(* below the root, or the node itself where it has none.                   *)
generate_proof(levels, leaf_index) ==
  LET index(lvl) == Ancestor(leaf_index)[lvl - 1]
      sibling(lvl) == IF index(lvl) % 2 = 1 THEN index(lvl) - 1 ELSE index(lvl) + 1
  IN  [lvl \in 1..(Len(levels) - 1) |->
         [hash |-> levels[lvl][1 + IF sibling(lvl) < Len(levels[lvl]) THEN sibling(lvl)
                                   ELSE index(lvl)],
          is_right |-> index(lvl) % 2 = 0]]

Climb(hash, step) ==
  IF step.is_right THEN hash_pair(hash, step.hash) ELSE hash_pair(step.hash, hash)

verify_proof(root, leaf, proof) == root = FoldLeft(Climb, leaf, proof)

-----------------------------------------------------------------------------
(* What the two kinds of signature cover: the producer of a block signs its*)
(* serialization with the transactions, a header is checked against the    *)
(* text of its own fields.  A header without a key or a signature passes.  *)
BlockPayload(h, body) == <<"block", h.height, h.prev_block_hash, h.merkle_root, body>>

HeaderPayload(h) == <<"header", h.height, h.prev_block_hash, h.merkle_root>>

verify_signature(h) == h.validator_signature \in {<<>>, HeaderPayload(h)}

(* A block of the node (the root that can_add_block demands) or of a       *)
(* publisher that uses the tree class, as the tests do; signed, unless the *)
(* validator was registered without a key.  The hash of a block is named by*)
(* its height.                                                             *)
Publish(publisher, signed, body) ==
  /\ Len(published) < MaxPublished
  /\ LET h == [height |-> Len(published) + 1,
               prev_block_hash |-> Len(published),
               merkle_root |-> IF publisher = "tree" THEN get_root(build(body))
                               ELSE IF body = <<>> THEN <<>> ELSE calculate_tree_hash(body),
               validator_signature |-> <<>>]
     IN  published' = Append(published,
           [by |-> publisher, body |-> body,
            header |-> [h EXCEPT !.validator_signature =
                          CASE ~signed -> <<>>
                            [] signed /\ publisher = "node" -> BlockPayload(h, body)
                            [] signed /\ publisher = "tree" -> HeaderPayload(h)]])
  /\ UNCHANGED <<headers, offered>>

Follows(h) == headers # <<>> => h.height = Last(headers).height + 1

(* sync_header and sync_header_from_block: only the height is compared with*)
(* the tip, prev_block_hash is not.                                        *)
SyncHeader(n) ==
  LET h == published[n].header IN
  /\ Follows(h)
  /\ offered' = offered \cup {n}
  /\ headers' = IF verify_signature(h) THEN Append(headers, h) ELSE headers
  /\ UNCHANGED published

(* A header that was passed on without its signature.                      *)
SyncBareHeader(n) ==
  LET h == [published[n].header EXCEPT !.validator_signature = <<>>] IN
  /\ Follows(h)
  /\ headers' = Append(headers, h)
  /\ UNCHANGED <<published, offered>>

LcNext ==
  \/ \E p \in Publishers, signed \in BOOLEAN, body \in LcBodies : Publish(p, signed, body)
  \/ \E n \in 1..Len(published) : SyncHeader(n)
  \/ \E n \in 1..Len(published) : SyncBareHeader(n)

LcSpec == LcInit /\ [][LcNext]_lcVars

(* headers_by_height                                                       *)
get_header(height) == {h \in ToSet(headers) : h.height = height}

verify_transaction_inclusion(height, tx_hash, proof) ==
  \E h \in get_header(height) : verify_proof(h.merkle_root, tx_hash, proof)

-----------------------------------------------------------------------------
(* For a root that the tree class built, the proof of every leaf convinces *)
(* a client that holds the header, and no proof made for any published     *)
(* block convinces it of a transaction that the block does not contain.    *)
InclusionExact ==
  \A h \in ToSet(headers) :
    LET block == published[h.height] IN
    block.by = "tree" =>
      /\ \A i \in DOMAIN block.body :
           verify_transaction_inclusion(h.height, block.body[i],
                                        generate_proof(build(block.body), i - 1))
      /\ \A other \in ToSet(published) : \A i \in DOMAIN other.body :
           \A tx \in Leaves \ ToSet(block.body) :
             ~verify_transaction_inclusion(h.height, tx, generate_proof(build(other.body), i - 1))

(* README.md:36 promises "RFC 6962 compliant tree computation and inclusion*)
(* proofs for trustless light-client verification", README.md:60 "Header-  *)
(* only synchronization and cryptographic payment verification": a client  *)
(* that is offered the blocks of the node in order can verify every        *)
(* payment in them.                                                        *)
PaymentsVerifiable ==
  \A n \in offered :
    published[n].by = "node" =>
      \A i \in DOMAIN published[n].body :
        verify_transaction_inclusion(n, published[n].body[i],
                                     generate_proof(build(published[n].body), i - 1))
=============================================================================
