--------------------------- MODULE ComponentsProofs -------------------------
(***************************************************************************)
(* The classes that keep their state to themselves, proved one by one for  *)
(* every value of their constants: multisig accounts, signatures, the      *)
(* token, subscriptions, the stored ledger and the sessions between nodes. *)
(***************************************************************************)
EXTENDS Multisig, Signing, Token, Ledger, Network, PubSub,
        SumTheorems, SequenceTheorems, TLAPS

-----------------------------------------------------------------------------
(* Multisig.  The signers are a sequence and the threshold is a number;    *)
(* what was entered has been signed by somebody.                           *)
MsInv ==
  /\ account.signers \in Seq(Keys)
  /\ account.threshold \in Nat
  /\ \A n \in DOMAIN mtx.signatures : mtx.signatures[n].signature \in signed

LEMMA MsInductive == MsSpec => []MsInv
<1>1. MsInit => MsInv
  <2> SUFFICES ASSUME MsInit PROVE MsInv
    OBVIOUS
  <2>1. PICK t \in Thresholds, s \in SignerLists : account = create_account(t, s)
    BY DEF MsInit
  <2>2. mtx.signatures = <<>>
    BY DEF MsInit
  <2> QED BY <2>1, <2>2, MultisigConstants DEF MsInv, create_account
<1>2. MsInv /\ [MsNext]_msVars => MsInv'
  <2> SUFFICES ASSUME MsInv, [MsNext]_msVars PROVE MsInv'
    OBVIOUS
  <2> USE DEF MsInv
  <2>1. CASE \E k \in Keys : SignPayload(k)
    BY <2>1 DEF SignPayload
  <2>2. ASSUME NEW k \in Keys, NEW s \in signed, AddSignature(k, s) PROVE MsInv'
    BY <2>2 DEF AddSignature
  <2>3. CASE \E b \in BaseTxs : EditBase(b)
    BY <2>3 DEF EditBase
  <2>4. CASE ResendTx
    BY <2>4 DEF ResendTx
  <2>5. CASE ReloadAccount
    BY <2>5 DEF ReloadAccount
  <2>6. CASE UNCHANGED msVars
    BY <2>6 DEF msVars
  <2> QED BY <2>1, <2>2, <2>3, <2>4, <2>5, <2>6 DEF MsNext
<1> QED BY <1>1, <1>2, PTL DEF MsSpec

(* A sequence has finitely many elements.                                  *)
LEMMA ToSetFinite == ASSUME NEW S, NEW seq \in Seq(S) PROVE IsFiniteSet(ToSet(seq))
<1>1. IsFiniteSet(1..Len(seq))
  BY FS_Interval
<1>2. seq \in Surjection(1..Len(seq), ToSet(seq))
  BY DEF Surjection, ToSet
<1> QED BY <1>1, <1>2, FS_Surjection

(* The keys that are counted belong to signers who signed what is there.   *)
LEMMA MsCounted == MsInv => ThresholdMet
<1> SUFFICES ASSUME MsInv, verify_multisig_tx
             PROVE  Cardinality({k \in ToSet(account.signers) :
                       Signature(k, signing_payload(mtx)) \in signed}) >= account.threshold
  BY DEF ThresholdMet
<1> DEFINE good == {k \in ToSet(account.signers) : Signature(k, signing_payload(mtx)) \in signed}
<1>1. SeenSigners \subseteq good
  <2> SUFFICES ASSUME NEW k \in SeenSigners PROVE k \in good
    OBVIOUS
  <2>1. PICK n \in DOMAIN mtx.signatures :
          /\ mtx.signatures[n].public_key = k
          /\ mtx.signatures[n].public_key \in ToSet(account.signers)
          /\ Valid(mtx.signatures[n])
    BY DEF SeenSigners
  <2>2. Signature(k, signing_payload(mtx)) \in signed
    BY <2>1 DEF Valid, MsInv
  <2> QED BY <2>1, <2>2
<1>2. IsFiniteSet(good)
  <2>1. IsFiniteSet(ToSet(account.signers))
    BY ToSetFinite DEF MsInv
  <2> QED BY <2>1, FS_Subset
<1>3. IsFiniteSet(SeenSigners) /\ Cardinality(SeenSigners) <= Cardinality(good)
  <2> HIDE DEF good
  <2> QED BY <1>1, <1>2, FS_Subset
<1>4. Cardinality(SeenSigners) >= account.threshold
  BY DEF verify_multisig_tx
<1>5. Cardinality(SeenSigners) \in Nat /\ Cardinality(good) \in Nat /\ account.threshold \in Nat
  BY <1>2, <1>3, FS_CardinalityType DEF MsInv
<1>6. Cardinality(good) >= account.threshold
  <2> HIDE DEF good
  <2> QED BY <1>3, <1>4, <1>5
<1> QED BY <1>6

(* No accepted transaction lacks the signatures its account asks for, for  *)
(* any list of signers, any threshold and any order of signing, entering,  *)
(* editing and resending (verify_multisig_tx).                             *)
THEOREM MultisigThresholdMet == MsSpec => []ThresholdMet
<1> QED BY MsInductive, MsCounted, PTL

-----------------------------------------------------------------------------
(* Signatures.  A slot that was signed after the last change holds the     *)
(* signature of what the document says now.                                *)
SignTypeOK ==
  /\ \E n \in {1, 2} : /\ doc.public_key \in [1..n -> Signers \cup {NoKey}]
                       /\ DOMAIN doc.signature = 1..n
                       /\ DOMAIN lastSigned = 1..n
  /\ doc = [kind |-> doc.kind, content |-> doc.content, public_key |-> doc.public_key,
            signature |-> doc.signature]
  /\ doc.content \in Contents
  /\ steps \in Nat /\ changed \in 0..steps
  /\ \A i \in DOMAIN lastSigned : /\ lastSigned[i].by \in Signers \cup {NoKey}
                                  /\ lastSigned[i].at \in 0..steps

SignInv ==
  /\ SignTypeOK
  /\ \A i \in DOMAIN lastSigned :
       /\ doc.signature[i] # NoSignature => doc.signature[i].by = lastSigned[i].by
       /\ lastSigned[i].by # NoKey /\ lastSigned[i].at >= changed =>
            doc.signature[i] = Signed(lastSigned[i].by, doc)

(* A step that signs nothing: the signatures it leaves are either older    *)
(* than the change it makes or still cover what the document says.         *)
LEMMA NoStaleSlot ==
  ASSUME SignInv, steps' = steps + 1, lastSigned' = lastSigned,
         doc'.signature = doc.signature, doc'.content \in Contents,
         NEW n \in {1, 2}, doc'.public_key \in [1..n -> Signers \cup {NoKey}],
         DOMAIN lastSigned = 1..n, DOMAIN doc.signature = 1..n,
         doc' = [kind |-> doc'.kind, content |-> doc'.content, public_key |-> doc'.public_key,
                 signature |-> doc'.signature],
         \/ changed' = steps + 1
         \/ changed' = changed /\ Payload(doc') = Payload(doc)
  PROVE  SignInv'
<1>1. SignTypeOK'
  <2>1. steps' \in Nat /\ changed' \in 0..steps'
    BY DEF SignInv, SignTypeOK
  <2>2. \A j \in DOMAIN lastSigned' : /\ lastSigned'[j].by \in Signers \cup {NoKey}
                                     /\ lastSigned'[j].at \in 0..steps'
    BY DEF SignInv, SignTypeOK
  <2> QED BY <2>1, <2>2 DEF SignTypeOK
<1>2. ASSUME NEW j \in DOMAIN lastSigned, changed' = steps + 1
      PROVE  ~(lastSigned[j].at >= changed')
  <2>1. steps \in Nat /\ lastSigned[j].at \in 0..steps
    BY DEF SignInv, SignTypeOK
  <2> QED BY <1>2, <2>1
<1>3. ASSUME NEW j \in DOMAIN lastSigned
      PROVE  /\ doc'.signature[j] # NoSignature => doc'.signature[j].by = lastSigned'[j].by
             /\ lastSigned'[j].by # NoKey /\ lastSigned'[j].at >= changed' =>
                  doc'.signature[j] = Signed(lastSigned'[j].by, doc')
  <2>1. CASE changed' = steps + 1
    BY <1>2, <2>1 DEF SignInv
  <2>2. CASE changed' = changed /\ Payload(doc') = Payload(doc)
    BY <2>2 DEF SignInv, Signed
  <2> QED BY <2>1, <2>2
<1> QED BY <1>1, <1>3 DEF SignInv

LEMMA SignInductive == SignSpec => []SignInv
<1>1. SignInit => SignInv
  <2> SUFFICES ASSUME SignInit PROVE SignInv
    OBVIOUS
  <2>1. PICK kind \in {"tx", "block", "vote"}, c \in Contents, n \in {1, 2} :
          doc = [kind |-> kind, content |-> c, public_key |-> [i \in 1..n |-> NoKey],
                 signature |-> [i \in 1..n |-> NoSignature]]
    BY DEF SignInit
  <2>2. lastSigned = [i \in 1..n |-> [by |-> NoKey, at |-> 0]] /\ steps = 0 /\ changed = 0
    BY <2>1 DEF SignInit
  <2> QED BY <2>1, <2>2 DEF SignInv, SignTypeOK
<1>2. SignInv /\ [SignNext]_signVars => SignInv'
  <2> SUFFICES ASSUME SignInv, [SignNext]_signVars PROVE SignInv'
    OBVIOUS
  <2>0. PICK n \in {1, 2} : /\ doc.public_key \in [1..n -> Signers \cup {NoKey}]
                            /\ DOMAIN doc.signature = 1..n
                            /\ DOMAIN lastSigned = 1..n
    BY DEF SignInv, SignTypeOK
  <2>1. ASSUME NEW i \in DOMAIN doc.signature, NEW key \in Signers, Sign(i, key) PROVE SignInv'
    <3> DEFINE filled == IF doc.public_key[i] = NoKey THEN [doc EXCEPT !.public_key[i] = key]
                         ELSE doc
    <3>1. /\ steps' = steps + 1
          /\ changed' = IF filled # doc THEN steps + 1 ELSE changed
          /\ lastSigned' = [lastSigned EXCEPT ![i] = [by |-> key, at |-> steps + 1]]
      BY <2>1 DEF Sign, Tick
    <3>2. /\ doc'.kind = doc.kind /\ doc'.content = doc.content
          /\ doc'.public_key = IF doc.public_key[i] = NoKey THEN [doc.public_key EXCEPT ![i] = key]
                               ELSE doc.public_key
          /\ doc'.signature = [doc.signature EXCEPT ![i] = Signed(key, doc')]
          /\ doc' = [kind |-> doc'.kind, content |-> doc'.content, public_key |-> doc'.public_key,
                     signature |-> doc'.signature]
      <4> DEFINE unsigned == [filled EXCEPT !.signature[i] = NoSignature]
                 done == [unsigned EXCEPT !.signature[i] = Signed(key, unsigned)]
      <4>1. doc' = done
        BY <2>1 DEF Sign
      <4>2. doc = [kind |-> doc.kind, content |-> doc.content, public_key |-> doc.public_key,
                   signature |-> doc.signature]
        BY DEF SignInv, SignTypeOK
      <4>3. filled = [kind |-> doc.kind, content |-> doc.content,
                      public_key |-> IF doc.public_key[i] = NoKey
                                     THEN [doc.public_key EXCEPT ![i] = key] ELSE doc.public_key,
                      signature |-> doc.signature]
        BY <4>2
      <4> HIDE DEF filled
      <4>4. unsigned = [kind |-> filled.kind, content |-> filled.content,
                       public_key |-> filled.public_key,
                       signature |-> [filled.signature EXCEPT ![i] = NoSignature]]
        BY <4>3
      <4> HIDE DEF unsigned
      <4>5. done = [kind |-> unsigned.kind, content |-> unsigned.content,
                    public_key |-> unsigned.public_key,
                    signature |-> [unsigned.signature EXCEPT ![i] = Signed(key, unsigned)]]
        BY <4>4
      <4> HIDE DEF done
      <4>6. Signed(key, doc') = Signed(key, unsigned)
        BY <4>1, <4>4, <4>5 DEF Signed, Payload
      <4>7. [unsigned.signature EXCEPT ![i] = Signed(key, doc')]
              = [doc.signature EXCEPT ![i] = Signed(key, doc')]
        BY <4>3, <4>4
      <4>8. /\ doc'.kind = doc.kind /\ doc'.content = doc.content
            /\ doc'.public_key = filled.public_key
            /\ doc'.signature = [unsigned.signature EXCEPT ![i] = Signed(key, doc')]
        BY <4>1, <4>3, <4>4, <4>5, <4>6
      <4> QED BY <4>1, <4>3, <4>5, <4>7, <4>8
    <3>3. SignTypeOK'
      <4>1. /\ doc'.public_key \in [1..n -> Signers \cup {NoKey}]
            /\ DOMAIN doc'.signature = 1..n /\ DOMAIN lastSigned' = 1..n
        BY <2>0, <3>1, <3>2
      <4>2. steps' \in Nat /\ changed' \in 0..steps'
        BY <3>1 DEF SignInv, SignTypeOK
      <4>3. \A j \in DOMAIN lastSigned' : /\ lastSigned'[j].by \in Signers \cup {NoKey}
                                         /\ lastSigned'[j].at \in 0..steps'
        BY <2>0, <3>1 DEF SignInv, SignTypeOK
      <4>4. doc'.content \in Contents
        BY <3>2 DEF SignInv, SignTypeOK
      <4> HIDE DEF filled
      <4> QED BY <3>2, <4>1, <4>2, <4>3, <4>4 DEF SignTypeOK
    <3> SUFFICES ASSUME NEW j \in 1..n
                 PROVE  /\ doc'.signature[j] # NoSignature =>
                              doc'.signature[j].by = lastSigned'[j].by
                        /\ lastSigned'[j].by # NoKey /\ lastSigned'[j].at >= changed' =>
                              doc'.signature[j] = Signed(lastSigned'[j].by, doc')
      BY <2>0, <3>1, <3>3 DEF SignInv
    <3>4. CASE j = i
      <4>1. doc'.signature[j] = Signed(key, doc') /\ lastSigned'[j].by = key
        BY <2>0, <3>1, <3>2, <3>4
      <4> QED BY <4>1 DEF Signed
    <3>5. CASE j # i
      <4>1. doc'.signature[j] = doc.signature[j] /\ lastSigned'[j] = lastSigned[j]
        BY <2>0, <3>1, <3>2, <3>5
      <4>2. CASE doc.public_key[i] = NoKey
        <5>1. filled # doc
          <6>1. [doc EXCEPT !.public_key[i] = key].public_key[i] = key
            BY <2>0 DEF SignInv, SignTypeOK
          <6>2. key # NoKey
            BY SigningConstants
          <6> QED BY <4>2, <6>1, <6>2
        <5>2. changed' = steps + 1 /\ lastSigned'[j].at \in 0..steps /\ steps \in Nat
          BY <2>0, <3>1, <4>1, <5>1 DEF SignInv, SignTypeOK
        <5>3. ~(lastSigned'[j].at >= changed')
          BY <5>2
        <5> QED BY <2>0, <4>1, <5>3 DEF SignInv
      <4>3. CASE doc.public_key[i] # NoKey
        <5>1. changed' = changed /\ Payload(doc') = Payload(doc)
          BY <3>1, <3>2, <4>3 DEF Payload
        <5> QED BY <2>0, <4>1, <5>1 DEF SignInv, Signed
      <4> QED BY <4>2, <4>3
    <3> QED BY <3>4, <3>5
  <2>2. ASSUME NEW i \in DOMAIN doc.signature, NEW key \in Signers, SetKey(i, key) PROVE SignInv'
    <3>1. /\ steps' = steps + 1 /\ lastSigned' = lastSigned
          /\ changed' = IF doc.kind = "vote" THEN changed ELSE steps + 1
      BY <2>2 DEF SetKey, Tick
    <3>2. /\ doc'.kind = doc.kind /\ doc'.content = doc.content /\ doc'.signature = doc.signature
          /\ doc'.public_key = [doc.public_key EXCEPT ![i] = key]
          /\ doc' = [kind |-> doc'.kind, content |-> doc'.content, public_key |-> doc'.public_key,
                     signature |-> doc'.signature]
      BY <2>2 DEF SetKey, SignInv, SignTypeOK
    <3>3. doc.kind = "vote" => Payload(doc') = Payload(doc)
      BY <3>2 DEF Payload
    <3>4. doc'.content \in Contents /\ doc'.public_key \in [1..n -> Signers \cup {NoKey}]
      BY <2>0, <3>2 DEF SignInv, SignTypeOK
    <3>5. changed' = steps + 1 \/ (changed' = changed /\ Payload(doc') = Payload(doc))
      BY <3>1, <3>3
    <3> QED BY <2>0, <3>1, <3>2, <3>4, <3>5, NoStaleSlot
  <2>3. ASSUME NEW c \in Contents, Change(c) PROVE SignInv'
    <3>1. /\ steps' = steps + 1 /\ lastSigned' = lastSigned /\ changed' = steps + 1
      BY <2>3 DEF Change, Tick
    <3>2. /\ doc'.content = c /\ doc'.signature = doc.signature
          /\ doc'.public_key = doc.public_key
          /\ doc' = [kind |-> doc'.kind, content |-> doc'.content, public_key |-> doc'.public_key,
                     signature |-> doc'.signature]
      BY <2>3 DEF Change, SignInv, SignTypeOK
    <3> QED BY <2>0, <2>3, <3>1, <3>2, NoStaleSlot
  <2>4. CASE UNCHANGED signVars
    BY <2>4 DEF signVars, SignInv, SignTypeOK, Signed, Payload
  <2> QED BY <2>1, <2>2, <2>3, <2>4 DEF SignNext
<1> QED BY <1>1, <1>2, PTL DEF SignSpec

LEMMA SignJudged == SignInv => SignedVerifies
<1> SUFFICES ASSUME SignInv PROVE SignedVerifies
  OBVIOUS
<1>0. PICK n \in {1, 2} : /\ doc.public_key \in [1..n -> Signers \cup {NoKey}]
                          /\ DOMAIN doc.signature = 1..n
                          /\ DOMAIN lastSigned = 1..n
  BY DEF SignInv, SignTypeOK
<1>1. ASSUME Checked(doc),
             \A i \in DOMAIN lastSigned : /\ lastSigned[i].by # NoKey
                                          /\ lastSigned[i].by = doc.public_key[i]
                                          /\ lastSigned[i].at >= changed
      PROVE  Verifies(doc)
  <2> SUFFICES ASSUME NEW i \in 1..n
               PROVE  /\ doc.public_key[i] # NoKey
                      /\ doc.signature[i] # NoSignature
                      /\ doc.signature[i] = Signed(doc.public_key[i], doc)
    BY <1>0, <1>1 DEF Verifies
  <2> DEFINE key == doc.public_key[i]
  <2>1. key # NoKey /\ key \in Signers /\ doc.signature[i] = Signed(key, doc)
    BY <1>0, <1>1 DEF SignInv
  <2>2. Signed(key, doc) # NoSignature
    <3>1. \/ Signed(key, doc) = [by |-> key, over |-> <<doc.content>>]
          \/ Signed(key, doc) = [by |-> key, over |-> <<doc.content, doc.public_key>>]
      BY DEF Signed, Payload
    <3>2. doc.content \in Contents
      BY DEF SignInv, SignTypeOK
    <3> HIDE DEF key
    <3> QED BY <1>0, <2>1, <3>1, <3>2, SigningConstants
  <2> QED BY <2>1, <2>2
<1>2. ASSUME Verifies(doc), NEW i \in DOMAIN lastSigned
      PROVE  lastSigned[i].by = doc.public_key[i]
  <2>1. doc.signature[i] # NoSignature /\ doc.signature[i] = Signed(doc.public_key[i], doc)
    BY <1>0, <1>2 DEF Verifies
  <2>2. doc.signature[i].by = doc.public_key[i]
    BY <2>1 DEF Signed
  <2>3. doc.signature[i].by = lastSigned[i].by
    BY <2>1 DEF SignInv
  <2> QED BY <2>2, <2>3
<1> QED BY <1>1, <1>2 DEF SignedVerifies

(* What was signed by the holders of all its keys since the last change    *)
(* verifies, and only what they have signed does, for transactions, blocks *)
(* and votes and any order of signing and changing.                        *)
THEOREM SigningSignedVerifies == SignSpec => []SignedVerifies
<1> QED BY SignInductive, SignJudged, PTL

-----------------------------------------------------------------------------
(* The token.  What the log tells, event by event.                         *)
Telling == INSTANCE FoldTheorems WITH Op <- LAMBDA e, f : Told(f, e), Pick <- Max

LEMMA ToldEmpty ==
  ASSUME NEW base PROVE FoldLeft(Told, base, <<>>) = base
<1>1. FoldLeft(Told, base, <<>>) = Telling!Fold(base, <<>>, DOMAIN <<>>)
  BY DEF FoldLeft, MapThenFoldSet, Telling!Fold, Telling!Fixpoint, Telling!Unfolded
<1>2. DOMAIN <<>> = {} /\ 1..0 = {}
  OBVIOUS
<1>3. Telling!Founded(1..0)
  BY LeftFounded DEF Telling!Founded
<1> QED BY <1>1, <1>2, <1>3, Telling!FoldEmpty

LEMMA ToldAppend ==
  ASSUME NEW base, NEW V, NEW log \in Seq(V), NEW e \in V
  PROVE  FoldLeft(Told, base, Append(log, e)) = Told(FoldLeft(Told, base, log), e)
<1>1. \A s : FoldLeft(Told, base, s) = Telling!Fold(base, s, DOMAIN s)
  BY DEF FoldLeft, MapThenFoldSet, Telling!Fold, Telling!Fixpoint, Telling!Unfolded
<1>2. \A n \in Nat : Telling!Founded(1..n) /\ Telling!Picks(1..n)
  BY LeftFounded DEF Telling!Founded, Telling!Picks
<1>3. \A n \in Nat : Max(1..(n + 1)) = n + 1
  BY MaxInterval
<1>4. Telling!Fold(base, Append(log, e), DOMAIN Append(log, e))
        = Told(Telling!Fold(base, log, DOMAIN log), e)
  BY <1>2, <1>3, Telling!FoldAppend
<1> QED BY <1>1, <1>4

LEMMA ModShift ==
  ASSUME NEW M \in Nat \ {0}, NEW a \in Int, NEW k \in Int
  PROVE  (a + M * k) % M = a % M
<1> DEFINE b == a + M * k
           p == a \div M
           q == b \div M
           r == a % M
           s == b % M
<1>1. b \in Int /\ M * k \in Int
  OBVIOUS
<1>2. a = M * p + r /\ r \in 0..M-1 /\ p \in Int /\ b = M * q + s /\ s \in 0..M-1 /\ q \in Int
  <2> HIDE DEF b
  <2> QED BY <1>1, DivMod
<1>3. M * (p + k) = M * p + M * k /\ p + k \in Int /\ M * p \in Int
  <2> HIDE DEF p
  <2> QED BY <1>2, Distribute
<1>4. M * (p + k) + r = M * q + s
  <2>1. b = a + M * k
    OBVIOUS
  <2> HIDE DEF b, p, q, r, s
  <2> QED BY <1>1, <1>2, <1>3, <2>1
<1> HIDE DEF b, p, q, r, s
<1>5. r = s
  BY <1>2, <1>3, <1>4, RemainderUnique
<1> QED BY <1>5 DEF r, s, b

Word == 0..(TokenModulus - 1)

Wraps(k) == TokenModulus * k

Somebody == Holders \cup {NoAddress}

EventTypes == {"Transfer", "Approval", "Mint", "Burn"}

TokenEvents == [type : EventTypes, from : Somebody, to : Somebody, value : Word]

(* What a gain does to a holder's balance and to the sum of all: a sum     *)
(* that does not fit is short by a multiple of the modulus.                *)
LEMMA GainedFacts ==
  ASSUME NEW f \in [Holders -> Word], NEW a \in Holders, NEW v \in Int
  PROVE  /\ Gained(f, a, v) = [f EXCEPT ![a] = (f[a] + v) % TokenModulus]
         /\ Gained(f, a, v) \in [Holders -> Word]
         /\ SumFunction(f) \in Int /\ SumFunction(Gained(f, a, v)) \in Int
         /\ \E k \in Int : SumFunction(Gained(f, a, v)) = SumFunction(f) + v + Wraps(k)
         /\ f[a] + v >= 0 => SumFunction(Gained(f, a, v)) <= SumFunction(f) + v
<1> DEFINE M == TokenModulus
           x == f[a] + v
           y == x % M
           g == [f EXCEPT ![a] = y]
<1>1. M \in Nat \ {0} /\ IsFiniteSet(Holders) /\ a # NoAddress
  BY TokenConstants
<1>2. f[a] \in Int /\ x \in Int /\ f[a] \in Word
  BY <1>1 DEF Word
<1>3. Gained(f, a, v) = g
  BY <1>1 DEF Gained
<1>4. x = M * (x \div M) + y /\ y \in 0..(M - 1) /\ x \div M \in Int
  <2> HIDE DEF x, M
  <2> QED BY <1>1, <1>2, DivMod
<1>5. g \in [Holders -> Word]
  <2> HIDE DEF y
  <2> QED BY <1>4 DEF Word
<1>6. f \in [Holders -> Int] /\ y \in Int
  <2>1. f \in [Holders -> Int]
    BY <1>1 DEF Word
  <2> HIDE DEF y, M
  <2> QED BY <1>1, <1>4, <2>1
<1>7. SumFunction(g) = SumFunction(f) - f[a] + y /\ SumFunction(f) \in Int
  <2> HIDE DEF y
  <2> QED BY <1>1, <1>6, SumUpdate
<1> DEFINE d == x \div M
           k == -d
<1>8. k \in Int /\ M * k = -(M * d) /\ M * d \in Int
  <2> HIDE DEF d
  <2>1. d \in Int
    BY <1>4 DEF d
  <2>2. 0 \in Int /\ M * 0 = 0
    BY <1>1
  <2>3. M * 0 - M * d = M * (0 - d)
    BY <1>1, <2>1, Distribute
  <2> HIDE DEF M
  <2> QED BY <1>1, <2>1, <2>2, <2>3
<1>9. SumFunction(g) \in Int /\ SumFunction(g) = SumFunction(f) + v + M * k
  <2>1. x = M * d + y /\ x = f[a] + v
    BY <1>4
  <2> HIDE DEF x, y, g, k, d, M
  <2> QED BY <1>2, <1>6, <1>7, <1>8, <2>1
<1>10. x >= 0 => y <= x
  <2>1. x >= 0 => x \div M >= 0 /\ M * (x \div M) >= 0
    <3> HIDE DEF x, M
    <3> QED BY <1>1, <1>2
  <2>2. M * (x \div M) \in Int
    BY <1>8
  <2>3. x = M * (x \div M) + y
    BY <1>4
  <2> HIDE DEF x, y, M
  <2> QED BY <1>2, <1>6, <2>1, <2>2, <2>3
<1>11. x >= 0 => SumFunction(g) <= SumFunction(f) + v
  <2>1. x = f[a] + v
    OBVIOUS
  <2> HIDE DEF x, y, g
  <2> QED BY <1>2, <1>6, <1>7, <1>10, <2>1
<1>12. SumFunction(g) = SumFunction(f) + v + Wraps(k)
  BY <1>9 DEF Wraps
<1> HIDE DEF g, x, k
<1> QED BY <1>3, <1>5, <1>7, <1>8, <1>9, <1>11, <1>12 DEF g, x

(* A transfer is what the log will tell of it.                             *)
LEMMA MovedIsTold ==
  ASSUME balances \in [Holders -> Word], NEW from \in Holders, NEW to \in Holders,
         NEW amount \in Word, balances[from] >= amount
  PROVE  Moved(from, to, amount) = Gained(Gained(balances, from, -amount), to, amount)
<1>1. TokenModulus \in Nat \ {0} /\ from # NoAddress /\ to # NoAddress
  BY TokenConstants
<1>2. balances[from] - amount \in 0..(TokenModulus - 1) /\ balances[from] + (-amount) = balances[from] - amount
  BY <1>1 DEF Word
<1>3. (balances[from] + (-amount)) % TokenModulus = balances[from] - amount
  BY <1>1, <1>2, ModSmall
<1> QED BY <1>1, <1>3 DEF Moved, Gained

TokenTypeOK ==
  /\ balances \in [Holders -> Word]
  /\ allowances \in [Holders -> [Holders -> Int]]
  /\ event_logs \in Seq(TokenEvents)
  /\ owner_ \in Somebody
  /\ issued \in Int

(* The books agree, and what all holders have together is backed by what   *)
(* was issued: sums that wrapped only make it less.                        *)
TokenInv ==
  /\ TokenTypeOK
  /\ BooksAgree
  /\ SumFunction(balances) <= issued

(* What was never given to an owner.                                       *)
Unowned == IF owner_ = NoAddress THEN InitialSupply ELSE 0

LEMMA UnownedType == Unowned \in Word /\ Unowned \in Int
BY TokenConstants DEF Unowned, Word

(* A call that logs what it did to the balances keeps log and balances in  *)
(* agreement.                                                              *)
LEMMA ToldStep ==
  ASSUME TokenInv, NEW e \in TokenEvents, event_logs' = Append(event_logs, e),
         cleared' = cleared, balances' = Told(balances, e)
  PROVE  balances' = Replayed'
<1>1. event_logs \in Seq(TokenEvents) /\ balances = FoldLeft(Told, cleared, event_logs)
  BY DEF TokenInv, TokenTypeOK, BooksAgree, Replayed
<1>2. FoldLeft(Told, cleared, Append(event_logs, e))
        = Told(FoldLeft(Told, cleared, event_logs), e)
  BY <1>1, ToldAppend
<1>3. Replayed' = FoldLeft(Told, cleared', event_logs')
  BY DEF Replayed
<1> QED BY <1>1, <1>2, <1>3

(* The supply after a call that changes it and the sum of the balances by  *)
(* the same amount, up to a multiple of the modulus.                       *)
LEMMA SupplyStep ==
  ASSUME TokenInv, owner_' = owner_, NEW v \in Int, NEW k \in Int,
         total_supply' = (total_supply + v) % TokenModulus,
         SumFunction(balances) \in Int,
         SumFunction(balances') = SumFunction(balances) + v + Wraps(k)
  PROVE  total_supply' = (SumFunction(balances')
                            + IF owner_' = NoAddress THEN InitialSupply ELSE 0) % TokenModulus
<1> DEFINE M == TokenModulus
           c == Unowned
           sum == SumFunction(balances)
           b == sum + c
<1>1. M \in Nat \ {0} /\ c \in Int /\ b \in Int /\ sum \in Int
  BY TokenConstants, UnownedType
<1>2. total_supply = b % M
  BY DEF TokenInv, BooksAgree, Unowned
<1>3. total_supply' = (b + v) % M
  <2> HIDE DEF b
  <2> QED BY <1>1, <1>2, ModAdd
<1>4. (b + v + M * k) % M = (b + v) % M
  <2>1. b + v \in Int
    BY <1>1
  <2> HIDE DEF b, M
  <2> QED BY <1>1, <2>1, ModShift
<1>5. SumFunction(balances') + c = b + v + M * k
  <2>1. M * k \in Int
    BY <1>1
  <2>2. SumFunction(balances') = sum + v + M * k /\ b = sum + c
    BY DEF Wraps
  <2> HIDE DEF c, M, sum, b
  <2> QED BY <1>1, <2>1, <2>2
<1>6. c = IF owner_' = NoAddress THEN InitialSupply ELSE 0
  BY DEF Unowned
<1> QED BY <1>3, <1>4, <1>5, <1>6

LEMMA UnchangedSupply ==
  ASSUME TokenInv
  PROVE  total_supply \in Word /\ total_supply = (total_supply + 0) % TokenModulus
<1>1. TokenModulus \in Nat \ {0} /\ IsFiniteSet(Holders)
  BY TokenConstants
<1>2. balances \in [Holders -> Int]
  BY <1>1 DEF TokenInv, TokenTypeOK, Word
<1>3. SumFunction(balances) \in Int
  <2>1. DOMAIN balances = Holders /\ \A x \in Holders : balances[x] \in Int
    BY <1>2
  <2> QED BY <1>1, <2>1, SumAnyOrder DEF SumFunction
<1> DEFINE b == SumFunction(balances) + Unowned
<1>4. b \in Int /\ total_supply = b % TokenModulus
  BY <1>3, UnownedType DEF TokenInv, BooksAgree, Unowned
<1>5. total_supply \in 0..(TokenModulus - 1)
  <2> HIDE DEF b
  <2> QED BY <1>1, <1>4, DivMod
<1>6. total_supply + 0 = total_supply
  BY <1>1, <1>5
<1> QED BY <1>1, <1>5, <1>6, ModSmall DEF Word

LEMMA EventFacts ==
  ASSUME NEW type \in EventTypes, NEW from \in Somebody, NEW to \in Somebody, NEW amount \in Word
  PROVE  /\ Event(type, from, to, amount) \in TokenEvents
         /\ \A f : Told(f, Event(type, from, to, amount)) =
              IF type = "Approval" THEN f ELSE Gained(Gained(f, from, -amount), to, amount)
BY DEF TokenEvents, Event, Told

(* What one holder loses another one gains.                                *)
LEMMA GainedTwice ==
  ASSUME NEW b \in [Holders -> Word], NEW from \in Holders, NEW to \in Holders,
         NEW amount \in Word, b[from] >= amount
  PROVE  LET c == Gained(Gained(b, from, -amount), to, amount)
         IN  /\ c \in [Holders -> Word]
             /\ SumFunction(b) \in Int /\ SumFunction(c) \in Int
             /\ \E k \in Int : SumFunction(c) = SumFunction(b) + 0 + Wraps(k)
             /\ SumFunction(c) <= SumFunction(b)
<1> DEFINE v == -amount
           f == Gained(b, from, v)
           c == Gained(f, to, amount)
<1>1. amount \in Nat /\ v \in Int /\ b[from] \in Int /\ b[from] + v >= 0
  BY TokenConstants DEF Word
<1>2. /\ f \in [Holders -> Word] /\ SumFunction(b) \in Int /\ SumFunction(f) \in Int
      /\ \E k \in Int : SumFunction(f) = SumFunction(b) + v + Wraps(k)
      /\ SumFunction(f) <= SumFunction(b) + v
  <2> HIDE DEF v
  <2>1. b[from] + v >= 0 => SumFunction(f) <= SumFunction(b) + v
    BY <1>1, GainedFacts
  <2>2. \E k \in Int : SumFunction(f) = SumFunction(b) + v + Wraps(k)
    BY <1>1, GainedFacts
  <2>3. f \in [Holders -> Word] /\ SumFunction(b) \in Int /\ SumFunction(f) \in Int
    BY <1>1, GainedFacts
  <2> QED BY <1>1, <2>1, <2>2, <2>3
<1>3. f[to] + amount >= 0 /\ amount \in Int
  <2>1. f[to] \in Word
    BY <1>2
  <2> HIDE DEF f
  <2> QED BY <1>1, <2>1, TokenConstants DEF Word
<1>4. /\ c \in [Holders -> Word] /\ SumFunction(c) \in Int
      /\ \E k \in Int : SumFunction(c) = SumFunction(f) + amount + Wraps(k)
      /\ SumFunction(c) <= SumFunction(f) + amount
  <2> HIDE DEF f
  <2>0. f \in [Holders -> Word]
    BY <1>2
  <2>1. f[to] + amount >= 0 => SumFunction(c) <= SumFunction(f) + amount
    BY <1>3, <2>0, GainedFacts
  <2>2. \E k \in Int : SumFunction(c) = SumFunction(f) + amount + Wraps(k)
    <3>1. \A g \in [Holders -> Word], a \in Holders, u \in Int :
            \E k \in Int : SumFunction(Gained(g, a, u)) = SumFunction(g) + u + Wraps(k)
      BY GainedFacts
    <3>2. amount \in Int
      BY <1>3
    <3> HIDE DEF c
    <3>3. c = Gained(f, to, amount)
      BY DEF c
    <3> QED BY <2>0, <3>1, <3>2, <3>3
  <2>3. c \in [Holders -> Word] /\ SumFunction(c) \in Int
    BY <1>3, <2>0, GainedFacts
  <2> QED BY <1>3, <2>1, <2>2, <2>3
<1>5. PICK k1 \in Int : SumFunction(f) = SumFunction(b) + v + Wraps(k1)
  BY <1>2
<1>6. PICK k2 \in Int : SumFunction(c) = SumFunction(f) + amount + Wraps(k2)
  BY <1>4
<1>7. v = -amount
  OBVIOUS
<1> HIDE DEF v, f, c
<1>8. Wraps(k1) \in Int /\ Wraps(k2) \in Int /\ Wraps(k1) + Wraps(k2) = Wraps(k1 + k2)
  BY TokenConstants, Distribute DEF Wraps
<1>9. k1 + k2 \in Int /\ SumFunction(c) = SumFunction(b) + 0 + Wraps(k1 + k2)
  BY <1>1, <1>2, <1>4, <1>5, <1>6, <1>7, <1>8
<1>10. SumFunction(c) <= SumFunction(b)
  BY <1>1, <1>2, <1>4, <1>7
<1> QED BY <1>2, <1>4, <1>9, <1>10 DEF v, f, c

(* Moving tokens, as a transfer and a transfer on behalf of somebody do.   *)
LEMMA MovedStep ==
  ASSUME TokenInv, NEW from \in Holders, NEW to \in Holders, NEW amount \in Word,
         balances[from] >= amount, balances' = Moved(from, to, amount),
         event_logs' = Append(event_logs, Event("Transfer", from, to, amount)),
         UNCHANGED <<owner_, cleared, total_supply, issued>>,
         allowances' \in [Holders -> [Holders -> Int]]
  PROVE  TokenInv'
<1> DEFINE e == Event("Transfer", from, to, amount)
           sum == SumFunction(balances)
           next == SumFunction(balances')
<1>1. balances \in [Holders -> Word] /\ issued \in Int /\ sum <= issued
  BY DEF TokenInv, TokenTypeOK
<1>2. balances' = Gained(Gained(balances, from, -amount), to, amount)
  BY <1>1, MovedIsTold
<1>3. /\ balances' \in [Holders -> Word] /\ sum \in Int /\ next \in Int
      /\ \E k \in Int : next = sum + 0 + Wraps(k)
      /\ next <= sum
  BY <1>1, <1>2, GainedTwice
<1>6. PICK k \in Int : next = sum + 0 + Wraps(k)
  BY <1>3
<1>7. e \in TokenEvents /\ Told(balances, e) = balances'
  <2>1. /\ "Transfer" \in EventTypes /\ "Transfer" # "Approval"
        /\ from \in Somebody /\ to \in Somebody
    BY DEF Somebody, EventTypes
  <2> QED BY <1>2, <2>1, EventFacts
<1>8. balances' = Replayed'
  <2>1. event_logs' = Append(event_logs, e)
    OBVIOUS
  <2> HIDE DEF e
  <2> QED BY <1>7, <2>1, ToldStep
<1>9. total_supply' = (total_supply + 0) % TokenModulus
  BY UnchangedSupply
<1>10. BooksAgree'
  <2>1. total_supply' = (SumFunction(balances')
                            + IF owner_' = NoAddress THEN InitialSupply ELSE 0) % TokenModulus
    BY <1>3, <1>6, <1>9, SupplyStep
  <2> QED BY <1>8, <2>1 DEF BooksAgree
<1>11. TokenTypeOK'
  <2>1. event_logs' \in Seq(TokenEvents)
    BY <1>7 DEF TokenInv, TokenTypeOK
  <2> QED BY <1>3, <2>1 DEF TokenInv, TokenTypeOK
<1>12. SumFunction(balances') <= issued'
  <2> HIDE DEF sum, next
  <2>1. next <= issued' 
    BY <1>1, <1>3
  <2> QED BY <2>1 DEF next
<1> QED BY <1>10, <1>11, <1>12 DEF TokenInv

LEMMA TokenInitInv == TokenInit => TokenInv
<1> SUFFICES ASSUME TokenInit PROVE TokenInv
  OBVIOUS
<1> DEFINE M == TokenModulus
           none == [a \in Holders |-> 0]
<1>1. /\ M \in Nat \ {0} /\ IsFiniteSet(Holders) /\ NoAddress \notin Holders
      /\ InitialSupply \in Word /\ 0 \in Word /\ InitialSupply \in Nat
  BY TokenConstants DEF Word
<1>2. /\ owner_ \in Somebody /\ total_supply = InitialSupply /\ issued = InitialSupply
      /\ cleared = none
      /\ balances = [a \in Holders |-> IF a = owner_ THEN InitialSupply ELSE 0]
  BY DEF TokenInit, Somebody
<1>3. none \in [Holders -> Word] /\ none \in [Holders -> Int] /\ SumFunction(none) = 0
  <2>1. DOMAIN none = Holders /\ \A x \in Holders : none[x] = 0
    OBVIOUS
  <2> HIDE DEF none
  <2>2. SumFunction(none) = 0
    BY <1>1, <2>1, SumZero DEF SumFunction
  <2> QED BY <1>1, <2>2 DEF none
<1>4. CASE owner_ = NoAddress
  <2>1. balances = none /\ event_logs = <<>>
    BY <1>1, <1>2, <1>4 DEF TokenInit
  <2>2. Replayed = none
    BY <1>2, <2>1, ToldEmpty DEF Replayed
  <2>3. InitialSupply = (0 + InitialSupply) % M
    <3>1. 0 + InitialSupply = InitialSupply /\ InitialSupply \in 0..(M - 1)
      BY <1>1 DEF Word
    <3> QED BY <1>1, <3>1, ModSmall
  <2>4. BooksAgree
    BY <1>2, <1>3, <1>4, <2>1, <2>2, <2>3 DEF BooksAgree
  <2>5. TokenTypeOK
    <3>1. allowances \in [Holders -> [Holders -> Int]]
      BY DEF TokenInit
    <3> QED BY <1>1, <1>2, <1>3, <2>1, <3>1 DEF TokenTypeOK
  <2>6. SumFunction(balances) <= issued
    BY <1>1, <1>2, <1>3, <2>1
  <2> QED BY <2>4, <2>5, <2>6 DEF TokenInv
<1>5. CASE owner_ # NoAddress
  <2>1. owner_ \in Holders
    BY <1>2, <1>5 DEF Somebody
  <2>2. balances = [none EXCEPT ![owner_] = InitialSupply]
    BY <1>2, <2>1
  <2>3. SumFunction(balances) = InitialSupply
    <3>1. none[owner_] = 0
      BY <2>1
    <3> HIDE DEF none
    <3>0. InitialSupply \in Int /\ none \in [Holders -> Int]
      BY <1>1, <1>3
    <3>2. SumFunction([none EXCEPT ![owner_] = InitialSupply])
            = SumFunction(none) - none[owner_] + InitialSupply
      <4>1. IsFiniteSet(Holders)
        BY <1>1
      <4>2. \A f \in [Holders -> Int], v \in Holders, e \in Int :
              SumFunction([f EXCEPT ![v] = e]) = SumFunction(f) - f[v] + e
        BY <4>1, SumUpdate
      <4> QED BY <2>1, <3>0, <4>2
    <3> QED BY <1>1, <1>3, <2>2, <3>1, <3>2
  <2> DEFINE e == Event("Transfer", NoAddress, owner_, InitialSupply)
  <2>4. e \in TokenEvents /\ Told(none, e) = balances
    <3>1. /\ "Transfer" \in EventTypes /\ "Transfer" # "Approval"
          /\ NoAddress \in Somebody /\ owner_ \in Somebody
      BY <1>2 DEF EventTypes, Somebody
    <3>2. /\ e \in TokenEvents
          /\ Told(none, e) = Gained(Gained(none, NoAddress, -InitialSupply), owner_, InitialSupply)
      <4> HIDE DEF none
      <4> QED BY <1>1, <3>1, EventFacts
    <3>3. (0 + InitialSupply) % M = InitialSupply
      <4>1. 0 + InitialSupply = InitialSupply /\ InitialSupply \in 0..(M - 1)
        BY <1>1 DEF Word
      <4> QED BY <1>1, <4>1, ModSmall
    <3> HIDE DEF e
    <3> QED BY <1>5, <2>1, <2>2, <3>2, <3>3 DEF Gained
  <2>5. balances = Replayed /\ event_logs \in Seq(TokenEvents)
    <3>1. CASE InitialSupply > 0
      <4>1. event_logs = <<e>> /\ <<e>> = Append(<<>>, e) /\ <<>> \in Seq(TokenEvents)
        BY <1>5, <3>1 DEF TokenInit
      <4> HIDE DEF e, none
      <4>2. FoldLeft(Told, none, Append(<<>>, e)) = Told(FoldLeft(Told, none, <<>>), e)
        BY <2>4, <4>1, ToldAppend, ZenonT(60)
      <4>3. FoldLeft(Told, none, <<>>) = none
        BY ToldEmpty
      <4>4. FoldLeft(Told, none, event_logs) = balances
        BY <2>4, <4>1, <4>2, <4>3
      <4> QED BY <1>2, <2>4, <4>1, <4>4 DEF Replayed
    <3>2. CASE ~(InitialSupply > 0)
      <4>1. event_logs = <<>>
        BY <3>2 DEF TokenInit
      <4>2. InitialSupply = 0
        BY <1>1, <3>2
      <4>3. balances = none
        BY <1>2, <4>2
      <4>4. FoldLeft(Told, none, <<>>) = none
        <5> HIDE DEF none
        <5> QED BY ToldEmpty
      <4> QED BY <1>2, <4>1, <4>3, <4>4 DEF Replayed
    <3> QED BY <3>1, <3>2
  <2>6. BooksAgree
    <3>1. InitialSupply + 0 = InitialSupply /\ InitialSupply \in 0..(M - 1)
      BY <1>1 DEF Word
    <3>2. InitialSupply = (InitialSupply + 0) % M
      BY <1>1, <3>1, ModSmall
    <3> QED BY <1>2, <1>5, <2>3, <2>5, <3>2 DEF BooksAgree
  <2>7. TokenTypeOK
    <3>1. allowances \in [Holders -> [Holders -> Int]]
      BY DEF TokenInit
    <3>2. balances \in [Holders -> Word]
      BY <1>1, <1>2
    <3> QED BY <1>1, <1>2, <2>5, <3>1, <3>2 DEF TokenTypeOK
  <2>8. SumFunction(balances) <= issued
    BY <1>1, <1>2, <2>3
  <2> QED BY <2>6, <2>7, <2>8 DEF TokenInv
<1> QED BY <1>4, <1>5

LEMMA GainedOnce ==
  ASSUME NEW b \in [Holders -> Word], NEW a \in Holders, NEW v \in Int, b[a] + v >= 0
  PROVE  /\ Gained(b, a, v) \in [Holders -> Word]
         /\ SumFunction(b) \in Int /\ SumFunction(Gained(b, a, v)) \in Int
         /\ \E k \in Int : SumFunction(Gained(b, a, v)) = SumFunction(b) + v + Wraps(k)
         /\ SumFunction(Gained(b, a, v)) <= SumFunction(b) + v
<1>1. b[a] + v >= 0 => SumFunction(Gained(b, a, v)) <= SumFunction(b) + v
  BY GainedFacts
<1>2. \E k \in Int : SumFunction(Gained(b, a, v)) = SumFunction(b) + v + Wraps(k)
  BY GainedFacts
<1>3. /\ Gained(b, a, v) \in [Holders -> Word]
      /\ SumFunction(b) \in Int /\ SumFunction(Gained(b, a, v)) \in Int
  BY GainedFacts
<1> QED BY <1>1, <1>2, <1>3

(* Minting and burning: one balance, the supply and what is issued change  *)
(* by the same amount.                                                     *)
LEMMA GainedStep ==
  ASSUME TokenInv, NEW a \in Holders, NEW v \in Int, balances[a] + v >= 0,
         balances' = Gained(balances, a, v),
         NEW e \in TokenEvents, event_logs' = Append(event_logs, e),
         Told(balances, e) = balances',
         owner_' = owner_, cleared' = cleared, allowances' = allowances,
         total_supply' = (total_supply + v) % TokenModulus,
         issued' = issued + v
  PROVE  TokenInv'
<1> DEFINE sum == SumFunction(balances)
           next == SumFunction(balances')
<1>1. balances \in [Holders -> Word] /\ issued \in Int /\ sum <= issued
  BY DEF TokenInv, TokenTypeOK
<1>2. /\ balances' \in [Holders -> Word] /\ sum \in Int /\ next \in Int
      /\ \E k \in Int : next = sum + v + Wraps(k)
      /\ next <= sum + v
  BY <1>1, GainedOnce
<1>3. PICK k \in Int : next = sum + v + Wraps(k)
  BY <1>2
<1>4. balances' = Replayed'
  BY ToldStep
<1>5. BooksAgree'
  <2>1. total_supply' = (SumFunction(balances')
                            + IF owner_' = NoAddress THEN InitialSupply ELSE 0) % TokenModulus
    BY <1>2, <1>3, SupplyStep
  <2> QED BY <1>4, <2>1 DEF BooksAgree
<1>6. TokenTypeOK'
  <2>1. event_logs' \in Seq(TokenEvents) /\ issued' \in Int
    BY <1>1 DEF TokenInv, TokenTypeOK
  <2> QED BY <1>2, <2>1 DEF TokenInv, TokenTypeOK
<1>7. SumFunction(balances') <= issued'
  <2> HIDE DEF sum, next
  <2>1. next <= issued'
    BY <1>1, <1>2
  <2> QED BY <2>1 DEF next
<1> QED BY <1>5, <1>6, <1>7 DEF TokenInv

LEMMA AmountType == ASSUME NEW amount \in TokenAmounts
                    PROVE  amount \in Word /\ amount \in Nat /\ -amount \in Int
BY TokenConstants DEF Word

LEMMA HolderIsSomebody == /\ \A a \in Holders : a \in Somebody /\ a # NoAddress
                          /\ NoAddress \in Somebody
BY TokenConstants DEF Somebody

LEMMA TokenStep == TokenInv /\ [TokenNext]_tokenVars => TokenInv'
<1> SUFFICES ASSUME TokenInv, [TokenNext]_tokenVars PROVE TokenInv'
  OBVIOUS
<1>t. TokenTypeOK
  BY DEF TokenInv
<1>1. ASSUME NEW amount \in TokenAmounts, NEW by \in Holders, NEW to \in Holders,
             Transfer(by, to, amount)
      PROVE  TokenInv'
  <2>1. amount \in Word /\ allowances' \in [Holders -> [Holders -> Int]]
    BY <1>1, <1>t, AmountType DEF Transfer, TokenTypeOK
  <2>2. /\ balances[by] >= amount /\ balances' = Moved(by, to, amount)
        /\ event_logs' = Append(event_logs, Event("Transfer", by, to, amount))
        /\ UNCHANGED <<owner_, cleared, total_supply, issued>>
    BY <1>1 DEF Transfer, Log
  <2> QED BY <2>1, <2>2, MovedStep
<1>2. ASSUME NEW amount \in TokenAmounts, NEW by \in Holders, NEW spender \in Holders,
             Approve(by, spender, amount)
      PROVE  TokenInv'
  <2> DEFINE e == Event("Approval", by, spender, amount)
  <2>1. /\ event_logs' = Append(event_logs, e) /\ balances' = balances
        /\ UNCHANGED <<owner_, cleared, total_supply, issued>>
        /\ allowances' = [allowances EXCEPT ![by][spender] = amount]
    BY <1>2 DEF Approve, Log
  <2>2. e \in TokenEvents /\ Told(balances, e) = balances
    <3>1. "Approval" \in EventTypes
      BY DEF EventTypes
    <3> QED BY <3>1, AmountType, HolderIsSomebody, EventFacts
  <2> HIDE DEF e
  <2>3. balances' = Replayed'
    BY <2>1, <2>2, ToldStep
  <2>4. BooksAgree'
    BY <2>1, <2>3 DEF BooksAgree, TokenInv
  <2>5. TokenTypeOK'
    <3>1. amount \in Int
      BY AmountType
    <3>2. allowances' \in [Holders -> [Holders -> Int]]
      BY <1>t, <2>1, <3>1 DEF TokenTypeOK
    <3>3. event_logs' \in Seq(TokenEvents)
      BY <1>t, <2>1, <2>2 DEF TokenTypeOK
    <3> QED BY <1>t, <2>1, <3>2, <3>3 DEF TokenTypeOK
  <2> QED BY <2>1, <2>4, <2>5 DEF TokenInv
<1>3. ASSUME NEW amount \in TokenAmounts, NEW spender \in Holders, NEW from \in Holders,
             NEW to \in Holders, TransferFrom(spender, from, to, amount)
      PROVE  TokenInv'
  <2>1. allowances' \in [Holders -> [Holders -> Int]]
    <3>1. amount \in Int
      BY AmountType
    <3> QED BY <1>3, <1>t, <3>1 DEF TransferFrom, TokenTypeOK
  <2>2. /\ balances[from] >= amount /\ balances' = Moved(from, to, amount)
        /\ event_logs' = Append(event_logs, Event("Transfer", from, to, amount))
        /\ UNCHANGED <<owner_, cleared, total_supply, issued>>
    BY <1>3 DEF TransferFrom, Log
  <2> QED BY <2>1, <2>2, AmountType, MovedStep
<1>4. ASSUME NEW amount \in TokenAmounts, NEW by \in Somebody, NEW to \in Holders,
             MintTokens(by, to, amount)
      PROVE  TokenInv'
  <2> DEFINE e == Event("Mint", NoAddress, to, amount)
  <2>1. /\ event_logs' = Append(event_logs, e)
        /\ balances' = [balances EXCEPT ![to] = (@ + amount) % TokenModulus]
        /\ owner_' = owner_ /\ cleared' = cleared /\ allowances' = allowances
        /\ total_supply' = (total_supply + amount) % TokenModulus
        /\ issued' = issued + amount
    BY <1>4 DEF MintTokens, Log
  <2>2. balances' = Gained(balances, to, amount)
    BY <2>1, HolderIsSomebody DEF Gained
  <2>3. /\ e \in TokenEvents
        /\ Told(balances, e) = Gained(Gained(balances, NoAddress, -amount), to, amount)
    <3>1. "Mint" \in EventTypes /\ "Mint" # "Approval"
      BY DEF EventTypes
    <3> QED BY <3>1, AmountType, HolderIsSomebody, EventFacts
  <2>4. Told(balances, e) = balances'
    <3>1. Gained(balances, NoAddress, -amount) = balances
      BY DEF Gained
    <3> HIDE DEF e
    <3> QED BY <2>2, <2>3, <3>1
  <2>5. amount \in Int /\ balances[to] + amount >= 0
    <3>1. balances[to] \in Word /\ amount \in Nat
      BY <1>t, AmountType DEF TokenTypeOK
    <3> QED BY <3>1, TokenConstants DEF Word
  <2> HIDE DEF e
  <2> QED BY <2>1, <2>2, <2>3, <2>4, <2>5, GainedStep
<1>5. ASSUME NEW amount \in TokenAmounts, NEW by \in Holders, Burn(by, amount)
      PROVE  TokenInv'
  <2> DEFINE e == Event("Burn", by, NoAddress, amount)
             v == -amount
  <2>1. /\ event_logs' = Append(event_logs, e) /\ balances[by] >= amount
        /\ balances' = [balances EXCEPT ![by] = @ - amount]
        /\ owner_' = owner_ /\ cleared' = cleared /\ allowances' = allowances
        /\ total_supply' = (total_supply - amount) % TokenModulus
        /\ issued' = issued - amount
    BY <1>5 DEF Burn, Log
  <2>2. /\ amount \in Nat /\ amount \in Word /\ v \in Int /\ balances[by] \in Word
        /\ balances[by] \in Nat /\ TokenModulus \in Nat \ {0} /\ issued \in Int
        /\ total_supply \in Int
    BY <1>t, AmountType, TokenConstants, UnchangedSupply DEF TokenTypeOK, Word
  <2>3. balances[by] + v >= 0 /\ balances[by] - amount \in 0..(TokenModulus - 1)
        /\ balances[by] + v = balances[by] - amount
        /\ total_supply - amount = total_supply + v /\ issued - amount = issued + v
    BY <2>1, <2>2 DEF Word
  <2>4. (balances[by] + v) % TokenModulus = balances[by] - amount
    <3> HIDE DEF v
    <3> QED BY <2>2, <2>3, ModSmall
  <2>5. balances' = Gained(balances, by, v)
    <3> HIDE DEF v
    <3> QED BY <2>1, <2>4, HolderIsSomebody DEF Gained
  <2>6. /\ e \in TokenEvents
        /\ Told(balances, e) = Gained(Gained(balances, by, v), NoAddress, amount)
    <3>1. "Burn" \in EventTypes /\ "Burn" # "Approval"
      BY DEF EventTypes
    <3> QED BY <3>1, AmountType, HolderIsSomebody, EventFacts
  <2>7. Told(balances, e) = balances'
    <3> HIDE DEF e, v
    <3> QED BY <2>5, <2>6 DEF Gained
  <2> HIDE DEF e, v
  <2> QED BY <2>1, <2>2, <2>3, <2>5, <2>6, <2>7, GainedStep
<1>6. CASE ClearEvents
  <2>1. /\ event_logs' = <<>> /\ cleared' = balances
        /\ UNCHANGED <<balances, allowances, total_supply, owner_, issued>>
    BY <1>6 DEF ClearEvents
  <2>2. balances' = Replayed'
    <3>1. FoldLeft(Told, balances, <<>>) = balances
      BY ToldEmpty
    <3> QED BY <2>1, <3>1 DEF Replayed
  <2>3. event_logs' \in Seq(TokenEvents)
    BY <2>1
  <2>4. BooksAgree'
    BY <2>1, <2>2 DEF BooksAgree, TokenInv
  <2> QED BY <1>t, <2>1, <2>3, <2>4 DEF TokenInv, TokenTypeOK
<1>7. CASE UNCHANGED tokenVars
  <2>1. UNCHANGED <<balances, allowances, total_supply, event_logs, owner_, issued, cleared>>
    BY <1>7 DEF tokenVars
  <2> QED BY <2>1 DEF TokenInv, TokenTypeOK, BooksAgree, Replayed
<1>8. CASE BurnNothing
  <2> DEFINE e == Event("Burn", NoAddress, NoAddress, 0)
  <2>1. /\ event_logs' = Append(event_logs, e) /\ balances' = balances
        /\ UNCHANGED <<allowances, owner_, cleared, total_supply, issued>>
    BY <1>8 DEF BurnNothing, Log
  <2>2. e \in TokenEvents /\ Told(balances, e) = balances
    <3>1. "Burn" \in EventTypes /\ "Burn" # "Approval"
      BY DEF EventTypes
    <3>2. 0 \in Word /\ NoAddress \in Somebody
      BY TokenConstants DEF Word, Somebody
    <3>3. \A v : Gained(balances, NoAddress, v) = balances
      BY DEF Gained
    <3> QED BY <3>1, <3>2, <3>3, EventFacts
  <2> HIDE DEF e
  <2>3. balances' = Replayed'
    BY <2>1, <2>2, ToldStep
  <2>4. BooksAgree'
    BY <2>1, <2>3 DEF BooksAgree, TokenInv
  <2>5. event_logs' \in Seq(TokenEvents)
    BY <1>t, <2>1, <2>2 DEF TokenTypeOK
  <2> QED BY <1>t, <2>1, <2>4, <2>5 DEF TokenInv, TokenTypeOK
<1> QED BY <1>1, <1>2, <1>3, <1>4, <1>5, <1>6, <1>7, <1>8 DEF TokenNext, Somebody

LEMMA TokenInductive == TokenSpec => []TokenInv
<1> QED BY TokenInitInv, TokenStep, PTL DEF TokenSpec

(* Balances, supply and log of the token agree after any sequence of       *)
(* calls, wrapped sums included, for every modulus and any set of holders. *)
THEOREM TokenBooksAgree == TokenSpec => []BooksAgree
<1>1. TokenInv => BooksAgree
  BY DEF TokenInv
<1> QED BY <1>1, TokenInductive, PTL

(* No two holders have more together than all of them.                     *)
LEMMA PairBounded ==
  ASSUME TokenTypeOK, NEW a \in Holders
  PROVE  /\ balances[a] <= SumFunction(balances)
         /\ \A b \in Holders \ {a} : balances[a] + balances[b] <= SumFunction(balances)
<1> DEFINE f == balances
           Sum(T) == SumFunctionOnSet(f, T)
<1>1. /\ IsFiniteSet(Holders) /\ DOMAIN f = Holders /\ SumFunction(f) = Sum(Holders)
      /\ \A x \in Holders : f[x] \in Nat /\ f[x] \in Int
  BY TokenConstants DEF TokenTypeOK, Word, SumFunction
<1>2. \A T \in SUBSET Holders : /\ IsFiniteSet(T) /\ Sum(T) \in Nat
                               /\ \A y \in T : Sum(T) = f[y] + Sum(T \ {y})
  <2> SUFFICES ASSUME NEW T \in SUBSET Holders
               PROVE  /\ IsFiniteSet(T) /\ Sum(T) \in Nat
                      /\ \A y \in T : Sum(T) = f[y] + Sum(T \ {y})
    OBVIOUS
  <2>1. IsFiniteSet(T)
    BY <1>1, FS_Subset
  <2> QED BY <1>1, <2>1, SumNat, SumAnyOrder
<1>3. Sum(Holders) = f[a] + Sum(Holders \ {a}) /\ Sum(Holders \ {a}) \in Nat
  <2>1. Holders \in SUBSET Holders /\ Holders \ {a} \in SUBSET Holders
    OBVIOUS
  <2> HIDE DEF Sum
  <2> QED BY <1>2, <2>1
<1>4. ASSUME NEW b \in Holders \ {a} PROVE f[a] + f[b] <= Sum(Holders)
  <2>1. (Holders \ {a}) \in SUBSET Holders /\ (Holders \ {a}) \ {b} \in SUBSET Holders
    OBVIOUS
  <2>2. Sum(Holders \ {a}) = f[b] + Sum((Holders \ {a}) \ {b})
        /\ Sum((Holders \ {a}) \ {b}) \in Nat
    <3> HIDE DEF Sum
    <3> QED BY <1>2, <2>1
  <2> HIDE DEF Sum, f
  <2> QED BY <1>1, <1>3, <2>2
<1> HIDE DEF Sum
<1>5. f[a] <= Sum(Holders)
  BY <1>1, <1>3
<1> QED BY <1>1, <1>4, <1>5

(* Moving tokens takes them from the payer only, if what was issued fits.  *)
LEMMA MovedTakes ==
  ASSUME TokenInv, issued < TokenModulus, NEW from \in Holders, NEW to \in Holders,
         NEW amount \in Word, balances[from] >= amount, NEW a \in Holders,
         Moved(from, to, amount)[a] < balances[a]
  PROVE  a = from /\ balances[a] - Moved(from, to, amount)[a] = amount
<1> DEFINE M == TokenModulus
           b == balances
           fb == b[from]
           tb == b[to]
<1>1. /\ M \in Nat \ {0} /\ amount \in Nat /\ b \in [Holders -> Word] /\ fb \in Nat /\ tb \in Nat
      /\ fb < M /\ tb < M /\ b[a] \in Nat /\ b[a] < M
      /\ amount <= fb /\ Moved(from, to, amount)[a] < b[a] /\ issued < M
  BY TokenConstants, SMTT(40) DEF TokenInv, TokenTypeOK, Word
<1>2. CASE from = to
  <2>1. fb - amount + amount = fb /\ fb \in 0..(M - 1)
    BY <1>1
  <2>2. (fb - amount + amount) % M = fb
    <3> HIDE DEF fb, M
    <3> QED BY <1>1, <2>1, ModSmall
  <2>3. Moved(from, to, amount)[a] = b[a]
    BY <1>1, <1>2, <2>2 DEF Moved
  <2> HIDE DEF M
  <2> QED BY <1>1, <2>3
<1>3. CASE from # to
  <2>1. fb + tb <= SumFunction(b)
    BY <1>3, PairBounded DEF TokenInv
  <2>2. SumFunction(b) \in Int /\ SumFunction(b) <= issued /\ issued \in Int
    <3>1. IsFiniteSet(Holders) /\ b \in [Holders -> Int]
      BY <1>1, TokenConstants DEF Word
    <3>2. SumFunction(b) \in Int
      <4>1. DOMAIN b = Holders /\ \A x \in Holders : b[x] \in Int
        BY <3>1
      <4> QED BY <3>1, <4>1, SumAnyOrder DEF SumFunction
    <3> QED BY <3>2 DEF TokenInv, TokenTypeOK
  <2>3. tb + amount \in 0..(M - 1)
    <3> HIDE DEF b, fb, tb, M
    <3> QED BY <1>1, <2>1, <2>2
  <2>4. (tb + amount) % M = tb + amount
    <3> HIDE DEF tb, M
    <3> QED BY <1>1, <2>3, ModSmall
  <2>5. Moved(from, to, amount) = [b EXCEPT ![from] = fb - amount, ![to] = tb + amount]
    BY <1>1, <1>3, <2>4 DEF Moved
  <2>6. a # to
    <3> SUFFICES ASSUME a = to PROVE FALSE
      OBVIOUS
    <3>1. Moved(from, to, amount)[a] = tb + amount /\ b[a] = tb
      BY <1>1, <2>5
    <3> HIDE DEF b, tb
    <3> QED BY <1>1, <3>1
  <2>7. a = from
    <3> SUFFICES ASSUME a # from PROVE FALSE
      OBVIOUS
    <3>1. Moved(from, to, amount)[a] = b[a]
      BY <1>1, <2>5, <2>6
    <3> QED BY <1>1, <3>1
  <2>8. Moved(from, to, amount)[a] = fb - amount /\ b[a] = fb
    BY <1>1, <1>3, <2>5, <2>7
  <2>9. b[a] - Moved(from, to, amount)[a] = amount
    <3> HIDE DEF b, fb
    <3> QED BY <1>1, <2>8
  <2> QED BY <2>7, <2>9
<1> QED BY <1>2, <1>3

(* Nobody loses tokens except in his own call or within an allowance, for  *)
(* every modulus, any set of holders and any sequence of calls, as long as *)
(* what was issued fits into the counters.                                 *)
THEOREM TokenOnlyWithConsent == TokenSpec => OnlyWithConsent
<1> DEFINE Body ==
      issued' < TokenModulus =>
        \A a \in Holders : balances'[a] < balances[a] =>
          \/ caller' = a
          \/ /\ caller' \in Holders
             /\ allowances[a][caller'] - allowances'[a][caller'] = balances[a] - balances'[a]
<1>1. TokenInv /\ [TokenNext]_tokenVars => [Body]_tokenVars
  <2> SUFFICES ASSUME TokenInv, TokenNext, issued' < TokenModulus, NEW a \in Holders,
                      balances'[a] < balances[a]
               PROVE  \/ caller' = a
                      \/ /\ caller' \in Holders
                         /\ allowances[a][caller'] - allowances'[a][caller']
                              = balances[a] - balances'[a]
    OBVIOUS
  <2>t. TokenTypeOK /\ TokenModulus \in Nat \ {0} /\ balances[a] \in Nat /\ issued \in Int
    BY TokenConstants DEF TokenInv, TokenTypeOK, Word
  <2>1. ASSUME NEW amount \in TokenAmounts, NEW by \in Holders, NEW to \in Holders,
               Transfer(by, to, amount)
        PROVE  caller' = a
    <3>1. /\ balances[by] >= amount /\ balances' = Moved(by, to, amount)
          /\ caller' = by /\ issued' = issued
      BY <2>1 DEF Transfer, Log
    <3> QED BY <3>1, AmountType, MovedTakes
  <2>2. ASSUME NEW amount \in TokenAmounts, NEW by \in Holders, NEW spender \in Holders,
               Approve(by, spender, amount)
        PROVE  FALSE
    BY <2>2, <2>t DEF Approve
  <2>3. ASSUME NEW amount \in TokenAmounts, NEW spender \in Holders, NEW from \in Holders,
               NEW to \in Holders, TransferFrom(spender, from, to, amount)
        PROVE  /\ caller' \in Holders
               /\ allowances[a][caller'] - allowances'[a][caller'] = balances[a] - balances'[a]
    <3>1. /\ balances[from] >= amount /\ balances' = Moved(from, to, amount)
          /\ caller' = spender /\ issued' = issued
          /\ allowances' = [allowances EXCEPT ![from][spender] = @ - amount]
      BY <2>3 DEF TransferFrom, Log
    <3>2. a = from /\ balances[a] - balances'[a] = amount
      BY <3>1, AmountType, MovedTakes
    <3>3. allowances[from][spender] \in Int /\ amount \in Nat
          /\ allowances'[from][spender] = allowances[from][spender] - amount
      BY <2>t, <3>1, AmountType DEF TokenTypeOK
    <3> QED BY <3>1, <3>2, <3>3
  <2>4. ASSUME NEW amount \in TokenAmounts, NEW by \in Holders \cup {NoAddress},
               NEW to \in Holders, MintTokens(by, to, amount)
        PROVE  FALSE
    <3> DEFINE tb == balances[to]
    <3>1. /\ balances' = [balances EXCEPT ![to] = (tb + amount) % TokenModulus]
          /\ issued' = issued + amount
      BY <2>4 DEF MintTokens
    <3>2. amount \in Nat /\ tb \in Nat
      BY <2>t, AmountType DEF TokenTypeOK, Word
    <3>3. tb <= SumFunction(balances) /\ SumFunction(balances) <= issued
      BY <2>t, PairBounded DEF TokenInv
    <3>4. SumFunction(balances) \in Int
      <4>1. /\ IsFiniteSet(Holders) /\ DOMAIN balances = Holders
            /\ \A x \in Holders : balances[x] \in Int
        BY <2>t, TokenConstants DEF TokenTypeOK, Word
      <4> QED BY <4>1, SumAnyOrder DEF SumFunction
    <3>5. tb + amount \in 0..(TokenModulus - 1)
      <4> HIDE DEF tb
      <4> QED BY <2>t, <3>1, <3>2, <3>3, <3>4
    <3>6. (tb + amount) % TokenModulus = tb + amount
      <4> HIDE DEF tb
      <4> QED BY <2>t, <3>5, ModSmall
    <3>7. balances'[a] = IF a = to THEN tb + amount ELSE balances[a]
      <4>1. a \in DOMAIN balances
        BY <2>t DEF TokenTypeOK
      <4> HIDE DEF tb
      <4> QED BY <3>1, <3>6, <4>1
    <3> QED BY <2>t, <3>2, <3>7
  <2>5. ASSUME NEW amount \in TokenAmounts, NEW by \in Holders, Burn(by, amount)
        PROVE  caller' = a
    <3>1. balances' = [balances EXCEPT ![by] = @ - amount] /\ caller' = by
      BY <2>5 DEF Burn, Log
    <3>2. a # by => balances'[a] = balances[a]
      BY <2>t, <3>1 DEF TokenTypeOK
    <3> QED BY <2>t, <3>1, <3>2
  <2>6. ASSUME ClearEvents PROVE FALSE
    BY <2>6, <2>t DEF ClearEvents
  <2>7. ASSUME BurnNothing PROVE FALSE
    BY <2>7, <2>t DEF BurnNothing
  <2> QED BY <2>1, <2>2, <2>3, <2>4, <2>5, <2>6, <2>7 DEF TokenNext
<1>2. [][TokenNext]_tokenVars /\ []TokenInv => [][Body]_tokenVars
  BY <1>1, PTL
<1>3. TokenSpec => [][Body]_tokenVars
  BY <1>2, TokenInductive, PTL DEF TokenSpec
<1> QED BY <1>3 DEF OnlyWithConsent

-----------------------------------------------------------------------------
(* The ledger.  The value of a table of unspent outputs is a sum.          *)
Amounts(table) == [u \in table |-> u.amount]

LEMMA ValueIsSum ==
  ASSUME NEW S, IsFiniteSet(S)
  PROVE  Value(S) = SumFunctionOnSet(Amounts(S), S)
<1> DEFINE f == Amounts(S)
           U(g) == [s \in SUBSET S |-> IF s = {} THEN 0 ELSE First(s).amount + g[s \ {First(s)}]]
           w == CHOOSE g : g = U(g)
           x == Sums!Fixpoint(0, f, S)
<1>1. Value(S) = w[S]
  BY DEF Value, MapThenSumSet, MapThenFoldSet, First
<1>2. ASSUME NEW g PROVE U(g) = Sums!Unfolded(0, f, S, g)
  <2>1. ASSUME NEW s \in SUBSET S
        PROVE  (IF s = {} THEN 0 ELSE First(s).amount + g[s \ {First(s)}])
                 = (IF s = {} THEN 0 ELSE f[First(s)] + g[s \ {First(s)}])
    <3>1. s # {} => First(s) \in S
      BY FirstIn
    <3> QED BY <3>1 DEF Amounts
  <2> HIDE DEF f
  <2> QED BY <2>1 DEF Sums!Unfolded
<1>3. Sums!Founded(S) /\ Sums!Picks(S)
  BY SumsFounded
<1>4. x = Sums!Unfolded(0, f, S, x)
  BY <1>3, Sums!FixpointExists
<1> HIDE DEF x, f
<1>5. \E g : g = U(g)
  <2>1. x = U(x)
    BY <1>2, <1>4
  <2> HIDE DEF U
  <2> QED BY <2>1
<1>6. w = Sums!Unfolded(0, f, S, w)
  <2>1. w = U(w)
    <3> HIDE DEF U
    <3> QED BY <1>5
  <2> HIDE DEF w, U
  <2> QED BY <1>2, <2>1
<1> HIDE DEF w
<1>7. w[S] = x[S]
  <2>1. S \in SUBSET (S \cap S)
    OBVIOUS
  <2> QED BY <1>3, <1>4, <1>6, <2>1, Sums!FixpointsAgree
<1> QED BY <1>1, <1>7, SumIsFold DEF x, f, Sums!Fold

(* A table whose rows have amounts.                                        *)
Priced(table) == IsFiniteSet(table) /\ \A u \in table : u.amount \in Nat

LEMMA ValueAdd ==
  ASSUME NEW A, NEW B, Priced(A), Priced(B), A \cap B = {}
  PROVE  /\ Priced(A \cup B)
         /\ Value(A) \in Nat /\ Value(B) \in Nat
         /\ Value(A \cup B) = Value(A) + Value(B)
<1> DEFINE C == A \cup B
           f == Amounts(C)
<1>1. IsFiniteSet(A) /\ IsFiniteSet(B) /\ IsFiniteSet(C)
  BY FS_Union DEF Priced
<1>2. /\ \A u \in C : f[u] \in Nat /\ f[u] \in Int
      /\ \A u \in A : f[u] = Amounts(A)[u] /\ Amounts(A)[u] \in Nat
      /\ \A u \in B : f[u] = Amounts(B)[u] /\ Amounts(B)[u] \in Nat
  BY DEF Priced, Amounts
<1> HIDE DEF f
<1>3. /\ Value(A) = SumFunctionOnSet(f, A) /\ Value(B) = SumFunctionOnSet(f, B)
      /\ Value(C) = SumFunctionOnSet(f, C)
  <2>1. Value(A) = SumFunctionOnSet(f, A)
    BY <1>1, <1>2, ValueIsSum, SumSame
  <2>2. Value(B) = SumFunctionOnSet(f, B)
    BY <1>1, <1>2, ValueIsSum, SumSame
  <2>3. Value(C) = SumFunctionOnSet(f, C)
    <3> HIDE DEF C
    <3> QED BY <1>1, ValueIsSum DEF f
  <2> QED BY <2>1, <2>2, <2>3
<1>4. SumFunctionOnSet(f, C) + SumFunctionOnSet(f, A \cap B)
        = SumFunctionOnSet(f, A) + SumFunctionOnSet(f, B)
  BY <1>1, <1>2, SumUnion
<1>5. SumFunctionOnSet(f, A \cap B) = 0
  BY SumEmpty
<1>6. SumFunctionOnSet(f, A) \in Nat /\ SumFunctionOnSet(f, B) \in Nat
      /\ SumFunctionOnSet(f, C) \in Nat
  <2>1. /\ \A u \in A : f[u] \in Nat
        /\ \A u \in B : f[u] \in Nat
        /\ \A u \in C : f[u] \in Nat
    BY <1>2
  <2> HIDE DEF C
  <2> QED BY <1>1, <2>1, SumNat
<1>7. Priced(C)
  BY <1>1 DEF Priced
<1> HIDE DEF C
<1>8. Value(C) = Value(A) + Value(B)
  BY <1>3, <1>4, <1>5, <1>6
<1> QED BY <1>3, <1>6, <1>7, <1>8 DEF C

LEMMA ValueEmpty == Value({}) = 0
BY FS_EmptySet, ValueIsSum, SumEmpty

LEMMA ValueSingleton ==
  ASSUME NEW u, u.amount \in Nat PROVE Priced({u}) /\ Value({u}) = u.amount
<1>1. IsFiniteSet({u})
  BY FS_Singleton
<1>2. Amounts({u})[u] = u.amount
  BY DEF Amounts
<1>3. SumFunctionOnSet(Amounts({u}), {u}) = u.amount
  BY <1>2, SumSingleton
<1> QED BY <1>1, <1>3, ValueIsSum DEF Priced

(* The folds of the ledger, element by element.                            *)
Paying == INSTANCE FoldTheorems WITH Op <- LAMBDA o, sum : sum + o.amount, Pick <- Max

LEMMA PayingFold ==
  ASSUME NEW base
  PROVE  /\ FoldLeft(LAMBDA sum, o : sum + o.amount, base, <<>>) = base
         /\ \A V : \A seq \in Seq(V), x \in V :
              FoldLeft(LAMBDA sum, o : sum + o.amount, base, Append(seq, x))
                = FoldLeft(LAMBDA sum, o : sum + o.amount, base, seq) + x.amount
<1> DEFINE Made(s) == FoldLeft(LAMBDA sum, o : sum + o.amount, base, s)
<1>1. \A s : Made(s) = Paying!Fold(base, s, DOMAIN s)
  BY DEF FoldLeft, MapThenFoldSet, Paying!Fold, Paying!Fixpoint, Paying!Unfolded
<1>2. \A n \in Nat : Paying!Founded(1..n) /\ Paying!Picks(1..n)
  BY LeftFounded DEF Paying!Founded, Paying!Picks
<1>3. \A n \in Nat : Max(1..(n + 1)) = n + 1
  BY MaxInterval
<1>4. Paying!Fold(base, <<>>, DOMAIN <<>>) = base
  <2>1. DOMAIN <<>> = {} /\ 1..0 = {} /\ Paying!Founded(1..0)
    BY <1>2
  <2> QED BY <2>1, Paying!FoldEmpty
<1>5. ASSUME NEW V, NEW seq \in Seq(V), NEW x \in V
      PROVE  Paying!Fold(base, Append(seq, x), DOMAIN Append(seq, x))
               = Paying!Fold(base, seq, DOMAIN seq) + x.amount
  BY <1>2, <1>3, Paying!FoldAppend
<1> QED BY <1>1, <1>4, <1>5

Applying == INSTANCE FoldTheorems WITH Op <- LAMBDA tx, s : ApplyTx(s, tx), Pick <- Max

LEMMA ApplyingFold ==
  ASSUME NEW base
  PROVE  /\ FoldLeft(ApplyTx, base, <<>>) = base
         /\ \A V : \A seq \in Seq(V), x \in V :
              FoldLeft(ApplyTx, base, Append(seq, x))
                = ApplyTx(FoldLeft(ApplyTx, base, seq), x)
<1> DEFINE Made(s) == FoldLeft(ApplyTx, base, s)
<1>1. \A s : Made(s) = Applying!Fold(base, s, DOMAIN s)
  BY DEF FoldLeft, MapThenFoldSet, Applying!Fold, Applying!Fixpoint, Applying!Unfolded
<1>2. \A n \in Nat : Applying!Founded(1..n) /\ Applying!Picks(1..n)
  BY LeftFounded DEF Applying!Founded, Applying!Picks
<1>3. \A n \in Nat : Max(1..(n + 1)) = n + 1
  BY MaxInterval
<1>4. Applying!Fold(base, <<>>, DOMAIN <<>>) = base
  <2>1. DOMAIN <<>> = {} /\ 1..0 = {} /\ Applying!Founded(1..0)
    BY <1>2
  <2> QED BY <2>1, Applying!FoldEmpty
<1>5. ASSUME NEW V, NEW seq \in Seq(V), NEW x \in V
      PROVE  Applying!Fold(base, Append(seq, x), DOMAIN Append(seq, x))
               = ApplyTx(Applying!Fold(base, seq, DOMAIN seq), x)
  BY <1>2, <1>3, Applying!FoldAppend
<1> QED BY <1>1, <1>4, <1>5

Minting == INSTANCE FoldTheorems WITH Op <- LAMBDA tx, sum : sum + MintedBy(tx), Pick <- Max

LEMMA MintingFold ==
  ASSUME NEW base
  PROVE  /\ FoldLeft(LAMBDA sum, tx : sum + MintedBy(tx), base, <<>>) = base
         /\ \A V : \A seq \in Seq(V), x \in V :
              FoldLeft(LAMBDA sum, tx : sum + MintedBy(tx), base, Append(seq, x))
                = FoldLeft(LAMBDA sum, tx : sum + MintedBy(tx), base, seq) + MintedBy(x)
<1> DEFINE Made(s) == FoldLeft(LAMBDA sum, tx : sum + MintedBy(tx), base, s)
<1>1. \A s : Made(s) = Minting!Fold(base, s, DOMAIN s)
  BY DEF FoldLeft, MapThenFoldSet, Minting!Fold, Minting!Fixpoint, Minting!Unfolded
<1>2. \A n \in Nat : Minting!Founded(1..n) /\ Minting!Picks(1..n)
  BY LeftFounded DEF Minting!Founded, Minting!Picks
<1>3. \A n \in Nat : Max(1..(n + 1)) = n + 1
  BY MaxInterval
<1>4. Minting!Fold(base, <<>>, DOMAIN <<>>) = base
  <2>1. DOMAIN <<>> = {} /\ 1..0 = {} /\ Minting!Founded(1..0)
    BY <1>2
  <2> QED BY <2>1, Minting!FoldEmpty
<1>5. ASSUME NEW V, NEW seq \in Seq(V), NEW x \in V
      PROVE  Minting!Fold(base, Append(seq, x), DOMAIN Append(seq, x))
               = Minting!Fold(base, seq, DOMAIN seq) + MintedBy(x)
  BY <1>2, <1>3, Minting!FoldAppend
<1> QED BY <1>1, <1>4, <1>5

Charging == INSTANCE FoldTheorems WITH Op <- LAMBDA tx, sum : sum + tx.fee, Pick <- Max

LEMMA ChargingFold ==
  ASSUME NEW base
  PROVE  /\ FoldLeft(LAMBDA sum, tx : sum + tx.fee, base, <<>>) = base
         /\ \A V : \A seq \in Seq(V), x \in V :
              FoldLeft(LAMBDA sum, tx : sum + tx.fee, base, Append(seq, x))
                = FoldLeft(LAMBDA sum, tx : sum + tx.fee, base, seq) + x.fee
<1> DEFINE Made(s) == FoldLeft(LAMBDA sum, tx : sum + tx.fee, base, s)
<1>1. \A s : Made(s) = Charging!Fold(base, s, DOMAIN s)
  BY DEF FoldLeft, MapThenFoldSet, Charging!Fold, Charging!Fixpoint, Charging!Unfolded
<1>2. \A n \in Nat : Charging!Founded(1..n) /\ Charging!Picks(1..n)
  BY LeftFounded DEF Charging!Founded, Charging!Picks
<1>3. \A n \in Nat : Max(1..(n + 1)) = n + 1
  BY MaxInterval
<1>4. Charging!Fold(base, <<>>, DOMAIN <<>>) = base
  <2>1. DOMAIN <<>> = {} /\ 1..0 = {} /\ Charging!Founded(1..0)
    BY <1>2
  <2> QED BY <2>1, Charging!FoldEmpty
<1>5. ASSUME NEW V, NEW seq \in Seq(V), NEW x \in V
      PROVE  Charging!Fold(base, Append(seq, x), DOMAIN Append(seq, x))
               = Charging!Fold(base, seq, DOMAIN seq) + x.fee
  BY <1>2, <1>3, Charging!FoldAppend
<1> QED BY <1>1, <1>4, <1>5

Replaying == INSTANCE FoldTheorems WITH Op <- LAMBDA b, s : ReplayBlock(s, b), Pick <- Max

LEMMA ReplayingFold ==
  ASSUME NEW base
  PROVE  /\ FoldLeft(ReplayBlock, base, <<>>) = base
         /\ \A V : \A seq \in Seq(V), x \in V :
              FoldLeft(ReplayBlock, base, Append(seq, x))
                = ReplayBlock(FoldLeft(ReplayBlock, base, seq), x)
<1> DEFINE Made(s) == FoldLeft(ReplayBlock, base, s)
<1>1. \A s : Made(s) = Replaying!Fold(base, s, DOMAIN s)
  BY DEF FoldLeft, MapThenFoldSet, Replaying!Fold, Replaying!Fixpoint, Replaying!Unfolded
<1>2. \A n \in Nat : Replaying!Founded(1..n) /\ Replaying!Picks(1..n)
  BY LeftFounded DEF Replaying!Founded, Replaying!Picks
<1>3. \A n \in Nat : Max(1..(n + 1)) = n + 1
  BY MaxInterval
<1>4. Replaying!Fold(base, <<>>, DOMAIN <<>>) = base
  <2>1. DOMAIN <<>> = {} /\ 1..0 = {} /\ Replaying!Founded(1..0)
    BY <1>2
  <2> QED BY <2>1, Replaying!FoldEmpty
<1>5. ASSUME NEW V, NEW seq \in Seq(V), NEW x \in V
      PROVE  Replaying!Fold(base, Append(seq, x), DOMAIN Append(seq, x))
               = ReplayBlock(Replaying!Fold(base, seq, DOMAIN seq), x)
  BY <1>2, <1>3, Replaying!FoldAppend
<1> QED BY <1>1, <1>4, <1>5

(* The rows a transaction creates.                                         *)
Row(id, n, o) == [tx |-> id, idx |-> n, address |-> o.address, amount |-> o.amount]

Rows(id, outputs) == {Row(id, n, outputs[n]) : n \in DOMAIN outputs}

LEMMA AmountAppend ==
  /\ Amount(<<>>) = 0
  /\ \A V : \A seq \in Seq(V), x \in V : Amount(Append(seq, x)) = Amount(seq) + x.amount
BY PayingFold DEF Amount

LEMMA RowsValue ==
  ASSUME NEW T, \A o \in T : o.amount \in Nat, NEW id, NEW outputs \in Seq(T)
  PROVE  /\ Priced(Rows(id, outputs))
         /\ Value(Rows(id, outputs)) = Amount(outputs)
         /\ Amount(outputs) \in Nat
<1> DEFINE G == {s \in Seq(T) : /\ Priced(Rows(id, s))
                                /\ Value(Rows(id, s)) = Amount(s)
                                /\ Amount(s) \in Nat}
<1>1. <<>> \in G
  <2>1. Rows(id, <<>>) = {}
    BY DEF Rows
  <2>2. Priced({})
    BY FS_EmptySet DEF Priced
  <2>3. Amount(<<>>) = 0
    BY AmountAppend
  <2>4. <<>> \in Seq(T)
    OBVIOUS
  <2>5. Value(Rows(id, <<>>)) = Amount(<<>>)
    BY <2>1, <2>3, ValueEmpty, Zenon
  <2>7. Amount(<<>>) \in Nat
    BY <2>3
  <2>6. Priced(Rows(id, <<>>))
    BY <2>1, <2>2
  <2> QED BY <2>4, <2>5, <2>6, <2>7, Zenon
<1>2. ASSUME NEW s \in Seq(T), NEW x \in T, s \in G PROVE Append(s, x) \in G
  <2> DEFINE row == Row(id, Len(s) + 1, x)
             next == Append(s, x)
  <2>1. next \in Seq(T) /\ DOMAIN next = DOMAIN s \cup {Len(s) + 1} /\ Len(s) + 1 \notin DOMAIN s
        /\ next[Len(s) + 1] = x /\ \A n \in DOMAIN s : next[n] = s[n]
    OBVIOUS
  <2>2. Rows(id, next) = Rows(id, s) \cup {row}
    <3> HIDE DEF next
    <3> QED BY <2>1 DEF Rows
  <2>3. Rows(id, s) \cap {row} = {}
    BY <2>1 DEF Rows, Row
  <2>4. row.amount = x.amount /\ x.amount \in Nat
    BY DEF Row
  <2>5. Amount(next) = Amount(s) + x.amount
    BY AmountAppend
  <2> HIDE DEF row, next
  <2>6. Priced({row}) /\ Value({row}) = x.amount
    BY <2>4, ValueSingleton
  <2>7. Priced(Rows(id, s)) /\ Value(Rows(id, s)) = Amount(s) /\ Amount(s) \in Nat
    BY <1>2
  <2>8. /\ Priced(Rows(id, s) \cup {row})
        /\ Value(Rows(id, s) \cup {row}) = Value(Rows(id, s)) + Value({row})
    BY <2>3, <2>6, <2>7, ValueAdd
  <2>9. Value(Rows(id, next)) = Amount(next) /\ Amount(next) \in Nat
    BY <2>2, <2>4, <2>5, <2>6, <2>7, <2>8
  <2> QED BY <2>1, <2>2, <2>8, <2>9 DEF next
<1>3. Seq(T) \subseteq G
  <2> HIDE DEF G
  <2> QED BY <1>1, <1>2, SeqInduction
<1> QED BY <1>3

(* A transaction creates as much as it pays.                               *)
LEMMA CreatedValue ==
  ASSUME NEW tx, WellFormed(tx)
  PROVE  /\ Priced(Created(tx)) /\ Value(Created(tx)) = Amount(tx.outputs)
         /\ Amount(tx.outputs) \in Nat /\ tx.fee \in Nat
<1> DEFINE T == ToSet(tx.outputs)
<1>1. tx.outputs \in Seq(T) /\ tx.fee \in Nat
  BY DEF WellFormed
<1>2. \A o \in T : o.amount \in Nat
  BY DEF WellFormed, ToSet
<1>3. Created(tx) = Rows(tx.id, tx.outputs)
  BY DEF Created, Rows, Row
<1> HIDE DEF T
<1> QED BY <1>1, <1>2, <1>3, RowsValue

Balanced(table, next, charged, made) == Value(next) + charged = Value(table) + made

(* One transaction: what it spends is gone, what it creates is new, and    *)
(* the difference is the fee.                                              *)
LEMMA AppliedOnce ==
  ASSUME NEW s, s = [ok |-> s.ok, utxos |-> s.utxos], Priced(s.utxos), NEW tx, WellFormed(tx)
  PROVE  LET r == ApplyTx(s, tx)
         IN  /\ r = [ok |-> r.ok, utxos |-> r.utxos]
             /\ r.ok => /\ s.ok
                        /\ Priced(r.utxos)
                        /\ Balanced(s.utxos, r.utxos, tx.fee, MintedBy(tx))
                        /\ r.utxos \subseteq s.utxos \cup Created(tx)
<1> DEFINE r == ApplyTx(s, tx)
           table == s.utxos
           spent == Referred(tx, table)
           rest == table \ spent
           made == Created(tx)
           good == s.ok /\ (tx.inputs # {} => ValidInputs(tx, table)) /\ Insertable(made, rest)
<1>1. r = IF good THEN [ok |-> TRUE, utxos |-> rest \cup made]
                  ELSE [s EXCEPT !.ok = FALSE]
  BY DEF ApplyTx
<1>2. r = [ok |-> r.ok, utxos |-> r.utxos] /\ (r.ok => good) /\ (good => r.utxos = rest \cup made)
  <2> HIDE DEF good, rest, made, r
  <2>1. CASE good
    BY <1>1, <2>1
  <2>2. CASE ~good
    <3>1. r = [ok |-> FALSE, utxos |-> s.utxos]
      BY <1>1, <2>2
    <3> QED BY <2>2, <3>1
  <2> QED BY <2>1, <2>2
<1>3. ASSUME r.ok PROVE Priced(r.utxos) /\ Balanced(table, r.utxos, tx.fee, MintedBy(tx))
                        /\ r.utxos \subseteq table \cup made
  <2>1. s.ok /\ (tx.inputs # {} => ValidInputs(tx, table)) /\ Insertable(made, rest)
        /\ r.utxos = rest \cup made
    BY <1>2, <1>3
  <2>2. spent \subseteq table
    BY DEF Referred
  <2>3. Priced(spent) /\ Priced(rest)
    BY <2>2, FS_Subset, FS_Difference DEF Priced
  <2>4. rest \cap made = {}
    BY <2>1 DEF Insertable
  <2>5. Priced(made) /\ Value(made) = Amount(tx.outputs) /\ Amount(tx.outputs) \in Nat /\ tx.fee \in Nat
    BY CreatedValue
  <2>6. rest \cup spent = table /\ rest \cap spent = {}
    BY <2>2
  <2>7. tx.inputs = {} => spent = {}
    BY DEF Referred
  <2>8. tx.inputs # {} => Value(spent) = Amount(tx.outputs) + tx.fee
    BY <2>1 DEF ValidInputs
  <2> HIDE DEF r, table, rest, made, spent, good
  <2>9. Value(rest) \in Nat /\ Value(spent) \in Nat /\ Value(table) = Value(rest) + Value(spent)
    BY <2>3, <2>6, ValueAdd
  <2>10. Priced(r.utxos) /\ Value(r.utxos) = Value(rest) + Value(made)
    BY <2>1, <2>3, <2>4, <2>5, ValueAdd
  <2>11. Value(rest) + Amount(tx.outputs) + tx.fee = Value(rest) + Value(spent) + MintedBy(tx)
    <3>1. CASE tx.inputs = {}
      BY <2>5, <2>7, <2>9, <3>1, ValueEmpty DEF MintedBy
    <3>2. CASE tx.inputs # {}
      BY <2>5, <2>8, <2>9, <3>2 DEF MintedBy
    <3> QED BY <3>1, <3>2
  <2>12. Balanced(table, r.utxos, tx.fee, MintedBy(tx))
    BY <2>5, <2>9, <2>10, <2>11 DEF Balanced
  <2> QED BY <2>1, <2>6, <2>10, <2>12
<1>4. r.ok => s.ok
  BY <1>2
<1> HIDE DEF r
<1> QED BY <1>2, <1>3, <1>4 DEF r

LEMMA MintedByType == ASSUME NEW tx, WellFormed(tx) PROVE MintedBy(tx) \in Nat
BY CreatedValue DEF MintedBy

LEMMA FeesAppend ==
  /\ Fees(<<>>) = 0
  /\ \A V : \A seq \in Seq(V), x \in V : Fees(Append(seq, x)) = Fees(seq) + x.fee
BY ChargingFold DEF Fees

LEMMA MintedAppend ==
  /\ Minted(<<>>) = 0
  /\ \A V : \A seq \in Seq(V), x \in V : Minted(Append(seq, x)) = Minted(seq) + MintedBy(x)
BY MintingFold DEF Minted

LEMMA ApplyTxsAppend ==
  ASSUME NEW table
  PROVE  /\ ApplyTxs(table, <<>>) = [ok |-> TRUE, utxos |-> table]
         /\ \A V : \A seq \in Seq(V), x \in V :
              ApplyTxs(table, Append(seq, x)) = ApplyTx(ApplyTxs(table, seq), x)
BY ApplyingFold DEF ApplyTxs

MadeBy(u, txs) == \E tx \in ToSet(txs) : u \in Created(tx)

AppliedWell(table, txs) ==
  LET r == ApplyTxs(table, txs)
  IN  /\ r = [ok |-> r.ok, utxos |-> r.utxos]
      /\ Fees(txs) \in Nat /\ Minted(txs) \in Nat
      /\ r.ok => /\ Priced(r.utxos)
                 /\ Balanced(table, r.utxos, Fees(txs), Minted(txs))
                 /\ \A u \in r.utxos : u \in table \/ MadeBy(u, txs)

(* A list of transactions, by induction over the list.                     *)
LEMMA AppliedAll ==
  ASSUME NEW T, \A tx \in T : WellFormed(tx), NEW table, Priced(table), NEW txs \in Seq(T)
  PROVE  AppliedWell(table, txs)
<1> DEFINE G == {s \in Seq(T) : AppliedWell(table, s)}
<1>0. Value(table) \in Nat
  <2>1. Priced({}) /\ table \cap {} = {}
    BY FS_EmptySet DEF Priced
  <2> QED BY <2>1, ValueAdd
<1>1. <<>> \in G
  <2>1. <<>> \in Seq(T)
    OBVIOUS
  <2> DEFINE r == ApplyTxs(table, <<>>)
  <2>2. r = [ok |-> TRUE, utxos |-> table]
    BY ApplyTxsAppend
  <2>3. Fees(<<>>) = 0 /\ Minted(<<>>) = 0
    BY FeesAppend, MintedAppend
  <2> HIDE DEF r
  <2>4. r.utxos = table /\ r = [ok |-> r.ok, utxos |-> r.utxos]
    BY <2>2
  <2>5. Fees(<<>>) \in Nat /\ Minted(<<>>) \in Nat
    BY <2>3
  <2>6. Balanced(table, r.utxos, 0, 0)
    BY <2>4 DEF Balanced
  <2>7. Balanced(table, r.utxos, Fees(<<>>), Minted(<<>>))
    BY <2>3, <2>6, Zenon
  <2>8. Priced(r.utxos) /\ \A u \in r.utxos : u \in table
    BY <2>4
  <2>9. AppliedWell(table, <<>>)
    BY <2>4, <2>5, <2>7, <2>8, Zenon DEF AppliedWell, r
  <2> QED BY <2>1, <2>9, Zenon
<1>2. ASSUME NEW s \in Seq(T), NEW x \in T, s \in G PROVE Append(s, x) \in G
  <2> DEFINE next == Append(s, x)
             p == ApplyTxs(table, s)
             r == ApplyTxs(table, next)
  <2>1. next \in Seq(T) /\ ToSet(next) = ToSet(s) \cup {x}
    BY AppendProperties DEF ToSet
  <2>2. r = ApplyTx(p, x)
    <3>1. \A V : \A seq \in Seq(V), y \in V :
            ApplyTxs(table, Append(seq, y)) = ApplyTx(ApplyTxs(table, seq), y)
      BY ApplyTxsAppend
    <3> QED BY <3>1, Zenon
  <2>3. Fees(next) = Fees(s) + x.fee /\ Minted(next) = Minted(s) + MintedBy(x)
    <3>1. Fees(next) = Fees(s) + x.fee
      BY FeesAppend
    <3>2. Minted(next) = Minted(s) + MintedBy(x)
      BY MintedAppend
    <3> QED BY <3>1, <3>2
  <2>4. WellFormed(x) /\ x.fee \in Nat /\ MintedBy(x) \in Nat
    BY CreatedValue, MintedByType
  <2>5. AppliedWell(table, s)
    BY <1>2
  <2>6. /\ p = [ok |-> p.ok, utxos |-> p.utxos]
        /\ Fees(s) \in Nat /\ Minted(s) \in Nat
        /\ p.ok => /\ Priced(p.utxos)
                   /\ Balanced(table, p.utxos, Fees(s), Minted(s))
                   /\ \A u \in p.utxos : u \in table \/ MadeBy(u, s)
    BY <2>5 DEF AppliedWell
  <2> HIDE DEF p, next, r
  <2>7. Fees(next) \in Nat /\ Minted(next) \in Nat
    BY <2>3, <2>4, <2>6
  <2>8. r = [ok |-> r.ok, utxos |-> r.utxos] /\ (r.ok => p.ok)
    BY <2>2, <2>6 DEF ApplyTx
  <2>9. ASSUME r.ok
        PROVE  /\ Priced(r.utxos)
               /\ Balanced(table, r.utxos, Fees(next), Minted(next))
               /\ \A u \in r.utxos : u \in table \/ MadeBy(u, next)
    <3>1. /\ Priced(p.utxos)
          /\ Balanced(table, p.utxos, Fees(s), Minted(s))
          /\ \A u \in p.utxos : u \in table \/ MadeBy(u, s)
      BY <2>6, <2>8, <2>9
    <3>2. /\ Priced(r.utxos)
          /\ Balanced(p.utxos, r.utxos, x.fee, MintedBy(x))
          /\ r.utxos \subseteq p.utxos \cup Created(x)
      BY <2>2, <2>4, <2>6, <2>9, <3>1, AppliedOnce
    <3>3. Value(p.utxos) \in Nat /\ Value(r.utxos) \in Nat
      <4>1. Priced({}) /\ p.utxos \cap {} = {} /\ r.utxos \cap {} = {}
        BY FS_EmptySet DEF Priced
      <4>2. Value(p.utxos) \in Nat
        BY <3>1, <4>1, ValueAdd
      <4>3. Value(r.utxos) \in Nat
        BY <3>2, <4>1, ValueAdd
      <4> QED BY <4>2, <4>3
    <3>4. Balanced(table, r.utxos, Fees(next), Minted(next))
      BY <1>0, <2>3, <2>4, <2>6, <3>1, <3>2, <3>3, SMTT(40) DEF Balanced
    <3>5. \A u \in r.utxos : u \in table \/ MadeBy(u, next)
      BY <2>1, <3>1, <3>2 DEF MadeBy
    <3> QED BY <3>2, <3>4, <3>5
  <2>10. AppliedWell(table, next)
    BY <2>7, <2>8, <2>9, Zenon DEF AppliedWell, r
  <2> QED BY <2>1, <2>10 DEF next
<1>3. Seq(T) \subseteq G
  <2> HIDE DEF G
  <2> QED BY <1>1, <1>2, SeqInduction
<1> QED BY <1>3

(* The inductive invariant.  Blocks that are applied have transactions of  *)
(* different ids; the index holds exactly the last use of each id; every   *)
(* unspent output was there from the start or was made by a transaction of *)
(* an applied block.                                                       *)
LastUse(id, k) == \A j \in DOMAIN applied : id \in Ids(applied[j].txs) => j <= k

Stored(r, k) == \E tx \in ToSet(applied[k].txs) :
                  r = [tx |-> tx, block_hash |-> applied[k]] /\ LastUse(tx.id, k)

DistinctIds(b) == \A m, n \in DOMAIN b.txs : b.txs[m].id = b.txs[n].id => m = n

IndexExact == \A r : r \in transactions <=> \E k \in DOMAIN applied : Stored(r, k)

Traced == \A u \in utxos : u \in Allocation \/ \E k \in DOMAIN applied : MadeBy(u, applied[k].txs)

LedgerInv ==
  /\ applied \in Seq(Blocks)
  /\ \A k \in DOMAIN applied : DistinctIds(applied[k])
  /\ Priced(utxos)
  /\ minted \in Nat /\ fees \in Nat
  /\ Conservation
  /\ TablesAreReplay
  /\ IndexExact
  /\ Traced

LEMMA ValueType == ASSUME NEW table, Priced(table) PROVE Value(table) \in Nat
<1>1. Priced({}) /\ table \cap {} = {}
  BY FS_EmptySet DEF Priced
<1> QED BY <1>1, ValueAdd

LEMMA AppliedAfter ==
  ASSUME LedgerInv, NEW b \in Blocks, Add(b)
  PROVE  /\ Len(applied) \in Nat /\ DOMAIN applied = 1..Len(applied)
         /\ applied' = Append(applied, b) /\ applied' \in Seq(Blocks)
         /\ DOMAIN applied' = DOMAIN applied \cup {Len(applied) + 1}
         /\ applied'[Len(applied) + 1] = b
         /\ \A k \in DOMAIN applied : applied'[k] = applied[k]
<1>1. applied \in Seq(Blocks)
  BY DEF LedgerInv
<1>2. applied' = Append(applied, b)
  BY DEF Add, ApplyBlock
<1> QED BY <1>1, <1>2

(* The row of a height is that of the last block applied for it.           *)
LEMMA AddRows ==
  ASSUME LedgerInv, NEW b \in Blocks, Add(b)
  PROVE  /\ DOMAIN blocks' = {applied'[k].height : k \in DOMAIN applied'}
         /\ \A h \in DOMAIN blocks' : blocks'[h] = Newest(h)'
<1> DEFINE n == Len(applied) + 1
<1>1. /\ Len(applied) \in Nat /\ DOMAIN applied = 1..Len(applied)
      /\ DOMAIN applied' = DOMAIN applied \cup {n} /\ applied'[n] = b
      /\ \A k \in DOMAIN applied : applied'[k] = applied[k]
  BY AppliedAfter
<1>2. blocks' = [h \in DOMAIN blocks \cup {b.height} |-> IF h = b.height THEN b ELSE blocks[h]]
  BY DEF Add, ApplyBlock, Save
<1>3. /\ DOMAIN blocks = {applied[k].height : k \in DOMAIN applied}
      /\ \A h \in DOMAIN blocks : blocks[h] = Newest(h)
  BY DEF LedgerInv, TablesAreReplay
<1>4. n \in Nat /\ DOMAIN applied' \subseteq 0..n /\ \A k \in DOMAIN applied' : ~(k > n)
  BY <1>1
<1> HIDE DEF n
<1>5. DOMAIN blocks' = {applied'[k].height : k \in DOMAIN applied'}
  BY <1>1, <1>2, <1>3
<1>6. ASSUME NEW h \in DOMAIN blocks' PROVE blocks'[h] = Newest(h)'
  <2> DEFINE s == {k \in DOMAIN applied : applied[k].height = h}
             t == {k \in DOMAIN applied' : applied'[k].height = h}
  <2>1. Newest(h) = applied[Max(s)] /\ Newest(h)' = applied'[Max(t)]
    BY DEF Newest
  <2>2. CASE h = b.height
    <3>1. t \in SUBSET (0..n) /\ n \in t
      BY <1>1, <1>4, <2>2
    <3>2. \A k \in t : ~(k > n) /\ k \in Nat
      BY <1>4
    <3> HIDE DEF t
    <3>3. Max(t) \in t /\ Max(t) >= n
      BY <1>4, <3>1, MaxIn
    <3>4. Max(t) = n
      BY <1>4, <3>2, <3>3
    <3> QED BY <1>1, <1>2, <2>1, <2>2, <3>4
  <2>3. CASE h # b.height
    <3>1. h \in DOMAIN blocks /\ blocks'[h] = blocks[h] /\ blocks[h] = applied[Max(s)]
      BY <1>2, <1>3, <2>1, <2>3
    <3>2. s = t
      BY <1>1, <2>3
    <3>3. s # {} /\ s \in SUBSET (0..n) /\ s \subseteq DOMAIN applied
      BY <1>1, <1>3, <1>4, <3>1
    <3> HIDE DEF s, t
    <3>4. Max(s) \in DOMAIN applied
      BY <1>4, <3>3, MaxIn
    <3> QED BY <1>1, <2>1, <3>1, <3>2, <3>4
  <2> QED BY <2>2, <2>3
<1> QED BY <1>5, <1>6

LEMMA LedgerStart == LedgerInit => LedgerInv
<1> SUFFICES ASSUME LedgerInit PROVE LedgerInv
  OBVIOUS
<1>1. blocks = <<>> /\ applied = <<>> /\ utxos = Allocation /\ transactions = {} /\ minted = Value(Allocation) /\ fees = 0
  BY DEF LedgerInit, Value
<1>2. applied \in Seq(Blocks) /\ DOMAIN applied = {} /\ DOMAIN blocks = {}
  BY <1>1
<1>3. Priced(utxos)
  BY <1>1, LedgerConstants DEF Priced
<1>4. Value(utxos) \in Nat
  BY <1>3, ValueType
<1>5. minted \in Nat /\ fees \in Nat /\ Conservation
  BY <1>1, <1>4 DEF Conservation
<1>6. TablesAreReplay
  BY <1>1, <1>2, ReplayingFold DEF TablesAreReplay
<1>7. IndexExact /\ Traced
  BY <1>1, <1>2 DEF IndexExact, Traced
<1> QED BY <1>2, <1>3, <1>5, <1>6, <1>7, Zenon DEF LedgerInv

LEMMA BlockWellFormed ==
  ASSUME NEW b \in Blocks
  PROVE  b.txs \in Seq(ToSet(b.txs)) /\ \A tx \in ToSet(b.txs) : WellFormed(tx)
BY LedgerConstants

(* A block is applied to the table as a whole.                             *)
LEMMA AddUtxos ==
  ASSUME LedgerInv, NEW b \in Blocks, Add(b)
  PROVE  /\ Priced(utxos')
         /\ minted' \in Nat /\ fees' \in Nat
         /\ Conservation'
         /\ TablesAreReplay'
         /\ Traced'
<1> DEFINE r == ApplyTxs(utxos, b.txs)
           T == ToSet(b.txs)
<1>1. r.ok /\ utxos' = r.utxos /\ minted' = minted + Minted(b.txs) /\ fees' = fees + Fees(b.txs)
  BY DEF Add, ApplyBlock
<1>2. AppliedWell(utxos, b.txs)
  <2>1. b.txs \in Seq(T) /\ (\A tx \in T : WellFormed(tx)) /\ Priced(utxos)
    BY BlockWellFormed DEF LedgerInv
  <2> HIDE DEF T
  <2> QED BY <2>1, AppliedAll
<1>3. /\ r = [ok |-> r.ok, utxos |-> r.utxos]
      /\ Fees(b.txs) \in Nat /\ Minted(b.txs) \in Nat
      /\ Priced(r.utxos)
      /\ Balanced(utxos, r.utxos, Fees(b.txs), Minted(b.txs))
      /\ \A u \in r.utxos : u \in utxos \/ MadeBy(u, b.txs)
  BY <1>1, <1>2 DEF AppliedWell
<1>4. applied' = Append(applied, b) /\ applied \in Seq(Blocks)
  BY AppliedAfter DEF LedgerInv
<1>5. Priced(utxos)
  BY DEF LedgerInv
<1>6. Value(utxos) + fees = minted /\ minted \in Nat /\ fees \in Nat
  BY DEF LedgerInv, Conservation
<1>7. TablesAreReplay'
  <2> DEFINE base == [ok |-> TRUE, utxos |-> Allocation]
  <2>1. FoldLeft(ReplayBlock, base, applied) = [ok |-> TRUE, utxos |-> utxos]
    BY DEF LedgerInv, TablesAreReplay
  <2>2. \A V : \A seq \in Seq(V), x \in V :
          FoldLeft(ReplayBlock, base, Append(seq, x)) = ReplayBlock(FoldLeft(ReplayBlock, base, seq), x)
    BY ReplayingFold
  <2>3. FoldLeft(ReplayBlock, base, Append(applied, b))
          = ReplayBlock(FoldLeft(ReplayBlock, base, applied), b)
    BY <1>4, <2>2, Zenon
  <2>4. ReplayBlock([ok |-> TRUE, utxos |-> utxos], b) = r
    BY DEF ReplayBlock, ApplyTxs
  <2>5. r = [ok |-> TRUE, utxos |-> r.utxos]
    <3> HIDE DEF r
    <3>1. r.ok = TRUE
      BY <1>1, <1>3
    <3> QED BY <1>3, <3>1
  <2>6. FoldLeft(ReplayBlock, base, applied') = [ok |-> TRUE, utxos |-> utxos']
    BY <1>1, <1>4, <2>1, <2>3, <2>4, <2>5, Zenon
  <2> QED BY <2>6, AddRows DEF TablesAreReplay
<1> HIDE DEF r
<1>8. Traced'
  <2> SUFFICES ASSUME NEW u \in utxos', u \notin Allocation
               PROVE  \E h \in DOMAIN applied' : MadeBy(u, applied'[h].txs)
    BY DEF Traced
  <2>1. DOMAIN applied' = DOMAIN applied \cup {Len(applied) + 1} /\ applied'[Len(applied) + 1] = b
        /\ \A h \in DOMAIN applied : applied'[h] = applied[h]
    BY <1>4
  <2>2. CASE u \in utxos
    <3>1. PICK h \in DOMAIN applied : MadeBy(u, applied[h].txs)
      BY <2>2 DEF LedgerInv, Traced
    <3> QED BY <2>1, <3>1
  <2>3. CASE u \notin utxos
    <3>1. MadeBy(u, b.txs)
      BY <1>1, <1>3, <2>3
    <3> QED BY <2>1, <3>1
  <2> QED BY <2>2, <2>3
<1>9. Value(utxos) \in Nat /\ Value(r.utxos) \in Nat
  BY <1>3, <1>5, ValueType
<1>10. Value(utxos') + fees' = minted' /\ minted' \in Nat /\ fees' \in Nat
  BY <1>1, <1>3, <1>6, <1>9 DEF Balanced
<1>11. Conservation'
  BY <1>10 DEF Conservation
<1> QED BY <1>1, <1>3, <1>7, <1>8, <1>10, <1>11

(* A later use of an id takes the place of the earlier ones.               *)
LEMMA AddIndex == ASSUME LedgerInv, NEW b \in Blocks, Add(b) PROVE IndexExact'
<1> DEFINE n == Len(applied) + 1
<1>1. /\ Len(applied) \in Nat /\ DOMAIN applied = 1..Len(applied)
      /\ DOMAIN applied' = DOMAIN applied \cup {n} /\ applied'[n] = b
      /\ \A h \in DOMAIN applied : applied'[h] = applied[h]
  BY AppliedAfter
<1>2. transactions' = {r \in transactions : r.tx.id \notin Ids(b.txs)}
                        \cup {[tx |-> tx, block_hash |-> b] : tx \in ToSet(b.txs)}
  BY DEF Add, ApplyBlock, Indexed
<1>3. \A h \in DOMAIN applied : h <= n /\ ~(n <= h)
  BY <1>1
<1> HIDE DEF n
<1>4. ASSUME NEW id, NEW h \in DOMAIN applied
      PROVE  LastUse(id, h)' <=> LastUse(id, h) /\ id \notin Ids(b.txs)
  BY <1>1, <1>3 DEF LastUse
<1>5. ASSUME NEW id, NEW h \in {n} PROVE LastUse(id, h)'
  <2>1. n <= n
    BY <1>1 DEF n
  <2> QED BY <1>1, <1>3, <2>1 DEF LastUse
<1>6. ASSUME NEW r, NEW h \in DOMAIN applied
      PROVE  Stored(r, h)' <=> Stored(r, h) /\ r.tx.id \notin Ids(b.txs)
  BY <1>1, <1>4 DEF Stored
<1>7. ASSUME NEW r, NEW h \in {n}
      PROVE  Stored(r, h)' <=> \E tx \in ToSet(b.txs) : r = [tx |-> tx, block_hash |-> b]
  BY <1>1, <1>5 DEF Stored
<1>8. ASSUME NEW r PROVE r \in transactions <=> \E h \in DOMAIN applied : Stored(r, h)
  BY DEF LedgerInv, IndexExact
<1>9. ASSUME NEW r
      PROVE  r \in transactions' <=> \E h \in DOMAIN applied' : Stored(r, h)'
  BY <1>1, <1>2, <1>6, <1>7, <1>8
<1> QED BY <1>9 DEF IndexExact

LEMMA LedgerInductive == LedgerSpec => []LedgerInv
<1>1. LedgerInv /\ [LedgerNext]_ledgerVars => LedgerInv'
  <2> SUFFICES ASSUME LedgerInv, [LedgerNext]_ledgerVars PROVE LedgerInv'
    OBVIOUS
  <2>1. CASE \E b \in Blocks : Add(b)
    <3>1. PICK b \in Blocks : Add(b)
      BY <2>1
    <3>2. applied' \in Seq(Blocks)
      BY <3>1, AppliedAfter
    <3>3. ASSUME NEW h \in DOMAIN applied' PROVE DistinctIds(applied'[h])
      <4>1. DistinctIds(b)
        BY <3>1 DEF Add, DistinctIds
      <4>2. CASE h \in DOMAIN applied
        BY <3>1, <4>2, AppliedAfter DEF LedgerInv
      <4>3. CASE h \notin DOMAIN applied
        BY <3>1, <4>1, <4>3, AppliedAfter
      <4> QED BY <4>2, <4>3
    <3>4. /\ Priced(utxos') /\ minted' \in Nat /\ fees' \in Nat
          /\ Conservation' /\ TablesAreReplay' /\ Traced'
      BY <3>1, AddUtxos
    <3>5. IndexExact'
      BY <3>1, AddIndex
    <3> QED BY <3>2, <3>3, <3>4, <3>5 DEF LedgerInv, DistinctIds
  <2>2. CASE ~ \E b \in Blocks : Add(b)
    <3>1. applied' = applied /\ blocks' = blocks /\ utxos' = utxos /\ transactions' = transactions
          /\ minted' = minted /\ fees' = fees
      BY <2>2 DEF LedgerNext, SendTransaction, NewTransaction, Pool, ledgerVars
    <3>2. Conservation'
      BY <3>1 DEF LedgerInv, Conservation
    <3>3. TablesAreReplay'
      BY <3>1 DEF LedgerInv, TablesAreReplay, Newest
    <3>4. IndexExact' /\ Traced'
      BY <3>1 DEF LedgerInv, IndexExact, Traced, Stored, LastUse
    <3>5. /\ applied' \in Seq(Blocks) /\ (\A h \in DOMAIN applied' : DistinctIds(applied'[h]))
          /\ Priced(utxos') /\ minted' \in Nat /\ fees' \in Nat
      BY <3>1 DEF LedgerInv
    <3> QED BY <3>2, <3>3, <3>4, <3>5 DEF LedgerInv, DistinctIds
  <2> QED BY <2>1, <2>2
<1> QED BY LedgerStart, <1>1, PTL DEF LedgerSpec

(* No sequence of blocks loses or makes up money: what is unspent, with    *)
(* the fees that were paid, is what was allocated and minted               *)
(* (mermai_db::apply_block), whatever the blocks spend.                    *)
THEOREM LedgerConservation == LedgerSpec => []Conservation
<1>1. LedgerInv => Conservation
  BY DEF LedgerInv
<1> QED BY LedgerInductive, <1>1, PTL

(* The utxos table is always what the applied blocks say, one after the    *)
(* other, also when several were applied for one height and the rows of    *)
(* all but the last are gone: apply_block leaves nothing behind when it    *)
(* fails, misses nothing when it succeeds, and takes nothing back when     *)
(* save_block replaces a row.                                              *)
THEOREM LedgerTablesAreReplay == LedgerSpec => []TablesAreReplay
<1>1. LedgerInv => TablesAreReplay
  BY DEF LedgerInv
<1> QED BY LedgerInductive, <1>1, PTL

LEMMA HistoryFromInv == LedgerInv => HistoryExact
<1> SUFFICES ASSUME LedgerInv PROVE HistoryExact
  OBVIOUS
<1> DEFINE Lasting(b) == {tx \in ToSet(b.txs) : applied[Max(Holding(tx.id))] = b}
           n == Len(applied)
<1>1. n \in Nat /\ DOMAIN applied = 1..n /\ 1..n \subseteq 0..n
  BY DEF LedgerInv
<1>2. ASSUME NEW h \in DOMAIN applied, NEW tx \in ToSet(applied[h].txs)
      PROVE  h \in Holding(tx.id) /\ (h = Max(Holding(tx.id)) <=> LastUse(tx.id, h))
  <2> DEFINE s == Holding(tx.id)
  <2>1. applied[h].txs \in Seq(ToSet(applied[h].txs))
    BY BlockWellFormed DEF LedgerInv
  <2>2. tx.id \in Ids(applied[h].txs)
    BY DEF Ids, ToSet
  <2>3. h \in s /\ s \in SUBSET (0..n) /\ s # {}
    BY <1>1, <2>2 DEF Holding
  <2>4. LastUse(tx.id, h) <=> \A k \in s : k <= h
    BY DEF LastUse, Holding
  <2> HIDE DEF s, n
  <2>5. Max(s) \in s /\ \A y \in s : Max(s) >= y
    BY <1>1, <2>3, MaxIn
  <2>6. \A y \in s : y \in Nat
    BY <1>1, <2>3
  <2>7. h = Max(s) <=> \A k \in s : k <= h
    BY <2>3, <2>5, <2>6
  <2> QED BY <2>3, <2>4, <2>7 DEF s
<1>3. \A r : r \in transactions <=> \E h \in DOMAIN applied : Stored(r, h)
  BY DEF LedgerInv, IndexExact
<1>4. ASSUME NEW k \in DOMAIN applied, NEW tx \in Lasting(applied[k])
      PROVE  \E h \in DOMAIN applied : /\ applied[h] = applied[k] /\ tx \in ToSet(applied[h].txs)
                                       /\ LastUse(tx.id, h)
  <2> DEFINE s == Holding(tx.id)
             h == Max(s)
  <2>1. tx \in ToSet(applied[k].txs) /\ applied[h] = applied[k]
    BY <1>4
  <2>2. k \in s /\ s \in SUBSET (0..n) /\ s \subseteq DOMAIN applied
    BY <1>1, <1>2, <2>1 DEF Holding
  <2>3. h \in s
    <3> HIDE DEF s, n
    <3> QED BY <1>1, <2>2, MaxIn
  <2>4. LastUse(tx.id, h)
    BY <1>2, <2>1, <2>2, <2>3
  <2> QED BY <2>1, <2>2, <2>3, <2>4
<1>5. ASSUME NEW k \in DOMAIN applied
      PROVE  get_transactions_in_block(applied[k]) = Lasting(applied[k])
  <2>1. ASSUME NEW tx \in get_transactions_in_block(applied[k]) PROVE tx \in Lasting(applied[k])
    <3>1. PICK r \in transactions : r.block_hash = applied[k] /\ tx = r.tx
      BY <2>1 DEF get_transactions_in_block
    <3>2. PICK h \in DOMAIN applied : Stored(r, h)
      BY <1>3, <3>1
    <3>3. applied[h] = applied[k] /\ tx \in ToSet(applied[h].txs) /\ LastUse(tx.id, h)
      BY <3>1, <3>2 DEF Stored
    <3>4. h = Max(Holding(tx.id))
      BY <1>2, <3>3
    <3> QED BY <3>3, <3>4
  <2>2. ASSUME NEW tx \in Lasting(applied[k]) PROVE tx \in get_transactions_in_block(applied[k])
    <3>1. PICK h \in DOMAIN applied : /\ applied[h] = applied[k] /\ tx \in ToSet(applied[h].txs)
                                     /\ LastUse(tx.id, h)
      BY <1>4, <2>2
    <3> DEFINE r == [tx |-> tx, block_hash |-> applied[h]]
    <3>2. r \in transactions /\ r.tx = tx /\ r.block_hash = applied[k]
      BY <1>3, <3>1 DEF Stored
    <3> HIDE DEF r
    <3> QED BY <3>2 DEF get_transactions_in_block
  <2> QED BY <2>1, <2>2
<1>6. ASSUME NEW j \in DOMAIN applied, NEW tx \in Lasting(applied[j]) PROVE get_transaction(tx.id) = {tx}
  <2> DEFINE stored == {r.tx : r \in {t \in transactions : t.tx.id = tx.id}}
  <2>0. PICK h \in DOMAIN applied : tx \in ToSet(applied[h].txs) /\ LastUse(tx.id, h)
    BY <1>4, <1>6
  <2>1. tx \in ToSet(applied[h].txs) /\ LastUse(tx.id, h) /\ h \in Holding(tx.id)
    BY <1>2, <2>0
  <2>2. tx \in stored
    <3> DEFINE r == [tx |-> tx, block_hash |-> applied[h]]
    <3>1. r \in transactions
      BY <1>3, <2>1 DEF Stored
    <3> QED BY <3>1
  <2>3. ASSUME NEW t \in stored PROVE t = tx
    <3>1. PICK r \in transactions : r.tx.id = tx.id /\ t = r.tx
      BY <2>3
    <3>2. PICK k \in DOMAIN applied : Stored(r, k)
      BY <1>3, <3>1
    <3>3. t \in ToSet(applied[k].txs) /\ t.id = tx.id /\ LastUse(tx.id, k)
      BY <3>1, <3>2 DEF Stored
    <3>4. k \in Holding(tx.id)
      BY <1>2, <3>3
    <3>5. k <= h /\ h <= k
      BY <2>1, <3>3, <3>4 DEF LastUse, Holding
    <3>6. k = h
      BY <1>1, <3>5
    <3>7. DistinctIds(applied[h])
      BY DEF LedgerInv
    <3> QED BY <2>1, <3>3, <3>6, <3>7 DEF DistinctIds, ToSet
  <2>4. stored = {tx}
    BY <2>2, <2>3
  <2>5. stored # {}
    BY <2>2
  <2> HIDE DEF stored
  <2>6. get_transaction(tx.id) = IF stored # {} THEN stored ELSE {t \in mempool : t.id = tx.id}
    BY DEF get_transaction, stored
  <2> QED BY <2>4, <2>5, <2>6
<1>7. ASSUME NEW u \in utxos \ Allocation, ~(Cardinality(Holding(u.tx)) > 1)
      PROVE  \E tx \in get_account_transactions(u.address) : u \in Created(tx)
  <2>1. PICK h \in DOMAIN applied : MadeBy(u, applied[h].txs)
    BY DEF LedgerInv, Traced
  <2>2. PICK tx \in ToSet(applied[h].txs) : u \in Created(tx)
    BY <2>1 DEF MadeBy
  <2>3. PICK o \in DOMAIN tx.outputs :
          u = [tx |-> tx.id, idx |-> o, address |-> tx.outputs[o].address, amount |-> tx.outputs[o].amount]
    BY <2>2 DEF Created
  <2>4. u.tx = tx.id /\ u.address = tx.outputs[o].address
    BY <2>3
  <2>5. h \in Holding(tx.id)
    BY <1>2
  <2>6. ASSUME NEW k \in Holding(tx.id) PROVE k = h
    <3> DEFINE s == Holding(tx.id)
    <3>1. IsFiniteSet(s)
      <4>1. IsFiniteSet(1..n) /\ s \subseteq 1..n
        BY <1>1, FS_Interval DEF Holding
      <4> HIDE DEF s, n
      <4> QED BY <4>1, FS_Subset
    <3>2. ~(Cardinality(s) > 1) /\ h \in s /\ k \in s
      BY <1>7, <2>4, <2>5, <2>6
    <3> HIDE DEF s
    <3> SUFFICES ASSUME k # h PROVE FALSE
      OBVIOUS
    <3>3. Cardinality(s) \in Nat /\ Cardinality(s \ {h}) = Cardinality(s) - 1
      BY <3>1, <3>2, FS_CardinalityType, FS_RemoveElement
    <3>4. IsFiniteSet(s \ {h}) /\ k \in s \ {h}
      BY <3>1, <3>2, FS_Subset
    <3>5. Cardinality(s \ {h}) # 0 /\ Cardinality(s \ {h}) \in Nat
      BY <3>4, FS_EmptySet, FS_CardinalityType
    <3> QED BY <3>2, <3>3, <3>5
  <2>7. LastUse(tx.id, h)
    <3>1. h <= h
      BY <1>1
    <3> QED BY <2>6, <3>1 DEF LastUse, Holding
  <2> DEFINE r == [tx |-> tx, block_hash |-> applied[h]]
  <2>8. r \in transactions /\ r.tx = tx
    BY <1>3, <2>7 DEF Stored
  <2>9. tx \in get_account_transactions(u.address)
    BY <2>3, <2>4, <2>8 DEF get_account_transactions
  <2> QED BY <2>2, <2>9
<1> QED BY <1>5, <1>6, <1>7 DEF HistoryExact

(* What mermai_db answers about the past is what the stored blocks say:    *)
(* get_transactions_in_block, get_transaction and get_account_transactions *)
(* agree with the blocks and with the unspent outputs, whatever ids were   *)
(* used again.                                                             *)
THEOREM LedgerHistoryExact == LedgerSpec => []HistoryExact
BY LedgerInductive, HistoryFromInv, PTL

(* The mempool table loses a transaction only to a stored block or to      *)
(* another transaction with its id, and a block that is stored leaves none *)
(* of its transactions behind (apply_block, add_to_mempool).               *)
THEOREM LedgerPoolDrains == LedgerSpec => PoolDrainsIntoBlocks
<1> DEFINE Kept == \A tx \in mempool : tx.id \in {p.id : p \in mempool'}
                     \/ \E h \in DOMAIN blocks' : tx.id \in Ids(blocks'[h].txs)
           Left == applied' # applied => \A tx \in mempool' : tx.id \notin Ids(Last(applied').txs)
<1>1. LedgerInv /\ [LedgerNext]_ledgerVars => [Kept /\ Left]_ledgerVars
  <2> SUFFICES ASSUME LedgerInv, LedgerNext PROVE Kept /\ Left
    OBVIOUS
  <2>1. ASSUME NEW b \in Blocks, Add(b) PROVE Kept /\ Left
    <3>1. /\ Len(applied) \in Nat /\ applied' \in Seq(Blocks)
          /\ applied' = Append(applied, b) /\ applied'[Len(applied) + 1] = b
      BY <2>1, AppliedAfter
    <3>2. mempool' = {tx \in mempool : tx.id \notin Ids(b.txs)}
      BY <2>1 DEF Add, ApplyBlock
    <3>3. b.height \in DOMAIN blocks' /\ blocks'[b.height] = b
      BY <2>1 DEF Add, ApplyBlock, Save
    <3>4. Kept
      BY <3>2, <3>3
    <3>5. Last(applied') = b
      <4>1. Len(applied') = Len(applied) + 1
        BY <3>1, AppendProperties DEF LedgerInv
      <4> QED BY <3>1, <4>1 DEF Last
    <3>6. Left
      BY <3>2, <3>5
    <3> QED BY <3>4, <3>6
  <2>2. ASSUME NEW tx, Pool(tx) PROVE Kept /\ Left
    BY <2>2 DEF Pool
  <2> QED BY <2>1, <2>2 DEF LedgerNext, SendTransaction, NewTransaction
<1>2. [][LedgerNext]_ledgerVars /\ []LedgerInv => [][Kept /\ Left]_ledgerVars
  BY <1>1, PTL
<1>3. LedgerSpec => [][Kept /\ Left]_ledgerVars
  BY <1>2, LedgerInductive, PTL DEF LedgerSpec
<1>4. PoolDrainsIntoBlocks <=> [][Kept /\ Left]_ledgerVars
  BY PTL DEF PoolDrainsIntoBlocks
<1> QED BY <1>3, <1>4

-----------------------------------------------------------------------------
(* The network.  A chain is below another one if it is a beginning of it.  *)
Below(s, t) == Len(s) <= Len(t) /\ \A k \in 1..Len(s) : s[k] = t[k]

LEMMA PrefixIsBelow ==
  ASSUME NEW V, NEW s \in Seq(V), NEW t \in Seq(V) PROVE IsPrefix(s, t) <=> Below(s, t)
<1> DEFINE n == Len(s)
           cut == SubSeq(t, 1, n)
<1>1. SubSeq(s, 1, n) = s /\ n \in Nat
  BY SubSeqFull
<1>2. ASSUME n <= Len(t)
      PROVE cut \in Seq(V) /\ Len(cut) = n /\ \A k \in 1..n : cut[k] = t[k]
  <2>1. \A k \in 1..n : t[k] \in V
    BY <1>2
  <2>2. /\ cut \in Seq(V) /\ Len(cut) = (IF 1 <= n THEN n - 1 + 1 ELSE 0)
        /\ \A k \in 1..(n - 1 + 1) : cut[k] = t[1 + k - 1]
    <3> HIDE DEF n
    <3> QED BY <1>1, <2>1, SubSeqProperties
  <2> QED BY <1>1, <2>2
<1>3. ASSUME n <= Len(t) PROVE s = cut <=> \A k \in 1..n : s[k] = t[k]
  <2> HIDE DEF cut
  <2> QED BY <1>2, <1>3, SeqEqual
<1> QED BY <1>1, <1>3 DEF IsPrefix, Below

LEMMA BelowChain ==
  ASSUME NEW V, NEW s \in Seq(V)
  PROVE  Below(s, s) /\ \A x \in V : Below(s, Append(s, x))
BY DEF Below

Message == [type : {"HELLO", "GET_BLOCKS", "BLOCKS", "BLOCK"}, empty : BOOLEAN, blocks : Seq(Nat)]

LEMMA CutBelow ==
  ASSUME NEW V, NEW s \in Seq(V), NEW k \in 0..Len(s)
  PROVE  /\ SubSeq(s, 1, k) \in Seq(V) /\ Len(SubSeq(s, 1, k)) = k
         /\ (\A j \in 1..k : SubSeq(s, 1, k)[j] = s[j])
         /\ Below(SubSeq(s, 1, k), s)
<1> DEFINE cut == SubSeq(s, 1, k)
<1>1. /\ cut \in Seq(V) /\ Len(cut) = (IF 1 <= k THEN k - 1 + 1 ELSE 0)
      /\ \A j \in 1..(k - 1 + 1) : cut[j] = s[1 + j - 1]
  <2>1. \A j \in 1..k : s[j] \in V
    OBVIOUS
  <2> QED BY <2>1, SubSeqProperties
<1> HIDE DEF cut
<1>2. cut \in Seq(V) /\ Len(cut) = k /\ \A j \in 1..k : cut[j] = s[j]
  BY <1>1
<1> QED BY <1>2 DEF Below, cut

(* A chain and one that extends it begin alike.                            *)
LEMMA SameBeginning ==
  ASSUME NEW V, NEW s \in Seq(V), NEW t \in Seq(V), Below(s, t), NEW k \in DOMAIN s
  PROVE  SubSeq(t, 1, k) = SubSeq(s, 1, k)
<1>1. k \in 0..Len(s) /\ k \in 0..Len(t) /\ 1..k \subseteq 1..Len(s)
  BY DEF Below
<1>2. /\ SubSeq(s, 1, k) \in Seq(V) /\ Len(SubSeq(s, 1, k)) = k
      /\ \A j \in 1..k : SubSeq(s, 1, k)[j] = s[j]
  BY <1>1, CutBelow
<1>3. /\ SubSeq(t, 1, k) \in Seq(V) /\ Len(SubSeq(t, 1, k)) = k
      /\ \A j \in 1..k : SubSeq(t, 1, k)[j] = t[j]
  BY <1>1, CutBelow
<1>4. \A j \in 1..k : t[j] = s[j]
  BY <1>1 DEF Below
<1> QED BY <1>2, <1>3, <1>4, SeqEqual

(* Whatever a message says, it only adds to a chain.                       *)
LEMMA AppliedGrows ==
  ASSUME NEW c \in Seq(Nat), NEW m \in Message
  PROVE  LET r == Applied(c, m) IN r \in Seq(Nat) /\ Below(c, r)
<1> DEFINE r == Applied(c, m)
           b == m.blocks
<1>1. b \in Seq(Nat)
  BY DEF Message
<1>2. Below(c, c)
  BY BelowChain
<1>3. CASE m.type = "BLOCK" /\ CanAdd(c, b)
  <2>1. r = b
    BY <1>3 DEF Applied
  <2>2. Below(c, b)
    BY <1>1, <1>3, PrefixIsBelow DEF CanAdd
  <2> QED BY <1>1, <2>1, <2>2
<1>4. CASE m.type = "BLOCKS"
  <2>1. r = AddBatch(c, b)
    BY <1>4 DEF Applied
  <2>2. CASE ~Decodes(b) \/ Len(b) <= Len(c) \/ ~IsPrefix(c, b)
    <3>1. r = c
      BY <2>1, <2>2 DEF AddBatch
    <3> QED BY <1>2, <3>1
  <2>3. CASE Len(b) > Len(c) /\ IsPrefix(c, b) /\ Decodes(b)
    <3> DEFINE good(j) == CanAdd(SubSeq(b, 1, j - 1), SubSeq(b, 1, j))
               addable == {k \in Len(c)..Len(b) : \A j \in (Len(c) + 1)..k : good(j)}
               top_k == CHOOSE k \in addable : \A j \in addable : j <= k
    <3>1. r = SubSeq(b, 1, top_k)
      <4>1. AddBatch(c, b) = IF ~Decodes(b) \/ Len(b) <= Len(c) \/ ~IsPrefix(c, b)
                             THEN c ELSE SubSeq(b, 1, top_k)
        BY DEF AddBatch
      <4>2. ~(Len(b) <= Len(c))
        BY <1>1, <2>3
      <4> HIDE DEF top_k
      <4> QED BY <2>1, <2>3, <4>1, <4>2
    <3> HIDE DEF good
    <3>2. top_k \in addable
      <4>1. Len(c) \in addable
        BY <1>1, <2>3
      <4>2. Len(b) \in Nat /\ addable \in SUBSET (0..Len(b)) /\ addable # {}
        BY <1>1, <4>1
      <4> HIDE DEF addable
      <4>3. Max(addable) \in addable /\ \A y \in addable : Max(addable) >= y
        BY <4>2, MaxIn
      <4>4. \A y \in addable : y <= Max(addable)
        BY <1>1, <4>2, <4>3
      <4> QED BY <4>3, <4>4
    <3> HIDE DEF top_k
    <3>3. top_k \in Len(c)..Len(b) /\ top_k \in 0..Len(b)
      <4>1. top_k \in Len(c)..Len(b)
        BY <3>2
      <4>2. Len(c) \in Nat /\ Len(b) \in Nat
        BY <1>1
      <4> QED BY <4>1, <4>2
    <3>4. r \in Seq(Nat) /\ Len(r) = top_k /\ (\A j \in 1..top_k : r[j] = b[j])
      BY <1>1, <3>1, <3>3, CutBelow
    <3>5. Below(c, b)
      BY <1>1, <2>3, PrefixIsBelow
    <3>6. Below(c, r)
      <4>1. Len(c) <= top_k /\ \A j \in 1..Len(c) : j \in 1..top_k
        BY <1>1, <3>3
      <4>2. \A j \in 1..Len(c) : c[j] = b[j]
        BY ONLY <3>5 DEF Below
      <4>3. \A j \in 1..Len(c) : c[j] = r[j]
        BY ONLY <3>4, <4>1, <4>2
      <4> QED BY ONLY <3>4, <4>1, <4>3 DEF Below
    <3> QED BY <3>4, <3>6
  <2> QED BY <2>2, <2>3
<1>5. CASE ~(m.type = "BLOCK" /\ CanAdd(c, b)) /\ m.type # "BLOCKS"
  <2>1. r = c
    BY <1>5 DEF Applied
  <2> QED BY <1>2, <2>1
<1> QED BY <1>3, <1>4, <1>5

(* The inductive invariant.  Sessions come in pairs of endpoints, a socket *)
(* and an owner each; what is under way are messages.                      *)
Sessions ==
  /\ up \subseteq Nodes \cup Foreign
  /\ DOMAIN owner \subseteq Endpoint
  /\ socket \in [Endpoint -> {"none", "open", "closed"}]
  /\ \A e \in Endpoint : /\ e \in DOMAIN owner <=> socket[e] # "none"
                         /\ e \in DOMAIN owner <=> Other(e) \in DOMAIN owner
  /\ peers \in [Nodes -> Seq(Endpoint)]
  /\ \A n \in Nodes :
       /\ Len(peers[n]) <= MAX_PEERS
       /\ \A k \in DOMAIN peers[n] : peers[n][k] \in DOMAIN owner /\ owner[peers[n][k]] = n

Chains ==
  /\ chain \in [Nodes -> Seq(Nat)]
  /\ inbox \in [Endpoint -> Seq(Message)]

(* Only this program's nodes read.                                         *)
Readers ==
  /\ thread \in [Endpoint -> {"none", "reading", "ended"}]
  /\ \A e \in DOMAIN owner : e[2] = "in" => owner[e] \in Nodes
  /\ \A e \in Endpoint : thread[e] = "reading" => e \in DOMAIN owner /\ owner[e] \in Nodes

NetInv == Sessions /\ Readers /\ Chains

LEMMA OtherEndpoint ==
  ASSUME NEW e \in Endpoint PROVE Other(e) \in Endpoint /\ Other(Other(e)) = e /\ Other(e) # e
BY DEF Endpoint, Other

LEMMA NetInit == Init => NetInv
<1> SUFFICES ASSUME Init PROVE NetInv
  OBVIOUS
<1> USE NetworkConstants
<1>1. Sessions
  <2>1. DOMAIN owner = {}
    BY DEF Init
  <2>2. MAX_PEERS \in Nat
    OBVIOUS
  <2>3. \A n \in Nodes : Len(peers[n]) <= MAX_PEERS /\ DOMAIN peers[n] = {}
    BY <2>2 DEF Init
  <2>4. peers \in [Nodes -> Seq(Endpoint)]
    BY DEF Init
  <2>5. socket \in [Endpoint -> {"none", "open", "closed"}] /\ \A e \in Endpoint : socket[e] = "none"
    BY DEF Init
  <2>6. up \subseteq Nodes \cup Foreign
    BY DEF Init
  <2> QED BY <2>1, <2>3, <2>4, <2>5, <2>6 DEF Sessions
<1>2. Chains
  BY DEF Init, Chains
<1>3. Readers
  <2>1. DOMAIN owner = {} /\ thread = [e \in Endpoint |-> "none"]
    BY DEF Init
  <2> QED BY <2>1 DEF Readers
<1> QED BY <1>1, <1>2, <1>3 DEF NetInv

(* A send closes sockets and ends processes, at most.                      *)
SocketsKept ==
  /\ up' \subseteq up
  /\ socket' \in [Endpoint -> {"none", "open", "closed"}]
  /\ \A e \in Endpoint : socket'[e] = "none" <=> socket[e] = "none"

LEMMA SessionsKept ==
  ASSUME Sessions, SocketsKept, owner' = owner, peers' = peers PROVE Sessions'
BY DEF Sessions, SocketsKept, Endpoint, Other

LEMMA SameSockets ==
  ASSUME Sessions, up' = up, socket' = socket PROVE SocketsKept
BY DEF Sessions, SocketsKept

LEMMA SendKeeps ==
  ASSUME Sessions, NEW n, NEW list, NEW box, NEW m, SendEach(n, list, box, m)
  PROVE  SocketsKept
<1>1. CASE UNCHANGED <<up, socket, thread>>
  BY <1>1, SameSockets
<1>2. CASE Die(n)
  <2> DEFINE mine == {e \in DOMAIN owner : owner[e] = n}
  <2>1. up' = up \ {n} /\ socket' = [e \in Endpoint |-> IF e \in mine THEN "closed" ELSE socket[e]]
    BY <1>2 DEF Die
  <2>2. \A e \in Endpoint : e \in mine => socket[e] # "none"
    BY DEF Sessions
  <2> HIDE DEF mine
  <2> QED BY <2>1, <2>2 DEF Sessions, SocketsKept
<1> QED BY <1>1, <1>2 DEF SendEach

LEMMA ListedFacts ==
  ASSUME Sessions, NEW n \in Nodes, NEW e \in Endpoint
  PROVE  /\ Listed(n, e) \in Seq(Endpoint) /\ Len(Listed(n, e)) <= MAX_PEERS
         /\ \A k \in DOMAIN Listed(n, e) :
              Listed(n, e)[k] = e \/ (k \in DOMAIN peers[n] /\ Listed(n, e)[k] = peers[n][k])
<1>1. MAX_PEERS \in Nat /\ peers[n] \in Seq(Endpoint) /\ Len(peers[n]) <= MAX_PEERS
  BY NetworkConstants DEF Sessions
<1>2. CASE Len(peers[n]) < MAX_PEERS
  <2>1. Listed(n, e) = Append(peers[n], e)
    BY <1>2 DEF Listed
  <2> QED BY <1>1, <1>2, <2>1
<1>3. CASE ~(Len(peers[n]) < MAX_PEERS)
  <2>1. Listed(n, e) = peers[n]
    BY <1>3 DEF Listed
  <2> QED BY <1>1, <2>1
<1> QED BY <1>2, <1>3

LEMMA FirstUnused ==
  ASSUME Sessions, Unused # {}
  PROVE  LET s == CHOOSE s \in Unused : \A t \in Unused : s <= t
         IN  /\ <<s, "out">> \in Endpoint /\ Other(<<s, "out">>) \in Endpoint
             /\ <<s, "out">> \notin DOMAIN owner /\ Other(<<s, "out">>) \notin DOMAIN owner
<1> DEFINE s == CHOOSE s \in Unused : \A t \in Unused : s <= t
<1>1. Unused \in SUBSET Nat
  BY NetworkConstants DEF Unused
<1>2. \E n \in Unused : \A t \in Unused : n <= t
  BY <1>1, LeastNat
<1>3. s \in Unused
  BY <1>2
<1> HIDE DEF s
<1>4. s \in 1..MaxSessions /\ socket[<<s, "out">>] = "none"
  BY <1>3 DEF Unused
<1>5. <<s, "out">> \in Endpoint
  BY <1>4 DEF Endpoint
<1> QED BY <1>4, <1>5, OtherEndpoint DEF Sessions, s

(* A new connection takes a pair of endpoints that nobody has.             *)
LEMMA OpenKeeps ==
  ASSUME Sessions, NEW n \in Nodes \cup Foreign, NEW target, NEW s, Open(n, target, s),
         <<s, "out">> \in Endpoint, Other(<<s, "out">>) \in Endpoint,
         <<s, "out">> \notin DOMAIN owner, Other(<<s, "out">>) \notin DOMAIN owner
  PROVE  Sessions'
<1> DEFINE e == <<s, "out">>
           o == Other(e)
<1>1. /\ owner' = [x \in DOMAIN owner \cup {e, o} |-> IF x = e THEN n ELSE IF x = o THEN target ELSE owner[x]]
      /\ socket' = [socket EXCEPT ![e] = "open", ![o] = "open"]
      /\ up' = up
      /\ peers' = [peers EXCEPT ![n] = Listed(n, e)] \/ peers' = peers
  BY DEF Open
<1>2. n \notin Nodes => peers' = peers
  BY DEF Open
<1>3. e \in Endpoint /\ o \in Endpoint /\ e \notin DOMAIN owner /\ o \notin DOMAIN owner /\ e # o
      /\ Other(e) = o /\ Other(o) = e
  BY OtherEndpoint
<1> HIDE DEF e, o
<1>4. /\ DOMAIN owner' = DOMAIN owner \cup {e, o} /\ owner'[e] = n
      /\ \A x \in DOMAIN owner : owner'[x] = owner[x]
  BY <1>1, <1>3
<1>5. /\ socket' \in [Endpoint -> {"none", "open", "closed"}]
      /\ \A x \in Endpoint : x \in DOMAIN owner' <=> socket'[x] # "none"
  BY <1>1, <1>3, <1>4, SMTT(40) DEF Sessions
<1>6. \A x \in Endpoint : x \in DOMAIN owner' <=> Other(x) \in DOMAIN owner'
  BY <1>3, <1>4, OtherEndpoint DEF Sessions
<1>7. /\ peers' \in [Nodes -> Seq(Endpoint)]
      /\ \A a \in Nodes : Len(peers'[a]) <= MAX_PEERS
                          /\ \A k \in DOMAIN peers'[a] : peers'[a][k] \in DOMAIN owner' /\ owner'[peers'[a][k]] = a
  <2>1. CASE peers' = peers
    BY <1>4, <2>1 DEF Sessions
  <2>2. CASE n \in Nodes /\ peers' = [peers EXCEPT ![n] = Listed(n, e)]
    <3>1. /\ Listed(n, e) \in Seq(Endpoint) /\ Len(Listed(n, e)) <= MAX_PEERS
          /\ \A k \in DOMAIN Listed(n, e) :
               Listed(n, e)[k] = e \/ (k \in DOMAIN peers[n] /\ Listed(n, e)[k] = peers[n][k])
      BY <1>3, <2>2, ListedFacts
    <3>2. peers \in [Nodes -> Seq(Endpoint)]
      BY DEF Sessions
    <3>3. peers' \in [Nodes -> Seq(Endpoint)] /\ peers'[n] = Listed(n, e)
          /\ \A a \in Nodes : a # n => peers'[a] = peers[a]
      BY <2>2, <3>1, <3>2
    <3> QED BY <1>4, <2>2, <3>1, <3>3 DEF Sessions
  <2> QED BY <1>1, <1>2, <2>1, <2>2
<1>8. up' \subseteq Nodes \cup Foreign /\ DOMAIN owner' \subseteq Endpoint
  BY <1>1, <1>3, <1>4 DEF Sessions
<1> QED BY <1>5, <1>6, <1>7, <1>8 DEF Sessions, Endpoint, Other

LEMMA AcceptKeeps == ASSUME Sessions, NEW e \in Endpoint, Accept(e) PROVE Sessions'
<1> DEFINE n == owner[e]
<1>1. /\ e \in DOMAIN owner /\ peers' = [peers EXCEPT ![n] = Listed(n, e)]
      /\ up' = up /\ owner' = owner /\ socket' = socket
  BY DEF Accept
<1>2. peers \in [Nodes -> Seq(Endpoint)]
  BY DEF Sessions
<1>3. /\ peers' \in [Nodes -> Seq(Endpoint)]
      /\ \A a \in Nodes : Len(peers'[a]) <= MAX_PEERS
                          /\ \A k \in DOMAIN peers'[a] : peers'[a][k] \in DOMAIN owner /\ owner[peers'[a][k]] = a
  <2>1. CASE n \notin Nodes
    <3>1. peers' = peers
      BY <1>1, <1>2, <2>1
    <3> QED BY <3>1 DEF Sessions
  <2>2. CASE n \in Nodes
    <3>1. /\ Listed(n, e) \in Seq(Endpoint) /\ Len(Listed(n, e)) <= MAX_PEERS
          /\ \A k \in DOMAIN Listed(n, e) :
               Listed(n, e)[k] = e \/ (k \in DOMAIN peers[n] /\ Listed(n, e)[k] = peers[n][k])
      BY <2>2, ListedFacts
    <3>2. peers' \in [Nodes -> Seq(Endpoint)] /\ peers'[n] = Listed(n, e)
          /\ \A a \in Nodes : a # n => peers'[a] = peers[a]
      BY <1>1, <1>2, <2>2, <3>1
    <3>3. n = owner[e]
      OBVIOUS
    <3> HIDE DEF n
    <3>4. \A k \in DOMAIN peers'[n] : peers'[n][k] \in DOMAIN owner /\ owner[peers'[n][k]] = n
      BY <1>1, <2>2, <3>1, <3>2, <3>3 DEF Sessions
    <3> QED BY <3>1, <3>2, <3>4 DEF Sessions
  <2> QED BY <2>1, <2>2
<1> QED BY <1>1, <1>3 DEF Sessions, Endpoint, Other

ThreadsKept ==
  /\ thread' \in [Endpoint -> {"none", "reading", "ended"}]
  /\ \A e \in Endpoint : thread'[e] = "reading" => thread[e] = "reading"

LEMMA ReadersKept == ASSUME Readers, ThreadsKept, owner' = owner PROVE Readers'
BY DEF Readers, ThreadsKept, Endpoint

LEMMA SameThreads == ASSUME Readers, thread' = thread PROVE ThreadsKept
BY DEF Readers, ThreadsKept

LEMMA EndedThread ==
  ASSUME Readers, NEW e, thread' = [thread EXCEPT ![e] = "ended"] PROVE ThreadsKept
BY DEF Readers, ThreadsKept

LEMMA SendThreads ==
  ASSUME Readers, NEW n, NEW list, NEW box, NEW m, SendEach(n, list, box, m)
  PROVE  ThreadsKept
<1>1. CASE UNCHANGED <<up, socket, thread>>
  BY <1>1, SameThreads
<1>2. CASE Die(n)
  <2> DEFINE mine == {e \in DOMAIN owner : owner[e] = n}
  <2>1. thread' = [e \in Endpoint |-> IF e \in mine THEN "ended" ELSE thread[e]]
    BY <1>2 DEF Die
  <2> HIDE DEF mine
  <2> QED BY <2>1 DEF Readers, ThreadsKept
<1> QED BY <1>1, <1>2 DEF SendEach

LEMMA OpenReaders ==
  ASSUME Readers, NEW n, NEW target \in Nodes, NEW s, Open(n, target, s),
         <<s, "out">> \in Endpoint,
         <<s, "out">> \notin DOMAIN owner, Other(<<s, "out">>) \notin DOMAIN owner
  PROVE  Readers'
<1> DEFINE e == <<s, "out">>
           o == Other(e)
<1>1. /\ owner' = [x \in DOMAIN owner \cup {e, o} |-> IF x = e THEN n ELSE IF x = o THEN target ELSE owner[x]]
      /\ (n \in Nodes /\ thread' = [thread EXCEPT ![e] = "reading"]) \/ thread' = thread
  BY DEF Open
<1>2. e \in Endpoint /\ o # e /\ e \notin DOMAIN owner /\ o \notin DOMAIN owner /\ e[2] # "in"
  BY OtherEndpoint
<1> HIDE DEF e, o
<1>3. /\ DOMAIN owner' = DOMAIN owner \cup {e, o} /\ owner'[e] = n /\ owner'[o] = target
      /\ \A x \in DOMAIN owner : owner'[x] = owner[x]
  BY <1>1, <1>2
<1>4. /\ thread' \in [Endpoint -> {"none", "reading", "ended"}]
      /\ \A x \in Endpoint : thread'[x] = "reading" =>
                               x \in DOMAIN owner' /\ owner'[x] \in Nodes
  BY <1>1, <1>2, <1>3 DEF Readers
<1>5. \A x \in DOMAIN owner' : x[2] = "in" => owner'[x] \in Nodes
  BY <1>2, <1>3 DEF Readers
<1> QED BY <1>4, <1>5 DEF Readers, Endpoint

(* Messages stay what they may be.                                         *)
LEMMA SendBoxes ==
  ASSUME NEW M, NEW box \in [Endpoint -> Seq(M)], NEW m \in M, NEW n, NEW list,
         SendEach(n, list, box, m)
  PROVE  inbox' \in [Endpoint -> Seq(M)]
<1>1. PICK targets : inbox' = Delivered(box, targets, m)
  BY DEF SendEach
<1> QED BY <1>1 DEF Delivered

LEMMA PlainMessages == HELLO \in Message /\ GET_BLOCKS \in Message
<1>1. <<>> \in Seq(Nat)
  OBVIOUS
<1> QED BY <1>1 DEF Message, HELLO, GET_BLOCKS, Msg

LEMMA ChainMessages ==
  ASSUME NEW c \in Seq(Nat) PROVE BLOCKS(c) \in Message /\ Msg("BLOCK", FALSE, c) \in Message
BY DEF Message, BLOCKS, Msg

LEMMA ForeignSaid == ASSUME Chains, NEW m \in ForeignMessages PROVE m \in Message
<1>1. ASSUME NEW c \in KnownChains PROVE c \in Seq(Nat)
  <2>1. PICK n \in Nodes : \E k \in 0..Len(chain[n]) : c = SubSeq(chain[n], 1, k)
    BY DEF KnownChains
  <2>2. PICK k \in 0..Len(chain[n]) : c = SubSeq(chain[n], 1, k)
    BY <2>1
  <2>3. chain[n] \in Seq(Nat)
    BY DEF Chains
  <2> QED BY <2>2, <2>3, CutBelow
<1>2. \A slot \in 1..MaxSlot \cup {Bad} : slot \in Nat
  BY NetworkConstants
<1>3. \A c \in ForeignChains : c \in Seq(Nat)
  BY <1>1, <1>2 DEF ForeignChains
<1>4. <<>> \in Seq(Nat)
  OBVIOUS
<1>5. Msg("GET_BLOCKS", FALSE, <<>>) \in Message
  BY <1>4 DEF Message, Msg
<1> QED BY <1>3, <1>5, ChainMessages DEF ForeignMessages

LEMMA SessionsStep == ASSUME NetInv, [Next]_vars PROVE Sessions' /\ Readers'
<1> USE DEF NetInv
<1>1. ASSUME NEW n \in Nodes, Discover(n) PROVE Sessions' /\ Readers'
  <2> DEFINE s == CHOOSE s \in Unused : \A t \in Unused : s <= t
  <2>1. CASE Unused # {} /\ Open(n, Bootstrap, s)
    <3>1. /\ <<s, "out">> \in Endpoint /\ Other(<<s, "out">>) \in Endpoint
          /\ <<s, "out">> \notin DOMAIN owner /\ Other(<<s, "out">>) \notin DOMAIN owner
      BY <2>1, FirstUnused
    <3> HIDE DEF s
    <3>2. Sessions'
      BY <2>1, <3>1, OpenKeeps
    <3>3. Readers'
      BY <2>1, <3>1, OpenReaders, NetworkConstants
    <3> QED BY <3>2, <3>3
  <2>2. CASE UNCHANGED <<up, chain, reset, inbox, sockets>>
    <3>1. up' = up /\ socket' = socket /\ thread' = thread /\ owner' = owner /\ peers' = peers
      BY <2>2 DEF sockets
    <3> QED BY <3>1, SameSockets, SessionsKept, SameThreads, ReadersKept
  <2> QED BY <1>1, <2>1, <2>2 DEF Discover
<1>2. ASSUME NEW n, NEW list, NEW box, NEW m, SendEach(n, list, box, m), owner' = owner, peers' = peers
      PROVE  Sessions' /\ Readers'
  BY <1>2, SendKeeps, SendThreads, SessionsKept, ReadersKept
<1>3. ASSUME up' = up, socket' = socket, thread' = thread, owner' = owner, peers' = peers
      PROVE  Sessions' /\ Readers'
  BY <1>3, SameSockets, SessionsKept, SameThreads, ReadersKept
<1>4. ASSUME NEW e \in Endpoint, socket[e] # "none",
             socket' = socket \/ socket' = [socket EXCEPT ![e] = "closed"]
      PROVE  /\ socket' \in [Endpoint -> {"none", "open", "closed"}]
             /\ \A x \in Endpoint : socket'[x] = "none" <=> socket[x] = "none"
  BY <1>4 DEF Sessions
<1>5. ASSUME NEW e \in Endpoint, e \in DOMAIN owner, up' = up, owner' = owner, peers' = peers,
             thread' = thread \/ thread' = [thread EXCEPT ![e] = "ended"],
             socket' = socket \/ socket' = [socket EXCEPT ![e] = "closed"]
      PROVE  Sessions' /\ Readers'
  <2>1. socket[e] # "none"
    BY <1>5 DEF Sessions
  <2>2. SocketsKept
    BY <1>4, <1>5, <2>1 DEF SocketsKept
  <2>3. ThreadsKept
    BY <1>5, SameThreads, EndedThread
  <2> QED BY <1>5, <2>2, <2>3, SessionsKept, ReadersKept
<1>6. ASSUME NEW n \in Nodes, SyncBlocks(n) PROVE Sessions' /\ Readers'
  BY <1>2, <1>6 DEF SyncBlocks
<1>7. ASSUME NEW n \in Nodes, NEW slot, Produce(n, slot) PROVE Sessions' /\ Readers'
  BY <1>2, <1>7 DEF Produce
<1>8. ASSUME NEW e \in Endpoint, Accept(e) PROVE Sessions' /\ Readers'
  <2>1. Sessions'
    BY <1>8, AcceptKeeps
  <2>2. e \in DOMAIN owner /\ e[2] = "in" /\ owner' = owner /\ thread' = [thread EXCEPT ![e] = "reading"]
    BY <1>8 DEF Accept
  <2>3. Readers'
    BY <2>2 DEF Readers, Endpoint
  <2> QED BY <2>1, <2>3
<1>9. ASSUME NEW e \in Endpoint, NEW box, NEW m, HandleMessage(e, box, m), owner' = owner, peers' = peers
      PROVE  Sessions' /\ Readers'
  <2>1. CASE m.type = "GET_BLOCKS"
    BY <1>2, <1>9, <2>1 DEF HandleMessage
  <2>2. CASE m.type # "GET_BLOCKS"
    BY <1>3, <1>9, <2>2 DEF HandleMessage
  <2> QED BY <2>1, <2>2
<1>10. ASSUME NEW e \in Endpoint, ReceiveIn(e) PROVE Sessions' /\ Readers'
  <2> DEFINE m == Head(inbox[e])
  <2>1. e \in DOMAIN owner /\ owner' = owner /\ peers' = peers
    BY <1>10 DEF ReceiveIn, Reading
  <2>2. \/ SendEach(owner[e], <<e>>, Rest(e), HELLO)
        \/ HandleMessage(e, Rest(e), m)
        \/ /\ thread' = [thread EXCEPT ![e] = "ended"]
           /\ socket' = [socket EXCEPT ![e] = "closed"]
           /\ up' = up
    BY <1>10 DEF ReceiveIn
  <2> HIDE DEF m
  <2> QED BY <1>2, <1>5, <1>9, <2>1, <2>2
<1>11. ASSUME NEW e \in Endpoint, ReceiveOut(e) PROVE Sessions' /\ Readers'
  <2> DEFINE m == Head(inbox[e])
  <2>1. e \in DOMAIN owner /\ owner' = owner /\ peers' = peers
    BY <1>11 DEF ReceiveOut, Reading
  <2>2. \/ HandleMessage(e, Rest(e), m)
        \/ /\ thread' = [thread EXCEPT ![e] = "ended"]
           /\ socket' = socket /\ up' = up
    BY <1>11 DEF ReceiveOut
  <2> HIDE DEF m
  <2> QED BY <1>5, <1>9, <2>1, <2>2
<1>12. ASSUME NEW e \in Endpoint, EndOfStream(e) PROVE Sessions' /\ Readers'
  <2>1. e \in DOMAIN owner /\ owner' = owner /\ peers' = peers
    BY <1>12 DEF EndOfStream, Reading
  <2>2. \/ SendEach(owner[e], <<e>>, inbox, HELLO)
        \/ /\ thread' = [thread EXCEPT ![e] = "ended"]
           /\ socket' = socket \/ socket' = [socket EXCEPT ![e] = "closed"]
           /\ up' = up
    BY <1>12 DEF EndOfStream
  <2> QED BY <1>2, <1>5, <2>1, <2>2
<1>13. ASSUME NEW n \in Foreign, NEW target \in Nodes, ForeignConnect(n, target)
       PROVE  Sessions' /\ Readers'
  <2> DEFINE s == CHOOSE s \in Unused : \A t \in Unused : s <= t
  <2>1. Unused # {} /\ Open(n, target, s)
    BY <1>13 DEF ForeignConnect
  <2>2. /\ <<s, "out">> \in Endpoint /\ Other(<<s, "out">>) \in Endpoint
        /\ <<s, "out">> \notin DOMAIN owner /\ Other(<<s, "out">>) \notin DOMAIN owner
    BY <2>1, FirstUnused
  <2> HIDE DEF s
  <2>3. Sessions'
    BY <2>1, <2>2, OpenKeeps
  <2>4. Readers'
    BY <2>1, <2>2, OpenReaders
  <2> QED BY <2>3, <2>4
<1>14. ASSUME NEW e \in Endpoint, NEW m, ForeignSend(e, m) PROVE Sessions' /\ Readers'
  BY <1>3, <1>14 DEF ForeignSend, sockets
<1>15. ASSUME NEW e \in Endpoint, ForeignClose(e) PROVE Sessions' /\ Readers'
  BY <1>5, <1>15 DEF ForeignClose
<1>16. ASSUME UNCHANGED vars PROVE Sessions' /\ Readers'
  BY <1>3, <1>16 DEF vars
<1> QED BY <1>1, <1>6, <1>7, <1>8, <1>10, <1>11, <1>12, <1>13, <1>14, <1>15, <1>16 DEF Next

(* Chains only grow, and what is under way stays messages.                 *)
LEMMA ChainsStep ==
  ASSUME NetInv, [Next]_vars PROVE Chains' /\ \A n \in Nodes : Below(chain[n], chain'[n])
<1> DEFINE Grown == \A n \in Nodes : Below(chain[n], chain'[n])
<1>1. chain \in [Nodes -> Seq(Nat)] /\ inbox \in [Endpoint -> Seq(Message)]
  BY DEF NetInv, Chains
<1>2. HELLO \in Message /\ GET_BLOCKS \in Message
  BY PlainMessages
<1>3. ASSUME chain' = chain, inbox' \in [Endpoint -> Seq(Message)] PROVE Chains' /\ Grown
  BY <1>1, <1>3, BelowChain DEF Chains
<1>4. ASSUME NEW n \in Nodes, NEW c \in Seq(Nat), Below(chain[n], c),
             chain' = [chain EXCEPT ![n] = c], inbox' \in [Endpoint -> Seq(Message)]
      PROVE  Chains' /\ Grown
  <2>1. chain' \in [Nodes -> Seq(Nat)] /\ chain'[n] = c /\ \A a \in Nodes : a # n => chain'[a] = chain[a]
    BY <1>1, <1>4
  <2>2. \A a \in Nodes : Below(chain[a], chain[a])
    BY <1>1, BelowChain
  <2> QED BY <1>4, <2>1, <2>2 DEF Chains
<1>5. ASSUME NEW n, NEW target, NEW s, Open(n, target, s) PROVE Chains' /\ Grown
  <2>1. chain' = chain /\ inbox' = [inbox EXCEPT ![Other(<<s, "out">>)] = <<HELLO>>]
    BY <1>5 DEF Open
  <2>2. <<HELLO>> \in Seq(Message)
    BY <1>2
  <2> HIDE DEF Grown
  <2>3. inbox' \in [Endpoint -> Seq(Message)]
    BY <1>1, <2>1, <2>2
  <2> QED BY <1>3, <2>1, <2>3
<1>6. ASSUME NEW n \in Nodes, Discover(n) PROVE Chains' /\ Grown
  BY <1>1, <1>3, <1>5, <1>6 DEF Discover
<1>7. ASSUME NEW n \in Nodes, SyncBlocks(n) PROVE Chains' /\ Grown
  <2>1. chain' = chain /\ SendEach(n, peers[n], inbox, GET_BLOCKS)
    BY <1>7 DEF SyncBlocks
  <2> HIDE DEF Grown
  <2>2. inbox' \in [Endpoint -> Seq(Message)]
    BY <1>1, <1>2, <2>1, SendBoxes
  <2> QED BY <1>3, <2>1, <2>2
<1>8. ASSUME NEW n \in Nodes, NEW slot \in 1..MaxSlot, Produce(n, slot) PROVE Chains' /\ Grown
  <2> DEFINE block == Append(chain[n], slot)
  <2>1. chain' = [chain EXCEPT ![n] = block] /\ SendEach(n, peers[n], inbox, Msg("BLOCK", FALSE, block))
    BY <1>8 DEF Produce
  <2>2. slot \in Nat
    BY NetworkConstants
  <2>3. chain[n] \in Seq(Nat) /\ block \in Seq(Nat) /\ Below(chain[n], block)
    BY <1>1, <2>2, BelowChain
  <2> HIDE DEF block
  <2>4. Msg("BLOCK", FALSE, block) \in Message
    BY <2>3, ChainMessages
  <2>5. inbox' \in [Endpoint -> Seq(Message)]
    BY <1>1, <2>1, <2>4, SendBoxes
  <2> QED BY <1>4, <2>1, <2>3, <2>5
<1>9. ASSUME NEW e \in Endpoint, Reading(e) PROVE owner[e] \in Nodes
  BY <1>9 DEF NetInv, Readers, Reading
<1>10. ASSUME NEW e \in Endpoint, inbox[e] # <<>>
       PROVE  Head(inbox[e]) \in Message /\ Rest(e) \in [Endpoint -> Seq(Message)]
  <2>1. Head(inbox[e]) \in Message /\ Tail(inbox[e]) \in Seq(Message)
    BY <1>1, <1>10, HeadTailProperties
  <2> QED BY <1>1, <2>1 DEF Rest
<1>11. ASSUME NEW e \in Endpoint, Reading(e), NEW m \in Message, NEW box \in [Endpoint -> Seq(Message)],
              HandleMessage(e, box, m)
       PROVE  Chains' /\ Grown
  <2> DEFINE n == owner[e]
             r == Applied(chain[n], m)
  <2>1. n \in Nodes
    BY <1>9, <1>11
  <2>2. chain' = [chain EXCEPT ![n] = r]
    BY <1>11 DEF HandleMessage
  <2>3. IF m.type = "GET_BLOCKS" THEN SendEach(n, <<e>>, box, BLOCKS(chain[n])) ELSE inbox' = box
    BY <1>11 DEF HandleMessage
  <2>4. chain[n] \in Seq(Nat)
    BY <1>1, <2>1
  <2>5. BLOCKS(chain[n]) \in Message
    BY <2>4, ChainMessages
  <2>6. r \in Seq(Nat) /\ Below(chain[n], r)
    <3> HIDE DEF n
    <3> QED BY <1>11, <2>4, AppliedGrows
  <2> HIDE DEF n, r
  <2>7. inbox' \in [Endpoint -> Seq(Message)]
    BY <2>3, <2>5, <1>11, SendBoxes
  <2> QED BY <1>4, <2>1, <2>2, <2>6, <2>7
<1>12. ASSUME NEW n, NEW list, NEW box \in [Endpoint -> Seq(Message)], SendEach(n, list, box, HELLO), chain' = chain
       PROVE  Chains' /\ Grown
  <2>1. inbox' \in [Endpoint -> Seq(Message)]
    BY <1>2, <1>12, SendBoxes
  <2> QED BY <1>3, <1>12, <2>1
<1>13. ASSUME NEW e \in Endpoint, ReceiveIn(e) PROVE Chains' /\ Grown
  <2>1. Reading(e) /\ inbox[e] # <<>>
    BY <1>13 DEF ReceiveIn
  <2>2. \/ SendEach(owner[e], <<e>>, Rest(e), HELLO) /\ chain' = chain
        \/ HandleMessage(e, Rest(e), Head(inbox[e]))
        \/ inbox' = Rest(e) /\ chain' = chain
    BY <1>13 DEF ReceiveIn
  <2> HIDE DEF Grown
  <2> QED BY <1>3, <1>10, <1>11, <1>12, <2>1, <2>2
<1>14. ASSUME NEW e \in Endpoint, ReceiveOut(e) PROVE Chains' /\ Grown
  <2>1. Reading(e) /\ inbox[e] # <<>>
    BY <1>14 DEF ReceiveOut
  <2>2. \/ HandleMessage(e, Rest(e), Head(inbox[e]))
        \/ inbox' = Rest(e) /\ chain' = chain
    BY <1>14 DEF ReceiveOut
  <2> HIDE DEF Grown
  <2> QED BY <1>3, <1>10, <1>11, <2>1, <2>2
<1>15. ASSUME NEW e \in Endpoint, EndOfStream(e) PROVE Chains' /\ Grown
  <2>1. chain' = chain /\ (SendEach(owner[e], <<e>>, inbox, HELLO) \/ inbox' = inbox)
    BY <1>15 DEF EndOfStream
  <2> HIDE DEF Grown
  <2> QED BY <1>1, <1>3, <1>12, <2>1
<1>16. ASSUME NEW e \in Endpoint, NEW m \in ForeignMessages, ForeignSend(e, m) PROVE Chains' /\ Grown
  <2>1. chain' = chain /\ inbox' = Delivered(inbox, {e}, m)
    BY <1>16 DEF ForeignSend
  <2>2. m \in Message
    BY ForeignSaid DEF NetInv
  <2> HIDE DEF Grown
  <2>3. inbox' \in [Endpoint -> Seq(Message)]
    BY <1>1, <2>1, <2>2 DEF Delivered
  <2> QED BY <1>3, <2>1, <2>3
<1>17. ASSUME chain' = chain, inbox' = inbox PROVE Chains' /\ Grown
  <2> HIDE DEF Grown
  <2> QED BY <1>1, <1>3, <1>17
<1>18. ASSUME NEW e \in Endpoint, Accept(e) \/ ForeignClose(e) PROVE Chains' /\ Grown
  BY <1>17, <1>18 DEF Accept, ForeignClose
<1>19. ASSUME NEW n \in Foreign, NEW target \in Nodes, ForeignConnect(n, target) PROVE Chains' /\ Grown
  BY <1>5, <1>19 DEF ForeignConnect
<1>20. ASSUME UNCHANGED vars PROVE Chains' /\ Grown
  BY <1>17, <1>20 DEF vars
<1> QED BY <1>6, <1>7, <1>8, <1>13, <1>14, <1>15, <1>16, <1>18, <1>19, <1>20 DEF Next

LEMMA NetInductive == Spec => []NetInv
<1>1. NetInv /\ [Next]_vars => NetInv'
  BY SessionsStep, ChainsStep DEF NetInv
<1> QED BY NetInit, <1>1, PTL DEF Spec

(* Sessions stay consistent, whatever is sent, lost or closed: an endpoint *)
(* has an owner exactly if it has a socket, and no node's list of peers    *)
(* exceeds MAX_PEERS or names a connection of another node (add_peer,      *)
(* connect_to_peer, listen_for_connections).                               *)
THEOREM NetworkTypeOK == Spec => []TypeOK
<1>1. NetInv => TypeOK
  BY DEF NetInv, Sessions, TypeOK
<1> QED BY NetInductive, <1>1, PTL

(* Whatever reaches handle_message, from nodes that produce at the same    *)
(* time and from foreign peers that repeat blocks in any order and add     *)
(* ones of their own: no node takes a block back, so what two nodes agree  *)
(* or disagree on at a height is settled for good.                         *)
THEOREM NetworkForksLast == Spec => ForksLast
<1> DEFINE Kept == /\ \A n \in Nodes : IsPrefix(chain[n], chain'[n])
                   /\ \A m, n \in Nodes : \A k \in DOMAIN chain[m] \cap DOMAIN chain[n] :
                        (SubSeq(chain'[m], 1, k) = SubSeq(chain'[n], 1, k))
                          = (SubSeq(chain[m], 1, k) = SubSeq(chain[n], 1, k))
<1>1. NetInv /\ [Next]_vars => [Kept]_vars
  <2> SUFFICES ASSUME NetInv, [Next]_vars PROVE Kept
    OBVIOUS
  <2>1. /\ chain \in [Nodes -> Seq(Nat)] /\ chain' \in [Nodes -> Seq(Nat)]
        /\ \A n \in Nodes : Below(chain[n], chain'[n])
    BY ChainsStep DEF NetInv, Chains
  <2>2. ASSUME NEW n \in Nodes PROVE IsPrefix(chain[n], chain'[n])
    BY <2>1, PrefixIsBelow
  <2>3. ASSUME NEW n \in Nodes, NEW k \in DOMAIN chain[n]
        PROVE  SubSeq(chain'[n], 1, k) = SubSeq(chain[n], 1, k)
    BY <2>1, SameBeginning
  <2> QED BY <2>2, <2>3
<1>2. [][Next]_vars /\ []NetInv => [][Kept]_vars
  BY <1>1, PTL
<1>3. Spec => [][Kept]_vars
  BY <1>2, NetInductive, PTL DEF Spec
<1>4. ForksLast <=> [][Kept]_vars
  BY PTL DEF ForksLast
<1> QED BY <1>3, <1>4

-----------------------------------------------------------------------------
(* Subscriptions.  Ids are given in order and never again, so that a new   *)
(* subscription starts with nothing; the events of one are numbers.        *)
Due(from, events, topic) == {n \in (from + 1)..Len(events) : events[n] = topic}

Subscription == [topic : Topics, pending_events : Seq(Nat)]

Got(list, sub) == list \o sub.pending_events

Serves(list, sub, from, events) ==
  /\ Increasing(Got(list, sub))
  /\ ToSet(Got(list, sub)) = Due(from, events, sub.topic)

Handed(list, from, events) ==
  /\ Increasing(list)
  /\ \E topic \in Topics, last \in 0..Len(events) :
       ToSet(list) = {n \in Due(from, events, topic) : n <= last}

PsInv ==
  /\ next_sub_id \in Nat \ {0}
  /\ sent \in Seq(Topics)
  /\ DOMAIN taken = 1..(next_sub_id - 1)
  /\ DOMAIN since = DOMAIN taken
  /\ DOMAIN subscriptions \subseteq DOMAIN taken
  /\ \A id \in DOMAIN taken : taken[id] \in Seq(Nat) /\ since[id] \in 0..Len(sent)
  /\ \A id \in DOMAIN subscriptions :
       subscriptions[id] \in Subscription /\ Serves(taken[id], subscriptions[id], since[id], sent)
  /\ \A id \in DOMAIN taken \ DOMAIN subscriptions : Handed(taken[id], since[id], sent)

(* What has been polled is the first part of what there is.                *)
LEMMA FirstPart ==
  ASSUME NEW s \in Seq(Nat), NEW t \in Seq(Nat), Increasing(s \o t), NEW D,
         ToSet(s \o t) = D, NEW len \in Nat, D \subseteq 1..len
  PROVE  /\ Increasing(s)
         /\ \E last \in 0..len : ToSet(s) = {n \in D : n <= last}
<1> DEFINE g == s \o t
<1>1. /\ g \in Seq(Nat) /\ Len(g) = Len(s) + Len(t)
      /\ \A i \in 1..(Len(s) + Len(t)) : g[i] = IF i <= Len(s) THEN s[i] ELSE t[i - Len(s)]
  BY ConcatProperties
<1>2. Increasing(g) /\ ToSet(g) = D
  OBVIOUS
<1> HIDE DEF g
<1>3. DOMAIN s = 1..Len(s) /\ DOMAIN g = 1..(Len(s) + Len(t)) /\ Len(s) \in Nat /\ Len(t) \in Nat
  BY <1>1
<1>4. \A i \in 1..Len(s) : i \in DOMAIN g /\ g[i] = s[i]
  BY <1>1, <1>3
<1>a. \A m, n \in DOMAIN g : g[m] \in Nat /\ (m < n => g[m] < g[n])
  BY <1>1, <1>2 DEF Increasing
<1>5. Increasing(s)
  BY <1>2, <1>3, <1>4 DEF Increasing
<1>6. CASE s = <<>>
  <2>1. \A n \in D : ~(n <= 0)
    OBVIOUS
  <2>2. ToSet(s) = {} /\ 0 \in 0..len
    BY <1>6 DEF ToSet
  <2> QED BY <1>5, <2>1, <2>2
<1>7. CASE s # <<>>
  <2> DEFINE last == s[Len(s)]
  <2>1. Len(s) \in 1..Len(s) /\ last = g[Len(s)] /\ last \in Nat
    BY <1>3, <1>4, <1>7
  <2>2. last \in D
    BY <1>2, <1>4, <2>1 DEF ToSet
  <2>3. last \in 0..len
    BY <2>1, <2>2
  <2>4. ASSUME NEW n \in ToSet(s) PROVE n \in D /\ n <= last
    <3>1. PICK i \in 1..Len(s) : n = g[i]
      BY <1>3, <1>4, <2>4 DEF ToSet
    <3>2. n \in D
      BY <1>2, <1>4, <3>1 DEF ToSet
    <3>3. i \in Nat /\ (i = Len(s) \/ i < Len(s))
      <4> DEFINE k == Len(s)
      <4>1. k \in Nat /\ i \in 1..k
        BY <1>3, <3>1
      <4> HIDE DEF k
      <4>2. i \in Nat /\ (i = k \/ i < k)
        BY <4>1
      <4> QED BY <4>2 DEF k
    <3>4. i < Len(s) => g[i] < g[Len(s)]
      BY <1>a, <1>4, <2>1, <3>1
    <3>5. n \in Nat
      BY <1>a, <1>4, <3>1
    <3> HIDE DEF last
    <3>6. n <= last
      BY <2>1, <3>1, <3>3, <3>4, <3>5
    <3> QED BY <3>2, <3>6
  <2>5. ASSUME NEW n \in D, n <= last PROVE n \in ToSet(s)
    <3>1. PICK i \in DOMAIN g : n = g[i]
      BY <1>2 DEF ToSet
    <3>2. ~(Len(s) < i)
      <4>1. Len(s) < i => g[Len(s)] < g[i]
        BY <1>a, <1>4, <2>1, <3>1
      <4>2. n \in Nat
        BY <1>a, <3>1
      <4> HIDE DEF last
      <4> QED BY <2>1, <2>5, <3>1, <4>1, <4>2
    <3>3. i \in 1..Len(s)
      BY <1>3, <3>1, <3>2
    <3> QED BY <1>3, <1>4, <3>1, <3>3 DEF ToSet
  <2> HIDE DEF last
  <2> QED BY <1>5, <2>3, <2>4, <2>5
<1> QED BY <1>6, <1>7

LEMMA DueBounds ==
  ASSUME NEW events \in Seq(Topics), NEW from \in 0..Len(events), NEW topic
  PROVE  Due(from, events, topic) \subseteq 1..Len(events) /\ Len(events) \in Nat
BY DEF Due

(* A subscription that ends has been handed a first part of its events.    *)
LEMMA EndsHanded ==
  ASSUME NEW list \in Seq(Nat), NEW sub \in Subscription, NEW events \in Seq(Topics),
         NEW from \in 0..Len(events), Serves(list, sub, from, events)
  PROVE  Handed(list, from, events)
<1> DEFINE D == Due(from, events, sub.topic)
           p == sub.pending_events
<1>1. p \in Seq(Nat) /\ sub.topic \in Topics
  BY DEF Subscription
<1>2. Increasing(list \o p) /\ ToSet(list \o p) = D
  BY DEF Serves, Got
<1>3. D \subseteq 1..Len(events) /\ Len(events) \in Nat
  BY DueBounds
<1> HIDE DEF D, p
<1>4. Increasing(list)
  BY <1>1, <1>2, <1>3, FirstPart
<1>5. \E last \in 0..Len(events) : ToSet(list) = {n \in D : n <= last}
  BY <1>1, <1>2, <1>3, FirstPart, ZenonT(60)
<1> QED BY <1>1, <1>4, <1>5 DEF Handed, D

LEMMA PsStart == PsInit => PsInv
BY DEF PsInit, PsInv

LEMMA SubscribeKeeps == ASSUME PsInv, NEW topic \in Topics, subscribe(topic) PROVE PsInv'
<1> DEFINE new == next_sub_id
           first == [topic |-> topic, pending_events |-> <<>>]
<1>1. /\ new \in Nat \ {0} /\ DOMAIN taken = 1..(new - 1) /\ new \notin DOMAIN taken
      /\ DOMAIN since = DOMAIN taken /\ DOMAIN subscriptions \subseteq DOMAIN taken
      /\ sent \in Seq(Topics) /\ Len(sent) \in Nat
  BY DEF PsInv
<1>2. /\ next_sub_id' = new + 1 /\ sent' = sent
      /\ subscriptions' = With(subscriptions, new, first)
      /\ since' = With(since, new, Len(sent)) /\ taken' = With(taken, new, <<>>)
  BY DEF subscribe
<1>3. first \in Subscription
  BY DEF Subscription
<1>4. Serves(<<>>, first, Len(sent), sent)
  <2>1. Got(<<>>, first) = <<>>
    BY DEF Got
  <2>2. Due(Len(sent), sent, first.topic) = {}
    BY <1>1 DEF Due
  <2>3. Increasing(<<>>) /\ ToSet(<<>>) = {}
    BY DEF Increasing, ToSet
  <2> QED BY <2>1, <2>2, <2>3, Zenon DEF Serves
<1> HIDE DEF new, first
<1>5. /\ DOMAIN taken' = DOMAIN taken \cup {new} /\ DOMAIN since' = DOMAIN taken \cup {new}
      /\ DOMAIN subscriptions' = DOMAIN subscriptions \cup {new}
      /\ taken'[new] = <<>> /\ since'[new] = Len(sent) /\ subscriptions'[new] = first
      /\ \A id \in DOMAIN taken : taken'[id] = taken[id] /\ since'[id] = since[id]
      /\ \A id \in DOMAIN subscriptions : subscriptions'[id] = subscriptions[id]
  BY <1>1, <1>2 DEF With
<1>6. new + 1 \in Nat \ {0} /\ DOMAIN taken' = 1..((new + 1) - 1)
  BY <1>1, <1>5
<1>7. ASSUME NEW id \in DOMAIN taken' PROVE taken'[id] \in Seq(Nat) /\ since'[id] \in 0..Len(sent)
  <2>1. CASE id = new
    BY <1>1, <1>5, <2>1
  <2>2. CASE id \in DOMAIN taken
    BY <1>5, <2>2 DEF PsInv
  <2> QED BY <1>5, <2>1, <2>2
<1>8. ASSUME NEW id \in DOMAIN subscriptions'
      PROVE  subscriptions'[id] \in Subscription /\ Serves(taken'[id], subscriptions'[id], since'[id], sent)
  <2>1. CASE id = new
    BY <1>3, <1>4, <1>5, <2>1
  <2>2. CASE id \in DOMAIN subscriptions
    BY <1>1, <1>5, <2>2 DEF PsInv
  <2> QED BY <1>5, <2>1, <2>2
<1>9. ASSUME NEW id \in DOMAIN taken' \ DOMAIN subscriptions' PROVE Handed(taken'[id], since'[id], sent)
  BY <1>5 DEF PsInv
<1>10. DOMAIN since' = DOMAIN taken' /\ DOMAIN subscriptions' \subseteq DOMAIN taken'
  BY <1>1, <1>5
<1> QED BY <1>1, <1>2, <1>6, <1>7, <1>8, <1>9, <1>10 DEF PsInv

(* An event after the others goes to those who asked for its topic.        *)
LEMMA DueGrows ==
  ASSUME NEW events \in Seq(Topics), NEW from \in 0..Len(events), NEW topic \in Topics, NEW t
  PROVE  LET new == Len(events) + 1
         IN  Due(from, Append(events, topic), t)
               = IF t = topic THEN Due(from, events, t) \cup {new} ELSE Due(from, events, t)
<1> DEFINE new == Len(events) + 1
           next == Append(events, topic)
<1>1. /\ Len(next) = new /\ next[new] = topic /\ Len(events) \in Nat
      /\ \A n \in 1..Len(events) : next[n] = events[n]
  OBVIOUS
<1>2. (from + 1)..new = ((from + 1)..Len(events)) \cup {new}
  BY <1>1
<1>3. (from + 1)..Len(events) \subseteq 1..Len(events)
  BY <1>1
<1>4. Due(from, next, t) = {n \in (from + 1)..new : next[n] = t}
  BY <1>1 DEF Due
<1> HIDE DEF new, next
<1>5. Due(from, next, t) = IF t = topic THEN Due(from, events, t) \cup {new} ELSE Due(from, events, t)
  BY <1>1, <1>2, <1>3, <1>4 DEF Due
<1> QED BY <1>5 DEF new, next

LEMMA GrowingAppend ==
  ASSUME NEW g \in Seq(Nat), Increasing(g), NEW new \in Nat, \A n \in ToSet(g) : n < new
  PROVE  Increasing(Append(g, new)) /\ ToSet(Append(g, new)) = ToSet(g) \cup {new}
<1> DEFINE h == Append(g, new)
<1>1. /\ DOMAIN h = DOMAIN g \cup {Len(g) + 1} /\ DOMAIN g = 1..Len(g) /\ Len(g) \in Nat
      /\ h[Len(g) + 1] = new /\ \A n \in DOMAIN g : h[n] = g[n] /\ g[n] \in Nat
  OBVIOUS
<1> HIDE DEF h
<1>2. ToSet(h) = ToSet(g) \cup {new}
  BY <1>1 DEF ToSet
<1>3. \A n \in DOMAIN g : g[n] < new
  BY DEF ToSet
<1>4. Increasing(h)
  <2> SUFFICES ASSUME NEW m \in DOMAIN h, NEW n \in DOMAIN h, m < n PROVE h[m] < h[n]
    BY DEF Increasing
  <2>1. m \in DOMAIN g
    BY <1>1
  <2>2. CASE n \in DOMAIN g
    BY <1>1, <2>1, <2>2 DEF Increasing
  <2>3. CASE n = Len(g) + 1
    BY <1>1, <1>3, <2>1, <2>3
  <2> QED BY <1>1, <2>2, <2>3
<1> QED BY <1>2, <1>4 DEF h

Noted(sub, topic, n) ==
  IF sub.topic = topic THEN [sub EXCEPT !.pending_events = Append(@, n)] ELSE sub

LEMMA ServesOneMore ==
  ASSUME NEW list \in Seq(Nat), NEW sub \in Subscription, NEW events \in Seq(Topics),
         NEW from \in 0..Len(events), Serves(list, sub, from, events), NEW topic \in Topics
  PROVE  /\ Noted(sub, topic, Len(events) + 1) \in Subscription
         /\ Serves(list, Noted(sub, topic, Len(events) + 1), from, Append(events, topic))
<1> DEFINE new == Len(events) + 1
           after == Append(events, topic)
           p == sub.pending_events
           g == Got(list, sub)
           D == Due(from, events, sub.topic)
<1>1. p \in Seq(Nat) /\ sub.topic \in Topics
  BY DEF Subscription
<1>2. g \in Seq(Nat) /\ new \in Nat /\ Increasing(g) /\ ToSet(g) = D /\ g = list \o p
  BY <1>1 DEF Got, Serves
<1>3. D \subseteq 1..Len(events) /\ Len(events) \in Nat
  BY DueBounds
<1>4. \A n \in D : n < new
  BY <1>3
<1>5. CASE sub.topic = topic
  <2> DEFINE next == [sub EXCEPT !.pending_events = Append(p, new)]
  <2>1. /\ next.topic = topic /\ next.pending_events = Append(p, new)
    BY <1>5 DEF Subscription
  <2>2. next \in Subscription
    <3>1. Append(p, new) \in Seq(Nat)
      BY <1>1, <1>2
    <3> HIDE DEF p, new
    <3> QED BY <3>1 DEF Subscription
  <2>3. Due(from, after, topic) = D \cup {new}
    BY <1>5, DueGrows
  <2> HIDE DEF g, new, D, after, next, p
  <2>4. Got(list, next) = Append(g, new)
    <3>1. Got(list, next) = list \o Append(p, new)
      BY <2>1 DEF Got
    <3>2. Append(p, new) = p \o <<new>> /\ Append(g, new) = g \o <<new>> /\ <<new>> \in Seq(Nat)
      BY <1>1, <1>2, AppendIsConcat
    <3>3. (list \o p) \o <<new>> = list \o (p \o <<new>>)
      <4>1. <<new>> \in Seq(Nat)
        BY <3>2
      <4> QED BY ONLY <1>1, <4>1, list \in Seq(Nat), Regroup, SMTT(40)
    <3> QED BY <1>2, <3>1, <3>2, <3>3
  <2>5. Increasing(Append(g, new)) /\ ToSet(Append(g, new)) = D \cup {new}
    BY <1>2, <1>4, GrowingAppend
  <2>6. Serves(list, next, from, after)
    BY <2>1, <2>3, <2>4, <2>5 DEF Serves
  <2>7. Noted(sub, topic, new) = next
    BY <1>5 DEF Noted, next, p
  <2> QED BY <2>2, <2>6, <2>7 DEF after, new
<1>6. CASE sub.topic # topic
  <2>1. Due(from, after, sub.topic) = D
    BY <1>6, DueGrows
  <2>2. Serves(list, sub, from, after)
    BY <2>1 DEF Serves
  <2>3. Noted(sub, topic, new) = sub
    BY <1>6 DEF Noted
  <2> QED BY <2>2, <2>3
<1> QED BY <1>5, <1>6

LEMMA HandedStill ==
  ASSUME NEW list, NEW events \in Seq(Topics), NEW from \in 0..Len(events), NEW topic \in Topics,
         Handed(list, from, events)
  PROVE  Handed(list, from, Append(events, topic))
<1> DEFINE new == Len(events) + 1
           after == Append(events, topic)
<1>1. PICK t \in Topics, last \in 0..Len(events) : ToSet(list) = {n \in Due(from, events, t) : n <= last}
  BY DEF Handed
<1>2. Len(after) = new /\ last \in 0..new /\ ~(new <= last)
  BY <1>1
<1>3. Due(from, after, t) = IF t = topic THEN Due(from, events, t) \cup {new} ELSE Due(from, events, t)
  BY DueGrows
<1> HIDE DEF new, after
<1>4. ToSet(list) = {n \in Due(from, after, t) : n <= last}
  BY <1>1, <1>2, <1>3
<1>5. Increasing(list)
  BY DEF Handed
<1> QED BY <1>1, <1>2, <1>4, <1>5 DEF Handed, after

LEMMA PublishKeeps == ASSUME PsInv, NEW topic \in Topics, publish(topic) PROVE PsInv'
<1>1. /\ sent \in Seq(Topics) /\ sent' = Append(sent, topic) /\ next_sub_id' = next_sub_id
      /\ since' = since /\ taken' = taken
      /\ subscriptions' = [k \in DOMAIN subscriptions |->
           IF subscriptions[k].topic = topic
           THEN [subscriptions[k] EXCEPT !.pending_events = Append(@, Len(sent) + 1)]
           ELSE subscriptions[k]]
  BY DEF PsInv, publish
<1>2. sent' \in Seq(Topics) /\ Len(sent') = Len(sent) + 1 /\ Len(sent) \in Nat
  BY <1>1
<1>3. \A id \in DOMAIN taken : taken[id] \in Seq(Nat) /\ since[id] \in 0..Len(sent)
  BY DEF PsInv
<1>4. \A id \in DOMAIN taken : since[id] \in 0..Len(sent')
  BY <1>2, <1>3
<1>5. DOMAIN subscriptions' = DOMAIN subscriptions
  BY <1>1
<1>6. ASSUME NEW id \in DOMAIN subscriptions
      PROVE  subscriptions'[id] \in Subscription /\ Serves(taken[id], subscriptions'[id], since[id], sent')
  <2> DEFINE sub == subscriptions[id]
  <2>1. /\ sub \in Subscription /\ Serves(taken[id], sub, since[id], sent)
        /\ taken[id] \in Seq(Nat) /\ since[id] \in 0..Len(sent)
    BY <1>3 DEF PsInv
  <2>2. subscriptions'[id] = Noted(sub, topic, Len(sent) + 1)
    BY <1>1 DEF Noted
  <2> HIDE DEF sub
  <2>3. subscriptions'[id] \in Subscription
    BY <1>1, <2>1, <2>2, ServesOneMore
  <2>4. Serves(taken[id], subscriptions'[id], since[id], Append(sent, topic))
    BY <1>1, <2>1, <2>2, ServesOneMore
  <2> QED BY <1>1, <2>3, <2>4
<1>7. ASSUME NEW id \in DOMAIN taken \ DOMAIN subscriptions PROVE Handed(taken[id], since[id], sent')
  BY <1>1, <1>3, HandedStill DEF PsInv
<1> QED BY <1>1, <1>2, <1>3, <1>4, <1>5, <1>6, <1>7 DEF PsInv

LEMMA PollKeeps == ASSUME PsInv, NEW id \in DOMAIN subscriptions, poll_events(id) PROVE PsInv'
<1> DEFINE sub == subscriptions[id]
           got == Got(taken[id], sub)
           next == [sub EXCEPT !.pending_events = <<>>]
<1>1. /\ taken' = [taken EXCEPT ![id] = got] /\ subscriptions' = [subscriptions EXCEPT ![id] = next]
      /\ next_sub_id' = next_sub_id /\ sent' = sent /\ since' = since
  BY DEF poll_events, Got
<1>2. /\ sub \in Subscription /\ id \in DOMAIN taken /\ taken[id] \in Seq(Nat)
      /\ Serves(taken[id], sub, since[id], sent)
  BY DEF PsInv
<1>3. sub.pending_events \in Seq(Nat)
  BY <1>2 DEF Subscription
<1>4. got \in Seq(Nat)
  BY <1>2, <1>3 DEF Got
<1>5. next \in Subscription /\ next.topic = sub.topic /\ next.pending_events = <<>>
  <2> DEFINE none == <<>>
  <2>1. none \in Seq(Nat)
    OBVIOUS
  <2> HIDE DEF sub, none
  <2>2. sub \in [topic : Topics, pending_events : Seq(Nat)]
    BY <1>2 DEF Subscription
  <2>3. next = [sub EXCEPT !.pending_events = none]
    BY DEF none
  <2> HIDE DEF next
  <2>4. next \in Subscription /\ next.topic = sub.topic /\ next.pending_events = none
    BY <2>1, <2>2, <2>3 DEF Subscription
  <2> QED BY <2>4 DEF none
<1>6. Serves(got, next, since[id], sent)
  <2> HIDE DEF got, next, sub
  <2>1. Got(got, next) = got
    BY <1>4, <1>5, ConcatEmptySeq DEF Got
  <2>2. Increasing(got) /\ ToSet(got) = Due(since[id], sent, sub.topic)
    BY <1>2 DEF Serves, got
  <2> QED BY <1>5, <2>1, <2>2 DEF Serves
<1> HIDE DEF got, next, sub
<1>7. /\ DOMAIN subscriptions' = DOMAIN subscriptions /\ DOMAIN taken' = DOMAIN taken
      /\ subscriptions'[id] = next /\ taken'[id] = got
      /\ \A k \in DOMAIN subscriptions \ {id} : subscriptions'[k] = subscriptions[k]
      /\ \A k \in DOMAIN taken \ {id} : taken'[k] = taken[k]
  BY <1>1, <1>2
<1>8. ASSUME NEW k \in DOMAIN subscriptions
      PROVE  subscriptions'[k] \in Subscription /\ Serves(taken'[k], subscriptions'[k], since[k], sent)
  <2>1. CASE k = id
    BY <1>5, <1>6, <1>7, <2>1
  <2>2. CASE k # id
    BY <1>7, <2>2 DEF PsInv
  <2> QED BY <2>1, <2>2
<1>9. ASSUME NEW k \in DOMAIN taken \ DOMAIN subscriptions PROVE Handed(taken'[k], since[k], sent)
  BY <1>7 DEF PsInv
<1>10. \A k \in DOMAIN taken : taken'[k] \in Seq(Nat)
  BY <1>4, <1>7 DEF PsInv
<1> QED BY <1>1, <1>7, <1>8, <1>9, <1>10 DEF PsInv

(* Subscriptions that end, one or all of them.                             *)
LEMMA EndKeeps ==
  ASSUME PsInv, NEW left \in SUBSET DOMAIN subscriptions,
         subscriptions' = [k \in left |-> subscriptions[k]],
         UNCHANGED <<next_sub_id, sent, since, taken>>
  PROVE  PsInv'
<1>1. DOMAIN subscriptions' = left /\ \A k \in left : subscriptions'[k] = subscriptions[k]
  OBVIOUS
<1>2. ASSUME NEW k \in DOMAIN taken \ left PROVE Handed(taken[k], since[k], sent)
  <2>1. CASE k \in DOMAIN subscriptions
    <3>1. /\ taken[k] \in Seq(Nat) /\ subscriptions[k] \in Subscription /\ sent \in Seq(Topics)
          /\ since[k] \in 0..Len(sent) /\ Serves(taken[k], subscriptions[k], since[k], sent)
      BY <2>1 DEF PsInv
    <3> QED BY <3>1, EndsHanded
  <2>2. CASE k \notin DOMAIN subscriptions
    BY <2>2 DEF PsInv
  <2> QED BY <2>1, <2>2
<1> QED BY <1>1, <1>2 DEF PsInv

LEMMA PsInductive == PsSpec => []PsInv
<1>1. ASSUME PsInv, [PsNext]_psVars PROVE PsInv'
  <2>1. ASSUME NEW id \in DOMAIN subscriptions, unsubscribe(id) PROVE PsInv'
    BY <1>1, <2>1, EndKeeps DEF unsubscribe
  <2>2. ASSUME clear PROVE PsInv'
    <3>1. subscriptions' = [k \in {} |-> subscriptions[k]]
      BY <2>2 DEF clear
    <3> QED BY <1>1, <2>2, <3>1, EndKeeps DEF clear
  <2>3. ASSUME UNCHANGED psVars PROVE PsInv'
    BY <1>1, <2>3 DEF psVars, PsInv
  <2> QED BY <1>1, <2>1, <2>2, <2>3, SubscribeKeeps, PublishKeeps, PollKeeps DEF PsNext
<1> QED BY PsStart, <1>1, PTL DEF PsSpec

(* Every subscriber gets each event of its topic once and in order,        *)
(* whatever the other subscribers do between its polls, and one that       *)
(* leaves has missed none before the last it got (publish, poll_events,    *)
(* unsubscribe, clear).                                                    *)
THEOREM PubSubInOrderOnce == PsSpec => []InOrderOnce
<1>1. PsInv => InOrderOnce
  BY DEF PsInv, InOrderOnce, Serves, Handed, Due, Got
<1> QED BY PsInductive, <1>1, PTL
=============================================================================
