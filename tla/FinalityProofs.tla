--------------------------- MODULE FinalityProofs ---------------------------
(* Theorems about quorum finality for every set of validators and every    *)
(* distribution of stake.                                                  *)
EXTENDS Finality, TLAPS

(* AccountableSafety is not inductive: it follows in each state from the   *)
(* fact that every final block has a quorum of votes, which is inductive   *)
(* because votes are never taken back.                                     *)
FInv == FTypeOK /\ FinalIffQuorum

LEMMA StakeType == StakeIsMeasure => \A S \in SUBSET Validators : W[S] \in Nat
  BY DEF StakeIsMeasure

LEMMA QuorumGrows ==
  ASSUME StakeIsMeasure,
         NEW S \in SUBSET Validators, NEW T \in SUBSET Validators, S \subseteq T, IsQuorum(S)
  PROVE  IsQuorum(T)
<1>1. W[S] <= W[T]
  BY DEF StakeIsMeasure
<1>2. W[S] \in Nat /\ W[T] \in Nat /\ W[Validators] \in Nat
  BY StakeType
<1> QED BY <1>1, <1>2 DEF IsQuorum

(* Any two quorums share a third of the stake.                             *)
LEMMA QuorumsIntersect ==
  ASSUME StakeIsMeasure,
         NEW S \in SUBSET Validators, NEW T \in SUBSET Validators, IsQuorum(S), IsQuorum(T)
  PROVE  3 * W[S \cap T] >= W[Validators]
<1>1. W[S \cup T] + W[S \cap T] = W[S] + W[T]
  BY DEF StakeIsMeasure
<1>2. W[S \cup T] <= W[Validators]
  BY DEF StakeIsMeasure
<1>3. /\ W[S] \in Nat /\ W[T] \in Nat /\ W[S \cup T] \in Nat
      /\ W[S \cap T] \in Nat /\ W[Validators] \in Nat
  <2>1. S \cup T \in SUBSET Validators /\ S \cap T \in SUBSET Validators
    OBVIOUS
  <2> QED BY <2>1, StakeType
<1> QED BY <1>1, <1>2, <1>3 DEF IsQuorum

LEMMA NextFInv == StakeIsMeasure /\ FInv /\ [FNext]_fvars => FInv'
<1> SUFFICES ASSUME StakeIsMeasure, FInv, [FNext]_fvars PROVE FInv'
  OBVIOUS
<1> USE DEF FInv
<1>1. ASSUME NEW v \in Validators, NEW b \in Blocks, Vote(v, b) PROVE FInv'
  <2>1. /\ votes' = [votes EXCEPT ![b] = @ \cup {v}]
        /\ votes'[b] = votes[b] \cup {v}
        /\ \A c \in Blocks : c # b => votes'[c] = votes[c]
    BY <1>1 DEF Vote, FTypeOK
  <2>2. FTypeOK'
    BY <1>1, <2>1 DEF Vote, FTypeOK
  <2>3. ASSUME NEW c \in Blocks PROVE (c \in final <=> IsQuorum(votes[c]) /\ votes[c] # {})'
    <3>0. final' = IF IsQuorum(votes'[b]) THEN final \cup {b} ELSE final
      BY <1>1 DEF Vote
    <3>1. CASE c # b
      BY <2>1, <3>0, <3>1 DEF FinalIffQuorum, IsQuorum
    <3>2. CASE c = b
      <4>1. b \in final => IsQuorum(votes'[b])
        BY <2>1, QuorumGrows DEF FTypeOK, FinalIffQuorum
      <4>2. IsQuorum(votes[c])' <=> IsQuorum(votes'[b])
        BY <3>2 DEF IsQuorum
      <4> QED BY <2>1, <3>0, <3>2, <4>1, <4>2
    <3> QED BY <3>1, <3>2
  <2> QED BY <2>2, <2>3 DEF FinalIffQuorum
<1>2. CASE UNCHANGED fvars
  BY <1>2 DEF fvars, FTypeOK, FinalIffQuorum, IsQuorum
<1> QED BY <1>1, <1>2 DEF FNext

LEMMA InitFInv == FInit => FInv
BY DEF FInit, FInv, FTypeOK, FinalIffQuorum

LEMMA QuorumsMakeAccountable == StakeIsMeasure /\ FInv => AccountableSafety
<1> SUFFICES ASSUME StakeIsMeasure, FTypeOK, FinalIffQuorum, NEW b \in final, NEW c \in final
             PROVE  3 * W[votes[b] \cap votes[c]] >= W[Validators]
  BY DEF FInv, AccountableSafety
<1>1. votes[b] \in SUBSET Validators /\ votes[c] \in SUBSET Validators
  BY DEF FTypeOK
<1>2. IsQuorum(votes[b]) /\ IsQuorum(votes[c])
  BY DEF FTypeOK, FinalIffQuorum
<1> QED BY <1>1, <1>2, QuorumsIntersect

(* A block is final exactly when the votes counted for it are a quorum.    *)
THEOREM FinalityExact ==
  ASSUME StakeIsMeasure PROVE FSpec => [](FTypeOK /\ FinalIffQuorum)
<1>1. FInv /\ [FNext]_fvars => FInv'
  BY NextFInv
<1> QED BY <1>1, InitFInv, PTL DEF FSpec, FInv

(* Conflicting finality takes a third of the stake voting twice.           *)
THEOREM FinalityAccountable ==
  ASSUME StakeIsMeasure PROVE FSpec => []AccountableSafety
<1>1. FInv => AccountableSafety
  BY QuorumsMakeAccountable
<1>2. FTypeOK /\ FinalIffQuorum => FInv
  BY DEF FInv
<1> QED BY <1>1, <1>2, FinalityExact, PTL
=============================================================================
