------------------------- MODULE VoteCollectorProofs ------------------------
(***************************************************************************)
(* The quorum collector for any validators, stakes, keys and blocks, any   *)
(* number of threads that deliver votes, and any changes of the validator  *)
(* set and restarts in between.                                            *)
(***************************************************************************)
EXTENDS VoteCollector, SumTheorems, SequenceTheorems, TLAPS

Looked == [vote : Vote, stake : Nat]

VTypeOK ==
  /\ active \in [DOMAIN active -> Nat] /\ DOMAIN active \subseteq Validators
  /\ block_votes \in [Blocks -> Seq([voter : Validators, key : Keys])]
  /\ vote_stake_totals \in [Blocks -> Nat]
  /\ finalized_blocks \subseteq Blocks
  /\ call \in [Threads -> {Idle} \cup Looked]
  /\ credit \in [Blocks -> [Validators -> Nat]]
  /\ changes \in Nat

(* No validator has, or is counted with, more than it registered with.     *)
StakesBounded ==
  /\ \A v \in DOMAIN active : active[v] <= InitialStake[v]
  /\ \A b \in Blocks, v \in Validators : credit[b][v] <= InitialStake[v]

(* What add_vote found out before it took the lock.                        *)
CallsVetted ==
  \A t \in Threads : call[t] # Idle =>
    LET vote == call[t].vote
    IN  /\ KeyOf[vote.voter] \in {NoKey, vote.key}
        /\ 0 < call[t].stake /\ call[t].stake <= InitialStake[vote.voter]

Voters(b) == {v \in Validators : Counted(b, v)}

(* As long as the validator set has not changed, everybody is counted with *)
(* the stake that is active, and what is final has a quorum.               *)
FixedSet ==
  changes = 0 =>
    /\ active = InitialStake
    /\ \A t \in Threads : call[t] # Idle => call[t].stake = InitialStake[call[t].vote.voter]
    /\ \A b \in Blocks, v \in Validators : Counted(b, v) => credit[b][v] = InitialStake[v]

(* CreditExact is not inductive: that a vote was looked up with a positive *)
(* stake, under the voter's own key, is known only of the calls under way. *)
VInv == VTypeOK /\ CreditExact /\ StakesBounded /\ CallsVetted /\ FixedSet

(* No sum that the collector computes exceeds the width of its counters.   *)
NoOverflow == 3 * SumFunction(InitialStake) < Modulus

-----------------------------------------------------------------------------
LEMMA StakeFacts ==
  /\ IsFiniteSet(Validators) /\ InitialStake \in [Validators -> Nat]
  /\ Modulus \in Nat \ {0}
  /\ \A S \in SUBSET Validators : SumFunctionOnSet(InitialStake, S) \in Nat
  /\ SumFunction(InitialStake) = SumFunctionOnSet(InitialStake, Validators)
<1>1. IsFiniteSet(Validators) /\ InitialStake \in [Validators -> Nat] /\ Modulus \in Nat \ {0}
  BY StakeAssumption
<1>2. ASSUME NEW S \in SUBSET Validators PROVE SumFunctionOnSet(InitialStake, S) \in Nat
  BY <1>1, FS_Subset, SumNat
<1>3. SumFunction(InitialStake) = SumFunctionOnSet(InitialStake, Validators)
  BY <1>1 DEF SumFunction
<1> QED BY <1>1, <1>2, <1>3

(* Stake as the collector sums it up is a measure: all that the argument   *)
(* about quorums needs.                                                    *)
THEOREM StakeSums == Fin!StakeIsMeasure
<1> DEFINE W == [S \in SUBSET Validators |-> SumFunctionOnSet(InitialStake, S)]
<1>1. W \in [SUBSET Validators -> Nat]
  BY StakeFacts
<1>2. ASSUME NEW S \in SUBSET Validators, NEW T \in SUBSET Validators
      PROVE  /\ W[S \cup T] + W[S \cap T] = W[S] + W[T]
             /\ S \subseteq T => W[S] <= W[T]
  <2>1. IsFiniteSet(S) /\ IsFiniteSet(T)
    BY StakeFacts, FS_Subset
  <2>2. /\ \A x \in S \cup T : InitialStake[x] \in Int
        /\ \A x \in T : InitialStake[x] \in Nat
    BY StakeFacts
  <2>3. SumFunctionOnSet(InitialStake, S \cup T) + SumFunctionOnSet(InitialStake, S \cap T)
          = SumFunctionOnSet(InitialStake, S) + SumFunctionOnSet(InitialStake, T)
    BY <2>1, <2>2, SumUnion
  <2>4. S \subseteq T => SumFunctionOnSet(InitialStake, S) <= SumFunctionOnSet(InitialStake, T)
    BY <2>1, <2>2, SumMonotone
  <2>5. S \cup T \in SUBSET Validators /\ S \cap T \in SUBSET Validators
    OBVIOUS
  <2> QED BY <2>3, <2>4, <2>5
<1> HIDE DEF W
<1> QED BY <1>1, <1>2 DEF Fin!StakeIsMeasure, W

-----------------------------------------------------------------------------
(* No step but CountVote, ClearVotes and a change of the registry matters. *)
LEMMA SameTally ==
  ASSUME VInv, UNCHANGED tally
  PROVE  /\ CreditExact'
         /\ (block_votes \in [Blocks -> Seq([voter : Validators, key : Keys])])'
         /\ (vote_stake_totals \in [Blocks -> Nat])'
         /\ (finalized_blocks \subseteq Blocks)'
         /\ (credit \in [Blocks -> [Validators -> Nat]])'
         /\ (\A b \in Blocks, v \in Validators : credit[b][v] <= InitialStake[v])'
         /\ \A b \in Blocks, v \in Validators : Counted(b, v)' = Counted(b, v)
<1>1. /\ block_votes' = block_votes /\ vote_stake_totals' = vote_stake_totals
      /\ finalized_blocks' = finalized_blocks /\ credit' = credit
  BY DEF tally
<1>2. \A b \in Blocks, v \in Validators : Counted(b, v)' = Counted(b, v)
  BY <1>1 DEF Counted
<1>3. CreditExact'
  BY <1>1, <1>2 DEF VInv, CreditExact
<1> QED BY <1>1, <1>2, <1>3 DEF VInv, VTypeOK, StakesBounded

LEMMA ClearedTally ==
  ASSUME ClearVotes
  PROVE  /\ CreditExact'
         /\ (block_votes \in [Blocks -> Seq([voter : Validators, key : Keys])])'
         /\ (vote_stake_totals \in [Blocks -> Nat])'
         /\ (finalized_blocks \subseteq Blocks)'
         /\ (credit \in [Blocks -> [Validators -> Nat]])'
         /\ (\A b \in Blocks, v \in Validators : credit[b][v] <= InitialStake[v])'
         /\ \A b \in Blocks, v \in Validators : ~Counted(b, v)'
<1>1. /\ block_votes' = [b \in Blocks |-> <<>>] /\ vote_stake_totals' = [b \in Blocks |-> 0]
      /\ finalized_blocks' = {} /\ credit' = [b \in Blocks |-> [v \in Validators |-> 0]]
  BY DEF ClearVotes
<1>2. \A b \in Blocks : DOMAIN block_votes'[b] = {}
  BY <1>1
<1>3. \A b \in Blocks : SumFunction(credit'[b]) = 0
  <2> SUFFICES ASSUME NEW b \in Blocks PROVE SumFunction(credit'[b]) = 0
    OBVIOUS
  <2>1. DOMAIN credit'[b] = Validators /\ \A v \in Validators : credit'[b][v] = 0
    BY <1>1
  <2> QED BY <2>1, StakeFacts, SumZero DEF SumFunction
<1>4. 0 % Modulus = 0
  BY StakeFacts
<1>5. CreditExact'
  BY <1>1, <1>2, <1>3, <1>4 DEF CreditExact, Counted
<1> QED BY <1>1, <1>2, <1>5, StakeFacts DEF Counted

LEMMA InitVInv == Init => VInv
<1> SUFFICES ASSUME Init PROVE VInv
  OBVIOUS
<1>1. /\ block_votes = [b \in Blocks |-> <<>>] /\ vote_stake_totals = [b \in Blocks |-> 0]
      /\ finalized_blocks = {} /\ credit = [b \in Blocks |-> [v \in Validators |-> 0]]
      /\ active = InitialStake /\ call = [t \in Threads |-> Idle] /\ changes = 0
  BY DEF Init, NoTally
<1>2. \A b \in Blocks : DOMAIN block_votes[b] = {}
  BY <1>1
<1>3. \A b \in Blocks : SumFunction(credit[b]) = 0
  <2> SUFFICES ASSUME NEW b \in Blocks PROVE SumFunction(credit[b]) = 0
    OBVIOUS
  <2>1. DOMAIN credit[b] = Validators /\ \A v \in Validators : credit[b][v] = 0
    BY <1>1
  <2> QED BY <2>1, StakeFacts, SumZero DEF SumFunction
<1>4. 0 % Modulus = 0
  BY StakeFacts
<1>5. VTypeOK
  BY <1>1, StakeFacts DEF VTypeOK
<1>6. CreditExact
  BY <1>1, <1>2, <1>3, <1>4 DEF CreditExact, Counted
<1>7. StakesBounded /\ CallsVetted /\ FixedSet
  BY <1>1, <1>2, StakeFacts DEF StakesBounded, CallsVetted, FixedSet, Counted
<1> QED BY <1>5, <1>6, <1>7 DEF VInv

LEMMA LookUpInv == ASSUME VInv, NEW t \in Threads, NEW vote \in Vote, LookUp(t, vote) PROVE VInv'
<1>1. /\ UNCHANGED tally /\ active' = active /\ changes' = changes
      /\ call' = [call EXCEPT ![t] = [vote |-> vote, stake |-> active[vote.voter]]]
      /\ vote.voter \in DOMAIN active /\ active[vote.voter] # 0
      /\ KeyOf[vote.voter] \in {NoKey, vote.key}
  BY DEF LookUp, registry
<1>2. [vote |-> vote, stake |-> active[vote.voter]] \in Looked
  BY <1>1 DEF VInv, VTypeOK, Looked
<1>3. VTypeOK'
  BY <1>1, <1>2, SameTally DEF VInv, VTypeOK
<1>4. CallsVetted'
  <2> SUFFICES ASSUME NEW u \in Threads, call'[u] # Idle
               PROVE  /\ KeyOf[call'[u].vote.voter] \in {NoKey, call'[u].vote.key}
                      /\ 0 < call'[u].stake /\ call'[u].stake <= InitialStake[call'[u].vote.voter]
    BY DEF CallsVetted
  <2>1. CASE u = t
    <3>1. call'[u] = [vote |-> vote, stake |-> active[vote.voter]]
      BY <1>1, <2>1 DEF VInv, VTypeOK
    <3>2. active[vote.voter] \in Nat /\ active[vote.voter] <= InitialStake[vote.voter]
      BY <1>1 DEF VInv, VTypeOK, StakesBounded
    <3> QED BY <1>1, <3>1, <3>2
  <2>2. CASE u # t
    BY <1>1, <2>2 DEF VInv, VTypeOK, CallsVetted
  <2> QED BY <2>1, <2>2
<1>5. StakesBounded'
  BY <1>1, SameTally DEF VInv, StakesBounded
<1>6. FixedSet'
  <2> SUFFICES ASSUME changes = 0 PROVE FixedSet'
    BY <1>1 DEF FixedSet
  <2>1. active' = InitialStake
    BY <1>1 DEF VInv, FixedSet
  <2>2. ASSUME NEW u \in Threads, call'[u] # Idle
        PROVE  call'[u].stake = InitialStake[call'[u].vote.voter]
    <3>1. CASE u = t
      BY <1>1, <2>1, <3>1 DEF VInv, VTypeOK
    <3>2. CASE u # t
      BY <1>1, <2>2, <3>2 DEF VInv, VTypeOK, FixedSet
    <3> QED BY <3>1, <3>2
  <2>3. \A b \in Blocks, v \in Validators : Counted(b, v)' => credit'[b][v] = InitialStake[v]
    BY <1>1, SameTally DEF VInv, FixedSet, tally
  <2> QED BY <2>1, <2>2, <2>3 DEF FixedSet
<1> QED BY <1>1, <1>3, <1>4, <1>5, <1>6, SameTally DEF VInv

-----------------------------------------------------------------------------
(* What a step of add_vote under the lock does to the tally.               *)
LEMMA CountEffect ==
  ASSUME VInv, NEW t \in Threads, CountVote(t),
         NEW b, NEW w, NEW key, NEW stake,
         call[t].vote.block = b, call[t].vote.voter = w, call[t].vote.key = key,
         call[t].stake = stake, ~Counted(b, w)
  PROVE  /\ b \in Blocks /\ w \in Validators /\ key \in Keys /\ stake \in Nat
         /\ 0 < stake /\ stake <= InitialStake[w] /\ KeyOf[w] \in {NoKey, key}
         /\ credit[b][w] = 0
         /\ block_votes' = [block_votes EXCEPT ![b] = Append(@, [voter |-> w, key |-> key])]
         /\ vote_stake_totals' = [vote_stake_totals EXCEPT ![b] = (@ + stake) % Modulus]
         /\ credit' = [credit EXCEPT ![b][w] = stake]
         /\ finalized_blocks' = IF MeetsThreshold(vote_stake_totals'[b], TotalActiveStake)
                                THEN finalized_blocks \cup {b} ELSE finalized_blocks
<1>1. call[t] # Idle /\ call[t] \in Looked
  BY DEF CountVote, VInv, VTypeOK
<1>2. b \in Blocks /\ w \in Validators /\ key \in Keys /\ stake \in Nat
  BY <1>1 DEF Looked, Vote
<1>3. 0 < stake /\ stake <= InitialStake[w] /\ KeyOf[w] \in {NoKey, key}
  BY <1>1 DEF VInv, CallsVetted
<1>4. credit[b][w] = 0
  <2>1. ~(credit[b][w] > 0) /\ credit[b][w] \in Nat
    BY <1>2 DEF VInv, VTypeOK, CreditExact
  <2> QED BY <2>1
<1>5. /\ block_votes' = [block_votes EXCEPT ![b] = Append(@, [voter |-> w, key |-> key])]
      /\ vote_stake_totals' = [vote_stake_totals EXCEPT ![b] = (vote_stake_totals[b] + stake) % Modulus]
      /\ credit' = [credit EXCEPT ![b][w] = @ + stake]
      /\ finalized_blocks' = IF MeetsThreshold((vote_stake_totals[b] + stake) % Modulus, TotalActiveStake)
                             THEN finalized_blocks \cup {b} ELSE finalized_blocks
  BY DEF CountVote
<1>6. vote_stake_totals'[b] = (vote_stake_totals[b] + stake) % Modulus
  BY <1>2, <1>5 DEF VInv, VTypeOK
<1>7. credit' = [credit EXCEPT ![b][w] = stake]
  <2>1. credit[b][w] + stake = stake
    BY <1>2, <1>4
  <2> QED BY <1>2, <1>5, <2>1 DEF VInv, VTypeOK
<1> QED BY <1>2, <1>3, <1>4, <1>5, <1>6, <1>7

(* The calls that are left.                                                *)
LEMMA CallsAfterCount ==
  ASSUME VInv, NEW t \in Threads, CountVote(t)
  PROVE  /\ active' = active /\ changes' = changes /\ call[t] # Idle /\ call[t] \in Looked
         /\ call' \in [Threads -> {Idle} \cup Looked]
         /\ \A u \in Threads : call'[u] # Idle => call'[u] = call[u]
         /\ CallsVetted'
<1>1. active' = active /\ changes' = changes /\ call' = [call EXCEPT ![t] = Idle] /\ call[t] # Idle
  BY DEF CountVote, registry
<1>2. /\ call' \in [Threads -> {Idle} \cup Looked] /\ call[t] \in Looked
      /\ \A u \in Threads : call'[u] # Idle => call'[u] = call[u]
  BY <1>1 DEF VInv, VTypeOK
<1>3. CallsVetted'
  BY <1>2 DEF VInv, CallsVetted
<1> QED BY <1>1, <1>2, <1>3

LEMMA CountNewInv ==
  ASSUME VInv, NEW t \in Threads, CountVote(t),
         NEW b, NEW w, NEW key, NEW stake,
         call[t].vote.block = b, call[t].vote.voter = w, call[t].vote.key = key,
         call[t].stake = stake, ~Counted(b, w)
  PROVE  VInv'
<1>0. /\ active' = active /\ changes' = changes /\ call[t] # Idle /\ call[t] \in Looked
      /\ call' \in [Threads -> {Idle} \cup Looked]
      /\ \A u \in Threads : call'[u] # Idle => call'[u] = call[u]
      /\ CallsVetted'
  BY CallsAfterCount
<1>1. /\ b \in Blocks /\ w \in Validators /\ key \in Keys /\ stake \in Nat
      /\ 0 < stake /\ stake <= InitialStake[w] /\ KeyOf[w] \in {NoKey, key}
      /\ credit[b][w] = 0
      /\ block_votes' = [block_votes EXCEPT ![b] = Append(@, [voter |-> w, key |-> key])]
      /\ vote_stake_totals' = [vote_stake_totals EXCEPT ![b] = (@ + stake) % Modulus]
      /\ credit' = [credit EXCEPT ![b][w] = stake]
      /\ finalized_blocks' \subseteq finalized_blocks \cup {b}
  BY CountEffect
<1> DEFINE entry == [voter |-> w, key |-> key]
           old == block_votes[b]
<1>2. entry \in [voter : Validators, key : Keys] /\ old \in Seq([voter : Validators, key : Keys])
  BY <1>1 DEF VInv, VTypeOK
<1>3. /\ block_votes'[b] = Append(old, entry)
      /\ \A c \in Blocks \ {b} : block_votes'[c] = block_votes[c]
  BY <1>1 DEF VInv, VTypeOK
<1> HIDE DEF entry, old
<1>4. /\ Append(old, entry) \in Seq([voter : Validators, key : Keys])
      /\ Len(Append(old, entry)) = Len(old) + 1
      /\ \A n \in 1..Len(old) : Append(old, entry)[n] = old[n]
      /\ Append(old, entry)[Len(old) + 1] = entry
      /\ Len(old) \in Nat
      /\ DOMAIN old = 1..Len(old)
      /\ DOMAIN Append(old, entry) = 1..Len(old) + 1
  BY <1>2, AppendProperties
<1>5. VTypeOK'
  <2>1. block_votes' \in [Blocks -> Seq([voter : Validators, key : Keys])]
    BY <1>1, <1>2, <1>4 DEF VInv, VTypeOK, old, entry
  <2>2. vote_stake_totals' \in [Blocks -> Nat]
    <3>1. vote_stake_totals[b] + stake \in Int
      BY <1>1 DEF VInv, VTypeOK
    <3>2. (vote_stake_totals[b] + stake) % Modulus \in Nat
      BY <3>1, StakeFacts, DivMod
    <3> QED BY <1>1, <3>2 DEF VInv, VTypeOK
  <2>3. credit' \in [Blocks -> [Validators -> Nat]]
    BY <1>1 DEF VInv, VTypeOK
  <2>4. finalized_blocks' \subseteq Blocks
    BY <1>1 DEF VInv, VTypeOK
  <2> QED BY <1>0, <2>1, <2>2, <2>3, <2>4 DEF VInv, VTypeOK
<1>6. /\ \A v \in Validators : Counted(b, v)' <=> Counted(b, v) \/ v = w
      /\ \A c \in Blocks \ {b}, v \in Validators : Counted(c, v)' = Counted(c, v)
  <2>1. ASSUME NEW v \in Validators PROVE Counted(b, v)' <=> Counted(b, v) \/ v = w
    <3>1. Counted(b, v)' <=> \E n \in 1..Len(old) + 1 : Append(old, entry)[n].voter = v
      <4>1. Counted(b, v)' <=> \E n \in DOMAIN block_votes'[b] : block_votes'[b][n].voter = v
        BY DEF Counted
      <4> QED BY <1>3, <1>4, <4>1
    <3>2. Counted(b, v) <=> \E n \in 1..Len(old) : old[n].voter = v
      BY <1>4 DEF Counted, old
    <3>3. Append(old, entry)[Len(old) + 1].voter = w
      BY <1>4 DEF entry
    <3>4. \A n \in 1..Len(old) + 1 : n \in 1..Len(old) \/ n = Len(old) + 1
      BY <1>4
    <3>5. \A n \in 1..Len(old) : n \in 1..Len(old) + 1
      BY <1>4
    <3>6. Len(old) + 1 \in 1..Len(old) + 1
      BY <1>4
    <3> QED BY <1>4, <3>1, <3>2, <3>3, <3>4, <3>5, <3>6
  <2>2. \A c \in Blocks \ {b}, v \in Validators : Counted(c, v)' = Counted(c, v)
    BY <1>3 DEF Counted
  <2> QED BY <2>1, <2>2
<1>7. /\ credit'[b] = [credit[b] EXCEPT ![w] = stake]
      /\ \A v \in Validators \ {w} : credit'[b][v] = credit[b][v]
      /\ credit'[b][w] = stake
      /\ \A c \in Blocks \ {b} : credit'[c] = credit[c] /\ vote_stake_totals'[c] = vote_stake_totals[c]
      /\ vote_stake_totals'[b] = (vote_stake_totals[b] + stake) % Modulus
  BY <1>1 DEF VInv, VTypeOK
<1>8. vote_stake_totals'[b] = SumFunction(credit'[b]) % Modulus
  <2>1. /\ SumFunction(credit'[b]) = SumFunction(credit[b]) - credit[b][w] + stake
        /\ SumFunction(credit[b]) \in Int
    <3>1. credit[b] \in [Validators -> Int] /\ stake \in Int
      BY <1>1 DEF VInv, VTypeOK
    <3>2. /\ SumFunction([credit[b] EXCEPT ![w] = stake]) = SumFunction(credit[b]) - credit[b][w] + stake
          /\ SumFunction(credit[b]) \in Int
      <4>1. IsFiniteSet(Validators) /\ w \in Validators
        BY <1>1, StakeFacts
      <4>2. \A f \in [Validators -> Int], v \in Validators, e \in Int :
              /\ SumFunction([f EXCEPT ![v] = e]) = SumFunction(f) - f[v] + e
              /\ SumFunction(f) \in Int
        BY ONLY <4>1, SumUpdate
      <4> QED BY <3>1, <4>1, <4>2
    <3> QED BY <1>7, <3>2
  <2>2. vote_stake_totals[b] = SumFunction(credit[b]) % Modulus
    BY <1>1 DEF VInv, CreditExact
  <2>3. SumFunction(credit[b]) - credit[b][w] + stake = SumFunction(credit[b]) + stake
    BY <1>1, <2>1
  <2>4. ((SumFunction(credit[b]) % Modulus) + stake) % Modulus = (SumFunction(credit[b]) + stake) % Modulus
    <3>1. stake \in Int
      BY <1>1
    <3> QED BY <2>1, <3>1, StakeFacts, ModAdd
  <2> QED BY <1>7, <2>1, <2>2, <2>3, <2>4
<1>9. StakesBounded'
  BY <1>0, <1>1, <1>7 DEF VInv, StakesBounded
<1>10. FixedSet'
  <2> SUFFICES ASSUME changes = 0 PROVE FixedSet'
    BY <1>0 DEF FixedSet
  <2>1. stake = InitialStake[w]
    BY <1>0 DEF VInv, FixedSet
  <2>2. ASSUME NEW c \in Blocks, NEW v \in Validators, Counted(c, v)'
        PROVE  credit'[c][v] = InitialStake[v]
    BY <1>1, <1>6, <1>7, <2>1, <2>2 DEF VInv, FixedSet
  <2> QED BY <1>0, <2>2 DEF VInv, FixedSet
<1>11. CreditExact'
  <2> SUFFICES ASSUME NEW c \in Blocks
               PROVE  /\ vote_stake_totals'[c] = SumFunction(credit'[c]) % Modulus
                      /\ \A m, n \in DOMAIN block_votes'[c] :
                            block_votes'[c][m].voter = block_votes'[c][n].voter => m = n
                      /\ \A v \in Validators : credit'[c][v] > 0 <=> Counted(c, v)'
                      /\ \A n \in DOMAIN block_votes'[c] :
                            KeyOf[block_votes'[c][n].voter] \in {NoKey, block_votes'[c][n].key}
    BY DEF CreditExact
  <2>1. CASE c # b
    BY <1>3, <1>6, <1>7, <2>1 DEF VInv, CreditExact
  <2>2. CASE c = b
    <3>1. \A n \in 1..Len(old) : old[n].voter # w /\ KeyOf[old[n].voter] \in {NoKey, old[n].key}
      BY <1>1, <1>4 DEF VInv, CreditExact, Counted, old
    <3>2. KeyOf[w] \in {NoKey, key}
      BY <1>1
    <3>3. ASSUME NEW m \in 1..Len(old) + 1, NEW n \in 1..Len(old) + 1,
                 Append(old, entry)[m].voter = Append(old, entry)[n].voter
          PROVE  m = n
      <4>1. \A k \in 1..Len(old) + 1 : k \in 1..Len(old) \/ k = Len(old) + 1
        BY <1>4
      <4>2. \A i, j \in 1..Len(old) : old[i].voter = old[j].voter => i = j
        BY <1>1, <1>4 DEF VInv, CreditExact, old
      <4>3. Append(old, entry)[Len(old) + 1].voter = w
        BY <1>4 DEF entry
      <4> QED BY <1>4, <3>1, <3>3, <4>1, <4>2, <4>3
    <3>4. ASSUME NEW n \in 1..Len(old) + 1
          PROVE  KeyOf[Append(old, entry)[n].voter] \in {NoKey, Append(old, entry)[n].key}
      <4>1. CASE n \in 1..Len(old)
        BY <1>4, <3>1, <4>1
      <4>2. CASE n = Len(old) + 1
        BY <1>4, <3>2, <4>2 DEF entry
      <4> QED BY <1>4, <4>1, <4>2
    <3>5. \A v \in Validators : credit'[b][v] > 0 <=> Counted(b, v)'
      <4>1. \A v \in Validators : credit[b][v] > 0 <=> Counted(b, v)
        BY <1>1 DEF VInv, CreditExact
      <4> QED BY <1>1, <1>6, <1>7, <4>1
    <3> QED BY <1>3, <1>4, <1>8, <2>2, <3>3, <3>4, <3>5, SMTT(40)
  <2> QED BY <2>1, <2>2
<1> QED BY <1>0, <1>5, <1>9, <1>10, <1>11 DEF VInv

LEMMA CountVoteInv == ASSUME VInv, NEW t \in Threads, CountVote(t) PROVE VInv'
<1>0. /\ active' = active /\ changes' = changes /\ call[t] # Idle /\ call[t] \in Looked
      /\ call' \in [Threads -> {Idle} \cup Looked]
      /\ \A u \in Threads : call'[u] # Idle => call'[u] = call[u]
      /\ CallsVetted'
  BY CallsAfterCount
<1>1. CASE Counted(call[t].vote.block, call[t].vote.voter)
  <2>1. UNCHANGED tally
    BY <1>1 DEF CountVote
  <2>2. VTypeOK' /\ StakesBounded'
    BY <1>0, <2>1, SameTally DEF VInv, VTypeOK, StakesBounded
  <2>3. FixedSet'
    <3>1. \A c \in Blocks, v \in Validators : Counted(c, v)' = Counted(c, v) /\ credit'[c][v] = credit[c][v]
      BY <2>1, SameTally DEF tally
    <3> QED BY <1>0, <3>1 DEF VInv, FixedSet
  <2> QED BY <1>0, <2>1, <2>2, <2>3, SameTally DEF VInv
<1>2. CASE ~Counted(call[t].vote.block, call[t].vote.voter)
  BY <1>2, CountNewInv
<1> QED BY <1>1, <1>2

-----------------------------------------------------------------------------
LEMMA RegistryInv ==
  ASSUME VInv, NEW newActive, ChangeRegistry(newActive),
         newActive \in [DOMAIN newActive -> Nat], DOMAIN newActive \subseteq Validators,
         \A v \in DOMAIN newActive : newActive[v] <= InitialStake[v]
  PROVE  VInv'
<1>1. active' = newActive /\ changes' = changes + 1 /\ UNCHANGED tally /\ call' = call
  BY DEF ChangeRegistry
<1>2. changes' \in Nat /\ changes' # 0
  BY <1>1 DEF VInv, VTypeOK
<1>3. VTypeOK'
  BY <1>1, <1>2, SameTally DEF VInv, VTypeOK
<1>4. StakesBounded' /\ CallsVetted' /\ FixedSet'
  BY <1>1, <1>2, SameTally DEF VInv, StakesBounded, CallsVetted, FixedSet
<1> QED BY <1>1, <1>3, <1>4, SameTally DEF VInv

(* A penalty takes no more than there is.                                  *)
LEMMA PenaltyBound ==
  ASSUME NEW a \in Nat
  PROVE  a - (a * Penalty) \div 100 \in 0..a
<1>1. Penalty \in 0..100
  BY PenaltyAssumption
<1>2. a * Penalty >= 0 /\ a * Penalty <= a * 100 /\ a * Penalty \in Int
  BY <1>1
<1> DEFINE p == a * Penalty
<1>3. p \in Int /\ 0 <= p /\ p <= 100 * a
  BY <1>2
<1> HIDE DEF p
<1>4. p \div 100 \in 0..a
  BY <1>3
<1> QED BY <1>4 DEF p

LEMMA NextVInv == VInv /\ [Next]_vars => VInv'
<1> SUFFICES ASSUME VInv, [Next]_vars PROVE VInv'
  OBVIOUS
<1>0. /\ active \in [DOMAIN active -> Nat] /\ DOMAIN active \subseteq Validators
      /\ \A v \in DOMAIN active : active[v] <= InitialStake[v]
  BY DEF VInv, VTypeOK, StakesBounded
<1>1. ASSUME NEW t \in Threads, NEW vote \in Vote, LookUp(t, vote) PROVE VInv'
  BY <1>1, LookUpInv
<1>2. ASSUME NEW t \in Threads, CountVote(t) PROVE VInv'
  BY <1>2, CountVoteInv
<1>3. ASSUME NEW v \in Validators, Register(v) PROVE VInv'
  <2> DEFINE new == [w \in DOMAIN active \cup {v} |-> IF w = v THEN InitialStake[v] ELSE active[w]]
  <2>1. /\ new \in [DOMAIN new -> Nat] /\ DOMAIN new \subseteq Validators
        /\ \A w \in DOMAIN new : new[w] <= InitialStake[w]
    BY <1>0, StakeFacts
  <2>2. ChangeRegistry(new)
    BY <1>3 DEF Register
  <2> HIDE DEF new
  <2> QED BY <2>1, <2>2, RegistryInv
<1>4. ASSUME NEW v \in Validators, Unregister(v) PROVE VInv'
  <2> DEFINE new == [w \in DOMAIN active \ {v} |-> active[w]]
  <2>1. /\ new \in [DOMAIN new -> Nat] /\ DOMAIN new \subseteq Validators
        /\ \A w \in DOMAIN new : new[w] <= InitialStake[w]
    BY <1>0
  <2>2. ChangeRegistry(new)
    BY <1>4 DEF Unregister
  <2> HIDE DEF new
  <2> QED BY <2>1, <2>2, RegistryInv
<1>5. ASSUME NEW v \in Validators, Slash(v) PROVE VInv'
  <2> DEFINE half == active[v] \div 2
             new == [active EXCEPT ![v] = half]
  <2>1. active[v] \div 2 \in 0..active[v]
    <3>1. active[v] \in Nat
      BY <1>0, <1>5 DEF Slash
    <3> QED BY <3>1
  <2>2. ChangeRegistry(new) /\ v \in DOMAIN active
    BY <1>5 DEF Slash
  <2> HIDE DEF half
  <2>3. half \in 0..active[v]
    BY <2>1 DEF half
  <2>4. /\ new \in [DOMAIN new -> Nat] /\ DOMAIN new \subseteq Validators
        /\ \A w \in DOMAIN new : new[w] <= InitialStake[w]
    BY <1>0, <2>2, <2>3, StakeFacts
  <2> HIDE DEF new
  <2> QED BY <2>2, <2>4, RegistryInv
<1>6. ASSUME NEW v \in Validators, Penalise(v) PROVE VInv'
  <2> DEFINE left == active[v] - (active[v] * Penalty) \div 100
             new == [active EXCEPT ![v] = left]
  <2>1. left \in 0..active[v] /\ v \in DOMAIN active
    BY <1>0, <1>6, PenaltyBound DEF Penalise
  <2>2. ChangeRegistry(new)
    BY <1>6 DEF Penalise
  <2> HIDE DEF left
  <2>3. /\ new \in [DOMAIN new -> Nat] /\ DOMAIN new \subseteq Validators
        /\ \A w \in DOMAIN new : new[w] <= InitialStake[w]
    BY <1>0, <2>1, StakeFacts
  <2> HIDE DEF new
  <2> QED BY <2>2, <2>3, RegistryInv
<1>7. CASE Restart
  <2>1. ClearVotes /\ active' = InitialStake /\ call' = [t \in Threads |-> Idle] /\ changes' = changes
    BY <1>7 DEF Restart
  <2>2. VTypeOK'
    BY <2>1, ClearedTally, StakeFacts DEF VInv, VTypeOK
  <2>3. StakesBounded' /\ CallsVetted' /\ FixedSet'
    BY <2>1, ClearedTally, StakeFacts DEF StakesBounded, CallsVetted, FixedSet
  <2> QED BY <2>1, <2>2, <2>3, ClearedTally DEF VInv
<1>8. CASE UNCHANGED vars
  <2>1. UNCHANGED tally /\ active' = active /\ changes' = changes /\ call' = call
    BY <1>8 DEF vars, registry
  <2>2. VTypeOK' /\ StakesBounded' /\ CallsVetted'
    BY <2>1, SameTally DEF VInv, VTypeOK, StakesBounded, CallsVetted
  <2>3. FixedSet'
    BY <2>1, SameTally DEF VInv, FixedSet, tally
  <2> QED BY <2>1, <2>2, <2>3, SameTally DEF VInv
<1> QED BY <1>1, <1>2, <1>3, <1>4, <1>5, <1>6, <1>7, <1>8 DEF Next

(* The inductive invariant of the collector.                               *)
THEOREM CollectorInvariant == Spec => []VInv
BY InitVInv, NextVInv, PTL DEF Spec

(* However the calls of add_vote interleave, and whatever happens to the   *)
(* validator set, a validator is counted once per block, under its own     *)
(* key, and the running total is the wrapped sum of what was counted.      *)
THEOREM CollectorCreditExact == Spec => []CreditExact
BY CollectorInvariant, PTL DEF VInv

-----------------------------------------------------------------------------
(* The stake counted for a block and the stake that is active are at most  *)
(* what was registered, so that nothing wraps.                             *)
LEMMA SumsBounded ==
  ASSUME VInv
  PROVE  /\ TrueTotalStake \in Nat /\ TrueTotalStake <= SumFunction(InitialStake)
         /\ \A b \in Blocks : /\ SumFunction(credit[b]) \in Nat
                              /\ SumFunction(credit[b]) <= SumFunction(InitialStake)
<1>1. TrueTotalStake \in Nat /\ TrueTotalStake <= SumFunction(InitialStake)
  <2> DEFINE D == DOMAIN active
  <2>1. IsFiniteSet(D) /\ D \in SUBSET Validators
    BY StakeFacts, FS_Subset DEF VInv, VTypeOK
  <2>2. \A v \in D : active[v] \in Nat /\ InitialStake[v] \in Nat /\ active[v] <= InitialStake[v]
    BY <2>1, StakeFacts DEF VInv, VTypeOK, StakesBounded
  <2>3. TrueTotalStake = SumFunctionOnSet(active, D)
    BY DEF TrueTotalStake, SumFunction
  <2> HIDE DEF D
  <2>4. SumFunctionOnSet(active, D) \in Nat
    BY <2>1, <2>2, SumNat
  <2>5. SumFunctionOnSet(active, D) <= SumFunctionOnSet(InitialStake, D)
    BY <2>1, <2>2, SumPointwise
  <2>6. SumFunctionOnSet(InitialStake, D) <= SumFunctionOnSet(InitialStake, Validators)
    BY <2>1, StakeFacts, SumMonotone
  <2>7. /\ SumFunctionOnSet(InitialStake, D) \in Nat
        /\ SumFunctionOnSet(InitialStake, Validators) \in Nat
    BY <2>1, StakeFacts
  <2> QED BY <2>3, <2>4, <2>5, <2>6, <2>7, StakeFacts
<1>2. ASSUME NEW b \in Blocks
      PROVE  SumFunction(credit[b]) \in Nat /\ SumFunction(credit[b]) <= SumFunction(InitialStake)
  <2>1. credit[b] \in [Validators -> Nat]
    BY DEF VInv, VTypeOK
  <2>2. SumFunction(credit[b]) = SumFunctionOnSet(credit[b], Validators)
    BY <2>1 DEF SumFunction
  <2>3. \A v \in Validators : /\ credit[b][v] \in Nat /\ InitialStake[v] \in Nat
                              /\ credit[b][v] <= InitialStake[v]
    BY <2>1, StakeFacts DEF VInv, StakesBounded
  <2>4. SumFunctionOnSet(credit[b], Validators) \in Nat
    BY <2>3, StakeFacts, SumNat
  <2>5. SumFunctionOnSet(credit[b], Validators) <= SumFunctionOnSet(InitialStake, Validators)
    BY <2>3, StakeFacts, SumPointwise
  <2> QED BY <2>2, <2>4, <2>5, StakeFacts
<1> QED BY <1>1, <1>2

(* Without overflow the comparison of add_vote is the exact one.           *)
LEMMA ExactThreshold ==
  ASSUME NoOverflow, NEW voted \in Nat, NEW total \in Nat,
         voted <= SumFunction(InitialStake), total <= SumFunction(InitialStake)
  PROVE  MeetsThreshold(voted % Modulus, total % Modulus)
           <=> total > 0 /\ 3 * voted >= 2 * total
<1> DEFINE sum == SumFunction(InitialStake)
<1>1. sum \in Nat /\ 3 * sum < Modulus /\ Modulus \in Nat \ {0}
  BY StakeFacts DEF NoOverflow
<1> HIDE DEF sum
<1>2. voted <= sum /\ total <= sum
  BY DEF sum
<1>3. voted \in 0..Modulus-1 /\ total \in 0..Modulus-1
  BY <1>1, <1>2
<1>4. voted % Modulus = voted /\ total % Modulus = total
  BY <1>1, <1>3, ModSmall
<1>5. voted * 3 \in 0..Modulus-1 /\ total * 2 \in 0..Modulus-1
  BY <1>1, <1>2
<1>6. (voted * 3) % Modulus = voted * 3 /\ (total * 2) % Modulus = total * 2
  BY <1>1, <1>5, ModSmall
<1> QED BY <1>4, <1>6 DEF MeetsThreshold

(* A block becomes final only when a vote for it is counted.               *)
LEMMA NewlyFinal ==
  ASSUME VInv, [Next]_vars, NEW b \in finalized_blocks' \ finalized_blocks
  PROVE  /\ b \in Blocks
         /\ active' = active
         /\ MeetsThreshold(vote_stake_totals'[b], TotalActiveStake)
<1>1. ASSUME NEW t \in Threads, CountVote(t)
      PROVE  /\ b \in Blocks /\ active' = active
             /\ MeetsThreshold(vote_stake_totals'[b], TotalActiveStake)
  <2>1. active' = active
    BY <1>1, CallsAfterCount
  <2>2. ~Counted(call[t].vote.block, call[t].vote.voter)
    BY <1>1 DEF CountVote, tally
  <2>3. /\ call[t].vote.block \in Blocks
        /\ finalized_blocks' =
             IF MeetsThreshold(vote_stake_totals'[call[t].vote.block], TotalActiveStake)
             THEN finalized_blocks \cup {call[t].vote.block} ELSE finalized_blocks
    BY <1>1, <2>2, CountEffect, ZenonT(60)
  <2> QED BY <2>1, <2>3
<1>2. ASSUME UNCHANGED tally PROVE FALSE
  BY <1>2 DEF tally
<1>3. CASE Restart
  BY <1>3 DEF Restart, ClearVotes
<1>4. CASE UNCHANGED vars
  BY <1>2, <1>4 DEF vars
<1>5. ASSUME NEW t \in Threads, NEW vote \in Vote, LookUp(t, vote) PROVE FALSE
  BY <1>2, <1>5 DEF LookUp
<1>6. ASSUME NEW v \in Validators, Register(v) \/ Unregister(v) \/ Slash(v) \/ Penalise(v) PROVE FALSE
  BY <1>2, <1>6 DEF Register, Unregister, Slash, Penalise, ChangeRegistry
<1> QED BY <1>1, <1>3, <1>4, <1>5, <1>6 DEF Next

(* A block becomes final only with two thirds of the stake that is active  *)
(* in that step, in exact arithmetic: the lookup outside of the lock and   *)
(* the width of the counters cannot make it final earlier, as long as      *)
(* three times the registered stake fits into a counter.                   *)
THEOREM CollectorEarnedFinality == NoOverflow => (Spec => EarnedFinality)
<1> DEFINE Earned == \A b \in finalized_blocks' \ finalized_blocks :
                       3 * SumFunction(credit'[b]) >= 2 * TrueTotalStake /\ TrueTotalStake > 0
           Bounded == \A b \in Blocks : /\ SumFunction(credit[b]) \in Nat
                                         /\ SumFunction(credit[b]) <= SumFunction(InitialStake)
<1>0. VInv' => Bounded'
  <2>1. VInv => Bounded
    BY SumsBounded
  <2> QED BY <2>1, PTL
<1>1. NoOverflow /\ VInv /\ VInv' /\ [Next]_vars => Earned
  <2> SUFFICES ASSUME NoOverflow, VInv, VInv', [Next]_vars, NEW b \in finalized_blocks' \ finalized_blocks
               PROVE  3 * SumFunction(credit'[b]) >= 2 * TrueTotalStake /\ TrueTotalStake > 0
    OBVIOUS
  <2>1. b \in Blocks /\ MeetsThreshold(vote_stake_totals'[b], TotalActiveStake)
    BY NewlyFinal
  <2>2. vote_stake_totals'[b] = SumFunction(credit'[b]) % Modulus
    BY <2>1 DEF VInv, CreditExact
  <2>3. TotalActiveStake = TrueTotalStake % Modulus
    BY DEF TotalActiveStake
  <2>4. TrueTotalStake \in Nat /\ TrueTotalStake <= SumFunction(InitialStake)
    BY SumsBounded
  <2>5. SumFunction(credit'[b]) \in Nat /\ SumFunction(credit'[b]) <= SumFunction(InitialStake)
    BY <1>0, <2>1
  <2> QED BY <2>1, <2>2, <2>3, <2>4, <2>5, ExactThreshold
<1>2. ASSUME NoOverflow PROVE Spec => EarnedFinality
  <2>1. VInv /\ VInv' /\ [Next]_vars => Earned
    BY <1>1, <1>2
  <2> QED BY <2>1, CollectorInvariant, PTL DEF Spec, EarnedFinality
<1> QED BY <1>2

-----------------------------------------------------------------------------
(* The refinement mapping of Fin.                                          *)
Weights == [S \in SUBSET Validators |-> SumFunctionOnSet(InitialStake, S)]
VoterSets == [b \in Blocks |-> {v \in Validators : Counted(b, v)}]

(* Before the validator set changes, the stake counted for a block is the  *)
(* stake of its voters.                                                    *)
LEMMA CountedStake ==
  ASSUME VInv, changes = 0, NEW b \in Blocks
  PROVE  SumFunction(credit[b]) = Weights[VoterSets[b]] /\ VoterSets[b] \in SUBSET Validators
<1> DEFINE V == {v \in Validators : Counted(b, v)}
<1>1. credit[b] \in [Validators -> Nat] /\ V \subseteq Validators /\ VoterSets[b] = V
  BY DEF VInv, VTypeOK, VoterSets
<1>2. \A v \in Validators \ V : credit[b][v] = 0
  <2> TAKE v \in Validators \ V
  <2>1. ~(credit[b][v] > 0) /\ credit[b][v] \in Nat
    BY <1>1 DEF VInv, CreditExact
  <2> QED BY <2>1
<1>3. \A v \in V : credit[b][v] = InitialStake[v]
  BY DEF VInv, FixedSet
<1> HIDE DEF V
<1>4. SumFunctionOnSet(credit[b], Validators) = SumFunctionOnSet(credit[b], V)
  BY <1>1, <1>2, StakeFacts, SumSupport
<1>5. IsFiniteSet(V)
  BY <1>1, StakeFacts, FS_Subset
<1>6. SumFunctionOnSet(credit[b], V) = SumFunctionOnSet(InitialStake, V)
  BY <1>3, <1>5, SumSame
<1>7. SumFunction(credit[b]) = SumFunctionOnSet(credit[b], Validators)
  BY <1>1 DEF SumFunction
<1> QED BY <1>1, <1>4, <1>6, <1>7 DEF Weights

(* The comparison of add_vote asks whether the voters are a quorum.        *)
LEMMA ThresholdIsQuorum ==
  ASSUME NoOverflow, VInv, changes = 0, NEW b \in Blocks, Weights[Validators] > 0
  PROVE  MeetsThreshold(vote_stake_totals[b], SumFunction(InitialStake) % Modulus)
           <=> 3 * Weights[VoterSets[b]] >= 2 * Weights[Validators]
<1>1. vote_stake_totals[b] = SumFunction(credit[b]) % Modulus
  BY DEF VInv, CreditExact
<1>2. SumFunction(credit[b]) \in Nat /\ SumFunction(credit[b]) <= SumFunction(InitialStake)
  BY SumsBounded
<1>3. SumFunction(InitialStake) = Weights[Validators] /\ SumFunction(InitialStake) \in Nat
  BY StakeFacts DEF Weights
<1>4. SumFunction(credit[b]) = Weights[VoterSets[b]]
  BY CountedStake
<1>5. MeetsThreshold(SumFunction(credit[b]) % Modulus, SumFunction(InitialStake) % Modulus)
        <=> SumFunction(InitialStake) > 0 /\ 3 * SumFunction(credit[b]) >= 2 * SumFunction(InitialStake)
  BY <1>2, <1>3, ExactThreshold
<1> QED BY <1>1, <1>3, <1>4, <1>5

(* The same of the state after a step.                                     *)
LEMMA QuorumAfter ==
  NoOverflow /\ VInv' /\ changes' = 0 /\ Weights'[Validators] > 0 =>
    \A b \in Blocks :
      MeetsThreshold(vote_stake_totals'[b], SumFunction(InitialStake) % Modulus)
        <=> 3 * Weights'[VoterSets'[b]] >= 2 * Weights'[Validators]
<1>1. NoOverflow /\ VInv /\ changes = 0 /\ Weights[Validators] > 0 =>
        \A b \in Blocks :
          MeetsThreshold(vote_stake_totals[b], SumFunction(InitialStake) % Modulus)
            <=> 3 * Weights[VoterSets[b]] >= 2 * Weights[Validators]
  BY ThresholdIsQuorum
<1>2. (NoOverflow /\ VInv /\ changes = 0 /\ Weights[Validators] > 0 =>
        \A b \in Blocks :
          MeetsThreshold(vote_stake_totals[b], SumFunction(InitialStake) % Modulus)
            <=> 3 * Weights[VoterSets[b]] >= 2 * Weights[Validators])'
  BY <1>1, PTL
<1>3. NoOverflow => NoOverflow'
  BY DEF NoOverflow
<1> QED BY <1>2, <1>3

(* Counting a vote is the step Vote of Finality.                           *)
LEMMA CountIsVote ==
  ASSUME NoOverflow, VInv, VInv', changes = 0, NEW t \in Threads, CountVote(t),
         NEW b, NEW w, call[t].vote.block = b, call[t].vote.voter = w, ~Counted(b, w)
  PROVE  Fin!Vote(w, b) /\ b \in Blocks /\ w \in Validators
<1>1. changes' = 0 /\ active' = active /\ call[t] # Idle
  BY CallsAfterCount
<1> DEFINE key == call[t].vote.key
           stake == call[t].stake
<1>2. /\ b \in Blocks /\ w \in Validators /\ 0 < stake /\ stake \in Nat
      /\ block_votes' = [block_votes EXCEPT ![b] = Append(@, [voter |-> w, key |-> key])]
      /\ key \in Keys
      /\ finalized_blocks' = IF MeetsThreshold(vote_stake_totals'[b], TotalActiveStake)
                             THEN finalized_blocks \cup {b} ELSE finalized_blocks
  BY CountEffect
<1>3. stake = InitialStake[w] /\ active = InitialStake
  BY <1>1 DEF VInv, FixedSet
<1>4. Weights[{w}] > 0 /\ Weights[Validators] > 0
  <2>1. Weights[{w}] = InitialStake[w]
    <3>1. InitialStake[w] \in Int
      BY <1>2, StakeFacts
    <3>2. SumFunctionOnSet(InitialStake, {w}) = InitialStake[w]
      BY <3>1, SumSingleton
    <3> QED BY <1>2, <3>2 DEF Weights
  <2>2. {w} \in SUBSET Validators /\ {w} \subseteq Validators
    BY <1>2
  <2>3. SumFunctionOnSet(InitialStake, {w}) <= SumFunctionOnSet(InitialStake, Validators)
    BY <2>2, StakeFacts, SumMonotone
  <2>4. Weights[{w}] <= Weights[Validators] /\ Weights[{w}] \in Nat /\ Weights[Validators] \in Nat
    BY <2>2, <2>3, StakeFacts DEF Weights
  <2> QED BY <1>2, <1>3, <2>1, <2>4
<1>5. VoterSets' = [VoterSets EXCEPT ![b] = @ \cup {w}]
  <2>1. ASSUME NEW c \in Blocks, NEW v \in Validators
        PROVE  Counted(c, v)' <=> Counted(c, v) \/ (c = b /\ v = w)
    <3> HIDE DEF key
    <3> DEFINE entry == [voter |-> w, key |-> key]
               old == block_votes[b]
    <3>1. entry \in [voter : Validators, key : Keys] /\ old \in Seq([voter : Validators, key : Keys])
      BY <1>2 DEF VInv, VTypeOK
    <3>2. /\ block_votes'[b] = Append(old, entry)
          /\ c # b => block_votes'[c] = block_votes[c]
      BY <1>2 DEF VInv, VTypeOK
    <3>3. entry.voter = w
      OBVIOUS
    <3> HIDE DEF entry, old
    <3>4. /\ \A n \in 1..Len(old) : Append(old, entry)[n] = old[n]
          /\ Append(old, entry)[Len(old) + 1] = entry
          /\ Len(old) \in Nat
          /\ DOMAIN old = 1..Len(old)
          /\ DOMAIN Append(old, entry) = 1..Len(old) + 1
      BY <3>1, AppendProperties
    <3>5. CASE c = b
      <4>1. Counted(b, v)' <=> \E n \in 1..Len(old) + 1 : Append(old, entry)[n].voter = v
        <5>1. Counted(b, v)' <=> \E n \in DOMAIN block_votes'[b] : block_votes'[b][n].voter = v
          BY DEF Counted
        <5> QED BY <3>2, <3>4, <5>1
      <4>2. Counted(b, v) <=> \E n \in 1..Len(old) : old[n].voter = v
        BY <3>4 DEF Counted, old
      <4>3. \A n \in 1..Len(old) + 1 : n \in 1..Len(old) \/ n = Len(old) + 1
        BY <3>4
      <4>4. /\ \A n \in 1..Len(old) : n \in 1..Len(old) + 1
            /\ Len(old) + 1 \in 1..Len(old) + 1
        BY <3>4
      <4> QED BY <3>3, <3>4, <3>5, <4>1, <4>2, <4>3, <4>4
    <3>6. CASE c # b
      BY <3>2, <3>6 DEF Counted
    <3> QED BY <3>5, <3>6
  <2>2. ASSUME NEW c \in Blocks
        PROVE  {v \in Validators : Counted(c, v)'} =
                 IF c = b THEN {v \in Validators : Counted(c, v)} \cup {w}
                          ELSE {v \in Validators : Counted(c, v)}
    BY <1>2, <2>1
  <2>3. VoterSets' = [c \in Blocks |-> {v \in Validators : Counted(c, v)'}]
    BY DEF VoterSets
  <2>4. /\ DOMAIN VoterSets = Blocks
        /\ \A c \in Blocks : VoterSets[c] = {v \in Validators : Counted(c, v)}
    BY DEF VoterSets
  <2>5. VoterSets' = [c \in Blocks |-> IF c = b THEN VoterSets[c] \cup {w} ELSE VoterSets[c]]
    BY <2>2, <2>3, <2>4
  <2>6. VoterSets = [c \in Blocks |-> VoterSets[c]]
    BY DEF VoterSets
  <2> HIDE DEF VoterSets
  <2> QED BY <1>2, <2>4, <2>5, <2>6
<1>6. finalized_blocks' = IF 3 * Weights[VoterSets'[b]] >= 2 * Weights[Validators]
                          THEN finalized_blocks \cup {b} ELSE finalized_blocks
  <2>1. TotalActiveStake = SumFunction(InitialStake) % Modulus
    BY <1>3 DEF TotalActiveStake, TrueTotalStake
  <2>2. /\ NoOverflow /\ VInv' /\ changes' = 0 /\ Weights'[Validators] > 0
        /\ Weights' = Weights
    BY <1>1, <1>4 DEF Weights
  <2>3. MeetsThreshold(vote_stake_totals'[b], TotalActiveStake)
          <=> 3 * Weights[VoterSets'[b]] >= 2 * Weights[Validators]
    BY <1>2, <2>1, <2>2, QuorumAfter
  <2> QED BY <1>2, <2>3
<1>7. w \notin VoterSets[b] /\ VoterSets[b] = {v \in Validators : Counted(b, v)}
  BY <1>2 DEF VoterSets
<1>8. /\ VoterSets'[b] = VoterSets[b] \cup {w}
  BY <1>2, <1>5 DEF VoterSets
<1> QED
  <2> HIDE DEF key, stake
  <2> QED BY <1>2, <1>4, <1>5, <1>6, <1>7, <1>8 DEF Fin!Vote, Fin!IsQuorum, Weights, VoterSets

LEMMA InitIsFInit == Init => Fin!FInit
<1> SUFFICES ASSUME Init PROVE Fin!FInit
  OBVIOUS
<1>1. block_votes = [b \in Blocks |-> <<>>] /\ finalized_blocks = {}
  BY DEF Init, NoTally
<1>2. ASSUME NEW b \in Blocks PROVE {v \in Validators : Counted(b, v)} = {}
  BY <1>1 DEF Counted
<1> QED BY <1>1, <1>2 DEF Fin!FInit

LEMMA ClearedIsFInit == ClearVotes => Fin!FInit'
<1> SUFFICES ASSUME ClearVotes PROVE Fin!FInit'
  OBVIOUS
<1>1. block_votes' = [b \in Blocks |-> <<>>] /\ finalized_blocks' = {}
  BY DEF ClearVotes
<1>2. ASSUME NEW b \in Blocks PROVE {v \in Validators : Counted(b, v)'} = {}
  BY <1>1 DEF Counted
<1> QED BY <1>1, <1>2 DEF Fin!FInit

LEMMA SameTallySameVotes == ASSUME UNCHANGED tally PROVE UNCHANGED Fin!fvars
<1>1. block_votes' = block_votes /\ finalized_blocks' = finalized_blocks
  BY DEF tally
<1>2. ASSUME NEW b \in Blocks, NEW v \in Validators PROVE Counted(b, v)' <=> Counted(b, v)
  BY <1>1 DEF Counted
<1>3. [b \in Blocks |-> {v \in Validators : Counted(b, v)'}]
        = [b \in Blocks |-> {v \in Validators : Counted(b, v)}]
  BY <1>2
<1> QED BY <1>1, <1>3 DEF Fin!fvars

(* Every step of the collector that leaves the validator set as it was is  *)
(* a step of Finality, no step at all, or a fresh start.                   *)
LEMMA StepRefines ==
  ASSUME NoOverflow, VInv, VInv', [Next]_vars, changes' = 0
  PROVE  changes = 0 /\ (Fin!FNext \/ Fin!FInit' \/ UNCHANGED Fin!fvars)
<1>0. changes \in Nat
  BY DEF VInv, VTypeOK
<1>1. ASSUME NEW t \in Threads, NEW vote \in Vote, LookUp(t, vote)
      PROVE  changes = 0 /\ UNCHANGED Fin!fvars
  BY <1>1, SameTallySameVotes DEF LookUp, registry
<1>2. ASSUME NEW t \in Threads, CountVote(t)
      PROVE  changes = 0 /\ (Fin!FNext \/ UNCHANGED Fin!fvars)
  <2>1. changes = 0
    BY <1>2 DEF CountVote, registry
  <2>2. CASE Counted(call[t].vote.block, call[t].vote.voter)
    <3>1. UNCHANGED tally
      BY <1>2, <2>2 DEF CountVote
    <3> QED BY <2>1, <3>1, SameTallySameVotes
  <2>3. CASE ~Counted(call[t].vote.block, call[t].vote.voter)
    <3>1. PICK b, w : call[t].vote.block = b /\ call[t].vote.voter = w
      OBVIOUS
    <3>2. ~Counted(b, w)
      BY <2>3, <3>1
    <3>3. Fin!Vote(w, b) /\ b \in Blocks /\ w \in Validators
      BY <1>2, <2>1, <3>1, <3>2, CountIsVote
    <3> QED BY <2>1, <3>3 DEF Fin!FNext
  <2> QED BY <2>2, <2>3
<1>3. ASSUME NEW newActive, ChangeRegistry(newActive) PROVE FALSE
  BY <1>0, <1>3 DEF ChangeRegistry
<1>4. ASSUME NEW v \in Validators, Register(v) \/ Unregister(v) \/ Slash(v) \/ Penalise(v)
      PROVE  FALSE
  BY <1>3, <1>4 DEF Register, Unregister, Slash, Penalise
<1>5. CASE Restart
  BY <1>5, ClearedIsFInit DEF Restart
<1>6. CASE UNCHANGED vars
  BY <1>6, SameTallySameVotes DEF vars, registry, tally
<1> QED BY <1>1, <1>2, <1>4, <1>5, <1>6 DEF Next

(* As long as the validator set does not change, and three times the       *)
(* registered stake fits into a counter, the collector with its unlocked   *)
(* look-up, its wrapped totals and its restarts implements Finality.       *)
THEOREM CollectorImplementsFinality == NoOverflow => (Spec => ImplementsFinality)
<1>1. ASSUME NoOverflow PROVE Spec => ImplementsFinality
  <2> DEFINE Refines == changes' = 0 => Fin!FNext \/ Fin!FInit'
  <2>1. VInv /\ VInv' /\ [Next]_vars => [Refines]_(Fin!fvars)
    BY <1>1, StepRefines
  <2> HIDE DEF Refines
  <2>2. Spec => [][Refines]_(Fin!fvars)
    BY <2>1, CollectorInvariant, PTL DEF Spec
  <2>3. Spec => Fin!FInit
    BY InitIsFInit DEF Spec
  <2> QED BY <2>2, <2>3 DEF ImplementsFinality, Refines
<1> QED BY <1>1

(* What FinalityProofs shows of Finality, instantiated by the mapping.     *)
FinP == INSTANCE FinalityProofs WITH
          W <- [S \in SUBSET Validators |-> SumFunctionOnSet(InitialStake, S)],
          votes <- [b \in Blocks |-> {v \in Validators : Counted(b, v)}],
          final <- finalized_blocks

LEMMA FinStart == FinP!FInit' => FinP!FInv'
<1>1. FinP!FInit => FinP!FInv
  BY FinP!InitFInv
<1> QED BY <1>1, PTL

(* Any two blocks that add_vote finalizes under an unchanged validator set *)
(* have voters with a third of the stake in common.                        *)
THEOREM CollectorAccountable == NoOverflow => (Spec => []AccountableSafety)
<1>1. FinP!StakeIsMeasure
  BY StakeSums DEF Fin!StakeIsMeasure, FinP!StakeIsMeasure
<1>2. ASSUME NoOverflow PROVE Spec => []AccountableSafety
  <2> DEFINE Quorums == changes = 0 => FinP!FInv
  <2>1. Init => Quorums
    BY InitIsFInit, FinP!InitFInv DEF Fin!FInit, FinP!FInit
  <2>2. Quorums /\ VInv /\ VInv' /\ [Next]_vars => Quorums'
    <3> SUFFICES ASSUME Quorums, VInv, VInv', [Next]_vars, changes' = 0 PROVE FinP!FInv'
      OBVIOUS
    <3>1. changes = 0 /\ (Fin!FNext \/ Fin!FInit' \/ UNCHANGED Fin!fvars)
      BY <1>2, StepRefines
    <3>2. CASE Fin!FInit'
      BY <3>2, FinStart DEF Fin!FInit, FinP!FInit
    <3>3. CASE Fin!FNext \/ UNCHANGED Fin!fvars
      <4>1. [FinP!FNext]_(FinP!fvars)
        BY <3>3 DEF Fin!FNext, FinP!FNext, Fin!Vote, FinP!Vote, Fin!IsQuorum, FinP!IsQuorum,
                    Fin!fvars, FinP!fvars
      <4> QED BY <1>1, <3>1, <4>1, FinP!NextFInv
    <3> QED BY <3>1, <3>2, <3>3
  <2>3. Quorums => AccountableSafety
    BY <1>1, FinP!QuorumsMakeAccountable
       DEF AccountableSafety, Fin!AccountableSafety, FinP!AccountableSafety
  <2> HIDE DEF Quorums
  <2> QED BY <2>1, <2>2, <2>3, CollectorInvariant, PTL DEF Spec
<1> QED BY <1>2
=============================================================================
