---------------------------- MODULE VoteCollector ---------------------------
(***************************************************************************)
(* The quorum finality collector, class mermai_quorum_collector            *)
(* (src/consensus/mermai_consensus.cpp), used by the threads that receive  *)
(* votes: one per RPC connection (submit_vote) and one per peer            *)
(* (BLOCK_VOTE).                                                           *)
(*                                                                         *)
(* add_vote is two steps.  It looks the voter up in active_validators and  *)
(* copies its stake before it takes quorum_mutex; only then does it count  *)
(* the vote and compare the running total with the stake that is active    *)
(* at that moment.  In between other threads may register, remove or slash *)
(* validators, which no lock prevents.                                     *)
(*                                                                         *)
(* A vote is a record: voter, block and the key it is signed with.  A vote *)
(* whose signature does not verify under that key is refused before        *)
(* anything is read and is not represented.                                *)
(***************************************************************************)
EXTENDS Integers, Sequences, FiniteSets, Functions

CONSTANTS Validators,     \* addresses that may be registered
          Blocks,         \* hashes of blocks that may be voted for
          Keys,           \* keys a vote may be signed with
          NoKey,          \* a validator registered without a public key
          KeyOf,          \* address -> its registered key, or NoKey
          InitialStake,   \* address -> stake at the start
          Removable,      \* addresses for which unregister_validator is called
          Threads,        \* threads that deliver votes
          Modulus,        \* 2^64 for uint64_t
          Penalty,        \* percentage an inactivity penalty takes
          MaxEvents       \* bound on changes of the validator set and restarts

ASSUME KeysAssumption == KeyOf \in [Validators -> Keys \cup {NoKey}] /\ NoKey \notin Keys
ASSUME StakeAssumption ==
  /\ IsFiniteSet(Validators) /\ InitialStake \in [Validators -> Nat]
  /\ Modulus \in Nat \ {0}
ASSUME PenaltyAssumption == Penalty \in 0..100

VARIABLES active,             \* registered address -> stake (active_validators)
          block_votes,        \* block -> sequence of votes counted
          vote_stake_totals,  \* block -> uint64_t running total
          finalized_blocks,
          call,               \* thread -> the vote it has looked up, or Idle
          credit,             \* history: block -> voter -> stake it was counted with
          changes, restarts   \* how much of the bound is used up

registry == <<active, changes>>
tally == <<block_votes, vote_stake_totals, finalized_blocks, credit>>
vars == <<registry, tally, call, restarts>>

Idle == [voter |-> "none"]

Vote == [voter : Validators, block : Blocks, key : Keys]

NoTally ==
  /\ block_votes = [b \in Blocks |-> <<>>]
  /\ vote_stake_totals = [b \in Blocks |-> 0]
  /\ finalized_blocks = {}
  /\ credit = [b \in Blocks |-> [v \in Validators |-> 0]]

Init ==
  /\ active = InitialStake
  /\ NoTally
  /\ call = [t \in Threads |-> Idle]
  /\ changes = 0 /\ restarts = 0

-----------------------------------------------------------------------------
(* get_total_active_stake: a sum of uint64_t amounts.                      *)
TrueTotalStake == SumFunction(active)
TotalActiveStake == TrueTotalStake % Modulus

(* add_vote before the lock: refused unless the voter is registered, the   *)
(* vote is signed with its registered key if it has one, and it has stake. *)
LookUp(t, vote) ==
  /\ call[t] = Idle
  /\ vote.voter \in DOMAIN active
  /\ KeyOf[vote.voter] \in {NoKey, vote.key}
  /\ active[vote.voter] # 0
  /\ call' = [call EXCEPT ![t] = [vote |-> vote, stake |-> active[vote.voter]]]
  /\ UNCHANGED <<registry, tally, restarts>>

(* Faulty variant: only a repetition of the last vote is noticed.          *)
CountedLast(b, v) ==
  block_votes[b] # <<>> /\ block_votes[b][Len(block_votes[b])].voter = v

Counted(b, v) == \E n \in DOMAIN block_votes[b] : block_votes[b][n].voter = v

(* Faulty variants: half of the stake; strictly more than two thirds.      *)
MeetsHalf(voted, total) ==
  total > 0 /\ (voted * 2) % Modulus >= total % Modulus

MeetsThresholdStrictly(voted, total) ==
  total > 0 /\ (voted * 3) % Modulus > (total * 2) % Modulus

(* The comparison of add_vote, in uint64_t arithmetic.                     *)
MeetsThreshold(voted, total) ==
  total > 0 /\ (voted * 3) % Modulus >= (total * 2) % Modulus

(* add_vote under quorum_mutex: a second vote of a validator for the same  *)
(* block changes nothing; otherwise the vote is recorded, its looked-up    *)
(* stake added to the total, and the total compared with 2/3 of the stake  *)
(* active now.                                                             *)
CountVote(t) ==
  /\ call[t] # Idle
  /\ call' = [call EXCEPT ![t] = Idle]
  /\ LET vote == call[t].vote
         b == vote.block
         voted == (vote_stake_totals[b] + call[t].stake) % Modulus
     IN  IF Counted(b, vote.voter)
         THEN UNCHANGED tally
         ELSE /\ block_votes' = [block_votes EXCEPT
                    ![b] = Append(@, [voter |-> vote.voter, key |-> vote.key])]
              /\ vote_stake_totals' = [vote_stake_totals EXCEPT ![b] = voted]
              /\ credit' = [credit EXCEPT ![b][vote.voter] = @ + call[t].stake]
              /\ finalized_blocks' =
                    IF MeetsThreshold(voted, TotalActiveStake)
                    THEN finalized_blocks \cup {b} ELSE finalized_blocks
  /\ UNCHANGED <<registry, restarts>>

(* clear(), and the state of a collector that was just constructed.        *)
ClearVotes ==
  /\ block_votes' = [b \in Blocks |-> <<>>]
  /\ vote_stake_totals' = [b \in Blocks |-> 0]
  /\ finalized_blocks' = {}
  /\ credit' = [b \in Blocks |-> [v \in Validators |-> 0]]

-----------------------------------------------------------------------------
(* Changes of active_validators by other threads while votes are in        *)
(* flight: registration over RPC, the 50% slash of a proposer, removal and *)
(* the penalty for inactivity (operations of the class; no thread of the   *)
(* node calls these two).  A penalised validator stays registered even     *)
(* when nothing of its stake is left.                                      *)
ChangeRegistry(newActive) ==
  /\ changes + restarts < MaxEvents
  /\ changes' = changes + 1
  /\ active' = newActive
  /\ UNCHANGED <<tally, call, restarts>>

Register(v) ==
  /\ v \notin DOMAIN active
  /\ ChangeRegistry([w \in DOMAIN active \cup {v} |->
                        IF w = v THEN InitialStake[v] ELSE active[w]])

Unregister(v) ==
  /\ v \in Removable \cap DOMAIN active
  /\ ChangeRegistry([w \in DOMAIN active \ {v} |-> active[w]])

Slash(v) ==
  /\ v \in DOMAIN active
  /\ ChangeRegistry([active EXCEPT ![v] = @ \div 2])

Penalise(v) ==
  /\ v \in DOMAIN active
  /\ ChangeRegistry([active EXCEPT ![v] = @ - (@ * Penalty) \div 100])

(* The node stops and starts again: initialize() makes a new collector and *)
(* nothing of the old one was persisted.  Every validator that was ever    *)
(* saved comes back from the database with the stake it registered with:   *)
(* the node deletes no row and writes back no slash.                       *)
Restart ==
  /\ changes + restarts < MaxEvents
  /\ restarts' = restarts + 1
  /\ ClearVotes
  /\ call' = [t \in Threads |-> Idle]
  /\ active' = InitialStake
  /\ UNCHANGED changes

Next ==
  \/ \E t \in Threads, vote \in Vote : LookUp(t, vote)
  \/ \E t \in Threads : CountVote(t)
  \/ \E v \in Validators : Register(v)
  \/ \E v \in Validators : Unregister(v)
  \/ \E v \in Validators : Slash(v)
  \/ \E v \in Validators : Penalise(v)
  \/ Restart

Spec == Init /\ [][Next]_vars

-----------------------------------------------------------------------------
(* However the calls of add_vote interleave, a validator is counted once   *)
(* per block and under no key but its own: the running total is the        *)
(* (wrapped) sum of one contribution for each recorded voter and of        *)
(* nothing else.                                                           *)
CreditExact ==
  \A b \in Blocks :
    /\ vote_stake_totals[b] = SumFunction(credit[b]) % Modulus
    /\ \A m, n \in DOMAIN block_votes[b] :
          block_votes[b][m].voter = block_votes[b][n].voter => m = n
    /\ \A v \in Validators : credit[b][v] > 0 <=> Counted(b, v)
    /\ \A n \in DOMAIN block_votes[b] :
          KeyOf[block_votes[b][n].voter] \in {NoKey, block_votes[b][n].key}

(* A block becomes final only in the step that counts a vote for it, and   *)
(* only if the stake counted for it, as exact integers, is two thirds of   *)
(* the stake active in that step.                                          *)
EarnedFinality ==
  [][\A b \in finalized_blocks' \ finalized_blocks :
        3 * SumFunction(credit'[b]) >= 2 * TrueTotalStake /\ TrueTotalStake > 0]_vars

(* Until the validator set changes for the first time, the collector       *)
(* implements Finality, and with it the quorum-intersection argument; a    *)
(* restart brings it back to where Finality starts.                        *)
Fin == INSTANCE Finality WITH
         W <- [S \in SUBSET Validators |-> SumFunctionOnSet(InitialStake, S)],
         votes <- [b \in Blocks |-> {v \in Validators : Counted(b, v)}],
         final <- finalized_blocks

ImplementsFinality ==
  Fin!FInit /\ [][changes' = 0 => Fin!FNext \/ Fin!FInit']_(Fin!fvars)

(* Two blocks finalized by add_vote, in whatever order two threads count   *)
(* the votes, have validators with a third of the stake that voted for     *)
(* both, as long as the validator set has not changed.                     *)
AccountableSafety == changes = 0 => Fin!AccountableSafety
=============================================================================
