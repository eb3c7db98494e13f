------------------------------ MODULE Finality ------------------------------
(***************************************************************************)
(* What the quorum collector promises while the validator set does not     *)
(* change: votes accumulate, a block becomes final no earlier than when    *)
(* its voters hold two thirds of the stake, and stays final.               *)
(*                                                                         *)
(* Stake is a measure on sets of validators: W[S] is what the validators   *)
(* in S have staked together.  StakeIsMeasure is all that the quorum-      *)
(* intersection argument needs of a sum.                                   *)
(***************************************************************************)
EXTENDS Naturals

CONSTANTS Validators, Blocks,
          W            \* W[S] is the stake of the set of validators S

StakeIsMeasure ==
  /\ W \in [SUBSET Validators -> Nat]
  /\ \A S, T \in SUBSET Validators : W[S \cup T] + W[S \cap T] = W[S] + W[T]
  /\ \A S, T \in SUBSET Validators : S \subseteq T => W[S] <= W[T]

VARIABLES votes,   \* block -> the validators whose vote for it was counted
          final    \* the blocks that achieved finality

fvars == <<votes, final>>

FTypeOK ==
  /\ votes \in [Blocks -> SUBSET Validators]
  /\ final \subseteq Blocks

FInit ==
  /\ votes = [b \in Blocks |-> {}]
  /\ final = {}

IsQuorum(S) == 3 * W[S] >= 2 * W[Validators]

(* A vote of v, who has stake, for b is counted; b becomes final exactly   *)
(* when its voters now are a quorum (or it was final already).             *)
Vote(v, b) ==
  /\ W[{v}] > 0
  /\ v \notin votes[b]
  /\ votes' = [votes EXCEPT ![b] = @ \cup {v}]
  /\ final' = IF IsQuorum(votes'[b]) THEN final \cup {b} ELSE final

FNext == \E v \in Validators, b \in Blocks : Vote(v, b)

FSpec == FInit /\ [][FNext]_fvars

-----------------------------------------------------------------------------
(* Finality is exactly a quorum of counted votes: with a fixed validator   *)
(* set the comment in mermai_consensus.hpp holds in both directions.       *)
FinalIffQuorum ==
  \A b \in Blocks : b \in final <=> IsQuorum(votes[b]) /\ votes[b] # {}

(* Two different blocks can both become final only if validators holding   *)
(* at least a third of all stake voted for both of them.                   *)
AccountableSafety ==
  \A b, c \in final : 3 * W[votes[b] \cap votes[c]] >= W[Validators]
=============================================================================
