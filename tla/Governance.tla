----------------------------- MODULE Governance -----------------------------
(***************************************************************************)
(* Proposals and stake-weighted votes, class mermai_governance_engine      *)
(* (src/consensus/mermai_governance.cpp).  The caller passes the stake of  *)
(* a voter, the total stake and the number of the current block.           *)
(*                                                                         *)
(* The tally divides in single precision.  A float here has GovMantissa    *)
(* bits instead of 24, so that stakes that a float cannot hold are small,  *)
(* and the least float is 2 to the power -GovExponent instead of -149.     *)
(* Every conversion and every division rounds to nearest, ties to even.    *)
(***************************************************************************)
EXTENDS Integers, Sequences, FiniteSetsExt

CONSTANTS Voters,
          GovStakes,       \* stakes that a vote may carry
          GovTotals,       \* total stakes that a tally may be given
          VotingPeriod,    \* voting_period_blocks
          GovModulus,      \* sums of stakes are kept modulo this number: 2^64 in the code
          GovMantissa,     \* bits of a float's mantissa
          GovExponent,     \* floats are multiples of 2^-GovExponent
          MaxProposals, MaxGovBlock

VARIABLES proposals,   \* sequence of proposals: ids are given in order, from 1
          gov_block,   \* number of the current block
          cast         \* history: proposal -> the accepted votes, in order

govVars == <<proposals, gov_block, cast>>

GovInit == proposals = <<>> /\ gov_block = 0 /\ cast = <<>>

-----------------------------------------------------------------------------
(* Floats that are not negative, in units of the least one.                *)
Two[k \in Nat] == IF k = 0 THEN 1 ELSE 2 * Two[k - 1]

Unit == Two[GovExponent]

(* n / d rounded to an integer, ties to even                               *)
RoundToEven(n, d) ==
  LET q == n \div d
      r == n % d
  IN  IF 2 * r < d \/ (2 * r = d /\ q % 2 = 0) THEN q ELSE q + 1

(* The weight of the last bit of n / d is the least at which the mantissa  *)
(* has room for it.                                                        *)
LastBit(n, d) ==
  CHOOSE k \in 0..(3 * GovExponent) :
    /\ n * Unit < Two[GovMantissa + k] * d
    /\ k = 0 \/ Two[GovMantissa + k - 1] * d <= n * Unit

ToFloat(n, d) ==
  LET bit == Two[LastBit(n, d)]
  IN  RoundToEven(n * Unit, d * bit) * bit

(* static_cast<float>(n) / static_cast<float>(d)                           *)
FloatQuotient(n, d) == ToFloat(ToFloat(n, 1), ToFloat(d, 1))

QuorumThreshold == ToFloat(2, 5)
PassThreshold == ToFloat(1, 2)

(* The counters of stake have the code's width, a float covers their       *)
(* ratios, and the literal 0.40f is not below two fifths.                  *)
ASSUME GovernanceConstants ==
  /\ GovModulus \in Nat /\ GovMantissa \in Nat /\ GovExponent \in Nat
  /\ VotingPeriod \in Nat /\ GovStakes \subseteq 0..(GovModulus - 1)
  /\ GovTotals \subseteq 0..(GovModulus - 1)
  /\ GovMantissa >= 2 /\ GovModulus >= 8 /\ Two[GovMantissa - 1] * GovModulus <= Unit
  /\ 5 * QuorumThreshold >= 2 * Unit

Voted(p) == (p.yes + p.no) % GovModulus

-----------------------------------------------------------------------------
NewBlock ==
  /\ gov_block < MaxGovBlock
  /\ gov_block' = gov_block + 1
  /\ UNCHANGED <<proposals, cast>>

CreateProposal(type) ==
  /\ Len(proposals) < MaxProposals
  /\ proposals' = Append(proposals,
        [type |-> type, status |-> "ACTIVE", end_block |-> gov_block + VotingPeriod,
         yes |-> 0, no |-> 0, voters |-> {}, total |-> 0])
  /\ cast' = Append(cast, <<>>)
  /\ UNCHANGED gov_block

(* Faulty variant: a vote is accepted after the decision.                  *)
MayVoteLate(p, voter) == gov_block <= p.end_block /\ voter \notin p.voters

(* Up to and including the end block, once per voter, until the decision.  *)
MayVote(p, voter) ==
  p.status = "ACTIVE" /\ gov_block <= p.end_block /\ voter \notin p.voters

CastVote(id, voter, stake, support) ==
  /\ MayVote(proposals[id], voter)
  /\ proposals' = [proposals EXCEPT
        ![id].voters = @ \cup {voter},
        ![id].yes = IF support THEN (@ + stake) % GovModulus ELSE @,
        ![id].no = IF support THEN @ ELSE (@ + stake) % GovModulus]
  /\ cast' = [cast EXCEPT ![id] = Append(@, [voter |-> voter, stake |-> stake, yes |-> support])]
  /\ UNCHANGED gov_block

HasQuorum(p, total) ==
  total > 0 => ~(FloatQuotient(Voted(p), total) < QuorumThreshold)

Carries(p) ==
  Voted(p) > 0 /\ FloatQuotient(p.yes, Voted(p)) > PassThreshold

Verdict(p, total) ==
  IF HasQuorum(p, total) /\ Carries(p)
  THEN IF p.type = "PARAMETER_CHANGE" THEN "EXECUTED" ELSE "PASSED"
  ELSE "REJECTED"

(* tally_and_execute: from the end block on, once.  A total of zero skips  *)
(* the quorum.  Executing a proposal only marks it.                        *)
Tally(id, total) ==
  LET p == proposals[id]
  IN  /\ p.status = "ACTIVE" /\ gov_block >= p.end_block
      /\ proposals' = [proposals EXCEPT ![id].status = Verdict(p, total), ![id].total = total]
      /\ UNCHANGED <<gov_block, cast>>

GovNext ==
  \/ NewBlock
  \/ \E type \in {"PARAMETER_CHANGE", "TEXT_PROPOSAL"} : CreateProposal(type)
  \/ \E id \in DOMAIN proposals :
       \/ \E voter \in Voters, stake \in GovStakes, support \in BOOLEAN :
            CastVote(id, voter, stake, support)
       \/ \E total \in GovTotals : Tally(id, total)

GovSpec == GovInit /\ [][GovNext]_govVars

-----------------------------------------------------------------------------
Side(id, support) == {n \in DOMAIN cast[id] : cast[id][n].yes = support}

StakeOn(id, support) ==
  SumFunctionOnSet([n \in DOMAIN cast[id] |-> cast[id][n].stake], Side(id, support))

(* A decision stands on the votes it was taken on.  The two sums hold the  *)
(* stake of every accepted vote, up to the width of a counter, and every   *)
(* voter is counted once.  If the sum of both does not exceed that width,  *)
(* a proposal that passed has, in exact arithmetic, more than half of the  *)
(* stake that was cast; and the participation it was tallied with is at    *)
(* most the three roundings of a float short of two fifths.  That survives *)
(* whatever is called after the tally.                                     *)
DecisionJustified ==
  \A id \in DOMAIN proposals :
    LET p == proposals[id]
        u == Two[GovMantissa]
        all == StakeOn(id, TRUE) + StakeOn(id, FALSE)
    IN  /\ p.yes = StakeOn(id, TRUE) % GovModulus /\ p.no = StakeOn(id, FALSE) % GovModulus
        /\ \A m, n \in DOMAIN cast[id] : cast[id][m].voter = cast[id][n].voter => m = n
        /\ p.status \in {"PASSED", "EXECUTED"} =>
              /\ all < GovModulus => 2 * StakeOn(id, TRUE) > all
              /\ 5 * Voted(p) * u >= 2 * p.total * (u - 3)
=============================================================================
