---------------------------- MODULE OutputClaims ----------------------------
(***************************************************************************)
(* What mermai_mempool promises its callers, without the pool: a table of  *)
(* claims of unconfirmed transactions on transaction outputs.  A claim is  *)
(* a pair <<output, transaction id>>.                                      *)
(*                                                                         *)
(*   - an output has at most one claimant (Exclusive);                     *)
(*   - a transaction claims all of its inputs in one step, and only when   *)
(*     every one of them was free BEFORE that step: an output never passes *)
(*     from one transaction to another in one step, not even when the step *)
(*     also drops the claims of an evicted transaction;                    *)
(*   - claims go away one whole transaction at a time, or all at once.     *)
(***************************************************************************)
CONSTANTS Ids,      \* transaction identifiers
          Outputs   \* transaction outputs

VARIABLE claims     \* a subset of Outputs \X Ids

Claimed(o) == \E i \in Ids : <<o, i>> \in claims

ClaimsOf(i) == {c \in claims : c[2] = i}

(* Transaction i claims the free outputs in outs while every transaction   *)
(* in dropped gives up its claims.                                         *)
Claim(i, outs, dropped) ==
  /\ ClaimsOf(i) = {}
  /\ \A o \in outs : ~Claimed(o)
  /\ claims' = {c \in claims : c[2] \notin dropped} \cup {<<o, i>> : o \in outs}

Release(i) == claims' = claims \ ClaimsOf(i)

ReleaseAll == claims' = {}

AbsInit == claims = {}

(* At most one transaction makes room for another.                         *)
AbsNext ==
  \/ \E i \in Ids, outs \in SUBSET Outputs :
        \/ Claim(i, outs, {})
        \/ \E victim \in Ids : Claim(i, outs, {victim})
  \/ \E i \in Ids : Release(i)
  \/ ReleaseAll

AbsSpec == AbsInit /\ [][AbsNext]_claims
=============================================================================
