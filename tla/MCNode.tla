------------------------------- MODULE MCNode -------------------------------
(* Small instances of a node.  Validator 2 signs its blocks, the others are *)
(* registered without a key.  The draw depends on the slot, on the weights *)
(* and on their order, as the hash in the code does.                       *)
EXTENDS Node

MCStakeOf == [v \in Addresses |-> 2 * v]

MCWeight(amount, age) == amount * (10 + age)

MCDraw(slot, weights) ==
  LET total == SumFunctionOnSet(weights, DOMAIN weights)
  IN  IF total = 0 THEN 0
      ELSE (slot * 37 + 11 * weights[1] + Len(weights)) % total
=============================================================================
