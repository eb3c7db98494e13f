---------------------------- MODULE MCLightClient ---------------------------
(* Bodies of blocks for the light client.                                  *)
EXTENDS LightClient

(* Trees with no, one and two leaves, and with a last node that has no     *)
(* partner at the lowest level and at the one above it.                    *)
MCLeaf == [name \in TxNames |-> <<name>>]

MCLcBodies == {<<>>, <<MCLeaf["a"]>>, <<MCLeaf["a"], MCLeaf["b"]>>,
               <<MCLeaf["c"], MCLeaf["a"], MCLeaf["b"]>>,
               <<MCLeaf["d"], MCLeaf["b"], MCLeaf["e"], MCLeaf["a"], MCLeaf["c"]>>}
=============================================================================
