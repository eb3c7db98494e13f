----------------------------- MODULE MCMempool ------------------------------
(* A pool of three and a small market: equal fees, shared outputs, one id    *)
(* carried by two different transactions, a transaction without inputs.    *)
EXTENDS MempoolQueries

MCOutputs == {"o1", "o2", "o3", "o4", "o5"}

Tx(i, ins, f) == [id |-> i, inputs |-> ins, fee |-> f]

MCTxs == { Tx(1, {"o1"}, 1), Tx(2, {"o1", "o2"}, 3), Tx(3, {"o2"}, 2),
           Tx(4, {"o3"}, 2), Tx(4, {"o2"}, 3), Tx(5, {}, 1), Tx(6, {"o3"}, 4),
           Tx(7, {"o2", "o4"}, 5),
           Tx(8, {"o4"}, 2), Tx(9, {"o4", "o5"}, 6), Tx(10, {"o1"}, 5), Tx(11, {"o5"}, 2) }

MCLimits == 0..3
=============================================================================
