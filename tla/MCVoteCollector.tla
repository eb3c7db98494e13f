--------------------------- MODULE MCVoteCollector --------------------------
(* Three validators of unequal stake (two of them hold exactly 2/3), one   *)
(* of them registered without a key, up to two competing blocks, and two   *)
(* threads that deliver votes.                                             *)
EXTENDS VoteCollector, TLC

MCValidators == {"alice", "bob", "carol"}
MCKeyOf == [v \in MCValidators |->
              CASE v = "alice" -> "ka" [] v = "bob" -> "kb" [] OTHER -> "none"]
MCStake == [v \in MCValidators |->
              CASE v = "alice" -> 4 [] v = "bob" -> 3 [] OTHER -> 2]

(* Threads and blocks are interchangeable.                                 *)
MCSymmetry == Permutations(Threads) \cup Permutations(Blocks)
=============================================================================
