----------------------------- MODULE NodeProofs -----------------------------
(***************************************************************************)
(* What holds of a node for any number of peer threads that write at the   *)
(* same time as the production loop, any validators, registrations and     *)
(* crashes, and whatever calculate_weight and the hash of the slot yield.  *)
(***************************************************************************)
EXTENDS Node, SequenceTheorems, FiniteSetTheorems, TLAPS

Steps == {"idle", "check", "begin", "commit", "recheck", "push", "finalize"}

(* What can_add_block makes sure of, whenever it says yes.                 *)
Vetted(b) == b.height \in Nat /\ (b.proposer \in Keyed => b.signed)

(* A table of blocks: finitely many heights, so that there is a greatest,  *)
(* and only blocks that were committed.                                    *)
TableOK(table, committed) ==
  /\ \A h \in DOMAIN table : table[h] \in committed
  /\ \E m \in DOMAIN table \cup {0} : m \in Nat /\ \A k \in DOMAIN table \cup {0} : k \in Nat /\ k <= m

Shapes ==
  /\ pc \in [Threads -> Steps]
  /\ blk = [t \in Threads |-> blk[t]]
  /\ view = [blocks |-> view.blocks, validators |-> view.validators]
  /\ disk = [blocks |-> disk.blocks, validators |-> disk.validators]
  /\ chain \in Seq({Genesis} \cup stored) /\ chain # <<>>

(* How far a thread is with its block.                                     *)
Progress ==
  \A t \in Threads :
    /\ pc[t] \in {"begin", "commit"} => Vetted(blk[t])
    /\ pc[t] \in {"recheck", "push"} => blk[t] \in stored

(* DurableBeforeVisible and OnlySignedBlocks are not inductive: a block    *)
(* reaches the chain from a thread or, after a crash, from the database.   *)
NInv ==
  /\ Shapes
  /\ Progress
  /\ TxnExclusive
  /\ DurableBeforeVisible
  /\ \A b \in stored : Vetted(b)
  /\ TableOK(view.blocks, stored) /\ TableOK(disk.blocks, stored)

-----------------------------------------------------------------------------
LEMMA ThreadFacts ==
  Loop \in Threads /\ NoThread \notin Threads /\ Peers \subseteq Threads /\ NoAddress \notin Keyed
BY NodeConstants DEF Threads, NoAddress

(* Done and Goto change the program counter of one thread.                 *)
LEMMA DoneEffect ==
  ASSUME NEW t \in Threads, Shapes, Done(t)
  PROVE  /\ pc' \in [Threads -> Steps] /\ blk' = [u \in Threads |-> blk'[u]]
         /\ pc'[t] = "idle"
         /\ \A u \in Threads \ {t} : pc'[u] = pc[u] /\ blk'[u] = blk[u]
BY DEF Shapes, Done, Steps

LEMMA GotoEffect ==
  ASSUME NEW t \in Threads, NEW step \in Steps, Shapes, Goto(t, step)
  PROVE  /\ pc' \in [Threads -> Steps] /\ blk' = blk
         /\ pc'[t] = step
         /\ \A u \in Threads \ {t} : pc'[u] = pc[u]
BY DEF Shapes, Goto, Steps

LEMMA CanAddEffect ==
  ASSUME NEW t \in Threads, NEW step \in Steps, Shapes, CanAdd(t, step)
  PROVE  /\ chain' = chain
         /\ Done(t) \/ (Goto(t, step) /\ Vetted(blk[t]))
<1> DEFINE b == blk[t]
<1>1. CASE Refused(b) /\ Done(t) /\ UNCHANGED memory
  BY <1>1 DEF memory
<1>2. CASE ~Refused(b) /\ Equivocation(b) /\ Done(t) /\ UNCHANGED <<chain, seen_proposals, pending_rewards>>
  BY <1>2
<1>3. CASE /\ ~Refused(b)
           /\ IF Attested(b, active) /\ b.txs # "malformed" THEN Goto(t, step) ELSE Done(t)
           /\ UNCHANGED <<chain, active, pending_rewards>>
  <2>1. b.height \in Nat
    BY <1>3 DEF Refused, Extends, Shapes
  <2>2. Attested(b, active) => (b.proposer \in Keyed => b.signed)
    BY DEF Attested
  <2> QED BY <1>3, <2>1, <2>2 DEF Vetted
<1> QED BY <1>1, <1>2, <1>3 DEF CanAdd

(* A committed block makes a committed table.                              *)
LEMMA InsertTable ==
  ASSUME NEW table, NEW committed, NEW b, TableOK(table, committed), b.height \in Nat
  PROVE  TableOK(Insert(table, b), committed \cup {b})
<1> DEFINE new == Insert(table, b)
<1>1. DOMAIN new = DOMAIN table \cup {b.height}
  BY DEF Insert
<1>2. \A h \in DOMAIN new : new[h] \in committed \cup {b}
  BY DEF Insert, TableOK
<1>3. \E m \in DOMAIN new \cup {0} : m \in Nat /\ \A k \in DOMAIN new \cup {0} : k \in Nat /\ k <= m
  <2>1. PICK m \in DOMAIN table \cup {0} :
               m \in Nat /\ \A k \in DOMAIN table \cup {0} : k \in Nat /\ k <= m
    BY DEF TableOK
  <2>2. CASE b.height <= m
    <3>1. \A k \in DOMAIN new \cup {0} : k \in Nat /\ k <= m
      BY <1>1, <2>1, <2>2
    <3> QED BY <1>1, <2>1, <3>1
  <2>3. CASE ~(b.height <= m)
    <3>1. \A k \in DOMAIN new \cup {0} : k \in Nat /\ k <= b.height
      BY <1>1, <2>1, <2>3
    <3> QED BY <1>1, <3>1
  <2> QED BY <2>2, <2>3
<1> HIDE DEF new
<1> QED BY <1>2, <1>3 DEF TableOK, new

(* The chain that initialize() assembles consists of stored blocks.        *)
LEMMA PersistedChainOK ==
  ASSUME NEW table, TableOK(table, stored), 1..Top(table) \subseteq DOMAIN table
  PROVE  /\ PersistedChain(table) \in Seq({Genesis} \cup stored)
         /\ PersistedChain(table) # <<>>
         /\ \A n \in 2..Len(PersistedChain(table)) : PersistedChain(table)[n] \in stored
<1> DEFINE top == Top(table)
           tail == [h \in 1..top |-> table[h]]
<1>1. top \in Nat
  <2>1. \E m \in DOMAIN table \cup {0} : \A k \in DOMAIN table \cup {0} : m >= k
    BY DEF TableOK
  <2>2. top \in DOMAIN table \cup {0}
    BY <2>1 DEF Top, Max
  <2> QED BY <2>2 DEF TableOK
<1>2. tail \in Seq({Genesis} \cup stored) /\ Len(tail) = top
  <2> HIDE DEF top
  <2>1. \A h \in 1..top : table[h] \in stored
    BY DEF TableOK, top
  <2> QED BY <1>1, <2>1
<1>3. \A h \in 1..top : tail[h] \in stored
  BY DEF TableOK
<1>4. <<Genesis>> \in Seq({Genesis} \cup stored) /\ Len(<<Genesis>>) = 1
  OBVIOUS
<1> HIDE DEF tail, top
<1>5. /\ <<Genesis>> \o tail \in Seq({Genesis} \cup stored)
      /\ Len(<<Genesis>> \o tail) = 1 + top
      /\ \A i \in 1..1 + top : (<<Genesis>> \o tail)[i] = IF i <= 1 THEN <<Genesis>>[i] ELSE tail[i - 1]
  BY <1>2, <1>4, ConcatProperties
<1>6. \A n \in 2..1 + top : (<<Genesis>> \o tail)[n] \in stored
  <2> TAKE n \in 2..1 + top
  <2>1. n \in 1..1 + top /\ ~(n <= 1) /\ n - 1 \in 1..top
    BY <1>1
  <2> QED BY <1>3, <1>5, <2>1
<1>7. <<Genesis>> \o tail # <<>>
  BY <1>1, <1>5
<1>8. PersistedChain(table) = <<Genesis>> \o tail
  BY DEF PersistedChain, tail, top
<1> QED BY <1>5, <1>6, <1>7, <1>8

-----------------------------------------------------------------------------
(* The tables and the chain do not notice a step that leaves the database  *)
(* and the history of commits alone.                                       *)
LEMMA SameTables ==
  ASSUME NInv, stored' = stored, view' = view, disk' = disk
  PROVE  /\ TableOK(view.blocks, stored)' /\ TableOK(disk.blocks, stored)'
         /\ \A b \in stored' : Vetted(b)
         /\ (view = [blocks |-> view.blocks, validators |-> view.validators])'
         /\ (disk = [blocks |-> disk.blocks, validators |-> disk.validators])'
BY DEF NInv, TableOK, Shapes

LEMMA SameChain ==
  ASSUME NInv, stored' = stored, chain' = chain
  PROVE  (chain \in Seq({Genesis} \cup stored) /\ chain # <<>> /\ DurableBeforeVisible)'
BY DEF NInv, Shapes, DurableBeforeVisible

(* A step of one thread that commits nothing: it ends or goes on.          *)
LEMMA ThreadStep ==
  ASSUME NInv, NEW t \in Threads, NEW step \in Steps,
         pc[t] # "commit", step # "commit",
         Done(t) \/ Goto(t, step),
         Goto(t, step) /\ step = "begin" => Vetted(blk[t]),
         step \in {"recheck", "push"} => blk[t] \in stored,
         chain' = chain, UNCHANGED database, stored' = stored
  PROVE  NInv'
<1>1. Shapes /\ Progress /\ TxnExclusive
  BY DEF NInv
<1>2. /\ pc' \in [Threads -> Steps] /\ blk' = [u \in Threads |-> blk'[u]]
      /\ \A u \in Threads \ {t} : pc'[u] = pc[u] /\ blk'[u] = blk[u]
  <2>1. CASE Done(t) BY <1>1, <2>1, DoneEffect
  <2>2. CASE Goto(t, step) BY <1>1, <2>2, GotoEffect DEF Shapes
  <2> QED BY <2>1, <2>2
<1>3. pc'[t] = "idle" \/ (pc'[t] = step /\ blk'[t] = blk[t] /\ Goto(t, step))
  BY <1>1, DoneEffect, GotoEffect
<1>4. view' = view /\ disk' = disk /\ txn' = txn
  BY DEF database
<1>5. Shapes'
  BY <1>2, <1>4, SameTables, SameChain DEF Shapes
<1>6. Progress'
  <2> SUFFICES ASSUME NEW u \in Threads
               PROVE  /\ pc'[u] \in {"begin", "commit"} => Vetted(blk'[u])
                      /\ pc'[u] \in {"recheck", "push"} => blk'[u] \in stored'
    BY DEF Progress, Vetted
  <2>1. CASE u = t BY <1>3, <2>1
  <2>2. CASE u # t BY <1>1, <1>2, <2>2 DEF Progress
  <2> QED BY <2>1, <2>2
<1>7. TxnExclusive'
  <2>1. \A u \in Threads : pc'[u] = "commit" <=> pc[u] = "commit"
    BY <1>2, <1>3
  <2> QED BY <1>1, <1>4, <2>1 DEF TxnExclusive
<1> QED BY <1>4, <1>5, <1>6, <1>7, SameTables, SameChain DEF NInv

LEMMA InitInv == Init => NInv
<1> SUFFICES ASSUME Init PROVE NInv
  OBVIOUS
<1>1. Shapes
  BY DEF Init, Shapes, Steps
<1>2. Progress /\ TxnExclusive
  BY ThreadFacts DEF Init, Progress, TxnExclusive
<1>3. DurableBeforeVisible
  BY DEF Init, DurableBeforeVisible
<1>4. TableOK(view.blocks, stored) /\ TableOK(disk.blocks, stored) /\ stored = {}
  <2>1. view.blocks = <<>> /\ disk.blocks = <<>> /\ stored = {}
    BY DEF Init
  <2>2. DOMAIN <<>> = {}
    OBVIOUS
  <2>3. TableOK(<<>>, {})
    BY <2>2 DEF TableOK
  <2> QED BY <2>1, <2>3
<1> QED BY <1>1, <1>2, <1>3, <1>4 DEF NInv

(* A thread takes up a block.                                              *)
LEMMA TakeStep ==
  ASSUME NInv, NEW t \in Threads, NEW b, pc[t] = "idle", Take(t, b),
         chain' = chain, UNCHANGED database, stored' = stored
  PROVE  NInv'
<1>1. Shapes /\ Progress /\ TxnExclusive
  BY DEF NInv
<1>2. /\ pc' \in [Threads -> Steps] /\ blk' = [u \in Threads |-> blk'[u]]
      /\ \A u \in Threads \ {t} : pc'[u] = pc[u] /\ blk'[u] = blk[u]
      /\ pc'[t] = "check"
  BY <1>1 DEF Take, Shapes, Steps
<1>4. view' = view /\ disk' = disk /\ txn' = txn
  BY DEF database
<1>5. Shapes'
  BY <1>2, <1>4, SameTables, SameChain DEF Shapes
<1>6. Progress'
  <2> SUFFICES ASSUME NEW u \in Threads
               PROVE  /\ pc'[u] \in {"begin", "commit"} => Vetted(blk'[u])
                      /\ pc'[u] \in {"recheck", "push"} => blk'[u] \in stored'
    BY DEF Progress, Vetted
  <2>1. CASE u = t BY <1>2, <2>1
  <2>2. CASE u # t BY <1>1, <1>2, <2>2 DEF Progress
  <2> QED BY <2>1, <2>2
<1>7. TxnExclusive'
  <2>1. \A u \in Threads : pc'[u] = "commit" <=> pc[u] = "commit"
    BY <1>2
  <2> QED BY <1>1, <1>4, <2>1 DEF TxnExclusive
<1> QED BY <1>4, <1>5, <1>6, <1>7, SameTables, SameChain DEF NInv

LEMMA ProposeInv == ASSUME NInv, Propose PROVE NInv'
<1>1. chain' = chain /\ UNCHANGED database /\ stored' = stored
  BY DEF Propose, memory, history
<1>2. pc[Loop] = "idle" /\ Loop \in Threads
  BY ThreadFacts DEF Propose
<1>3. Done(Loop) \/ \E b : Take(Loop, b)
  BY DEF Propose
<1>4. CASE Done(Loop)
  <2>1. "idle" \in Steps
    BY DEF Steps
  <2> QED BY <1>1, <1>2, <1>4, <2>1, ThreadStep
<1>5. ASSUME NEW b, Take(Loop, b) PROVE NInv'
  BY <1>1, <1>2, <1>5, TakeStep
<1> QED BY <1>3, <1>4, <1>5

LEMMA ReceiveInv == ASSUME NInv, NEW t \in Peers, NEW b, Receive(t, b) PROVE NInv'
<1>1. chain' = chain /\ UNCHANGED database /\ stored' = stored
  BY DEF Receive, memory
<1>2. pc[t] = "idle" /\ t \in Threads /\ Take(t, b)
  BY ThreadFacts DEF Receive
<1> QED BY <1>1, <1>2, TakeStep

LEMMA CheckInv == ASSUME NInv, NEW t \in Threads, Check(t) PROVE NInv'
<1>1. UNCHANGED database /\ stored' = stored /\ pc[t] = "check"
  BY DEF Check, history
<1>2. "begin" \in Steps /\ CanAdd(t, "begin") /\ Shapes
  BY DEF Check, Steps, NInv
<1>3. /\ chain' = chain
      /\ Done(t) \/ (Goto(t, "begin") /\ Vetted(blk[t]))
  BY <1>2, CanAddEffect
<1>4. Goto(t, "begin") => Vetted(blk[t])
  BY <1>2, <1>3, DoneEffect, GotoEffect
<1> QED BY <1>1, <1>2, <1>3, <1>4, ThreadStep

LEMMA RecheckInv == ASSUME NInv, NEW t \in Threads, Recheck(t) PROVE NInv'
<1>1. UNCHANGED database /\ stored' = stored /\ pc[t] = "recheck"
  BY DEF Recheck, history
<1>2. "push" \in Steps /\ CanAdd(t, "push") /\ Shapes
  BY DEF Recheck, Steps, NInv
<1>3. /\ chain' = chain
      /\ Done(t) \/ (Goto(t, "push") /\ Vetted(blk[t]))
  BY <1>2, CanAddEffect
<1>4. blk[t] \in stored
  BY <1>1 DEF NInv, Progress
<1> QED BY <1>1, <1>2, <1>3, <1>4, ThreadStep

LEMMA FinalizeInv == ASSUME NInv, Finalize PROVE NInv'
<1>1. chain' = chain /\ UNCHANGED database /\ stored' = stored /\ pc[Loop] = "finalize"
  BY DEF Finalize, history
<1>2. Done(Loop) /\ Loop \in Threads /\ "idle" \in Steps
  BY ThreadFacts DEF Finalize, Steps
<1> QED BY <1>1, <1>2, ThreadStep

(* A step that touches no thread, no block table and no commit.            *)
LEMMA QuietStep ==
  ASSUME NInv, UNCHANGED <<pc, blk, chain, database, stored>>
  PROVE  NInv'
<1>1. Shapes' /\ Progress'
  BY DEF NInv, Shapes, Progress, database
<1>2. TxnExclusive'
  BY DEF NInv, TxnExclusive, database
<1>3. view' = view /\ disk' = disk /\ stored' = stored /\ chain' = chain
  BY DEF database
<1> QED BY <1>1, <1>2, <1>3, SameTables, SameChain DEF NInv

LEMMA BeginInv == ASSUME NInv, NEW t \in Threads, Begin(t) PROVE NInv'
<1>1. chain' = chain /\ view' = view /\ disk' = disk /\ stored' = stored /\ pc[t] = "begin"
  BY DEF Begin, memory, history
<1>2. Shapes /\ Progress /\ TxnExclusive
  BY DEF NInv
<1>3. CASE txn # NoThread
  <2>1. txn' = txn /\ Done(t) /\ "idle" \in Steps
    BY <1>3 DEF Begin, Steps
  <2>2. UNCHANGED database
    BY <1>1, <2>1 DEF database
  <2> QED BY <1>1, <2>1, <2>2, ThreadStep
<1>4. CASE txn = NoThread
  <2>1. txn' = t /\ Goto(t, "commit") /\ "commit" \in Steps
    BY <1>4 DEF Begin, Steps
  <2>2. /\ pc' \in [Threads -> Steps] /\ blk' = blk /\ pc'[t] = "commit"
        /\ \A u \in Threads \ {t} : pc'[u] = pc[u]
    BY <1>2, <2>1, GotoEffect
  <2>3. Shapes'
    BY <1>1, <1>2, <2>2 DEF Shapes
  <2>4. Progress'
    BY <1>1, <1>2, <2>2 DEF Progress, Vetted
  <2>5. TxnExclusive'
    BY <1>1, <1>2, <1>4, <2>1, <2>2, ThreadFacts DEF TxnExclusive
  <2> QED BY <1>1, <2>3, <2>4, <2>5, SameTables, SameChain DEF NInv
<1> QED BY <1>3, <1>4

LEMMA CommitInv == ASSUME NInv, NEW t \in Threads, Commit(t) PROVE NInv'
<1>1. chain' = chain /\ txn' = NoThread /\ pc[t] = "commit"
  BY DEF Commit, memory
<1>2. Shapes /\ Progress /\ TxnExclusive /\ DurableBeforeVisible
  BY DEF NInv
<1>3. Vetted(blk[t])
  BY <1>1, <1>2 DEF Progress
<1>4. \A u \in Threads \ {t} : pc[u] # "commit"
  BY <1>1, <1>2 DEF TxnExclusive
<1>5. CASE blk[t].txs = "ok"
  <2>1. /\ view' = [view EXCEPT !.blocks = Insert(@, blk[t])] /\ disk' = view'
        /\ stored' = stored \cup {blk[t]} /\ Goto(t, "recheck") /\ "recheck" \in Steps
    BY <1>5 DEF Commit, Steps
  <2>2. /\ pc' \in [Threads -> Steps] /\ blk' = blk /\ pc'[t] = "recheck"
        /\ \A u \in Threads \ {t} : pc'[u] = pc[u]
    BY <1>2, <2>1, GotoEffect
  <2>3. /\ view' = [blocks |-> view'.blocks, validators |-> view'.validators]
        /\ view'.blocks = Insert(view.blocks, blk[t])
    BY <1>2, <2>1 DEF Shapes
  <2>4. TableOK(view.blocks, stored)' /\ TableOK(disk.blocks, stored)'
    <3>1. TableOK(Insert(view.blocks, blk[t]), stored \cup {blk[t]})
      BY <1>3, InsertTable DEF NInv, Vetted
    <3> QED BY <2>1, <2>3, <3>1
  <2>5. chain' \in Seq({Genesis} \cup stored') /\ chain' # <<>>
    <3>1. chain \in Seq({Genesis} \cup stored) /\ chain # <<>>
      BY <1>2 DEF Shapes
    <3> QED BY <1>1, <2>1, <3>1
  <2>6. Shapes'
    BY <1>2, <2>1, <2>2, <2>3, <2>5 DEF Shapes
  <2>7. Progress'
    BY <1>2, <1>3, <2>1, <2>2 DEF Progress, Vetted
  <2>8. TxnExclusive'
    BY <1>1, <1>4, <2>1, <2>2, ThreadFacts DEF TxnExclusive
  <2>9. DurableBeforeVisible' /\ \A b \in stored' : Vetted(b)
    BY <1>1, <1>2, <1>3, <2>1 DEF DurableBeforeVisible, NInv
  <2> QED BY <2>4, <2>6, <2>7, <2>8, <2>9 DEF NInv
<1>6. CASE blk[t].txs # "ok"
  <2>1. view' = disk /\ disk' = disk /\ stored' = stored /\ Done(t)
    BY <1>6 DEF Commit
  <2>2. /\ pc' \in [Threads -> Steps] /\ blk' = [u \in Threads |-> blk'[u]] /\ pc'[t] = "idle"
        /\ \A u \in Threads \ {t} : pc'[u] = pc[u] /\ blk'[u] = blk[u]
    BY <1>2, <2>1, DoneEffect
  <2>3. Shapes'
    BY <1>1, <1>2, <2>1, <2>2, SameChain DEF Shapes
  <2>4. Progress'
    <3> SUFFICES ASSUME NEW u \in Threads
                 PROVE  /\ pc'[u] \in {"begin", "commit"} => Vetted(blk'[u])
                        /\ pc'[u] \in {"recheck", "push"} => blk'[u] \in stored'
      BY DEF Progress, Vetted
    <3> QED BY <1>2, <2>1, <2>2 DEF Progress
  <2>5. TxnExclusive'
    BY <1>1, <1>4, <2>1, <2>2, ThreadFacts DEF TxnExclusive
  <2>6. TableOK(view.blocks, stored)' /\ TableOK(disk.blocks, stored)' /\ \A b \in stored' : Vetted(b)
    BY <2>1 DEF NInv, TableOK
  <2> QED BY <1>1, <2>1, <2>3, <2>4, <2>5, <2>6, SameChain DEF NInv
<1> QED BY <1>5, <1>6

LEMMA PushInv == ASSUME NInv, NEW t \in Threads, Push(t) PROVE NInv'
<1>1. /\ chain' = Append(chain, blk[t]) /\ pc[t] = "push" /\ stored' = stored
      /\ view' = view /\ disk' = disk /\ txn' = txn
      /\ Done(t) \/ Goto(t, "finalize")
  BY DEF Push, database, history
<1>2. Shapes /\ Progress /\ TxnExclusive /\ DurableBeforeVisible
  BY DEF NInv
<1>3. blk[t] \in stored
  BY <1>1, <1>2 DEF Progress
<1>4. /\ pc' \in [Threads -> Steps] /\ blk' = [u \in Threads |-> blk'[u]]
      /\ pc'[t] \in {"idle", "finalize"}
      /\ \A u \in Threads \ {t} : pc'[u] = pc[u] /\ blk'[u] = blk[u]
  <2>1. CASE Done(t) BY <1>2, <2>1, DoneEffect
  <2>2. CASE Goto(t, "finalize")
    <3>1. "finalize" \in Steps BY DEF Steps
    <3> QED BY <1>2, <2>2, <3>1, GotoEffect DEF Shapes
  <2> QED BY <1>1, <2>1, <2>2
<1>5. /\ chain' \in Seq({Genesis} \cup stored') /\ chain' # <<>>
      /\ Len(chain') = Len(chain) + 1
      /\ \A n \in 1..Len(chain) : chain'[n] = chain[n]
      /\ chain'[Len(chain) + 1] = blk[t]
  <2>1. chain \in Seq({Genesis} \cup stored) /\ blk[t] \in {Genesis} \cup stored
    BY <1>2, <1>3 DEF Shapes
  <2> QED BY <1>1, <2>1, AppendProperties
<1>6. DurableBeforeVisible'
  <2> SUFFICES ASSUME NEW n \in 2..Len(chain') PROVE chain'[n] \in stored
    BY <1>1 DEF DurableBeforeVisible
  <2>1. Len(chain) \in Nat
    BY <1>2 DEF Shapes
  <2>2. CASE n = Len(chain) + 1 BY <1>3, <1>5, <2>2
  <2>3. CASE n # Len(chain) + 1
    <3>1. n \in 2..Len(chain) /\ n \in 1..Len(chain)
      BY <1>5, <2>1, <2>3
    <3> QED BY <1>2, <1>5, <3>1 DEF DurableBeforeVisible
  <2> QED BY <2>2, <2>3
<1>7. Shapes'
  BY <1>1, <1>4, <1>5, SameTables DEF Shapes
<1>8. Progress'
  <2> SUFFICES ASSUME NEW u \in Threads
               PROVE  /\ pc'[u] \in {"begin", "commit"} => Vetted(blk'[u])
                      /\ pc'[u] \in {"recheck", "push"} => blk'[u] \in stored'
    BY DEF Progress, Vetted
  <2> QED BY <1>1, <1>2, <1>4 DEF Progress
<1>9. TxnExclusive'
  <2>1. \A u \in Threads : pc'[u] = "commit" <=> pc[u] = "commit"
    BY <1>1, <1>4
  <2> QED BY <1>1, <1>2, <2>1 DEF TxnExclusive
<1> QED BY <1>1, <1>6, <1>7, <1>8, <1>9, SameTables DEF NInv

(* The registration of a validator touches the other table only.           *)
LEMMA SaveValidatorInv == ASSUME NInv, SaveValidator PROVE NInv'
<1>1. /\ UNCHANGED <<pc, blk, chain, txn, stored>>
      /\ disk' = IF txn = NoThread THEN view' ELSE disk
  BY DEF SaveValidator, memory, history
<1>2. /\ view' = [blocks |-> view'.blocks, validators |-> view'.validators]
      /\ view'.blocks = view.blocks
  BY DEF SaveValidator, NInv, Shapes
<1>3. /\ disk' = [blocks |-> disk'.blocks, validators |-> disk'.validators]
      /\ disk'.blocks = disk.blocks
  <2>1. CASE txn = NoThread
    BY <1>1, <1>2, <2>1 DEF NInv, TxnExclusive
  <2>2. CASE txn # NoThread
    BY <1>1, <2>2 DEF NInv, Shapes
  <2> QED BY <2>1, <2>2
<1>4. Shapes' /\ Progress' /\ DurableBeforeVisible'
  BY <1>1, <1>2, <1>3 DEF NInv, Shapes, Progress, DurableBeforeVisible
<1>5. TxnExclusive'
  BY <1>1 DEF NInv, TxnExclusive
<1> QED BY <1>1, <1>2, <1>3, <1>4, <1>5 DEF NInv

LEMMA CrashInv == ASSUME NInv, Crash PROVE NInv'
<1>1. /\ chain' = <<Genesis>> /\ view' = disk /\ disk' = disk /\ txn' = NoThread
      /\ pc' = [t \in Threads |-> "idle"] /\ blk' = [t \in Threads |-> Genesis]
      /\ stored' = stored
  BY DEF Crash, history
<1>2. chain' \in Seq({Genesis} \cup stored') /\ chain' # <<>> /\ Len(chain') = 1
  BY <1>1
<1>3. Shapes'
  BY <1>1, <1>2 DEF NInv, Shapes, Steps
<1>4. Progress' /\ TxnExclusive'
  BY <1>1, ThreadFacts DEF Progress, TxnExclusive
<1>5. DurableBeforeVisible'
  BY <1>2 DEF DurableBeforeVisible
<1> QED BY <1>1, <1>3, <1>4, <1>5 DEF NInv

LEMMA InitializeInv == ASSUME NInv, Initialize PROVE NInv'
<1>1. UNCHANGED <<pc, blk, database, stored>>
  BY DEF Initialize, history
<1>2. CASE chain' = chain
  BY <1>1, <1>2, QuietStep
<1>3. CASE /\ 1..Top(disk.blocks) \subseteq DOMAIN disk.blocks
           /\ chain' = PersistedChain(disk.blocks)
  <2>1. /\ chain' \in Seq({Genesis} \cup stored) /\ chain' # <<>>
        /\ \A n \in 2..Len(chain') : chain'[n] \in stored
    BY <1>3, PersistedChainOK DEF NInv
  <2>2. Shapes' /\ Progress' /\ DurableBeforeVisible'
    BY <1>1, <2>1 DEF NInv, Shapes, Progress, DurableBeforeVisible, database
  <2>3. TxnExclusive'
    BY <1>1 DEF NInv, TxnExclusive, database
  <2>4. view' = view /\ disk' = disk /\ stored' = stored
    BY <1>1 DEF database
  <2> QED BY <2>2, <2>3, <2>4, SameTables DEF NInv
<1> QED BY <1>2, <1>3 DEF Initialize

LEMMA NextInv == NInv /\ [Next]_vars => NInv'
<1> SUFFICES ASSUME NInv, [Next]_vars PROVE NInv'
  OBVIOUS
<1>1. CASE Propose BY <1>1, ProposeInv
<1>2. ASSUME NEW t \in Peers, NEW b \in PeerBlocks, Receive(t, b) PROVE NInv'
  BY <1>2, ReceiveInv
<1>3. ASSUME NEW t \in Threads, Check(t) PROVE NInv'
  BY <1>3, CheckInv
<1>4. ASSUME NEW t \in Threads, Begin(t) PROVE NInv'
  BY <1>4, BeginInv
<1>5. ASSUME NEW t \in Threads, Commit(t) PROVE NInv'
  BY <1>5, CommitInv
<1>6. ASSUME NEW t \in Threads, Recheck(t) PROVE NInv'
  BY <1>6, RecheckInv
<1>7. ASSUME NEW t \in Threads, Push(t) PROVE NInv'
  BY <1>7, PushInv
<1>8. CASE Finalize BY <1>8, FinalizeInv
<1>9. ASSUME NEW v \in Addresses, Register(v) PROVE NInv'
  BY <1>9, QuietStep DEF Register, history
<1>10. CASE SaveValidator BY <1>10, SaveValidatorInv
<1>11. CASE Crash BY <1>11, CrashInv
<1>12. CASE Initialize BY <1>12, InitializeInv
<1>13. CASE Tick BY <1>13, QuietStep DEF Tick, memory, history
<1>14. CASE UNCHANGED vars BY <1>14, QuietStep DEF vars, memory, history
<1> QED BY <1>1, <1>2, <1>3, <1>4, <1>5, <1>6, <1>7, <1>8, <1>9, <1>10, <1>11, <1>12,
           <1>13, <1>14 DEF Next

(* The inductive invariant of a node.                                      *)
THEOREM NodeInvariant == Spec => []NInv
BY InitInv, NextInv, PTL DEF Spec

(* SQLite's BEGIN is the only mutual exclusion between the threads that    *)
(* add blocks, and it works: one transaction at a time, and the connection *)
(* shows uncommitted data only while one is open.                          *)
THEOREM NodeTxnExclusive == Spec => []TxnExclusive
BY NodeInvariant, PTL DEF NInv

(* However the threads race, a block is durable before anybody can see it. *)
THEOREM NodeDurableBeforeVisible == Spec => []DurableBeforeVisible
BY NodeInvariant, PTL DEF NInv

(* However the threads race and crash, no unsigned block of a validator    *)
(* with a key gets into the chain or the database.                         *)
THEOREM NodeOnlySignedBlocks == Spec => []OnlySignedBlocks
<1>1. NInv => OnlySignedBlocks
  <2> SUFFICES ASSUME NInv,
                      NEW b \in ToSet(chain) \cup {disk.blocks[h] : h \in DOMAIN disk.blocks},
                      b.proposer \in Keyed
               PROVE  b.signed
    BY DEF OnlySignedBlocks
  <2>1. b \in {Genesis} \cup stored
    <3>1. CASE b \in ToSet(chain)
      <4>1. PICK n \in DOMAIN chain : b = chain[n]
        BY <3>1 DEF ToSet
      <4> QED BY <4>1 DEF NInv, Shapes
    <3>2. CASE b \in {disk.blocks[h] : h \in DOMAIN disk.blocks}
      BY <3>2 DEF NInv, TableOK
    <3> QED BY <3>1, <3>2
  <2>2. b # Genesis
    BY ThreadFacts DEF Genesis
  <2> QED BY <2>1, <2>2 DEF NInv, Vetted
<1> QED BY <1>1, NodeInvariant, PTL

-----------------------------------------------------------------------------
(* Rewards.                                                                *)
Produced(v) == Cardinality({n \in DOMAIN chain : chain[n].proposer = v})
Owed(v) == IF pc[Loop] = "finalize" /\ blk[Loop].proposer = v THEN 1 ELSE 0

Backed(v) ==
  /\ pending_rewards[v] + Owed(v) <= Produced(v)
  /\ Peers = {} /\ crashes = 0 => pending_rewards[v] + Owed(v) = Produced(v)

(* RewardsBacked is not inductive: a chain that comes back from the        *)
(* database meets rewards that the crash has reset, and a thread that      *)
(* survived the crash could push a block nobody is credited for.           *)
RInv ==
  /\ pending_rewards \in [Addresses -> Nat]
  /\ crashes \in Nat /\ (crashes = 0 => status = "up")
  /\ status # "up" => /\ pending_rewards = [v \in Addresses |-> 0]
                      /\ \A t \in Threads : pc[t] = "idle"
  /\ \A v \in Addresses : Backed(v)

LEMMA ProducedNat == ASSUME Shapes, NEW v PROVE Produced(v) \in Nat
<1> DEFINE D == {n \in DOMAIN chain : chain[n].proposer = v}
<1>1. DOMAIN chain = 1..Len(chain) /\ Len(chain) \in Nat
  BY DEF Shapes
<1>2. IsFiniteSet(1..Len(chain))
  BY <1>1, FS_Interval
<1>3. IsFiniteSet(D)
  BY <1>1, <1>2, FS_Subset
<1> QED BY <1>3, FS_CardinalityType DEF Produced

LEMMA ProducedNatAfter == (Shapes => \A v : Produced(v) \in Nat)'
<1>1. Shapes => \A v : Produced(v) \in Nat
  BY ProducedNat
<1> QED BY <1>1, PTL

(* A block pushed is one more block of its proposer.                       *)
LEMMA ProducedAppend ==
  ASSUME Shapes, NEW b, NEW v, chain' = Append(chain, b)
  PROVE  Produced(v)' = Produced(v) + (IF b.proposer = v THEN 1 ELSE 0)
<1> DEFINE D == {n \in DOMAIN chain : chain[n].proposer = v}
           E == {n \in DOMAIN chain' : chain'[n].proposer = v}
           new == Len(chain) + 1
<1>1. /\ DOMAIN chain = 1..Len(chain) /\ Len(chain) \in Nat
      /\ DOMAIN chain' = 1..new
      /\ \A n \in 1..Len(chain) : chain'[n] = chain[n]
      /\ chain'[new] = b
  <2>1. chain \in Seq({Genesis} \cup stored \cup {b}) /\ b \in {Genesis} \cup stored \cup {b}
    BY DEF Shapes
  <2> QED BY <2>1, AppendProperties
<1>2. IsFiniteSet(D) /\ new \notin D
  <2>1. IsFiniteSet(1..Len(chain))
    BY <1>1, FS_Interval
  <2> QED BY <1>1, <2>1, FS_Subset
<1>3. E = IF b.proposer = v THEN D \cup {new} ELSE D
  <2>1. \A n : n \in 1..new <=> n \in 1..Len(chain) \/ n = new
    BY <1>1
  <2>2. \A n : n \in E <=> n \in D \/ (n = new /\ b.proposer = v)
    BY <1>1, <2>1
  <2> QED BY <2>2
<1>4. Cardinality(D \cup {new}) = Cardinality(D) + 1 /\ Cardinality(D) \in Nat
  BY <1>2, FS_AddElement, FS_CardinalityType
<1>5. Produced(v) = Cardinality(D) /\ Produced(v)' = Cardinality(E)
  BY DEF Produced
<1> HIDE DEF D, E, new
<1>6. CASE b.proposer = v
  BY <1>3, <1>4, <1>5, <1>6
<1>7. CASE b.proposer # v
  BY <1>3, <1>4, <1>5, <1>7
<1> QED BY <1>6, <1>7

LEMMA InitRInv == Init => RInv
<1> SUFFICES ASSUME Init PROVE RInv
  OBVIOUS
<1>1. /\ chain = <<Genesis>> /\ pending_rewards = [v \in Addresses |-> 0] /\ crashes = 0
      /\ status = "up" /\ pc = [t \in Threads |-> "idle"]
  BY DEF Init
<1>2. ASSUME NEW v \in Addresses PROVE Backed(v)
  <2>1. Owed(v) = 0
    BY <1>1, ThreadFacts DEF Owed
  <2>2. Genesis.proposer # v
    BY NodeConstants DEF Genesis, NoAddress
  <2>3. {n \in DOMAIN chain : chain[n].proposer = v} = {}
    BY <1>1, <2>2
  <2>4. Produced(v) = 0
    BY <2>3, FS_EmptySet DEF Produced
  <2>5. pending_rewards[v] = 0
    BY <1>1
  <2> QED BY <2>1, <2>4, <2>5 DEF Backed
<1> QED BY <1>1, <1>2 DEF RInv

(* A step that neither pushes nor credits a block.                         *)
LEMMA QuietRewards ==
  ASSUME NInv, RInv, chain' = chain, pending_rewards' = pending_rewards, crashes' = crashes,
         status' = status,
         pc'[Loop] = "finalize" <=> pc[Loop] = "finalize",
         pc[Loop] = "finalize" => blk'[Loop] = blk[Loop],
         status = "up" \/ UNCHANGED pc
  PROVE  RInv'
<1>1. ASSUME NEW v \in Addresses PROVE Backed(v)'
  <2>1. Owed(v)' = Owed(v)
    BY DEF Owed
  <2>2. Produced(v)' = Produced(v)
    BY DEF Produced
  <2>3. Backed(v)
    BY DEF RInv
  <2> QED BY <2>1, <2>2, <2>3 DEF Backed
<1> QED BY <1>1 DEF RInv

(* The steps of one thread, as far as the production loop is concerned.    *)
LEMMA LoopAfter ==
  ASSUME NInv, NEW t \in Threads, pc[t] # "finalize", NEW step \in Steps \ {"finalize"},
         Done(t) \/ Goto(t, step)
  PROVE  /\ pc'[Loop] = "finalize" <=> pc[Loop] = "finalize"
         /\ pc[Loop] = "finalize" => blk'[Loop] = blk[Loop]
<1>1. Shapes /\ Loop \in Threads
  BY ThreadFacts DEF NInv
<1>2. CASE Done(t)
  BY <1>1, <1>2, DoneEffect
<1>3. CASE Goto(t, step)
  BY <1>1, <1>3, GotoEffect
<1> QED BY <1>2, <1>3

LEMMA OnlyUp == ASSUME RInv, NEW t \in Threads, pc[t] # "idle" PROVE status = "up"
BY DEF RInv

LEMMA PushRewards == ASSUME NInv, RInv, NEW t \in Threads, Push(t) PROVE RInv'
<1>1. /\ chain' = Append(chain, blk[t]) /\ pc[t] = "push" /\ pending_rewards' = pending_rewards
      /\ status' = status /\ crashes' = crashes
  BY DEF Push, bounds
<1>2. status = "up" /\ Shapes /\ Loop \in Threads
  BY <1>1, OnlyUp, ThreadFacts DEF NInv
<1>3. ASSUME NEW v \in Addresses PROVE Backed(v)'
  <2>1. Produced(v)' = Produced(v) + (IF blk[t].proposer = v THEN 1 ELSE 0)
    BY <1>1, <1>2, ProducedAppend
  <2>2. Produced(v) \in Nat /\ pending_rewards[v] \in Nat /\ Owed(v) \in {0, 1} /\ Backed(v)
    BY <1>2, ProducedNat DEF RInv, Owed
  <2>3. CASE t = Loop
    <3>1. Goto(Loop, "finalize") /\ "finalize" \in Steps
      BY <2>3 DEF Push, Steps
    <3>2. pc'[Loop] = "finalize" /\ blk' = blk
      BY <1>2, <3>1, GotoEffect
    <3>3. Owed(v) = 0 /\ Owed(v)' = IF blk[t].proposer = v THEN 1 ELSE 0
      BY <1>1, <2>3, <3>2 DEF Owed
    <3> QED BY <1>1, <2>1, <2>2, <3>3 DEF Backed
  <2>4. CASE t # Loop
    <3>1. Done(t) /\ Peers # {}
      BY <2>4 DEF Push, Threads
    <3>2. pc'[Loop] = pc[Loop] /\ blk'[Loop] = blk[Loop]
      BY <1>2, <2>4, <3>1, DoneEffect
    <3>3. Owed(v)' = Owed(v)
      BY <3>2 DEF Owed
    <3> QED BY <1>1, <2>1, <2>2, <3>1, <3>3 DEF Backed
  <2> QED BY <2>3, <2>4
<1> QED BY <1>1, <1>2, <1>3 DEF RInv

LEMMA FinalizeRewards == ASSUME NInv, RInv, Finalize PROVE RInv'
<1>1. /\ chain' = chain /\ pc[Loop] = "finalize" /\ Done(Loop)
      /\ pending_rewards' = [pending_rewards EXCEPT ![blk[Loop].proposer] = @ + 1]
      /\ status' = status /\ crashes' = crashes
  BY DEF Finalize, bounds
<1>2. status = "up" /\ Shapes /\ Loop \in Threads
  BY <1>1, OnlyUp, ThreadFacts DEF NInv
<1>3. pc'[Loop] = "idle"
  BY <1>1, <1>2, DoneEffect
<1>4. ASSUME NEW v \in Addresses PROVE Backed(v)' /\ pending_rewards'[v] \in Nat
  <2>1. Produced(v)' = Produced(v)
    BY <1>1 DEF Produced
  <2>2. Produced(v) \in Nat /\ pending_rewards[v] \in Nat /\ Backed(v)
    BY <1>2, ProducedNat DEF RInv
  <2>3. Owed(v)' = 0 /\ Owed(v) = IF blk[Loop].proposer = v THEN 1 ELSE 0
    BY <1>1, <1>3 DEF Owed
  <2>4. pending_rewards'[v] = pending_rewards[v] + (IF blk[Loop].proposer = v THEN 1 ELSE 0)
    BY <1>1, <2>2 DEF RInv
  <2> QED BY <1>1, <2>1, <2>2, <2>3, <2>4 DEF Backed
<1>5. pending_rewards' = [v \in Addresses |-> pending_rewards'[v]]
  BY <1>1 DEF RInv
<1>6. pending_rewards' \in [Addresses -> Nat]
  BY <1>4, <1>5
<1> QED BY <1>1, <1>2, <1>4, <1>6 DEF RInv

(* Nothing is owed by a node that has lost its memory.                     *)
LEMMA FreshRewards ==
  ASSUME Shapes', NEW v \in Addresses, pc'[Loop] = "idle", pending_rewards'[v] = 0, crashes' # 0
  PROVE  Backed(v)'
<1>1. Produced(v)' \in Nat
  BY ProducedNatAfter
<1>2. Owed(v)' = 0
  BY DEF Owed
<1> QED BY <1>1, <1>2 DEF Backed

LEMMA NextRInv == NInv /\ NInv' /\ RInv /\ [Next]_vars => RInv'
<1> SUFFICES ASSUME NInv, NInv', RInv, [Next]_vars PROVE RInv'
  OBVIOUS
<1> USE ThreadFacts
<1>0. Shapes /\ Shapes'
  BY DEF NInv
<1>1. CASE Propose
  <2>1. /\ chain' = chain /\ pending_rewards' = pending_rewards /\ crashes' = crashes
        /\ status' = status /\ status = "up" /\ pc[Loop] = "idle"
    BY <1>1 DEF Propose, memory, bounds
  <2>2. pc'[Loop] # "finalize"
    BY <1>0, <1>1 DEF Propose, Done, Take, Shapes
  <2> QED BY <2>1, <2>2, QuietRewards
<1>2. ASSUME NEW t \in Peers, NEW b \in PeerBlocks, Receive(t, b) PROVE RInv'
  <2>1. /\ chain' = chain /\ pending_rewards' = pending_rewards /\ crashes' = crashes
        /\ status' = status /\ status = "up" /\ Take(t, b) /\ t # Loop /\ t \in Threads
    BY <1>2, NodeConstants DEF Receive, memory, bounds
  <2>2. pc'[Loop] = pc[Loop] /\ blk'[Loop] = blk[Loop]
    BY <1>0, <2>1 DEF Take, Shapes
  <2> QED BY <2>1, <2>2, QuietRewards
<1>3. ASSUME NEW t \in Threads, Check(t) \/ Recheck(t) PROVE RInv'
  <2>1. PICK step \in {"begin", "push"} :
          CanAdd(t, step) /\ pc[t] \in {"check", "recheck"} /\ status' = status /\ crashes' = crashes
    BY <1>3 DEF Check, Recheck, bounds
  <2>2. step \in Steps /\ step \in Steps \ {"finalize"} /\ status = "up" /\ pc[t] # "finalize"
    BY <2>1, OnlyUp DEF Steps
  <2>3. chain' = chain /\ pending_rewards' = pending_rewards /\ (Done(t) \/ Goto(t, step))
    <3>1. chain' = chain /\ (Done(t) \/ Goto(t, step))
      BY <1>0, <2>1, <2>2, CanAddEffect
    <3>2. pending_rewards' = pending_rewards
      BY <2>1 DEF CanAdd, memory
    <3> QED BY <3>1, <3>2
  <2>4. /\ pc'[Loop] = "finalize" <=> pc[Loop] = "finalize"
        /\ pc[Loop] = "finalize" => blk'[Loop] = blk[Loop]
    BY <2>2, <2>3, LoopAfter
  <2> QED BY <2>1, <2>2, <2>3, <2>4, QuietRewards
<1>4. ASSUME NEW t \in Threads, Begin(t) \/ Commit(t) PROVE RInv'
  <2>1. /\ chain' = chain /\ pending_rewards' = pending_rewards /\ crashes' = crashes
        /\ status' = status /\ pc[t] \in {"begin", "commit"}
    BY <1>4 DEF Begin, Commit, memory, bounds
  <2>2. status = "up" /\ pc[t] # "finalize"
    BY <2>1, OnlyUp
  <2>3. \E step \in {"commit", "recheck"} : Done(t) \/ Goto(t, step)
    BY <1>4 DEF Begin, Commit
  <2>4. {"commit", "recheck"} \subseteq Steps \ {"finalize"}
    BY DEF Steps
  <2>5. /\ pc'[Loop] = "finalize" <=> pc[Loop] = "finalize"
        /\ pc[Loop] = "finalize" => blk'[Loop] = blk[Loop]
    BY <2>2, <2>3, <2>4, LoopAfter
  <2> QED BY <2>1, <2>2, <2>5, QuietRewards
<1>5. ASSUME NEW t \in Threads, Push(t) PROVE RInv'
  BY <1>5, PushRewards
<1>6. CASE Finalize BY <1>6, FinalizeRewards
<1>7. CASE SaveValidator
  BY <1>7, QuietRewards DEF SaveValidator, memory, bounds
<1>8. ASSUME NEW v \in Addresses, Register(v) PROVE RInv'
  BY <1>8, QuietRewards DEF Register
<1>9. CASE Crash
  <2>1. /\ pending_rewards' = [v \in Addresses |-> 0] /\ pc' = [t \in Threads |-> "idle"]
        /\ crashes' = crashes + 1 /\ crashes \in Nat
    BY <1>9 DEF Crash, RInv
  <2>2. crashes' # 0 /\ crashes' \in Nat /\ pc'[Loop] = "idle"
    BY <2>1
  <2>3. \A v \in Addresses : Backed(v)'
    BY <1>0, <2>1, <2>2, FreshRewards
  <2>4. pending_rewards' \in [Addresses -> Nat]
    BY <2>1
  <2> QED BY <2>1, <2>2, <2>3, <2>4 DEF RInv
<1>10. CASE Initialize
  <2>1. /\ pending_rewards' = pending_rewards /\ pc' = pc /\ crashes' = crashes /\ status = "down"
    BY <1>10 DEF Initialize
  <2>2. /\ crashes' # 0 /\ crashes' \in Nat /\ pc'[Loop] = "idle"
        /\ pending_rewards' = [v \in Addresses |-> 0]
        /\ \A t \in Threads : pc'[t] = "idle"
    BY <2>1 DEF RInv
  <2>3. \A v \in Addresses : Backed(v)'
    BY <1>0, <2>2, FreshRewards
  <2>4. pending_rewards' \in [Addresses -> Nat]
    BY <2>2
  <2> QED BY <2>2, <2>3, <2>4 DEF RInv
<1>11. CASE Tick
  BY <1>11, QuietRewards DEF Tick, memory, bounds
<1>12. CASE UNCHANGED vars
  BY <1>12, QuietRewards DEF vars, memory, bounds
<1> QED BY <1>1, <1>2, <1>3, <1>4, <1>5, <1>6, <1>7, <1>8, <1>9, <1>10, <1>11, <1>12 DEF Next

(* However many threads add blocks and wherever the node crashes, nobody   *)
(* is credited for a block that is not in the chain; a node that is alone  *)
(* and has not crashed owes every proposer exactly its blocks.             *)
THEOREM NodeRewardsBacked == Spec => []RewardsBacked
<1>1. RInv => RewardsBacked
  <2> SUFFICES ASSUME RInv, NEW v \in Addresses
               PROVE  /\ pending_rewards[v] + Owed(v) <= Produced(v)
                      /\ Peers = {} /\ crashes = 0 => pending_rewards[v] + Owed(v) = Produced(v)
    BY DEF RewardsBacked, Owed, Produced
  <2> QED BY DEF RInv, Backed
<1> QED BY <1>1, InitRInv, NextRInv, NodeInvariant, PTL DEF Spec

-----------------------------------------------------------------------------
(* A node whose production loop is the only writer.                        *)
Solo == Peers = {} /\ MaxRegistrations = 0

Registered == {Entry(v, 1) : v \in InitialValidators}
Registry == InOrder(Registered)
OnDisk == <<Genesis>> \o disk.blocks
Ahead == pc[Loop] \in {"recheck", "push"}

(* What the first can_add_block has established of a block: the second one *)
(* can only say the same.                                                  *)
Accepted(b) ==
  /\ Extends(b)
  /\ Select(b.slot, Registry) = b.proposer /\ Attested(b, Registry) /\ b.txs # "malformed"
  /\ SlotOf(b) \in DOMAIN seen_proposals /\ seen_proposals[SlotOf(b)] = Hash(b)

Resting ==
  /\ now \in Nat /\ wake \in Nat /\ rpc = NoAddress /\ registrations = 0
  /\ view = disk /\ disk.validators = Registered
  /\ disk.blocks \in Seq(stored)
  /\ Replayable(OnDisk, Registry)
  /\ status \in {"up", "down"}
  /\ status = "up" => active = Registry
  /\ status = "down" => pc[Loop] = "idle"

Working ==
  /\ pc[Loop] \in {"check", "begin", "commit", "recheck", "push"} =>
       blk[Loop].height = Len(chain) /\ blk[Loop].slot \in Nat /\ blk[Loop].slot <= now
  /\ pc[Loop] \in {"begin", "commit", "recheck", "push"} => Accepted(blk[Loop])

(* The loop never meets a proposal for the height and the slot it is at:   *)
(* it would be slashed for its own block.                                  *)
Frontier ==
  \A k \in DOMAIN seen_proposals :
    /\ k[1] \in Nat /\ k[1] <= Len(chain)
    /\ k[1] = Len(chain) =>
         /\ k[2] \in Nat
         /\ pc[Loop] = "idle" => k[2] < wake
         /\ pc[Loop] = "check" => k[2] < blk[Loop].slot
         /\ pc[Loop] \in {"begin", "commit", "recheck", "push"} => k[2] <= blk[Loop].slot
         /\ pc[Loop] # "finalize"

(* MemoryFollowsDisk, RestartRecovers and StoredForever are not inductive: *)
(* they depend on every stored block passing again all the checks of       *)
(* replace_chain_if_longer, which in turn needs that no proposal of the    *)
(* loop ever counts as a second one.                                       *)
SInv ==
  /\ Resting
  /\ Working
  /\ status = "up" => Frontier /\ OnDisk = IF Ahead THEN Append(chain, blk[Loop]) ELSE chain

(* A table without gaps is a sequence, and the chain is made of it.        *)
LEMMA GaplessTable ==
  ASSUME NEW S, NEW blocks \in Seq(S)
  PROVE  /\ PersistedChain(blocks) = <<Genesis>> \o blocks
         /\ <<Genesis>> \o blocks \in Seq({Genesis} \cup S)
         /\ Len(<<Genesis>> \o blocks) = Len(blocks) + 1
         /\ \A n \in 1..Len(blocks) : (<<Genesis>> \o blocks)[n + 1] = blocks[n]
         /\ Top(blocks) = Len(blocks) /\ DOMAIN blocks = 1..Len(blocks) /\ Len(blocks) \in Nat
<1>1. DOMAIN blocks = 1..Len(blocks) /\ Len(blocks) \in Nat /\ blocks = [h \in 1..Len(blocks) |-> blocks[h]]
  OBVIOUS
<1>2. Top(blocks) = Len(blocks)
  <2> DEFINE D == DOMAIN blocks \cup {0}
  <2>1. Len(blocks) \in D /\ \A y \in D : Len(blocks) >= y
    BY <1>1
  <2>2. \A x \in D : (\A y \in D : x >= y) => x = Len(blocks)
    BY <1>1, <2>1
  <2> HIDE DEF D
  <2>3. Max(D) = Len(blocks)
    BY <2>1, <2>2 DEF Max
  <2> QED BY <2>3 DEF Top, D
<1>3. <<Genesis>> \in Seq({Genesis} \cup S) /\ blocks \in Seq({Genesis} \cup S) /\ Len(<<Genesis>>) = 1
  OBVIOUS
<1>4. /\ <<Genesis>> \o blocks \in Seq({Genesis} \cup S)
      /\ Len(<<Genesis>> \o blocks) = 1 + Len(blocks)
      /\ \A i \in 1..1 + Len(blocks) :
           (<<Genesis>> \o blocks)[i] = IF i <= 1 THEN <<Genesis>>[i] ELSE blocks[i - 1]
  BY <1>3, ConcatProperties
<1>5. ASSUME NEW n \in 1..Len(blocks) PROVE (<<Genesis>> \o blocks)[n + 1] = blocks[n]
  <2>1. n + 1 \in 1..1 + Len(blocks) /\ ~(n + 1 <= 1) /\ (n + 1) - 1 = n
    BY <1>1
  <2> QED BY <1>4, <2>1
<1>6. PersistedChain(blocks) = <<Genesis>> \o blocks
  BY <1>1, <1>2 DEF PersistedChain
<1> QED BY <1>1, <1>2, <1>4, <1>5, <1>6

LEMMA InsertAtEnd ==
  ASSUME NEW S, NEW blocks \in Seq(S), NEW b \in S, b.height = Len(blocks) + 1
  PROVE  /\ Insert(blocks, b) = Append(blocks, b) /\ Append(blocks, b) \in Seq(S)
         /\ <<Genesis>> \o Append(blocks, b) = Append(<<Genesis>> \o blocks, b)
<1>1. /\ Append(blocks, b) \in Seq(S) /\ Len(Append(blocks, b)) = Len(blocks) + 1
      /\ \A i \in 1..Len(blocks) : Append(blocks, b)[i] = blocks[i]
      /\ Append(blocks, b)[Len(blocks) + 1] = b
      /\ Len(blocks) \in Nat /\ DOMAIN blocks = 1..Len(blocks)
      /\ DOMAIN Append(blocks, b) = 1..Len(blocks) + 1
  BY AppendProperties
<1>2. 1..Len(blocks) + 1 = (1..Len(blocks)) \cup {Len(blocks) + 1}
  BY <1>1
<1>3. Insert(blocks, b) = [h \in 1..Len(blocks) + 1 |-> IF h = Len(blocks) + 1 THEN b ELSE blocks[h]]
  BY <1>1, <1>2 DEF Insert
<1>4. Append(blocks, b) = [h \in 1..Len(blocks) + 1 |-> IF h = Len(blocks) + 1 THEN b ELSE blocks[h]]
  <2>1. Append(blocks, b) = [h \in 1..Len(blocks) + 1 |-> Append(blocks, b)[h]]
    <3>1. Append(blocks, b) \in [1..Len(blocks) + 1 -> S]
      BY <1>1, LenProperties
    <3> QED BY <3>1
  <2>2. ASSUME NEW h \in 1..Len(blocks) + 1
        PROVE  Append(blocks, b)[h] = IF h = Len(blocks) + 1 THEN b ELSE blocks[h]
    BY <1>1, <1>2
  <2> QED BY <2>1, <2>2
<1>5. <<Genesis>> \o Append(blocks, b) = Append(<<Genesis>> \o blocks, b)
  <2>1. <<Genesis>> \in Seq({Genesis} \cup S) /\ blocks \in Seq({Genesis} \cup S) /\ b \in {Genesis} \cup S
    OBVIOUS
  <2> QED BY <2>1
<1> QED BY <1>1, <1>3, <1>4, <1>5

(* One more block that can_add_block accepts.                              *)
LEMMA ReplayableGrows ==
  ASSUME NEW S, NEW blocks \in Seq(S), blocks # <<>>, NEW b \in S, NEW reg, Replayable(blocks, reg),
         b.height = Len(blocks), b.prev = Hash(Last(blocks)), Last(blocks).slot <= b.slot,
         b.proposer # NoAddress, b.stake > 0, Select(b.slot, reg) = b.proposer,
         Attested(b, reg), b.txs # "malformed"
  PROVE  Replayable(Append(blocks, b), reg)
<1> DEFINE new == Append(blocks, b)
<1>1. /\ Len(new) = Len(blocks) + 1 /\ Len(blocks) \in Nat
      /\ \A i \in 1..Len(blocks) : new[i] = blocks[i]
      /\ new[Len(blocks) + 1] = b
  BY AppendProperties
<1>2. Last(blocks) = blocks[Len(blocks)] /\ Len(blocks) \in 1..Len(blocks) /\ (Len(blocks) + 1) - 1 = Len(blocks)
  BY <1>1, EmptySeq DEF Last
<1> HIDE DEF new
<1> SUFFICES ASSUME NEW n \in 2..Len(new)
             PROVE  /\ new[n].height = n - 1
                    /\ new[n].prev = Hash(new[n-1])
                    /\ new[n-1].slot <= new[n].slot
                    /\ new[n].proposer # NoAddress /\ new[n].stake > 0
                    /\ Select(new[n].slot, reg) = new[n].proposer
                    /\ Attested(new[n], reg)
                    /\ new[n].txs # "malformed"
  BY DEF Replayable, new
<1>3. CASE n = Len(blocks) + 1
  BY <1>1, <1>2, <1>3
<1>4. CASE n # Len(blocks) + 1
  <2>1. n \in 2..Len(blocks) /\ n \in 1..Len(blocks) /\ n - 1 \in 1..Len(blocks)
    BY <1>1, <1>4
  <2>2. new[n] = blocks[n] /\ new[n-1] = blocks[n-1]
    BY <1>1, <2>1
  <2> QED BY <2>1, <2>2 DEF Replayable
<1> QED BY <1>3, <1>4

LEMMA SoloThreads == Solo => Threads = {Loop} /\ Loop \in Threads
BY DEF Solo, Threads

LEMMA InitSInv == Init => SInv
<1> SUFFICES ASSUME Init PROVE SInv
  OBVIOUS
<1>1. /\ chain = <<Genesis>> /\ active = Registry /\ seen_proposals = [k \in {} |-> k]
      /\ disk = [blocks |-> <<>>, validators |-> Registered] /\ view = disk
      /\ pc[Loop] = "idle" /\ rpc = NoAddress /\ now = 1 /\ wake = 1 /\ status = "up"
      /\ registrations = 0 /\ stored = {}
  BY ThreadFacts DEF Init, Registry, Registered
<1>2. disk.blocks \in Seq(stored) /\ OnDisk = <<Genesis>>
  <2>1. disk.blocks = <<>> /\ <<>> \in Seq(stored) /\ <<Genesis>> \in Seq({Genesis})
    BY <1>1
  <2>2. <<Genesis>> \o <<>> = <<Genesis>>
    BY <2>1, ConcatEmptySeq
  <2> QED BY <2>1, <2>2 DEF OnDisk
<1>3. Replayable(OnDisk, Registry)
  <2>1. Len(<<Genesis>>) = 1
    OBVIOUS
  <2>2. 2..1 = {}
    OBVIOUS
  <2> QED BY <1>2, <2>1, <2>2 DEF Replayable
<1>4. Resting
  BY <1>1, <1>2, <1>3 DEF Resting
<1>5. Working
  BY <1>1 DEF Working
<1>6. Frontier
  BY <1>1 DEF Frontier
<1> QED BY <1>1, <1>2, <1>4, <1>5, <1>6 DEF SInv, Ahead

(* The database and the registry do not notice the step.                   *)
LEMMA RestingStays ==
  ASSUME Resting, UNCHANGED <<view, disk, rpc, registrations, stored, status>>,
         now' \in Nat, wake' \in Nat, status = "up" => active' = active,
         status = "down" => pc'[Loop] = "idle"
  PROVE  Resting' /\ OnDisk' = OnDisk
<1>1. OnDisk' = OnDisk
  BY DEF OnDisk
<1>2. Replayable(OnDisk, Registry)' <=> Replayable(OnDisk, Registry)
  BY <1>1 DEF Replayable
<1> QED BY <1>1, <1>2 DEF Resting

LEMMA AcceptedStays ==
  ASSUME Accepted(blk[Loop]), blk'[Loop] = blk[Loop], chain' = chain, seen_proposals' = seen_proposals,
         now \in Nat, now' \in Nat, now <= now', blk[Loop].slot \in Nat
  PROVE  Accepted(blk[Loop])'
<1>1. FutureSlots \in Nat
  BY NodeConstants
<1>2. blk[Loop].slot <= now + FutureSlots => blk[Loop].slot <= now' + FutureSlots
  BY <1>1
<1> QED BY <1>2 DEF Accepted, Extends, SlotOf

(* The loop turns to a block, or to none, in a new slot.                   *)
LEMMA ProposeSolo == ASSUME Solo, NInv, SInv, Propose PROVE SInv'
<1>1. /\ UNCHANGED <<chain, active, seen_proposals>> /\ UNCHANGED <<view, disk, stored>>
      /\ rpc' = rpc /\ now' = now /\ status' = status /\ registrations' = registrations
      /\ status = "up" /\ pc[Loop] = "idle" /\ wake <= now
  BY DEF Propose, memory, database, bounds, history
<1>2. /\ now \in Nat /\ wake \in Nat /\ Resting /\ Frontier /\ OnDisk = chain /\ Loop \in Threads
      /\ Shapes
  BY <1>1, SoloThreads DEF SInv, Resting, Ahead, NInv
<1>3. CASE Done(Loop)
  <2>1. pc'[Loop] = "idle" /\ wake' = now + 1
    BY <1>2, <1>3, DoneEffect DEF Done
  <2>2. Resting' /\ OnDisk' = OnDisk
    BY <1>1, <1>2, <2>1, RestingStays
  <2>3. Frontier'
    BY <1>1, <1>2, <2>1 DEF Frontier
  <2> QED BY <1>1, <1>2, <2>1, <2>2, <2>3 DEF SInv, Working, Ahead
<1>4. ASSUME NEW b, Take(Loop, [b EXCEPT !.height = Len(chain)]), b.slot = now,
             b = [height |-> b.height, prev |-> b.prev, slot |-> b.slot, proposer |-> b.proposer,
                  stake |-> b.stake, age |-> b.age, signed |-> b.signed, txs |-> b.txs]
      PROVE  SInv'
  <2>1. pc'[Loop] = "check" /\ blk'[Loop].height = Len(chain) /\ blk'[Loop].slot = now /\ wake' = wake
    BY <1>2, <1>4 DEF Take, Shapes
  <2>2. Resting' /\ OnDisk' = OnDisk
    BY <1>1, <1>2, <2>1, RestingStays
  <2>3. Frontier'
    BY <1>1, <1>2, <2>1 DEF Frontier
  <2>4. Working'
    BY <1>1, <1>2, <2>1 DEF Working
  <2> QED BY <1>1, <1>2, <2>1, <2>2, <2>3, <2>4 DEF SInv, Ahead
<1>5. Done(Loop) \/ \E b : /\ Take(Loop, [b EXCEPT !.height = Len(chain)]) /\ b.slot = now
                           /\ b = [height |-> b.height, prev |-> b.prev, slot |-> b.slot,
                                   proposer |-> b.proposer, stake |-> b.stake, age |-> b.age,
                                   signed |-> b.signed, txs |-> b.txs]
  <2> DEFINE b == BlockOn(Last(chain), Select(now, active), active, now, FALSE, "ok")
  <2>1. /\ b.slot = now
        /\ b = [height |-> b.height, prev |-> b.prev, slot |-> b.slot,
                proposer |-> b.proposer, stake |-> b.stake, age |-> b.age,
                signed |-> b.signed, txs |-> b.txs]
    BY DEF BlockOn
  <2>2. Done(Loop) \/ Take(Loop, [b EXCEPT !.height = Len(chain)])
    BY DEF Propose
  <2> HIDE DEF b
  <2> QED BY <2>1, <2>2
<1> QED BY <1>3, <1>4, <1>5

(* The first can_add_block of a slot finds no earlier proposal.            *)
LEMMA CheckSolo == ASSUME Solo, NInv, SInv, Check(Loop) PROVE SInv'
<1> DEFINE b == blk[Loop]
<1>1. /\ UNCHANGED <<view, disk, stored>>
      /\ rpc' = rpc /\ now' = now /\ status' = status /\ registrations' = registrations
      /\ pc[Loop] = "check" /\ CanAdd(Loop, "begin") /\ "begin" \in Steps
  BY DEF Check, database, bounds, history, Steps
<1>2. /\ now \in Nat /\ wake \in Nat /\ Resting /\ status = "up" /\ active = Registry
      /\ Frontier /\ OnDisk = chain /\ Loop \in Threads /\ Shapes /\ Len(chain) \in Nat
      /\ b.height = Len(chain) /\ b.slot \in Nat /\ b.slot <= now
  BY <1>1, SoloThreads DEF SInv, Resting, Working, Ahead, NInv, Shapes
<1> HIDE DEF b
<1>3. ~Equivocation(b)
  <2>1. SlotOf(b)[1] = Len(chain) /\ SlotOf(b)[2] = b.slot
    BY <1>2 DEF SlotOf
  <2>2. SlotOf(b) \in DOMAIN seen_proposals => b.slot < b.slot
    BY <1>1, <1>2, <2>1 DEF Frontier, b
  <2> QED BY <1>2, <2>2 DEF Equivocation
<1>4. chain' = chain
  BY <1>1, <1>2, CanAddEffect
<1>5. CASE Done(Loop) /\ UNCHANGED <<active, seen_proposals>>
  <2>1. pc'[Loop] = "idle" /\ wake' = now + 1
    BY <1>2, <1>5, DoneEffect DEF Done
  <2>2. Resting' /\ OnDisk' = OnDisk
    BY <1>1, <1>2, <1>5, <2>1, RestingStays
  <2>3. Frontier'
    BY <1>1, <1>2, <1>4, <1>5, <2>1 DEF Frontier, b
  <2> QED BY <1>1, <1>2, <1>4, <2>1, <2>2, <2>3 DEF SInv, Working, Ahead
<1>6. CASE /\ ~Refused(b) /\ UNCHANGED <<chain, active, pending_rewards>>
           /\ seen_proposals' = [k \in DOMAIN seen_proposals \cup {SlotOf(b)} |->
                                   IF k = SlotOf(b) THEN Hash(b) ELSE seen_proposals[k]]
           /\ IF Attested(b, active) /\ b.txs # "malformed" THEN Goto(Loop, "begin") ELSE Done(Loop)
  <2>1. \A k \in DOMAIN seen_proposals' :
          /\ k[1] \in Nat /\ k[1] <= Len(chain)
          /\ k[1] = Len(chain) => k[2] \in Nat /\ k[2] <= b.slot
    <3>1. SlotOf(b)[1] = Len(chain) /\ SlotOf(b)[2] = b.slot
      BY <1>2 DEF SlotOf
    <3>2. DOMAIN seen_proposals' = DOMAIN seen_proposals \cup {SlotOf(b)}
      BY <1>6
    <3>3. ASSUME NEW k \in DOMAIN seen_proposals
          PROVE  /\ k[1] \in Nat /\ k[1] <= Len(chain)
                 /\ k[1] = Len(chain) => k[2] \in Nat /\ k[2] <= b.slot
      BY <1>1, <1>2 DEF Frontier, b
    <3> QED BY <1>2, <3>1, <3>2, <3>3
  <2>2. CASE Done(Loop)
    <3>1. pc'[Loop] = "idle" /\ wake' = now + 1
      BY <1>2, <2>2, DoneEffect DEF Done
    <3>2. Resting' /\ OnDisk' = OnDisk
      BY <1>1, <1>2, <1>6, <3>1, RestingStays
    <3>3. Frontier'
      BY <1>1, <1>2, <1>4, <2>1, <3>1 DEF Frontier
    <3> QED BY <1>1, <1>2, <1>4, <3>1, <3>2, <3>3 DEF SInv, Working, Ahead
  <2>3. CASE Goto(Loop, "begin") /\ Attested(b, active) /\ b.txs # "malformed"
    <3>1. pc'[Loop] = "begin" /\ wake' = wake /\ blk'[Loop] = b
      BY <1>1, <1>2, <2>3, GotoEffect DEF Goto, b
    <3>2. Resting' /\ OnDisk' = OnDisk
      BY <1>1, <1>2, <1>6, <3>1, RestingStays
    <3>3. Frontier'
      BY <1>1, <1>2, <1>4, <2>1, <3>1 DEF Frontier
    <3>4. Extends(b) /\ Select(b.slot, Registry) = b.proposer
      BY <1>2, <1>6 DEF Refused
    <3>5. SlotOf(b) \in DOMAIN seen_proposals' /\ seen_proposals'[SlotOf(b)] = Hash(b)
      BY <1>6
    <3>6. Accepted(blk[Loop])'
      BY <1>1, <1>2, <1>4, <2>3, <3>1, <3>4, <3>5 DEF Accepted, Extends, SlotOf
    <3>7. Working'
      BY <1>1, <1>2, <1>4, <3>1, <3>6 DEF Working
    <3> QED BY <1>1, <1>2, <1>4, <3>1, <3>2, <3>3, <3>7 DEF SInv, Ahead
  <2> QED BY <1>6, <2>2, <2>3
<1> QED BY <1>1, <1>3, <1>5, <1>6 DEF CanAdd, memory, b

(* The loop gives its block up, or goes on with it as it is.               *)
LEMMA DropSolo ==
  ASSUME Solo, NInv, SInv, UNCHANGED <<view, disk, stored, chain, active, seen_proposals>>,
         UNCHANGED <<rpc, now, status, registrations>>, ~Ahead,
         pc[Loop] # "idle", Done(Loop)
  PROVE  SInv'
<1>1. /\ now \in Nat /\ wake \in Nat /\ Resting /\ status = "up" /\ Shapes /\ Loop \in Threads
      /\ Frontier /\ OnDisk = chain /\ Working
  BY SoloThreads DEF SInv, Resting, NInv
<1>2. pc'[Loop] = "idle" /\ wake' = now + 1
  BY <1>1, DoneEffect DEF Done
<1>3. Resting' /\ OnDisk' = OnDisk
  BY <1>1, <1>2, RestingStays
<1>4. Frontier'
  <2>1. pc[Loop] \in Steps
    BY <1>1 DEF Shapes
  <2>2. ASSUME NEW k \in DOMAIN seen_proposals, k[1] = Len(chain) PROVE k[2] < now + 1
    <3>1. k[2] \in Nat
      BY <1>1, <2>2 DEF Frontier
    <3>2. CASE pc[Loop] = "check"
      <4>1. k[2] < blk[Loop].slot /\ blk[Loop].slot \in Nat /\ blk[Loop].slot <= now
        BY <1>1, <2>2, <3>2 DEF Frontier, Working
      <4> QED BY <1>1, <3>1, <4>1
    <3>3. CASE pc[Loop] \in {"begin", "commit", "recheck", "push"}
      <4>1. k[2] <= blk[Loop].slot /\ blk[Loop].slot \in Nat /\ blk[Loop].slot <= now
        BY <1>1, <2>2, <3>3 DEF Frontier, Working
      <4> QED BY <1>1, <3>1, <4>1
    <3>4. pc[Loop] # "finalize"
      BY <1>1, <2>2 DEF Frontier
    <3> QED BY <2>1, <3>2, <3>3, <3>4 DEF Steps
  <2> QED BY <1>1, <1>2, <2>2 DEF Frontier
<1> QED BY <1>1, <1>2, <1>3, <1>4 DEF SInv, Working, Ahead

LEMMA BeginSolo == ASSUME Solo, NInv, SInv, Begin(Loop) PROVE SInv'
<1>1. /\ UNCHANGED <<view, disk, stored, chain, active, seen_proposals>>
      /\ UNCHANGED <<rpc, now, status, registrations>>
      /\ pc[Loop] = "begin" /\ ~Ahead /\ "commit" \in Steps
  BY DEF Begin, memory, bounds, history, Steps, Ahead
<1>2. /\ now \in Nat /\ wake \in Nat /\ Resting /\ status = "up" /\ active = Registry
      /\ Frontier /\ OnDisk = chain /\ Loop \in Threads /\ Shapes /\ Working
  BY <1>1, SoloThreads DEF SInv, Resting, Ahead, NInv, Shapes
<1>3. CASE Done(Loop)
  BY <1>1, <1>3, DropSolo
<1>4. CASE Goto(Loop, "commit")
  <2>1. pc'[Loop] = "commit" /\ blk'[Loop] = blk[Loop] /\ wake' = wake
    BY <1>1, <1>2, <1>4, GotoEffect DEF Goto
  <2>2. Resting' /\ OnDisk' = OnDisk
    BY <1>1, <1>2, <2>1, RestingStays
  <2>3. Frontier'
    BY <1>1, <1>2, <2>1 DEF Frontier
  <2>4. blk[Loop].height = Len(chain) /\ blk[Loop].slot \in Nat /\ blk[Loop].slot <= now
    BY <1>1, <1>2 DEF Working
  <2>5. Accepted(blk[Loop])'
    BY <1>1, <1>2, <2>1, <2>4, AcceptedStays DEF Working
  <2>6. Working'
    BY <1>1, <2>1, <2>4, <2>5 DEF Working
  <2> QED BY <1>1, <1>2, <2>1, <2>2, <2>3, <2>6 DEF SInv, Ahead
<1> QED BY <1>3, <1>4 DEF Begin

(* The block that is written comes after all that are stored, and what is  *)
(* stored remains a chain that initialize() accepts.                       *)
LEMMA CommitSolo ==
  ASSUME Solo, NInv, NInv', SInv, Commit(Loop)
  PROVE  SInv' /\ (disk' = disk \/ \E b : disk'.blocks = Append(disk.blocks, b))
<1> DEFINE b == blk[Loop]
<1>1. /\ UNCHANGED <<chain, active, seen_proposals>> /\ UNCHANGED <<rpc, now, status, registrations>>
      /\ pc[Loop] = "commit" /\ ~Ahead /\ "recheck" \in Steps
  BY DEF Commit, memory, bounds, Steps, Ahead
<1>2. /\ now \in Nat /\ wake \in Nat /\ Resting /\ status = "up" /\ active = Registry
      /\ Frontier /\ OnDisk = chain /\ Loop \in Threads /\ Shapes /\ Working
      /\ view = disk /\ disk.blocks \in Seq(stored)
  BY <1>1, SoloThreads DEF SInv, Resting, Ahead, NInv, Shapes
<1>3. CASE b.txs # "ok"
  <2>1. disk' = disk /\ view' = view /\ stored' = stored /\ Done(Loop)
    BY <1>2, <1>3 DEF Commit
  <2> QED BY <1>1, <2>1, DropSolo
<1>4. CASE b.txs = "ok"
  <2>1. /\ view' = [view EXCEPT !.blocks = Insert(@, b)] /\ disk' = view'
        /\ stored' = stored \cup {b} /\ Goto(Loop, "recheck")
    BY <1>4 DEF Commit
  <2>2. pc'[Loop] = "recheck" /\ blk'[Loop] = b /\ wake' = wake
    BY <1>1, <1>2, <2>1, GotoEffect DEF Goto
  <2>3. disk'.blocks = Insert(disk.blocks, b) /\ disk'.validators = disk.validators /\ view' = disk'
    BY <1>2, <2>1 DEF Shapes
  <2>4. b.height = Len(chain) /\ b.slot \in Nat /\ b.slot <= now /\ Accepted(b)
    BY <1>1, <1>2 DEF Working
  <2>5. Len(chain) = Len(disk.blocks) + 1
    BY <1>2, GaplessTable DEF OnDisk
  <2>6. disk.blocks \in Seq(stored') /\ b \in stored'
    BY <1>2, <2>1
  <2> HIDE DEF b
  <2>7. /\ disk'.blocks = Append(disk.blocks, b) /\ disk'.blocks \in Seq(stored')
        /\ OnDisk' = Append(chain, b)
    <3>1. /\ Insert(disk.blocks, b) = Append(disk.blocks, b) /\ Append(disk.blocks, b) \in Seq(stored')
          /\ <<Genesis>> \o Append(disk.blocks, b) = Append(<<Genesis>> \o disk.blocks, b)
      BY <2>4, <2>5, <2>6, InsertAtEnd
    <3> QED BY <1>2, <2>3, <3>1 DEF OnDisk
  <2>8. Replayable(OnDisk', Registry)
    <3>1. chain \in Seq({Genesis} \cup stored') /\ chain # <<>> /\ b \in {Genesis} \cup stored'
      BY <1>2, <2>6, GaplessTable DEF OnDisk, Shapes
    <3>2. Replayable(chain, Registry)
      BY <1>2 DEF Resting
    <3>3. /\ b.prev = Hash(Last(chain)) /\ Last(chain).slot <= b.slot /\ b.proposer # NoAddress
          /\ b.stake > 0 /\ Select(b.slot, Registry) = b.proposer /\ Attested(b, Registry)
          /\ b.txs # "malformed"
      BY <2>4 DEF Accepted, Extends
    <3>4. Replayable(Append(chain, b), Registry)
      BY <2>4, <3>1, <3>2, <3>3, ReplayableGrows
    <3> QED BY <2>7, <3>4
  <2>9. Resting'
    <3>1. Replayable(OnDisk, Registry)'
      BY <2>8 DEF Replayable
    <3> QED BY <1>1, <1>2, <2>2, <2>3, <2>7, <3>1 DEF Resting
  <2>10. Frontier'
    BY <1>1, <1>2, <2>2 DEF Frontier, b
  <2>11. Accepted(blk[Loop])'
    BY <1>1, <1>2, <2>2, <2>4, AcceptedStays DEF b
  <2>12. Working'
    BY <1>1, <2>2, <2>4, <2>11 DEF Working
  <2> QED BY <1>1, <1>2, <2>2, <2>7, <2>9, <2>10, <2>12 DEF SInv, Ahead
<1> QED BY <1>3, <1>4

(* The second can_add_block cannot say no.                                 *)
LEMMA RecheckSolo == ASSUME Solo, NInv, SInv, Recheck(Loop) PROVE SInv'
<1> DEFINE b == blk[Loop]
<1>1. /\ UNCHANGED <<view, disk, stored>> /\ UNCHANGED <<rpc, now, status, registrations>>
      /\ pc[Loop] = "recheck" /\ CanAdd(Loop, "push") /\ "push" \in Steps
  BY DEF Recheck, database, bounds, history, Steps
<1>2. /\ now \in Nat /\ wake \in Nat /\ Resting /\ status = "up" /\ active = Registry
      /\ Frontier /\ OnDisk = Append(chain, b) /\ Loop \in Threads /\ Shapes
      /\ b.height = Len(chain) /\ b.slot \in Nat /\ b.slot <= now /\ Accepted(b)
  BY <1>1, SoloThreads DEF SInv, Resting, Working, Ahead, NInv
<1> HIDE DEF b
<1>3. ~Refused(b) /\ ~Equivocation(b) /\ Attested(b, active) /\ b.txs # "malformed"
  BY <1>2 DEF Refused, Equivocation, Accepted
<1>4. /\ UNCHANGED <<chain, active>> /\ Goto(Loop, "push")
      /\ seen_proposals' = [k \in DOMAIN seen_proposals \cup {SlotOf(b)} |->
                              IF k = SlotOf(b) THEN Hash(b) ELSE seen_proposals[k]]
  BY <1>1, <1>3 DEF CanAdd, b
<1>5. /\ DOMAIN seen_proposals' = DOMAIN seen_proposals
      /\ SlotOf(b) \in DOMAIN seen_proposals' /\ seen_proposals'[SlotOf(b)] = Hash(b)
  BY <1>2, <1>4 DEF Accepted
<1>6. pc'[Loop] = "push" /\ blk'[Loop] = b /\ wake' = wake
  BY <1>1, <1>2, <1>4, GotoEffect DEF Goto, b
<1>7. Resting' /\ OnDisk' = OnDisk
  BY <1>1, <1>2, <1>4, <1>6, RestingStays
<1>8. Frontier'
  BY <1>1, <1>2, <1>4, <1>5, <1>6 DEF Frontier, b
<1>9. Accepted(blk[Loop])'
  BY <1>1, <1>2, <1>4, <1>5, <1>6 DEF Accepted, Extends, SlotOf
<1>10. Working'
  BY <1>1, <1>2, <1>4, <1>6, <1>9 DEF Working
<1> QED BY <1>1, <1>2, <1>4, <1>6, <1>7, <1>8, <1>10 DEF SInv, Ahead

LEMMA PushSolo == ASSUME Solo, NInv, SInv, Push(Loop) PROVE SInv'
<1>1. /\ UNCHANGED <<view, disk, stored, active, seen_proposals>>
      /\ UNCHANGED <<rpc, now, status, registrations>>
      /\ pc[Loop] = "push" /\ chain' = Append(chain, blk[Loop]) /\ Goto(Loop, "finalize")
      /\ "finalize" \in Steps
  BY DEF Push, database, bounds, history, Steps
<1>2. /\ now \in Nat /\ wake \in Nat /\ Resting /\ status = "up"
      /\ Frontier /\ OnDisk = chain' /\ Loop \in Threads /\ Shapes /\ Len(chain) \in Nat
  BY <1>1, SoloThreads DEF SInv, Resting, Ahead, NInv, Shapes
<1>3. pc'[Loop] = "finalize" /\ wake' = wake
  BY <1>1, <1>2, GotoEffect DEF Goto
<1>4. Len(chain') = Len(chain) + 1
  BY <1>1, <1>2 DEF Shapes
<1>5. Resting' /\ OnDisk' = OnDisk
  BY <1>1, <1>2, <1>3, RestingStays
<1>6. Frontier'
  BY <1>1, <1>2, <1>3, <1>4 DEF Frontier
<1> QED BY <1>1, <1>2, <1>3, <1>5, <1>6 DEF SInv, Working, Ahead

LEMMA FinalizeSolo == ASSUME Solo, NInv, SInv, Finalize PROVE SInv'
<1>1. /\ UNCHANGED <<view, disk, stored, chain, active, seen_proposals>>
      /\ UNCHANGED <<rpc, now, status, registrations>>
      /\ pc[Loop] = "finalize" /\ ~Ahead /\ Done(Loop)
  BY DEF Finalize, database, bounds, history, Ahead
<1> QED BY <1>1, DropSolo

LEMMA CrashSolo == ASSUME SInv, Loop \in Threads, Crash PROVE SInv'
<1>1. /\ UNCHANGED <<disk, stored, wake, now, registrations>> /\ status' = "down"
      /\ view' = disk /\ pc'[Loop] = "idle" /\ rpc' = NoAddress
  BY DEF Crash, history
<1>2. OnDisk' = OnDisk
  BY <1>1 DEF OnDisk
<1>3. Replayable(OnDisk, Registry)' <=> Replayable(OnDisk, Registry)
  BY <1>2 DEF Replayable
<1> QED BY <1>1, <1>2, <1>3 DEF SInv, Resting, Working

(* What is stored passes initialize().                                     *)
LEMMA InitializeSolo == ASSUME SInv, Initialize PROVE SInv'
<1>1. /\ UNCHANGED <<view, disk, stored, rpc, now, registrations, pc, blk>>
      /\ status = "down" /\ wake' = now /\ pc[Loop] = "idle" /\ now \in Nat
      /\ disk.blocks \in Seq(stored) /\ Replayable(OnDisk, Registry) /\ disk.validators = Registered
  BY DEF Initialize, database, history, SInv, Resting
<1>2. /\ PersistedChain(disk.blocks) = OnDisk
      /\ Len(OnDisk) = Len(disk.blocks) + 1 /\ Len(disk.blocks) \in Nat
      /\ 1..Top(disk.blocks) \subseteq DOMAIN disk.blocks
  <2>1. /\ PersistedChain(disk.blocks) = OnDisk
        /\ Len(OnDisk) = Len(disk.blocks) + 1
        /\ Top(disk.blocks) = Len(disk.blocks) /\ DOMAIN disk.blocks = 1..Len(disk.blocks)
        /\ Len(disk.blocks) \in Nat
    BY <1>1, GaplessTable DEF OnDisk
  <2> QED BY <2>1
<1>3. /\ status' = "up" /\ active' = Registry /\ chain' = OnDisk
      /\ DOMAIN seen_proposals' = {SlotOf(OnDisk[n]) : n \in 2..Len(OnDisk)}
  <2>1. Restored(disk.validators)
    BY <1>1, NodeConstants DEF Restored, Registered, Entry
  <2> QED BY <1>1, <1>2, <2>1 DEF Initialize, Registry
<1>4. OnDisk' = OnDisk
  BY <1>1 DEF OnDisk
<1>5. Replayable(OnDisk, Registry)'
  BY <1>1, <1>4 DEF Replayable
<1>6. Frontier'
  <2> SUFFICES ASSUME NEW k \in DOMAIN seen_proposals'
               PROVE  k[1] \in Nat /\ k[1] < Len(chain')
    BY <1>1, <1>2, <1>3 DEF Frontier
  <2>1. PICK n \in 2..Len(OnDisk) : k = SlotOf(OnDisk[n])
    BY <1>3
  <2>2. k[1] = n - 1
    BY <1>1, <2>1 DEF Replayable, SlotOf
  <2> QED BY <1>2, <1>3, <2>2
<1> QED BY <1>1, <1>3, <1>4, <1>5, <1>6 DEF SInv, Resting, Working, Ahead

LEMMA TickSolo == ASSUME SInv, Tick \/ UNCHANGED vars PROVE SInv'
<1>1. /\ UNCHANGED <<view, disk, stored, chain, active, seen_proposals, pc, blk, wake>>
      /\ UNCHANGED <<rpc, status, registrations>>
      /\ now \in Nat /\ now' \in Nat /\ now <= now' /\ wake \in Nat
  BY DEF Tick, vars, memory, database, bounds, history, SInv, Resting
<1>2. Resting' /\ OnDisk' = OnDisk
  BY <1>1, RestingStays DEF SInv, Resting
<1>3. Working'
  <2>1. ASSUME pc[Loop] \in {"check", "begin", "commit", "recheck", "push"}
        PROVE  blk[Loop].height = Len(chain) /\ blk[Loop].slot \in Nat /\ blk[Loop].slot <= now'
    <3>1. blk[Loop].height = Len(chain) /\ blk[Loop].slot \in Nat /\ blk[Loop].slot <= now
      BY <2>1 DEF SInv, Working
    <3> QED BY <1>1, <3>1
  <2>2. ASSUME pc[Loop] \in {"begin", "commit", "recheck", "push"} PROVE Accepted(blk[Loop])'
    <3>1. Accepted(blk[Loop]) /\ blk[Loop].slot \in Nat
      BY <2>2 DEF SInv, Working
    <3> QED BY <1>1, <3>1, AcceptedStays
  <2> QED BY <1>1, <2>1, <2>2 DEF Working
<1>4. status = "up" => Frontier'
  BY <1>1 DEF SInv, Frontier
<1> QED BY <1>1, <1>2, <1>3, <1>4 DEF SInv, Ahead

(* With one writer, a step appends to the table of blocks or leaves it.    *)
LEMMA NextSolo ==
  Solo /\ NInv /\ NInv' /\ SInv /\ [Next]_vars =>
    SInv' /\ (disk' = disk \/ \E b : disk'.blocks = Append(disk.blocks, b))
<1> SUFFICES ASSUME Solo, NInv, NInv', SInv, [Next]_vars
             PROVE  SInv' /\ (disk' = disk \/ \E b : disk'.blocks = Append(disk.blocks, b))
  OBVIOUS
<1>0. Threads = {Loop} /\ Loop \in Threads /\ Peers = {}
  BY SoloThreads DEF Solo
<1>1. CASE Propose
  BY <1>1, ProposeSolo DEF Propose, database
<1>2. ASSUME NEW t \in Threads, Check(t) PROVE SInv' /\ disk' = disk
  BY <1>0, <1>2, CheckSolo DEF Check, database
<1>3. ASSUME NEW t \in Threads, Begin(t) PROVE SInv' /\ disk' = disk
  BY <1>0, <1>3, BeginSolo DEF Begin
<1>4. ASSUME NEW t \in Threads, Commit(t)
      PROVE  SInv' /\ (disk' = disk \/ \E b : disk'.blocks = Append(disk.blocks, b))
  BY <1>0, <1>4, CommitSolo
<1>5. ASSUME NEW t \in Threads, Recheck(t) PROVE SInv' /\ disk' = disk
  BY <1>0, <1>5, RecheckSolo DEF Recheck, database
<1>6. ASSUME NEW t \in Threads, Push(t) PROVE SInv' /\ disk' = disk
  BY <1>0, <1>6, PushSolo DEF Push, database
<1>7. CASE Finalize
  BY <1>7, FinalizeSolo DEF Finalize, database
<1>8. ASSUME NEW v \in Addresses, Register(v) PROVE FALSE
  BY <1>8 DEF Register, Solo, SInv, Resting
<1>9. CASE SaveValidator
  BY <1>9 DEF SaveValidator, SInv, Resting
<1>10. CASE Crash
  BY <1>0, <1>10, CrashSolo DEF Crash
<1>11. CASE Initialize
  BY <1>11, InitializeSolo DEF Initialize, database
<1>12. CASE Tick \/ UNCHANGED vars
  BY <1>12, TickSolo DEF Tick, vars, database
<1> QED BY <1>0, <1>1, <1>2, <1>3, <1>4, <1>5, <1>6, <1>7, <1>8, <1>9, <1>10, <1>11, <1>12 DEF Next

(* The inductive invariant of a node that writes alone.                    *)
THEOREM SoloInvariant == Solo => (Spec => []SInv)
<1>1. ASSUME Solo PROVE Spec => []SInv
  <2>1. NInv /\ NInv' /\ SInv /\ [Next]_vars => SInv'
    BY <1>1, NextSolo
  <2> QED BY <2>1, InitSInv, NodeInvariant, PTL DEF Spec
<1> QED BY <1>1

(* While the production loop is the only writer, the chain in memory is    *)
(* the chain on disk, less at most the block that is being added, for any  *)
(* validators, any draw of proposers and any number of crashes.            *)
THEOREM SoloMemoryFollowsDisk == Solo => (Spec => []MemoryFollowsDisk)
<1>1. NInv /\ SInv => MemoryFollowsDisk
  <2> SUFFICES ASSUME NInv, SInv, status = "up"
               PROVE  /\ \A n \in 1..Len(chain) - 1 :
                            n \in DOMAIN disk.blocks /\ disk.blocks[n] = chain[n+1]
                      /\ DOMAIN disk.blocks = IF Ahead THEN 1..Len(chain) ELSE 1..Len(chain) - 1
                      /\ Ahead => disk.blocks[Len(chain)] = blk[Loop]
    BY DEF MemoryFollowsDisk, Ahead
  <2>1. /\ disk.blocks \in Seq(stored)
        /\ OnDisk = IF Ahead THEN Append(chain, blk[Loop]) ELSE chain
        /\ chain \in Seq({Genesis} \cup stored) /\ chain # <<>>
    BY DEF SInv, Resting, NInv, Shapes
  <2>2. /\ Len(OnDisk) = Len(disk.blocks) + 1
        /\ \A n \in 1..Len(disk.blocks) : OnDisk[n + 1] = disk.blocks[n]
        /\ DOMAIN disk.blocks = 1..Len(disk.blocks) /\ Len(disk.blocks) \in Nat
    BY <2>1, GaplessTable DEF OnDisk
  <2>3. Len(chain) \in Nat \ {0}
    BY <2>1, EmptySeq
  <2> HIDE DEF OnDisk
  <2>4. CASE ~Ahead
    <3>1. Len(chain) - 1 = Len(disk.blocks) /\ OnDisk = chain
      BY <2>1, <2>2, <2>3, <2>4
    <3> QED BY <2>2, <2>4, <3>1
  <2>5. CASE Ahead
    <3>1. /\ Len(OnDisk) = Len(chain) + 1
          /\ \A n \in 1..Len(chain) : OnDisk[n] = chain[n]
          /\ OnDisk[Len(chain) + 1] = blk[Loop]
      <4>1. chain \in Seq({Genesis, blk[Loop]} \cup stored) /\ blk[Loop] \in {Genesis, blk[Loop]} \cup stored
        BY <2>1
      <4>2. OnDisk = Append(chain, blk[Loop])
        BY <2>1, <2>5
      <4> QED BY <4>1, <4>2, AppendProperties
    <3>2. Len(chain) = Len(disk.blocks) /\ Len(chain) \in 1..Len(disk.blocks)
      BY <2>2, <2>3, <3>1
    <3>3. \A n \in 1..Len(chain) - 1 : n \in 1..Len(disk.blocks) /\ n + 1 \in 1..Len(chain)
      BY <2>3, <3>2
    <3>4. \A n \in 1..Len(chain) - 1 : disk.blocks[n] = chain[n + 1]
      BY <2>2, <3>1, <3>3
    <3>5. disk.blocks[Len(chain)] = blk[Loop]
      BY <2>2, <3>1, <3>2
    <3> QED BY <2>2, <2>5, <3>2, <3>3, <3>4, <3>5
  <2> QED BY <2>4, <2>5
<1>2. ASSUME Solo PROVE Spec => []MemoryFollowsDisk
  <2>1. Spec => []SInv
    BY <1>2, SoloInvariant
  <2> QED BY <1>1, <2>1, NodeInvariant, PTL
<1> QED BY <1>2

(* A node that was alone always comes back from what it stored.            *)
THEOREM SoloRestartRecovers == Solo => (Spec => []RestartRecovers)
<1>1. SInv => RestartRecovers
  BY DEF SInv, Resting, RestartRecovers
<1>2. ASSUME Solo PROVE Spec => []RestartRecovers
  <2>1. Spec => []SInv
    BY <1>2, SoloInvariant
  <2> QED BY <1>1, <2>1, PTL
<1> QED BY <1>2

(* A node that writes alone never loses or replaces a block it stored.     *)
THEOREM SoloStoredForever == Solo => (Spec => StoredForever)
<1> DEFINE Kept == \A h \in DOMAIN disk.blocks :
                     h \in DOMAIN disk'.blocks /\ disk'.blocks[h] = disk.blocks[h]
<1>1. Solo /\ NInv /\ NInv' /\ SInv /\ [Next]_vars => Kept
  <2> SUFFICES ASSUME Solo, NInv, NInv', SInv, [Next]_vars, NEW h \in DOMAIN disk.blocks
               PROVE  h \in DOMAIN disk'.blocks /\ disk'.blocks[h] = disk.blocks[h]
    OBVIOUS
  <2>1. disk' = disk \/ \E b : disk'.blocks = Append(disk.blocks, b)
    BY NextSolo
  <2>2. ASSUME NEW b, disk'.blocks = Append(disk.blocks, b)
        PROVE  h \in DOMAIN disk'.blocks /\ disk'.blocks[h] = disk.blocks[h]
    <3>1. disk.blocks \in Seq(stored \cup {b}) /\ b \in stored \cup {b}
      BY DEF SInv, Resting
    <3>2. /\ \A i \in 1..Len(disk.blocks) : Append(disk.blocks, b)[i] = disk.blocks[i]
          /\ DOMAIN disk.blocks = 1..Len(disk.blocks) /\ Len(disk.blocks) \in Nat
          /\ DOMAIN Append(disk.blocks, b) = 1..Len(disk.blocks) + 1
      BY <3>1, AppendProperties
    <3> QED BY <2>2, <3>2
  <2> QED BY <2>1, <2>2
<1>2. ASSUME Solo PROVE Spec => StoredForever
  <2>1. NInv /\ NInv' /\ SInv /\ [Next]_vars => Kept
    BY <1>1, <1>2
  <2>2. Spec => []SInv
    BY <1>2, SoloInvariant
  <2> QED BY <2>1, <2>2, NodeInvariant, PTL DEF Spec, StoredForever
<1> QED BY <1>2
=============================================================================
