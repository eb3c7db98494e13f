------------------------------ MODULE Network -------------------------------
(***************************************************************************)
(* The sessions between nodes, class mermai_p2p_node                       *)
(* (src/network/mermai_network.cpp), and the sync loop that drives them    *)
(* (src/mermai_main.cpp).                                                  *)
(*                                                                         *)
(* A session has two endpoints, "out" at the node that connected and "in"  *)
(* at the node that accepted; each has a socket, a mermai_peer object and  *)
(* a thread that reads.  TCP (external) delivers in order; what is sent to *)
(* a closed socket is lost.                                                *)
(*                                                                         *)
(* Every node makes blocks, for the proposer that its registry draws, and  *)
(* accepts only blocks of the proposer that its registry draws: blocks     *)
(* pass between nodes that hold the same registry (one database copied to  *)
(* all, validators without keys), which is the case here.  The proposer,   *)
(* its stake and its age then follow from the slot and a block made by a   *)
(* loop holds nothing else: it is determined by its predecessor and its    *)
(* slot.  A chain stands for its hashes: it is the sequence of the slots of*)
(* its blocks, and a block is the chain it ends.  Bad is the slot of a     *)
(* block that validation refuses, too far ahead of every clock; Node.tla   *)
(* has the rest of the validation.                                         *)
(* Votes and transactions are VoteCollector's and Ledger's.  Reputations   *)
(* are counted but never consulted and nothing adds to banned_ips: both    *)
(* are left out.                                                           *)
(***************************************************************************)
EXTENDS Naturals, SequencesExt

CONSTANTS Nodes,        \* nodes that run this program
          Foreign,      \* peers that do not
          Bootstrap,    \* the node at the only address discovery knows
          InitialChain, \* node -> the chain it starts with
          FirstSlot,    \* the first slot in which the loops produce
          Sigpipe,      \* does sending to a reset connection kill the process (POSIX)?
          MIN_PEERS, MAX_PEERS, MaxBatch,
          Bad,
          MaxSessions, MaxSlot, MaxInbox, MaxForeign   \* bounds

ASSUME NetworkConstants ==
  /\ Bootstrap \in Nodes /\ Foreign \cap Nodes = {}
  /\ InitialChain \in [Nodes -> Seq(Nat)] /\ Sigpipe \in BOOLEAN
  /\ {MIN_PEERS, MAX_PEERS, MaxBatch, MaxSessions, FirstSlot, MaxSlot, MaxInbox, MaxForeign} \subseteq Nat
  /\ Bad \in Nat /\ Bad > MaxSlot

Endpoint == (1..MaxSessions) \X {"out", "in"}

Other(e) == <<e[1], IF e[2] = "out" THEN "in" ELSE "out">>

VARIABLES up,      \* the processes that are running
          chain,   \* node -> its chain
          owner,   \* endpoint -> node, for the sessions there are
          socket,  \* endpoint -> "none", "open" or "closed"
          inbox,   \* endpoint -> what has arrived and is not read
          reset,   \* endpoints that wrote to a closed connection
          thread,  \* endpoint -> "none", "reading" or "ended"
          peers,   \* node -> the list of its endpoints
          loop,    \* node -> the next call in network_sync_loop
          next_slot, \* node -> the first slot that consensus_loop has not slept through
          foreign  \* how much foreign peers did

vars == <<up, chain, owner, socket, inbox, reset, thread, peers, loop, next_slot, foreign>>

sockets == <<owner, socket, thread, peers>>

Init ==
  /\ up = Nodes \cup Foreign
  /\ chain = InitialChain
  /\ owner = <<>>
  /\ socket = [e \in Endpoint |-> "none"]
  /\ inbox = [e \in Endpoint |-> <<>>]
  /\ reset = {}
  /\ thread = [e \in Endpoint |-> "none"]
  /\ peers = [n \in Nodes |-> <<>>]
  /\ loop = [n \in Nodes |-> "discover"]
  /\ next_slot = [n \in Nodes |-> FirstSlot]
  /\ foreign = 0

-----------------------------------------------------------------------------
(* Messages: the type, whether the payload is empty, and the chain in it.  *)
Msg(type, empty, blocks) == [type |-> type, empty |-> empty, blocks |-> blocks]
HELLO == Msg("HELLO", FALSE, <<>>)
GET_BLOCKS == Msg("GET_BLOCKS", TRUE, <<>>)    \* as sync_blocks sends it
BLOCKS(c) == Msg("BLOCKS", FALSE, c)

(* Does a BLOCKS payload decode?  Its genesis block counts too.            *)
Decodes(batch) == Len(batch) + 1 <= MaxBatch

(* Will what arrives at e ever be read?                                    *)
Keeps(e) == socket[e] = "open" /\ thread[e] # "ended" /\ owner[e] \in Nodes

(* send_all to the endpoints in targets, on top of the inboxes box.        *)
Delivered(box, targets, m) ==
  [e \in Endpoint |-> IF Other(e) \in targets /\ Keeps(e) THEN Append(box[e], m) ELSE box[e]]

(* The bound on what is under way: senders wait, as on a full socket.      *)
Room(targets) == \A e \in targets : Len(inbox[Other(e)]) < MaxInbox

Lost(targets) == {e \in targets : socket[Other(e)] = "closed"}

(* The process ends: the system closes its sockets.                        *)
Die(n) ==
  LET mine == {e \in DOMAIN owner : owner[e] = n}
  IN  /\ up' = up \ {n}
      /\ socket' = [e \in Endpoint |-> IF e \in mine THEN "closed" ELSE socket[e]]
      /\ thread' = [e \in Endpoint |-> IF e \in mine THEN "ended" ELSE thread[e]]

(* peer->send_message for the endpoints of the list, in order.  An         *)
(* endpoint that disconnected has no socket to send to.  The first write   *)
(* to a connection the other side has closed is lost, a later one may      *)
(* raise SIGPIPE in the middle of the list.                                *)
SendEach(n, list, box, m) ==
  LET usable(k) == {list[j] : j \in {j \in 1..k : socket[list[j]] = "open"}}
  IN  \/ /\ inbox' = Delivered(box, usable(Len(list)), m)
         /\ reset' = reset \cup Lost(usable(Len(list)))
         /\ UNCHANGED <<up, socket, thread>>
      \/ \E k \in DOMAIN list :
           /\ Sigpipe /\ list[k] \in reset /\ socket[list[k]] = "open"
           /\ inbox' = Delivered(box, usable(k - 1), m)
           /\ reset' = reset \cup Lost(usable(k - 1))
           /\ Die(n)

-----------------------------------------------------------------------------
(* Faulty variant of Listed: no limit.                                     *)
ListedAlways(n, e) == Append(peers[n], e)

(* add_peer: a peer beyond the limit is served but not listed.             *)
Listed(n, e) == IF Len(peers[n]) < MAX_PEERS THEN Append(peers[n], e) ELSE peers[n]

Unused == {s \in 1..MaxSessions : socket[<<s, "out">>] = "none"}

(* connect_to_peer, for one of this program's nodes or a foreign one: the  *)
(* system completes the connection before the listener accepts it.         *)
Open(n, target, s) ==
  LET e == <<s, "out">>
  IN  /\ target \in up
      /\ owner' = [x \in DOMAIN owner \cup {e, Other(e)} |->
                     IF x = e THEN n ELSE IF x = Other(e) THEN target ELSE owner[x]]
      /\ socket' = [socket EXCEPT ![e] = "open", ![Other(e)] = "open"]
      /\ inbox' = [inbox EXCEPT ![Other(e)] = <<HELLO>>]
      /\ IF n \in Nodes
         THEN /\ peers' = [peers EXCEPT ![n] = Listed(n, e)]
              /\ thread' = [thread EXCEPT ![e] = "reading"]
         ELSE UNCHANGED <<peers, thread>>
      /\ UNCHANGED <<up, chain, reset>>

(* One pass of network_sync_loop.                                          *)
Discover(n) ==
  /\ n \in up /\ loop[n] = "discover"
  /\ loop' = [loop EXCEPT ![n] = "sync"]
  /\ IF Len(peers[n]) < MIN_PEERS /\ Bootstrap \in up /\ Unused # {}
     THEN Open(n, Bootstrap, CHOOSE s \in Unused : \A t \in Unused : s <= t)
     ELSE UNCHANGED <<up, chain, reset, inbox, sockets>>
  /\ UNCHANGED <<next_slot, foreign>>

SyncBlocks(n) ==
  /\ n \in up /\ loop[n] = "sync"
  /\ Room(ToSet(peers[n]))
  /\ SendEach(n, peers[n], inbox, GET_BLOCKS)
  /\ loop' = [loop EXCEPT ![n] = "discover"]
  /\ UNCHANGED <<chain, owner, peers, next_slot, foreign>>

(* The listener.                                                           *)
Accept(e) ==
  /\ e \in DOMAIN owner /\ e[2] = "in"
  /\ owner[e] \in up /\ socket[e] = "open" /\ thread[e] = "none"
  /\ peers' = [peers EXCEPT ![owner[e]] = Listed(owner[e], e)]
  /\ thread' = [thread EXCEPT ![e] = "reading"]
  /\ UNCHANGED <<up, chain, owner, socket, inbox, reset, loop, next_slot, foreign>>

(* can_add_block, as far as it concerns the order of blocks.               *)
CanAdd(c, block) ==
  /\ Len(block) = Len(c) + 1
  /\ IsPrefix(c, block)
  /\ c # <<>> => Last(c) <= Last(block)
  /\ Last(block) # Bad

(* One turn of the production loop, in a slot it has not produced in: a    *)
(* block on top of the node's chain, which is added and broadcast unless   *)
(* its chain has a block of a later slot.                                  *)
Produce(n, slot) ==
  LET block == Append(chain[n], slot)
  IN  /\ n \in up /\ next_slot[n] <= slot
      /\ CanAdd(chain[n], block)
      /\ Room(ToSet(peers[n]))
      /\ chain' = [chain EXCEPT ![n] = block]
      /\ SendEach(n, peers[n], inbox, Msg("BLOCK", FALSE, block))
      /\ next_slot' = [next_slot EXCEPT ![n] = slot + 1]
      /\ UNCHANGED <<owner, peers, loop, foreign>>

-----------------------------------------------------------------------------
(* Faulty variant of AddBatch: the batch replaces the chain.               *)
AddBatchWhole(c, batch) == IF Len(batch) > Len(c) THEN batch ELSE c

(* BLOCKS: the whole chain of the peer, or nothing if it does not decode.  *)
(* It must contain the local chain; its other blocks are added one by one  *)
(* until one is refused.  (Without a database a longer chain would win; a  *)
(* node always has one.)                                                   *)
AddBatch(c, batch) ==
  LET addable == {k \in Len(c)..Len(batch) :
                    \A j \in (Len(c) + 1)..k : CanAdd(SubSeq(batch, 1, j - 1), SubSeq(batch, 1, j))}
  IN  IF ~Decodes(batch) \/ Len(batch) <= Len(c) \/ ~IsPrefix(c, batch) THEN c
      ELSE SubSeq(batch, 1, CHOOSE k \in addable : \A j \in addable : j <= k)

(* handle_message: what it makes of the node's chain, and its answer.      *)
Applied(c, m) ==
  CASE m.type = "BLOCK" /\ CanAdd(c, m.blocks) -> m.blocks
    [] m.type = "BLOCKS" -> AddBatch(c, m.blocks)
    [] OTHER -> c

HandleMessage(e, box, m) ==
  LET n == owner[e]
  IN  /\ chain' = [chain EXCEPT ![n] = Applied(@, m)]
      /\ IF m.type = "GET_BLOCKS"
         THEN SendEach(n, <<e>>, box, BLOCKS(chain[n]))
         ELSE inbox' = box /\ UNCHANGED <<up, socket, reset, thread>>

Reading(e) == e \in DOMAIN owner /\ owner[e] \in up /\ thread[e] = "reading"

Rest(e) == [inbox EXCEPT ![e] = Tail(@)]

(* The thread of an accepted connection.  A message without payload ends   *)
(* the session.                                                            *)
ReceiveIn(e) ==
  /\ e[2] = "in" /\ Reading(e) /\ inbox[e] # <<>>
  /\ LET m == Head(inbox[e])
     IN  \/ /\ m.type = "HELLO"
            /\ SendEach(owner[e], <<e>>, Rest(e), HELLO)
            /\ UNCHANGED chain
         \/ /\ m.type # "HELLO" /\ ~m.empty
            /\ HandleMessage(e, Rest(e), m)
         \/ /\ m.type # "HELLO" /\ m.empty
            /\ inbox' = Rest(e)
            /\ thread' = [thread EXCEPT ![e] = "ended"]
            /\ socket' = [socket EXCEPT ![e] = "closed"]
            /\ UNCHANGED <<up, chain, reset>>
  /\ UNCHANGED <<owner, peers, loop, next_slot, foreign>>

(* Faulty variant of ReceiveOut: a greeting is answered on this side too.  *)
ReceiveOutPolite(e) ==
  /\ e[2] = "out" /\ Reading(e) /\ inbox[e] # <<>>
  /\ Head(inbox[e]).type = "HELLO"
  /\ SendEach(owner[e], <<e>>, Rest(e), HELLO)
  /\ UNCHANGED <<chain, owner, peers, loop, next_slot, foreign>>

(* The thread of a connection this node made.  A message without payload   *)
(* ends the thread; the socket stays open.                                 *)
ReceiveOut(e) ==
  /\ e[2] = "out" /\ Reading(e) /\ inbox[e] # <<>>
  /\ LET m == Head(inbox[e])
     IN  \/ /\ m.type = "HELLO" \/ ~m.empty
            /\ HandleMessage(e, Rest(e), m)
         \/ /\ m.type # "HELLO" /\ m.empty
            /\ inbox' = Rest(e)
            /\ thread' = [thread EXCEPT ![e] = "ended"]
            /\ UNCHANGED <<up, chain, socket, reset>>
  /\ UNCHANGED <<owner, peers, loop, next_slot, foreign>>

(* The other side has closed and everything is read: receive_message       *)
(* returns a message whose type is uninitialized.  Read as HELLO it keeps  *)
(* the thread in its loop (the accepting side answers it), else it ends.   *)
EndOfStream(e) ==
  /\ Reading(e) /\ inbox[e] = <<>> /\ socket[Other(e)] = "closed"
  /\ \/ /\ e[2] = "in" /\ SendEach(owner[e], <<e>>, inbox, HELLO)
     \/ /\ thread' = [thread EXCEPT ![e] = "ended"]
        /\ socket' = IF e[2] = "in" THEN [socket EXCEPT ![e] = "closed"] ELSE socket
        /\ UNCHANGED <<up, inbox, reset>>
  /\ UNCHANGED <<chain, owner, peers, loop, next_slot, foreign>>

-----------------------------------------------------------------------------
(* A foreign peer connects, asks with a payload, repeats blocks of any node*)
(* in any order, and adds blocks of its own, ones that nobody should accept*)
(* and ones that pass: a block of a validator without a key may be made by *)
(* anybody.                                                                *)
KnownChains == UNION {{SubSeq(chain[n], 1, k) : k \in 0..Len(chain[n])} : n \in Nodes}

ForeignChains ==
  KnownChains \cup UNION {{Append(c, slot) : slot \in 1..MaxSlot \cup {Bad}} : c \in KnownChains}

ForeignMessages ==
  {Msg("GET_BLOCKS", FALSE, <<>>)}
    \cup {Msg("BLOCK", FALSE, c) : c \in ForeignChains \ {<<>>}}
    \cup {BLOCKS(c) : c \in ForeignChains}

ForeignConnect(n, target) ==
  /\ n \in Foreign /\ foreign < MaxForeign /\ Unused # {}
  /\ Open(n, target, CHOOSE s \in Unused : \A t \in Unused : s <= t)
  /\ foreign' = foreign + 1
  /\ UNCHANGED <<loop, next_slot>>

ForeignSend(e, m) ==
  /\ e \in DOMAIN owner /\ owner[e] \in Foreign /\ socket[e] = "open" /\ foreign < MaxForeign
  /\ Room({e})
  /\ inbox' = Delivered(inbox, {e}, m)
  /\ foreign' = foreign + 1
  /\ UNCHANGED <<up, chain, reset, sockets, loop, next_slot>>

ForeignClose(e) ==
  /\ e \in DOMAIN owner /\ owner[e] \in Foreign /\ socket[e] = "open"
  /\ socket' = [socket EXCEPT ![e] = "closed"]
  /\ UNCHANGED <<up, chain, owner, inbox, reset, thread, peers, loop, next_slot, foreign>>

Next ==
  \/ \E n \in Nodes : Discover(n) \/ SyncBlocks(n)
  \/ \E n \in Nodes, slot \in 1..MaxSlot : Produce(n, slot)
  \/ \E e \in Endpoint : Accept(e) \/ ReceiveIn(e) \/ ReceiveOut(e) \/ EndOfStream(e)
  \/ \E n \in Foreign, target \in Nodes : ForeignConnect(n, target)
  \/ \E e \in Endpoint : \E m \in ForeignMessages : ForeignSend(e, m)
  \/ \E e \in Endpoint : ForeignClose(e)

(* The loops sleep and go on, and threads with something to read or to     *)
(* accept run.  A sender that waits for room gets its turn (SF): the bound *)
(* must not keep a node from asking.  Nothing is promised about a read of  *)
(* an uninitialized type.                                                  *)
Fairness ==
  /\ \A n \in Nodes : WF_vars(Discover(n)) /\ SF_vars(SyncBlocks(n))
  /\ \A e \in Endpoint : WF_vars(Accept(e)) /\ WF_vars(ReceiveIn(e)) /\ WF_vars(ReceiveOut(e))

Spec == Init /\ [][Next]_vars /\ Fairness

-----------------------------------------------------------------------------
(* The sessions are consistent: an endpoint belongs to a process exactly   *)
(* if it has a socket, and no list of peers outgrows its limit.            *)
TypeOK ==
  /\ up \subseteq Nodes \cup Foreign
  /\ DOMAIN owner \subseteq Endpoint
  /\ \A e \in Endpoint : (e \in DOMAIN owner) = (socket[e] # "none")
  /\ \A n \in Nodes :
       /\ Len(peers[n]) <= MAX_PEERS
       /\ \A k \in DOMAIN peers[n] : owner[peers[n][k]] = n

(* Nothing that arrives, in whatever order, in batches or alone, makes a   *)
(* node take back a block: with a database no longer chain wins.           *)
(* So nodes keep what they agree on, and two that hold different blocks of *)
(* a height, because both loops produced, never come together again.       *)
ForksLast ==
  [][/\ \A n \in Nodes : IsPrefix(chain[n], chain'[n])
     /\ \A m, n \in Nodes : \A k \in DOMAIN chain[m] \cap DOMAIN chain[n] :
          (SubSeq(chain'[m], 1, k) = SubSeq(chain'[n], 1, k))
            = (SubSeq(chain[m], 1, k) = SubSeq(chain[n], 1, k))]_vars

(* A greeting is answered once: handshakes end, on every connection.       *)
HandshakesEnd ==
  <>[](\A e \in Endpoint : \A k \in DOMAIN inbox[e] :
         thread[e] = "reading" => inbox[e][k].type # "HELLO")

(* Cross-node block propagation: a node that runs and keeps asking its     *)
(* peers for blocks comes to hold those of the bootstrap node, or has      *)
(* conflicting ones of its own.                                            *)
CatchesUp ==
  \A n \in Nodes :
    <>(\/ ~({n, Bootstrap} \subseteq up)
       \/ IsPrefix(chain[Bootstrap], chain[n])
       \/ ~IsPrefix(chain[n], chain[Bootstrap]))
=============================================================================
