------------------------------ MODULE RpcServer -----------------------------
(***************************************************************************)
(* The connections of the JSON-RPC server, src/rpc/mermai_rpc.cpp: the     *)
(* thread that accepts, one detached worker per connection, the owner that *)
(* starts and stops the server, and clients that connect, send one request *)
(* or none, and hang up before or after that.                              *)
(*                                                                         *)
(* A connection is new, queued (in the backlog), reading (its worker is in *)
(* recv), handling, closed (answered), leaked (its worker has ended without*)
(* closing it) or reset (the backlog went with the socket, or everything   *)
(* with the process).                                                      *)
(*                                                                         *)
(* Contract calls run inside handle_request (VM.tla).  Of a request only   *)
(* what becomes of its worker counts: it returns; it is endless (a loop of *)
(* free instructions); or it is fatal (a division that traps, an exception *)
(* that nobody catches), which ends the process.                           *)
(***************************************************************************)
EXTENDS Integers, FiniteSets, SequencesExt

CONSTANTS Conns,
          Backlog,      \* 64, the length of the listen queue
          Descriptors   \* connections that the process can have open

ASSUME RpcConstants == Backlog \in Nat \ {0} /\ Descriptors \in Nat \ {0}

VARIABLES server_running, server_socket,  \* server_socket: whether it is set
          server_thread,  \* none, check, call, blocked (in accept), done, or killed with the process
          stopping,       \* whether the owner is in stop_server, waiting for the thread
          backlog,        \* connections not yet accepted, in order
          conn,           \* connection -> where it is
          client,         \* connection -> idle, sent, gone (without a request) or left (after it)
          request         \* connection -> what becomes of its request

Outcome == {"returns", "endless", "fatal"}

rpcVars == <<server_running, server_socket, server_thread, stopping, backlog, conn, client, request>>

RpcInit ==
  /\ server_running = FALSE
  /\ server_socket = FALSE
  /\ server_thread = "none"
  /\ stopping = FALSE
  /\ backlog = <<>>
  /\ conn = [c \in Conns |-> "new"]
  /\ client = [c \in Conns |-> "idle"]
  /\ request = [c \in Conns |-> "returns"]

-----------------------------------------------------------------------------
start_server ==
  /\ ~server_running /\ ~stopping /\ server_thread # "killed"
  /\ server_running' = TRUE
  /\ server_socket' = TRUE
  /\ server_thread' = "check"
  /\ UNCHANGED <<stopping, backlog, conn, client, request>>

(* Without a thread inside accept, closing the socket ends the connections *)
(* in its backlog.                                                         *)
DropBacklog ==
  /\ backlog' = <<>>
  /\ conn' = [c \in Conns |-> IF conn[c] = "queued" THEN "reset" ELSE conn[c]]

(* stop_server up to the join.  A thread that is blocked in accept keeps   *)
(* the socket alive and is not woken by close.                             *)
stop_server ==
  /\ server_running
  /\ server_running' = FALSE
  /\ server_socket' = FALSE
  /\ stopping' = TRUE
  /\ IF server_thread = "blocked" THEN UNCHANGED <<backlog, conn>> ELSE DropBacklog
  /\ UNCHANGED <<server_thread, client, request>>

Joined ==
  /\ stopping /\ server_thread = "done"
  /\ stopping' = FALSE
  /\ server_thread' = "none"
  /\ UNCHANGED <<server_running, server_socket, backlog, conn, client, request>>

(* The loop of the accepting thread: its condition, and the call of accept,*)
(* which fails when the socket is gone.                                    *)
CheckRunning ==
  /\ server_thread = "check"
  /\ server_thread' = IF server_running THEN "call" ELSE "done"
  /\ UNCHANGED <<server_running, server_socket, stopping, backlog, conn, client, request>>

CallAccept ==
  /\ server_thread = "call"
  /\ server_thread' = IF server_socket THEN "blocked" ELSE "done"
  /\ UNCHANGED <<server_running, server_socket, stopping, backlog, conn, client, request>>

(* The last return from accept on a socket that was closed takes the rest  *)
(* of the backlog with it.                                                 *)
Accepted(rest) ==
  [c \in Conns |-> IF c = Head(backlog) THEN "reading"
                   ELSE IF c \in ToSet(rest) /\ ~server_socket THEN "reset" ELSE conn[c]]

Open == {c \in Conns : conn[c] \in {"reading", "handling", "leaked"}}

\* Faulty variant: requests are served one after the other, by the thread that accepts.
AcceptOneByOne ==
  /\ server_thread = "blocked" /\ backlog # <<>> /\ Cardinality(Open) < Descriptors
  /\ \A c \in Conns : conn[c] \notin {"reading", "handling"}
  /\ conn' = Accepted(Tail(backlog))
  /\ backlog' = IF server_socket THEN Tail(backlog) ELSE <<>>
  /\ server_thread' = "check"
  /\ UNCHANGED <<server_running, server_socket, stopping, client, request>>

AcceptReturns ==
  /\ server_thread = "blocked" /\ backlog # <<>> /\ Cardinality(Open) < Descriptors
  /\ conn' = Accepted(Tail(backlog))
  /\ backlog' = IF server_socket THEN Tail(backlog) ELSE <<>>
  /\ server_thread' = "check"
  /\ UNCHANGED <<server_running, server_socket, stopping, client, request>>

(* Any failure of accept ends the loop for good: the server keeps running  *)
(* and its socket listening, but nobody accepts any more.                  *)
AcceptFails ==
  /\ server_thread = "blocked" /\ backlog # <<>> /\ Cardinality(Open) >= Descriptors
  /\ server_thread' = "done"
  /\ IF server_socket THEN UNCHANGED <<backlog, conn>> ELSE DropBacklog
  /\ UNCHANGED <<server_running, server_socket, stopping, client, request>>

(* The worker of a connection.  A request that has arrived is read; if its *)
(* client has left since, it may be lost with the connection.  recv then   *)
(* returns nothing, as for a client that never sent anything, and the      *)
(* descriptor stays open for good.                                         *)
Recv(c) ==
  /\ conn[c] = "reading" /\ client[c] # "idle"
  /\ \/ /\ client[c] # "gone"
        /\ conn' = [conn EXCEPT ![c] = "handling"]
     \/ /\ client[c] # "sent"
        /\ conn' = [conn EXCEPT ![c] = "leaked"]
  /\ UNCHANGED <<server_running, server_socket, server_thread, stopping, backlog, client, request>>

(* handle_request when it returns, the response and the close              *)
Respond(c) ==
  /\ conn[c] = "handling" /\ request[c] = "returns"
  /\ conn' = [conn EXCEPT ![c] = "closed"]
  /\ UNCHANGED <<server_running, server_socket, server_thread, stopping, backlog, client, request>>

(* The end of the process, and of all its connections: in handle_request,  *)
(* or by SIGPIPE in send when the client has left.                         *)
ProcessEnds(c) ==
  /\ conn[c] = "handling"
  /\ request[c] = "fatal" \/ (request[c] = "returns" /\ client[c] = "left")
  /\ server_running' = FALSE
  /\ server_socket' = FALSE
  /\ server_thread' = "killed"
  /\ stopping' = FALSE
  /\ backlog' = <<>>
  /\ conn' = [d \in Conns |-> IF conn[d] \in {"new", "closed"} THEN conn[d] ELSE "reset"]
  /\ UNCHANGED <<client, request>>

Worker(c) == Recv(c) \/ Respond(c) \/ ProcessEnds(c)

(* Clients                                                                 *)
Connect(c) ==
  /\ conn[c] = "new"
  /\ server_socket \/ server_thread = "blocked"
  /\ Len(backlog) < Backlog
  /\ backlog' = Append(backlog, c)
  /\ conn' = [conn EXCEPT ![c] = "queued"]
  /\ UNCHANGED <<server_running, server_socket, server_thread, stopping, client, request>>

SendRequest(c, outcome) ==
  /\ conn[c] \in {"queued", "reading"} /\ client[c] = "idle"
  /\ client' = [client EXCEPT ![c] = "sent"]
  /\ request' = [request EXCEPT ![c] = outcome]
  /\ UNCHANGED <<server_running, server_socket, server_thread, stopping, backlog, conn>>

HangUp(c) ==
  /\ conn[c] \in {"queued", "reading", "handling"} /\ client[c] \in {"idle", "sent"}
  /\ client' = [client EXCEPT ![c] = IF @ = "idle" THEN "gone" ELSE "left"]
  /\ UNCHANGED <<server_running, server_socket, server_thread, stopping, backlog, conn, request>>

ServerThread == CheckRunning \/ CallAccept \/ AcceptReturns \/ AcceptFails

RpcNext ==
  \/ start_server \/ stop_server \/ Joined \/ ServerThread
  \/ \E c \in Conns : Worker(c) \/ Connect(c) \/ HangUp(c)
  \/ \E c \in Conns, outcome \in Outcome : SendRequest(c, outcome)

(* Threads are scheduled; owner and clients owe nothing.                   *)
RpcFairness ==
  /\ WF_rpcVars(ServerThread) /\ WF_rpcVars(Joined)
  /\ \A c \in Conns : WF_rpcVars(Worker(c))

-----------------------------------------------------------------------------
(* A request whose handler returns is answered, while its client waits:    *)
(* clients that say nothing, that leave, or whose requests never end do not*)
(* hold it up, nor does a stop of the server.  Three things can still take *)
(* the answer away: the connection is reset, with the backlog by a stop or *)
(* with everything by the end of the process; or the accepting thread has  *)
(* given up because too many connections, leaked ones and those of endless *)
(* requests included, were open.                                           *)
RequestsAnswered ==
  \A c \in Conns :
    client[c] = "sent" /\ request[c] = "returns"
      ~> \/ conn[c] \in {"closed", "reset"} \/ client[c] = "left"
         \/ server_thread = "done" /\ server_running
=============================================================================
