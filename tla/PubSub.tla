------------------------------- MODULE PubSub -------------------------------
(***************************************************************************)
(* The subscription engine, src/rpc/mermai_pubsub.cpp.  Every operation    *)
(* holds sub_mutex from its first statement to its last, so each is one    *)
(* step.  The filter of a subscription is stored and never consulted.      *)
(***************************************************************************)
EXTENDS Integers, SequencesExt

CONSTANTS Topics,        \* topics, none of them the empty string
          MaxSubs,       \* bound on the subscriptions ever made
          MaxEventsSent  \* bound on the events published

ASSUME PubSubConstants == MaxSubs \in Nat /\ MaxEventsSent \in Nat

VARIABLES subscriptions,  \* id -> topic and pending events
          next_sub_id,
          sent,           \* history: the topics of the events, in order of publication
          since,          \* history: id -> how many events were published before it
          taken           \* history: id -> the events that polls have returned

psVars == <<subscriptions, next_sub_id, sent, since, taken>>

PsInit ==
  /\ subscriptions = <<>>
  /\ next_sub_id = 1
  /\ sent = <<>>
  /\ since = <<>>
  /\ taken = <<>>

(* A map with one more entry                                               *)
With(f, id, value) == [k \in DOMAIN f \cup {id} |-> IF k = id THEN value ELSE f[k]]

subscribe(topic) ==
  /\ next_sub_id <= MaxSubs
  /\ subscriptions' = With(subscriptions, next_sub_id, [topic |-> topic, pending_events |-> <<>>])
  /\ next_sub_id' = next_sub_id + 1
  /\ since' = With(since, next_sub_id, Len(sent))
  /\ taken' = With(taken, next_sub_id, <<>>)
  /\ UNCHANGED sent

unsubscribe(id) ==
  /\ id \in DOMAIN subscriptions
  /\ subscriptions' = [k \in DOMAIN subscriptions \ {id} |-> subscriptions[k]]
  /\ UNCHANGED <<next_sub_id, sent, since, taken>>

(* An event is named by its place in the order of publication.             *)
publish(topic) ==
  /\ Len(sent) < MaxEventsSent
  /\ sent' = Append(sent, topic)
  /\ subscriptions' = [k \in DOMAIN subscriptions |->
       IF subscriptions[k].topic = topic
       THEN [subscriptions[k] EXCEPT !.pending_events = Append(@, Len(sent) + 1)]
       ELSE subscriptions[k]]
  /\ UNCHANGED <<next_sub_id, since, taken>>

\* Faulty variant: the events that were returned stay pending.
PollKeepsEvents(id) ==
  /\ id \in DOMAIN subscriptions
  /\ Len(taken[id]) <= MaxEventsSent
  /\ taken' = [taken EXCEPT ![id] = @ \o subscriptions[id].pending_events]
  /\ UNCHANGED <<subscriptions, next_sub_id, sent, since>>

poll_events(id) ==
  /\ id \in DOMAIN subscriptions
  /\ taken' = [taken EXCEPT ![id] = @ \o subscriptions[id].pending_events]
  /\ subscriptions' = [subscriptions EXCEPT ![id].pending_events = <<>>]
  /\ UNCHANGED <<next_sub_id, sent, since>>

clear ==
  /\ subscriptions' = <<>>
  /\ UNCHANGED <<next_sub_id, sent, since, taken>>

PsNext ==
  \/ \E t \in Topics : subscribe(t) \/ publish(t)
  \/ \E id \in DOMAIN subscriptions : unsubscribe(id) \/ poll_events(id)
  \/ clear

PsSpec == PsInit /\ [][PsNext]_psVars

-----------------------------------------------------------------------------
Increasing(s) == \A m, n \in DOMAIN s : m < n => s[m] < s[n]

(* What a subscriber has polled and what is waiting for it are together the*)
(* events of its topic since it subscribed, each once and in the order of  *)
(* publication, whatever the other subscribers do; and a subscription that *)
(* ended has been handed the first of them, without a gap.                 *)
InOrderOnce ==
  \A id \in DOMAIN taken :
    LET due(topic) == {n \in (since[id] + 1)..Len(sent) : sent[n] = topic}
    IN  IF id \in DOMAIN subscriptions
        THEN LET got == taken[id] \o subscriptions[id].pending_events
             IN  Increasing(got) /\ ToSet(got) = due(subscriptions[id].topic)
        ELSE /\ Increasing(taken[id])
             /\ \E topic \in Topics, last \in 0..Len(sent) :
                  ToSet(taken[id]) = {n \in due(topic) : n <= last}
=============================================================================
