------------------------------- MODULE Broker -------------------------------
(***************************************************************************)
(* One durable queue bound to the topic exchange `stream_helper`, with the *)
(* consumers reading it (packages/bus/src/bus/rabbitmq.py).  RabbitMQ      *)
(* itself is external; this is the contract the code relies on:            *)
(* prefetch_count=1 leaves each consumer at most one unacknowledged        *)
(* message, a nack with requeue=True or a lost connection puts it back at  *)
(* the head of the queue, and messages and queue survive a restart of any  *)
(* process (durable queue, persistent delivery mode).                      *)
(***************************************************************************)
EXTENDS Sequences

CONSTANTS Consumer,   \* the processes that called consume_messages
          Message,    \* the payloads that can be published to this queue
          NoMessage   \* "nothing unacknowledged"

VARIABLES queue,      \* ready messages, head first
          unacked     \* [Consumer -> Message \cup {NoMessage}]

BrokerInit ==
    /\ queue = << >>
    /\ unacked = [c \in Consumer |-> NoMessage]

BrokerTypeOK ==
    /\ queue \in Seq(Message)
    /\ unacked \in [Consumer -> Message \cup {NoMessage}]

\* publish_topic / publish_topic_blocking: the payload reaches the queue.
Publish(m) ==
    /\ queue' = Append(queue, m)
    /\ UNCHANGED unacked

\* The broker hands the head of the queue to a consumer with nothing unacked.
Deliver(c) ==
    /\ queue # << >>
    /\ unacked[c] = NoMessage
    /\ unacked' = [unacked EXCEPT ![c] = Head(queue)]
    /\ queue' = Tail(queue)

\* basic_ack after the handler returned: the message is gone.
Ack(c) ==
    /\ unacked[c] # NoMessage
    /\ unacked' = [unacked EXCEPT ![c] = NoMessage]
    /\ UNCHANGED queue

\* basic_nack(requeue=True), or the connection of c is lost: what c had not
\* acknowledged returns to the head of the queue.
Requeue(c) ==
    /\ queue' = IF unacked[c] = NoMessage THEN queue
                                          ELSE << unacked[c] >> \o queue
    /\ unacked' = [unacked EXCEPT ![c] = NoMessage]

\* The messages the broker still holds, ready or unacknowledged.
Held == {queue[i] : i \in DOMAIN queue}
          \cup {unacked[c] : c \in {d \in Consumer : unacked[d] # NoMessage}}
=============================================================================
