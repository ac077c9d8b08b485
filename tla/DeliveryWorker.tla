--------------------------- MODULE DeliveryWorker ---------------------------
(***************************************************************************)
(* One delivery queue: the publisher's channel, RabbitMQ, and the worker   *)
(* that consumes the queue (src/workers/email.worker.ts; push and sms are  *)
(* the same but for the names).                                            *)
(*                                                                         *)
(* RabbitMQ and amqplib are modelled as the code relies on them.  A        *)
(* message that sendToQueue takes waits in the process for its socket and  *)
(* is gone with it, since nothing asks for confirms.  The broker pushes    *)
(* the queue to the consumer without a limit (no prefetch), takes back     *)
(* what was not acknowledged when the channel ends, and drops what is      *)
(* rejected without requeue, since assertQueue names no dead-letter        *)
(* exchange.  amqplib runs the callbacks one by one; a channel that is     *)
(* closed by the broker's shutdown leaves the process running, a socket    *)
(* error has no listener and kills it.                                     *)
(*                                                                         *)
(* Limits: the publisher is connected and the queue declared before        *)
(* anything is published; the worker does nothing with a message but       *)
(* parse it, as in the code, where the provider's call is still to come.   *)
(***************************************************************************)
EXTENDS Naturals, Sequences, SequencesExt

CONSTANTS
  Messages,    \* what is published to this queue, each message once
  Malformed,   \* those JSON.parse throws on
  MaxLosses    \* bound: channels lost, by the broker's doing or a crash

ASSUME MalformedAssumption == Malformed \subseteq Messages
ASSUME LossesAssumption == MaxLosses \in Nat

VARIABLES
  outbox,     \* taken by sendToQueue, still in the publisher's process
  queue,      \* ready in the broker's queue
  unacked,    \* pushed to the worker, neither acknowledged nor rejected yet
  inbox,      \* of those, the ones whose callback has not run
  replies,    \* acknowledgements and rejections on their way to the broker
  worker,     \* "down", "consuming", or deaf: "cancelled", "closed"
  dropped,    \* what the broker dropped because it was rejected
  losses,     \* channels lost so far
  \* History, read by no action:
  sent, lost, \* what was handed to sendToQueue, in order; what died in outbox
  processed   \* "Message processed successfully", in order

broker  == <<queue, unacked, dropped>>
client  == <<inbox, replies>>
history == <<sent, lost, processed>>
vars    == <<outbox, broker, client, worker, losses, history>>

-----------------------------------------------------------------------------
\* Mutant: sendToQueue returned false and is called again.
SendToQueueAgain(m) ==
  /\ m \notin Range(sent)
  /\ outbox' = outbox \o <<m, m>>
  /\ sent' = Append(sent, m)
  /\ UNCHANGED <<broker, client, worker, losses, lost, processed>>

\* publish(): the buffer takes the message whatever sendToQueue returns.
SendToQueue(m) ==
  /\ m \notin Range(sent)
  /\ outbox' = Append(outbox, m)
  /\ sent' = Append(sent, m)
  /\ UNCHANGED <<broker, client, worker, losses, lost, processed>>

OutboxReachesQueue ==
  /\ outbox # <<>>
  /\ queue' = Append(queue, Head(outbox))
  /\ outbox' = Tail(outbox)
  /\ UNCHANGED <<unacked, dropped, client, worker, losses, history>>

\* start(): connect, assertQueue, consume.  When one of them fails the process
\* exits and is started again.
WorkerStart ==
  /\ worker = "down"
  /\ worker' = "consuming"
  /\ UNCHANGED <<outbox, broker, client, losses, history>>

Deliver ==
  /\ worker = "consuming"
  /\ queue # <<>>
  /\ unacked' = Append(unacked, Head(queue))
  /\ inbox' = Append(inbox, Head(queue))
  /\ queue' = Tail(queue)
  /\ UNCHANGED <<outbox, dropped, replies, worker, losses, history>>

\* Mutant: the message is acknowledged before it is parsed.
AckFirst(m) == <<[msg |-> m, type |-> "ack"]>>

\* Mutant: the catch only logs.
AckOnly(m) == IF m \in Malformed THEN <<>> ELSE <<[msg |-> m, type |-> "ack"]>>

\* Mutant: nack in the catch, and an ack in a finally.
AckInFinally(m) == IF m \in Malformed
                   THEN <<[msg |-> m, type |-> "nack"], [msg |-> m, type |-> "ack"]>>
                   ELSE <<[msg |-> m, type |-> "ack"]>>

\* What the callback answers: ack, or nack(msg, false, false) in the catch.
AckOrNack(m) == <<[msg |-> m, type |-> IF m \in Malformed THEN "nack" ELSE "ack"]>>

Process(m) == processed' = IF m \in Malformed THEN processed ELSE Append(processed, m)

\* Mutant: callbacks await a provider, and the last to begin may end first.
CallbackOutOfOrder ==
  /\ inbox # <<>>
  /\ Process(Last(inbox))
  /\ replies' = replies \o AckOrNack(Last(inbox))
  /\ inbox' = Front(inbox)
  /\ UNCHANGED <<outbox, broker, worker, losses, sent, lost>>

\* Mutant: the catch publishes the message again before it rejects it.
CallbackRetries ==
  /\ inbox # <<>>
  /\ Process(Head(inbox))
  /\ replies' = replies \o AckOrNack(Head(inbox))
  /\ outbox' = IF Head(inbox) \in Malformed THEN Append(outbox, Head(inbox)) ELSE outbox
  /\ inbox' = Tail(inbox)
  /\ UNCHANGED <<broker, worker, losses, sent, lost>>

\* The callback given to consume; it awaits nothing, so it runs in one step.
Callback ==
  /\ inbox # <<>>
  /\ Process(Head(inbox))
  /\ replies' = replies \o AckOrNack(Head(inbox))
  /\ inbox' = Tail(inbox)
  /\ UNCHANGED <<outbox, broker, worker, losses, sent, lost>>

\* The delivery that the reply's tag names is done.
BrokerGetsReply ==
  /\ replies # <<>>
  /\ LET r == Head(replies) IN
       /\ \E k \in DOMAIN unacked : unacked[k] = r.msg /\ unacked' = RemoveAt(unacked, k)
       /\ dropped' = IF r.type = "nack" THEN dropped \cup {r.msg} ELSE dropped
  /\ replies' = Tail(replies)
  /\ UNCHANGED <<outbox, queue, inbox, worker, losses, history>>

\* The broker takes back, in their places, what was not acknowledged.
Requeue == /\ queue' = unacked \o queue
           /\ unacked' = <<>>
           /\ inbox' = <<>>
           /\ replies' = <<>>
           /\ UNCHANGED dropped

\* The broker cancels the consumer: the callback gets null and ignores it.
ConsumerCancelled ==
  /\ worker = "consuming"
  /\ losses < MaxLosses
  /\ losses' = losses + 1
  /\ worker' = "cancelled"
  /\ UNCHANGED <<outbox, broker, client, history>>

\* The broker closes the worker's connection.  Nobody listens to "close".
ConnectionCloses ==
  /\ worker \in {"consuming", "cancelled"}
  /\ losses < MaxLosses
  /\ losses' = losses + 1
  /\ worker' = "closed"
  /\ Requeue
  /\ UNCHANGED <<outbox, history>>

\* A crash, a socket error or a shutdown; the publisher is in this process too.
ProcessDies ==
  /\ losses < MaxLosses
  /\ losses' = losses + 1
  /\ worker' = "down"
  /\ Requeue
  /\ outbox' = <<>>
  /\ lost' = lost \cup Range(outbox)
  /\ UNCHANGED <<sent, processed>>

Init ==
  /\ outbox = <<>> /\ queue = <<>> /\ unacked = <<>>
  /\ inbox = <<>> /\ replies = <<>>
  /\ worker = "down"
  /\ dropped = {}
  /\ losses = 0
  /\ sent = <<>> /\ lost = {} /\ processed = <<>>

Progress == OutboxReachesQueue \/ WorkerStart \/ Deliver \/ Callback \/ BrokerGetsReply

Next == \/ \E m \in Messages : SendToQueue(m)
        \/ Progress
        \/ ConsumerCancelled \/ ConnectionCloses \/ ProcessDies

\* Sockets drain, the container is restarted, callbacks run.
Fairness == /\ WF_vars(OutboxReachesQueue)
            /\ WF_vars(WorkerStart)
            /\ WF_vars(Deliver)
            /\ WF_vars(Callback)
            /\ WF_vars(BrokerGetsReply)

Spec     == Init /\ [][Next]_vars
FairSpec == Spec /\ Fairness

-----------------------------------------------------------------------------
\* Every variable holds a value of the kind its comment says.
TypeOK ==
  /\ outbox \in Seq(Messages) /\ queue \in Seq(Messages)
  /\ unacked \in Seq(Messages) /\ inbox \in Seq(Messages)
  /\ replies \in Seq([msg : Messages, type : {"ack", "nack"}])
  /\ worker \in {"down", "consuming", "cancelled", "closed"}
  /\ dropped \subseteq Messages /\ lost \subseteq Messages
  /\ losses \in 0 .. MaxLosses
  /\ sent \in Seq(Messages) /\ processed \in Seq(Messages)

\* What is under way, from the oldest to the newest.
Pipeline == unacked \o queue \o outbox

\* What became of a message the worker acknowledged.
Acked == Range(sent) \ (Range(Pipeline) \cup dropped \cup lost)

\* A message that reached RabbitMQ leaves it for one of two reasons: it was
\* processed and acknowledged, or JSON.parse threw.  A well-formed one is
\* never dropped, a malformed one never counted as processed.
LeavesForAReason ==
  /\ Acked \subseteq Range(processed)
  /\ dropped \subseteq Malformed
  /\ Range(processed) \cap Malformed = {}

\* Every message is in one place, and there once: still in the process, in the
\* queue, with the worker, or gone for good.
InOnePlace == IsInjective(Pipeline) /\ Range(Pipeline) \cap (dropped \cup lost) = {}

\* What the callback has yet to see and what the broker has yet to hear of is,
\* in this order, what the broker holds for the worker.
WorkerAndBrokerAgree ==
  unacked = [k \in DOMAIN replies |-> replies[k].msg] \o inbox

\* A customer gets the same message again only because a channel was lost
\* before the acknowledgement: as often as channels were lost, at most.
RepeatsNeedLosses ==
  \A m \in Messages : Cardinality({k \in DOMAIN processed : processed[k] = m}) <= losses + 1

\* Notifications are first processed in the order they were handed to
\* RabbitMQ, through redeliveries and restarts.
FirstInOrder ==
  \A i, j \in DOMAIN sent :
    i < j /\ sent[j] \in Range(processed) /\ sent[i] \notin lost \cup Malformed =>
      \E k \in DOMAIN processed :
        processed[k] = sent[i] /\ sent[j] \notin Range(SubSeq(processed, 1, k))

\* Whatever is in the queue is acknowledged or dropped in the end, unless the
\* worker has gone deaf.
QueueDrains ==
  \A m \in Messages : m \in Range(queue) ~>
    m \in Acked \cup dropped \/ worker \in {"cancelled", "closed"}

\* PLANNING.md, line 8: workers deliver what is in their queues.
WorkersDeliver == \A m \in Messages : m \in Range(queue) ~> m \in Acked \cup dropped
=============================================================================
