------------------------------ MODULE Dispatch ------------------------------
(***************************************************************************)
(* The way of an event from Kafka to a delivery worker: EventConsumer, the *)
(* service as SendContract, and DeliveryWorker, in one process.            *)
(*                                                                         *)
(* The three take their own steps but for two: handing a message to the    *)
(* publisher is a step of the service and of the queue, and when the       *)
(* process dies it dies for all of them.  A message of the queue is the    *)
(* call of sendNotification that published it.                             *)
(*                                                                         *)
(* Limits: the host connects the publisher; all the templates are of one   *)
(* channel, so that there is one queue and one worker.                     *)
(***************************************************************************)
EXTENDS EventConsumer

CONSTANT MaxLosses  \* bound: deaths, and channels that RabbitMQ closes

ASSUME MaxLossesAssumption == MaxLosses \in Nat

VARIABLES outbox, queue, unacked, inbox, replies, worker, dropped, losses,
          sent, lost, processed   \* as in DeliveryWorker

Worker == INSTANCE DeliveryWorker WITH Messages <- Calls, Malformed <- {}

delivery == <<outbox, queue, unacked, inbox, replies, worker, dropped, losses, sent, lost, processed>>
dispatch == <<vars, delivery>>

-----------------------------------------------------------------------------
\* The service hands a message to the publisher.
Publish == /\ current # None
           /\ ServiceStep
           /\ queued' # queued
           /\ Worker!SendToQueue(current)

\* A step of the consumer or of the service that publishes nothing.
ConsumerStep == /\ \/ \E m \in Messages : Produce(m)
                   \/ StartConsuming \/ EachMessage
                   \/ HandleEventReturns \/ Commit
                   \/ ServiceStep /\ queued' = queued
                /\ UNCHANGED delivery

\* bootstrap starts the worker after the consumer.
WorkerStep == /\ \/ Worker!OutboxReachesQueue \/ Worker!Deliver
                 \/ Worker!Callback \/ Worker!BrokerGetsReply
                 \/ up /\ Worker!WorkerStart
                 \/ Worker!ConsumerCancelled \/ Worker!ConnectionCloses
              /\ UNCHANGED vars

ProcessDies == Crash /\ Worker!ProcessDies

DispatchInit == Init /\ Worker!Init

DispatchNext == Publish \/ ConsumerStep \/ WorkerStep \/ ProcessDies

DispatchSpec == DispatchInit /\ [][DispatchNext]_dispatch
FairDispatch == DispatchSpec /\ Fairness /\ Worker!Fairness

-----------------------------------------------------------------------------
Delivered == {processed[k] : k \in DOMAIN processed}
CallsFor(k) == {c \in DOMAIN calls : calls[c] = k}

\* What a worker processes was asked for by an event, and is in the database.
ProcessedIsBacked ==
  \A c \in Delivered : c \in saved /\ c \in DOMAIN calls /\ Notifies(log[calls[c]])

\* A customer hears of one event once, if nothing is lost.  Each loss can make
\* the worker repeat what it has, and a death can make Kafka repeat the event
\* as well: after n losses it is 1 + 2 + ... + (n + 1) times at most.
RepeatsAreBounded ==
  \A k \in DOMAIN log :
    2 * Cardinality({i \in DOMAIN processed : calls[processed[i]] = k})
      <= (losses + 1) * (losses + 2)

\* A customer hears of the events in the order of the partition: before he
\* hears of one, he has heard of every one before it that is to notify and that
\* the group has not skipped, unless a call for that one failed, or its message
\* died in the process.
EventsInOrder ==
  \A j \in DOMAIN processed :
    \A k \in base + 1 .. calls[processed[j]] - 1 :
      Notifies(log[k]) =>
        \E c \in CallsFor(k) : \/ verdict[c] \in {"failed", "error"}
                               \/ c \in lost
                               \/ \E i \in 1 .. j - 1 : processed[i] = c

\* An event that is to notify, and that the group has not skipped, reaches the
\* customer, unless a call for it failed, its message died in the process, or
\* the worker has gone deaf.
EventReachesCustomer ==
  \A k \in 1 .. MaxLog :
    k <= Len(log) /\ Notifies(log[k]) ~>
      \/ k <= base
      \/ worker \in {"cancelled", "closed"}
      \/ \E c \in CallsFor(k) : \/ c \in Delivered \cup lost
                                \/ verdict[c] \in {"failed", "error"}
=============================================================================
