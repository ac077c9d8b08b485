--------------------------- MODULE EventConsumer ---------------------------
(***************************************************************************)
(* The Kafka side of the service: KafkaConsumer (src/infrastructure/       *)
(* messaging/kafka.consumer.ts) feeding KafkaEventHandler                  *)
(* (src/application/events/kafka.handler.ts), which calls                  *)
(* sendNotification.  The service is its contract here, SendContract:      *)
(* whatever it does with a call.                                           *)
(*                                                                         *)
(* One partition and one consumer at a time.  kafkajs runs eachMessage for *)
(* one message after the other, counts a message as done when the callback *)
(* returns, commits done offsets when it likes, and starts a new process   *)
(* at the committed offset; that is the library's part of this module.     *)
(*                                                                         *)
(* Limits: no rebalance while a message is at hand; a commit is one step.  *)
(***************************************************************************)
EXTENDS SendContract, Naturals, FiniteSets

CONSTANTS
  Messages,    \* what a Kafka message can hold
  NoValue,     \* the message without a value (a tombstone)
  Garbage,     \* the value that is not JSON
  None,        \* undefined
  MaxLog,      \* bound: messages in the partition
  MaxCrashes   \* bound: deaths of the process

\* A message holds nothing, no JSON, or an event.  customerId and userId are
\* None when the event lacks them.
EventTypes == {"USER_REGISTERED", "BOOKING_CREATED", "PAYMENT_SUCCESS", "OTHER"}
IsEvent(m) == m \notin {NoValue, Garbage}

ASSUME MessagesAssumption ==
  \A m \in Messages : IsEvent(m) => m.type \in EventTypes
ASSUME BoundsAssumption == MaxLog \in Nat /\ MaxCrashes \in Nat
\* Enough calls for every message in every life of the process.
ASSUME CallsAssumption == Calls = 1 .. MaxLog * (MaxCrashes + 1)
ASSUME NoneAssumption == None \notin Calls

VARIABLES
  log,        \* the partition
  committed,  \* the group's committed offset, None before the first commit
  position,   \* how many messages the process counts as done or skipped
  up,         \* is the process subscribed and running?
  current,    \* the call of sendNotification being awaited, or None
  calls,      \* calls[c]: the offset of the message call c is for
  crashes,    \* deaths so far
  base        \* history, read by no action: where the group began to read

kafka    == <<log, committed>>
consumer == <<position, up, current, calls>>
vars     == <<kafka, consumer, crashes, base, cvars>>

-----------------------------------------------------------------------------
\* const customerId = event.customerId ?? event.userId
CustomerOf(e) == IF e.customerId # None THEN e.customerId ELSE e.userId

TemplateName(type) == CASE type = "USER_REGISTERED" -> "welcome_email"
                        [] type = "BOOKING_CREATED" -> "booking_confirmation"
                        [] type = "PAYMENT_SUCCESS" -> "payment_receipt"
                        [] OTHER -> ""

\* Does handling m reach sendNotification?  Without a value eachMessage
\* returns, what JSON.parse throws is logged, and handleEvent returns early.
Notifies(m) == /\ IsEvent(m)
               /\ CustomerOf(m) # None
               /\ TemplateName(m.type) # ""

Next1 == position + 1   \* the message at hand

\* eachMessage returns, and kafkajs counts the message as done.
Resolve == position' = Next1

-----------------------------------------------------------------------------
Produce(m) ==
  /\ Len(log) < MaxLog
  /\ log' = Append(log, m)
  /\ UNCHANGED <<committed, consumer, crashes, base, cvars>>

\* startConsuming with fromBeginning: false.  A group that has committed
\* nothing starts after the messages that are there.
StartConsuming ==
  /\ ~up
  /\ up' = TRUE
  /\ position' = IF committed = None THEN Len(log) ELSE committed
  /\ base' = IF committed = None THEN Len(log) ELSE base
  /\ UNCHANGED <<kafka, current, calls, crashes, cvars>>

\* Mutant: the handler is called without await.
EachMessageNoAwait ==
  /\ up
  /\ position < Len(log)
  /\ Resolve
  /\ \/ /\ ~Notifies(log[Next1])
        /\ UNCHANGED <<current, calls, cvars>>
     \/ /\ Notifies(log[Next1])
        /\ calls' = Append(calls, Next1)
        /\ \E c \in Calls : c = Len(calls') /\ current' = c /\ Ask(c)
  /\ UNCHANGED <<kafka, up, crashes, base>>

\* eachMessage, up to its return or to the await of sendNotification.
EachMessage ==
  /\ up
  /\ current = None
  /\ position < Len(log)
  /\ \/ /\ ~Notifies(log[Next1])
        /\ Resolve
        /\ UNCHANGED <<current, calls, cvars>>
     \/ /\ Notifies(log[Next1])
        /\ calls' = Append(calls, Next1)
        /\ \E c \in Calls : c = Len(calls') /\ current' = c /\ Ask(c)
        /\ UNCHANGED position
  /\ UNCHANGED <<kafka, up, crashes, base>>

\* sendNotification goes on as its contract allows.
ServiceStep ==
  /\ current # None
  /\ Save(current) \/ Queue(current) \/ GiveUp(current) \/ Throws(current)
  /\ UNCHANGED <<kafka, consumer, crashes, base>>

\* Mutant: the catch rethrows, and kafkajs delivers the message again.
HandleEventRethrows ==
  /\ current # None
  /\ verdict[current] \in {"pending", "failed", "error"}
  /\ current' = None
  /\ IF verdict[current] = "error" THEN UNCHANGED position ELSE Resolve
  /\ UNCHANGED <<kafka, up, calls, crashes, base, cvars>>

\* Mutant: only a queued notification lets the handler return.
HandleEventAwaitsSuccess ==
  /\ current # None
  /\ verdict[current] = "pending"
  /\ current' = None
  /\ Resolve
  /\ UNCHANGED <<kafka, up, calls, crashes, base, cvars>>

\* sendNotification answers, or throws into the catch of handleEvent, which
\* only logs: eachMessage returns all the same.
HandleEventReturns ==
  /\ current # None
  /\ verdict[current] \in {"pending", "failed", "error"}
  /\ current' = None
  /\ Resolve
  /\ UNCHANGED <<kafka, up, calls, crashes, base, cvars>>

\* kafkajs commits what is done, at the end of a batch or when it stops.
Commit ==
  /\ up
  /\ position > base
  /\ committed' = position
  /\ UNCHANGED <<log, consumer, crashes, base, cvars>>

\* The process dies, with the call it awaits.
Crash ==
  /\ up
  /\ crashes < MaxCrashes
  /\ crashes' = crashes + 1
  /\ up' = FALSE
  /\ current' = None
  /\ Die
  /\ UNCHANGED <<kafka, position, calls, base>>

Init ==
  /\ CInit
  /\ log = <<>>
  /\ committed = None
  /\ position = 0
  /\ up = FALSE
  /\ current = None
  /\ calls = <<>>
  /\ crashes = 0
  /\ base = 0

Next == \/ \E m \in Messages : Produce(m)
        \/ StartConsuming \/ EachMessage \/ ServiceStep \/ HandleEventReturns
        \/ Commit \/ Crash

\* The process is restarted, kafkajs keeps fetching, and every call settles.
Fairness == WF_vars(StartConsuming) /\ WF_vars(EachMessage \/ HandleEventReturns)
            /\ WF_vars(ServiceStep)

Spec     == Init /\ [][Next]_vars
FairSpec == Spec /\ Fairness

-----------------------------------------------------------------------------
\* Every variable holds a value of the kind its comment says.
TypeOK ==
  /\ log \in Seq(Messages)
  /\ committed \in Nat \cup {None}
  /\ position \in Nat
  /\ up \in BOOLEAN
  /\ current \in Calls \cup {None}
  /\ calls \in Seq(Nat)
  /\ crashes \in 0 .. MaxCrashes
  /\ base \in Nat
  /\ saved \subseteq Calls
  /\ queued \in Seq(Calls)
  /\ verdict \in [Calls -> {"idle", "open", "pending", "failed", "error", "crashed"}]

\* The k-th message asks for nothing, or a call made for it has settled.
Settled(k) ==
  /\ k \in DOMAIN log
  /\ Notifies(log[k]) => \E c \in DOMAIN calls : calls[c] = k /\ verdict[c] \in {"pending", "failed", "error"}

\* What the group has committed since it began to read, and will not be given
\* again, has settled.  A death before the first commit makes it begin anew,
\* behind what is in the topic by then (base); what it skips is not counted.
SettledBeforeCommitted ==
  committed # None => \A k \in base + 1 .. committed : Settled(k)

\* Messages are handled in the order of the partition, one at a time: when
\* one is at hand, all those before it have settled.
SettledInOrder == up => \A k \in base + 1 .. position : Settled(k)

\* A message leads to a second call only if the process died in between: a
\* call that fails or throws never makes Kafka deliver the message again.
RepeatsNeedCrashes ==
  \A k \in 1 .. Len(log) :
    Cardinality({c \in DOMAIN calls : calls[c] = k}) <= crashes + 1

\* Every message is passed, and settled, but those a group with nothing committed, as it is
\* until its first commit, skips when it starts or starts again.
EveryMessageSettles ==
  \A k \in 1 .. MaxLog : k <= Len(log) ~> up /\ (k <= base \/ (k <= position /\ Settled(k)))
=============================================================================
