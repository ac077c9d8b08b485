--------------------------- MODULE DispatchProofs ---------------------------
(***************************************************************************)
(* The way of an event, proved for every log, every number of deaths and   *)
(* lost channels, and every service that keeps SendContract.  First the    *)
(* consumer alone, then the whole of Dispatch: that each part of it takes  *)
(* only steps of its own specification, so that what is proved of a part   *)
(* holds in the whole, and what only the whole can promise.                *)
(***************************************************************************)
EXTENDS Dispatch, SequenceTheorems, FiniteSetTheorems, TLAPS

-----------------------------------------------------------------------------
(* The consumer. *)

Kinds == /\ log \in Seq(Messages)
         /\ committed \in Nat \cup {None}
         /\ position \in Nat
         /\ base \in Nat
         /\ calls \in Seq(Nat)
         /\ DOMAIN calls \subseteq Calls
         /\ verdict \in [Calls -> {"idle", "open", "pending", "failed", "error", "crashed"}]

\* The call being awaited is for the message at hand.
AtHand == current # None => /\ up
                            /\ current \in DOMAIN calls
                            /\ calls[current] = Next1
                            /\ Next1 \in DOMAIN log

ConsumerInv == Kinds /\ AtHand /\ SettledInOrder /\ SettledBeforeCommitted

\* A group that has read nothing has nothing to have settled.
LEMMA ConsumerInit == Init => ConsumerInv
BY DEF Init, CInit, ConsumerInv, Kinds, AtHand, SettledInOrder, SettledBeforeCommitted

\* The contract moves a call only while it is open, and one that has settled
\* stays settled.
LEMMA VerdictStep ==
  ASSUME Kinds,
         \/ UNCHANGED cvars
         \/ Die
         \/ \E c \in Calls : Ask(c)
         \/ \E c : Save(c) \/ Queue(c) \/ GiveUp(c) \/ Throws(c)
  PROVE  /\ verdict' \in [Calls -> {"idle", "open", "pending", "failed", "error", "crashed"}]
         /\ \A c : verdict[c] \in {"pending", "failed", "error"} /\ c \in Calls => verdict'[c] = verdict[c]
BY DEF Kinds, cvars, Die, Ask, Save, Queue, GiveUp, Throws

\* A message that has settled stays settled, since verdicts do, and since the log and the calls only grow.
LEMMA SettledStays ==
  ASSUME Kinds, NEW k, Settled(k),
         log' = log \/ \E m \in Messages : log' = Append(log, m),
         calls' = calls \/ \E n \in Nat : calls' = Append(calls, n),
         \A c \in DOMAIN calls :
           verdict[c] \in {"pending", "failed", "error"} => verdict'[c] = verdict[c]
  PROVE  Settled(k)'
<1>1. k \in DOMAIN log' /\ log'[k] = log[k]
  BY DEF Kinds, Settled
<1>2. ASSUME NEW c \in DOMAIN calls
      PROVE  c \in DOMAIN calls' /\ calls'[c] = calls[c]
  <2>1. CASE calls' = calls
    BY <2>1
  <2>2. CASE \E n \in Nat : calls' = Append(calls, n)
    BY <2>2 DEF Kinds
  <2> QED
    BY <2>1, <2>2
<1> QED
  BY <1>1, <1>2 DEF Settled, Notifies, IsEvent, CustomerOf, TemplateName

\* Every action of the consumer keeps the invariant.
LEMMA ConsumerStays == ConsumerInv /\ [Next]_vars => ConsumerInv'
<1> SUFFICES ASSUME ConsumerInv, [Next]_vars PROVE ConsumerInv'
  OBVIOUS
<1> USE DEF ConsumerInv
<1>1. ASSUME NEW m \in Messages, Produce(m)
      PROVE  ConsumerInv'
  <2>1. Kinds'
    BY <1>1 DEF Produce, Kinds, consumer, cvars
  <2>2. AtHand'
    BY <1>1 DEF Produce, Kinds, AtHand, Next1, consumer
  <2>3. \A k : Settled(k) => Settled(k)'
    BY <1>1, SettledStays DEF Produce, consumer, cvars
  <2> QED
    BY <1>1, <2>1, <2>2, <2>3
    DEF Produce, SettledInOrder, SettledBeforeCommitted, consumer
<1>2. CASE StartConsuming
  <2>1. \A k : Settled(k) => Settled(k)'
    BY <1>2, SettledStays DEF StartConsuming, kafka, cvars
  <2>2. Kinds' /\ AtHand'
    BY <1>2 DEF StartConsuming, Kinds, AtHand, Next1, kafka, cvars
  <2>3. CASE committed = None
    BY <1>2, <2>2, <2>3
    DEF StartConsuming, Kinds, SettledInOrder, SettledBeforeCommitted, kafka
  <2>4. CASE committed # None
    <3>1. position' = committed /\ base' = base /\ committed' = committed
      BY <1>2, <2>4 DEF StartConsuming, kafka
    <3> QED
      BY <2>1, <2>2, <2>4, <3>1 DEF SettledInOrder, SettledBeforeCommitted
  <2> QED
    BY <2>3, <2>4
<1>3. CASE EachMessage
  <2>1. \A c \in Calls : verdict[c] \in {"pending", "failed", "error"} => verdict'[c] = verdict[c]
    BY <1>3, VerdictStep DEF EachMessage
  <2>2. \A k : Settled(k) => Settled(k)'
    BY <1>3, <2>1, SettledStays DEF EachMessage, Kinds, Next1, kafka
  <2>3. Next1 \in DOMAIN log
    BY <1>3 DEF EachMessage, Kinds, Next1
  <2>4. CASE ~Notifies(log[Next1]) /\ Resolve /\ UNCHANGED <<current, calls, cvars>>
    <3>1. Kinds' /\ AtHand'
      BY <1>3, <2>4 DEF EachMessage, Resolve, Kinds, AtHand, Next1, kafka, cvars
    <3>2. Settled(Next1)
      BY <2>3, <2>4 DEF Settled
    <3>3. SettledInOrder' /\ SettledBeforeCommitted'
      BY <1>3, <2>2, <2>4, <3>2
      DEF EachMessage, Resolve, Kinds, Next1, SettledInOrder, SettledBeforeCommitted, kafka
    <3> QED
      BY <3>1, <3>3
  <2>5. CASE /\ calls' = Append(calls, Next1)
             /\ \E c \in Calls : c = Len(calls') /\ current' = c /\ Ask(c)
             /\ UNCHANGED position
    <3>1. Kinds'
      BY <1>3, <2>5, VerdictStep DEF EachMessage, Kinds, Next1, kafka
    <3>2. AtHand'
      BY <1>3, <2>3, <2>5 DEF EachMessage, Kinds, AtHand, Next1, kafka
    <3>3. SettledInOrder' /\ SettledBeforeCommitted'
      BY <1>3, <2>2, <2>5 DEF EachMessage, SettledInOrder, SettledBeforeCommitted, kafka
    <3> QED
      BY <3>1, <3>2, <3>3
  <2> QED
    BY <1>3, <2>4, <2>5 DEF EachMessage
<1>4. CASE ServiceStep
  <2>1. \A c \in Calls : verdict[c] \in {"pending", "failed", "error"} => verdict'[c] = verdict[c]
    BY <1>4, VerdictStep DEF ServiceStep
  <2>2. \A k : Settled(k) => Settled(k)'
    BY <1>4, <2>1, SettledStays DEF ServiceStep, Kinds, kafka, consumer
  <2>3. Kinds' /\ AtHand'
    BY <1>4, VerdictStep DEF ServiceStep, Kinds, AtHand, Next1, kafka, consumer
  <2>4. SettledInOrder' /\ SettledBeforeCommitted'
    BY <1>4, <2>2 DEF ServiceStep, SettledInOrder, SettledBeforeCommitted, kafka, consumer
  <2> QED
    BY <2>3, <2>4
<1>5. CASE HandleEventReturns
  <2>1. \A k : Settled(k) => Settled(k)'
    BY <1>5, SettledStays DEF HandleEventReturns, kafka, cvars
  <2>2. Settled(Next1)
    BY <1>5 DEF HandleEventReturns, AtHand, Settled
  <2>3. Kinds' /\ AtHand'
    BY <1>5 DEF HandleEventReturns, Resolve, Kinds, AtHand, Next1, kafka, cvars
  <2>4. SettledInOrder' /\ SettledBeforeCommitted'
    BY <1>5, <2>1, <2>2
    DEF HandleEventReturns, Resolve, Kinds, Next1, SettledInOrder, SettledBeforeCommitted, kafka
  <2> QED
    BY <2>3, <2>4
<1>6. CASE Commit
  <2>1. \A k : Settled(k) => Settled(k)'
    BY <1>6, SettledStays DEF Commit, consumer, cvars
  <2> QED
    BY <1>6, <2>1
    DEF Commit, Kinds, AtHand, Next1, SettledInOrder, SettledBeforeCommitted, consumer, cvars
<1>7. CASE Crash
  <2>1. \A c \in Calls : verdict[c] \in {"pending", "failed", "error"} => verdict'[c] = verdict[c]
    BY <1>7, VerdictStep DEF Crash
  <2>2. \A k : Settled(k) => Settled(k)'
    BY <1>7, <2>1, SettledStays DEF Crash, Kinds, kafka
  <2>3. Kinds' /\ AtHand'
    BY <1>7, VerdictStep DEF Crash, Kinds, AtHand, kafka
  <2>4. SettledInOrder' /\ SettledBeforeCommitted'
    BY <1>7, <2>2 DEF Crash, SettledInOrder, SettledBeforeCommitted, kafka
  <2> QED
    BY <2>3, <2>4
<1>8. CASE UNCHANGED vars
  <2>1. \A k : Settled(k) => Settled(k)'
    BY <1>8, SettledStays DEF vars, kafka, consumer, cvars
  <2> QED
    BY <1>8, <2>1
    DEF vars, Kinds, AtHand, Next1, SettledInOrder, SettledBeforeCommitted, kafka, consumer, cvars
<1> QED
  BY <1>1, <1>2, <1>3, <1>4, <1>5, <1>6, <1>7, <1>8 DEF Next

\* What Kinds leaves out of the type invariant.
Others == /\ up \in BOOLEAN
          /\ current \in Calls \cup {None}
          /\ crashes \in 0 .. MaxCrashes
          /\ saved \subseteq Calls
          /\ queued \in Seq(Calls)

LEMMA OthersInit == Init => Others
<1> SUFFICES ASSUME Init PROVE Others
  OBVIOUS
<1>1. up = FALSE /\ current = None /\ crashes = 0 /\ saved = {} /\ queued = <<>>
  BY DEF Init, CInit
<1>2. 0 \in 0 .. MaxCrashes
  BY BoundsAssumption
<1> QED
  BY <1>1, <1>2, EmptySeq DEF Others

\* The contract saves and queues for the call it is given, and for no other.
LEMMA ContractTypes ==
  ASSUME Others, NEW c \in Calls, Save(c) \/ Queue(c) \/ GiveUp(c) \/ Throws(c)
  PROVE  saved' \subseteq Calls /\ queued' \in Seq(Calls)
BY DEF Others, Save, Queue, GiveUp, Throws

LEMMA OthersStep == Others /\ [Next]_vars => Others'
<1> SUFFICES ASSUME Others, [Next]_vars PROVE Others'
  OBVIOUS
<1>1. CASE StartConsuming \/ (\E m \in Messages : Produce(m)) \/ Commit \/ HandleEventReturns
            \/ UNCHANGED vars
  BY <1>1 DEF Others, StartConsuming, Produce, Commit, HandleEventReturns, vars, consumer, cvars
<1>2. CASE EachMessage
  BY <1>2 DEF Others, EachMessage, Ask, cvars
<1>3. CASE ServiceStep
  <2>1. current \in Calls /\ UNCHANGED <<up, current, crashes>>
    BY <1>3 DEF ServiceStep, Others, consumer
  <2> QED
    BY <1>3, <2>1, ContractTypes DEF ServiceStep, Others
<1>4. CASE Crash
  <2>1. up' = FALSE /\ current' = None /\ crashes' = crashes + 1 /\ crashes < MaxCrashes
        /\ saved' = saved /\ queued' = queued
    BY <1>4 DEF Crash, Die
  <2>2. crashes' \in 0 .. MaxCrashes
    BY <2>1, BoundsAssumption DEF Others
  <2> QED
    BY <2>1, <2>2 DEF Others
<1> QED
  BY <1>1, <1>2, <1>3, <1>4 DEF Next

\* Every variable of the consumer, and of the contract of the service, keeps its type.
THEOREM TypeCorrect == Spec => []TypeOK
<1>1. ConsumerInv /\ Others => TypeOK
  BY DEF ConsumerInv, Kinds, Others, TypeOK
<1> QED
  BY <1>1, OthersInit, OthersStep, ConsumerInit, ConsumerStays, PTL DEF Spec

\* What the group commits (kafka.consumer.ts:49) has settled.
THEOREM CommittedIsSettled == Spec => []SettledBeforeCommitted
<1>1. ConsumerInv => SettledBeforeCommitted
  BY DEF ConsumerInv
<1> QED
  BY ConsumerInit, ConsumerStays, <1>1, PTL DEF Spec

\* Everything before the message at hand has settled.
THEOREM InOrder == Spec => []SettledInOrder
<1>1. ConsumerInv => SettledInOrder
  BY DEF ConsumerInv
<1> QED
  BY ConsumerInit, ConsumerStays, <1>1, PTL DEF Spec

-----------------------------------------------------------------------------
(* Repeats. *)

Made(k) == {c \in DOMAIN calls : calls[c] = k}

\* Has this life of the process passed message k, or is it at hand?
Met(k) == up /\ (k <= position \/ (current # None /\ calls[current] = k))

\* Each life of the process calls for a message once at most.
Counted == /\ crashes \in Nat
           /\ \A k \in Nat : Cardinality(Made(k)) <= crashes + IF Met(k) THEN 1 ELSE 0

LEMMA MadeFinite == ASSUME Kinds, NEW k PROVE IsFiniteSet(Made(k)) /\ Cardinality(Made(k)) \in Nat
<1>1. IsFiniteSet(DOMAIN calls) /\ Made(k) \in SUBSET DOMAIN calls
  BY FS_Interval DEF Kinds, Made
<1> QED
  BY <1>1, FS_Subset, FS_CardinalityType

\* Nothing is counted that was not, and no message that was met is not met now.
LEMMA CountedKept ==
  ASSUME Kinds, Counted, crashes' = crashes, calls' = calls, \A k \in Nat : Met(k) => Met(k)'
  PROVE  Counted'
<1> SUFFICES ASSUME NEW k \in Nat
             PROVE  Cardinality(Made(k))' <= crashes' + IF Met(k)' THEN 1 ELSE 0
  BY DEF Counted
<1>1. Cardinality(Made(k))' = Cardinality(Made(k)) /\ crashes \in Nat
  BY DEF Made, Counted
<1>2. Cardinality(Made(k)) \in Nat
  BY MadeFinite
<1> QED
  BY <1>1, <1>2 DEF Counted

LEMMA CountedInit == Init => Counted
BY FS_EmptySet DEF Init, Counted, Made

LEMMA CountedStep == ConsumerInv /\ Counted /\ [Next]_vars => Counted'
<1> SUFFICES ASSUME ConsumerInv, Counted, [Next]_vars PROVE Counted'
  OBVIOUS
<1> USE DEF ConsumerInv
<1>1. CASE EachMessage
  <2>1. CASE Resolve /\ UNCHANGED calls
    BY <1>1, <2>1, CountedKept DEF EachMessage, Resolve, Kinds, Next1, Met
  <2>2. CASE calls' = Append(calls, Next1) /\ UNCHANGED position /\ current' = Len(calls')
             /\ current' \in Calls
    <3>1. UNCHANGED <<up, crashes>> /\ current = None /\ up /\ Next1 \in Nat
      BY <1>1 DEF EachMessage, Kinds, Next1
    <3>2. /\ DOMAIN calls' = DOMAIN calls \cup {current'} /\ current' \notin DOMAIN calls
          /\ calls'[current'] = Next1 /\ \A c \in DOMAIN calls : calls'[c] = calls[c]
      BY <2>2, <3>1 DEF Kinds
    <3>3. ASSUME NEW k \in Nat
          PROVE  Cardinality(Made(k))' <= crashes' + IF Met(k)' THEN 1 ELSE 0
      <4>1. CASE k = Next1
        <5>1. Made(k)' = Made(k) \cup {current'} /\ current' \notin Made(k)
          BY <3>2, <4>1 DEF Made
        <5>2. Cardinality(Made(k)') = Cardinality(Made(k)) + 1
          BY <5>1, MadeFinite, FS_AddElement
        <5>3. ~Met(k)
          BY <3>1, <4>1 DEF Met, Next1, Kinds
        <5>4. Met(k)'
          BY <2>2, <3>1, <3>2, <4>1, NoneAssumption DEF Met
        <5> QED
          BY <3>1, <5>2, <5>3, <5>4, MadeFinite DEF Counted
      <4>2. CASE k # Next1
        <5>1. Made(k)' = Made(k)
          BY <3>2, <4>2 DEF Made
        <5>2. Met(k) => Met(k)'
          BY <2>2, <3>1 DEF Met
        <5> QED
          BY <3>1, <5>1, <5>2, MadeFinite DEF Counted
      <4> QED
        BY <4>1, <4>2
    <3> QED
      BY <3>1, <3>3 DEF Counted
  <2> QED
    BY <1>1, <2>1, <2>2 DEF EachMessage
<1>2. CASE Crash
  <2>1. crashes' = crashes + 1 /\ calls' = calls
    BY <1>2 DEF Crash
  <2>2. ASSUME NEW k \in Nat
        PROVE  Cardinality(Made(k))' <= crashes' + IF Met(k)' THEN 1 ELSE 0
    <3>1. Made(k)' = Made(k)
      BY <2>1 DEF Made
    <3> QED
      BY <2>1, <3>1, MadeFinite DEF Counted
  <2> QED
    BY <2>1, <2>2 DEF Counted
<1>3. CASE StartConsuming
  BY <1>3, CountedKept DEF StartConsuming, Met
<1>4. CASE HandleEventReturns
  <2>1. \A k \in Nat : Met(k) => Met(k)'
    BY <1>4 DEF HandleEventReturns, Resolve, AtHand, Met, Kinds, Next1
  <2> QED
    BY <1>4, <2>1, CountedKept DEF HandleEventReturns
<1>5. CASE UNCHANGED <<consumer, crashes>>
  BY <1>5, CountedKept DEF consumer, Met
<1> QED
  BY <1>1, <1>2, <1>3, <1>4, <1>5 DEF Next, Produce, ServiceStep, Commit, vars

\* However events fail, a message leads to a second call only after a death of
\* the process: eachMessage returns, whatever handleEvent meets (kafka.handler.ts:63).
THEOREM RepeatsAreDeaths == Spec => []RepeatsNeedCrashes
<1>1. ConsumerInv /\ Counted => RepeatsNeedCrashes
  <2> SUFFICES ASSUME ConsumerInv, Counted, NEW k \in 1 .. Len(log)
               PROVE  Cardinality(Made(k)) <= crashes + 1
    BY DEF RepeatsNeedCrashes, Made
  <2>1. k \in Nat
    OBVIOUS
  <2> QED
    BY <2>1, MadeFinite DEF ConsumerInv, Counted
<1> QED
  BY <1>1, ConsumerInit, ConsumerStays, CountedInit, CountedStep, PTL DEF Spec

\* The consumer begins a call, awaits it, and may die with it, and does nothing
\* else to the service (kafka.handler.ts:63): what EventConsumer supposes the
\* service to do is no more than SendContract, which NotificationService implements.
THEOREM ContractIsKept == Spec => CSpec
<1>1. Init => CInit
  BY DEF Init
<1>2. Others /\ [Next]_vars => [CNext]_cvars
  <2> SUFFICES ASSUME Others, [Next]_vars PROVE [CNext]_cvars
    OBVIOUS
  <2>1. CASE ServiceStep
    <3>1. current \in Calls
      BY <2>1 DEF Others, ServiceStep
    <3> QED
      BY <2>1, <3>1 DEF ServiceStep, CNext
  <2>2. CASE EachMessage
    BY <2>2 DEF EachMessage, CNext
  <2>3. CASE Crash
    BY <2>3 DEF Crash, CNext
  <2>4. CASE UNCHANGED cvars
    BY <2>4
  <2> QED
    BY <2>1, <2>2, <2>3, <2>4
    DEF Next, vars, Produce, StartConsuming, HandleEventReturns, Commit
<1> QED
  BY <1>1, <1>2, OthersInit, OthersStep, PTL DEF Spec, CSpec

-----------------------------------------------------------------------------
(* The whole: each part keeps its specification. *)

\* What is proved of a worker, for the messages that are the calls.
WP == INSTANCE DeliveryWorkerProofs WITH Messages <- Calls, Malformed <- {}

\* They are proved of an instance of their own, which has the same actions.
LEMMA SameActions ==
  /\ \A m : Worker!SendToQueue(m) <=> WP!SendToQueue(m)
  /\ Worker!OutboxReachesQueue <=> WP!OutboxReachesQueue
  /\ Worker!Deliver <=> WP!Deliver
  /\ Worker!Callback <=> WP!Callback
  /\ Worker!BrokerGetsReply <=> WP!BrokerGetsReply
  /\ Worker!WorkerStart <=> WP!WorkerStart
  /\ Worker!ConsumerCancelled <=> WP!ConsumerCancelled
  /\ Worker!ConnectionCloses <=> WP!ConnectionCloses
  /\ Worker!ProcessDies <=> WP!ProcessDies
<1>1. /\ Worker!vars = WP!vars /\ Worker!history = WP!history
      /\ Worker!client = WP!client /\ Worker!broker = WP!broker
  BY DEF Worker!vars, WP!vars, Worker!broker, WP!broker, Worker!client, WP!client,
         Worker!history, WP!history
<1>2. \A f : Worker!Range(f) = WP!Range(f)
  BY DEF Worker!Range, WP!Range
<1>3. \A m : Worker!SendToQueue(m) <=> WP!SendToQueue(m)
  BY <1>2 DEF Worker!SendToQueue, WP!SendToQueue, Worker!broker, WP!broker, Worker!client, WP!client
<1>4. Worker!OutboxReachesQueue <=> WP!OutboxReachesQueue
  BY DEF Worker!OutboxReachesQueue, WP!OutboxReachesQueue, Worker!client, WP!client,
         Worker!history, WP!history
<1>5. Worker!Deliver <=> WP!Deliver
  BY DEF Worker!Deliver, WP!Deliver, Worker!history, WP!history
<1>6. Worker!Callback <=> WP!Callback
  BY DEF Worker!Callback, WP!Callback, Worker!Process, WP!Process, Worker!AckOrNack,
         WP!AckOrNack, Worker!broker, WP!broker
<1>7. Worker!BrokerGetsReply <=> WP!BrokerGetsReply
  <2>1. \A s, k : Worker!RemoveAt(s, k) = WP!RemoveAt(s, k)
    BY DEF Worker!RemoveAt, WP!RemoveAt
  <2> QED
    BY <2>1 DEF Worker!BrokerGetsReply, WP!BrokerGetsReply, Worker!history, WP!history
<1>8. /\ Worker!WorkerStart <=> WP!WorkerStart
      /\ Worker!ConsumerCancelled <=> WP!ConsumerCancelled
  BY DEF Worker!WorkerStart, WP!WorkerStart, Worker!ConsumerCancelled, WP!ConsumerCancelled,
         Worker!broker, WP!broker, Worker!client, WP!client, Worker!history, WP!history
<1>9. Worker!ConnectionCloses <=> WP!ConnectionCloses
  BY DEF Worker!ConnectionCloses, WP!ConnectionCloses, Worker!Requeue, WP!Requeue,
         Worker!history, WP!history
<1>10. Worker!ProcessDies <=> WP!ProcessDies
  BY <1>2 DEF Worker!ProcessDies, WP!ProcessDies, Worker!Requeue, WP!Requeue
<1> QED
  BY <1>3, <1>4, <1>5, <1>6, <1>7, <1>8, <1>9, <1>10

LEMMA SameWorker ==
  /\ Worker!Init <=> WP!Init
  /\ [Worker!Next]_Worker!vars <=> [WP!Next]_WP!vars
<1>1. Worker!Init <=> WP!Init
  BY DEF Worker!Init, WP!Init
<1>2. Worker!Next <=> WP!Next
  BY SameActions DEF Worker!Next, WP!Next, Worker!Progress, WP!Progress
<1>3. (UNCHANGED Worker!vars) <=> (UNCHANGED WP!vars)
  BY DEF Worker!vars, WP!vars, Worker!broker, WP!broker, Worker!client, WP!client,
         Worker!history, WP!history
<1> QED
  BY <1>1, <1>2, <1>3

LEMMA ConsumerPart == [DispatchNext]_dispatch => [Next]_vars
BY DEF DispatchNext, dispatch, Publish, ConsumerStep, WorkerStep, ProcessDies, Next

LEMMA WorkerPart == Others /\ [DispatchNext]_dispatch => [Worker!Next]_Worker!vars
<1> SUFFICES ASSUME Others, [DispatchNext]_dispatch PROVE [Worker!Next]_Worker!vars
  OBVIOUS
<1>1. CASE Publish
  <2>1. current \in Calls /\ Worker!SendToQueue(current)
    BY <1>1 DEF Publish, Others
  <2> QED
    BY <2>1 DEF Worker!Next
<1>2. CASE WorkerStep \/ ProcessDies
  BY <1>2 DEF WorkerStep, ProcessDies, Worker!Next, Worker!Progress
<1>3. CASE ConsumerStep \/ UNCHANGED dispatch
  <2>1. UNCHANGED delivery
    BY <1>3 DEF ConsumerStep, dispatch
  <2> QED
    BY <2>1 DEF delivery, Worker!vars, Worker!broker, Worker!client, Worker!history
<1> QED
  BY <1>1, <1>2, <1>3 DEF DispatchNext

\* What holds of the parts.
PartsInv == ConsumerInv /\ Others /\ Counted /\ WP!Inv

LEMMA PartsInit == DispatchInit => PartsInv
<1> SUFFICES ASSUME DispatchInit PROVE PartsInv
  OBVIOUS
<1>1. Init /\ WP!Init
  BY SameWorker DEF DispatchInit
<1>2. {} \subseteq Calls /\ MaxLosses \in Nat
  BY MaxLossesAssumption
<1>3. WP!Inv
  BY <1>1, <1>2, WP!InvInit
<1> QED
  BY <1>1, <1>3, ConsumerInit, OthersInit, CountedInit DEF PartsInv

LEMMA PartsStep == PartsInv /\ [DispatchNext]_dispatch => PartsInv'
<1> SUFFICES ASSUME PartsInv, [DispatchNext]_dispatch PROVE PartsInv'
  OBVIOUS
<1>1. [Next]_vars /\ [WP!Next]_WP!vars
  BY ConsumerPart, WorkerPart, SameWorker DEF PartsInv
<1>2. {} \subseteq Calls /\ MaxLosses \in Nat
  BY MaxLossesAssumption
<1>3. WP!Inv'
  BY <1>1, <1>2, WP!InvNext DEF PartsInv
<1>4. ConsumerInv' /\ Others' /\ Counted'
  BY <1>1, ConsumerStays, OthersStep, CountedStep DEF PartsInv
<1> QED
  BY <1>3, <1>4 DEF PartsInv

\* To the consumer, and to the service as it sees it, the worker is not there.
THEOREM ConsumerIsKept == DispatchSpec => Spec
<1>1. DispatchInit => Init
  BY DEF DispatchInit
<1> QED
  BY <1>1, ConsumerPart, PTL DEF DispatchSpec, Spec

\* The worker gets from the service what any publisher may send, each message
\* once, and dies with it.
THEOREM WorkerIsKept == DispatchSpec => Worker!Spec
<1>1. DispatchInit => Worker!Init
  BY DEF DispatchInit
<1>2. PartsInv /\ [DispatchNext]_dispatch => [Worker!Next]_Worker!vars
  BY WorkerPart DEF PartsInv
<1> QED
  BY <1>1, <1>2, PartsInit, PartsStep, PTL DEF DispatchSpec, Worker!Spec

-----------------------------------------------------------------------------
(* What is processed has been asked for and saved. *)

\* Every message that the worker's part has been handed is one the service has queued.
Handed == /\ sent = queued
          /\ \A i \in DOMAIN queued : queued[i] \in saved /\ queued[i] \in DOMAIN calls

\* A call is made for a message of the partition that asks for it.
Asked == \A c \in DOMAIN calls : calls[c] \in DOMAIN log /\ Notifies(log[calls[c]])

LEMMA AskedStep == ConsumerInv /\ Asked /\ [Next]_vars => Asked'
<1> SUFFICES ASSUME ConsumerInv, Asked, [Next]_vars PROVE Asked'
  OBVIOUS
<1> USE DEF ConsumerInv
<1>1. ASSUME NEW m \in Messages, Produce(m) PROVE Asked'
  <2>1. calls' = calls /\ \A k \in DOMAIN log : k \in DOMAIN log' /\ log'[k] = log[k]
    BY <1>1 DEF Produce, consumer, Kinds
  <2> QED
    BY <2>1 DEF Asked
<1>2. CASE EachMessage
  <2>1. log' = log /\ Next1 \in DOMAIN log
    BY <1>2 DEF EachMessage, kafka, Kinds, Next1
  <2>2. CASE calls' = calls
    BY <2>1, <2>2 DEF Asked
  <2>3. CASE calls' = Append(calls, Next1) /\ Notifies(log[Next1])
    <3>1. \A c \in DOMAIN calls' : calls'[c] = Next1 \/ (c \in DOMAIN calls /\ calls'[c] = calls[c])
      BY <2>3 DEF Kinds
    <3> QED
      BY <2>1, <2>3, <3>1 DEF Asked
  <2> QED
    BY <1>2, <2>2, <2>3 DEF EachMessage
<1>3. CASE log' = log /\ calls' = calls
  BY <1>3 DEF Asked
<1> QED
  BY <1>1, <1>2, <1>3
  DEF Next, vars, StartConsuming, ServiceStep, HandleEventReturns, Commit, Crash, kafka, consumer

\* No step forgets a call or a saved notification.
LEMMA NothingForgotten ==
  ASSUME ConsumerInv, [Next]_vars
  PROVE  /\ saved \subseteq saved'
         /\ \A c \in DOMAIN calls : c \in DOMAIN calls' /\ calls'[c] = calls[c]
<1>1. saved \subseteq saved'
  BY DEF Next, vars, StartConsuming, Produce, EachMessage, ServiceStep, HandleEventReturns,
         Commit, Crash, cvars, Ask, Save, Queue, GiveUp, Throws, Die
<1>2. calls' = calls \/ calls' = Append(calls, Next1)
  BY DEF Next, vars, consumer, StartConsuming, Produce, EachMessage, ServiceStep,
         HandleEventReturns, Commit, Crash
<1>3. calls \in Seq(Nat) /\ Next1 \in Nat
  BY DEF ConsumerInv, Kinds, Next1
<1>4. \A c \in DOMAIN calls : c \in DOMAIN calls' /\ calls'[c] = calls[c]
  BY <1>2, <1>3
<1> QED
  BY <1>1, <1>4

LEMMA HandedStep == PartsInv /\ Handed /\ [DispatchNext]_dispatch => Handed'
<1> SUFFICES ASSUME PartsInv, Handed, [DispatchNext]_dispatch PROVE Handed'
  OBVIOUS
<1>1. ConsumerInv /\ Others /\ [Next]_vars
  BY ConsumerPart DEF PartsInv
<1>2. CASE Publish
  <2>1. /\ current \in saved /\ current \in DOMAIN calls /\ current \in Calls
        /\ queued' = Append(queued, current)
    BY <1>1, <1>2
    DEF Publish, ServiceStep, Save, Queue, GiveUp, Throws, ConsumerInv, AtHand, Others
  <2>2. sent' = Append(sent, current)
    BY <1>2 DEF Publish, Worker!SendToQueue
  <2>3. \A i \in DOMAIN queued' : queued'[i] = current \/ (i \in DOMAIN queued /\ queued'[i] = queued[i])
    BY <1>1, <2>1 DEF Others
  <2> QED
    BY <1>1, <2>1, <2>2, <2>3, NothingForgotten DEF Handed
<1>3. CASE ~Publish
  <2>1. queued' = queued
    BY <1>3 DEF DispatchNext, dispatch, ConsumerStep, WorkerStep, ProcessDies, vars, cvars,
                Produce, StartConsuming, EachMessage, HandleEventReturns, Commit, Crash, Ask, Die
  <2>2. sent' = sent
    BY <1>3 DEF DispatchNext, dispatch, ConsumerStep, WorkerStep, ProcessDies, delivery,
                Worker!OutboxReachesQueue, Worker!Deliver, Worker!Callback,
                Worker!BrokerGetsReply, Worker!WorkerStart, Worker!ConsumerCancelled,
                Worker!ConnectionCloses, Worker!ProcessDies, Worker!history
  <2> QED
    BY <1>1, <2>1, <2>2, NothingForgotten DEF Handed
<1> QED
  BY <1>2, <1>3

BackedInv == PartsInv /\ Asked /\ Handed

LEMMA BackedInit == DispatchInit => BackedInv
<1> SUFFICES ASSUME DispatchInit PROVE BackedInv
  OBVIOUS
<1>1. calls = <<>> /\ queued = <<>> /\ sent = <<>>
  BY DEF DispatchInit, Init, CInit, Worker!Init
<1>2. DOMAIN <<>> = {}
  OBVIOUS
<1> QED
  BY <1>1, <1>2, PartsInit DEF BackedInv, Asked, Handed

LEMMA BackedStep == BackedInv /\ [DispatchNext]_dispatch => BackedInv'
BY PartsStep, AskedStep, HandedStep, ConsumerPart DEF BackedInv, PartsInv

\* What has been processed has been handed over.
LEMMA DeliveredIsSent == ASSUME PartsInv PROVE Delivered \subseteq {sent[i] : i \in DOMAIN sent}
<1>1. WP!Range(processed) \subseteq WP!Range(sent)
  BY DEF PartsInv, WP!Inv, WP!Places
<1> QED
  BY <1>1 DEF Delivered, WP!Range

\* What a worker processes was asked for by an event (kafka.handler.ts:63) and saved before it
\* was published (notification.service.ts:80), through all that may be lost in between.
THEOREM WorkIsBacked == DispatchSpec => []ProcessedIsBacked
<1>1. BackedInv => ProcessedIsBacked
  <2> SUFFICES ASSUME BackedInv, NEW c \in Delivered
               PROVE  c \in saved /\ c \in DOMAIN calls /\ Notifies(log[calls[c]])
    BY DEF ProcessedIsBacked
  <2>1. PICK i \in DOMAIN sent : sent[i] = c
    BY DeliveredIsSent DEF BackedInv
  <2> QED
    BY <2>1 DEF BackedInv, Handed, Asked
<1> QED
  BY <1>1, BackedInit, BackedStep, PTL DEF DispatchSpec

-----------------------------------------------------------------------------
(* The order of the events, from one end to the other. *)

\* A call that was told "pending" is one whose message was handed over, and when a message is
\* handed over every event before its own has had a call that failed, or one handed over earlier.
Precedes(c, j) == verdict[c] \in {"failed", "error"} \/ \E i \in DOMAIN queued : i < j /\ queued[i] = c

Line ==
  /\ base <= Len(log)
  /\ \A c \in Calls : verdict[c] = "pending" => \E i \in DOMAIN queued : queued[i] = c
  /\ \A j \in DOMAIN queued : \A k \in base + 1 .. calls[queued[j]] - 1 :
       Notifies(log[k]) => \E c \in DOMAIN calls : calls[c] = k /\ Precedes(c, j)

\* What the consumer and the service do to the log, the verdicts and the queue.
LEMMA LogAndVerdicts ==
  ASSUME ConsumerInv, Others, Line, [Next]_vars
  PROVE  /\ \A k \in DOMAIN log : k \in DOMAIN log' /\ log'[k] = log[k]
         /\ base' \in Nat /\ base <= base' /\ base' <= Len(log')
         /\ \A c \in Calls : verdict[c] \in {"failed", "error"} => verdict'[c] = verdict[c]
<1>1. log \in Seq(Messages) /\ Len(log) \in Nat /\ base \in Nat /\ base <= Len(log)
  BY LenProperties DEF ConsumerInv, Kinds, Line
<1>2. log' = log \/ \E m \in Messages : log' = Append(log, m) /\ base' = base
  BY DEF Next, vars, kafka, Produce, StartConsuming, EachMessage, ServiceStep,
         HandleEventReturns, Commit, Crash
<1>3. base' \in {base, Len(log)}
  BY DEF Next, vars, Produce, StartConsuming, EachMessage, ServiceStep, HandleEventReturns,
         Commit, Crash
<1>4. /\ \A k \in DOMAIN log : k \in DOMAIN log' /\ log'[k] = log[k]
      /\ base' \in Nat /\ base <= base' /\ base' <= Len(log')
  <2>1. CASE log' = log
    BY <1>1, <1>3, <2>1
  <2>2. CASE \E m \in Messages : log' = Append(log, m) /\ base' = base
    <3>1. PICK m \in Messages : log' = Append(log, m) /\ base' = base
      BY <2>2
    <3>2. Len(log') = Len(log) + 1 /\ \A k \in DOMAIN log : k \in DOMAIN log' /\ log'[k] = log[k]
      BY <1>1, <3>1
    <3> QED
      BY <1>1, <3>1, <3>2
  <2> QED
    BY <1>2, <2>1, <2>2
<1>5. \/ UNCHANGED cvars
      \/ Die
      \/ \E c \in Calls : Ask(c)
      \/ \E c : Save(c) \/ Queue(c) \/ GiveUp(c) \/ Throws(c)
  BY DEF Next, vars, Produce, StartConsuming, EachMessage, ServiceStep, HandleEventReturns,
         Commit, Crash
<1>6. \A c \in Calls : verdict[c] \in {"failed", "error"} => verdict'[c] = verdict[c]
  BY <1>5, VerdictStep DEF ConsumerInv
<1> QED
  BY <1>4, <1>6

\* What precedes a message handed over goes on preceding it.
LEMMA LineKept ==
  ASSUME BackedInv, Line, [Next]_vars,
         \A i \in DOMAIN queued : i \in DOMAIN queued' /\ queued'[i] = queued[i],
         NEW j \in DOMAIN queued, NEW k \in base' + 1 .. calls'[queued[j]] - 1,
         Notifies(log'[k])
  PROVE  \E c \in DOMAIN calls' : calls'[c] = k /\ Precedes(c, j)'
<1>1. ConsumerInv /\ Others /\ queued[j] \in DOMAIN calls
  BY DEF BackedInv, PartsInv, Handed
<1>2. calls'[queued[j]] = calls[queued[j]] /\ calls[queued[j]] \in DOMAIN log
  BY <1>1, NothingForgotten DEF BackedInv, Asked
<1>3. /\ \A n \in DOMAIN log : n \in DOMAIN log' /\ log'[n] = log[n]
      /\ base' \in Nat /\ base <= base'
      /\ \A c \in Calls : verdict[c] \in {"failed", "error"} => verdict'[c] = verdict[c]
  BY <1>1, LogAndVerdicts
<1>4. base \in Nat /\ DOMAIN log = 1 .. Len(log) /\ Len(log) \in Nat /\ DOMAIN calls \subseteq Calls
  BY <1>1, LenProperties DEF ConsumerInv, Kinds
<1>5. k \in base + 1 .. calls[queued[j]] - 1 /\ k \in DOMAIN log
  <2>1. k \in base' + 1 .. calls[queued[j]] - 1
    BY <1>2
  <2>2. calls[queued[j]] \in Nat /\ calls[queued[j]] <= Len(log)
    BY <1>2, <1>4
  <2>3. \A a, b, n, l \in Nat : a <= b /\ n <= l /\ k \in b + 1 .. n - 1 =>
          k \in a + 1 .. n - 1 /\ k \in 1 .. l
    OBVIOUS
  <2> QED
    BY <1>3, <1>4, <2>1, <2>2, <2>3
<1>6. Notifies(log[k])
  BY <1>3, <1>5
<1>7. PICK c \in DOMAIN calls : calls[c] = k /\ Precedes(c, j)
  BY <1>5, <1>6 DEF Line
<1>8. Precedes(c, j)'
  BY <1>3, <1>4, <1>7 DEF Precedes
<1>9. c \in DOMAIN calls' /\ calls'[c] = k
  BY <1>1, <1>7, NothingForgotten
<1> QED
  BY <1>8, <1>9

\* The service hands over the message of the call that is awaited: all the events before its own
\* have settled.
LEMMA LineGrows ==
  ASSUME BackedInv, Line, ServiceStep, queued' = Append(queued, current),
         verdict' = [verdict EXCEPT ![current] = "pending"]
  PROVE  Line'
<1>1. ConsumerInv /\ Others /\ [Next]_vars
  BY DEF BackedInv, PartsInv, Next
<1>2. /\ current \in Calls /\ current # None /\ queued \in Seq(Calls)
      /\ up /\ current \in DOMAIN calls /\ calls[current] = Next1
      /\ UNCHANGED <<log, calls, base>>
  BY <1>1 DEF Others, ServiceStep, ConsumerInv, AtHand, kafka, consumer
<1>3. /\ DOMAIN queued' = DOMAIN queued \cup {Len(queued) + 1}
      /\ queued'[Len(queued) + 1] = current
      /\ \A i \in DOMAIN queued : i < Len(queued) + 1 /\ queued'[i] = queued[i]
  BY <1>2
<1>4. \A c \in Calls : verdict'[c] = IF c = current THEN "pending" ELSE verdict[c]
  BY <1>1 DEF ConsumerInv, Kinds
<1>5. \A c \in Calls : verdict'[c] = "pending" => \E i \in DOMAIN queued' : queued'[i] = c
  BY <1>3, <1>4 DEF Line
<1>6. ASSUME NEW j, j = Len(queued) + 1, NEW k \in base + 1 .. calls[current] - 1, Notifies(log[k])
      PROVE  \E c \in DOMAIN calls' : calls'[c] = k /\ Precedes(c, j)'
  <2>1. Settled(k)
    BY <1>1, <1>2 DEF ConsumerInv, Kinds, SettledInOrder, Next1
  <2>2. PICK c \in DOMAIN calls : calls[c] = k /\ verdict[c] \in {"pending", "failed", "error"}
    BY <1>6, <2>1 DEF Settled
  <2>3. c \in Calls /\ verdict'[c] \in {"pending", "failed", "error"}
    BY <1>1, <1>4, <2>2 DEF ConsumerInv, Kinds
  <2>4. CASE verdict[c] = "pending"
    <3>1. PICK i \in DOMAIN queued : queued[i] = c
      BY <2>3, <2>4 DEF Line
    <3> QED
      BY <1>2, <1>3, <1>6, <2>2, <3>1 DEF Precedes
  <2>5. CASE verdict[c] \in {"failed", "error"}
    <3>1. verdict'[c] = verdict[c]
      BY <1>1, <2>3, <2>5, LogAndVerdicts
    <3> QED
      BY <1>2, <2>2, <2>5, <3>1 DEF Precedes
  <2> QED
    BY <2>2, <2>4, <2>5
<1>7. ASSUME NEW j \in DOMAIN queued', NEW k \in base' + 1 .. calls'[queued'[j]] - 1,
             Notifies(log'[k])
      PROVE  \E c \in DOMAIN calls' : calls'[c] = k /\ Precedes(c, j)'
  <2>1. CASE j \in DOMAIN queued
    BY <1>1, <1>3, <1>7, <2>1, LineKept
  <2>2. CASE j = Len(queued) + 1
    <3>1. k \in base + 1 .. calls[current] - 1 /\ Notifies(log[k])
      BY <1>2, <1>3, <1>7, <2>2
    <3> QED
      BY <1>6, <2>2, <3>1
  <2> QED
    BY <1>3, <2>1, <2>2
<1>8. base' <= Len(log')
  BY <1>1, LogAndVerdicts
<1> QED
  BY <1>5, <1>7, <1>8 DEF Line

LEMMA LineStep == BackedInv /\ Line /\ [DispatchNext]_dispatch => Line'
<1> SUFFICES ASSUME BackedInv, Line, [DispatchNext]_dispatch PROVE Line'
  OBVIOUS
<1>1. ConsumerInv /\ Others /\ [Next]_vars
  BY ConsumerPart DEF BackedInv, PartsInv
<1>2. \/ /\ ServiceStep /\ queued' = Append(queued, current)
         /\ verdict' = [verdict EXCEPT ![current] = "pending"]
      \/ /\ queued' = queued
         /\ \A c \in Calls : verdict'[c] = "pending" => verdict[c] = "pending"
  <2>1. CASE ServiceStep
    BY <1>1, <2>1 DEF ServiceStep, Save, Queue, GiveUp, Throws, ConsumerInv, Kinds
  <2>2. CASE EachMessage \/ Crash \/ UNCHANGED cvars
    BY <1>1, <2>2 DEF EachMessage, Crash, cvars, Ask, Die, ConsumerInv, Kinds
  <2> QED
    BY <1>1, <2>1, <2>2 DEF Next, vars, Produce, StartConsuming, HandleEventReturns, Commit
<1>3. CASE queued' = queued /\ \A c \in Calls : verdict'[c] = "pending" => verdict[c] = "pending"
  <2>1. base' <= Len(log')
    BY <1>1, LogAndVerdicts
  <2>2. \A c \in Calls : verdict'[c] = "pending" => \E i \in DOMAIN queued' : queued'[i] = c
    BY <1>3 DEF Line
  <2>3. ASSUME NEW j \in DOMAIN queued', NEW k \in base' + 1 .. calls'[queued'[j]] - 1,
               Notifies(log'[k])
        PROVE  \E c \in DOMAIN calls' : calls'[c] = k /\ Precedes(c, j)'
    BY <1>1, <1>3, <2>3, LineKept
  <2> QED
    BY <2>1, <2>2, <2>3 DEF Line
<1> QED
  BY <1>2, <1>3, LineGrows

\* A customer first hears of the events in the order of their partition (kafka.consumer.ts:53,
\* where the handler is awaited), through whatever deaths and lost channels, unless a call failed
\* or its message died before RabbitMQ had it.
THEOREM EventsAreHeardInOrder == DispatchSpec => []EventsInOrder
<1>1. DispatchInit => Line
  <2> SUFFICES ASSUME DispatchInit PROVE Line
    OBVIOUS
  <2>1. base = 0 /\ log = <<>> /\ queued = <<>> /\ \A c \in Calls : verdict[c] = "idle"
    BY DEF DispatchInit, Init, CInit
  <2> QED
    BY <2>1 DEF Line
<1>2. BackedInv /\ Line => EventsInOrder
  <2> SUFFICES ASSUME BackedInv, Line, NEW j \in DOMAIN processed,
                      NEW k \in base + 1 .. calls[processed[j]] - 1, Notifies(log[k])
               PROVE  \E c \in CallsFor(k) : \/ verdict[c] \in {"failed", "error"}
                                             \/ c \in lost
                                             \/ \E i \in 1 .. j - 1 : processed[i] = c
    BY DEF EventsInOrder
  <2>1. sent = queued /\ WP!FirstInOrder /\ processed \in Seq(Calls)
    BY DEF BackedInv, Handed, PartsInv, WP!Inv, WP!Shape, WP!TypeOK
  <2>2. PICK p \in DOMAIN sent : sent[p] = processed[j]
    BY DeliveredIsSent DEF BackedInv, Delivered
  <2>3. PICK c \in DOMAIN calls : calls[c] = k /\ Precedes(c, p)
    BY <2>1, <2>2 DEF Line
  <2>4. c \in CallsFor(k)
    BY <2>3 DEF CallsFor
  <2>5. CASE verdict[c] \notin {"failed", "error"} /\ c \notin lost
    <3>1. PICK q \in DOMAIN sent : q < p /\ sent[q] = c
      BY <2>1, <2>3, <2>5 DEF Precedes
    <3>2. sent[p] \in WP!Range(processed) /\ sent[q] \notin lost \cup {}
      BY <2>2, <2>5, <3>1 DEF WP!Range
    <3>3. PICK i \in DOMAIN processed :
            processed[i] = c /\ processed[j] \notin WP!Range(SubSeq(processed, 1, i))
      BY <2>1, <2>2, <3>1, <3>2 DEF WP!FirstInOrder
    <3>4. DOMAIN processed = 1 .. Len(processed) /\ Len(processed) \in Nat
      BY <2>1, LenProperties
    <3>5. i < j
      <4> SUFFICES ASSUME j <= i PROVE FALSE
        BY <3>4
      <4>1. /\ j \in DOMAIN SubSeq(processed, 1, i)
            /\ SubSeq(processed, 1, i)[j] = processed[j]
        BY <2>1, <3>4
      <4> QED
        BY <3>3, <4>1 DEF WP!Range
    <3>6. i \in 1 .. j - 1
      BY <3>4, <3>5
    <3> QED
      BY <2>4, <3>3, <3>6
  <2> QED
    BY <2>4, <2>5
<1> QED
  BY <1>1, <1>2, BackedInit, BackedStep, LineStep, PTL DEF DispatchSpec

-----------------------------------------------------------------------------
(* Repeats, of Kafka's and of RabbitMQ's making. *)

\* How often has the customer heard of message k of the partition?
Heard(k) == {i \in DOMAIN processed : calls[processed[i]] = k}

\* The calls for k that the worker will process if nothing more is lost: their message is under
\* way, or they are being awaited and may still publish it.
Coming(k) == {c \in Made(k) : \/ c \in WP!Range(WP!Ahead)
                              \/ c = current /\ c \notin WP!Range(sent)}

\* The call that this life of the process may still make for k.
Owed(k) == IF Met(k) THEN 0 ELSE 1

\* What the customer has heard, and has yet to hear if nothing more is lost.
Bounded ==
  /\ crashes <= losses
  /\ \A k \in Nat : 2 * (Cardinality(Heard(k)) + Cardinality(Coming(k)) + Owed(k))
                      <= (losses + 1) * (losses + 2)

LEMMA NextTriangle ==
  \A n \in Nat : /\ (n + 1) * (n + 2) \in Nat /\ (n + 1 + 1) * (n + 1 + 2) \in Nat
                 /\ (n + 1 + 1) * (n + 1 + 2) = (n + 1) * (n + 2) + 2 * (n + 2)
OBVIOUS

LEMMA HeardAndComing ==
  ASSUME PartsInv, NEW k \in Nat
  PROVE  /\ IsFiniteSet(Heard(k)) /\ Cardinality(Heard(k)) \in Nat
         /\ IsFiniteSet(Coming(k)) /\ Cardinality(Coming(k)) \in Nat
         /\ IsFiniteSet(Made(k)) /\ Cardinality(Made(k)) \in Nat
         /\ losses \in Nat /\ crashes \in Nat /\ Owed(k) \in {0, 1}
<1>1. processed \in Seq(Calls) /\ losses \in Nat
  BY MaxLossesAssumption DEF PartsInv, WP!Inv, WP!Shape, WP!TypeOK
<1>2. IsFiniteSet(DOMAIN processed) /\ Heard(k) \in SUBSET DOMAIN processed
  BY <1>1, FS_Interval DEF Heard
<1>3. IsFiniteSet(Made(k)) /\ Coming(k) \in SUBSET Made(k)
  BY MadeFinite DEF PartsInv, ConsumerInv, Coming
<1> QED
  BY <1>1, <1>2, <1>3, FS_Subset, FS_CardinalityType DEF PartsInv, Counted, Owed

\* Less is coming: the bound is kept.
LEMMA FewerComing ==
  ASSUME PartsInv, Bounded, losses' \in {losses, losses + 1}, crashes' = crashes,
         \A k \in Nat : /\ Heard(k)' = Heard(k) /\ Coming(k)' \subseteq Coming(k)
                        /\ Met(k) => Met(k)'
  PROVE  Bounded'
<1>1. ASSUME NEW k \in Nat
      PROVE  2 * (Cardinality(Heard(k)') + Cardinality(Coming(k)') + Owed(k)')
               <= (losses' + 1) * (losses' + 2)
  <2>1. Cardinality(Coming(k)') <= Cardinality(Coming(k)) /\ Cardinality(Coming(k)') \in Nat
    BY HeardAndComing, FS_Subset, FS_CardinalityType
  <2>2. Owed(k)' <= Owed(k) /\ Owed(k)' \in {0, 1}
    BY DEF Owed
  <2>3. (losses + 1) * (losses + 2) <= (losses' + 1) * (losses' + 2)
    BY HeardAndComing, NextTriangle
  <2> DEFINE b == (losses + 1) * (losses + 2)
             d == (losses' + 1) * (losses' + 2)
  <2>4. b \in Nat /\ d \in Nat
    BY HeardAndComing, NextTriangle
  <2>5. 2 * (Cardinality(Heard(k)) + Cardinality(Coming(k)) + Owed(k)) <= b
    BY DEF Bounded
  <2> HIDE DEF b, d
  <2>6. b <= d
    BY <2>3 DEF b, d
  <2>7. 2 * (Cardinality(Heard(k)) + Cardinality(Coming(k)') + Owed(k)') <= d
    BY <2>1, <2>2, <2>4, <2>5, <2>6, HeardAndComing
  <2> QED
    BY <2>7 DEF d
<1>2. crashes' <= losses'
  BY HeardAndComing DEF Bounded, PartsInv, Counted
<1> QED
  BY <1>1, <1>2 DEF Bounded

\* Everything for k may come again, and Kafka may give k again as well.
LEMMA AllComesAgain ==
  ASSUME PartsInv, Bounded, losses' = losses + 1, crashes' \in {crashes, crashes + 1},
         calls' = calls, processed' = processed
  PROVE  Bounded'
<1>1. ASSUME NEW k \in Nat
      PROVE  2 * (Cardinality(Heard(k)') + Cardinality(Coming(k)') + Owed(k)')
               <= (losses' + 1) * (losses' + 2)
  <2>1. Heard(k)' = Heard(k) /\ Coming(k)' \subseteq Made(k)
    BY DEF Heard, Coming, Made
  <2>2. Cardinality(Coming(k)') <= Cardinality(Made(k)) /\ Cardinality(Coming(k)') \in Nat
    BY <2>1, HeardAndComing, FS_Subset, FS_CardinalityType
  <2>3. Cardinality(Made(k)) <= losses + 1 - Owed(k)
    <3>1. Cardinality(Made(k)) <= crashes + IF Met(k) THEN 1 ELSE 0
      BY DEF PartsInv, Counted
    <3> QED
      BY <3>1, HeardAndComing DEF Bounded, Owed
  <2>4. Owed(k)' \in {0, 1}
    BY DEF Owed
  <2> DEFINE b == (losses + 1) * (losses + 2)
             d == (losses' + 1) * (losses' + 2)
  <2>5. b \in Nat /\ d \in Nat /\ d = b + 2 * (losses + 2)
    BY HeardAndComing, NextTriangle
  <2>6. 2 * (Cardinality(Heard(k)) + Cardinality(Coming(k)) + Owed(k)) <= b
    BY DEF Bounded
  <2> HIDE DEF b, d
  <2>7. 2 * (Cardinality(Heard(k)) + Cardinality(Coming(k)') + Owed(k)') <= d
    BY <2>2, <2>3, <2>4, <2>5, <2>6, HeardAndComing
  <2> QED
    BY <2>1, <2>7 DEF d
<1>2. crashes' <= losses'
  BY HeardAndComing DEF Bounded, PartsInv, Counted
<1> QED
  BY <1>1, <1>2 DEF Bounded

\* A call keeps the message that it is for.
LEMMA HeardKept ==
  ASSUME BackedInv, [Next]_vars, processed' = processed, NEW k \in Nat
  PROVE  Heard(k)' = Heard(k)
<1>1. \A i \in DOMAIN processed : processed[i] \in DOMAIN calls
  BY DeliveredIsSent DEF BackedInv, Handed, Delivered
<1>2. \A c \in DOMAIN calls : calls'[c] = calls[c]
  BY NothingForgotten DEF BackedInv, PartsInv
<1> QED
  BY <1>1, <1>2 DEF Heard

\* The steps of the consumer and the service that publish nothing.
LEMMA ConsumerBounded ==
  ASSUME BackedInv, Bounded, ConsumerStep \/ UNCHANGED dispatch
  PROVE  Bounded'
<1>1. ConsumerInv /\ Others /\ [Next]_vars /\ UNCHANGED delivery
  BY ConsumerPart DEF BackedInv, PartsInv, ConsumerStep, DispatchNext, dispatch
<1>2. UNCHANGED <<WP!Ahead, WP!Range(WP!Ahead), WP!Range(sent), losses, processed>>
  BY <1>1 DEF delivery, WP!Ahead
<1>3. \A k \in Nat : Heard(k)' = Heard(k)
  BY <1>1, <1>2, HeardKept
<1>4. CASE EachMessage /\ calls' # calls
  <2>1. /\ calls' = Append(calls, Next1) /\ current' = Len(calls') /\ current' \in Calls
        /\ current = None /\ up /\ UNCHANGED <<up, position, crashes>>
        /\ calls \in Seq(Nat) /\ Next1 \in Nat
    BY <1>1, <1>4 DEF EachMessage, ConsumerInv, Kinds, Next1
  <2>2. /\ DOMAIN calls' = DOMAIN calls \cup {current'} /\ current' \notin DOMAIN calls
        /\ calls'[current'] = Next1 /\ \A c \in DOMAIN calls : calls'[c] = calls[c]
        /\ None \notin DOMAIN calls
    BY <1>1, <2>1, NoneAssumption DEF ConsumerInv, Kinds
  <2>3. ASSUME NEW k \in Nat
        PROVE  2 * (Cardinality(Heard(k)') + Cardinality(Coming(k)') + Owed(k)')
                 <= (losses + 1) * (losses + 2)
    <3>1. CASE k = Next1
      <4>1. Coming(k)' \subseteq Coming(k) \cup {current'}
        BY <1>2, <2>2 DEF Coming, Made
      <4>2. /\ Cardinality(Coming(k)') <= Cardinality(Coming(k)) + 1
            /\ Cardinality(Coming(k)') \in Nat
        <5>1. /\ IsFiniteSet(Coming(k) \cup {current'})
              /\ Cardinality(Coming(k) \cup {current'}) <= Cardinality(Coming(k)) + 1
          <6>1. IsFiniteSet(Coming(k)) /\ Cardinality(Coming(k)) \in Nat
            BY HeardAndComing DEF BackedInv
          <6>2. ASSUME NEW x
                PROVE  /\ IsFiniteSet(Coming(k) \cup {x})
                       /\ Cardinality(Coming(k) \cup {x}) <= Cardinality(Coming(k)) + 1
            BY <6>1, FS_AddElement
          <6> QED
            BY <6>2
        <5>2. /\ Cardinality(Coming(k)') <= Cardinality(Coming(k) \cup {current'})
              /\ IsFiniteSet(Coming(k)')
          BY <4>1, <5>1, FS_Subset
        <5> QED
          BY <5>1, <5>2, FS_CardinalityType, HeardAndComing DEF BackedInv
      <4>3. Owed(k) = 1 /\ Owed(k)' = 0
        BY <1>1, <2>1, <2>2, <3>1, NoneAssumption DEF Owed, Met, Next1, ConsumerInv, Kinds
      <4> QED
        BY <1>3, <4>2, <4>3, HeardAndComing, NextTriangle DEF Bounded, BackedInv
    <3>2. CASE k # Next1
      <4>1. Coming(k)' \subseteq Coming(k)
        BY <1>2, <2>2, <3>2 DEF Coming, Made
      <4>2. Met(k) => Met(k)'
        BY <2>1 DEF Met
      <4>3. Cardinality(Coming(k)') <= Cardinality(Coming(k)) /\ Cardinality(Coming(k)') \in Nat
        BY <4>1, HeardAndComing, FS_Subset, FS_CardinalityType DEF BackedInv
      <4>4. Owed(k)' <= Owed(k) /\ Owed(k)' \in {0, 1}
        BY <4>2 DEF Owed
      <4> QED
        BY <1>3, <4>3, <4>4, HeardAndComing, NextTriangle DEF Bounded, BackedInv
    <3> QED
      BY <3>1, <3>2
  <2> QED
    BY <1>2, <2>1, <2>3 DEF Bounded
<1>5. CASE ~(EachMessage /\ calls' # calls)
  <2>1. calls' = calls /\ current' \in {current, None} /\ crashes' = crashes
    BY <1>5 DEF ConsumerStep, dispatch, vars, consumer, Produce, StartConsuming, EachMessage,
                HandleEventReturns, Commit, ServiceStep
  <2>2. \A k \in Nat : Coming(k)' \subseteq Coming(k)
    BY <1>1, <1>2, <2>1, NoneAssumption DEF Coming, Made, ConsumerInv, Kinds
  <2>3. \A k \in Nat : Met(k) => Met(k)'
    <3>1. CASE HandleEventReturns
      BY <1>1, <3>1 DEF HandleEventReturns, Resolve, AtHand, Met, ConsumerInv, Kinds, Next1
    <3>2. CASE EachMessage
      BY <1>1, <1>5, <3>2 DEF EachMessage, Resolve, Met, ConsumerInv, Kinds, Next1
    <3>3. CASE StartConsuming
      BY <3>3 DEF StartConsuming, Met
    <3>4. CASE UNCHANGED consumer
      BY <3>4 DEF consumer, Met
    <3> QED
      BY <3>1, <3>2, <3>3, <3>4 DEF ConsumerStep, dispatch, vars, Produce, Commit, ServiceStep
  <2> QED
    BY <1>2, <1>3, <2>1, <2>2, <2>3, FewerComing DEF BackedInv
<1> QED
  BY <1>4, <1>5

\* The step at which a message enters the worker's part: it came, and comes.
LEMMA PublishBounded ==
  ASSUME BackedInv, Bounded, Publish
  PROVE  Bounded'
<1>1. ConsumerInv /\ Others /\ [Next]_vars /\ WP!Shape
  BY ConsumerPart DEF BackedInv, PartsInv, DispatchNext, WP!Inv
<1>2. current \in Calls /\ WP!SendToQueue(current)
  <2>1. current \in Calls /\ Worker!SendToQueue(current)
    BY <1>1 DEF Publish, Others
  <2> QED
    BY <2>1, SameActions
<1>3. {} \subseteq Calls /\ MaxLosses \in Nat
  BY MaxLossesAssumption
<1>4. /\ WP!Ahead' = Append(WP!Ahead, current) /\ sent' = Append(sent, current)
      /\ current \notin WP!Range(sent) /\ UNCHANGED <<processed, losses>>
  BY <1>1, <1>2, <1>3, WP!SendEffect
<1>5. WP!Ahead \in Seq(Calls) /\ sent \in Seq(Calls)
  BY <1>1, <1>3, WP!PipelineSeq DEF WP!Shape, WP!TypeOK
<1>6. /\ WP!Range(WP!Ahead') = WP!Range(WP!Ahead) \cup {current}
      /\ WP!Range(sent') = WP!Range(sent) \cup {current}
  BY <1>2, <1>3, <1>4, <1>5, WP!RangeOfAppend
<1>7. UNCHANGED <<calls, current, up, position, crashes>>
  BY DEF Publish, ServiceStep, consumer
<1>8. \A k \in Nat : /\ Heard(k)' = Heard(k) /\ Coming(k)' \subseteq Coming(k)
                     /\ Met(k) => Met(k)'
  BY <1>4, <1>6, <1>7 DEF Heard, Coming, Made, Met
<1> QED
  BY <1>4, <1>7, <1>8, FewerComing DEF BackedInv

\* Steps between the publisher and the callback, and acknowledgements.
LEMMA QuietBounded ==
  ASSUME BackedInv, Bounded, UNCHANGED vars, WP!Ahead' = WP!Ahead,
         UNCHANGED <<sent, processed>>, losses' \in {losses, losses + 1}
  PROVE  Bounded'
<1>1. UNCHANGED <<calls, current, up, position, crashes>>
  BY DEF vars, consumer
<1>2. \A k \in Nat : /\ Heard(k)' = Heard(k) /\ Coming(k)' \subseteq Coming(k)
                     /\ Met(k) => Met(k)'
  BY <1>1 DEF Heard, Coming, Made, Met
<1> QED
  BY <1>1, <1>2, FewerComing DEF BackedInv

\* What was coming has come.
LEMMA CallbackBounded ==
  ASSUME BackedInv, Bounded, UNCHANGED vars, WP!Callback
  PROVE  Bounded'
<1> DEFINE h == Head(WP!Ahead)
<1>1. {} \subseteq Calls /\ MaxLosses \in Nat
  BY MaxLossesAssumption
<1>2. WP!Inv /\ WP!Shape
  BY DEF BackedInv, PartsInv, WP!Inv
<1>3. /\ WP!Ahead # <<>> /\ WP!Ahead' = Tail(WP!Ahead)
      /\ processed' = Append(processed, h)
      /\ UNCHANGED <<sent, losses>>
  BY <1>1, <1>2, WP!CallbackEffect
<1>4. WP!Ahead \in Seq(Calls) /\ processed \in Seq(Calls) /\ WP!IsInjective(WP!Ahead)
  <2>1. WP!TypeOK
    BY <1>2 DEF WP!Shape
  <2>2. WP!Ahead \in Seq(Calls)
    BY <1>1, <2>1, WP!PipelineSeq
  <2>3. processed \in Seq(Calls)
    BY <2>1 DEF WP!TypeOK
  <2>4. WP!IsInjective(WP!Ahead)
    BY <1>1, <1>2, WP!AheadInjective
  <2> QED
    BY <2>2, <2>3, <2>4
<1>5. h \in Calls
  BY <1>3, <1>4, HeadTailProperties
<1> HIDE DEF h
<1>6. WP!Range(WP!Ahead) = {h} \cup WP!Range(WP!Ahead') /\ h \notin WP!Range(WP!Ahead')
  <2>1. \A s \in Seq(Calls) : s # <<>> => WP!Range(s) = {Head(s)} \cup WP!Range(Tail(s))
    BY <1>1, WP!RangeOfTail
  <2>2. \A s \in Seq(Calls) : s # <<>> /\ WP!IsInjective(s) => Head(s) \notin WP!Range(Tail(s))
    BY <1>1, WP!HeadNotInTail
  <2> QED
    BY <1>3, <1>4, <2>1, <2>2 DEF h
<1>7. h \in WP!Range(sent)
  BY <1>1, <1>2, <1>6, WP!RangesOfPipeline DEF WP!Inv, WP!Places
<1>8. UNCHANGED <<calls, current, up, position, crashes>>
  BY DEF vars, consumer
<1>9. /\ DOMAIN processed' = DOMAIN processed \cup {Len(processed) + 1}
      /\ Len(processed) + 1 \notin DOMAIN processed /\ processed'[Len(processed) + 1] = h
      /\ \A i \in DOMAIN processed : processed'[i] = processed[i]
  BY <1>3, <1>4, <1>5
<1>10. ASSUME NEW k \in Nat
       PROVE  2 * (Cardinality(Heard(k)') + Cardinality(Coming(k)') + Owed(k)')
                <= (losses + 1) * (losses + 2)
  <2>1. Owed(k)' = Owed(k)
    BY <1>8 DEF Owed, Met
  <2>2. 2 * (Cardinality(Heard(k)) + Cardinality(Coming(k)) + Owed(k)) <= (losses + 1) * (losses + 2)
    BY DEF Bounded
  <2>3. CASE h \in Made(k)
    <3>1. Heard(k)' = Heard(k) \cup {Len(processed) + 1} /\ Len(processed) + 1 \notin Heard(k)
      BY <1>8, <1>9, <2>3 DEF Heard, Made
    <3>2. Coming(k)' = Coming(k) \ {h} /\ h \in Coming(k)
      BY <1>3, <1>6, <1>7, <1>8, <2>3 DEF Coming, Made
    <3>3. Cardinality(Heard(k)') = Cardinality(Heard(k)) + 1
      BY <3>1, HeardAndComing, FS_AddElement DEF BackedInv
    <3>4. Cardinality(Coming(k)') = Cardinality(Coming(k)) - 1
      BY <3>2, HeardAndComing, FS_RemoveElement DEF BackedInv
    <3> QED
      BY <2>1, <2>2, <3>3, <3>4, HeardAndComing DEF BackedInv
  <2>4. CASE h \notin Made(k)
    <3>1. Coming(k)' = Coming(k)
      BY <1>3, <1>6, <1>8, <2>4 DEF Coming, Made
    <3>2. Heard(k)' = Heard(k)
      <4>1. h \in DOMAIN calls
        <5>1. PICK i \in DOMAIN sent : sent[i] = h
          BY <1>7 DEF WP!Range
        <5> QED
          BY <5>1 DEF BackedInv, Handed
      <4>2. calls[h] # k
        BY <2>4, <4>1 DEF Made
      <4> QED
        BY <1>8, <1>9, <4>2 DEF Heard
    <3> QED
      BY <2>1, <2>2, <3>1, <3>2
  <2> QED
    BY <2>3, <2>4
<1> QED
  BY <1>3, <1>8, <1>10 DEF Bounded

LEMMA WorkerBounded ==
  ASSUME BackedInv, Bounded, WorkerStep
  PROVE  Bounded'
<1>1. {} \subseteq Calls /\ MaxLosses \in Nat /\ WP!Shape /\ UNCHANGED vars
  BY MaxLossesAssumption DEF BackedInv, PartsInv, WP!Inv, WorkerStep
<1>2. \/ WP!OutboxReachesQueue \/ WP!Deliver \/ WP!Callback \/ WP!BrokerGetsReply
      \/ WP!WorkerStart \/ WP!ConsumerCancelled \/ WP!ConnectionCloses
  BY SameActions DEF WorkerStep
<1>3. CASE WP!OutboxReachesQueue
  BY <1>1, <1>3, WP!OutboxEffect, QuietBounded
<1>4. CASE WP!Deliver
  BY <1>1, <1>4, WP!DeliverEffect, QuietBounded
<1>5. CASE WP!Callback
  BY <1>1, <1>5, CallbackBounded
<1>6. CASE WP!BrokerGetsReply
  <2>1. WP!Inv
    BY DEF BackedInv, PartsInv
  <2>2. WP!IsInjective(WP!Pipeline)
    BY <1>1, <2>1, WP!AheadInjective
  <2>3. WP!Ahead' = WP!Ahead /\ UNCHANGED <<sent, processed, losses>>
    BY <1>1, <1>6, <2>2, WP!ReplyEffect
  <2> QED
    BY <1>1, <2>3, QuietBounded
<1>7. CASE WP!WorkerStart \/ WP!ConsumerCancelled
  BY <1>1, <1>7, WP!QuietEffect, QuietBounded
<1>8. CASE WP!ConnectionCloses
  <2>1. losses' = losses + 1 /\ processed' = processed
    BY <1>8 DEF WP!ConnectionCloses, WP!history
  <2>2. calls' = calls /\ crashes' = crashes
    BY <1>1 DEF vars, consumer
  <2> QED
    BY <2>1, <2>2, AllComesAgain DEF BackedInv
<1> QED
  BY <1>2, <1>3, <1>4, <1>5, <1>6, <1>7, <1>8

LEMMA BoundedStep == BackedInv /\ Bounded /\ [DispatchNext]_dispatch => Bounded'
<1> SUFFICES ASSUME BackedInv, Bounded, [DispatchNext]_dispatch PROVE Bounded'
  OBVIOUS
<1>1. CASE ProcessDies
  <2>1. losses' = losses + 1 /\ processed' = processed /\ crashes' = crashes + 1 /\ calls' = calls
    BY <1>1 DEF ProcessDies, Crash, Worker!ProcessDies
  <2> QED
    BY <2>1, AllComesAgain DEF BackedInv
<1> QED
  BY <1>1, PublishBounded, ConsumerBounded, WorkerBounded DEF DispatchNext

\* However deaths and lost channels fall together, a customer hears of one event 1 + 2 + ... +
\* (n + 1) times at most after n of them: one loss can make RabbitMQ deliver again what it has
\* of each earlier call (email.worker.ts:37), and Kafka deliver the event again
\* (kafka.consumer.ts:47).
THEOREM RepeatsStayBounded == DispatchSpec => []RepeatsAreBounded
<1>1. DispatchInit => Bounded
  <2> SUFFICES ASSUME DispatchInit PROVE Bounded
    OBVIOUS
  <2>1. calls = <<>> /\ processed = <<>> /\ crashes = 0 /\ losses = 0 /\ DOMAIN <<>> = {}
    BY DEF DispatchInit, Init, Worker!Init
  <2>2. \A k \in Nat : Heard(k) = {} /\ Coming(k) = {} /\ Owed(k) \in {0, 1}
    BY <2>1 DEF Heard, Coming, Made, Owed
  <2>3. Cardinality({}) = 0
    BY FS_EmptySet
  <2>4. (losses + 1) * (losses + 2) = 2 /\ crashes <= losses
    BY <2>1
  <2>5. ASSUME NEW k \in Nat
        PROVE  2 * (Cardinality(Heard(k)) + Cardinality(Coming(k)) + Owed(k)) <= 2
    <3>1. Cardinality(Heard(k)) = 0 /\ Cardinality(Coming(k)) = 0 /\ Owed(k) \in {0, 1}
      BY <2>2, <2>3
    <3> QED
      BY <3>1
  <2> QED
    BY <2>4, <2>5 DEF Bounded
<1>2. BackedInv /\ Bounded => RepeatsAreBounded
  <2> SUFFICES ASSUME BackedInv, Bounded, NEW k \in DOMAIN log
               PROVE  2 * Cardinality(Heard(k)) <= (losses + 1) * (losses + 2)
    BY DEF RepeatsAreBounded, Heard
  <2>1. k \in Nat
    BY DEF BackedInv, PartsInv, ConsumerInv, Kinds
  <2>2. 2 * (Cardinality(Heard(k)) + Cardinality(Coming(k)) + Owed(k)) <= (losses + 1) * (losses + 2)
    BY <2>1 DEF Bounded
  <2> QED
    BY <2>1, <2>2, HeardAndComing, NextTriangle DEF BackedInv
<1> QED
  BY <1>1, <1>2, BackedInit, BackedStep, BoundedStep, PTL DEF DispatchSpec
=============================================================================
