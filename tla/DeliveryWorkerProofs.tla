------------------------ MODULE DeliveryWorkerProofs ------------------------
(***************************************************************************)
(* What becomes of the messages of a delivery queue: proved for any number *)
(* of messages and of lost channels.                                       *)
(***************************************************************************)
EXTENDS DeliveryWorker, SequenceTheorems, FiniteSetTheorems, TLAPS

-----------------------------------------------------------------------------
(* Sequences: what moves from the head of one to the end of another stays   *)
(* in its place.                                                            *)

LEMMA MoveHead ==
  ASSUME NEW S, NEW s \in Seq(S), NEW t \in Seq(S), t # <<>>
  PROVE  /\ Append(s, Head(t)) \o Tail(t) = s \o t
         /\ Append(s, Head(t)) \in Seq(S) /\ Tail(t) \in Seq(S)
<1>1. Head(t) \in S /\ Tail(t) \in Seq(S) /\ Append(s, Head(t)) \in Seq(S)
  BY HeadTailProperties, AppendProperties
<1>2. Append(s, Head(t)) = s \o <<Head(t)>>
  BY <1>1, AppendIsConcat
<1>3. <<Head(t)>> \in Seq(S) /\ t = <<Head(t)>> \o Tail(t)
  BY <1>1
<1> QED
  BY <1>1, <1>2, <1>3, ConcatAssociative

LEMMA HeadTailOfConcat ==
  ASSUME NEW S, NEW s \in Seq(S), NEW t \in Seq(S), s # <<>>
  PROVE  s \o t # <<>> /\ Head(s \o t) = Head(s) /\ Tail(s \o t) = Tail(s) \o t
<1>1. Head(s) \in S /\ Tail(s) \in Seq(S)
  BY HeadTailProperties
<1>2. s = <<Head(s)>> \o Tail(s) /\ <<Head(s)>> \in Seq(S)
  BY <1>1
<1>3. s \o t = <<Head(s)>> \o (Tail(s) \o t) /\ Tail(s) \o t \in Seq(S)
  BY <1>1, <1>2, ConcatAssociative, ConcatProperties
<1> QED
  BY <1>1, <1>3

LEMMA AppendToConcat ==
  ASSUME NEW S, NEW s \in Seq(S), NEW t \in Seq(S), NEW e \in S
  PROVE  s \o Append(t, e) = Append(s \o t, e)
<1>1. <<e>> \in Seq(S) /\ s \o t \in Seq(S)
  BY ConcatProperties
<1> QED
  BY <1>1, AppendIsConcat, ConcatAssociative

LEMMA RangeOfOne == \A e : Range(<<e>>) = {e}
BY DEF Range

LEMMA RangeOfTail ==
  ASSUME NEW S, NEW s \in Seq(S), s # <<>>
  PROVE  Range(s) = {Head(s)} \cup Range(Tail(s))
<1>1. Head(s) \in S /\ Tail(s) \in Seq(S)
  BY HeadTailProperties
<1>2. s = <<Head(s)>> \o Tail(s) /\ <<Head(s)>> \in Seq(S)
  BY <1>1
<1>3. Range(<<Head(s)>> \o Tail(s)) = Range(<<Head(s)>>) \cup Range(Tail(s))
  BY <1>1, <1>2, RangeConcatenation
<1>4. Range(s) = Range(<<Head(s)>>) \cup Range(Tail(s))
  BY <1>2, <1>3
<1> QED
  BY <1>4, RangeOfOne

LEMMA RangeOfAppend ==
  ASSUME NEW S, NEW s \in Seq(S), NEW e \in S
  PROVE  Range(Append(s, e)) = Range(s) \cup {e}
<1>1. Append(s, e) = s \o <<e>> /\ <<e>> \in Seq(S)
  BY AppendIsConcat
<1>2. Range(s \o <<e>>) = Range(s) \cup Range(<<e>>)
  BY <1>1, RangeConcatenation
<1>3. Range(Append(s, e)) = Range(s) \cup Range(<<e>>)
  BY <1>1, <1>2
<1> QED
  BY <1>3, RangeOfOne

LEMMA PrefixInjective ==
  ASSUME NEW S, NEW s \in Seq(S), NEW t \in Seq(S), IsInjective(s \o t)
  PROVE  IsInjective(s) /\ IsInjective(t)
<1>1. /\ Len(s) \in Nat /\ DOMAIN s = 1 .. Len(s) /\ Len(t) \in Nat /\ DOMAIN t = 1 .. Len(t)
      /\ DOMAIN (s \o t) = 1 .. Len(s) + Len(t)
      /\ \A k \in 1 .. Len(s) : k \in DOMAIN (s \o t) /\ (s \o t)[k] = s[k]
      /\ \A k \in 1 .. Len(t) : Len(s) + k \in DOMAIN (s \o t) /\ (s \o t)[Len(s) + k] = t[k]
  <2>1. s \o t \in Seq(S) /\ Len(s \o t) = Len(s) + Len(t)
    BY ConcatProperties
  <2>2. /\ Len(s) \in Nat /\ DOMAIN s = 1 .. Len(s) /\ Len(t) \in Nat /\ DOMAIN t = 1 .. Len(t)
        /\ DOMAIN (s \o t) = 1 .. Len(s) + Len(t)
    BY <2>1, LenProperties
  <2>3. \A k \in 1 .. Len(s) + Len(t) :
          (s \o t)[k] = IF k <= Len(s) THEN s[k] ELSE t[k - Len(s)]
    BY ConcatProperties
  <2>4. \A k \in 1 .. Len(t) : Len(s) + k \in 1 .. Len(s) + Len(t) /\ ~(Len(s) + k <= Len(s))
                                /\ Len(s) + k - Len(s) = k
    BY <2>2
  <2>5. \A k \in 1 .. Len(s) : k \in 1 .. Len(s) + Len(t) /\ k <= Len(s)
    BY <2>2
  <2> QED
    BY <2>2, <2>3, <2>4, <2>5
<1>2. IsInjective(s)
  BY <1>1 DEF IsInjective
<1>3. IsInjective(t)
  <2> SUFFICES ASSUME NEW a \in DOMAIN t, NEW b \in DOMAIN t, t[a] = t[b] PROVE a = b
    BY DEF IsInjective
  <2>1. Len(s) + a = Len(s) + b
    BY <1>1 DEF IsInjective
  <2> QED
    BY <1>1, <2>1
<1> QED
  BY <1>2, <1>3

LEMMA HeadNotInTail ==
  ASSUME NEW S, NEW s \in Seq(S), s # <<>>, IsInjective(s)
  PROVE  Head(s) \notin Range(Tail(s))
<1>1. /\ Len(s) \in Nat /\ Len(s) > 0 /\ DOMAIN s = 1 .. Len(s) /\ Head(s) = s[1]
      /\ Tail(s) \in Seq(S) /\ Len(Tail(s)) = Len(s) - 1
      /\ \A k \in 1 .. Len(Tail(s)) : Tail(s)[k] = s[k + 1]
  BY EmptySeq, LenProperties, HeadTailProperties
<1> SUFFICES ASSUME NEW k \in DOMAIN Tail(s), Tail(s)[k] = Head(s) PROVE FALSE
  BY DEF Range
<1>2. k \in 1 .. Len(s) - 1
  BY <1>1, LenProperties
<1>3. s[k + 1] = s[1] /\ k + 1 \in DOMAIN s /\ 1 \in DOMAIN s
  BY <1>1, <1>2
<1>4. k + 1 = 1
  BY <1>3 DEF IsInjective
<1> QED
  BY <1>2, <1>4

\* In a sequence without repetitions, to take out what its head is is to drop
\* the head.
LEMMA HeadTakenOut ==
  ASSUME NEW S, NEW s \in Seq(S), s # <<>>, IsInjective(s), NEW k \in DOMAIN s, s[k] = Head(s)
  PROVE  RemoveAt(s, k) = Tail(s)
<1>1. Head(s) = s[1] /\ 1 \in DOMAIN s
  BY EmptySeq, LenProperties
<1>2. k = 1
  BY <1>1 DEF IsInjective
<1>3. RemoveAt(s, 1) = SubSeq(s, 1, 0) \o SubSeq(s, 2, Len(s))
  BY DEF RemoveAt
<1>4. SubSeq(s, 1, 0) = <<>> /\ SubSeq(s, 2, Len(s)) = Tail(s) /\ Tail(s) \in Seq(S)
  BY SubSeqEmpty, TailIsSubSeq, HeadTailProperties
<1> QED
  BY <1>2, <1>3, <1>4, ConcatEmptySeq

-----------------------------------------------------------------------------
(* The invariant. *)

\* The messages of the replies under way, and what no callback has seen yet.
Reply   == [msg : Messages, type : {"ack", "nack"}]
Msgs(r) == [k \in DOMAIN r |-> r[k].msg]
Replied == Msgs(replies)
Ahead   == inbox \o queue \o outbox

\* What the worker says of a message is true.
Told == \A k \in DOMAIN replies : IF replies[k].type = "ack"
                                  THEN replies[k].msg \in Range(processed)
                                  ELSE replies[k].msg \in Malformed

\* Where messages are, and that none is forgotten.
Places ==
  /\ Range(Pipeline) \cup Range(processed) \cup dropped \cup lost \subseteq Range(sent)
  /\ Range(Pipeline) \cap (dropped \cup lost) = {}
  /\ Range(sent) \subseteq Range(Pipeline) \cup dropped \cup lost \cup Range(processed)
  /\ dropped \subseteq Malformed
  /\ Range(processed) \cap Malformed = {}

\* The pipeline keeps the order of sendToQueue.
Ordered ==
  /\ IsInjective(sent)
  /\ \A a, b \in DOMAIN Pipeline, i, j \in DOMAIN sent :
       a < b /\ Pipeline[a] = sent[i] /\ Pipeline[b] = sent[j] => i < j

\* What is neither lost nor processed is yet to come.
Waiting == Range(sent) \ (lost \cup Malformed \cup Range(processed)) \subseteq Range(Ahead)

Times(m) == {k \in DOMAIN processed : processed[k] = m}

\* Each loss makes a message come once more, at most.
Counted ==
  \A m \in Messages :
    Cardinality(Times(m)) <= losses + IF m \in Range(sent) \ Range(Ahead) THEN 1 ELSE 0

Shape == TypeOK /\ WorkerAndBrokerAgree
Inv   == Shape /\ Told /\ Places /\ Ordered /\ Waiting /\ FirstInOrder /\ Counted

-----------------------------------------------------------------------------
(* Each action, as seen on the pipeline and on what is ahead. *)

LEMMA MsgsOfReplies ==
  ASSUME NEW r \in Seq(Reply)
  PROVE  /\ Msgs(r) \in Seq(Messages) /\ Len(Msgs(r)) = Len(r)
         /\ \A k \in 1 .. Len(r) : Msgs(r)[k] = r[k].msg
<1>1. Len(r) \in Nat /\ DOMAIN r = 1 .. Len(r) /\ \A k \in 1 .. Len(r) : r[k] \in Reply
  BY LenProperties, ElementOfSeq
<1>2. \A k \in 1 .. Len(r) : r[k].msg \in Messages
  BY <1>1 DEF Reply
<1>3. Msgs(r) = [k \in 1 .. Len(r) |-> r[k].msg]
  BY <1>1 DEF Msgs
<1> QED
  BY <1>1, <1>2, <1>3

LEMMA MsgsOfAppend ==
  ASSUME NEW r \in Seq(Reply), NEW e \in Reply
  PROVE  Msgs(Append(r, e)) = Append(Msgs(r), e.msg)
<1>1. /\ Append(r, e) \in Seq(Reply) /\ Len(Append(r, e)) = Len(r) + 1 /\ Len(r) \in Nat
      /\ \A k \in 1 .. Len(r) : Append(r, e)[k] = r[k]
      /\ Append(r, e)[Len(r) + 1] = e
  BY AppendProperties, LenProperties
<1>2. e.msg \in Messages
  BY DEF Reply
<1>3. /\ Append(Msgs(r), e.msg) \in Seq(Messages) /\ Len(Append(Msgs(r), e.msg)) = Len(r) + 1
      /\ \A k \in 1 .. Len(r) : Append(Msgs(r), e.msg)[k] = r[k].msg
      /\ Append(Msgs(r), e.msg)[Len(r) + 1] = e.msg
  BY <1>2, MsgsOfReplies, AppendProperties
<1>4. /\ Msgs(Append(r, e)) \in Seq(Messages) /\ Len(Msgs(Append(r, e))) = Len(r) + 1
      /\ \A k \in 1 .. Len(r) + 1 : Msgs(Append(r, e))[k] = Append(r, e)[k].msg
  BY <1>1, MsgsOfReplies
<1>5. \A k \in 1 .. Len(r) + 1 : Msgs(Append(r, e))[k] = Append(Msgs(r), e.msg)[k]
  <2> SUFFICES ASSUME NEW k \in 1 .. Len(r) + 1
               PROVE  Msgs(Append(r, e))[k] = Append(Msgs(r), e.msg)[k]
    OBVIOUS
  <2>1. k \in 1 .. Len(r) \/ k = Len(r) + 1
    BY <1>1
  <2> QED
    BY <1>1, <1>3, <1>4, <2>1
<1> QED
  BY <1>3, <1>4, <1>5, SeqEqual

LEMMA MsgsOfTail ==
  ASSUME NEW r \in Seq(Reply), r # <<>>
  PROVE  Msgs(r) # <<>> /\ Head(Msgs(r)) = Head(r).msg /\ Msgs(Tail(r)) = Tail(Msgs(r))
<1>1. /\ Len(r) \in Nat /\ Len(r) > 0 /\ Tail(r) \in Seq(Reply) /\ Len(Tail(r)) = Len(r) - 1
      /\ \A k \in 1 .. Len(Tail(r)) : Tail(r)[k] = r[k + 1]
      /\ Head(r) = r[1]
  BY HeadTailProperties, LenProperties, EmptySeq
<1>2. /\ Msgs(r) \in Seq(Messages) /\ Len(Msgs(r)) = Len(r)
      /\ \A k \in 1 .. Len(r) : Msgs(r)[k] = r[k].msg
  BY MsgsOfReplies
<1>3. Msgs(r) # <<>>
  BY <1>1, <1>2, EmptySeq
<1>4. /\ Tail(Msgs(r)) \in Seq(Messages) /\ Len(Tail(Msgs(r))) = Len(r) - 1
      /\ \A k \in 1 .. Len(r) - 1 : Tail(Msgs(r))[k] = Msgs(r)[k + 1]
      /\ Head(Msgs(r)) = Msgs(r)[1]
  BY <1>2, <1>3, HeadTailProperties
<1>5. /\ Msgs(Tail(r)) \in Seq(Messages) /\ Len(Msgs(Tail(r))) = Len(r) - 1
      /\ \A k \in 1 .. Len(r) - 1 : Msgs(Tail(r))[k] = Tail(r)[k].msg
  BY <1>1, MsgsOfReplies
<1>6. \A k \in 1 .. Len(r) - 1 : Msgs(Tail(r))[k] = Tail(Msgs(r))[k]
  <2> SUFFICES ASSUME NEW k \in 1 .. Len(r) - 1 PROVE Msgs(Tail(r))[k] = Tail(Msgs(r))[k]
    OBVIOUS
  <2>1. k + 1 \in 1 .. Len(r)
    BY <1>1
  <2> QED
    BY <1>1, <1>2, <1>4, <1>5, <2>1
<1>7. Msgs(Tail(r)) = Tail(Msgs(r))
  BY <1>4, <1>5, <1>6, SeqEqual
<1> QED
  BY <1>1, <1>2, <1>3, <1>4, <1>7

LEMMA ReplySeq ==
  ASSUME TypeOK
  PROVE  Replied \in Seq(Messages) /\ replies \in Seq(Reply)
BY MsgsOfReplies DEF TypeOK, Reply, Replied

LEMMA Agreement == WorkerAndBrokerAgree <=> unacked = Replied \o inbox
BY DEF WorkerAndBrokerAgree, Replied, Msgs

LEMMA PipelineSeq ==
  ASSUME TypeOK
  PROVE  /\ Pipeline \in Seq(Messages) /\ Ahead \in Seq(Messages)
         /\ unacked \o queue \in Seq(Messages) /\ inbox \o queue \in Seq(Messages)
BY ConcatProperties DEF TypeOK, Pipeline, Ahead

\* The worker has seen the first part of the pipeline.
LEMMA PipelineSplit == ASSUME Shape PROVE Pipeline = Replied \o Ahead
<1>1. unacked = Replied \o inbox
  BY Agreement DEF Shape
<1>2. /\ Replied \in Seq(Messages) /\ inbox \in Seq(Messages) /\ queue \in Seq(Messages)
      /\ outbox \in Seq(Messages) /\ inbox \o queue \in Seq(Messages)
  BY ReplySeq, PipelineSeq DEF Shape, TypeOK
<1>3. (Replied \o inbox) \o queue = Replied \o (inbox \o queue)
  BY <1>2, ConcatAssociative
<1>4. (Replied \o (inbox \o queue)) \o outbox = Replied \o ((inbox \o queue) \o outbox)
  BY <1>2, ConcatAssociative
<1> QED
  BY <1>1, <1>3, <1>4 DEF Pipeline, Ahead

LEMMA PipelineInjective ==
  ASSUME TypeOK, Ordered, Places
  PROVE  IsInjective(Pipeline)
<1> SUFFICES ASSUME NEW a \in DOMAIN Pipeline, NEW b \in DOMAIN Pipeline,
                    a < b, Pipeline[a] = Pipeline[b]
             PROVE  FALSE
  <2>1. DOMAIN Pipeline \subseteq Nat
    BY PipelineSeq, LenProperties
  <2>2. \A x, y \in DOMAIN Pipeline : x < y \/ y < x \/ x = y
    BY <2>1
  <2> QED
    BY <2>2 DEF IsInjective
<1>1. Pipeline[a] \in Range(sent)
  BY DEF Places, Range
<1>2. PICK i \in DOMAIN sent : sent[i] = Pipeline[a]
  BY <1>1 DEF Range
<1>3. i < i /\ i \in Nat
  BY <1>2 DEF Ordered, TypeOK
<1> QED
  BY <1>3

LEMMA SendEffect ==
  ASSUME Shape, NEW m \in Messages, SendToQueue(m)
  PROVE  /\ Shape' /\ Pipeline' = Append(Pipeline, m) /\ Ahead' = Append(Ahead, m)
         /\ sent' = Append(sent, m) /\ m \notin Range(sent)
         /\ UNCHANGED <<replies, dropped, lost, processed, losses>>
<1>1. TypeOK' /\ UNCHANGED <<unacked, queue, inbox, replies>> /\ outbox' = Append(outbox, m)
  BY DEF Shape, TypeOK, SendToQueue, broker, client
<1>2. Pipeline' = Append(Pipeline, m)
  BY <1>1, PipelineSeq, AppendToConcat DEF Shape, TypeOK, Pipeline
<1>3. Ahead' = Append(Ahead, m)
  <2>1. inbox \o queue \in Seq(Messages) /\ outbox \in Seq(Messages)
    BY PipelineSeq DEF Shape, TypeOK
  <2>2. (inbox \o queue) \o Append(outbox, m) = Append((inbox \o queue) \o outbox, m)
    BY <2>1, AppendToConcat
  <2> QED
    BY <1>1, <2>2 DEF Ahead
<1>4. WorkerAndBrokerAgree'
  BY <1>1 DEF Shape, WorkerAndBrokerAgree
<1> QED
  BY <1>1, <1>2, <1>3, <1>4 DEF Shape, SendToQueue, broker, client

LEMMA OutboxEffect ==
  ASSUME Shape, OutboxReachesQueue
  PROVE  /\ Shape' /\ Pipeline' = Pipeline /\ Ahead' = Ahead
         /\ UNCHANGED <<replies, dropped, sent, lost, processed, losses>>
<1> DEFINE h == Head(outbox)
<1>1. /\ outbox # <<>> /\ outbox \in Seq(Messages) /\ h \in Messages /\ queue \in Seq(Messages)
      /\ unacked \in Seq(Messages) /\ inbox \in Seq(Messages)
      /\ queue' = Append(queue, h) /\ outbox' = Tail(outbox)
      /\ UNCHANGED <<unacked, inbox, replies, dropped, worker, losses, sent, lost, processed>>
  BY HeadTailProperties DEF OutboxReachesQueue, Shape, TypeOK, client, history
<1>2. TypeOK'
  BY <1>1, AppendProperties, HeadTailProperties DEF Shape, TypeOK
<1>3. ASSUME NEW s \in Seq(Messages)
      PROVE  (s \o Append(queue, h)) \o Tail(outbox) = (s \o queue) \o outbox
  <2>1. \A a \in Seq(Messages) : Append(a, h) \o Tail(outbox) = a \o outbox
    BY <1>1, MoveHead
  <2>2. s \o queue \in Seq(Messages)
    BY <1>1, ConcatProperties
  <2>3. s \o Append(queue, h) = Append(s \o queue, h)
    BY <1>1, AppendToConcat
  <2>4. Append(s \o queue, h) \o Tail(outbox) = (s \o queue) \o outbox
    BY <2>1, <2>2
  <2> QED
    BY <2>3, <2>4
<1>4. Pipeline' = Pipeline /\ Ahead' = Ahead
  BY <1>1, <1>3 DEF Pipeline, Ahead
<1>5. WorkerAndBrokerAgree'
  BY <1>1 DEF Shape, WorkerAndBrokerAgree
<1> QED
  BY <1>1, <1>2, <1>4, <1>5 DEF Shape

LEMMA DeliverEffect ==
  ASSUME Shape, Deliver
  PROVE  /\ Shape' /\ Pipeline' = Pipeline /\ Ahead' = Ahead
         /\ UNCHANGED <<replies, dropped, sent, lost, processed, losses>>
<1> DEFINE h == Head(queue)
<1>1. /\ queue # <<>> /\ queue \in Seq(Messages) /\ h \in Messages /\ outbox \in Seq(Messages)
      /\ unacked \in Seq(Messages) /\ inbox \in Seq(Messages)
      /\ unacked' = Append(unacked, h) /\ inbox' = Append(inbox, h) /\ queue' = Tail(queue)
      /\ UNCHANGED <<outbox, replies, dropped, worker, losses, sent, lost, processed>>
  BY HeadTailProperties DEF Deliver, Shape, TypeOK, history
<1>2. TypeOK'
  BY <1>1, AppendProperties, HeadTailProperties DEF Shape, TypeOK
<1>3. /\ Append(unacked, h) \o Tail(queue) = unacked \o queue
      /\ Append(inbox, h) \o Tail(queue) = inbox \o queue
  BY <1>1, MoveHead
<1>4. Pipeline' = Pipeline /\ Ahead' = Ahead
  BY <1>1, <1>3 DEF Pipeline, Ahead
<1>5. Append(unacked, h) = Replied \o Append(inbox, h)
  <2>1. Replied \in Seq(Messages) /\ unacked = Replied \o inbox
    BY ReplySeq, Agreement DEF Shape
  <2>2. Replied \o Append(inbox, h) = Append(Replied \o inbox, h)
    BY <1>1, <2>1, AppendToConcat
  <2> QED
    BY <2>1, <2>2
<1>6. WorkerAndBrokerAgree'
  <2>1. Replied' = Replied
    BY <1>1 DEF Replied
  <2>2. unacked' = Replied' \o inbox'
    BY <1>1, <1>5, <2>1
  <2> QED
    BY <2>2 DEF WorkerAndBrokerAgree, Replied, Msgs
<1> QED
  BY <1>1, <1>2, <1>4, <1>6 DEF Shape

LEMMA CallbackEffect ==
  ASSUME Shape, Callback
  PROVE  /\ Shape' /\ Pipeline' = Pipeline
         /\ Ahead # <<>> /\ Ahead' = Tail(Ahead)
         /\ processed' = IF Head(Ahead) \in Malformed THEN processed
                         ELSE Append(processed, Head(Ahead))
         /\ replies' = Append(replies, [msg |-> Head(Ahead),
                              type |-> IF Head(Ahead) \in Malformed THEN "nack" ELSE "ack"])
         /\ UNCHANGED <<dropped, sent, lost, losses>>
<1> DEFINE h == Head(inbox)
<1>1. /\ inbox # <<>> /\ inbox \in Seq(Messages) /\ h \in Messages /\ outbox \in Seq(Messages)
      /\ unacked \in Seq(Messages) /\ queue \in Seq(Messages)
      /\ replies \in Seq(Reply)
      /\ inbox' = Tail(inbox)
      /\ UNCHANGED <<outbox, queue, unacked, dropped, worker, losses, sent, lost>>
  BY HeadTailProperties DEF Callback, Shape, TypeOK, Reply, broker
<1>2. inbox \o queue # <<>> /\ Head(inbox \o queue) = h /\ Tail(inbox \o queue) = Tail(inbox) \o queue
  BY <1>1, HeadTailOfConcat
<1>3. Ahead # <<>> /\ Head(Ahead) = h /\ Ahead' = Tail(Ahead)
  <2>1. inbox \o queue \in Seq(Messages)
    BY PipelineSeq DEF Shape
  <2>2. /\ (inbox \o queue) \o outbox # <<>>
        /\ Head((inbox \o queue) \o outbox) = Head(inbox \o queue)
        /\ Tail((inbox \o queue) \o outbox) = Tail(inbox \o queue) \o outbox
    BY <1>1, <1>2, <2>1, HeadTailOfConcat
  <2> QED
    BY <1>1, <1>2, <2>2 DEF Ahead
<1> DEFINE r == [msg |-> h, type |-> IF h \in Malformed THEN "nack" ELSE "ack"]
<1>4. r \in Reply /\ r.msg = h
  BY <1>1 DEF Reply
<1>5. replies' = Append(replies, r)
  BY <1>1, <1>4, AppendIsConcat DEF Callback, AckOrNack
<1>6. processed' = IF h \in Malformed THEN processed ELSE Append(processed, h)
  BY DEF Callback, Process
<1>7. TypeOK'
  <2>1. replies' \in Seq(Reply)
    BY <1>1, <1>4, <1>5, AppendProperties
  <2>2. inbox' \in Seq(Messages)
    BY <1>1, HeadTailProperties
  <2>3. processed' \in Seq(Messages)
    BY <1>1, <1>6, AppendProperties DEF Shape, TypeOK
  <2> QED
    BY <1>1, <2>1, <2>2, <2>3 DEF Shape, TypeOK, Reply
<1>8. Pipeline' = Pipeline
  BY <1>1 DEF Pipeline
<1>9. Replied' = Append(Replied, h)
  BY <1>1, <1>4, <1>5, MsgsOfAppend DEF Replied
<1>10. WorkerAndBrokerAgree'
  <2>1. Append(Replied, h) \o Tail(inbox) = Replied \o inbox
    BY <1>1, ReplySeq, MoveHead DEF Shape
  <2>2. unacked = Replied \o inbox
    BY Agreement DEF Shape
  <2>3. unacked' = Replied' \o inbox'
    BY <1>1, <1>9, <2>1, <2>2
  <2> QED
    BY <2>3 DEF WorkerAndBrokerAgree, Replied, Msgs
<1> QED
  BY <1>1, <1>3, <1>5, <1>6, <1>7, <1>8, <1>10 DEF Shape

LEMMA ReplyEffect ==
  ASSUME Shape, IsInjective(Pipeline), BrokerGetsReply
  PROVE  /\ Shape' /\ Pipeline # <<>> /\ Pipeline' = Tail(Pipeline) /\ Ahead' = Ahead
         /\ replies \in Seq(Reply) /\ replies # <<>> /\ replies' = Tail(replies)
         /\ Head(replies).msg = Head(Pipeline)
         /\ dropped' = IF Head(replies).type = "nack" THEN dropped \cup {Head(Pipeline)} ELSE dropped
         /\ UNCHANGED <<sent, lost, processed, losses>>
<1>1. /\ replies # <<>> /\ replies \in Seq(Reply) /\ replies' = Tail(replies)
      /\ unacked \in Seq(Messages) /\ inbox \in Seq(Messages) /\ queue \in Seq(Messages)
      /\ outbox \in Seq(Messages) /\ unacked \o queue \in Seq(Messages)
      /\ UNCHANGED <<outbox, queue, inbox, worker, losses, sent, lost, processed>>
  BY PipelineSeq DEF BrokerGetsReply, Shape, TypeOK, Reply, history
<1>2. Replied \in Seq(Messages) /\ Replied # <<>> /\ Head(Replied) = Head(replies).msg
      /\ Replied' = Tail(Replied)
  BY <1>1, MsgsOfTail, MsgsOfReplies DEF Replied
<1>3. unacked = Replied \o inbox
  BY Agreement DEF Shape
<1>4. /\ unacked # <<>> /\ Head(unacked) = Head(replies).msg
      /\ Tail(unacked) = Tail(Replied) \o inbox
  BY <1>1, <1>2, <1>3, HeadTailOfConcat
<1>5. IsInjective(unacked)
  <2>1. IsInjective(unacked \o queue)
    BY <1>1, PrefixInjective DEF Pipeline
  <2> QED
    BY <1>1, <2>1, PrefixInjective
<1>6. unacked' = Tail(unacked)
  <2>1. PICK k \in DOMAIN unacked : unacked[k] = Head(replies).msg /\ unacked' = RemoveAt(unacked, k)
    BY DEF BrokerGetsReply
  <2> QED
    BY <1>1, <1>4, <1>5, <2>1, HeadTakenOut
<1>7. /\ unacked \o queue # <<>> /\ Head(unacked \o queue) = Head(unacked)
      /\ Tail(unacked \o queue) = Tail(unacked) \o queue
  BY <1>1, <1>4, HeadTailOfConcat
<1>8. Pipeline # <<>> /\ Head(Pipeline) = Head(replies).msg /\ Pipeline' = Tail(Pipeline)
  <2>1. /\ (unacked \o queue) \o outbox # <<>>
        /\ Head((unacked \o queue) \o outbox) = Head(unacked \o queue)
        /\ Tail((unacked \o queue) \o outbox) = Tail(unacked \o queue) \o outbox
    BY <1>1, <1>7, HeadTailOfConcat
  <2> QED
    BY <1>1, <1>4, <1>6, <1>7, <2>1 DEF Pipeline
<1>9. dropped' = IF Head(replies).type = "nack" THEN dropped \cup {Head(Pipeline)} ELSE dropped
  BY <1>8 DEF BrokerGetsReply
<1>10. TypeOK'
  <2>1. unacked' \in Seq(Messages) /\ replies' \in Seq(Reply)
    BY <1>1, <1>4, <1>6, HeadTailProperties
  <2>2. Head(Pipeline) \in Messages
    BY <1>8, PipelineSeq, HeadTailProperties DEF Shape
  <2>3. dropped' \subseteq Messages
    BY <1>9, <2>2 DEF Shape, TypeOK
  <2> QED
    BY <1>1, <2>1, <2>3 DEF Shape, TypeOK, Reply
<1>11. WorkerAndBrokerAgree'
  <2>1. unacked' = Replied' \o inbox'
    BY <1>1, <1>2, <1>4, <1>6
  <2> QED
    BY <2>1 DEF WorkerAndBrokerAgree, Replied, Msgs
<1>12. Ahead' = Ahead
  BY <1>1 DEF Ahead
<1> QED
  BY <1>1, <1>8, <1>9, <1>10, <1>11, <1>12 DEF Shape

LEMMA RequeueAgrees ==
  ASSUME unacked' = <<>>, inbox' = <<>>, replies' = <<>>
  PROVE  WorkerAndBrokerAgree'
<1>1. <<>> \in Seq(Reply) /\ <<>> \in Seq(Messages) /\ Len(<<>>) = 0
  BY EmptySeq
<1>2. Msgs(<<>>) \in Seq(Messages) /\ Len(Msgs(<<>>)) = 0
  BY <1>1, MsgsOfReplies
<1>3. Msgs(<<>>) = <<>>
  BY <1>2, EmptySeq
<1>4. <<>> \o <<>> = <<>>
  BY <1>1, ConcatEmptySeq
<1>5. unacked' = Msgs(replies') \o inbox'
  BY <1>3, <1>4
<1> QED
  BY <1>5 DEF WorkerAndBrokerAgree, Msgs

LEMMA CloseEffect ==
  ASSUME Shape, ConnectionCloses
  PROVE  /\ Shape' /\ Pipeline' = Pipeline /\ Ahead' = Pipeline
         /\ replies' = <<>> /\ losses' = losses + 1
         /\ UNCHANGED <<dropped, sent, lost, processed>>
<1>1. /\ queue' = unacked \o queue /\ unacked' = <<>> /\ inbox' = <<>> /\ replies' = <<>>
      /\ losses' = losses + 1 /\ losses < MaxLosses /\ worker' = "closed"
      /\ UNCHANGED <<dropped, outbox, sent, lost, processed>>
  BY DEF ConnectionCloses, Requeue, history
<1>2. unacked \o queue \in Seq(Messages)
  BY PipelineSeq DEF Shape
<1>3. <<>> \o (unacked \o queue) = unacked \o queue
  BY <1>2, ConcatEmptySeq
<1>4. Pipeline' = Pipeline /\ Ahead' = Pipeline
  BY <1>1, <1>3 DEF Pipeline, Ahead
<1>5. TypeOK'
  BY <1>1, <1>2, EmptySeq, LossesAssumption DEF Shape, TypeOK
<1> QED
  BY <1>1, <1>4, <1>5, RequeueAgrees DEF Shape

LEMMA DieEffect ==
  ASSUME Shape, ProcessDies
  PROVE  /\ Shape' /\ Pipeline = Pipeline' \o outbox /\ Ahead' = Pipeline'
         /\ Pipeline' \in Seq(Messages)
         /\ replies' = <<>> /\ losses' = losses + 1 /\ lost' = lost \cup Range(outbox)
         /\ UNCHANGED <<dropped, sent, processed>>
<1>1. /\ queue' = unacked \o queue /\ unacked' = <<>> /\ inbox' = <<>> /\ replies' = <<>>
      /\ outbox' = <<>> /\ lost' = lost \cup Range(outbox)
      /\ losses' = losses + 1 /\ losses < MaxLosses /\ worker' = "down"
      /\ UNCHANGED <<dropped, sent, processed>>
  BY DEF ProcessDies, Requeue
<1>2. unacked \o queue \in Seq(Messages) /\ outbox \in Seq(Messages)
  BY PipelineSeq DEF Shape, TypeOK
<1>3. <<>> \o (unacked \o queue) = unacked \o queue /\ (unacked \o queue) \o <<>> = unacked \o queue
  BY <1>2, ConcatEmptySeq
<1>4. Pipeline' = unacked \o queue /\ Ahead' = unacked \o queue
  BY <1>1, <1>3 DEF Pipeline, Ahead
<1>5. TypeOK'
  <2>1. Range(outbox) \subseteq Messages
    BY <1>2, RangeOfSeq
  <2> QED
    BY <1>1, <1>2, <2>1, EmptySeq, LossesAssumption DEF Shape, TypeOK
<1> QED
  BY <1>1, <1>2, <1>4, <1>5, RequeueAgrees DEF Shape, Pipeline

LEMMA QuietEffect ==
  ASSUME Shape, WorkerStart \/ ConsumerCancelled \/ UNCHANGED vars
  PROVE  /\ Shape' /\ Pipeline' = Pipeline /\ Ahead' = Ahead
         /\ UNCHANGED <<replies, dropped, sent, lost, processed>>
         /\ losses' \in {losses, losses + 1}
<1>1. /\ UNCHANGED <<outbox, queue, unacked, inbox, replies, dropped, sent, lost, processed>>
      /\ losses' = losses \/ (losses < MaxLosses /\ losses' = losses + 1)
      /\ worker' \in {worker, "consuming", "cancelled"}
  BY DEF WorkerStart, ConsumerCancelled, vars, broker, client, history
<1>2. TypeOK'
  BY <1>1, LossesAssumption DEF Shape, TypeOK
<1>3. WorkerAndBrokerAgree'
  BY <1>1 DEF Shape, WorkerAndBrokerAgree
<1>4. Pipeline' = Pipeline /\ Ahead' = Ahead
  BY <1>1 DEF Pipeline, Ahead
<1> QED
  BY <1>1, <1>2, <1>3, <1>4 DEF Shape

-----------------------------------------------------------------------------
(* What each of these does to the invariant. *)

LEMMA RangesOfPipeline ==
  ASSUME Shape
  PROVE  Range(Ahead) \subseteq Range(Pipeline)
<1>1. Pipeline = Replied \o Ahead /\ Replied \in Seq(Messages) /\ Ahead \in Seq(Messages)
  BY PipelineSplit, ReplySeq, PipelineSeq DEF Shape
<1>2. Range(Replied \o Ahead) = Range(Replied) \cup Range(Ahead)
  BY <1>1, RangeConcatenation
<1> QED
  BY <1>1, <1>2

LEMMA AheadInjective ==
  ASSUME Inv
  PROVE  IsInjective(Pipeline) /\ IsInjective(Ahead)
<1>1. Pipeline = Replied \o Ahead /\ Replied \in Seq(Messages) /\ Ahead \in Seq(Messages)
  BY PipelineSplit, ReplySeq, PipelineSeq DEF Inv, Shape
<1>2. IsInjective(Pipeline)
  BY PipelineInjective DEF Inv, Shape
<1> QED
  BY <1>1, <1>2, PrefixInjective

LEMMA TimesFinite ==
  ASSUME processed \in Seq(Messages), NEW m
  PROVE  IsFiniteSet(Times(m)) /\ Cardinality(Times(m)) \in Nat
<1>1. Len(processed) \in Nat /\ DOMAIN processed = 1 .. Len(processed)
  BY LenProperties
<1>2. IsFiniteSet(1 .. Len(processed)) /\ Times(m) \in SUBSET (1 .. Len(processed))
  BY <1>1, FS_Interval DEF Times
<1> QED
  BY <1>2, FS_Subset, FS_CardinalityType

\* A lost channel makes room for one more repetition.
LEMMA LostChannelCounts ==
  ASSUME Inv, UNCHANGED <<sent, processed>>, losses' = losses + 1
  PROVE  Counted'
<1> SUFFICES ASSUME NEW m \in Messages
             PROVE  (Cardinality(Times(m)) <=
                       losses + IF m \in Range(sent) \ Range(Ahead) THEN 1 ELSE 0)'
  BY DEF Counted
<1>1. Times(m)' = Times(m)
  BY DEF Times
<1>2. Cardinality(Times(m)) <= losses + IF m \in Range(sent) \ Range(Ahead) THEN 1 ELSE 0
  BY DEF Inv, Counted
<1>3. Cardinality(Times(m)) \in Nat /\ losses \in Nat
  BY TimesFinite DEF Inv, Shape, TypeOK
<1> QED
  BY <1>1, <1>2, <1>3

\* Nothing moves but between the stations of the pipeline.
LEMMA QuietKeeps ==
  ASSUME Inv, Shape', Pipeline' = Pipeline, Ahead' = Ahead,
         UNCHANGED <<replies, dropped, sent, lost, processed>>,
         losses' \in {losses, losses + 1}
  PROVE  Inv'
<1>1. Told' /\ Places' /\ Ordered' /\ Waiting' /\ FirstInOrder'
  BY DEF Inv, Told, Places, Ordered, Waiting, FirstInOrder
<1>2. Counted'
  <2> SUFFICES ASSUME NEW m \in Messages
               PROVE  (Cardinality(Times(m)) <=
                         losses + IF m \in Range(sent) \ Range(Ahead) THEN 1 ELSE 0)'
    BY DEF Counted
  <2>1. Times(m)' = Times(m) /\ (Range(sent) \ Range(Ahead))' = Range(sent) \ Range(Ahead)
    BY DEF Times
  <2>2. Cardinality(Times(m)) <= losses + IF m \in Range(sent) \ Range(Ahead) THEN 1 ELSE 0
    BY DEF Inv, Counted
  <2>3. Cardinality(Times(m)) \in Nat /\ losses \in Nat
    BY TimesFinite DEF Inv, Shape, TypeOK
  <2> QED
    BY <2>1, <2>2, <2>3
<1> QED
  BY <1>1, <1>2 DEF Inv

LEMMA SendKeeps ==
  ASSUME Inv, NEW m \in Messages, SendToQueue(m)
  PROVE  Inv'
<1>1. /\ Shape' /\ Pipeline' = Append(Pipeline, m) /\ Ahead' = Append(Ahead, m)
      /\ sent' = Append(sent, m) /\ m \notin Range(sent)
      /\ UNCHANGED <<replies, dropped, lost, processed, losses>>
  BY SendEffect DEF Inv
<1>2. /\ Pipeline \in Seq(Messages) /\ Ahead \in Seq(Messages) /\ sent \in Seq(Messages)
      /\ processed \in Seq(Messages)
  BY PipelineSeq DEF Inv, Shape, TypeOK
<1>3. /\ Range(Pipeline)' = Range(Pipeline) \cup {m} /\ Range(Ahead)' = Range(Ahead) \cup {m}
      /\ Range(sent)' = Range(sent) \cup {m}
  BY <1>1, <1>2, RangeOfAppend
<1>4. /\ Len(sent) \in Nat /\ DOMAIN sent = 1 .. Len(sent)
      /\ DOMAIN sent' = 1 .. Len(sent) + 1 /\ sent'[Len(sent) + 1] = m
      /\ \A i \in 1 .. Len(sent) : sent'[i] = sent[i]
  BY <1>1, <1>2, AppendProperties, LenProperties
<1>5. /\ Len(Pipeline) \in Nat /\ DOMAIN Pipeline = 1 .. Len(Pipeline)
      /\ DOMAIN Pipeline' = 1 .. Len(Pipeline) + 1 /\ Pipeline'[Len(Pipeline) + 1] = m
      /\ \A i \in 1 .. Len(Pipeline) : Pipeline'[i] = Pipeline[i]
  BY <1>1, <1>2, AppendProperties, LenProperties
<1>6. \A i \in DOMAIN sent : sent[i] # m
  BY <1>1 DEF Range
<1>7. \A a \in DOMAIN Pipeline : Pipeline[a] # m
  BY <1>1 DEF Range, Inv, Places
<1>8. Told' /\ Places' /\ Waiting'
  <2>1. Told'
    BY <1>1 DEF Inv, Told
  <2>2. m \notin dropped \cup lost
    BY <1>1 DEF Inv, Places
  <2>3. Places'
    BY <1>1, <1>3, <2>2 DEF Inv, Places
  <2>4. Waiting'
    BY <1>1, <1>3 DEF Inv, Waiting
  <2> QED
    BY <2>1, <2>3, <2>4
<1>9. Ordered'
  <2>1. IsInjective(sent)'
    BY <1>4, <1>6 DEF Inv, Ordered, IsInjective
  <2>2. ASSUME NEW a \in DOMAIN Pipeline', NEW b \in DOMAIN Pipeline',
               NEW i \in DOMAIN sent', NEW j \in DOMAIN sent',
               a < b, Pipeline'[a] = sent'[i], Pipeline'[b] = sent'[j]
        PROVE  i < j
    <3>1. a \in DOMAIN Pipeline /\ Pipeline'[a] = Pipeline[a]
      BY <1>5, <2>2
    <3>2. i \in DOMAIN sent /\ sent'[i] = sent[i]
      <4>1. sent'[i] # m
        BY <1>7, <2>2, <3>1
      <4>2. i # Len(sent) + 1
        BY <1>4, <4>1
      <4>3. i \in 1 .. Len(sent)
        BY <1>4, <4>2
      <4> QED
        BY <1>4, <4>3
    <3>3. CASE b = Len(Pipeline) + 1
      <4>1. j = Len(sent) + 1
        BY <1>4, <1>5, <1>6, <2>2, <3>3
      <4> QED
        BY <1>4, <3>2, <4>1
    <3>4. CASE b # Len(Pipeline) + 1
      <4>1. b \in DOMAIN Pipeline /\ Pipeline'[b] = Pipeline[b]
        BY <1>5, <3>4
      <4>2. j \in DOMAIN sent /\ sent'[j] = sent[j]
        <5>1. sent'[j] # m
          BY <1>7, <2>2, <4>1
        <5>2. j # Len(sent) + 1
          BY <1>4, <5>1
        <5>3. j \in 1 .. Len(sent)
          BY <1>4, <5>2
        <5> QED
          BY <1>4, <5>3
      <4> QED
        BY <2>2, <3>1, <3>2, <4>1, <4>2 DEF Inv, Ordered
    <3> QED
      BY <3>3, <3>4
  <2> QED
    BY <2>1, <2>2 DEF Ordered
<1>10. FirstInOrder'
  <2> SUFFICES ASSUME NEW i \in DOMAIN sent', NEW j \in DOMAIN sent',
                      i < j, sent'[j] \in Range(processed), sent'[i] \notin lost \cup Malformed
               PROVE  \E k \in DOMAIN processed :
                        processed[k] = sent'[i] /\ sent'[j] \notin Range(SubSeq(processed, 1, k))
    BY <1>1 DEF FirstInOrder
  <2>1. sent'[j] \in Range(sent)
    BY DEF Inv, Places
  <2>2. j \in DOMAIN sent /\ i \in DOMAIN sent /\ sent'[i] = sent[i] /\ sent'[j] = sent[j]
    BY <1>1, <1>4, <2>1
  <2> QED
    BY <2>2 DEF Inv, FirstInOrder
<1>11. Counted'
  <2>1. ASSUME NEW x \in Messages
        PROVE  /\ Times(x)' = Times(x)
               /\ x \in (Range(sent) \ Range(Ahead))' <=> x \in Range(sent) \ Range(Ahead)
    BY <1>1, <1>3 DEF Times
  <2> QED
    BY <1>1, <2>1 DEF Inv, Counted
<1> QED
  BY <1>1, <1>8, <1>9, <1>10, <1>11 DEF Inv

LEMMA ReplyKeeps ==
  ASSUME Inv, BrokerGetsReply
  PROVE  Inv'
<1>1. /\ Shape' /\ Pipeline # <<>> /\ Pipeline' = Tail(Pipeline) /\ Ahead' = Ahead
      /\ replies \in Seq(Reply) /\ replies # <<>> /\ replies' = Tail(replies)
      /\ Head(replies).msg = Head(Pipeline)
      /\ dropped' = IF Head(replies).type = "nack" THEN dropped \cup {Head(Pipeline)} ELSE dropped
      /\ UNCHANGED <<sent, lost, processed, losses>>
  BY AheadInjective, ReplyEffect DEF Inv
<1>2. /\ Pipeline \in Seq(Messages) /\ IsInjective(Pipeline)
  BY PipelineSeq, AheadInjective DEF Inv, Shape
<1>3. Range(Pipeline) = {Head(Pipeline)} \cup Range(Pipeline') /\ Head(Pipeline) \notin Range(Pipeline')
  BY <1>1, <1>2, RangeOfTail, HeadNotInTail
<1>4. /\ Len(Pipeline) \in Nat /\ DOMAIN Pipeline = 1 .. Len(Pipeline)
      /\ DOMAIN Pipeline' = 1 .. Len(Pipeline) - 1
      /\ \A a \in 1 .. Len(Pipeline) - 1 : Pipeline'[a] = Pipeline[a + 1]
  BY <1>1, <1>2, HeadTailProperties, LenProperties
<1>5. /\ Len(replies) \in Nat /\ Len(replies) > 0 /\ DOMAIN replies = 1 .. Len(replies)
      /\ DOMAIN replies' = 1 .. Len(replies) - 1 /\ Head(replies) = replies[1]
      /\ \A a \in 1 .. Len(replies) - 1 : replies'[a] = replies[a + 1]
  BY <1>1, HeadTailProperties, LenProperties, EmptySeq
<1>6. Head(replies) \in Reply /\ (Head(replies).type = "ack" => Head(Pipeline) \in Range(processed))
                              /\ (Head(replies).type # "ack" => Head(Pipeline) \in Malformed)
  <2>1. 1 \in DOMAIN replies
    BY <1>5
  <2>2. IF Head(replies).type = "ack" THEN Head(replies).msg \in Range(processed)
                                     ELSE Head(replies).msg \in Malformed
    BY <1>5, <2>1 DEF Inv, Told
  <2> QED
    BY <1>1, <2>2, HeadTailProperties
<1>7. Head(replies).type \in {"ack", "nack"}
  BY <1>6 DEF Reply
<1>8. Told'
  <2> SUFFICES ASSUME NEW k \in DOMAIN replies'
               PROVE  IF replies'[k].type = "ack" THEN replies'[k].msg \in Range(processed)
                                                 ELSE replies'[k].msg \in Malformed
    BY <1>1 DEF Told
  <2>1. k + 1 \in DOMAIN replies /\ replies'[k] = replies[k + 1]
    BY <1>5
  <2> QED
    BY <2>1 DEF Inv, Told
<1>9. Places'
  BY <1>1, <1>3, <1>6, <1>7 DEF Inv, Places
<1>10. Ordered'
  <2>1. ASSUME NEW a \in DOMAIN Pipeline', NEW b \in DOMAIN Pipeline',
               NEW i \in DOMAIN sent, NEW j \in DOMAIN sent,
               a < b, Pipeline'[a] = sent[i], Pipeline'[b] = sent[j]
        PROVE  i < j
    <3>1. /\ a + 1 \in DOMAIN Pipeline /\ b + 1 \in DOMAIN Pipeline /\ a + 1 < b + 1
          /\ Pipeline[a + 1] = sent[i] /\ Pipeline[b + 1] = sent[j]
      BY <1>4, <2>1
    <3> QED
      BY <3>1 DEF Inv, Ordered
  <2> QED
    BY <1>1, <2>1 DEF Inv, Ordered
<1>11. Waiting' /\ FirstInOrder' /\ Counted'
  <2>1. Waiting'
    BY <1>1 DEF Inv, Waiting
  <2>2. FirstInOrder'
    BY <1>1 DEF Inv, FirstInOrder
  <2>3. Counted'
    BY <1>1 DEF Inv, Counted, Times
  <2> QED
    BY <2>1, <2>2, <2>3
<1> QED
  BY <1>1, <1>8, <1>9, <1>10, <1>11 DEF Inv

LEMMA CallbackKeepsOrder ==
  ASSUME Inv, Shape', Pipeline' = Pipeline, Ahead # <<>>, Ahead' = Tail(Ahead),
         Head(Ahead) \notin Malformed, processed' = Append(processed, Head(Ahead)),
         UNCHANGED <<sent, lost>>
  PROVE  FirstInOrder'
<1> DEFINE h == Head(Ahead)
<1>1. /\ Ahead \in Seq(Messages) /\ Replied \in Seq(Messages) /\ Pipeline = Replied \o Ahead
      /\ processed \in Seq(Messages) /\ h \in Messages
  BY PipelineSeq, ReplySeq, PipelineSplit, HeadTailProperties DEF Inv, Shape, TypeOK
<1>2. /\ Len(processed) \in Nat /\ DOMAIN processed = 1 .. Len(processed)
      /\ DOMAIN processed' = 1 .. Len(processed) + 1 /\ processed'[Len(processed) + 1] = h
      /\ \A k \in 1 .. Len(processed) : processed'[k] = processed[k]
  BY <1>1, AppendProperties, LenProperties
<1>3. ASSUME NEW k \in 1 .. Len(processed)
      PROVE  Range(SubSeq(processed', 1, k)) \subseteq Range(SubSeq(processed, 1, k))
  <2>1. \A i \in 1 .. k : processed[i] \in Messages /\ processed'[i] = processed[i]
    BY <1>1, <1>2, ElementOfSeq
  <2>2. /\ SubSeq(processed, 1, k) \in Seq(Messages) /\ Len(SubSeq(processed, 1, k)) = k
        /\ \A i \in 1 .. k : SubSeq(processed, 1, k)[i] = processed[i]
    BY <2>1, SubSeqProperties
  <2>3. /\ SubSeq(processed', 1, k) \in Seq(Messages) /\ Len(SubSeq(processed', 1, k)) = k
        /\ \A i \in 1 .. k : SubSeq(processed', 1, k)[i] = processed'[i]
    BY <2>1, SubSeqProperties
  <2>4. SubSeq(processed', 1, k) = SubSeq(processed, 1, k)
    BY <2>1, <2>2, <2>3, SeqEqual
  <2> QED
    BY <2>4
<1>4. ASSUME NEW k \in 1 .. Len(processed)
      PROVE  Range(SubSeq(processed, 1, k)) \subseteq Range(processed)
  <2>1. \A i \in 1 .. k : processed[i] \in Messages /\ i \in DOMAIN processed
    BY <1>1, <1>2, ElementOfSeq
  <2>2. /\ SubSeq(processed, 1, k) \in Seq(Messages) /\ Len(SubSeq(processed, 1, k)) = k
        /\ \A i \in 1 .. k : SubSeq(processed, 1, k)[i] = processed[i]
    BY <2>1, SubSeqProperties
  <2>3. DOMAIN SubSeq(processed, 1, k) = 1 .. k
    BY <2>2, LenProperties
  <2> QED
    BY <2>1, <2>2, <2>3 DEF Range
<1> SUFFICES ASSUME NEW i \in DOMAIN sent, NEW j \in DOMAIN sent, i < j,
                    sent[j] \in Range(processed'), sent[i] \notin lost \cup Malformed
             PROVE  \E k \in DOMAIN processed' :
                      processed'[k] = sent[i] /\ sent[j] \notin Range(SubSeq(processed', 1, k))
  BY DEF FirstInOrder
<1>5. CASE sent[j] \in Range(processed)
  <2>1. PICK k \in DOMAIN processed :
          processed[k] = sent[i] /\ sent[j] \notin Range(SubSeq(processed, 1, k))
    BY <1>5 DEF Inv, FirstInOrder
  <2>2. k \in DOMAIN processed' /\ processed'[k] = sent[i]
    BY <1>2, <2>1
  <2>3. sent[j] \notin Range(SubSeq(processed', 1, k))
    BY <1>2, <1>3, <2>1
  <2> QED
    BY <2>2, <2>3
<1>6. CASE sent[j] \notin Range(processed)
  <2>1. sent[j] = h
    <3>1. PICK k \in DOMAIN processed' : processed'[k] = sent[j]
      BY DEF Range
    <3>2. k \notin DOMAIN processed
      BY <1>2, <1>6, <3>1 DEF Range
    <3>3. k = Len(processed) + 1
      BY <1>2, <3>2
    <3> QED
      BY <1>2, <3>1, <3>3
  <2>2. sent[i] \in Range(processed)
    <3> SUFFICES ASSUME sent[i] \notin Range(processed) PROVE FALSE
      OBVIOUS
    <3>1. sent[i] \in Range(Ahead)
      BY DEF Inv, Waiting, Range
    <3>2. PICK b \in DOMAIN Ahead : Ahead[b] = sent[i]
      BY <3>1 DEF Range
    <3>3. sent[i] # h
      <4>1. i \in Nat /\ j \in Nat
        BY LenProperties DEF Inv, Shape, TypeOK
      <4>2. sent[i] = sent[j] => i = j
        BY DEF Inv, Ordered, IsInjective
      <4> QED
        BY <2>1, <4>1, <4>2
    <3>4. /\ Len(Ahead) \in Nat /\ Len(Ahead) > 0 /\ DOMAIN Ahead = 1 .. Len(Ahead)
          /\ Ahead[1] = h /\ Len(Replied) \in Nat
      BY <1>1, LenProperties, EmptySeq
    <3>5. b \in 1 .. Len(Ahead) /\ b > 1
      BY <3>2, <3>3, <3>4
    <3>6. /\ DOMAIN Pipeline = 1 .. Len(Replied) + Len(Ahead)
          /\ \A k \in 1 .. Len(Replied) + Len(Ahead) :
               Pipeline[k] = IF k <= Len(Replied) THEN Replied[k] ELSE Ahead[k - Len(Replied)]
      BY <1>1, ConcatProperties, LenProperties
    <3>7. /\ Len(Replied) + 1 \in DOMAIN Pipeline /\ Pipeline[Len(Replied) + 1] = sent[j]
          /\ Len(Replied) + b \in DOMAIN Pipeline /\ Pipeline[Len(Replied) + b] = sent[i]
          /\ Len(Replied) + 1 < Len(Replied) + b
      <4>1. /\ Len(Replied) + 1 \in 1 .. Len(Replied) + Len(Ahead)
            /\ ~(Len(Replied) + 1 <= Len(Replied)) /\ Len(Replied) + 1 - Len(Replied) = 1
            /\ Len(Replied) + b \in 1 .. Len(Replied) + Len(Ahead)
            /\ ~(Len(Replied) + b <= Len(Replied)) /\ Len(Replied) + b - Len(Replied) = b
            /\ Len(Replied) + 1 < Len(Replied) + b
        BY <3>4, <3>5
      <4> QED
        BY <2>1, <3>2, <3>4, <3>6, <4>1
    <3>8. j < i
      BY <3>7 DEF Inv, Ordered
    <3>9. i \in Nat /\ j \in Nat
      BY LenProperties DEF Inv, Shape, TypeOK
    <3> QED
      BY <3>8, <3>9
  <2>3. PICK k \in DOMAIN processed : processed[k] = sent[i]
    BY <2>2 DEF Range
  <2>4. k \in 1 .. Len(processed) /\ k \in DOMAIN processed' /\ processed'[k] = sent[i]
    BY <1>2, <2>3
  <2>5. sent[j] \notin Range(SubSeq(processed', 1, k))
    BY <1>3, <1>4, <1>6, <2>4
  <2> QED
    BY <2>4, <2>5
<1> QED
  BY <1>5, <1>6

LEMMA CallbackKeeps ==
  ASSUME Inv, Callback
  PROVE  Inv'
<1> DEFINE h == Head(Ahead)
           r == [msg |-> h, type |-> IF h \in Malformed THEN "nack" ELSE "ack"]
<1>1. /\ Shape' /\ Pipeline' = Pipeline /\ Ahead # <<>> /\ Ahead' = Tail(Ahead)
      /\ processed' = IF h \in Malformed THEN processed ELSE Append(processed, h)
      /\ replies' = Append(replies, r)
      /\ UNCHANGED <<dropped, sent, lost, losses>>
  BY CallbackEffect DEF Inv
<1>2. /\ Ahead \in Seq(Messages) /\ IsInjective(Ahead) /\ processed \in Seq(Messages)
      /\ replies \in Seq(Reply) /\ h \in Messages /\ r \in Reply
  <2>1. Ahead \in Seq(Messages) /\ processed \in Seq(Messages) /\ replies \in Seq(Reply)
    BY PipelineSeq, ReplySeq DEF Inv, Shape, TypeOK
  <2>2. h \in Messages
    BY <1>1, <2>1, HeadTailProperties
  <2>3. r \in Reply
    BY <2>2 DEF Reply
  <2> QED
    BY <2>1, <2>2, <2>3, AheadInjective
<1> HIDE DEF h
<1>3. Range(Ahead) = {h} \cup Range(Ahead') /\ h \notin Range(Ahead')
  BY <1>1, <1>2, RangeOfTail, HeadNotInTail DEF h
<1>4. Range(processed') = Range(processed) \cup (IF h \in Malformed THEN {} ELSE {h})
  BY <1>1, <1>2, RangeOfAppend
<1>5. h \in Range(Pipeline) /\ h \in Range(sent)
  BY <1>3, RangesOfPipeline DEF Inv, Places
<1>6. Told'
  <2>1. /\ Len(replies) \in Nat /\ DOMAIN replies = 1 .. Len(replies)
        /\ DOMAIN replies' = 1 .. Len(replies) + 1 /\ replies'[Len(replies) + 1] = r
        /\ \A k \in 1 .. Len(replies) : replies'[k] = replies[k]
    BY <1>1, <1>2, AppendProperties, LenProperties
  <2> SUFFICES ASSUME NEW k \in DOMAIN replies'
               PROVE  IF replies'[k].type = "ack" THEN replies'[k].msg \in Range(processed')
                                                 ELSE replies'[k].msg \in Malformed
    BY DEF Told
  <2>2. CASE k = Len(replies) + 1
    BY <1>4, <2>1, <2>2
  <2>3. CASE k # Len(replies) + 1
    <3>1. k \in DOMAIN replies /\ replies'[k] = replies[k]
      BY <2>1, <2>3
    <3> QED
      BY <1>4, <3>1 DEF Inv, Told
  <2> QED
    BY <2>2, <2>3
<1>7. Places'
  BY <1>1, <1>4, <1>5 DEF Inv, Places
<1>8. Ordered'
  BY <1>1 DEF Inv, Ordered
<1>9. Waiting'
  BY <1>1, <1>3, <1>4 DEF Inv, Waiting
<1>10. FirstInOrder'
  <2>1. CASE h \in Malformed
    BY <1>1, <2>1 DEF Inv, FirstInOrder
  <2>2. CASE h \notin Malformed
    BY <1>1, <2>2, CallbackKeepsOrder DEF h
  <2> QED
    BY <2>1, <2>2
<1>11. Counted'
  <2> SUFFICES ASSUME NEW m \in Messages
               PROVE  (Cardinality(Times(m)) <=
                         losses + IF m \in Range(sent) \ Range(Ahead) THEN 1 ELSE 0)'
    BY DEF Counted
  <2>1. Cardinality(Times(m)) <= losses + IF m \in Range(sent) \ Range(Ahead) THEN 1 ELSE 0
    BY DEF Inv, Counted
  <2>2. /\ IsFiniteSet(Times(m)) /\ Cardinality(Times(m)) \in Nat /\ losses \in Nat
    BY <1>2, TimesFinite DEF Inv, Shape, TypeOK
  <2>3. CASE m = h /\ h \notin Malformed
    <3>1. /\ Len(processed) \in Nat /\ DOMAIN processed = 1 .. Len(processed)
          /\ DOMAIN processed' = 1 .. Len(processed) + 1 /\ processed'[Len(processed) + 1] = h
          /\ \A k \in 1 .. Len(processed) : processed'[k] = processed[k]
      BY <1>1, <1>2, <2>3, AppendProperties, LenProperties
    <3>2. Times(m)' = Times(m) \cup {Len(processed) + 1}
      BY <2>3, <3>1 DEF Times
    <3>3. Cardinality(Times(m)') <= Cardinality(Times(m)) + 1 /\ Cardinality(Times(m)') \in Nat
      BY <2>2, <3>2, FS_AddElement
    <3>4. m \in Range(Ahead) /\ m \in Range(sent') \ Range(Ahead')
      BY <1>1, <1>3, <1>5, <2>3
    <3> QED
      BY <1>1, <2>1, <2>2, <3>3, <3>4
  <2>4. CASE m = h /\ h \in Malformed
    <3>1. Times(m)' = Times(m)
      BY <1>1, <2>4 DEF Times
    <3> QED
      BY <1>1, <1>3, <2>1, <2>2, <2>4, <3>1
  <2>5. CASE m # h
    <3>1. Times(m)' = Times(m)
      <4>1. CASE h \in Malformed
        BY <1>1, <4>1 DEF Times
      <4>2. CASE h \notin Malformed
        <5>1. /\ Len(processed) \in Nat /\ DOMAIN processed = 1 .. Len(processed)
              /\ DOMAIN processed' = 1 .. Len(processed) + 1 /\ processed'[Len(processed) + 1] = h
              /\ \A k \in 1 .. Len(processed) : processed'[k] = processed[k]
          BY <1>1, <1>2, <4>2, AppendProperties, LenProperties
        <5> QED
          BY <2>5, <5>1 DEF Times
      <4> QED
        BY <4>1, <4>2
    <3>2. m \in Range(Ahead) <=> m \in Range(Ahead')
      BY <1>3, <2>5
    <3> QED
      BY <1>1, <2>1, <3>1, <3>2
  <2> QED
    BY <2>3, <2>4, <2>5
<1> QED
  BY <1>1, <1>6, <1>7, <1>8, <1>9, <1>10, <1>11 DEF Inv

LEMMA CloseKeeps ==
  ASSUME Inv, ConnectionCloses
  PROVE  Inv'
<1>1. /\ Shape' /\ Pipeline' = Pipeline /\ Ahead' = Pipeline
      /\ replies' = <<>> /\ losses' = losses + 1
      /\ UNCHANGED <<dropped, sent, lost, processed>>
  BY CloseEffect DEF Inv
<1>2. Range(Ahead) \subseteq Range(Ahead')
  BY <1>1, RangesOfPipeline DEF Inv
<1>3. Told' /\ Places' /\ Ordered' /\ FirstInOrder'
  BY <1>1 DEF Inv, Told, Places, Ordered, FirstInOrder
<1>4. Waiting'
  BY <1>1, <1>2 DEF Inv, Waiting
<1>5. Counted'
  BY <1>1, LostChannelCounts
<1> QED
  BY <1>1, <1>3, <1>4, <1>5 DEF Inv

LEMMA DieKeeps ==
  ASSUME Inv, ProcessDies
  PROVE  Inv'
<1>1. /\ Shape' /\ Pipeline = Pipeline' \o outbox /\ Ahead' = Pipeline'
      /\ Pipeline' \in Seq(Messages)
      /\ replies' = <<>> /\ losses' = losses + 1 /\ lost' = lost \cup Range(outbox)
      /\ UNCHANGED <<dropped, sent, processed>>
  BY DieEffect DEF Inv
<1>2. /\ Pipeline' \in Seq(Messages) /\ outbox \in Seq(Messages) /\ Pipeline \in Seq(Messages)
      /\ IsInjective(Pipeline)
  BY <1>1, PipelineSeq, AheadInjective DEF Inv, Shape, TypeOK
<1>3. Range(Pipeline) = Range(Pipeline') \cup Range(outbox)
  BY <1>1, <1>2, RangeConcatenation
<1>4. /\ Len(Pipeline') \in Nat /\ Len(outbox) \in Nat
      /\ DOMAIN Pipeline' = 1 .. Len(Pipeline') /\ DOMAIN outbox = 1 .. Len(outbox)
      /\ DOMAIN Pipeline = 1 .. Len(Pipeline') + Len(outbox)
      /\ \A k \in 1 .. Len(Pipeline') + Len(outbox) :
           Pipeline[k] = IF k <= Len(Pipeline') THEN Pipeline'[k] ELSE outbox[k - Len(Pipeline')]
  BY <1>1, <1>2, ConcatProperties, LenProperties
<1>5. \A k \in DOMAIN Pipeline' : k \in DOMAIN Pipeline /\ Pipeline[k] = Pipeline'[k]
  BY <1>4
<1>6. Range(Pipeline') \cap Range(outbox) = {}
  <2> SUFFICES ASSUME NEW a \in DOMAIN Pipeline', NEW b \in DOMAIN outbox, Pipeline'[a] = outbox[b]
               PROVE  FALSE
    BY DEF Range
  <2>1. /\ Len(Pipeline') + b \in 1 .. Len(Pipeline') + Len(outbox)
        /\ ~(Len(Pipeline') + b <= Len(Pipeline')) /\ Len(Pipeline') + b - Len(Pipeline') = b
        /\ a # Len(Pipeline') + b
    BY <1>4
  <2>2. Pipeline[Len(Pipeline') + b] = outbox[b] /\ Len(Pipeline') + b \in DOMAIN Pipeline
    BY <1>4, <2>1
  <2>3. a = Len(Pipeline') + b
    BY <1>2, <1>5, <2>2 DEF IsInjective
  <2> QED
    BY <2>1, <2>3
<1>7. Told' /\ FirstInOrder'
  BY <1>1 DEF Inv, Told, FirstInOrder
<1>8. Places'
  BY <1>1, <1>3, <1>6 DEF Inv, Places
<1>9. Ordered'
  <2>1. ASSUME NEW a \in DOMAIN Pipeline', NEW b \in DOMAIN Pipeline',
               NEW i \in DOMAIN sent, NEW j \in DOMAIN sent,
               a < b, Pipeline'[a] = sent[i], Pipeline'[b] = sent[j]
        PROVE  i < j
    BY <1>5, <2>1 DEF Inv, Ordered
  <2> QED
    BY <1>1, <2>1 DEF Inv, Ordered
<1>10. Waiting'
  <2>1. Range(Ahead) \subseteq Range(Pipeline)
    BY RangesOfPipeline DEF Inv
  <2> QED
    BY <1>1, <1>3, <2>1 DEF Inv, Waiting
<1>11. Counted'
  BY <1>1, LostChannelCounts
<1> QED
  BY <1>1, <1>7, <1>8, <1>9, <1>10, <1>11 DEF Inv

-----------------------------------------------------------------------------
(* What the runs check on three messages, for every instance. *)

LEMMA InvInit == Init => Inv
<1> SUFFICES ASSUME Init PROVE Inv
  OBVIOUS
<1>1. /\ outbox = <<>> /\ queue = <<>> /\ unacked = <<>> /\ inbox = <<>> /\ replies = <<>>
      /\ sent = <<>> /\ processed = <<>> /\ dropped = {} /\ lost = {} /\ losses = 0
      /\ worker = "down"
  BY DEF Init
<1>2. /\ <<>> \in Seq(Messages) /\ <<>> \in Seq(Reply) /\ DOMAIN <<>> = {}
  BY EmptySeq
<1>3. Range(<<>>) = {}
  BY <1>2 DEF Range
<1>4. <<>> \o <<>> = <<>>
  BY <1>2, ConcatEmptySeq
<1>5. Pipeline = <<>> /\ Ahead = <<>>
  BY <1>1, <1>4 DEF Pipeline, Ahead
<1>6. TypeOK
  BY <1>1, <1>2, LossesAssumption DEF TypeOK, Reply
<1>7. WorkerAndBrokerAgree
  <2>1. Msgs(<<>>) \in Seq(Messages) /\ Len(Msgs(<<>>)) = 0
    BY <1>2, MsgsOfReplies, EmptySeq
  <2>2. Msgs(<<>>) = <<>>
    BY <2>1, EmptySeq
  <2> QED
    BY <1>1, <1>4, <2>2, Agreement DEF Replied
<1>8. Told /\ Places /\ Waiting /\ Ordered /\ FirstInOrder
  BY <1>1, <1>2, <1>3, <1>5 DEF Told, Places, Waiting, Ordered, FirstInOrder, IsInjective
<1>9. Counted
  <2> SUFFICES ASSUME NEW m \in Messages
               PROVE  Cardinality(Times(m)) <= losses + IF m \in Range(sent) \ Range(Ahead) THEN 1 ELSE 0
    BY DEF Counted
  <2>1. Times(m) = {}
    BY <1>1, <1>2 DEF Times
  <2> QED
    BY <1>1, <1>3, <2>1, FS_EmptySet
<1> QED
  BY <1>6, <1>7, <1>8, <1>9 DEF Inv, Shape

LEMMA InvNext == Inv /\ [Next]_vars => Inv'
<1> SUFFICES ASSUME Inv, [Next]_vars PROVE Inv'
  OBVIOUS
<1>1. ASSUME NEW m \in Messages, SendToQueue(m) PROVE Inv'
  BY <1>1, SendKeeps
<1>2. CASE OutboxReachesQueue
  BY <1>2, OutboxEffect, QuietKeeps DEF Inv
<1>3. CASE Deliver
  BY <1>3, DeliverEffect, QuietKeeps DEF Inv
<1>4. CASE WorkerStart \/ ConsumerCancelled \/ UNCHANGED vars
  BY <1>4, QuietEffect, QuietKeeps DEF Inv
<1>5. CASE Callback
  BY <1>5, CallbackKeeps
<1>6. CASE BrokerGetsReply
  BY <1>6, ReplyKeeps
<1>7. CASE ConnectionCloses
  BY <1>7, CloseKeeps
<1>8. CASE ProcessDies
  BY <1>8, DieKeeps
<1> QED
  BY <1>1, <1>2, <1>3, <1>4, <1>5, <1>6, <1>7, <1>8 DEF Next, Progress

LEMMA InvHolds == Spec => []Inv
BY InvInit, InvNext, PTL DEF Spec

\* Every variable keeps its type, the worker's and the broker's alike.
THEOREM TypeCorrect == Spec => []TypeOK
<1>1. Inv => TypeOK
  BY DEF Inv, Shape
<1> QED
  BY <1>1, InvHolds, PTL

\* The broker holds for the worker what the callback has yet to see and what
\* the worker has answered, in that order, however channels are lost.
THEOREM WorkerKeepsStep == Spec => []WorkerAndBrokerAgree
<1>1. Inv => WorkerAndBrokerAgree
  BY DEF Inv, Shape
<1> QED
  BY <1>1, InvHolds, PTL

\* A message is never in two places of the pipeline, nor there and gone.
THEOREM OnePlace == Spec => []InOnePlace
<1>1. Inv => InOnePlace
  BY AheadInjective DEF Inv, Places, InOnePlace
<1> QED
  BY <1>1, InvHolds, PTL

\* Nothing leaves RabbitMQ but processed or malformed.
THEOREM NothingLeavesUnseen == Spec => []LeavesForAReason
<1>1. Inv => LeavesForAReason
  BY DEF Inv, Places, LeavesForAReason, Acked
<1> QED
  BY <1>1, InvHolds, PTL

\* A message is processed once, and once more for each channel lost.
THEOREM RepeatsAreLosses == Spec => []RepeatsNeedLosses
<1>1. Inv => RepeatsNeedLosses
  <2> SUFFICES ASSUME Inv, NEW m \in Messages PROVE Cardinality(Times(m)) <= losses + 1
    BY DEF RepeatsNeedLosses, Times
  <2>1. Cardinality(Times(m)) <= losses + IF m \in Range(sent) \ Range(Ahead) THEN 1 ELSE 0
    BY DEF Inv, Counted
  <2>2. Cardinality(Times(m)) \in Nat /\ losses \in Nat
    BY TimesFinite DEF Inv, Shape, TypeOK
  <2> QED
    BY <2>1, <2>2
<1> QED
  BY <1>1, InvHolds, PTL

\* Messages are first processed in the order they were handed over.
THEOREM OrderIsKept == Spec => []FirstInOrder
<1>1. Inv => FirstInOrder
  BY DEF Inv
<1> QED
  BY <1>1, InvHolds, PTL
=============================================================================
