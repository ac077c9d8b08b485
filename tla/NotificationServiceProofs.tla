--------------------- MODULE NotificationServiceProofs ---------------------
(***************************************************************************)
(* Proofs about NotificationService, for every value of its constants: its *)
(* types; its safety properties, from one inductive invariant, Safe; that  *)
(* it implements SendContract.                                             *)
(***************************************************************************)
EXTENDS NotificationService, TLAPS

-----------------------------------------------------------------------------
(* What the operators return. *)

\* Rendering with all the variables a source needs gives a rendered text.
LEMMA RenderType ==
  ASSUME NEW t \in Texts, NEW v \in Variables, Renders(t, v)
  PROVE  Render(t, v) \in Rendered
<1>1. PICK D \in SUBSET Vars : v \in [D -> Values]
  BY DEF Variables
<1>2. [x \in Needs[t] |-> v[x]] \in [Needs[t] -> Values]
  BY <1>1 DEF Renders
<1>3. Render(t, v) \in [text : {t}, values : [Needs[t] -> Values]]
  BY <1>2 DEF Render
<1> QED
  BY <1>3 DEF Rendered

\* What a call has in hand, by the await it stands at.
LocalsOK(c) ==
  /\ pc[c] # "idle" => req[c] \in Requests
  /\ pc[c] \in {"checkPreferences", "create", "publish", "markFailed"} =>
       template[c] \in TemplateDocs
  /\ pc[c] = "create" => Renderable(c)
  /\ pc[c] \in {"publish", "markFailed"} =>
       noti[c] \in Created /\ noti[c].doc.status = "pending"

Typed == TypeOK /\ \A c \in Calls : LocalsOK(c)

\* The channel of a request, or else of the template, is a channel's name.
LEMMA ChannelOfType ==
  ASSUME NEW c \in Calls, req[c] \in Requests, template[c] \in TemplateDocs
  PROVE  ChannelOf(c) \in OpenChannels
BY RequestsAssumption, DocsAssumption
DEF ChannelOf, RequestType, TemplateType, OpenChannels, Channels, Queues

\* The document a call inserts is a notification.
LEMMA NotiDataType ==
  ASSUME NEW c \in Calls, req[c] \in Requests, template[c] \in TemplateDocs,
         Renderable(c), AllowedByEnum(ChannelOf(c))
  PROVE  NotiData(c) \in Notification
<1>1. /\ req[c].customer_id \in Customers
      /\ req[c].variables \in Variables
      /\ template[c].bodyTemplate \in Texts
      /\ template[c].subject \in Texts \cup {None}
  BY RequestsAssumption, DocsAssumption DEF RequestType, TemplateType
<1>2. Render(template[c].bodyTemplate, req[c].variables) \in Rendered
  BY <1>1, RenderType DEF Renderable
<1>3. template[c].subject # None =>
        Render(template[c].subject, req[c].variables) \in Rendered
  BY <1>1, RenderType DEF Renderable
<1>4. ChannelOf(c) \in Channels
  BY DEF AllowedByEnum
<1> QED
  BY <1>1, <1>2, <1>3, <1>4 DEF NotiData, Notification

\* Setting a status keeps every document a notification.
LEMMA UpdateStatusType ==
  ASSUME NEW i, NEW status \in {"pending", "failed", "read"},
         notifications \in [ObjectIds -> Notification \cup {None}]
  PROVE  UpdateStatus(i, status) \in [ObjectIds -> Notification \cup {None}]
BY DEF UpdateStatus, Notification

\* A call that settles, or goes on, leaves pc and answer well typed.
LEMMA SettleType ==
  ASSUME TypeOK, NEW c \in Calls,
         NEW status \in {"pending", "failed", "error"}, NEW i \in ObjectIds \cup {None},
         Settle(c, status, i)
  PROVE  /\ pc' \in [Calls -> Awaits \cup {"idle", "answered", "crashed"}]
         /\ answer' \in [Calls -> Answer]
<1>1. [status |-> status, notificationId |-> i] \in Answer
  BY DEF Answer
<1> QED
  BY <1>1 DEF TypeOK, Settle

\* A call that goes on to another await leaves pc and answer well typed.
LEMMA GotoType ==
  ASSUME TypeOK, NEW c \in Calls, NEW await \in Awaits, Goto(c, await)
  PROVE  /\ pc' \in [Calls -> Awaits \cup {"idle", "answered", "crashed"}]
         /\ answer' \in [Calls -> Answer]
BY DEF TypeOK, Goto

-----------------------------------------------------------------------------
(* Type correctness. *)

\* Initial states are well typed.
LEMMA TypedInit == Init => Typed
BY DEF Init, Typed, TypeOK, LocalsOK, BootChannel, Answer, Awaits

\* Every action keeps the types.
LEMMA TypedStep == Typed /\ [Next]_vars => Typed'
<1> SUFFICES ASSUME Typed, [Next]_vars PROVE Typed'
  OBVIOUS
<1> USE DEF Typed, Awaits
<1>1. ASSUME NEW c \in Calls, NEW r \in Requests, SendNotification(c, r)
      PROVE  Typed'
  <2>1. EnabledChannels(preferences[r.customer_id]) \in SUBSET Channels
    BY DEF EnabledChannels
  <2>2. ActiveDocs(templates[r.template_name]) \in SUBSET TemplateDocs
    BY <1>1, RequestsAssumption DEF ActiveDocs, TypeOK, RequestType
  <2>3. TypeOK'
    BY <1>1, <2>1, <2>2
    DEF SendNotification, TypeOK, Goto, database, broker
  <2>4. \A d \in Calls : LocalsOK(d)'
    BY <1>1 DEF SendNotification, TypeOK, LocalsOK, Goto, Renderable, database, broker
  <2> QED
    BY <2>3, <2>4
<1>2. ASSUME NEW c \in Calls, FindTemplate(c)
      PROVE  Typed'
  <2>1. req[c].template_name \in TemplateNames
    BY <1>2, RequestsAssumption DEF FindTemplate, LocalsOK, RequestType
  <2>8. /\ pc' \in [Calls -> Awaits \cup {"idle", "answered", "crashed"}]
        /\ answer' \in [Calls -> Answer]
    BY <1>2, SettleType, GotoType DEF FindTemplate, Throw
  <2>9. template' \in [Calls -> TemplateDocs \cup {None}]
    BY <1>2, <2>1 DEF FindTemplate, TypeOK
  <2>2. TypeOK'
    BY <1>2, <2>8, <2>9 DEF FindTemplate, TypeOK, database, broker, history
  <2>3. \A d \in Calls : LocalsOK(d)'
    BY <1>2, <2>1
    DEF FindTemplate, TypeOK, TemplateUsable, LocalsOK, Goto, Throw, Settle, Renderable
  <2> QED
    BY <2>2, <2>3
<1>3. ASSUME NEW c \in Calls, CheckPreferences(c)
      PROVE  Typed'
  <2>8. /\ pc' \in [Calls -> Awaits \cup {"idle", "answered", "crashed"}]
        /\ answer' \in [Calls -> Answer]
    BY <1>3, SettleType, GotoType DEF CheckPreferences, Throw
  <2>1. TypeOK'
    BY <1>3, <2>8 DEF CheckPreferences, TypeOK, database, broker, locals, history
  <2>2. \A d \in Calls : LocalsOK(d)'
    BY <1>3
    DEF CheckPreferences, TypeOK, LocalsOK, Goto, Throw, Settle, Renderable, locals
  <2> QED
    BY <2>1, <2>2
<1>4. ASSUME NEW c \in Calls, CreateNotification(c)
      PROVE  Typed'
  <2>8. req[c] \in Requests /\ template[c] \in TemplateDocs /\ Renderable(c)
    BY <1>4 DEF CreateNotification, LocalsOK
  <2>1. AllowedByEnum(ChannelOf(c)) => NotiData(c) \in Notification
    BY <2>8, NotiDataType
  <2>2. ASSUME NEW i \in ObjectIds, NotiData(c) \in Notification
        PROVE  /\ ToObject(i, NotiData(c)) \in Created
               /\ ToObject(i, NotiData(c)).doc.status = "pending"
    BY <2>2 DEF ToObject, Created, NotiData
  <2>9. /\ pc' \in [Calls -> Awaits \cup {"idle", "answered", "crashed"}]
        /\ answer' \in [Calls -> Answer]
    BY <1>4, SettleType, GotoType DEF CreateNotification, Throw
  <2>10. /\ notifications' \in [ObjectIds -> Notification \cup {None}]
        /\ noti' \in [Calls -> Created \cup {None}]
    BY <1>4, <2>1, <2>2 DEF CreateNotification, TypeOK
  <2>3. TypeOK'
    BY <1>4, <2>9, <2>10 DEF CreateNotification, TypeOK, broker, history
  <2>4. \A d \in Calls : LocalsOK(d)'
    BY <1>4, <2>1, <2>2
    DEF CreateNotification, TypeOK, LocalsOK, Goto, Throw, Settle, Renderable
  <2> QED
    BY <2>3, <2>4
<1>5. ASSUME NEW c \in Calls, Publish(c)
      PROVE  Typed'
  <2>1. noti[c] \in Created /\ noti[c].doc.status = "pending"
    BY <1>5 DEF Publish, LocalsOK
  <2>2. Payload(c) \in Message
    BY <2>1 DEF Created, Notification, Payload, Message, Queues, Channels
  <2>3. /\ pc' \in [Calls -> Awaits \cup {"idle", "answered", "crashed"}]
        /\ answer' \in [Calls -> Answer]
    BY <1>5, <2>1, SettleType, GotoType DEF Publish, Created
  <2>4. published' \in Seq(Message)
    <3>1. published \in Seq(Message) /\ Append(published, Payload(c)) \in Seq(Message)
      BY <2>2 DEF TypeOK
    <3> QED
      BY <1>5, <3>1 DEF Publish
  <2>5. TypeOK'
    BY <1>5, <2>3, <2>4 DEF Publish, TypeOK, database, locals, history
  <2>6. \A d \in Calls : LocalsOK(d)'
    BY <1>5
    DEF Publish, TypeOK, LocalsOK, Goto, Settle, Renderable, locals
  <2> QED
    BY <2>5, <2>6
<1>6. ASSUME NEW c \in Calls, MarkFailed(c)
      PROVE  Typed'
  <2>1. noti[c]._id \in ObjectIds \cup {None}
    BY <1>6 DEF MarkFailed, LocalsOK, Created
  <2>2. notifications' \in [ObjectIds -> Notification \cup {None}]
    BY <1>6, UpdateStatusType DEF MarkFailed, TypeOK
  <2>8. /\ pc' \in [Calls -> Awaits \cup {"idle", "answered", "crashed"}]
        /\ answer' \in [Calls -> Answer]
    BY <1>6, <2>1, SettleType DEF MarkFailed, Throw
  <2>3. TypeOK'
    BY <1>6, <2>8, <2>2 DEF MarkFailed, TypeOK, broker, locals, history
  <2>4. \A d \in Calls : LocalsOK(d)'
    BY <1>6
    DEF MarkFailed, TypeOK, LocalsOK, Throw, Settle, Renderable, locals
  <2> QED
    BY <2>3, <2>4
<1>7. ASSUME NEW i \in ObjectIds, MarkAsRead(i)
      PROVE  Typed'
  <2>1. notifications' \in [ObjectIds -> Notification \cup {None}]
    BY <1>7, UpdateStatusType DEF MarkAsRead, TypeOK
  <2> QED
    BY <1>7, <2>1 DEF MarkAsRead, TypeOK, LocalsOK, Renderable, broker, locals, history
<1>8. ASSUME NEW n \in TemplateNames, NEW t \in TemplateDocs \cup {None}, ChangeTemplate(n, t)
      PROVE  Typed'
  <2>1. ActiveDocs(t) \in SUBSET TemplateDocs
    BY DEF ActiveDocs
  <2> QED
    BY <1>8, <2>1 DEF ChangeTemplate, TypeOK, LocalsOK, Renderable, broker, locals
<1>9. ASSUME NEW u \in Customers, NEW p \in PreferenceDocs \cup {None}, ChangePreferences(u, p)
      PROVE  Typed'
  <2>1. EnabledChannels(p) \in SUBSET Channels
    BY DEF EnabledChannels
  <2> QED
    BY <1>9, <2>1 DEF ChangePreferences, TypeOK, LocalsOK, Renderable, broker, locals
<1>10. CASE ChannelCloses
  BY <1>10 DEF ChannelCloses, TypeOK, LocalsOK, Renderable, database, locals, history
<1>11. CASE CrashRestart
  BY <1>11 DEF CrashRestart, TypeOK, LocalsOK, Renderable, BootChannel, database, locals, history
<1>12. CASE UNCHANGED vars
  BY <1>12 DEF vars, TypeOK, LocalsOK, Renderable, database, broker, locals, history
<1> QED
  BY <1>1, <1>2, <1>3, <1>4, <1>5, <1>6, <1>7, <1>8, <1>9, <1>10, <1>11, <1>12
  DEF Next, Continue

\* Every variable always holds a value of its type.
THEOREM TypeCorrect == Spec => []TypeOK
<1>1. Typed => TypeOK
  BY DEF Typed
<1> QED
  BY TypedInit, TypedStep, <1>1, PTL DEF Spec

-----------------------------------------------------------------------------
\* Two notifications that differ in nothing but their status.
SameText(n, m) == /\ n.customerId = m.customerId
                  /\ n.channel = m.channel
                  /\ n.subject = m.subject
                  /\ n.body = m.body
                  /\ n.by = m.by

\* Where a call stands tells what it has done: nothing is saved before the
\* insert, nothing is answered before the end, and what notiRepo.create
\* returned is what the database holds, but for the status.
Progress(c) ==
  /\ pc[c] \in {"idle", "findTemplate", "checkPreferences", "create"} =>
       \A i \in ObjectIds : notifications[i] # None => notifications[i].by # c
  /\ pc[c] # "answered" => answer[c].status = "none"
  /\ pc[c] = "answered" => answer[c].status # "none"
  /\ pc[c] \in {"publish", "markFailed"} =>
       /\ noti[c]._id = None
       /\ noti[c].doc.by = c
       /\ \E i \in ObjectIds : /\ notifications[i] # None
                               /\ SameText(notifications[i], noti[c].doc)

\* A call that has yet to read the preferences, or has just read them, knows
\* no channel that was not enabled since it began; the same for the template.
Consent(c) ==
  /\ pc[c] \in {"findTemplate", "checkPreferences"} =>
       EnabledChannels(preferences[req[c].customer_id]) \subseteq enabled[c]
  /\ pc[c] = "create" => (ChannelOf(c) \in Channels => ChannelOf(c) \in enabled[c])
  /\ pc[c] = "findTemplate" => ActiveDocs(templates[req[c].template_name]) \subseteq active[c]
  /\ pc[c] \in {"checkPreferences", "create"} => template[c] \in active[c]

Book == SavedBeforeQueued /\ AtMostOnce /\ AnswerIsTruthful /\ \A c \in Calls : Progress(c)

Given == OptOutRespected /\ OneActiveTemplate /\ \A c \in Calls : Consent(c)

\* Subject and body of n are template t rendered for request r.
RenderedFrom(n, t, r) ==
  /\ n.body = Render(t.bodyTemplate, r.variables)
  /\ (n.subject = None) <=> (t.subject = None)
  /\ n.subject # None => n.subject = Render(t.subject, r.variables)

Safe == Typed /\ Book /\ Given

\* A step that may set statuses, and does nothing else to the notifications.
KeepsText ==
  \A i \in ObjectIds :
    /\ notifications'[i] # None <=> notifications[i] # None
    /\ notifications[i] # None => SameText(notifications'[i], notifications[i])

-----------------------------------------------------------------------------
(* Steps that save and queue nothing. *)

\* findByIdAndUpdate makes and unmakes no document, and changes its status only.
LEMMA UpdateStatusKeepsText ==
  ASSUME Typed, NEW i, NEW status \in {"pending", "failed", "read"},
         notifications' = UpdateStatus(i, status)
  PROVE  KeepsText
<1>1. notifications \in [ObjectIds -> Notification \cup {None}]
  BY DEF Typed, TypeOK
<1>2. notifications' \in [ObjectIds -> Notification \cup {None}]
  BY <1>1, UpdateStatusType
<1>3. ASSUME NEW j \in ObjectIds, notifications[j] # None
      PROVE  notifications'[j] # None /\ SameText(notifications'[j], notifications[j])
  BY <1>1, <1>3, NoneAssumption DEF UpdateStatus, Notification, SameText
<1> QED
  BY <1>1, <1>3 DEF KeepsText, UpdateStatus

\* A step that leaves the collection alone keeps its documents.
LEMMA UnchangedKeepsText ==
  UNCHANGED notifications => KeepsText
BY DEF KeepsText, SameText

\* A step that keeps the texts and queues nothing, and in which calls get
\* no answer, throw, or fail with a saved notification, keeps the books.
LEMMA QuietStep ==
  ASSUME Typed, Book, KeepsText, UNCHANGED published,
         \A d \in Calls : \/ answer'[d] = answer[d]
                          \/ answer[d].status = "none" /\ answer'[d].status = "error"
                          \/ /\ answer[d].status = "none" /\ answer'[d].status = "failed"
                             /\ \E i \in ObjectIds : notifications[i] # None /\ notifications[i].by = d
  PROVE  SavedBeforeQueued' /\ AtMostOnce' /\ AnswerIsTruthful'
<1>1. SavedBeforeQueued'
  BY DEF Book, SavedBeforeQueued, Stored, KeepsText, SameText
<1>2. AtMostOnce'
  BY DEF Book, AtMostOnce, KeepsText, SameText
<1>3. \A d \in Calls : Sent(d)' = Sent(d) /\ (Stored(d) # {} => Stored(d)' # {})
  BY DEF Sent, Stored, KeepsText, SameText
<1>4. AnswerIsTruthful'
  BY <1>3 DEF Book, AnswerIsTruthful, Stored
<1> QED
  BY <1>1, <1>2, <1>4

\* A call that does not move keeps its progress in such a step.
LEMMA ProgressKept ==
  ASSUME KeepsText, NEW d \in Calls, Progress(d),
         pc'[d] = pc[d], answer'[d] = answer[d], noti'[d] = noti[d]
  PROVE  Progress(d)'
BY DEF Progress, KeepsText, SameText

-----------------------------------------------------------------------------
(* The books. *)

\* The books agree when nothing has happened.
LEMMA BookInit == Init => Book
BY DEF Init, Book, SavedBeforeQueued, AtMostOnce, AnswerIsTruthful, Progress, Sent, Stored

\* Every action keeps the books.
LEMMA BookStep == Typed /\ Book /\ [Next]_vars => Book'
<1> SUFFICES ASSUME Typed, Book, [Next]_vars PROVE Book'
  OBVIOUS
<1> USE DEF Awaits
<1>0. /\ pc \in [Calls -> Awaits \cup {"idle", "answered", "crashed"}]
      /\ answer \in [Calls -> Answer]
      /\ noti \in [Calls -> Created \cup {None}]
      /\ notifications \in [ObjectIds -> Notification \cup {None}]
      /\ published \in Seq(Message)
  BY DEF Typed, TypeOK
<1>1. ASSUME NEW c \in Calls, NEW r \in Requests, SendNotification(c, r)
      PROVE  Book'
  <2>1. KeepsText
    BY <1>1, UnchangedKeepsText DEF SendNotification, database
  <2>2. SavedBeforeQueued' /\ AtMostOnce' /\ AnswerIsTruthful'
    BY <1>1, <2>1, QuietStep DEF SendNotification, Goto, broker
  <2>3. Progress(c)'
    BY <1>0, <1>1 DEF Book, SendNotification, Goto, Progress, database
  <2>4. \A d \in Calls \ {c} : Progress(d)'
    BY <1>0, <1>1, <2>1, ProgressKept DEF Book, SendNotification, Goto
  <2> QED
    BY <2>2, <2>3, <2>4 DEF Book
<1>2. ASSUME NEW c \in Calls, FindTemplate(c) \/ CheckPreferences(c)
      PROVE  Book'
  <2>1. /\ UNCHANGED <<notifications, published, noti>>
        /\ pc[c] \in {"findTemplate", "checkPreferences"}
        /\ \/ Goto(c, "checkPreferences")
           \/ Goto(c, "create")
           \/ Throw(c)
    BY <1>2 DEF FindTemplate, CheckPreferences, database, broker, locals
  <2>2. answer[c].status = "none"
    BY <2>1 DEF Book, Progress
  <2>3. KeepsText
    BY <2>1, UnchangedKeepsText
  <2>4. SavedBeforeQueued' /\ AtMostOnce' /\ AnswerIsTruthful'
    BY <1>0, <2>1, <2>2, <2>3, QuietStep DEF Goto, Throw, Settle
  <2>5. Progress(c)'
    BY <1>0, <2>1 DEF Book, Goto, Throw, Settle, Progress
  <2>6. \A d \in Calls \ {c} : Progress(d)'
    BY <1>0, <2>1, <2>3, ProgressKept DEF Book, Goto, Throw, Settle
  <2> QED
    BY <2>4, <2>5, <2>6 DEF Book
<1>3. ASSUME NEW c \in Calls, CreateNotification(c)
      PROVE  Book'
  <2>1. /\ UNCHANGED published
        /\ pc[c] = "create"
        /\ answer[c].status = "none"
        /\ \A i \in ObjectIds : notifications[i] # None => notifications[i].by # c
    BY <1>3 DEF CreateNotification, Book, Progress, broker
  <2>2. CASE Throw(c) /\ UNCHANGED <<notifications, noti>>
    <3>1. KeepsText
      BY <2>2, UnchangedKeepsText
    <3>2. SavedBeforeQueued' /\ AtMostOnce' /\ AnswerIsTruthful'
      BY <1>0, <2>1, <2>2, <3>1, QuietStep DEF Throw, Settle
    <3>3. Progress(c)'
      BY <1>0, <2>1, <2>2 DEF Throw, Settle, Progress
    <3>4. \A d \in Calls \ {c} : Progress(d)'
      BY <1>0, <2>2, <3>1, ProgressKept DEF Book, Throw, Settle
    <3> QED
      BY <3>2, <3>3, <3>4 DEF Book
  <2>3. CASE ~(Throw(c) /\ UNCHANGED <<notifications, noti>>)
    <3>1. PICK i \in ObjectIds :
            /\ AllowedByEnum(ChannelOf(c))
            /\ notifications[i] = None
            /\ notifications' = [notifications EXCEPT ![i] = NotiData(c)]
            /\ \/ /\ noti' = [noti EXCEPT ![c] = ToObject(i, NotiData(c))]
                  /\ Goto(c, "publish")
               \/ Throw(c) /\ UNCHANGED noti
      BY <1>3, <2>3 DEF CreateNotification
    <3>2. NotiData(c) \in Notification /\ NotiData(c).by = c
      BY <2>1, <3>1, NotiDataType DEF Typed, LocalsOK, NotiData
    <3>3. NotiData(c) # None
      BY <3>2, NoneAssumption
    <3>4. SavedBeforeQueued'
      BY <1>0, <2>1, <3>1, <3>3 DEF Book, SavedBeforeQueued, Stored
    <3>5. AtMostOnce'
      BY <1>0, <2>1, <3>1, <3>2 DEF Book, AtMostOnce
    <3>6. \A d \in Calls : Sent(d)' = Sent(d) /\ (Stored(d) # {} => Stored(d)' # {})
      BY <1>0, <2>1, <3>1, <3>3 DEF Sent, Stored
    <3>7. AnswerIsTruthful'
      BY <1>0, <2>1, <3>1, <3>6 DEF Book, AnswerIsTruthful, Goto, Throw, Settle
    <3>8. Progress(c)'
      BY <1>0, <2>1, <3>1, <3>2, <3>3
      DEF Goto, Throw, Settle, Progress, ToObject, SameText
    <3>9. \A d \in Calls \ {c} : Progress(d)'
      BY <1>0, <2>1, <3>1, <3>2, <3>3 DEF Book, Goto, Throw, Settle, Progress, SameText
    <3> QED
      BY <3>4, <3>5, <3>7, <3>8, <3>9 DEF Book
  <2> QED
    BY <2>2, <2>3
<1>4. ASSUME NEW c \in Calls, Publish(c)
      PROVE  Book'
  <2>1. /\ UNCHANGED <<notifications, noti>>
        /\ pc[c] = "publish"
        /\ answer[c].status = "none"
        /\ noti[c] \in Created /\ noti[c].doc.status = "pending"
        /\ noti[c].doc.by = c
    BY <1>4 DEF Publish, Typed, LocalsOK, Book, Progress, database, locals
  <2>2. KeepsText
    BY <2>1, UnchangedKeepsText
  <2>3. CASE Goto(c, "markFailed") /\ UNCHANGED published
    <3>1. SavedBeforeQueued' /\ AtMostOnce' /\ AnswerIsTruthful'
      BY <2>2, <2>3, QuietStep DEF Goto
    <3>2. Progress(c)'
      BY <1>0, <2>1, <2>3 DEF Book, Goto, Progress
    <3>3. \A d \in Calls \ {c} : Progress(d)'
      BY <1>0, <2>1, <2>2, <2>3, ProgressKept DEF Book, Goto
    <3> QED
      BY <3>1, <3>2, <3>3 DEF Book
  <2>4. CASE /\ published' = Append(published, Payload(c))
             /\ Settle(c, noti[c].doc.status, noti[c]._id)
    <3>1. PICK i \in ObjectIds : notifications[i] # None /\ SameText(notifications[i], noti[c].doc)
      BY <2>1 DEF Book, Progress
    <3>2. Sent(c) = {}
      BY <2>1 DEF Book, AnswerIsTruthful
    <3>3. /\ DOMAIN published' = DOMAIN published \cup {Len(published) + 1}
          /\ \A k \in DOMAIN published : published'[k] = published[k]
          /\ published'[Len(published) + 1] = Payload(c)
          /\ Len(published) + 1 \notin DOMAIN published
      BY <1>0, <2>4
    <3>4. /\ Payload(c).by = c
          /\ Payload(c).customerId = notifications[i].customerId
          /\ Payload(c).channel = notifications[i].channel
          /\ Payload(c).subject = notifications[i].subject
          /\ Payload(c).body = notifications[i].body
          /\ Payload(c).queue = Queues[notifications[i].channel]
          /\ Payload(c).queue # Queues.deadLetter
          /\ notifications[i].by = c
      <4>1. notifications[i].channel \in Channels
        BY <1>0, <3>1 DEF Notification
      <4> QED
        BY <2>1, <3>1, <4>1 DEF Payload, SameText, Queues, Channels
    <3>5. SavedBeforeQueued'
      <4> SUFFICES ASSUME NEW k \in DOMAIN published'
                   PROVE  \E j \in ObjectIds :
                            /\ notifications[j] # None
                            /\ published'[k].by = notifications[j].by
                            /\ published'[k].customerId = notifications[j].customerId
                            /\ published'[k].channel = notifications[j].channel
                            /\ published'[k].subject = notifications[j].subject
                            /\ published'[k].body = notifications[j].body
                            /\ published'[k].queue = Queues[notifications[j].channel]
                            /\ published'[k].queue # Queues.deadLetter
        BY <2>1 DEF SavedBeforeQueued, Stored
      <4>1. CASE k \in DOMAIN published
        BY <3>3, <4>1 DEF Book, SavedBeforeQueued, Stored
      <4>2. CASE k = Len(published) + 1
        BY <3>1, <3>3, <3>4, <4>2
      <4> QED
        BY <3>3, <4>1, <4>2
    <3>6. AtMostOnce'
      BY <2>1, <3>2, <3>3, <3>4 DEF Book, AtMostOnce, Sent
    <3>7. /\ \A d \in Calls : Stored(d)' = Stored(d)
          /\ \A d \in Calls \ {c} : Sent(d) # {} <=> Sent(d)' # {}
          /\ Sent(c)' # {}
          /\ Stored(c) # {}
      BY <2>1, <3>1, <3>3, <3>4 DEF Sent, Stored
    <3>8. AnswerIsTruthful'
      BY <1>0, <2>1, <2>4, <3>7 DEF Book, AnswerIsTruthful, Settle
    <3>9. Progress(c)'
      BY <1>0, <2>1, <2>4 DEF Progress, Settle
    <3>10. \A d \in Calls \ {c} : Progress(d)'
      BY <1>0, <2>1, <2>2, <2>4, ProgressKept DEF Book, Settle
    <3> QED
      BY <3>5, <3>6, <3>8, <3>9, <3>10 DEF Book
  <2> QED
    BY <1>4, <2>3, <2>4 DEF Publish
<1>5. ASSUME NEW c \in Calls, MarkFailed(c)
      PROVE  Book'
  <2>1. /\ UNCHANGED <<published, noti>>
        /\ pc[c] = "markFailed"
        /\ answer[c].status = "none"
        /\ \E i \in ObjectIds : notifications[i] # None /\ notifications[i].by = c
    BY <1>5 DEF MarkFailed, Book, Progress, SameText, broker, locals
  <2>2. KeepsText
    BY <1>5, UpdateStatusKeepsText, UnchangedKeepsText DEF MarkFailed
  <2>3. SavedBeforeQueued' /\ AtMostOnce' /\ AnswerIsTruthful'
    BY <1>0, <1>5, <2>1, <2>2, QuietStep DEF MarkFailed, Throw, Settle
  <2>4. Progress(c)'
    BY <1>0, <1>5, <2>1 DEF MarkFailed, Throw, Settle, Progress
  <2>5. \A d \in Calls \ {c} : Progress(d)'
    BY <1>0, <1>5, <2>1, <2>2, ProgressKept DEF Book, MarkFailed, Throw, Settle
  <2> QED
    BY <2>3, <2>4, <2>5 DEF Book
<1>6. ASSUME NEW i \in ObjectIds, MarkAsRead(i)
      PROVE  Book'
  <2>1. KeepsText
    BY <1>6, UpdateStatusKeepsText DEF MarkAsRead
  <2>2. UNCHANGED <<published, pc, answer, noti>>
    BY <1>6 DEF MarkAsRead, broker, locals
  <2> QED
    BY <2>1, <2>2, QuietStep, ProgressKept DEF Book
<1>7. ASSUME UNCHANGED <<notifications, published, pc, answer, noti>>
      PROVE  Book'
  BY <1>7, UnchangedKeepsText, QuietStep, ProgressKept DEF Book
<1>8. CASE CrashRestart
  <2>1. UNCHANGED <<notifications, published, answer, noti>>
    BY <1>8 DEF CrashRestart, database, locals
  <2>2. KeepsText
    BY <2>1, UnchangedKeepsText
  <2>3. SavedBeforeQueued' /\ AtMostOnce' /\ AnswerIsTruthful'
    BY <2>1, <2>2, QuietStep
  <2>4. \A d \in Calls : Progress(d)'
    BY <1>0, <1>8, <2>1 DEF CrashRestart, Book, Progress
  <2> QED
    BY <2>3, <2>4 DEF Book
<1>9. ASSUME NEW n \in TemplateNames, NEW t \in TemplateDocs \cup {None}, ChangeTemplate(n, t)
      PROVE  Book'
  BY <1>7, <1>9 DEF ChangeTemplate, broker, locals
<1>10. ASSUME NEW u \in Customers, NEW p \in PreferenceDocs \cup {None}, ChangePreferences(u, p)
       PROVE  Book'
  BY <1>7, <1>10 DEF ChangePreferences, broker, locals
<1>11. CASE ChannelCloses
  BY <1>7, <1>11 DEF ChannelCloses, database, locals
<1>12. CASE UNCHANGED vars
  BY <1>7, <1>12 DEF vars, database, broker, locals
<1> QED
  BY <1>1, <1>2, <1>3, <1>4, <1>5, <1>6, <1>8, <1>9, <1>10, <1>11, <1>12
  DEF Next, Continue

-----------------------------------------------------------------------------
(* The customer's consent and the template's activity. *)

\* Nothing is saved at first, so nothing lacks a consent.
LEMMA GivenInit == Init => Given
BY DEF Init, Given, OptOutRespected, OneActiveTemplate, Consent

\* What was enabled or active stays so in the history of a call that has
\* saved a notification, and nothing is saved.
LEMMA HistoryGrows ==
  ASSUME Typed, Given, KeepsText,
         \A d \in Calls :
           (\E i \in ObjectIds : notifications[i] # None /\ notifications[i].by = d) =>
             enabled[d] \subseteq enabled'[d] /\ active[d] \subseteq active'[d] /\ req'[d] = req[d]
  PROVE  OptOutRespected' /\ OneActiveTemplate'
<1>1. ASSUME NEW i \in ObjectIds, notifications'[i] # None
      PROVE  /\ notifications[i] # None
             /\ notifications[i].by \in Calls
             /\ SameText(notifications'[i], notifications[i])
             /\ enabled[notifications[i].by] \subseteq enabled'[notifications[i].by]
             /\ active[notifications[i].by] \subseteq active'[notifications[i].by]
             /\ req'[notifications[i].by] = req[notifications[i].by]
  <2>1. notifications[i] # None /\ SameText(notifications'[i], notifications[i])
    BY <1>1 DEF KeepsText
  <2>2. notifications[i].by \in Calls
    BY <2>1 DEF Typed, TypeOK, Notification
  <2> QED
    BY <2>1, <2>2
<1>2. OptOutRespected'
  BY <1>1 DEF Given, OptOutRespected, SameText
<1>3. OneActiveTemplate'
  <2> SUFFICES ASSUME NEW i \in ObjectIds, notifications'[i] # None
               PROVE  \E t \in active'[notifications'[i].by] :
                        RenderedFrom(notifications'[i], t, req'[notifications'[i].by])
    BY DEF OneActiveTemplate, RenderedFrom
  <2>1. PICK t \in active[notifications[i].by] :
          RenderedFrom(notifications[i], t, req[notifications[i].by])
    BY <1>1 DEF Given, OneActiveTemplate, RenderedFrom
  <2>2. /\ notifications'[i].by = notifications[i].by
        /\ t \in active'[notifications[i].by]
        /\ req'[notifications[i].by] = req[notifications[i].by]
    BY <1>1, <2>1 DEF SameText
  <2>3. RenderedFrom(notifications'[i], t, req[notifications[i].by])
    BY <1>1, <2>1 DEF SameText, RenderedFrom
  <2> QED
    BY <2>2, <2>3
<1> QED
  BY <1>2, <1>3

\* A consent is not taken back: the histories of consents and versions only grow.
LEMMA ConsentKept ==
  ASSUME NEW d \in Calls, Consent(d),
         pc'[d] = pc[d] \/ pc'[d] \in {"publish", "markFailed", "answered", "crashed"},
         UNCHANGED <<preferences, templates>>,
         req'[d] = req[d], template'[d] = template[d],
         enabled'[d] = enabled[d], active'[d] = active[d]
  PROVE  Consent(d)'
BY DEF Consent, ChannelOf

\* Every action keeps each saved notification within what was consented to.
LEMMA GivenStep == Typed /\ Book /\ Given /\ [Next]_vars => Given'
<1> SUFFICES ASSUME Typed, Book, Given, [Next]_vars PROVE Given'
  OBVIOUS
<1> USE DEF Awaits
<1>0. /\ pc \in [Calls -> Awaits \cup {"idle", "answered", "crashed"}]
      /\ req \in [Calls -> Requests \cup {None}]
      /\ template \in [Calls -> TemplateDocs \cup {None}]
      /\ notifications \in [ObjectIds -> Notification \cup {None}]
      /\ preferences \in [Customers -> PreferenceDocs \cup {None}]
      /\ templates \in [TemplateNames -> TemplateDocs \cup {None}]
      /\ enabled \in [Calls -> SUBSET Channels]
      /\ active \in [Calls -> SUBSET TemplateDocs]
  BY DEF Typed, TypeOK
<1>1. ASSUME NEW c \in Calls, NEW r \in Requests, SendNotification(c, r)
      PROVE  Given'
  <2>1. KeepsText
    BY <1>1, UnchangedKeepsText DEF SendNotification, database
  <2>2. \A i \in ObjectIds : notifications[i] # None => notifications[i].by # c
    BY <1>1 DEF SendNotification, Book, Progress
  <2>3. OptOutRespected' /\ OneActiveTemplate'
    BY <1>0, <1>1, <2>1, <2>2, HistoryGrows DEF SendNotification
  <2>4. Consent(c)'
    BY <1>0, <1>1 DEF SendNotification, Goto, Consent, EnabledChannels, ActiveDocs, database
  <2>5. \A d \in Calls \ {c} : Consent(d)'
    BY <1>0, <1>1, ConsentKept DEF SendNotification, Goto, Given, database
  <2> QED
    BY <2>3, <2>4, <2>5 DEF Given
<1>2. ASSUME NEW c \in Calls, FindTemplate(c)
      PROVE  Given'
  <2>1. KeepsText
    BY <1>2, UnchangedKeepsText DEF FindTemplate, database
  <2>2. OptOutRespected' /\ OneActiveTemplate'
    BY <1>2, <2>1, HistoryGrows DEF FindTemplate, history
  <2>3. Consent(c)'
    BY <1>0, <1>2
    DEF FindTemplate, TemplateUsable, Goto, Throw, Settle, Given, Consent, ActiveDocs,
        EnabledChannels, database, history
  <2>4. \A d \in Calls \ {c} : Consent(d)'
    BY <1>0, <1>2, ConsentKept DEF FindTemplate, Goto, Throw, Settle, Given, database, history
  <2> QED
    BY <2>2, <2>3, <2>4 DEF Given
<1>3. ASSUME NEW c \in Calls, CheckPreferences(c)
      PROVE  Given'
  <2>1. KeepsText
    BY <1>3, UnchangedKeepsText DEF CheckPreferences, database
  <2>2. OptOutRespected' /\ OneActiveTemplate'
    BY <1>3, <2>1, HistoryGrows DEF CheckPreferences, history, locals
  <2>3. ASSUME ~OptedOut(preferences[req[c].customer_id], ChannelOf(c)),
               ChannelOf(c) \in Channels
        PROVE  ChannelOf(c) \in EnabledChannels(preferences[req[c].customer_id])
    BY <2>3 DEF OptedOut, EnabledChannels, Channels
  <2>4. Consent(c)'
    BY <1>0, <1>3, <2>3
    DEF CheckPreferences, Goto, Throw, Settle, Given, Consent, ChannelOf, database, history, locals
  <2>5. \A d \in Calls \ {c} : Consent(d)'
    BY <1>0, <1>3, ConsentKept
    DEF CheckPreferences, Goto, Throw, Settle, Given, database, history, locals
  <2> QED
    BY <2>2, <2>4, <2>5 DEF Given
<1>4. ASSUME NEW c \in Calls, CreateNotification(c)
      PROVE  Given'
  <2>1. /\ pc[c] = "create"
        /\ UNCHANGED <<preferences, templates, req, template, enabled, active>>
    BY <1>4 DEF CreateNotification, history
  <2>2. \A d \in Calls : Consent(d)'
    BY <1>0, <1>4, <2>1, ConsentKept DEF CreateNotification, Goto, Throw, Settle, Given
  <2>3. CASE UNCHANGED notifications
    BY <2>1, <2>2, <2>3, UnchangedKeepsText, HistoryGrows DEF Given
  <2>4. CASE ~UNCHANGED notifications
    <3>1. PICK i \in ObjectIds : /\ AllowedByEnum(ChannelOf(c))
                                 /\ notifications' = [notifications EXCEPT ![i] = NotiData(c)]
      BY <1>4, <2>4 DEF CreateNotification
    <3>2. /\ NotiData(c).by = c
          /\ NotiData(c).channel \in enabled[c]
      BY <2>1, <3>1 DEF Given, Consent, AllowedByEnum, NotiData
    <3>3. OptOutRespected'
      BY <1>0, <2>1, <3>1, <3>2 DEF Given, OptOutRespected
    <3>4. template[c] \in active[c] /\ req[c] \in Requests
      BY <2>1 DEF Given, Consent, Typed, LocalsOK
    <3>5. /\ template[c].subject # None => Render(template[c].subject, req[c].variables) # None
          /\ NotiData(c).body = Render(template[c].bodyTemplate, req[c].variables)
      <4>1. template[c] \in TemplateDocs /\ Renderable(c)
        BY <2>1 DEF Typed, LocalsOK
      <4>2. template[c].subject # None => Render(template[c].subject, req[c].variables) \in Rendered
        BY <3>4, <4>1, RenderType, RequestsAssumption, DocsAssumption
        DEF Renderable, RequestType, TemplateType
      <4> QED
        BY <4>2, NoneAssumption DEF NotiData
    <3>6. RenderedFrom(NotiData(c), template[c], req[c])
      BY <3>5 DEF NotiData, RenderedFrom
    <3>7. OneActiveTemplate'
      <4> SUFFICES ASSUME NEW j \in ObjectIds, notifications'[j] # None
                   PROVE  \E t \in active[notifications'[j].by] :
                            RenderedFrom(notifications'[j], t, req[notifications'[j].by])
        BY <2>1 DEF OneActiveTemplate, RenderedFrom
      <4>1. CASE j = i
        BY <1>0, <3>1, <3>2, <3>4, <3>6, <4>1
      <4>2. CASE j # i
        BY <1>0, <3>1, <4>2 DEF Given, OneActiveTemplate, RenderedFrom
      <4> QED
        BY <4>1, <4>2
    <3> QED
      BY <2>2, <3>3, <3>7 DEF Given
  <2> QED
    BY <2>3, <2>4
<1>5. ASSUME NEW c \in Calls, Publish(c) \/ MarkFailed(c)
      PROVE  Given'
  <2>1. UNCHANGED <<preferences, templates, req, template, enabled, active>>
    BY <1>5 DEF Publish, MarkFailed, database, locals, history
  <2>2. KeepsText
    BY <1>5, UpdateStatusKeepsText, UnchangedKeepsText DEF Publish, MarkFailed, database
  <2>3. OptOutRespected' /\ OneActiveTemplate'
    BY <2>1, <2>2, HistoryGrows
  <2>4. \A d \in Calls : Consent(d)'
    BY <1>0, <1>5, <2>1, ConsentKept DEF Publish, MarkFailed, Goto, Throw, Settle, Given
  <2> QED
    BY <2>3, <2>4 DEF Given
<1>6. ASSUME KeepsText, UNCHANGED <<preferences, templates, locals, history>>,
             \A d \in Calls : pc'[d] = pc[d] \/ pc'[d] = "crashed"
      PROVE  Given'
  <2>1. OptOutRespected' /\ OneActiveTemplate'
    BY <1>6, HistoryGrows DEF history, locals
  <2>2. \A d \in Calls : Consent(d)'
    BY <1>6, ConsentKept DEF Given, history, locals
  <2> QED
    BY <2>1, <2>2 DEF Given
<1>7. ASSUME NEW i \in ObjectIds, MarkAsRead(i)
      PROVE  Given'
  BY <1>6, <1>7, UpdateStatusKeepsText DEF MarkAsRead
<1>8. ASSUME NEW n \in TemplateNames, NEW t \in TemplateDocs \cup {None}, ChangeTemplate(n, t)
      PROVE  Given'
  <2>1. KeepsText
    BY <1>8, UnchangedKeepsText DEF ChangeTemplate
  <2>2. OptOutRespected' /\ OneActiveTemplate'
    BY <1>0, <1>8, <2>1, HistoryGrows DEF ChangeTemplate, locals
  <2>3. \A d \in Calls : Consent(d)'
    BY <1>0, <1>8 DEF ChangeTemplate, Given, Consent, ChannelOf, locals
  <2> QED
    BY <2>2, <2>3 DEF Given
<1>9. ASSUME NEW u \in Customers, NEW p \in PreferenceDocs \cup {None}, ChangePreferences(u, p)
      PROVE  Given'
  <2>1. KeepsText
    BY <1>9, UnchangedKeepsText DEF ChangePreferences
  <2>2. OptOutRespected' /\ OneActiveTemplate'
    BY <1>0, <1>9, <2>1, HistoryGrows DEF ChangePreferences, locals
  <2>3. \A d \in Calls : Consent(d)'
    BY <1>0, <1>9 DEF ChangePreferences, Given, Consent, ChannelOf, locals
  <2> QED
    BY <2>2, <2>3 DEF Given
<1>10. CASE ChannelCloses
  BY <1>6, <1>10, UnchangedKeepsText DEF ChannelCloses, database
<1>11. CASE CrashRestart
  BY <1>0, <1>6, <1>11, UnchangedKeepsText DEF CrashRestart, database
<1>12. CASE UNCHANGED vars
  BY <1>6, <1>12, UnchangedKeepsText DEF vars, database
<1> QED
  BY <1>1, <1>2, <1>3, <1>4, <1>5, <1>7, <1>8, <1>9, <1>10, <1>11, <1>12
  DEF Next, Continue

-----------------------------------------------------------------------------
(* The theorems. *)

\* The three parts of the invariant are inductive together.
LEMMA SafeStep == Safe /\ [Next]_vars => Safe'
BY TypedStep, BookStep, GivenStep DEF Safe

\* The inductive invariant holds throughout.
LEMMA AlwaysSafe == Spec => []Safe
<1>1. Init => Safe
  BY TypedInit, BookInit, GivenInit DEF Safe
<1> QED
  BY <1>1, SafeStep, PTL DEF Spec

\* No message without its saved notification, and in the right queue.
THEOREM MessagesAreBacked == Spec => []SavedBeforeQueued
<1>1. Safe => SavedBeforeQueued
  BY DEF Safe, Book
<1> QED
  BY AlwaysSafe, <1>1, PTL

\* No call saves two notifications or queues two messages.
THEOREM NothingTwice == Spec => []AtMostOnce
<1>1. Safe => AtMostOnce
  BY DEF Safe, Book
<1> QED
  BY AlwaysSafe, <1>1, PTL

\* Callers are told what happened.
THEOREM AnswersAreTruthful == Spec => []AnswerIsTruthful
<1>1. Safe => AnswerIsTruthful
  BY DEF Safe, Book
<1> QED
  BY AlwaysSafe, <1>1, PTL

\* Nothing is saved for a customer who was opted out all along.
THEOREM OptOutsAreRespected == Spec => []OptOutRespected
<1>1. Safe => OptOutRespected
  BY DEF Safe, Given
<1> QED
  BY AlwaysSafe, <1>1, PTL

\* Nothing is rendered from a template that was inactive all along, or from two.
THEOREM TemplatesAreActive == Spec => []OneActiveTemplate
<1>1. Safe => OneActiveTemplate
  BY DEF Safe, Given
<1> QED
  BY AlwaysSafe, <1>1, PTL

-----------------------------------------------------------------------------
(* Reading is final. *)

ReadKept == \A i \in ObjectIds :
  notifications[i] # None /\ notifications[i].status = "read" => notifications'[i] = notifications[i]

\* No action changes a notification that is read: MarkFailed has no _id to look it up by.
LEMMA ReadKeptStep == Safe /\ [Next]_vars => [ReadKept]_vars
<1> SUFFICES ASSUME Safe, Next PROVE ReadKept
  BY DEF ReadKept, vars, database
<1>0. notifications \in [ObjectIds -> Notification \cup {None}]
  BY DEF Safe, Typed, TypeOK
<1>1. ASSUME NEW c \in Calls, MarkFailed(c)
      PROVE  ReadKept
  <2>1. noti[c]._id = None
    BY <1>1 DEF MarkFailed, Safe, Book, Progress
  <2>2. UpdateStatus(noti[c]._id, "failed") = notifications
    BY <1>0, <2>1, NoneAssumption DEF UpdateStatus
  <2> QED
    BY <1>1, <2>2 DEF MarkFailed, ReadKept
<1>2. ASSUME NEW i \in ObjectIds, MarkAsRead(i)
      PROVE  ReadKept
  <2>1. ASSUME NEW j \in ObjectIds, notifications[j] # None, notifications[j].status = "read"
        PROVE  UpdateStatus(i, "read")[j] = notifications[j]
    BY <1>0, <2>1 DEF UpdateStatus, Notification
  <2> QED
    BY <1>2, <2>1 DEF MarkAsRead, ReadKept
<1>3. ASSUME NEW c \in Calls, CreateNotification(c)
      PROVE  ReadKept
  BY <1>0, <1>3 DEF CreateNotification, ReadKept
<1>4. ASSUME UNCHANGED notifications
      PROVE  ReadKept
  BY <1>4 DEF ReadKept
<1>5. ASSUME NEW c \in Calls, NEW r \in Requests, SendNotification(c, r)
      PROVE  ReadKept
  BY <1>4, <1>5 DEF SendNotification, database
<1>6. ASSUME NEW c \in Calls, FindTemplate(c) \/ CheckPreferences(c) \/ Publish(c)
      PROVE  ReadKept
  BY <1>4, <1>6 DEF FindTemplate, CheckPreferences, Publish, database
<1>7. ASSUME NEW n \in TemplateNames, NEW t \in TemplateDocs \cup {None}, ChangeTemplate(n, t)
      PROVE  ReadKept
  BY <1>4, <1>7 DEF ChangeTemplate
<1>8. ASSUME NEW u \in Customers, NEW p \in PreferenceDocs \cup {None}, ChangePreferences(u, p)
      PROVE  ReadKept
  BY <1>4, <1>8 DEF ChangePreferences
<1>9. CASE ChannelCloses \/ CrashRestart
  BY <1>4, <1>9 DEF ChannelCloses, CrashRestart, database
<1> QED
  BY <1>1, <1>2, <1>3, <1>5, <1>6, <1>7, <1>8, <1>9 DEF Next, Continue

\* No step takes a notification back from "read".
THEOREM ReadingIsFinal == Spec => ReadIsFinal
<1>1. Safe /\ [Next]_vars =>
        [\A i \in ObjectIds : notifications[i] # None /\ notifications[i].status = "read"
                              => notifications'[i] = notifications[i]]_vars
  BY ReadKeptStep DEF ReadKept
<1> QED
  BY <1>1, AlwaysSafe, PTL DEF Spec, ReadIsFinal

-----------------------------------------------------------------------------
(* The service implements its contract. *)

\* Initial states map to initial states of the contract.
LEMMA ContractInit == Init => Contract!CInit
BY DEF Init, Contract!CInit, SavedCalls, QueuedCalls, Verdicts, Stored, Awaits

\* Steps that only change statuses leave the contract's state alone.
LEMMA SavedKept == Typed /\ KeepsText => SavedCalls' = SavedCalls
BY DEF SavedCalls, Stored, KeepsText, SameText

\* Every step maps to a step of the contract or to a stutter.
LEMMA ContractStep == Safe /\ [Next]_vars => [Contract!CNext]_(Contract!cvars)
<1> SUFFICES ASSUME Safe, [Next]_vars
             PROVE  Contract!CNext \/ UNCHANGED <<SavedCalls, QueuedCalls, Verdicts>>
  BY DEF Contract!cvars
<1> USE DEF Awaits, Safe
<1>0. /\ pc \in [Calls -> Awaits \cup {"idle", "answered", "crashed"}]
      /\ answer \in [Calls -> Answer]
      /\ notifications \in [ObjectIds -> Notification \cup {None}]
      /\ published \in Seq(Message)
  BY DEF Typed, TypeOK
<1>1. ASSUME UNCHANGED published PROVE UNCHANGED QueuedCalls
  BY <1>1 DEF QueuedCalls
<1>2. ASSUME NEW c \in Calls, Throw(c), pc[c] \in Awaits, UNCHANGED published,
             SavedCalls' \in {SavedCalls, SavedCalls \cup {c}}
      PROVE  Contract!CNext
  <2>1. Verdicts[c] = "open" /\ Verdicts' = [Verdicts EXCEPT ![c] = "error"]
    BY <1>0, <1>2 DEF Throw, Settle, Verdicts
  <2>2. Contract!Throws(c)
    BY <1>1, <1>2, <2>1 DEF Contract!Throws
  <2> QED
    BY <2>2 DEF Contract!CNext
<1>3. ASSUME NEW c \in Calls, NEW await \in Awaits, Goto(c, await), pc[c] \in Awaits
      PROVE  UNCHANGED Verdicts
  BY <1>0, <1>3 DEF Goto, Verdicts
<1>4. ASSUME UNCHANGED <<notifications, published, pc, answer>>
      PROVE  UNCHANGED <<SavedCalls, QueuedCalls, Verdicts>>
  BY <1>4 DEF SavedCalls, QueuedCalls, Verdicts, Stored
<1>5. ASSUME NEW c \in Calls, NEW r \in Requests, SendNotification(c, r)
      PROVE  Contract!CNext
  <2>1. UNCHANGED <<SavedCalls, QueuedCalls>>
    BY <1>5 DEF SendNotification, database, broker, SavedCalls, QueuedCalls, Stored
  <2>2. Verdicts[c] = "idle" /\ Verdicts' = [Verdicts EXCEPT ![c] = "open"]
    BY <1>0, <1>5 DEF SendNotification, Goto, Verdicts
  <2>3. Contract!Ask(c)
    BY <2>1, <2>2 DEF Contract!Ask
  <2> QED
    BY <2>3 DEF Contract!CNext
<1>6. ASSUME NEW c \in Calls, FindTemplate(c) \/ CheckPreferences(c)
      PROVE  Contract!CNext \/ UNCHANGED <<SavedCalls, QueuedCalls, Verdicts>>
  <2>1. UNCHANGED <<notifications, published>> /\ pc[c] \in Awaits
    BY <1>6 DEF FindTemplate, CheckPreferences, database, broker
  <2>2. UNCHANGED <<SavedCalls, QueuedCalls>>
    BY <2>1 DEF SavedCalls, QueuedCalls, Stored
  <2>3. Goto(c, "checkPreferences") \/ Goto(c, "create") \/ Throw(c)
    BY <1>6 DEF FindTemplate, CheckPreferences
  <2> QED
    BY <1>2, <1>3, <2>1, <2>2, <2>3
<1>7. ASSUME NEW c \in Calls, CreateNotification(c)
      PROVE  Contract!CNext
  <2>1. UNCHANGED published /\ pc[c] = "create"
    BY <1>7 DEF CreateNotification, broker
  <2>2. CASE Throw(c) /\ UNCHANGED notifications
    BY <1>2, <2>1, <2>2 DEF SavedCalls, Stored
  <2>3. CASE ~(Throw(c) /\ UNCHANGED notifications)
    <3>1. PICK i \in ObjectIds :
            /\ AllowedByEnum(ChannelOf(c))
            /\ notifications[i] = None
            /\ notifications' = [notifications EXCEPT ![i] = NotiData(c)]
            /\ Goto(c, "publish") \/ Throw(c)
      BY <1>7, <2>3 DEF CreateNotification
    <3>2. NotiData(c) # None /\ NotiData(c).by = c
      BY <2>1, <3>1, NotiDataType, NoneAssumption DEF Typed, LocalsOK, NotiData
    <3>3. c \notin SavedCalls
      BY <2>1 DEF Book, Progress, SavedCalls, Stored
    <3>4. Stored(c)' # {} /\ \A d \in Calls \ {c} : Stored(d)' = Stored(d)
      BY <1>0, <3>1, <3>2 DEF Stored
    <3>5. SavedCalls' = SavedCalls \cup {c}
      BY <3>4 DEF SavedCalls
    <3>6. CASE Throw(c)
      BY <1>2, <2>1, <3>5, <3>6
    <3>7. CASE Goto(c, "publish")
      <4>1. Verdicts[c] = "open" /\ UNCHANGED Verdicts
        BY <1>3, <2>1, <3>7 DEF Verdicts
      <4>2. Contract!Save(c)
        BY <1>1, <2>1, <3>3, <3>5, <4>1 DEF Contract!Save
      <4> QED
        BY <4>2 DEF Contract!CNext
    <3> QED
      BY <3>1, <3>6, <3>7
  <2> QED
    BY <2>2, <2>3
<1>8. ASSUME NEW c \in Calls, Publish(c)
      PROVE  Contract!CNext \/ UNCHANGED <<SavedCalls, QueuedCalls, Verdicts>>
  <2>1. UNCHANGED notifications /\ pc[c] = "publish" /\ noti[c].doc.status = "pending"
    BY <1>8 DEF Publish, Typed, LocalsOK, database
  <2>2. UNCHANGED SavedCalls
    BY <2>1 DEF SavedCalls, Stored
  <2>3. CASE Goto(c, "markFailed") /\ UNCHANGED published
    BY <1>1, <1>3, <2>1, <2>2, <2>3
  <2>4. CASE /\ published' = Append(published, Payload(c))
             /\ Settle(c, noti[c].doc.status, noti[c]._id)
    <3>1. Payload(c).by = c
      BY DEF Payload
    <3>2. QueuedCalls' = Append(QueuedCalls, c)
      BY <1>0, <2>4, <3>1 DEF QueuedCalls
    <3>3. Verdicts[c] = "open" /\ Verdicts' = [Verdicts EXCEPT ![c] = "pending"]
      BY <1>0, <2>1, <2>4 DEF Settle, Verdicts
    <3>4. c \in SavedCalls
      BY <2>1 DEF Book, Progress, SameText, SavedCalls, Stored
    <3>5. Contract!Queue(c)
      BY <2>2, <3>2, <3>3, <3>4 DEF Contract!Queue
    <3> QED
      BY <3>5 DEF Contract!CNext
  <2> QED
    BY <1>8, <2>3, <2>4 DEF Publish
<1>9. ASSUME NEW c \in Calls, MarkFailed(c)
      PROVE  Contract!CNext
  <2>1. UNCHANGED published /\ pc[c] = "markFailed"
    BY <1>9 DEF MarkFailed, broker
  <2>2. UNCHANGED SavedCalls
    BY <1>9, UpdateStatusKeepsText, UnchangedKeepsText, SavedKept DEF MarkFailed
  <2>3. CASE Throw(c)
    BY <1>2, <2>1, <2>2, <2>3
  <2>4. CASE Settle(c, "failed", noti[c]._id)
    <3>1. Verdicts[c] = "open" /\ Verdicts' = [Verdicts EXCEPT ![c] = "failed"]
      BY <1>0, <2>1, <2>4 DEF Settle, Verdicts
    <3>2. c \in SavedCalls
      BY <2>1 DEF Book, Progress, SameText, SavedCalls, Stored
    <3>3. Contract!GiveUp(c)
      BY <1>1, <2>1, <2>2, <3>1, <3>2 DEF Contract!GiveUp
    <3> QED
      BY <3>3 DEF Contract!CNext
  <2> QED
    BY <1>9, <2>3, <2>4 DEF MarkFailed
<1>10. ASSUME NEW i \in ObjectIds, MarkAsRead(i)
       PROVE  UNCHANGED <<SavedCalls, QueuedCalls, Verdicts>>
  <2>1. UNCHANGED SavedCalls
    BY <1>10, UpdateStatusKeepsText, SavedKept DEF MarkAsRead
  <2> QED
    BY <1>10, <2>1 DEF MarkAsRead, broker, QueuedCalls, Verdicts
<1>11. CASE CrashRestart
  <2>1. UNCHANGED <<SavedCalls, QueuedCalls>>
    BY <1>11 DEF CrashRestart, database, SavedCalls, QueuedCalls, Stored
  <2>2. Verdicts' = [c \in Calls |-> IF Verdicts[c] = "open" THEN "crashed" ELSE Verdicts[c]]
    BY <1>0, <1>11 DEF CrashRestart, Verdicts, Answer
  <2>3. Contract!Die
    BY <2>1, <2>2 DEF Contract!Die
  <2> QED
    BY <2>3 DEF Contract!CNext
<1>12. ASSUME NEW n \in TemplateNames, NEW t \in TemplateDocs \cup {None}, ChangeTemplate(n, t)
       PROVE  UNCHANGED <<SavedCalls, QueuedCalls, Verdicts>>
  BY <1>4, <1>12 DEF ChangeTemplate, broker
<1>13. ASSUME NEW u \in Customers, NEW p \in PreferenceDocs \cup {None}, ChangePreferences(u, p)
       PROVE  UNCHANGED <<SavedCalls, QueuedCalls, Verdicts>>
  BY <1>4, <1>13 DEF ChangePreferences, broker
<1>14. CASE ChannelCloses \/ UNCHANGED vars
  BY <1>4, <1>14 DEF ChannelCloses, vars, database, broker
<1> QED
  BY <1>5, <1>6, <1>7, <1>8, <1>9, <1>10, <1>11, <1>12, <1>13, <1>14 DEF Next, Continue

\* Every behaviour of the service is one its contract allows.
THEOREM ServiceImplementsContract == Spec => ImplementsContract
BY ContractInit, ContractStep, AlwaysSafe, PTL DEF Spec, ImplementsContract, Contract!CSpec
=============================================================================
