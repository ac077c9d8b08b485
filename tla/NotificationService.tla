------------------------ MODULE NotificationService ------------------------
(***************************************************************************)
(* sendNotification and markAsRead (src/application/services/              *)
(* notification.service.ts) over the MongoDB collections they read and     *)
(* write and the RabbitMQ publisher they call.                             *)
(*                                                                         *)
(* A call of sendNotification runs between its awaits without being        *)
(* interrupted, and gives way at each of them.  One action is one such     *)
(* stretch: what the database does with the awaited query, then the code   *)
(* that follows the await up to the next one.  Inserting a notification    *)
(* and going on with the reply are two actions, because the document is    *)
(* visible to everyone in between.                                         *)
(*                                                                         *)
(* Limits of the model: rendered text is the template with the values it   *)
(* asks for; templateId, metadata and the timestamps are left out; what    *)
(* happens to a message once amqplib's channel has taken it is the         *)
(* business of the delivery side, not of this module.                      *)
(***************************************************************************)
EXTENDS Naturals, Sequences

CONSTANTS
  Calls,          \* invocations of sendNotification, by HTTP or by an event
  ObjectIds,      \* the ids MongoDB can give to a notification
  Customers, TemplateNames,
  Texts,          \* Handlebars sources
  Vars, Values,   \* names and values of the variables of a request
  Needs,          \* Needs[text]: the variables a Handlebars source mentions
  TemplateDocs,   \* what the documents of the templates collection can be
  PreferenceDocs, \* the same for the preferences collection
  Requests,       \* the requests that arrive
  HostConnects,   \* does the host call publisher.connect() before serving?
  None            \* null, undefined, or no such document

Channels == {"email", "push", "sms"}

\* config.rabbitmq.queues
Queues == [email |-> "noti.email", push |-> "noti.push",
           sms |-> "noti.sms", deadLetter |-> "noti.dead-letter"]

\* A request may name any channel, since nothing validates it before the
\* insert, and so may a template that was edited: findByIdAndUpdate runs no
\* validators.
OpenChannels == DOMAIN Queues \cup {"fax"}

Rendered  == UNION {[text : {t}, values : [Needs[t] -> Values]] : t \in Texts}
Variables == UNION {[D -> Values] : D \in SUBSET Vars}

TemplateType == [channel : OpenChannels, bodyTemplate : Texts,
                 subject : Texts \cup {None}, isActive : BOOLEAN]
RequestType  == [customer_id : Customers, template_name : TemplateNames,
                 channel : OpenChannels \cup {None}, variables : Variables]

ASSUME NeedsAssumption == Needs \in [Texts -> SUBSET Vars]
ASSUME DocsAssumption  == /\ TemplateDocs \subseteq TemplateType
                          /\ PreferenceDocs \subseteq [Channels -> BOOLEAN]
ASSUME RequestsAssumption == Requests \subseteq RequestType
ASSUME HostAssumption  == HostConnects \in BOOLEAN
VARIABLES
  templates,      \* templates[n]: the document under the unique name n
  preferences,    \* preferences[u]: the document of customer u
  notifications,  \* notifications[i]: the document with _id i
  channel,        \* the publisher's amqplib channel: "null", "open", "closed"
  published,      \* what the channel has been handed, in order
  pc,             \* pc[c]: the await call c stands at
  req, template,  \* req[c], template[c]: the parameter, the local of that name
  noti,           \* noti[c]: what notiRepo.create returned
  answer,         \* answer[c]: what the caller of c got
  \* History, read by no action:
  enabled,        \* enabled[c]: channels the customer allowed since c began
  active          \* active[c]: active documents of the template since c began

database == <<templates, preferences, notifications>>
broker   == <<channel, published>>
locals   == <<req, template, noti>>
history  == <<enabled, active>>
vars     == <<database, broker, pc, locals, answer, history>>

-----------------------------------------------------------------------------
(* Types.  The field "by" of a document and of a message names the call    *)
(* that made it; it is history, the code has no such field.                *)

Notification == [customerId : Customers, channel : Channels,
                 subject : Rendered \cup {None}, body : Rendered,
                 status : {"pending", "failed", "read"}, by : Calls]
Created      == [_id : ObjectIds \cup {None}, id : ObjectIds, doc : Notification]
Message      == [queue : {Queues[k] : k \in DOMAIN Queues},
                 notificationId : ObjectIds \cup {None},
                 customerId : Customers, channel : Channels,
                 subject : Rendered \cup {None}, body : Rendered, by : Calls]
Answer       == [status : {"none", "pending", "failed", "error"},
                 notificationId : ObjectIds \cup {None}]

ASSUME NoneAssumption ==
  None \notin ObjectIds \cup Texts \cup Rendered \cup OpenChannels
               \cup TemplateDocs \cup PreferenceDocs \cup Notification

Awaits == {"findTemplate", "checkPreferences", "create", "publish", "markFailed"}

\* Every variable holds a value of the kind its comment says.
TypeOK ==
  /\ templates \in [TemplateNames -> TemplateDocs \cup {None}]
  /\ preferences \in [Customers -> PreferenceDocs \cup {None}]
  /\ notifications \in [ObjectIds -> Notification \cup {None}]
  /\ channel \in {"null", "open", "closed"}
  /\ published \in Seq(Message)
  /\ pc \in [Calls -> Awaits \cup {"idle", "answered", "crashed"}]
  /\ req \in [Calls -> Requests \cup {None}]
  /\ template \in [Calls -> TemplateDocs \cup {None}]
  /\ noti \in [Calls -> Created \cup {None}]
  /\ answer \in [Calls -> Answer]
  /\ enabled \in [Calls -> SUBSET Channels]
  /\ active \in [Calls -> SUBSET TemplateDocs]

-----------------------------------------------------------------------------
(* What the code computes between two awaits.                              *)

\* Mutant: the check is that there is a template.
TemplateExists(t) == t # None

\* if (!template?.isActive) throw
TemplateUsable(t) == t # None /\ t.isActive

\* const channel = req.channel ?? template.channel
ChannelOf(c) == IF req[c].channel = None THEN template[c].channel ELSE req[c].channel

\* Mutant: the third channel is forgotten.
OptedOutForgetsSms(pref, ch) ==
  /\ pref # None
  /\ \/ ch = "email" /\ ~pref["email"]
     \/ ch = "push"  /\ ~pref["push"]

\* A customer without a document has opted out of nothing, and nobody can
\* opt out of a channel that is not one of the three.
OptedOut(pref, ch) ==
  /\ pref # None
  /\ \/ ch = "email" /\ ~pref["email"]
     \/ ch = "push"  /\ ~pref["push"]
     \/ ch = "sms"   /\ ~pref["sms"]

\* Handlebars in strict mode throws on a variable it is not given.
Renders(text, variables) == Needs[text] \subseteq DOMAIN variables
Render(text, variables)  == [text |-> text, values |-> [v \in Needs[text] |-> variables[v]]]

Renderable(c) == /\ Renders(template[c].bodyTemplate, req[c].variables)
                 /\ template[c].subject # None => Renders(template[c].subject, req[c].variables)

\* Mutant: the schema has no enum.
AnyChannelAllowed(ch) == TRUE

\* The schema's enum, checked by mongoose before it inserts.
AllowedByEnum(ch) == ch \in Channels

NotiData(c) ==
  [customerId |-> req[c].customer_id,
   channel    |-> ChannelOf(c),
   subject    |-> IF template[c].subject = None THEN None
                  ELSE Render(template[c].subject, req[c].variables),
   body       |-> Render(template[c].bodyTemplate, req[c].variables),
   status     |-> "pending",
   by         |-> c]

\* Mutant: the transform leaves _id.
ToObjectKeepsId(i, doc) == [_id |-> i, id |-> i, doc |-> doc]

\* The schema's toObject transform: id is added, _id is deleted.
ToObject(i, doc) == [_id |-> None, id |-> i, doc |-> doc]

\* findByIdAndUpdate: a document that is not there is not made.
UpdateStatus(i, status) ==
  [j \in ObjectIds |-> IF j = i /\ notifications[j] # None
                       THEN [notifications[j] EXCEPT !.status = status]
                       ELSE notifications[j]]

\* Mutant: the queue is the one of the template's channel.
PayloadToTemplateChannel(c) == [queue          |-> Queues[template[c].channel],
                                notificationId |-> noti[c]._id,
                                customerId     |-> noti[c].doc.customerId,
                                channel        |-> noti[c].doc.channel,
                                subject        |-> noti[c].doc.subject,
                                body           |-> noti[c].doc.body,
                                by             |-> c]

Payload(c) == [queue          |-> Queues[noti[c].doc.channel],
               notificationId |-> noti[c]._id,
               customerId     |-> noti[c].doc.customerId,
               channel        |-> noti[c].doc.channel,
               subject        |-> noti[c].doc.subject,
               body           |-> noti[c].doc.body,
               by             |-> c]

\* config and the process as a new process finds them.
BootChannel == IF HostConnects THEN "open" ELSE "null"

Goto(c, await) == pc' = [pc EXCEPT ![c] = await] /\ UNCHANGED answer

Settle(c, status, id) ==
  /\ pc' = [pc EXCEPT ![c] = "answered"]
  /\ answer' = [answer EXCEPT ![c] = [status |-> status, notificationId |-> id]]

Throw(c) == Settle(c, "error", None)

-----------------------------------------------------------------------------
(* sendNotification.  An awaited query may always reject, and the call     *)
(* then throws to its caller.                                              *)

ActiveDocs(t)      == IF t # None /\ t.isActive THEN {t} ELSE {}
EnabledChannels(p) == IF p = None THEN Channels ELSE {ch \in Channels : p[ch]}

SendNotification(c, r) ==
  /\ pc[c] = "idle"
  /\ req' = [req EXCEPT ![c] = r]
  /\ Goto(c, "findTemplate")
  /\ enabled' = [enabled EXCEPT ![c] = EnabledChannels(preferences[r.customer_id])]
  /\ active' = [active EXCEPT ![c] = ActiveDocs(templates[r.template_name])]
  /\ UNCHANGED <<database, broker, template, noti>>

FindTemplate(c) ==
  /\ pc[c] = "findTemplate"
  /\ \/ /\ TemplateUsable(templates[req[c].template_name])
        /\ template' = [template EXCEPT ![c] = templates[req[c].template_name]]
        /\ Goto(c, "checkPreferences")
     \/ \* no such template, an inactive one, or the query rejects
        Throw(c) /\ UNCHANGED template
  /\ UNCHANGED <<database, broker, req, noti, history>>

CheckPreferences(c) ==
  /\ pc[c] = "checkPreferences"
  /\ \/ /\ ~OptedOut(preferences[req[c].customer_id], ChannelOf(c))
        /\ Renderable(c)
        /\ Goto(c, "create")
     \/ \* opted out, a variable is missing, or the query rejects
        Throw(c)
  /\ UNCHANGED <<database, broker, locals, history>>

CreateNotification(c) ==
  /\ pc[c] = "create"
  /\ \/ /\ AllowedByEnum(ChannelOf(c))
        /\ \E i \in ObjectIds :
             /\ notifications[i] = None
             /\ notifications' = [notifications EXCEPT ![i] = NotiData(c)]
             /\ \/ /\ noti' = [noti EXCEPT ![c] = ToObject(i, NotiData(c))]
                   /\ Goto(c, "publish")
                \/ \* inserted, but the reply is lost
                   Throw(c) /\ UNCHANGED noti
     \/ \* refused by the schema, or not inserted
        Throw(c) /\ UNCHANGED <<notifications, noti>>
  /\ UNCHANGED <<templates, preferences, broker, req, template, history>>

\* Mutant: sendToQueue returned false (its buffer is full) and is called again.
PublishAgain(c) ==
  /\ pc[c] = "publish"
  /\ channel = "open"
  /\ published' = published \o <<Payload(c), Payload(c)>>
  /\ Settle(c, noti[c].doc.status, noti[c]._id)
  /\ UNCHANGED <<database, channel, locals, history>>

\* Mutant: the catch only logs.
PublishSwallows(c) ==
  /\ pc[c] = "publish"
  /\ published' = IF channel = "open" THEN Append(published, Payload(c)) ELSE published
  /\ Settle(c, noti[c].doc.status, noti[c]._id)
  /\ UNCHANGED <<database, channel, locals, history>>

\* Mutant: publish() waits for a channel.
PublishWaits(c) ==
  /\ pc[c] = "publish"
  /\ channel = "open"
  /\ published' = Append(published, Payload(c))
  /\ Settle(c, noti[c].doc.status, noti[c]._id)
  /\ UNCHANGED <<database, channel, locals, history>>

\* Mutant: publish() gives up on a channel that is open but slow.
PublishGivesUp(c) ==
  /\ pc[c] = "publish"
  /\ Goto(c, "markFailed")
  /\ UNCHANGED <<database, broker, locals, history>>

\* publish() throws without a channel, and sendToQueue throws on a closed one.
Publish(c) ==
  /\ pc[c] = "publish"
  /\ \/ /\ channel = "open"
        /\ published' = Append(published, Payload(c))
        /\ Settle(c, noti[c].doc.status, noti[c]._id)
     \/ /\ channel # "open"
        /\ Goto(c, "markFailed")
        /\ UNCHANGED published
  /\ UNCHANGED <<database, channel, locals, history>>

\* Mutant: the catch falls through to the last return.
MarkFailedFallsThrough(c) ==
  /\ pc[c] = "markFailed"
  /\ \/ notifications' = UpdateStatus(noti[c]._id, "failed") /\ Settle(c, noti[c].doc.status, noti[c]._id)
     \/ Throw(c) /\ UNCHANGED notifications
  /\ UNCHANGED <<templates, preferences, broker, locals, history>>

MarkFailed(c) ==
  /\ pc[c] = "markFailed"
  /\ \/ /\ notifications' = UpdateStatus(noti[c]._id, "failed")
        /\ \/ Settle(c, "failed", noti[c]._id)
           \/ Throw(c)                              \* the reply is lost
     \/ Throw(c) /\ UNCHANGED notifications
  /\ UNCHANGED <<templates, preferences, broker, locals, history>>

-----------------------------------------------------------------------------
(* The rest of the system, as this service sees it.                        *)

MarkAsRead(i) ==
  /\ notifications' = UpdateStatus(i, "read")
  /\ UNCHANGED <<templates, preferences, broker, pc, locals, answer, history>>

\* An administrator creates, edits or deletes the template of a name.
ChangeTemplate(n, t) ==
  /\ templates' = [templates EXCEPT ![n] = t]
  /\ active' = [c \in Calls |-> IF pc[c] = "findTemplate" /\ req[c].template_name = n
                                THEN active[c] \cup ActiveDocs(t) ELSE active[c]]
  /\ UNCHANGED <<preferences, notifications, broker, pc, locals, answer, enabled>>

\* A customer edits the preferences; the first edit makes the document, and one
\* that names another customerId leaves him without.
ChangePreferences(u, p) ==
  /\ preferences' = [preferences EXCEPT ![u] = p]
  /\ enabled' = [c \in Calls |-> IF /\ pc[c] \in {"findTemplate", "checkPreferences"}
                                    /\ req[c].customer_id = u
                                 THEN enabled[c] \cup EnabledChannels(p) ELSE enabled[c]]
  /\ UNCHANGED <<templates, notifications, broker, pc, locals, answer, active>>

\* RabbitMQ closes the connection, or the host calls disconnect(): the
\* publisher keeps the closed channel and nothing opens another.
ChannelCloses ==
  /\ channel = "open"
  /\ channel' = "closed"
  /\ UNCHANGED <<database, published, pc, locals, answer, history>>

\* The process dies and is restarted; the calls in flight die with it.
CrashRestart ==
  /\ pc' = [c \in Calls |-> IF pc[c] \in Awaits THEN "crashed" ELSE pc[c]]
  /\ channel' = BootChannel
  /\ UNCHANGED <<database, published, locals, answer, history>>

-----------------------------------------------------------------------------
Init ==
  /\ templates \in [TemplateNames -> TemplateDocs \cup {None}]
  /\ preferences \in [Customers -> PreferenceDocs \cup {None}]
  /\ notifications = [i \in ObjectIds |-> None]
  /\ channel = BootChannel
  /\ published = <<>>
  /\ pc = [c \in Calls |-> "idle"]
  /\ req = [c \in Calls |-> None]
  /\ template = [c \in Calls |-> None]
  /\ noti = [c \in Calls |-> None]
  /\ answer = [c \in Calls |-> [status |-> "none", notificationId |-> None]]
  /\ enabled = [c \in Calls |-> {}]
  /\ active = [c \in Calls |-> {}]

Continue(c) == \/ FindTemplate(c) \/ CheckPreferences(c) \/ CreateNotification(c)
               \/ Publish(c) \/ MarkFailed(c)

Next ==
  \/ \E c \in Calls : Continue(c) \/ \E r \in Requests : SendNotification(c, r)
  \/ \E i \in ObjectIds : MarkAsRead(i)
  \/ \E n \in TemplateNames, t \in TemplateDocs \cup {None} : ChangeTemplate(n, t)
  \/ \E u \in Customers, p \in PreferenceDocs \cup {None} : ChangePreferences(u, p)
  \/ ChannelCloses
  \/ CrashRestart

\* Node runs every continuation that is ready, and every awaited query is
\* answered or times out: a call that can go on does.
Fairness == \A c \in Calls : WF_vars(Continue(c))

Spec     == Init /\ [][Next]_vars
FairSpec == Spec /\ Fairness
-----------------------------------------------------------------------------
(* What the service promises. *)

Stored(c) == {i \in ObjectIds : notifications[i] # None /\ notifications[i].by = c}
Sent(c)   == {k \in DOMAIN published : published[k].by = c}

\* A message is put in a queue only after its notification is saved, says what
\* the saved notification says, and goes to the delivery queue of the saved
\* channel, never to the dead-letter queue that config keeps under the same key.
SavedBeforeQueued ==
  \A k \in DOMAIN published : \E i \in Stored(published[k].by) :
    /\ published[k].customerId = notifications[i].customerId
    /\ published[k].channel = notifications[i].channel
    /\ published[k].subject = notifications[i].subject
    /\ published[k].body = notifications[i].body
    /\ published[k].queue = Queues[notifications[i].channel]
    /\ published[k].queue # Queues.deadLetter

\* A call saves at most one notification and queues at most one message,
\* whatever fails and whenever the process is restarted.
AtMostOnce ==
  /\ \A i, j \in ObjectIds :
       /\ notifications[i] # None
       /\ notifications[j] # None
       /\ notifications[i].by = notifications[j].by
       => i = j
  /\ \A k, l \in DOMAIN published : published[k].by = published[l].by => k = l

\* What a caller is told is what happened: "pending" when the message was
\* handed to RabbitMQ and only then, "failed" when the notification was saved
\* and not queued; a call that throws has queued nothing.
AnswerIsTruthful ==
  \A c \in Calls :
    /\ answer[c].status = "pending" <=> Sent(c) # {}
    /\ answer[c].status \in {"pending", "failed"} => Stored(c) # {}

\* A notification is saved only on a channel its customer had enabled at some
\* moment since the request arrived, though preferences change meanwhile.
OptOutRespected ==
  \A i \in ObjectIds : notifications[i] # None =>
    notifications[i].channel \in enabled[notifications[i].by]

\* What is saved was rendered, subject and body, from one version of the
\* template, which was active at some moment since the request arrived.
OneActiveTemplate ==
  \A i \in ObjectIds : notifications[i] # None =>
    LET n == notifications[i] IN
    \E t \in active[n.by] :
      /\ n.body = Render(t.bodyTemplate, req[n.by].variables)
      /\ (n.subject = None) <=> (t.subject = None)
      /\ n.subject # None => n.subject = Render(t.subject, req[n.by].variables)

\* Nothing this service does takes a notification its customer has read back
\* to another status, not even a publication that fails after the reading.
ReadIsFinal ==
  [][\A i \in ObjectIds : notifications[i] # None /\ notifications[i].status = "read"
                            => notifications'[i] = notifications[i]]_vars

\* The service implements SendContract: a call saves, then queues or gives up,
\* then answers, each once, under every interleaving, lost reply and restart.
SavedCalls  == {c \in Calls : Stored(c) # {}}
QueuedCalls == [k \in DOMAIN published |-> published[k].by]
Verdicts    == [c \in Calls |-> IF pc[c] \in Awaits THEN "open"
                                ELSE IF pc[c] = "answered" THEN answer[c].status
                                ELSE pc[c]]
Contract == INSTANCE SendContract
            WITH saved <- SavedCalls, queued <- QueuedCalls, verdict <- Verdicts
ImplementsContract == Contract!CSpec

\* Every call answers or throws, unless the process dies first.
EveryCallSettles ==
  \A c \in Calls : pc[c] = "findTemplate" ~> pc[c] \in {"answered", "crashed"}

\* README.md, line 3: a notification that was saved is dispatched to its
\* delivery queue, unless the broker closes the connection or the process dies.
SavedIsDispatched ==
  \A c \in Calls : pc[c] = "publish" ~>
    Sent(c) # {} \/ channel = "closed" \/ pc[c] = "crashed"

\* README.md, line 3, and the status "failed" of the schema: a notification that
\* was saved is dispatched to its delivery queue or, in the end, not "pending".
SavedIsAccountedFor ==
  \A c \in Calls : pc[c] = "publish" ~>
    \/ Sent(c) # {} \/ pc[c] = "crashed"
    \/ \E i \in Stored(c) : notifications[i].status # "pending"
=============================================================================
