# Verification of ms-ga-noti

TLA+ models, model-checking runs and machine-checked proofs for the notification
service `ms-ga-noti`. Paths like `src/server.ts` are relative to the repository;
`PROJECT.json` lists, for every definition that models code, the lines it stands
for, and every hazard of the code with the properties that would catch it.

## 1. The system and its components

```
Kafka --> KafkaConsumer --> KafkaEventHandler --+
                                                v
HTTP ---> NotificationController --> NotificationService --> RabbitMQPublisher --> RabbitMQ
HTTP ---> TemplateController ---> TemplateService |  reads templates and preferences  |
HTTP ---> PreferenceController -> PreferenceService   MongoDB                         v
seed script ------------------> TemplateService                 Email/Push/SmsWorker
```

One Node.js process (`src/server.ts`) holds everything but the seed script.
Components talk by calls that are awaited and share the MongoDB collections.
JavaScript runs one continuation at a time: code between two awaits is atomic in
the process, and everything else can happen at an await.

| Component | State | Operations | Hard behaviour | What makes it correct |
|---|---|---|---|---|
| Notification service (`notification.service.ts`, its repository and schema, `template.engine.ts`) | the notifications collection; per call, locals held across awaits | `sendNotification`, `markAsRead` | preferences and templates change under a call; insert and publication are not one transaction; lost replies; restarts | no message without its notification, nothing twice, truthful answers, opt-outs and inactive templates respected, "read" is final, the contract, every call settles |
| RabbitMQ publisher (`rabbitmq.publisher.ts`) | connection, channel, amqplib's write buffer | `connect`, `publish`, `disconnect` | publishing before `connect` or after a close; no confirms | a message is in one place at most |
| Kafka consumer and handler (`kafka.consumer.ts`, `kafka.handler.ts`) | the group's committed offset, kafkajs' position, the event at hand | `start`, `startConsuming`, `eachMessage`, `handleEvent`, `stop` | errors swallowed, death before a commit, start without an offset | what is committed has settled; order; repeats only after deaths; every message is passed |
| Delivery workers (`src/workers/*.ts`) | the broker's queue, unacknowledged messages | `start`, the consume callback, `stop` | redelivery, lost acknowledgements, cancelled consumers | a message leaves for a reason, is in one place, comes again only for a loss; first processing in order; the queue drains |
| Template service (`template.service.ts`, its repository and schema) | the templates collection and its unique index | create, update, delete, reads | look, await, then insert | names are unique |
| Seed script (`seed-templates.ts`) | the default it is at | the loop | creations and runs in parallel, queries that fail | no default left out, it exits |
| Preference service (`preference.service.ts`, its repository and schema) | the preferences collection and its unique index | read, upsert | first edits that race; an index built late; keys the schema lacks; edits that move a document | one document per customer; edits applied one after the other, each whole as far as the schema has names for it |
| Listing (`notification.repository.ts:17`, `notification.controller.ts:16`) | none of its own | `listNotifications`, `find` | two queries, no snapshot; pages shift while notifications arrive; page arithmetic | a client that reads on misses nothing; a total misleads only in a race |
| Lifecycle (`server.ts`, `connection.ts`) | which parts are up | bootstrap, shutdown, signals, exits | a second signal, requests and events in flight, connections that outlive `server.close`, a stop that rejects | an event has MongoDB until it has settled; one shutdown cuts off no event and closes all; it ends |
| HTTP API (`app.ts`, `src/api`) | requests in flight | every route | rejections before and after a write; documents deleted meanwhile | one answer, a truthful one, for every request |
| Configuration and wiring, logging and errors | none after the start | - | a queue name that is the dead-letter key; variables that production requires | in the modules that use them |
| Domain types | none | - | - | - |

## 2. Modules

| Module | What it is |
|---|---|
| `SendContract` | abstract: what `sendNotification` promises. A call saves, then queues or gives up, then answers, each at most once; it may throw or die at any point |
| `NotificationService` | `sendNotification` await by await, and `markAsRead`, over the three collections and the publisher's channel; implements `SendContract` |
| `EventConsumer` | the Kafka side, over `SendContract` in the place of the service |
| `DeliveryWorker` | the publisher's buffer, one RabbitMQ queue and its worker |
| `Dispatch` | the composition: `EventConsumer`, the contract and `DeliveryWorker` in one process that dies as a whole |
| `TemplateService` | the templates collection, its index, creations, edits, and seed runs |
| `PreferenceStore` | abstract: one set of preferences per customer, to which edits are applied one after the other, and which an edit may hand to another customer |
| `PreferenceService` | `updatePreferences` as the upsert that it is to MongoDB; implements `PreferenceStore` from the moment the index is there |
| `Listing` | the pages of `listNotifications` and a client that reads them |
| `Lifecycle` | bootstrap, the work in the process, signals, shutdowns, exits |
| `HttpApi` | a request's way through Express, the controllers and the error handler |
| `MC...` | small instances of each for TLC |
| `...Proofs` | theorems (section 5); those about `EventConsumer` are in `DispatchProofs` |

`EventConsumer` EXTENDS `SendContract`, asks no more of it than it promises
(`ContractIsKept`), and `NotificationService` implements it (`ImplementsContract`):
what is shown of the consumer, and of `Dispatch`, holds with the detailed service in
its place, as far as they see it. `Dispatch` EXTENDS `EventConsumer` and instantiates
`DeliveryWorker`. `Lifecycle` and `HttpApi`
rest on `EveryCallSettles` of `NotificationService` for the fairness of what they
await.

### NotificationService and the code

One action is what the database does with the awaited query and the code that
follows, up to the next await; `pc[c]` names the await that call `c` stands at.

| Action | Code (`notification.service.ts` unless said) |
|---|---|
| `SendNotification` | 40-44, up to the first await |
| `FindTemplate` | 44-52: the template, `!template?.isActive`, the channel |
| `CheckPreferences` | 52-80: opt-outs, rendering, the document to insert |
| `CreateNotification` | 80, `notification.repository.ts:40`, the schema's enum, and the `toObject` transform |
| `Publish` | 82-96 and 103, `rabbitmq.publisher.ts:49` |
| `MarkFailed` | 97-101, `notification.repository.ts:45` |
| `MarkAsRead` | 36-38 |
| `ChangeTemplate`, `ChangePreferences` | `template.service.ts:23-50`, `preference.service.ts:19-29`, as this service sees them |
| `ChannelCloses`, `CrashRestart` | the broker, a closed channel kept by the publisher; the process |

The insert and the code after its reply are two actions: the notification is
visible to everyone in between, and the reply may be lost. `ToObject` deletes
`_id` as the schema does; `noti[c]._id` is therefore `None` in the message, in
`updateStatus` and in the answer, as it is `undefined` in the code.

A document's and a message's field `by`, and the variables `enabled` and
`active`, are history: no action reads them. `HostConnects` says whether the host
calls `publisher.connect()`. `src/server.ts` does not; the promises are checked
for a host that does, since a service that cannot publish keeps most of them for
nothing, the run `deployed` checks the host as it is, and the proofs cover both.

### EventConsumer

`EachMessage` is `eachMessage` up to its return or to the await of
`sendNotification`, `ServiceStep` a step of the contract, `HandleEventReturns` the
rest: the catch of `handleEvent` only logs, so `eachMessage` returns either way
and kafkajs counts the message as done. `Commit`, fetching and delivery again are
kafkajs' part, as the code uses it. A group without a committed offset starts
behind what is in the topic (`fromBeginning: false`); `base` remembers where.
Nothing calls `KafkaConsumer.connect`: kafkajs connects when `subscribe` does.

### DeliveryWorker

`SendToQueue` puts a message in amqplib's buffer, `OutboxReachesQueue` moves it to
the broker, `Deliver` pushes it to the worker (there is no prefetch), `Callback` is
the whole consume callback, which does not await and so runs in one step,
`BrokerGetsReply` handles its ack or nack. `ConsumerCancelled`,
`ConnectionCloses` and `ProcessDies` are the three ways to lose a channel; only
the last is followed by a new `WorkerStart`. `Pipeline` is what is under way, from
the oldest message to the newest.

### Dispatch

Two steps are shared: `Publish` is a step of the contract and `SendToQueue`,
`ProcessDies` a death of consumer and service and of worker and outbox. Every
other step is one of `EventConsumer` or of `DeliveryWorker`, and leaves the other
alone; that each part takes only steps of its own specification is proved. The
messages of the queue are the calls that published them.

### TemplateService

`PostTemplate`, `FindByName` and `Insert` are `createTemplate` cut at its awaits;
the seed script calls the same three. `BuildIndex` is mongoose's `autoIndex`,
which runs after the connection is up and fails over duplicates. An id whose
template was deleted may be given again, which MongoDB does not do; no property
tells ids of different times apart. A PUT replaces both fields of the model's
document.

### PreferenceService

To MongoDB an upsert that finds no document is a look (`FindOneAndUpdate`) and an
insert (`Upsert`). An insert that meets the unique index makes the server look
again, as it does for a query on the indexed field alone and an update that keeps its
value; otherwise the query rejects with E11000. `Known` is mongoose's
strict mode, `ReturnNew` the option `new: true`, `Written` a reply that comes or is
lost. The controller hands on the body as it came (`preference.controller.ts:27`), and
`customerId` is a field of the schema: a body that names it has it set, so `Owner` is
the customer it names, and the document found or inserted for the caller becomes that
customer's (`Edited`), if the index finds no other of his (`Unique`). In
`PreferenceStore` that is `Change` with an `Heir` other than the caller. Its limit
shows in `Create`: such an edit has looked for the caller's document and found none,
and inserts the other's although the caller may have got one since.

What the answer promises is the edit *as far as the schema has names for it*. A body
under the names of `openapi/swagger.yaml:407` (`email_enabled`) is answered with 200
and a document that does not show it; the run has such a body, which counts as an edit
of nothing, and the disagreement is listed in section 3.

Before `BuildIndex` two first edits may leave two documents; that is why `OneDocument`
and `PreferenceStore` promise nothing until then.

### Listing

`FindReplies` and `CountReplies` are the two promises of `Promise.all`, in either
order; `Reply` is the controller's answer, after which the client asks for the next
page or stops: when a page is short, or by the total. `Save` puts a notification
anywhere in the list, since `createdAt` is set before the insert.

### Lifecycle

`BootOrder` and `StopOrder` are the awaits of `bootstrap` and of `shutdown`, and
`boot` and `shutdown[s]` the one reached; each signal runs a shutdown of its own.
`StopResolves` and `StopRejects` end a stop, and `ToMongo` is the end of the first
try or its catch. Only the first `disconnect` of kafkajs waits for the event at
hand (`StopReturns`), and amqplib throws when what is not open is closed.
`server.close` is not awaited, and keeps out new connections only (`Connect`). One
that is not idle when it is called stays: the request that is "coming" over it is
opened (`OpenRequest`), and after its answer the connection may bring another
(`Answer`), up to the exit. What a request then finds closing under it the code does
not care about, and no property promises it anything after the first signal.

### HttpApi

`Receive` is everything up to the controller's await (body parser, routes,
`requireAuth`, the controller), `ServiceSettles` everything from the service's end to
the answer. `Results` lists how each service method ends when nothing fails under
it, and a rejection may come before or after the change.

## 3. Runs

| Run | Instance | States | Shows |
|---|---|---|---|
| `service` | 2 calls, 2 ids, 1 customer, 3 template documents (two active ones, an inactive one), 2 preference documents, 3 requests (own channel; other channel, variable missing; the dead-letter key) | 1,567,680 | all safety properties, `ReadIsFinal`, `ImplementsContract` |
| `service_liveness` | the same with 1 template document and 1 preference document, fairness, no symmetry | 25,736 | `EveryCallSettles`, `SavedIsDispatched` |
| `consumer` | 3 messages of six kinds, 1 death | 330,094 | what is committed has settled, order, repeats, `EveryMessageSettles` |
| `worker` | 3 messages, 1 malformed, 2 lost channels | 7,965 | safety and `QueueDrains` |
| `dispatch` | 2 events of three kinds, 2 deaths of the process, 2 losses in all | 120,929 | `ProcessedIsBacked`, `RepeatsAreBounded`, `EventsInOrder`, `EventReachesCustomer` |
| `templates` | 2 creations, 1 seed run of 2 defaults, 2 ids, 2 names | 360,139 | `NamesAreUnique`, `SeedCovers`, `SeedExits` |
| `preferences` | 3 edits of 5 bodies (two name a customer, one has only a key the schema lacks), 2 customers, 3 ids | 25,223 | `OneDocument`, `AnswerShowsEdit`, `ImplementsStore` |
| `listing` | 4 notifications, first pages -1, 0, 1 and none, limits 0, 1, 2 and none | 37,375 | `ShortPageIsLast`, `TotalIsLastUnlessRaced` |
| `lifecycle` | 2 events, 2 requests, 2 signals | 59,249 | `EventsFinish`, `LeftOpenForAReason`, `WorkMeetsResources`, `BootAndShutdownEnd` |
| `http` | 2 requests, of any kind | 43,372 | `AnsweredOnce`, `RefusedMeansUnchanged`, `SuccessMeansDone`, `EveryRequestAnswered` |

Why these bounds are enough to be interesting: two calls are all that
interference between calls needs, since a call touches no other's documents
and shares only the templates, the preferences and the channel; those three and
the process change without a bound. Two of the three template documents differ in
channel and text, so a mixture of two versions shows. `MaxLog = 3` gives a message
before, at and after the one at hand when the process dies. Two lost channels let
a message be redelivered, processed and redelivered; in `dispatch` two deaths also
let Kafka repeat an event whose first message RabbitMQ repeats. Two ids in
`TemplateService` are enough for two documents to share a name; the collection is
full at times, where an insert can only fail. Three edits are two that race for the
first document and one that is lost between them if edits can be lost, or moves it. Four
notifications let a page of two shift by a page while it is read. Two signals are
two shutdowns that run into each other; two events are one at hand and one not
taken up, two requests one that outlives `server.close` and one that follows it on the
same connection. Two requests are one that deletes what the other is about.

`CHECK_DEADLOCK FALSE` stands where the system may stop: the log is full and
consumed (`consumer`), everything is delivered (`worker`, `dispatch`), everyone is
done (`templates`, `preferences`, `listing`, `http`), the process has exited
(`lifecycle`).

Symmetry permutes what no definition tells apart (calls and ids; customers in
`preferences`; notifications in `listing`), and is used only in runs without
liveness properties.

### Disagreements found

| Run | What the model shows |
|---|---|
| `deployed` | nothing calls `RabbitMQPublisher.connect`: no saved notification is dispatched, though README.md:3 says the service dispatches. It is not marked as failed either: `updateStatus` gets the `_id` that `toObject` deleted, so the caller is told "failed" and the notification stays "pending" |
| `deaf_worker` | a cancelled consumer or a connection closed by the broker is never set up again; PLANNING.md:8 says workers deliver |

Seen in the code while modelling it, and modelled as the code has it, without a run:

* The answer's `notificationId` is undefined, for the same reason as above; the test
  at `tests/unit/services/notification.service.spec.ts:146` expects an id, from a
  mocked `create`.
* A name taken between the look and the insert ends in E11000 and a 500;
  `tests/unit/services/template.service.spec.ts:76` says `ValidationError`.
* A shutdown (`server.ts:41`, "Shutting down gracefully…") cuts requests off, since
  nothing waits for `server.close`, closes MongoDB under those that connections still
  bring, and a second signal may cut off an event, since
  only the first `disconnect` of the consumer waits for it.
* `README.md:34-44` documents paths that `src/api/routes` answers with 404. A malformed
  body is a 500, where `openapi/swagger.yaml:39` has 400; reading a notification that
  does not exist is a 204, where line 124 has 404; sending is a 202, where line 33
  has 201; `email_enabled` (line 407) is dropped and answered with 200, the schema's
  name being `emailEnabled`, and so are all other names of that body.

## 4. Fairness

* `NotificationService`: weak fairness of each call's next step. Node runs every
  continuation that is ready, and the MongoDB driver answers or rejects an awaited
  query. Nothing is assumed of requests, edits, readings, closes or deaths.
* `EventConsumer`: weak fairness of starting (`restart: unless-stopped` in
  `docker-compose.yml:18`), of handling the next message or returning from the one at
  hand (kafkajs keeps fetching), and of the service, whose calls settle
  (`EveryCallSettles`). Commits and deaths are not fair.
* `DeliveryWorker`: sockets drain, containers are restarted, callbacks run.
* `Dispatch`: that of `EventConsumer` and of `DeliveryWorker`.
* `TemplateService`: awaited queries are answered or rejected, and a seed run goes on.
  Nothing is assumed of administrators or of the index.
* `Lifecycle`: the awaits of bootstrap and shutdown end, by the libraries' timeouts,
  and an event at hand settles. Nothing is assumed of requests or signals.
* `HttpApi`: a service call settles.
* `PreferenceService` and `Listing` have no liveness properties.

## 5. Proofs

The theorems hold for every value of the constants that satisfies the modules'
ASSUMEs: any number of calls, documents, customers, messages, notifications, pages,
signals, losses and deaths. Each module `M` that is proved about has its theorems in
`MProofs`, but for `EventConsumer`, whose theorems the whole of `Dispatch` needs and
`DispatchProofs` therefore begins with. `TypeCorrect` is the first theorem of every
one but `ListingProofs`, where the kinds of the variables are a part of the
invariant. Every invariant and every action property that a run checks is stated by a
theorem.

**NotificationService.** `TypeCorrect` proves `[]TypeOK` from `Typed`, which adds to
`TypeOK` that a call past `FindTemplate` has its locals. The other theorems follow
from one inductive invariant, `Safe == Typed /\ Book /\ Given`:

* `Book` is `SavedBeforeQueued`, `AtMostOnce` and `AnswerIsTruthful` with
  `Progress(c)`: where a call stands tells what it has done. None of the three is
  inductive alone: that a call about to insert has not inserted yet, and that what
  `create` returned is what the database holds but for the status, is not in them.
* `Given` is `OptOutRespected` and `OneActiveTemplate` with `Consent(c)`: what a call
  has read, or would read now, is within what was enabled and active since it began.

`KeepsText` covers the steps that set statuses only, so each action disturbs few
conjuncts. From `Safe` follow `MessagesAreBacked`, `NothingTwice`,
`AnswersAreTruthful`, `OptOutsAreRespected`, `TemplatesAreActive`, the action property
`ReadingIsFinal`, and `ServiceImplementsContract`: initial states map to
`CInit`, every step to a step of the contract or a stutter.

**EventConsumer** (in `DispatchProofs`). `CommittedIsSettled` and `InOrder` follow
from `ConsumerInv`: the two properties, the kinds of the variables, and `AtHand`, that
the call being awaited is for the message at hand. `RepeatsAreDeaths` needs `Counted`
as well: a message that has not been met since the last death has been handled at most
as often as there were deaths, one that has been met once more. `TypeCorrect` adds
what the contract keeps (`Others`). They hold for any service that keeps
`SendContract`, and `ContractIsKept` says that the consumer supposes nothing else of it.

**DeliveryWorker.** All five invariants follow from one, which looks at the
`Pipeline` and at `Ahead`, the part of it that no callback has seen. Every action
appends to them, takes their head, cuts off their end or leaves them as they are
(the lemmas called `...Effect`, from lemmas about heads, tails and concatenations);
after a lost channel all of the pipeline is ahead again.
`WorkerAndBrokerAgree` is what splits the pipeline in two. `Told` (replies are true)
and `Places` give `NothingLeavesUnseen` and, with `Ordered`, `OnePlace`; `Ordered`
(the pipeline keeps the order of `sendToQueue`) and `Waiting` (what is neither lost nor
processed is ahead) give `OrderIsKept`; `Counted`, that a message has been processed
once for each loss and once more when it is not ahead, gives `RepeatsAreLosses`.

**Dispatch.** `ConsumerIsKept` and `WorkerIsKept` show the composition to implement
each of its parts: the worker's history variable `sent` lets a message in only once,
and the worker's part never hinders the consumer's. So the invariants of both parts
hold in the whole (`PartsInv`); the lemmas of `DeliveryWorkerProofs` are used through
an instance of it, with the calls for messages. What only the whole can promise:

* `WorkIsBacked`: `Asked` (a call is for a message of the partition that asks for it)
  and `Handed` (what the worker's part was handed is what the service queued, and each
  of it was saved) join the two ends.
* `EventsAreHeardInOrder`: by `Line` the calls are handed over in the order of the
  partition. When one is handed over, each event before its own has settled
  (`SettledInOrder`): a call for it failed, or was told "pending", and is then in front
  of it. Behind that, `FirstInOrder` of the worker keeps the order. `Line` is about
  positions in what was handed over, since after a death the partition is read again
  while RabbitMQ still delivers what came of the first reading.
* `RepeatsStayBounded`: what is inductive is not the number of times a customer has
  heard of an event, but that number together with what comes if nothing more is lost:
  the calls ahead of the worker or still awaited (`Coming`), and the one this life of
  the process may still make (`Owed`). A step that loses nothing moves an event from
  one of them to the next. A loss may bring back all that were ever made, of which by
  `Counted` there are at most as many as losses and one: it adds a row to the
  triangle (`NextTriangle`, `AllComesAgain`).

**Listing.** `ShortPagesSuffice` and `TotalsMostlySuffice` rest on the fact that a save
moves a notification down the list, never up (`InsertMovesDown`). So what the client
began with and has not been shown is `Below` the pages it has read: on this page or
later while it asks (`Asking`), on later ones once the page has been found
(`Answered`), and nowhere when the page was short or the list had ended
(`PageAndRest`). The length of the list when the page was found has to be kept in the
invariant, since the count may have been taken before or after.

**TemplateService.** `NamesUnique` is inductive with the types. `DefaultsCovered` needs
`Runs`: what a seed run has behind it is seen or failed (`Covered`), and the creation
it awaits is for the default it is at (`Creating`).

**PreferenceService.** `OnePerCustomer` and `AnswersShowEdits` are inductive with the
types and the parameters of calls under way. Both kinds of write are one (`Writes`): a
document is the owner's afterwards and nobody else's (`WriteKeepsOne`), and the index
has seen to it that the owner had no other. `ServiceImplementsStore` maps a write of a
document that was there to `Change`, one of a new document to `Create`, the end of the
index' building to `Unpromised`, and everything else to a stutter: with `OneDocument`
the document that `Prefs` chooses is the one there is (`WritePrefs`).

**Lifecycle.** `Booted` says what bootstrap has opened before the first signal,
`Stopped` that no event is taken up after it, `Consecutive` that signals are numbered in
turn; with `Finishing` (past the first stop of the first shutdown no event is open)
they give `EventsAreFinished`, with `Closing` (a shutdown that nothing rejected has
closed what it has passed) `NothingLeftOpen`. `WorkIsServed` needs
`Meeting` as well: an event at hand has MongoDB while at most one shutdown has begun
(taken up from an open consumer, which by `Booted` comes after MongoDB, and settled by
`Finishing` before the disconnect), and a request, or one still coming over a
connection, has all of bootstrap behind it.

**HttpApi.** `Standing` says that a request that has not come or is pending is
unanswered and has changed nothing, `Honest` that its answer is true; neither is
inductive without the other.

**Only model-checked:** everything temporal that says "in the end"
(`EveryCallSettles`, `SavedIsDispatched`, `EveryMessageSettles`, `QueueDrains`,
`SeedExits`, `BootAndShutdownEnd`, `EveryRequestAnswered`, `EventReachesCustomer`),
which is out of the prover's reach.

## 6. Not modelled

* Text: Handlebars is "the source with the values it asks for, or a throw when one is
  missing"; a subject that renders to the empty string is not told apart.
* `customerId` or `userId` as the empty string in an event: taken for missing.
* Providers (SendGrid, FCM, Twilio): the code has a TODO there.
* Kafka rebalances while a message is at hand; several partitions, which are
  independent of each other.
* `RabbitMQPublisher.connect` and `disconnect` await by await: nothing calls them, so
  there is no order of calls to follow. What `publish` meets (no channel, an open one,
  a closed one) is in `NotificationService`.
* Page parameters that are not numbers, negative limits, notifications with equal
  `createdAt` (MongoDB promises no order).
* Bodies of `PUT /preferences/me` that are more than fields and values: update
  operators and pipelines. A body that names `_id` is one whose query rejects, or whose
  insert has that id.
* Connections that are lost while they are being closed. In `DeliveryWorker` the
  publisher's buffer is lost with the process only; when the broker closes the
  publisher's connection it is lost too, and publishing throws from then on
  (`ChannelCloses` of `NotificationService`).
* What a consumer group without a committed offset skips: the properties of
  `EventConsumer` begin at `base`, where it began to read.
* `requireRole`, which no route uses; helmet, cors, the correlation id, the logger,
  the inversify container, the domain types: no state, or none that changes.
* That the handler's topics (`kafka.handler.ts:16`) are not those of `config`: a
  disagreement between two constants.

## 7. What is left

1. `Dispatch` with `NotificationService` itself in the place of its contract: that the
   two agree step by step is proved (`ServiceImplementsContract`, `ContractIsKept`), but
   the composition with the database and the templates in it is not a module.
2. A module of the publisher's channel, step by step, when a host connects it.
