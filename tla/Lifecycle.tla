----------------------------- MODULE Lifecycle -----------------------------
(***************************************************************************)
(* One life of the process (src/server.ts): bootstrap, the work that is    *)
(* going on in it, signals, shutdown, exit.                                *)
(*                                                                         *)
(* Each signal runs a shutdown of its own, over the same consumer, worker  *)
(* channels and database.  The libraries are modelled as the code meets    *)
(* them: the first disconnect() of a kafkajs consumer waits for the event  *)
(* at hand, a later one returns at once; amqplib refuses to close what is  *)
(* closing or closed.                                                      *)
(*                                                                         *)
(* Limits: an event or a request is open until it settles, what it does    *)
(* meanwhile is in the other modules; the awaits inside one start() are    *)
(* one step, since all of them end in exit(1) when they reject; RabbitMQ   *)
(* closes no connection that is being closed, and mongoose, which          *)
(* reconnects, stays "up" until it is told to disconnect.  A connection    *)
(* that is kept alive and brings another request is taken to be idle at no *)
(* time: that server.close may meet it idle, and close it, is a request    *)
(* that does not come.                                                     *)
(***************************************************************************)
EXTENDS Naturals, Sequences, FiniteSets

CONSTANTS
  Events,      \* Kafka events that may be handled in this life
  Requests,    \* HTTP requests that may arrive
  MaxSignals   \* bound: SIGTERM and SIGINT received after bootstrap

ASSUME SignalsAssumption == MaxSignals \in Nat

VARIABLES
  boot,      \* the step of BootOrder that bootstrap stands at
  resource,  \* resource[x]: "down", "open", "lost", "closing", "closed"
  mongo,     \* the mongoose connection: "down", "up", "closing"
  http,      \* the HTTP server: "down", "listening", "closing"
  shutdown,  \* shutdown[s]: the stop the s-th shutdown awaits; 0 before it
  exit,      \* "no", or how it ended: "clean" (code 0), "failed" (1), "killed"
  event, request,  \* "new", "open", "settled", or "cut" by the exit; a request
                   \* is "coming" while its connection is there, not idle
  rejected   \* history, read by no action: a stop has rejected

work == <<event, request>>
vars == <<boot, resource, mongo, http, shutdown, exit, work, rejected>>

-----------------------------------------------------------------------------
\* Mutant: the consumer is started first.
BootConsumerFirst == <<"config", "consumer", "mongo", "email", "push", "sms", "listen">>

\* bootstrap(), after the import of config.
BootOrder == <<"config", "mongo", "consumer", "email", "push", "sms", "listen">>

\* What each start() opens, and stop() closes.
Opens == [consumer |-> {"consumer"},
          email |-> {"email.channel", "email.connection"},
          push  |-> {"push.channel", "push.connection"},
          sms   |-> {"sms.channel", "sms.connection"}]
Resources == UNION {Opens[p] : p \in DOMAIN Opens}

\* Mutant: the sms worker is forgotten.
StopTwoWorkers == <<"consumer", "email.channel", "email.connection",
                    "push.channel", "push.connection">>

\* The four stops of a shutdown, await by await.
StopOrder == <<"consumer", "email.channel", "email.connection",
               "push.channel", "push.connection", "sms.channel", "sms.connection">>
DisconnectMongo == Len(StopOrder) + 1

\* In production three variables must be set and not empty.
Required == {"MONGODB_URI", "KAFKA_BROKERS", "RABBITMQ_URL"}
ConfigLoads(production, set) == production => Required \subseteq set

Running == exit = "no"
Signals == {s \in 1 .. MaxSignals : shutdown[s] > 0}

\* process.exit and every other end cut off what is open.
Cut(w) == [x \in DOMAIN w |-> IF w[x] = "open" THEN "cut" ELSE w[x]]
Exit(code) == /\ exit' = code
              /\ event' = Cut(event)
              /\ request' = Cut(request)

-----------------------------------------------------------------------------
(* bootstrap *)

Starts(p) == /\ resource' = [x \in Resources |-> IF x \in Opens[p] THEN "open" ELSE resource[x]]
             /\ UNCHANGED <<mongo, http>>

\* What the step of BootOrder changes when its promise resolves.
Succeeds(step) ==
  \/ /\ step = "config"
     /\ \E production \in BOOLEAN, set \in SUBSET Required : ConfigLoads(production, set)
     /\ UNCHANGED <<resource, mongo, http>>
  \/ step = "mongo" /\ mongo' = "up" /\ UNCHANGED <<resource, http>>
  \/ step \in DOMAIN Opens /\ Starts(step)
  \/ step = "listen" /\ http' = "listening" /\ UNCHANGED <<resource, mongo>>

\* A step that fails ends the process with code 1: config throws, a worker
\* calls exit, the port is taken and nobody listens to "error", or the
\* promise rejects into bootstrap().catch.
Fails == Exit("failed") /\ UNCHANGED <<boot, resource, mongo, http>>

Bootstrap ==
  /\ Running
  /\ boot \in DOMAIN BootOrder
  /\ \/ Succeeds(BootOrder[boot]) /\ boot' = boot + 1 /\ UNCHANGED <<exit, work>>
     \/ Fails
  /\ UNCHANGED <<shutdown, rejected>>

-----------------------------------------------------------------------------
(* The work of the process.  A consumer that is closing takes up nothing. *)

TakeEvent(e) ==
  /\ Running
  /\ resource["consumer"] = "open"
  /\ event[e] = "new" /\ \A f \in Events : event[f] # "open"
  /\ event' = [event EXCEPT ![e] = "open"]
  /\ UNCHANGED <<boot, resource, mongo, http, shutdown, exit, request, rejected>>

SettleEvent(e) ==
  /\ Running
  /\ event[e] = "open"
  /\ event' = [event EXCEPT ![e] = "settled"]
  /\ UNCHANGED <<boot, resource, mongo, http, shutdown, exit, request, rejected>>

\* A new connection; only these server.close keeps out.
Connect(r) ==
  /\ Running
  /\ http = "listening"
  /\ request[r] = "new"
  /\ request' = [request EXCEPT ![r] = "coming"]
  /\ UNCHANGED <<boot, resource, mongo, http, shutdown, exit, event, rejected>>

\* The request has been received, and its handler is called.
OpenRequest(r) ==
  /\ Running
  /\ request[r] = "coming"
  /\ request' = [request EXCEPT ![r] = "open"]
  /\ UNCHANGED <<boot, resource, mongo, http, shutdown, exit, event, rejected>>

\* The connection ends, or is kept alive and brings another request.
Answer(r) ==
  /\ Running
  /\ request[r] = "open"
  /\ \/ request' = [request EXCEPT ![r] = "settled"]
     \/ \E q \in Requests : /\ request[q] = "new"
                            /\ request' = [request EXCEPT ![r] = "settled", ![q] = "coming"]
  /\ UNCHANGED <<boot, resource, mongo, http, shutdown, exit, event, rejected>>

\* RabbitMQ closes a worker's connection; the worker does not notice.
LoseConnection(p) ==
  /\ Running
  /\ \A x \in Opens[p] : resource[x] = "open"
  /\ resource' = [x \in Resources |-> IF x \in Opens[p] THEN "lost" ELSE resource[x]]
  /\ UNCHANGED <<boot, mongo, http, shutdown, exit, work, rejected>>

-----------------------------------------------------------------------------
(* shutdown *)

\* server.close, not awaited: no new connection is accepted.  Connections that
\* are not idle stay, and what they bring is handled up to the exit.
CloseServer == http' = "closing"

\* A signal: server.close and the call of eventHandler.stop, which a consumer
\* that is stopping or stopped does not refuse.
Signal(s) ==
  /\ Running
  /\ boot > Len(BootOrder)
  /\ shutdown[s] = 0 /\ \A t \in 1 .. s - 1 : shutdown[t] > 0
  /\ CloseServer
  /\ shutdown' = [shutdown EXCEPT ![s] = 1]
  /\ resource' = [resource EXCEPT !["consumer"] = IF @ = "open" THEN "closing" ELSE @]
  /\ UNCHANGED <<boot, mongo, exit, work, rejected>>

\* Mutant: eventHandler.stop is not awaited.
StopIsNotAwaited(s) == TRUE

\* Only the first disconnect of the consumer waits for the event at hand.
StopReturns(s) == shutdown[s] = 1 /\ s = 1 => \A e \in Events : event[e] # "open"

Stopping(s) == Running /\ shutdown[s] \in DOMAIN StopOrder /\ StopReturns(s)

\* The end of the first try, or its catch: the next await is MongoDB's.
ToMongo(s) == /\ shutdown' = [shutdown EXCEPT ![s] = DisconnectMongo]
              /\ mongo' = "closing"

\* The stop that shutdown s awaits resolves, and it calls the next one, which
\* amqplib refuses when the channel or the connection is not open.
StopResolves(s) ==
  /\ Stopping(s)
  /\ LET next  == shutdown[s] + 1
         after == [resource EXCEPT ![StopOrder[shutdown[s]]] = "closed"]
     IN \/ /\ next \in DOMAIN StopOrder
           /\ after[StopOrder[next]] = "open"
           /\ resource' = [after EXCEPT ![StopOrder[next]] = "closing"]
           /\ shutdown' = [shutdown EXCEPT ![s] = next]
           /\ UNCHANGED <<mongo, rejected>>
        \/ /\ next \in DOMAIN StopOrder => after[StopOrder[next]] # "open"
           /\ resource' = after
           /\ ToMongo(s)
           /\ rejected' = (rejected \/ next # DisconnectMongo)
  /\ UNCHANGED <<boot, http, exit, work>>

\* It rejects: the stops that are left are skipped.
StopRejects(s) ==
  /\ Stopping(s)
  /\ ToMongo(s)
  /\ rejected' = TRUE
  /\ UNCHANGED <<boot, resource, http, exit, work>>

\* Mutant: exit(0) is in the try.
ExitIfDisconnected ==
  \/ mongo' = "down" /\ Exit("clean") /\ UNCHANGED shutdown
  \/ shutdown' = [s \in DOMAIN shutdown |-> DisconnectMongo + 1] /\ UNCHANGED <<mongo, exit, work>>

\* mongoose disconnects, or fails to and is logged; exit(0) either way.
ExitInTheEnd == mongo' \in {"down", "closing"} /\ Exit("clean") /\ UNCHANGED shutdown

ShutdownExits(s) ==
  /\ Running
  /\ shutdown[s] = DisconnectMongo
  /\ ExitInTheEnd
  /\ UNCHANGED <<boot, resource, http, rejected>>

\* A crash, a SIGKILL, or a signal before there is a handler for it.
Killed ==
  /\ Running
  /\ Exit("killed")
  /\ UNCHANGED <<boot, resource, mongo, http, shutdown, rejected>>

-----------------------------------------------------------------------------
Init ==
  /\ boot = 1
  /\ resource = [x \in Resources |-> "down"]
  /\ mongo = "down"
  /\ http = "down"
  /\ shutdown = [s \in 1 .. MaxSignals |-> 0]
  /\ exit = "no"
  /\ event = [e \in Events |-> "new"]
  /\ request = [r \in Requests |-> "new"]
  /\ rejected = FALSE

Shutdown(s) == StopResolves(s) \/ StopRejects(s) \/ ShutdownExits(s)

Next ==
  \/ Bootstrap
  \/ \E e \in Events : TakeEvent(e) \/ SettleEvent(e)
  \/ \E r \in Requests : Connect(r) \/ OpenRequest(r) \/ Answer(r)
  \/ \E p \in {"email", "push", "sms"} : LoseConnection(p)
  \/ \E s \in 1 .. MaxSignals : Signal(s) \/ Shutdown(s)
  \/ Killed

\* Connecting and closing succeed or fail within the libraries' timeouts, and
\* an event at hand settles (EveryCallSettles, of NotificationService).
Fairness == /\ WF_vars(Bootstrap)
            /\ \A e \in Events : WF_vars(SettleEvent(e))
            /\ \A s \in 1 .. MaxSignals : WF_vars(Shutdown(s))

Spec     == Init /\ [][Next]_vars
FairSpec == Spec /\ Fairness

-----------------------------------------------------------------------------
Work == {"new", "coming", "open", "settled", "cut"}

\* Every variable holds a value of the kind its comment says.
TypeOK ==
  /\ boot \in 1 .. Len(BootOrder) + 1
  /\ resource \in [Resources -> {"down", "open", "lost", "closing", "closed"}]
  /\ mongo \in {"down", "up", "closing"}
  /\ http \in {"down", "listening", "closing"}
  /\ shutdown \in [1 .. MaxSignals -> 0 .. DisconnectMongo]
  /\ exit \in {"no", "clean", "failed", "killed"}
  /\ event \in [Events -> Work]
  /\ request \in [Requests -> Work]
  /\ rejected \in BOOLEAN

\* The shutdown of a single signal cuts off no event, whatever rejects in it
\* and whichever worker has lost its connection: the consumer is stopped
\* first, and its stop waits for the event at hand.
EventsFinish == exit = "clean" /\ Cardinality(Signals) = 1 => \A e \in Events : event[e] # "cut"

\* A shutdown leaves something unclosed behind a clean exit only if a worker's
\* connection was lost, a stop rejected, or a second signal came.
LeftOpenForAReason ==
  exit = "clean" /\ Cardinality(Signals) = 1 /\ ~rejected =>
    \A x \in Resources : resource[x] = "closed"

\* Work meets what it needs, from its taking up to its end.  While an event is
\* at hand MongoDB is up, though bootstrap is not over or one shutdown has begun.
\* A request, wherever it comes from, finds all of bootstrap done, and nothing
\* closing before the first signal; after that the code promises it nothing.
WorkMeetsResources ==
  /\ (\E e \in Events : event[e] = "open") /\ Cardinality(Signals) <= 1 => mongo = "up"
  /\ \A r \in Requests : request[r] = "open" =>
       /\ boot > Len(BootOrder)
       /\ Signals = {} => mongo = "up" /\ \A x \in Resources : resource[x] \in {"open", "lost"}

\* Bootstrap ends, in a process that serves or exits, and a signal ends the
\* process, though stops reject, connections are lost, shutdowns run into each
\* other and requests are never answered.
BootAndShutdownEnd ==
  /\ <>(boot > Len(BootOrder) \/ ~Running)
  /\ \A s \in 1 .. MaxSignals : shutdown[s] > 0 ~> ~Running
=============================================================================
