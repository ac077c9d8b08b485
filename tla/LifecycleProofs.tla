-------------------------- MODULE LifecycleProofs --------------------------
(***************************************************************************)
(* Work meets what it needs, and a shutdown finishes the events at hand:   *)
(* proved for any number of events, requests and signals.                  *)
(***************************************************************************)
EXTENDS Lifecycle, FiniteSetTheorems, TLAPS

\* No signal has come.
Quiet == \A s \in 1 .. MaxSignals : shutdown[s] = 0

\* Only the first shutdown has begun.
Single == \A s \in 1 .. MaxSignals : shutdown[s] > 0 => s = 1

\* The step of BootOrder that opens resource x.
StepOf(x) == CASE x = "consumer" -> 3
               [] x \in {"email.channel", "email.connection"} -> 4
               [] x \in {"push.channel", "push.connection"} -> 5
               [] OTHER -> 6

\* Up to the first signal what bootstrap has opened is open, the rest is not.
Booted ==
  Quiet =>
    /\ boot > 2 => mongo = "up"
    /\ \A x \in Resources : boot > StepOf(x) => resource[x] \in {"open", "lost"}
    /\ resource["consumer"] = "open" => boot > 3
    /\ http = "listening" => boot > 7

\* From the first signal on no event is taken up.
Stopped == ~Quiet => boot > 7 /\ resource["consumer"] # "open"

\* Signals come one after the other.
Consecutive == \A s \in 1 .. MaxSignals : shutdown[s] > 0 => \A t \in 1 .. s - 1 : shutdown[t] > 0

\* While the process runs no event is cut, and past the first stop of the first
\* shutdown none is open.
Finishing ==
  /\ Running => \A e \in Events : event[e] # "cut"
  /\ 1 \in 1 .. MaxSignals /\ shutdown[1] > 1 => \A e \in Events : event[e] # "open"
  /\ exit = "clean" /\ Single => \A e \in Events : event[e] # "cut"

\* A single shutdown that nothing rejected has closed what it has passed.
Closing ==
  /\ 1 \in 1 .. MaxSignals /\ Single /\ ~rejected =>
       \A k \in DOMAIN StopOrder : k < shutdown[1] => resource[StopOrder[k]] = "closed"
  /\ exit = "clean" => \E s \in 1 .. MaxSignals : shutdown[s] = DisconnectMongo

\* An event at hand has MongoDB, up to a second signal; a request has come
\* when all of bootstrap was done.
Meeting ==
  /\ Single => \A e \in Events : event[e] = "open" => mongo = "up"
  /\ \A r \in Requests : request[r] \in {"coming", "open"} => boot > 7

Inv == TypeOK /\ Booted /\ Stopped /\ Consecutive /\ Finishing /\ Closing /\ Meeting

-----------------------------------------------------------------------------
LEMMA Orders ==
  /\ Len(BootOrder) = 7 /\ DOMAIN BootOrder = 1 .. 7
  /\ Len(StopOrder) = 7 /\ DOMAIN StopOrder = 1 .. 7 /\ DisconnectMongo = 8
  /\ DOMAIN Opens = {"consumer", "email", "push", "sms"}
BY DEF BootOrder, StopOrder, DisconnectMongo, Opens

LEMMA TheResources ==
  Resources = {"consumer", "email.channel", "email.connection", "push.channel",
               "push.connection", "sms.channel", "sms.connection"}
BY DEF Resources, Opens

LEMMA StopsAreResources ==
  /\ \A k \in DOMAIN StopOrder : StopOrder[k] \in Resources
  /\ \A x \in Resources : \E k \in DOMAIN StopOrder : StopOrder[k] = x
  /\ StopOrder[1] = "consumer"
<1>1. \A k \in 1 .. 7 : k = 1 \/ k = 2 \/ k = 3 \/ k = 4 \/ k = 5 \/ k = 6 \/ k = 7
  OBVIOUS
<1>2. /\ StopOrder[1] = "consumer" /\ StopOrder[2] = "email.channel"
      /\ StopOrder[3] = "email.connection" /\ StopOrder[4] = "push.channel"
      /\ StopOrder[5] = "push.connection" /\ StopOrder[6] = "sms.channel"
      /\ StopOrder[7] = "sms.connection"
  BY DEF StopOrder
<1>3. \A k \in DOMAIN StopOrder : StopOrder[k] \in Resources
  BY <1>1, <1>2, TheResources, Orders
<1>4. \A x \in Resources : \E k \in 1 .. 7 : StopOrder[k] = x
  BY <1>2, TheResources
<1> QED
  BY <1>2, <1>3, <1>4, Orders

\* What a step of bootstrap opens, by its place in BootOrder.
LEMMA BootSteps ==
  /\ BootOrder[1] = "config" /\ BootOrder[2] = "mongo" /\ BootOrder[3] = "consumer"
  /\ BootOrder[4] = "email" /\ BootOrder[5] = "push" /\ BootOrder[6] = "sms"
  /\ BootOrder[7] = "listen"
BY DEF BootOrder

LEMMA OpensStep ==
  /\ \A k \in DOMAIN BootOrder : BootOrder[k] \in DOMAIN Opens =>
       \A x \in Resources : x \in Opens[BootOrder[k]] <=> StepOf(x) = k
  /\ \A k \in DOMAIN BootOrder : BootOrder[k] \notin DOMAIN Opens =>
       \A x \in Resources : StepOf(x) # k
<1>1. \A k \in 1 .. 7 : k = 1 \/ k = 2 \/ k = 3 \/ k = 4 \/ k = 5 \/ k = 6 \/ k = 7
  OBVIOUS
<1>2. /\ Opens["consumer"] = {"consumer"}
      /\ Opens["email"] = {"email.channel", "email.connection"}
      /\ Opens["push"] = {"push.channel", "push.connection"}
      /\ Opens["sms"] = {"sms.channel", "sms.connection"}
  BY DEF Opens
<1>3. ASSUME NEW x \in Resources
      PROVE  /\ StepOf(x) \in {3, 4, 5, 6}
             /\ StepOf(x) = 3 <=> x \in Opens["consumer"]
             /\ StepOf(x) = 4 <=> x \in Opens["email"]
             /\ StepOf(x) = 5 <=> x \in Opens["push"]
             /\ StepOf(x) = 6 <=> x \in Opens["sms"]
  BY <1>2, TheResources DEF StepOf
<1> QED
  BY <1>1, <1>3, BootSteps, Orders

\* A Cut changes what is open, and nothing else.
LEMMA CutOnlyOpen ==
  ASSUME NEW S, NEW w \in [S -> Work]
  PROVE  /\ Cut(w) \in [S -> Work]
         /\ \A x \in S : Cut(w)[x] # "open" /\ (Cut(w)[x] # w[x] => w[x] = "open")
BY DEF Cut, Work

-----------------------------------------------------------------------------
LEMMA InvInit == Init => Inv
<1> SUFFICES ASSUME Init PROVE Inv
  OBVIOUS
<1>1. TypeOK
  <2>1. boot \in 1 .. Len(BootOrder) + 1 /\ 0 \in 0 .. DisconnectMongo
    BY Orders DEF Init
  <2>2. shutdown \in [1 .. MaxSignals -> 0 .. DisconnectMongo]
    BY <2>1 DEF Init
  <2> QED
    BY <2>1, <2>2 DEF Init, TypeOK, Work
<1>2. Booted /\ Stopped /\ Consecutive
  <2>1. \A x \in Resources : StepOf(x) \in {3, 4, 5, 6}
    BY TheResources DEF StepOf
  <2> QED
    BY <2>1, TheResources DEF Init, Booted, Stopped, Consecutive, Quiet
<1>3. Finishing /\ Closing /\ Meeting
  BY Orders DEF Init, Finishing, Closing, Meeting
<1> QED
  BY <1>1, <1>2, <1>3 DEF Inv

\* The process ends, otherwise than by a shutdown, and nothing else changes.
LEMMA ExitStep ==
  ASSUME Inv, Running, NEW code \in {"failed", "killed"}, Exit(code),
         UNCHANGED <<boot, resource, mongo, http, shutdown, rejected>>
  PROVE  Inv'
<1>1. TypeOK'
  BY CutOnlyOpen DEF Inv, TypeOK, Exit
<1>2. (Booted /\ Stopped /\ Consecutive)'
  BY DEF Inv, Booted, Stopped, Consecutive, Quiet
<1>3. \A e \in Events : event'[e] # "open"
  BY CutOnlyOpen DEF Inv, TypeOK, Exit
<1>4. Finishing'
  BY <1>3 DEF Inv, Finishing, Exit, Running
<1>5. Closing'
  BY DEF Inv, Closing, Exit, Running, Single
<1>6. Meeting'
  <2>1. \A r \in Requests : request'[r] \in {"coming", "open"} => request[r] \in {"coming", "open"}
    BY CutOnlyOpen DEF Inv, TypeOK, Exit
  <2> QED
    BY <1>3, <2>1 DEF Inv, Meeting
<1> QED
  BY <1>1, <1>2, <1>4, <1>5, <1>6 DEF Inv

LEMMA BootstrapStep == ASSUME Inv, Bootstrap PROVE Inv'
<1>1. CASE Fails
  BY <1>1, ExitStep DEF Bootstrap, Fails
<1>2. CASE Succeeds(BootOrder[boot]) /\ boot' = boot + 1 /\ UNCHANGED <<exit, work>>
  <2>1. boot \in 1 .. 7 /\ UNCHANGED <<shutdown, rejected, exit, event, request>>
    BY <1>2, Orders DEF Bootstrap, work
  <2>2. Quiet
    BY <2>1 DEF Inv, Stopped
  <2>3. \A x \in Resources : resource'[x] = IF StepOf(x) = boot THEN "open" ELSE resource[x]
    <3>1. CASE BootOrder[boot] \in DOMAIN Opens
      BY <1>2, <2>1, <3>1, OpensStep, BootSteps, Orders DEF Succeeds, Starts
    <3>2. CASE BootOrder[boot] \notin DOMAIN Opens
      BY <1>2, <2>1, <3>2, OpensStep, Orders DEF Succeeds, Starts
    <3> QED
      BY <3>1, <3>2
  <2>4. resource' \in [Resources -> {"down", "open", "lost", "closing", "closed"}]
    BY <1>2 DEF Succeeds, Starts, Inv, TypeOK
  <2>5. /\ mongo' = IF boot = 2 THEN "up" ELSE mongo
        /\ http' = IF boot = 7 THEN "listening" ELSE http
    BY <1>2, <2>1, BootSteps, Orders DEF Succeeds, Starts
  <2>6. TypeOK'
    BY <1>2, <2>1, <2>4, <2>5, Orders DEF Inv, TypeOK
  <2>7. \A x \in Resources : StepOf(x) \in {3, 4, 5, 6}
    BY TheResources DEF StepOf
  <2>8. StepOf("consumer") = 3 /\ "consumer" \in Resources
    BY TheResources DEF StepOf
  <2>9. Booted'
    <3>1. boot' > 2 => mongo' = "up"
      BY <1>2, <2>1, <2>2, <2>5 DEF Inv, Booted
    <3>2. \A x \in Resources : boot' > StepOf(x) => resource'[x] \in {"open", "lost"}
      BY <1>2, <2>1, <2>2, <2>3, <2>7 DEF Inv, Booted
    <3>3. resource'["consumer"] = "open" => boot' > 3
      BY <1>2, <2>1, <2>2, <2>3, <2>8 DEF Inv, Booted
    <3>4. http' = "listening" => boot' > 7
      BY <1>2, <2>1, <2>2, <2>5 DEF Inv, Booted
    <3> QED
      BY <3>1, <3>2, <3>3, <3>4 DEF Booted
  <2>10. Stopped' /\ Consecutive'
    BY <2>1, <2>2 DEF Inv, Stopped, Consecutive, Quiet
  <2>11. Finishing'
    BY <2>1 DEF Inv, Finishing, Running, Single
  <2>12. Closing'
    BY <2>1, <2>2, SignalsAssumption, Orders DEF Inv, Closing, Quiet
  <2>13. Meeting'
    <3>1. boot' > boot /\ (mongo = "up" => mongo' = "up")
      BY <1>2, <2>1, <2>5
    <3> QED
      BY <2>1, <3>1 DEF Inv, Meeting, Single
  <2> QED
    BY <2>6, <2>9, <2>10, <2>11, <2>12, <2>13 DEF Inv
<1> QED
  BY <1>1, <1>2 DEF Bootstrap

\* An event or a request is taken up or settles.
LEMMA WorkStep ==
  ASSUME Inv, event' \in [Events -> Work], request' \in [Requests -> Work], Running,
         \A e \in Events : event'[e] = "cut" => event[e] = "cut",
         \A e \in Events : event'[e] = "open" => event[e] = "open" \/ resource["consumer"] = "open",
         \A r \in Requests : request'[r] \in {"coming", "open"} =>
                              request[r] \in {"coming", "open"} \/ boot > 7,
         UNCHANGED <<boot, resource, mongo, http, shutdown, exit, rejected>>
  PROVE  Inv'
<1>1. TypeOK'
  BY DEF Inv, TypeOK
<1>2. (Booted /\ Stopped /\ Consecutive /\ Closing)'
  BY DEF Inv, Booted, Stopped, Consecutive, Closing, Quiet, Single
<1>3. Finishing'
  BY DEF Inv, Finishing, Running, Single, Stopped, Quiet
<1>4. Meeting'
  <2>1. resource["consumer"] = "open" => mongo = "up"
    BY DEF Inv, TypeOK, Booted, Stopped
  <2> QED
    BY <2>1 DEF Inv, Meeting, Single
<1> QED
  BY <1>1, <1>2, <1>3, <1>4 DEF Inv

LEMMA LoseConnectionStep ==
  ASSUME Inv, NEW p \in {"email", "push", "sms"}, LoseConnection(p)
  PROVE  Inv'
<1>1. resource' = [x \in Resources |-> IF x \in Opens[p] THEN "lost" ELSE resource[x]]
  BY DEF LoseConnection
<1>2. /\ \A x \in Resources : resource'[x] # resource[x] =>
              resource[x] = "open" /\ resource'[x] = "lost"
      /\ resource' \in [Resources -> {"down", "open", "lost", "closing", "closed"}]
  BY <1>1 DEF LoseConnection, Inv, TypeOK
<1>3. UNCHANGED <<boot, mongo, http, shutdown, exit, event, request, rejected>>
  BY DEF LoseConnection, work
<1>4. TypeOK'
  BY <1>2, <1>3 DEF Inv, TypeOK
<1>5. "consumer" \in Resources
  BY TheResources
<1>6. Booted'
  <2>1. Quiet' => Quiet
    BY <1>3 DEF Quiet
  <2> QED
    BY <1>2, <1>3, <1>5, <2>1 DEF Inv, Booted
<1>7. (Stopped /\ Consecutive /\ Finishing /\ Meeting)'
  BY <1>2, <1>3, <1>5 DEF Inv, Stopped, Consecutive, Finishing, Meeting, Quiet, Running, Single
<1>8. Closing'
  <2>1. \A x \in Resources : resource[x] = "closed" => resource'[x] = "closed"
    BY <1>2
  <2> QED
    BY <1>3, <2>1, StopsAreResources DEF Inv, Closing, Single
<1> QED
  BY <1>4, <1>6, <1>7, <1>8 DEF Inv

LEMMA SignalStep ==
  ASSUME Inv, NEW s \in 1 .. MaxSignals, Signal(s)
  PROVE  Inv'
<1>1. /\ UNCHANGED <<boot, mongo, exit, event, request, rejected>>
      /\ http' = "closing" /\ Running /\ boot > 7 /\ exit = "no"
  BY Orders DEF Signal, CloseServer, work, Running
<1>2. /\ shutdown' \in [1 .. MaxSignals -> 0 .. DisconnectMongo]
      /\ shutdown[s] = 0 /\ shutdown'[s] = 1
      /\ \A t \in 1 .. MaxSignals \ {s} : shutdown'[t] = shutdown[t]
  BY Orders DEF Signal, Inv, TypeOK
<1>3. /\ resource' \in [Resources -> {"down", "open", "lost", "closing", "closed"}]
      /\ \A x \in Resources : resource[x] = "closed" => resource'[x] = "closed"
      /\ resource'["consumer"] # "open"
  BY TheResources DEF Signal, Inv, TypeOK
<1>4. TypeOK'
  BY <1>1, <1>2, <1>3 DEF Inv, TypeOK
<1>5. Booted' /\ Stopped'
  BY <1>1, <1>2, <1>3 DEF Booted, Stopped, Quiet
<1>6. Consecutive'
  BY <1>2, SignalsAssumption DEF Inv, Consecutive, Signal
<1>7. Finishing'
  BY <1>1, <1>2 DEF Inv, Finishing, Running
<1>8. Closing'
  <2>1. ASSUME NEW k \in DOMAIN StopOrder, Single', ~rejected', k < shutdown'[1], 1 \in 1 .. MaxSignals
        PROVE  resource'[StopOrder[k]] = "closed"
    <3>1. s = 1
      BY <1>2, <2>1 DEF Single
    <3> QED
      BY <1>2, <2>1, <3>1, Orders
  <2> QED
    BY <1>1, <2>1 DEF Closing
<1>9. Meeting'
  <2>1. Single' => Single
    BY <1>2 DEF Single
  <2> QED
    BY <1>1, <2>1 DEF Inv, Meeting
<1> QED
  BY <1>4, <1>5, <1>6, <1>7, <1>8, <1>9 DEF Inv

\* A shutdown goes to its next await; only resources that are open, and the one
\* it has closed, change.
LEMMA StopStep ==
  ASSUME Inv, NEW s \in 1 .. MaxSignals, StopResolves(s) \/ StopRejects(s)
  PROVE  Inv'
<1>1. /\ Running /\ shutdown[s] \in 1 .. 7
      /\ shutdown[s] = 1 /\ s = 1 => \A e \in Events : event[e] # "open"
      /\ UNCHANGED <<boot, http, exit, event, request>>
  BY Orders DEF StopResolves, StopRejects, Stopping, StopReturns, work
<1> DEFINE at == StopOrder[shutdown[s]]
<1>2. at \in Resources
  BY <1>1, StopsAreResources, Orders
<1>3. /\ resource' \in [Resources -> {"down", "open", "lost", "closing", "closed"}]
      /\ \A x \in Resources : resource'[x] = "open" => resource[x] = "open"
  <2>1. CASE StopRejects(s)
    BY <2>1 DEF StopRejects, Inv, TypeOK
  <2>2. CASE StopResolves(s)
    <3> DEFINE after == [resource EXCEPT ![at] = "closed"]
    <3>1. /\ after \in [Resources -> {"down", "open", "lost", "closing", "closed"}]
          /\ \A x \in Resources : after[x] = "open" => resource[x] = "open"
      BY <1>2 DEF Inv, TypeOK
    <3>2. \/ resource' = after
          \/ \E x \in Resources : resource' = [after EXCEPT ![x] = "closing"]
      BY <2>2, StopsAreResources DEF StopResolves
    <3> HIDE DEF after
    <3> QED
      BY <3>1, <3>2
  <2> QED
    BY <2>1, <2>2
<1>4. /\ shutdown' \in [1 .. MaxSignals -> 0 .. DisconnectMongo]
      /\ shutdown'[s] \in {shutdown[s] + 1, DisconnectMongo}
      /\ \A t \in 1 .. MaxSignals \ {s} : shutdown'[t] = shutdown[t]
  <2>1. \E n \in {shutdown[s] + 1, DisconnectMongo} : shutdown' = [shutdown EXCEPT ![s] = n]
    BY DEF StopResolves, StopRejects, ToMongo
  <2>2. shutdown[s] + 1 \in 0 .. DisconnectMongo /\ DisconnectMongo \in 0 .. DisconnectMongo
    BY <1>1, Orders
  <2> QED
    BY <2>1, <2>2 DEF Inv, TypeOK
<1>5. mongo' \in {mongo, "closing"} /\ rejected' \in BOOLEAN
  <2>1. CASE StopRejects(s)
    BY <2>1 DEF StopRejects, ToMongo
  <2>2. CASE StopResolves(s)
    BY <2>2 DEF StopResolves, ToMongo, Inv, TypeOK
  <2> QED
    BY <2>1, <2>2
<1>6. TypeOK'
  BY <1>1, <1>3, <1>4, <1>5 DEF Inv, TypeOK
<1>7. ~Quiet /\ ~Quiet'
  BY <1>1, <1>4, Orders DEF Quiet
<1>8. Booted' /\ Stopped'
  BY <1>1, <1>3, <1>7, TheResources DEF Inv, Booted, Stopped
<1>9. Consecutive'
  <2>1. \A t \in 1 .. MaxSignals : shutdown'[t] > 0 <=> shutdown[t] > 0
    BY <1>1, <1>4, Orders DEF Inv, TypeOK
  <2> QED
    BY <2>1, SignalsAssumption DEF Inv, Consecutive
<1>10. Finishing'
  <2>1. 1 \in 1 .. MaxSignals /\ shutdown'[1] > 1 => \A e \in Events : event[e] # "open"
    BY <1>1, <1>4, Orders DEF Inv, Finishing, TypeOK
  <2> QED
    BY <1>1, <2>1 DEF Inv, Finishing, Running
<1>11. Closing'
  <2>1. ASSUME NEW k \in DOMAIN StopOrder, Single', ~rejected', k < shutdown'[1], 1 \in 1 .. MaxSignals
        PROVE  resource'[StopOrder[k]] = "closed"
    <3>1. s = 1
      BY <1>1, <1>4, <2>1, Orders DEF Single
    <3>2. Single
      BY <1>1, <1>4, <2>1, <3>1 DEF Single
    <3>3. StopResolves(s)
      BY <2>1 DEF StopRejects
    <3>4. ~rejected /\ (shutdown'[s] = DisconnectMongo => shutdown[s] = 7)
      <4>1. \/ /\ shutdown[s] + 1 \in 1 .. 7 /\ rejected' = rejected
               /\ shutdown' = [shutdown EXCEPT ![s] = shutdown[s] + 1]
            \/ rejected' = (rejected \/ shutdown[s] + 1 # DisconnectMongo)
        BY <3>3, Orders DEF StopResolves
      <4>2. CASE /\ shutdown[s] + 1 \in 1 .. 7 /\ rejected' = rejected
                 /\ shutdown' = [shutdown EXCEPT ![s] = shutdown[s] + 1]
        <5>1. shutdown'[s] # 8
          BY <4>2 DEF Inv, TypeOK
        <5> QED
          BY <2>1, <4>2, <5>1, Orders
      <4>3. CASE rejected' = (rejected \/ shutdown[s] + 1 # DisconnectMongo)
        <5>1. ~rejected /\ shutdown[s] + 1 = DisconnectMongo
          BY <2>1, <4>3
        <5> QED
          BY <1>1, <5>1, Orders
      <4> QED
        BY <4>1, <4>2, <4>3
    <3>5. k < shutdown[s] \/ k = shutdown[s]
      BY <1>1, <1>4, <2>1, <3>1, <3>4, Orders
    <3>6. k < shutdown[s] => resource[StopOrder[k]] = "closed"
      BY <2>1, <3>1, <3>2, <3>4 DEF Inv, Closing
    <3> DEFINE after == [resource EXCEPT ![at] = "closed"]
    <3>7. after[StopOrder[k]] = "closed"
      BY <1>2, <3>5, <3>6, StopsAreResources DEF Inv, TypeOK
    <3>8. \/ resource' = after
          \/ \E x \in Resources : after[x] = "open" /\ resource' = [after EXCEPT ![x] = "closing"]
      BY <3>3, StopsAreResources DEF StopResolves
    <3>9. after \in [Resources -> {"down", "open", "lost", "closing", "closed"}]
      BY <1>2 DEF Inv, TypeOK
    <3> HIDE DEF after
    <3> QED
      BY <3>7, <3>8, <3>9, StopsAreResources
  <2> QED
    BY <1>1, <2>1 DEF Closing, Running
<1>12. Meeting'
  <2>1. ASSUME Single' PROVE \A e \in Events : event[e] # "open"
    <3>1. s = 1
      BY <1>1, <1>4, <2>1, Orders DEF Single
    <3> QED
      BY <1>1, <3>1 DEF Inv, Finishing
  <2> QED
    BY <1>1, <2>1 DEF Inv, Meeting
<1> QED
  BY <1>6, <1>8, <1>9, <1>10, <1>11, <1>12 DEF Inv

LEMMA ShutdownExitsStep ==
  ASSUME Inv, NEW s \in 1 .. MaxSignals, ShutdownExits(s)
  PROVE  Inv'
<1>1. /\ Running /\ shutdown[s] = 8 /\ exit' = "clean" /\ event' = Cut(event)
      /\ request' = Cut(request) /\ mongo' \in {"down", "closing"}
      /\ UNCHANGED <<boot, resource, http, rejected, shutdown>>
  BY Orders DEF ShutdownExits, ExitInTheEnd, Exit
<1>2. event' \in [Events -> Work] /\ request' \in [Requests -> Work]
  BY <1>1, CutOnlyOpen DEF Inv, TypeOK
<1>3. \A e \in Events : event'[e] # "open" /\ (event'[e] # event[e] => event[e] = "open")
  BY <1>1, CutOnlyOpen DEF Inv, TypeOK
<1>4. TypeOK'
  BY <1>1, <1>2 DEF Inv, TypeOK
<1>5. ~Quiet /\ ~Quiet'
  BY <1>1 DEF Quiet
<1>6. (Booted /\ Stopped /\ Consecutive)'
  BY <1>1, <1>5 DEF Inv, Booted, Stopped, Consecutive
<1>7. Finishing'
  <2>1. Single => s = 1
    BY <1>1 DEF Single
  <2>2. Single => \A e \in Events : event'[e] # "cut"
    BY <1>1, <1>3, <2>1 DEF Inv, Finishing
  <2> QED
    BY <1>1, <1>3, <2>2 DEF Finishing, Running, Single
<1>8. Closing'
  BY <1>1, Orders DEF Inv, Closing, Single
<1>9. Meeting'
  <2>1. \A r \in Requests : request'[r] \in {"coming", "open"} => request[r] \in {"coming", "open"}
    BY <1>1, CutOnlyOpen DEF Inv, TypeOK
  <2> QED
    BY <1>1, <1>3, <2>1 DEF Inv, Meeting
<1> QED
  BY <1>4, <1>6, <1>7, <1>8, <1>9 DEF Inv

LEMMA InvStep == Inv /\ [Next]_vars => Inv'
<1> SUFFICES ASSUME Inv, [Next]_vars PROVE Inv'
  OBVIOUS
<1>1. CASE \E e \in Events : TakeEvent(e) \/ SettleEvent(e)
  <2>1. /\ event' \in [Events -> Work] /\ request' \in [Requests -> Work] /\ Running
        /\ UNCHANGED <<boot, resource, mongo, http, shutdown, exit, rejected>>
    BY <1>1 DEF TakeEvent, SettleEvent, Inv, TypeOK, Work
  <2>2. \A e \in Events : /\ event'[e] = "cut" => event[e] = "cut"
                          /\ event'[e] = "open" => event[e] = "open" \/ resource["consumer"] = "open"
    BY <1>1 DEF TakeEvent, SettleEvent, Inv, TypeOK
  <2>3. request' = request
    BY <1>1 DEF TakeEvent, SettleEvent
  <2> QED
    BY <2>1, <2>2, <2>3, WorkStep
<1>2. CASE \E r \in Requests : Connect(r) \/ OpenRequest(r) \/ Answer(r)
  <2>1. /\ event' \in [Events -> Work] /\ request' \in [Requests -> Work] /\ Running
        /\ UNCHANGED <<boot, resource, mongo, http, shutdown, exit, rejected, event>>
    BY <1>2 DEF Connect, OpenRequest, Answer, Inv, TypeOK, Work
  <2>2. http = "listening" => boot > 7
    BY DEF Inv, Booted, Stopped
  <2>3. ASSUME NEW r \in Requests, Connect(r) \/ OpenRequest(r) \/ Answer(r),
               NEW q \in Requests, request'[q] \in {"coming", "open"}
        PROVE  request[q] \in {"coming", "open"} \/ boot > 7
    <3>1. request[r] \in {"coming", "open"} => boot > 7
      BY DEF Inv, Meeting
    <3> QED
      BY <2>2, <2>3, <3>1 DEF Connect, OpenRequest, Answer, Inv, TypeOK
  <2> QED
    BY <1>2, <2>1, <2>3, WorkStep
<1>3. CASE Killed
  BY <1>3, ExitStep DEF Killed
<1>4. CASE UNCHANGED vars
  BY <1>4 DEF vars, work, Inv, TypeOK, Booted, Stopped, Consecutive, Finishing, Closing, Meeting,
              Quiet, Single, Running
<1> QED
  BY <1>1, <1>2, <1>3, <1>4, BootstrapStep, LoseConnectionStep, SignalStep, StopStep,
     ShutdownExitsStep
  DEF Next, Shutdown

LEMMA Invariant == Spec => []Inv
BY InvInit, InvStep, PTL DEF Spec

-----------------------------------------------------------------------------
\* The states of src/server.ts keep their kinds.
THEOREM TypeCorrect == Spec => []TypeOK
<1>1. Inv => TypeOK
  BY DEF Inv
<1> QED
  BY <1>1, Invariant, PTL

\* Without a second signal no shutdown but the first has begun.
LEMMA NoSecondSignal == ASSUME Inv, Cardinality(Signals) <= 1 PROVE Single
<1>1. IsFiniteSet(Signals)
  <2>1. IsFiniteSet(1 .. MaxSignals) /\ Signals \in SUBSET (1 .. MaxSignals)
    BY SignalsAssumption, FS_Interval DEF Signals
  <2> QED
    BY <2>1, FS_Subset
<1>2. Cardinality(Signals) \in Nat /\ (Cardinality(Signals) = 0 <=> Signals = {})
  BY <1>1, FS_CardinalityType, FS_EmptySet
<1>3. CASE Signals = {}
  BY <1>3 DEF Single, Signals
<1>4. CASE Cardinality(Signals) = 1
  <2>1. PICK s : Signals = {s}
    BY <1>1, <1>4, FS_Singleton
  <2>2. s \in 1 .. MaxSignals /\ shutdown[s] > 0
    BY <2>1 DEF Signals
  <2>3. s # 1 => 1 \in Signals
    BY <2>2, SignalsAssumption DEF Inv, Consecutive, Signals
  <2> QED
    BY <2>1, <2>3 DEF Single, Signals
<1> QED
  BY <1>2, <1>3, <1>4

\* The shutdown of a single signal (server.ts:41) cuts off no event.
THEOREM EventsAreFinished == Spec => []EventsFinish
<1>1. Inv => EventsFinish
  BY NoSecondSignal DEF Inv, Finishing, EventsFinish
<1> QED
  BY <1>1, Invariant, PTL

\* A shutdown of a single signal in which nothing rejects closes everything.
THEOREM NothingLeftOpen == Spec => []LeftOpenForAReason
<1>1. ASSUME Inv, exit = "clean", Cardinality(Signals) = 1, ~rejected, NEW x \in Resources
      PROVE  resource[x] = "closed"
  <2>1. PICK s \in 1 .. MaxSignals : shutdown[s] = 8
    BY <1>1, Orders DEF Inv, Closing
  <2>2. Single /\ s = 1
    BY <1>1, <2>1, NoSecondSignal DEF Single
  <2>3. PICK k \in DOMAIN StopOrder : StopOrder[k] = x
    BY StopsAreResources
  <2> QED
    BY <1>1, <2>1, <2>2, <2>3, Orders DEF Inv, Closing
<1>2. Inv => LeftOpenForAReason
  BY <1>1 DEF LeftOpenForAReason
<1> QED
  BY <1>2, Invariant, PTL

\* Up to a second signal an event has MongoDB until it has settled; a request
\* finds what bootstrap (server.ts:15) starts, and all of it up to the first.
THEOREM WorkIsServed == Spec => []WorkMeetsResources
<1>1. ASSUME Inv, Cardinality(Signals) <= 1, NEW e \in Events, event[e] = "open"
      PROVE  mongo = "up"
  <2>1. Single
    BY <1>1, NoSecondSignal
  <2> QED
    BY <1>1, <2>1 DEF Inv, Meeting
<1>2. ASSUME Inv, NEW r \in Requests, request[r] = "open"
      PROVE  /\ boot > Len(BootOrder)
             /\ Signals = {} => mongo = "up" /\ \A x \in Resources : resource[x] \in {"open", "lost"}
  <2>1. boot > 7
    BY <1>2 DEF Inv, Meeting
  <2>2. \A x \in Resources : StepOf(x) \in {3, 4, 5, 6}
    BY TheResources DEF StepOf
  <2>3. ASSUME Signals = {} PROVE Quiet
    <3>1. \A s \in 1 .. MaxSignals : ~(shutdown[s] > 0)
      BY <2>3 DEF Signals
    <3>2. \A s \in 1 .. MaxSignals : shutdown[s] \in 0 .. 8
      BY <1>2, Orders DEF Inv, TypeOK
    <3> QED
      BY <3>1, <3>2 DEF Quiet
  <2> QED
    BY <1>2, <2>1, <2>2, <2>3, Orders DEF Inv, Booted, TypeOK
<1>3. Inv => WorkMeetsResources
  BY <1>1, <1>2 DEF WorkMeetsResources
<1> QED
  BY <1>3, Invariant, PTL
=============================================================================
