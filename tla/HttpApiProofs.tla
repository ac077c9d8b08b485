--------------------------- MODULE HttpApiProofs ---------------------------
(***************************************************************************)
(* Every request is answered once at most, and the answer tells what       *)
(* became of the database: proved for any number of requests in flight.    *)
(***************************************************************************)
EXTENDS HttpApi, TLAPS

\* Request r has been neither answered nor carried out.
Untouched(r) == answers[r] = <<>> /\ r \notin changed

\* Where a request stands: not here yet, with its service, or answered.
Standing(r) ==
  /\ req[r] = None => r \notin pending
  /\ req[r] = None \/ r \in pending => Untouched(r)
  /\ Len(answers[r]) <= 1

\* The answer of r is true.
Honest(r) ==
  /\ Answered(r, {400, 401, 404}) => r \notin changed
  /\ Answered(r, 200 .. 299) /\ OpOf(r) \in Writes \ {"markAsRead"} => r \in changed

Inv == TypeOK /\ \A r \in Requests : Standing(r) /\ Honest(r)

-----------------------------------------------------------------------------
\* What the controllers and the error handler answer.
LEMMA Statuses ==
  /\ \A op : SuccessStatus(op) \in {200, 201, 202, 204}
  /\ \A e : ErrorStatus(e) \in {400, 401, 404, 500}
  /\ ErrorStatus("Error") = 500
BY DEF SuccessStatus, ErrorStatus

\* An operation that may write and is about to succeed changes the database.
LEMMA SuccessChanges ==
  ASSUME NEW op \in Writes \ {"markAsRead"}, "ok" \in Results(op)
  PROVE  Changes(op)
BY DEF Writes, Results, Changes

\* The first answer to a request is the only one.
LEMMA FirstAnswer ==
  ASSUME TypeOK, NEW r \in Requests, answers[r] = <<>>,
         NEW status \in {200, 201, 202, 204, 400, 401, 404, 500}, Send(r, <<status>>)
  PROVE  /\ answers' \in [Requests -> Seq({200, 201, 202, 204, 400, 401, 404, 500})]
         /\ answers'[r] = <<status>>
         /\ \A x \in Requests \ {r} : answers'[x] = answers[x]
BY DEF TypeOK, Send

\* What a single answer says.
LEMMA OneAnswer ==
  ASSUME NEW r, NEW status, answers'[r] = <<status>>, NEW S, Answered(r, S)'
  PROVE  status \in S
BY DEF Answered

\* A request that has not been answered or carried out can be told anything but
\* that a change was made.
LEMMA NoAnswerIsHonest == ASSUME NEW r, Untouched(r) PROVE Honest(r)
BY DEF Untouched, Honest, Answered

\* A step of request r leaves the others as they are.
LEMMA OthersStay ==
  ASSUME NEW r \in Requests, NEW x \in Requests \ {r}, Standing(x), Honest(x),
         req'[x] = req[x], answers'[x] = answers[x],
         x \in pending' <=> x \in pending, x \in changed' <=> x \in changed
  PROVE  (Standing(x) /\ Honest(x))'
BY DEF Standing, Honest, Untouched, Answered, OpOf

LEMMA InvInit == Init => Inv
<1> SUFFICES ASSUME Init PROVE Inv
  OBVIOUS
<1>1. TypeOK
  BY DEF Init, TypeOK
<1>2. ASSUME NEW r \in Requests PROVE Standing(r) /\ Honest(r)
  BY NoAnswerIsHonest DEF Init, Standing, Untouched
<1> QED
  BY <1>1, <1>2 DEF Inv

LEMMA InvStep == Inv /\ [Next]_vars => Inv'
<1> SUFFICES ASSUME Inv, [Next]_vars PROVE Inv'
  OBVIOUS
<1>t. TypeOK
  BY DEF Inv
<1>1. ASSUME NEW r \in Requests, NEW q \in RequestType, Receive(r, q)
      PROVE  Inv'
  <2>1. Untouched(r) /\ r \notin pending
    BY <1>1 DEF Inv, Standing, Receive
  <2>2. UNCHANGED <<documents, changed>> /\ req' = [req EXCEPT ![r] = q]
    BY <1>1 DEF Receive
  <2>3. /\ req'[r] = q /\ q # None
        /\ req' \in [Requests -> RequestType \cup {None}]
        /\ \A x \in Requests \ {r} : req'[x] = req[x]
    BY <2>2, <1>t, NoneIsNoRequest DEF TypeOK
  <2>4. CASE /\ \E status \in {200, 401, 404, 500} :
                  Send(r, <<status>>) /\ (status = 200 => q.route \notin DOMAIN Routes)
             /\ UNCHANGED <<pending, called>>
    <3>1. PICK status \in {200, 401, 404, 500} :
            Send(r, <<status>>) /\ (status = 200 => q.route \notin DOMAIN Routes)
      BY <2>4
    <3>2. /\ answers' \in [Requests -> Seq({200, 201, 202, 204, 400, 401, 404, 500})]
          /\ answers'[r] = <<status>>
          /\ \A x \in Requests \ {r} : answers'[x] = answers[x]
      BY <3>1, <2>1, <1>t, FirstAnswer DEF Untouched
    <3>3. TypeOK'
      BY <1>t, <2>2, <2>3, <2>4, <3>2 DEF TypeOK
    <3>4. Standing(r)'
      BY <2>1, <2>3, <2>4, <3>2, NoneIsNoRequest DEF Standing
    <3>5. Honest(r)'
      <4>1. r \notin changed'
        BY <2>1, <2>2 DEF Untouched
      <4>2. status = 200 => OpOf(r)' = "none"
        BY <2>3, <3>1 DEF OpOf
      <4>3. "none" \notin Writes
        BY DEF Writes
      <4>4. Answered(r, 200 .. 299)' => status \in 200 .. 299
        <5> DEFINE S == 200 .. 299
        <5> HIDE DEF S
        <5>1. Answered(r, S)' => status \in S
          BY <3>2, OneAnswer
        <5> QED
          BY <5>1 DEF S
      <4>5. status \in 200 .. 299 => status = 200
        OBVIOUS
      <4> QED
        BY <4>1, <4>2, <4>3, <4>4, <4>5 DEF Honest
    <3>6. ASSUME NEW x \in Requests \ {r} PROVE (Standing(x) /\ Honest(x))'
      BY <2>2, <2>3, <2>4, <3>2, OthersStay DEF Inv
    <3> QED
      BY <3>3, <3>4, <3>5, <3>6 DEF Inv
  <2>5. CASE pending' = pending \cup {r} /\ called' = called \cup {r} /\ UNCHANGED answers
    <3>1. TypeOK'
      BY <1>t, <2>2, <2>3, <2>5 DEF TypeOK
    <3>2. Untouched(r)' /\ Len(answers'[r]) <= 1
      BY <2>1, <2>2, <2>5 DEF Untouched
    <3>3. Standing(r)' /\ Honest(r)'
      BY <2>3, <3>2, NoAnswerIsHonest DEF Standing, Honest, Untouched, Answered
    <3>4. ASSUME NEW x \in Requests \ {r} PROVE (Standing(x) /\ Honest(x))'
      BY <2>2, <2>3, <2>5, OthersStay DEF Inv
    <3> QED
      BY <3>1, <3>3, <3>4 DEF Inv
  <2>6. Handled("Error") = <<500>> /\ Handled("UnauthorizedError") = <<401>>
    BY DEF Handled, ErrorStatus
  <2> QED
    BY <1>1, <2>4, <2>5, <2>6 DEF Receive, RequireAuth, Controller
<1>2. ASSUME NEW r \in Requests, ServiceSettles(r)
      PROVE  Inv'
  <2> DEFINE op == Routes[req[r].route]
  <2>1. Untouched(r) /\ r \in called /\ r \in pending
    BY <1>2 DEF Inv, Standing, ServiceSettles, TypeOK
  <2>2. UNCHANGED <<req, called>> /\ pending' = pending \ {r}
    BY <1>2 DEF ServiceSettles
  <2>3. /\ documents' \subseteq {"template", "notification", "preferences"}
        /\ changed' \subseteq changed \cup {r} /\ changed \subseteq changed'
    <3>1. After(op) \subseteq {"template", "notification", "preferences"}
      BY <1>t DEF After, TypeOK
    <3> QED
      BY <1>2, <1>t, <3>1 DEF ServiceSettles, Perform, TypeOK
  <2>4. \E status \in {200, 201, 202, 204, 400, 401, 404, 500} :
          /\ Send(r, <<status>>)
          /\ status \in {400, 401, 404} => UNCHANGED changed
          /\ status \in {200, 201, 202, 204} /\ op \in Writes \ {"markAsRead"} => r \in changed'
    <3>1. CASE "ok" \in Results(op) /\ Perform(r, op) /\ Send(r, <<SuccessStatus(op)>>)
      <4>1. op \in Writes \ {"markAsRead"} => r \in changed'
        BY <3>1, SuccessChanges DEF Perform
      <4> QED
        BY <3>1, <4>1, Statuses
    <3>2. CASE \E e : Send(r, Handled(e)) /\ UNCHANGED <<documents, changed>>
      BY <3>2, Statuses DEF Handled
    <3>3. CASE AsyncHandler(r)
      BY <3>3, Statuses DEF AsyncHandler, Handled
    <3> QED
      BY <1>2, <3>1, <3>2, <3>3 DEF ServiceSettles
  <2>5. PICK status \in {200, 201, 202, 204, 400, 401, 404, 500} :
          /\ Send(r, <<status>>)
          /\ status \in {400, 401, 404} => UNCHANGED changed
          /\ status \in {200, 201, 202, 204} /\ op \in Writes \ {"markAsRead"} => r \in changed'
    BY <2>4
  <2>6. /\ answers' \in [Requests -> Seq({200, 201, 202, 204, 400, 401, 404, 500})]
        /\ answers'[r] = <<status>>
        /\ \A x \in Requests \ {r} : answers'[x] = answers[x]
    BY <2>1, <2>5, <1>t, FirstAnswer DEF Untouched
  <2>7. TypeOK'
    BY <1>t, <2>1, <2>2, <2>3, <2>6 DEF TypeOK
  <2>8. Standing(r)'
    <3>1. req[r] # None
      BY <1>2 DEF Inv, Standing, ServiceSettles
    <3> QED
      BY <2>2, <2>6, <3>1 DEF Standing
  <2>9. Honest(r)'
    <3>1. Answered(r, {400, 401, 404})' => r \notin changed'
      BY <2>1, <2>5, <2>6, OneAnswer DEF Untouched
    <3>2. Answered(r, 200 .. 299)' => status \in {200, 201, 202, 204}
      <4>1. Answered(r, 200 .. 299)' => status \in 200 .. 299
        <5> DEFINE S == 200 .. 299
        <5> HIDE DEF S
        <5>1. Answered(r, S)' => status \in S
          BY <2>6, OneAnswer
        <5> QED
          BY <5>1 DEF S
      <4>2. status \in 200 .. 299 => status \in {200, 201, 202, 204}
        OBVIOUS
      <4> QED
        BY <4>1, <4>2
    <3>3. OpOf(r)' \in {op, "none"} /\ "none" \notin Writes
      BY <2>2 DEF OpOf, Writes
    <3> QED
      BY <2>5, <3>1, <3>2, <3>3 DEF Honest
  <2>10. ASSUME NEW x \in Requests \ {r} PROVE (Standing(x) /\ Honest(x))'
    BY <2>2, <2>3, <2>6, OthersStay DEF Inv
  <2> QED
    BY <2>7, <2>8, <2>9, <2>10 DEF Inv
<1>3. CASE UNCHANGED vars
  BY <1>3 DEF vars, Inv, TypeOK, Standing, Honest, Untouched, Answered, OpOf
<1> QED
  BY <1>1, <1>2, <1>3 DEF Next

LEMMA Invariant == Spec => []Inv
BY InvInit, InvStep, PTL DEF Spec

-----------------------------------------------------------------------------
\* The statuses answered are the application's, and only routed requests reach
\* a service (src/app.ts and src/api).
THEOREM TypeCorrect == Spec => []TypeOK
<1>1. Inv => TypeOK
  BY DEF Inv
<1> QED
  BY <1>1, Invariant, PTL

\* No request is answered twice, whatever rejects in requireAuth, a controller
\* or a service (error.middleware.ts, async.middleware.ts).
THEOREM NoSecondAnswer == Spec => []AnsweredOnce
<1>1. Inv => AnsweredOnce
  BY DEF Inv, Standing, AnsweredOnce
<1> QED
  BY <1>1, Invariant, PTL

\* A request that is told 400, 401 or 404 has changed nothing.
THEOREM RefusalsAreClean == Spec => []RefusedMeansUnchanged
<1>1. Inv => RefusedMeansUnchanged
  BY DEF Inv, Honest, RefusedMeansUnchanged
<1> QED
  BY <1>1, Invariant, PTL

\* A write that is told 2xx has happened, markAsRead apart.
THEOREM SuccessIsDone == Spec => []SuccessMeansDone
<1>1. Inv => SuccessMeansDone
  BY DEF Inv, Honest, SuccessMeansDone
<1> QED
  BY <1>1, Invariant, PTL
=============================================================================
