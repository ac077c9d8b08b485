------------------------------ MODULE HttpApi ------------------------------
(***************************************************************************)
(* A request's way through the Express application (src/app.ts,            *)
(* src/api): the body parser, the routes, requireAuth, the controller and  *)
(* the service it calls, and the error handler.                            *)
(*                                                                         *)
(* From the parsed body to the controller's await everything runs in one   *)
(* step, and so does everything from the service's reply to the answer.    *)
(* The services are modelled as far as a caller can tell: whether the      *)
(* document a request is about is there, what the operation changes, and   *)
(* what it throws.  There is one document of each collection to be about.  *)
(*                                                                         *)
(* Limits: which notifications a list holds is the business of Listing;    *)
(* nobody checks roles here, because no route uses requireRole.            *)
(***************************************************************************)
EXTENDS Naturals, Sequences, FiniteSets, TLC

CONSTANTS
  Requests,  \* the requests, in flight at the same time
  None

VARIABLES
  documents,  \* of "template", "notification", "preferences": those that are there
  req,        \* req[r]: what request r asks for, None before it arrives
  pending,    \* the requests whose controller awaits its service
  answers,    \* answers[r]: the status codes r was answered with
  \* History, read by no action:
  called,     \* the requests that reached a service
  changed     \* the requests that changed the database

vars == <<documents, req, pending, answers, called, changed>>

-----------------------------------------------------------------------------
N == "/gymapi/v1/notifications"
T == "/gymapi/v1/templates"
P == "/gymapi/v1/preferences"

\* The routers: the controller's method for a method and a path.
NotificationRoutes == (<<"POST", N>>                   :> "sendNotification")
                   @@ (<<"GET",  N>>                   :> "listNotifications")
                   @@ (<<"POST", N \o "/:id/read">>    :> "markAsRead")
TemplateRoutes == (<<"GET",    T>>                     :> "listTemplates")
               @@ (<<"POST",   T>>                     :> "createTemplate")
               @@ (<<"GET",    T \o "/:id">>           :> "getTemplate")
               @@ (<<"PUT",    T \o "/:id">>           :> "updateTemplate")
               @@ (<<"DELETE", T \o "/:id">>           :> "deleteTemplate")
PreferenceRoutes == (<<"GET", P \o "/me">>             :> "getMyPreferences")
                 @@ (<<"PUT", P \o "/me">>             :> "updateMyPreferences")
Routes == NotificationRoutes @@ TemplateRoutes @@ PreferenceRoutes

Health == <<"GET", "/health">>

\* One path stands for all that nobody serves.
\* userId: is the header x-user-id there and not empty?
RequestType == [route : DOMAIN Routes \cup {Health, <<"POST", N \o "/send">>},
                userId : BOOLEAN, body : {"json", "malformed"}]

ASSUME NoneIsNoRequest == None \notin RequestType

Writes == {"sendNotification", "markAsRead", "createTemplate", "updateTemplate",
           "deleteTemplate", "updateMyPreferences"}

\* What a controller answers when its service returns.
SuccessStatus(op) == CASE op = "sendNotification" -> 202
                       [] op = "createTemplate" -> 201
                       [] op \in {"markAsRead", "deleteTemplate"} -> 204
                       [] OTHER -> 200

\* Mutant: a fallback that blames the client.
ErrorIsBadRequest(e) == CASE e = "UnauthorizedError" -> 401
                          [] e = "NotFoundError" -> 404 [] OTHER -> 400

\* errorHandler: an AppError has its status, anything else, the parser's
\* errors included, is a 500.
ErrorStatus(e) == CASE e = "ValidationError" -> 400
                    [] e = "UnauthorizedError" -> 401
                    [] e = "NotFoundError" -> 404
                    [] OTHER -> 500

\* Mutant: no return after the answer to an AppError.
HandledAndFallback(e) == IF e = "Error" THEN <<500>> ELSE <<ErrorStatus(e), 500>>

\* errorHandler answers, once.
Handled(e) == <<ErrorStatus(e)>>

Send(r, statuses) == answers' = [answers EXCEPT ![r] = @ \o statuses]

\* The controller up to its await; those of the preferences look for the user
\* once more.
Controller(r, q) ==
  IF ~q.userId /\ q.route \in DOMAIN PreferenceRoutes
  THEN Send(r, <<401>>) /\ UNCHANGED <<pending, called>>
  ELSE /\ pending' = pending \cup {r}
       /\ called' = called \cup {r}
       /\ UNCHANGED answers

RequireAuth(r, q) ==
  \/ /\ ~q.userId
     /\ Send(r, Handled("UnauthorizedError"))
     /\ UNCHANGED <<pending, called>>
  \/ q.userId /\ Controller(r, q)

Receive(r, q) ==
  /\ req[r] = None
  /\ req' = [req EXCEPT ![r] = q]
  /\ \/ /\ q.body = "malformed"
        /\ Send(r, Handled("Error"))
        /\ UNCHANGED <<pending, called>>
     \/ /\ q.body = "json" /\ q.route \notin DOMAIN Routes
        /\ Send(r, <<IF q.route = Health THEN 200 ELSE 404>>)
        /\ UNCHANGED <<pending, called>>
     \/ /\ q.body = "json" /\ q.route \in DOMAIN Routes
        /\ RequireAuth(r, q)
  /\ UNCHANGED <<documents, changed>>

-----------------------------------------------------------------------------
(* The services. *)

\* Mutant: updateTemplate and deleteTemplate return what they get.
ResultsUnchecked(op) ==
  CASE op = "getMyPreferences" /\ "preferences" \notin documents -> {"NotFoundError"}
    [] OTHER -> {"ok"}

\* How an operation ends when nothing fails under it.
Results(op) ==
  CASE op \in {"getTemplate", "updateTemplate", "deleteTemplate"}
         /\ "template" \notin documents -> {"NotFoundError"}
    [] op = "getMyPreferences" /\ "preferences" \notin documents -> {"NotFoundError"}
    [] op = "createTemplate" /\ "template" \in documents -> {"ValidationError"}
    [] op = "createTemplate" /\ "template" \notin documents -> {"ok", "ValidationError"}
    [] op = "sendNotification" -> {"ok", "ValidationError"}
    [] OTHER -> {"ok"}

\* The database after the operation, and whether that is a change.
After(op) == CASE op = "createTemplate" -> documents \cup {"template"}
               [] op = "deleteTemplate" -> documents \ {"template"}
               [] op = "updateMyPreferences" -> documents \cup {"preferences"}
               [] OTHER -> documents
Changes(op) ==
  /\ op \in Writes
  /\ op = "markAsRead" => "notification" \in documents
  /\ op \in {"updateTemplate", "deleteTemplate"} => "template" \in documents

Perform(r, op) == /\ documents' = After(op)
                  /\ changed' = IF Changes(op) THEN changed \cup {r} ELSE changed

\* Mutant: asyncHandler has no catch.
RejectionIsLost(r) == UNCHANGED answers

\* asyncHandler hands the rejection to errorHandler.
AsyncHandler(r) == Send(r, Handled("Error"))

\* The service returns, throws one of the repository's errors before it
\* changes anything, or rejects with another error, before or after.
ServiceSettles(r) ==
  /\ r \in pending
  /\ pending' = pending \ {r}
  /\ LET op == Routes[req[r].route] IN
       \/ /\ "ok" \in Results(op)
          /\ Perform(r, op)
          /\ Send(r, <<SuccessStatus(op)>>)
       \/ \E e \in Results(op) \ {"ok"} : Send(r, Handled(e)) /\ UNCHANGED <<documents, changed>>
       \/ /\ \/ "ok" \in Results(op) /\ Perform(r, op)
             \/ UNCHANGED <<documents, changed>>
          /\ AsyncHandler(r)
  /\ UNCHANGED <<req, called>>

Init ==
  /\ documents \in SUBSET {"template", "notification", "preferences"}
  /\ req = [r \in Requests |-> None]
  /\ pending = {}
  /\ answers = [r \in Requests |-> <<>>]
  /\ called = {}
  /\ changed = {}

Next == \E r \in Requests : ServiceSettles(r) \/ \E q \in RequestType : Receive(r, q)

\* A service call settles (EveryCallSettles, of NotificationService, and the
\* driver's timeouts for the others).
Fairness == \A r \in Requests : WF_vars(ServiceSettles(r))

Spec     == Init /\ [][Next]_vars
FairSpec == Spec /\ Fairness

-----------------------------------------------------------------------------
Answered(r, statuses) == \E k \in DOMAIN answers[r] : answers[r][k] \in statuses
OpOf(r) == IF req[r] # None /\ req[r].route \in DOMAIN Routes THEN Routes[req[r].route] ELSE "none"

\* Every variable holds a value of the kind its comment says.
TypeOK ==
  /\ documents \subseteq {"template", "notification", "preferences"}
  /\ req \in [Requests -> RequestType \cup {None}]
  /\ pending \subseteq called /\ changed \subseteq called /\ called \subseteq Requests
  /\ answers \in [Requests -> Seq({200, 201, 202, 204, 400, 401, 404, 500})]

\* A request is answered once: express throws ERR_HTTP_HEADERS_SENT on a
\* second answer, out of reach of the error handler.
AnsweredOnce == \A r \in Requests : Len(answers[r]) <= 1

\* A client error means that nothing was changed: a client may correct its
\* request and send it again.  (After a 500 it cannot know.)
RefusedMeansUnchanged ==
  \A r \in Requests : Answered(r, {400, 401, 404}) => r \notin changed

\* A write that is answered with success has changed the database, whoever
\* deletes the document meanwhile.  (markAsRead looks for no document.)
SuccessMeansDone ==
  \A r \in Requests : Answered(r, 200 .. 299) /\ OpOf(r) \in Writes \ {"markAsRead"} => r \in changed

\* Every request is answered, whatever its service throws.
EveryRequestAnswered == \A r \in Requests : req[r] # None ~> answers[r] # <<>>
=============================================================================
