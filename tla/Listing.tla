------------------------------ MODULE Listing ------------------------------
(***************************************************************************)
(* listNotifications, from the controller (src/api/controllers/            *)
(* notification.controller.ts) to NotificationRepository.find, read page   *)
(* by page by a client while notifications are being saved.                *)
(*                                                                         *)
(* A page and its total come from two queries that are sent together and   *)
(* answered in either order; a notification may be saved between any two   *)
(* of them.  The list is sorted by createdAt, which mongoose sets before   *)
(* the insert: a notification may appear below newer ones.                 *)
(*                                                                         *)
(* Limits: creation times differ (with equal times MongoDB promises no     *)
(* order); the documents of one customer, whom the filter names: the       *)
(* controller never fills in the status or the channel; parameters that    *)
(* parseInt makes a NaN of, and negative limits, are left out.             *)
(***************************************************************************)
EXTENDS Integers, Sequences, FiniteSets, SequencesExt

CONSTANTS
  Notifications,  \* those that may be saved for the customer
  PageParams,     \* values of the query parameter page the client starts at
  LimitParams,    \* values of the query parameter limit
  None            \* no such parameter, or no reply yet

ASSUME NotificationsAssumption == IsFiniteSet(Notifications)
ASSUME ParamsAssumption == /\ \A p \in PageParams \ {None} : p \in Int /\ p <= 1
                           /\ LimitParams \subseteq Nat \cup {None}

VARIABLES
  list,          \* the customer's notifications, newest first
  page, limit,   \* the parameters of the request being made
  until,         \* the client stops at a "short" page, or by the "total"
  found, total,  \* what the two queries replied, None before
  state,         \* the client: "reading", "done", "refused"
  \* History, read by no action:
  shown,         \* what the client has been shown, in order
  wanted,        \* what was there when it began
  sizeAtFind     \* how long the list was when the last page was found

query  == <<found, total, sizeAtFind>>
client == <<page, limit, until, state, shown, wanted>>
vars   == <<list, query, client>>

-----------------------------------------------------------------------------
\* The controller: req.query.page ? parseInt(req.query.page, 10) : 1
Given(param, default) == IF param = None THEN default ELSE param

\* Mutant: the first page is page 0.
SkipFromZero == page * limit

\* const skip = (page - 1) * limit
Skip == (page - 1) * limit

\* find().sort().skip().limit(): to MongoDB a limit of 0 is none.
PageFound == SubSeq(list, Skip + 1, IF limit = 0 THEN Len(list) ELSE Min({Skip + limit, Len(list)}))

\* A notification of the customer is saved, wherever its creation time puts it.
Save(n) ==
  /\ n \notin Range(list)
  /\ \E k \in 1 .. Len(list) + 1 : list' = InsertAt(list, k, n)
  /\ UNCHANGED <<query, client>>

FindReplies ==
  /\ state = "reading" /\ found = None /\ Skip >= 0
  /\ found' = PageFound
  /\ sizeAtFind' = Len(list)
  /\ UNCHANGED <<list, total, client>>

CountReplies ==
  /\ state = "reading" /\ total = None
  /\ total' = Len(list)
  /\ UNCHANGED <<list, found, sizeAtFind, client>>

\* MongoDB refuses a negative skip, or a query fails: Promise.all rejects.
Refused ==
  /\ state = "reading"
  /\ state' = "refused"
  /\ UNCHANGED <<list, query, page, limit, until, shown, wanted>>

\* Mutant: the total is the length of the page.
TotalOfPage == Len(found)

\* return { notifications, total }
Total == total

\* Is this the last page, to the client?
LastPage == \/ limit = 0
            \/ until = "short" /\ Len(found) < limit
            \/ until = "total" /\ page * limit >= Total

\* Both have replied: the client is shown the page, and asks for the next.
Reply ==
  /\ state = "reading" /\ found # None /\ total # None
  /\ shown' = shown \o found
  /\ IF LastPage THEN state' = "done" /\ UNCHANGED <<page, query>>
     ELSE /\ page' = page + 1
          /\ found' = None /\ total' = None
          /\ UNCHANGED <<state, sizeAtFind>>
  /\ UNCHANGED <<list, limit, until, wanted>>

Init ==
  /\ list \in UNION {SetToSeqs(S) : S \in SUBSET Notifications}
  /\ \E p \in PageParams, l \in LimitParams : page = Given(p, 1) /\ limit = Given(l, 10)
  /\ until \in {"short", "total"}
  /\ found = None /\ total = None /\ sizeAtFind = 0
  /\ state = "reading"
  /\ shown = <<>>
  /\ wanted = Range(list)

Next == (\E n \in Notifications : Save(n)) \/ FindReplies \/ CountReplies \/ Refused \/ Reply

Spec == Init /\ [][Next]_vars

-----------------------------------------------------------------------------
\* A client that reads until a page is short has been shown everything that
\* was there when it began, though saves shift the pages under it.
ShortPageIsLast == state = "done" /\ until = "short" => wanted \subseteq Range(shown)

\* A client that stops by the total misses something only if a notification
\* was saved between the count and the find of its last page.
TotalIsLastUnlessRaced ==
  state = "done" /\ until = "total" /\ ~(wanted \subseteq Range(shown)) => sizeAtFind > total
=============================================================================
