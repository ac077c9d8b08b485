------------------------- MODULE PreferenceService -------------------------
(***************************************************************************)
(* updatePreferences (src/application/services/preference.service.ts), one *)
(* findOneAndUpdate with upsert, over the preferences collection and its   *)
(* unique index.                                                           *)
(*                                                                         *)
(* To MongoDB an upsert that finds no document is two steps, a look and an *)
(* insert.  When the insert meets the unique index, the server looks again *)
(* if the query is on the indexed field alone (it is, and                  *)
(* docker-compose.yml asks for version 7, which does) and the update keeps *)
(* the value that was looked for.  Mongoose builds the index some time     *)
(* after the connection is up, and fails to over duplicates.               *)
(*                                                                         *)
(* The body is whatever the client sends.  customerId is a field of the    *)
(* schema like the others: a body that names it moves the document to the  *)
(* customer it names.                                                      *)
(*                                                                         *)
(* Limits: three of the schema's fields stand for all but customerId, and  *)
(* a body is the fields it sets, with values mongoose can cast; what it    *)
(* cannot cast is a query that rejects.                                    *)
(***************************************************************************)
CONSTANTS
  Calls,         \* calls of updatePreferences
  Customers,
  Bodies,        \* the bodies of PUT /preferences/me
  Ids,           \* the ids MongoDB can give to a document
  None

\* The schema but for customerId, and its defaults.
Fields == {"emailEnabled", "pushEnabled", "smsEnabled"}
Defaults == [f \in Fields |-> TRUE]

Document == [customerId : Customers, prefs : [Fields -> BOOLEAN]]

ASSUME NoneAssumption == None \notin Document \cup [Fields -> BOOLEAN]
ASSUME BodiesAssumption ==
  \A b \in Bodies : \A k \in DOMAIN b : b[k] \in IF k = "customerId" THEN Customers ELSE BOOLEAN

VARIABLES
  docs,      \* docs[i]: the document with _id i
  indexed,   \* is the unique index on customerId in place?
  pc,        \* pc[c]: "idle", "look", "insert", "answered", "error"
  customer, body,  \* the parameters of call c
  answer     \* answer[c]: the document call c answered with

calls == <<customer, body>>
vars  == <<docs, indexed, pc, calls, answer>>

-----------------------------------------------------------------------------
Of(u) == {i \in Ids : docs[i] # None /\ docs[i].customerId = u}

\* Mutant: the schema does not say unique.
AnyDocument(u, i) == TRUE

\* unique: true on customerId: may document i be u's?
Unique(u, i) == indexed => Of(u) \subseteq {i}

\* mongoose's strict mode: keys the schema does not know are dropped.
Known(b) == [f \in DOMAIN b \cap (Fields \cup {"customerId"}) |-> b[f]]

\* Whose document it is after the edit of call c.
Owner(c) == IF "customerId" \in DOMAIN Known(body[c]) THEN body[c]["customerId"] ELSE customer[c]

\* Mutant: overwrite, as replaceOne does.
Replace(p, e) == [f \in Fields |-> IF f \in DOMAIN e THEN e[f] ELSE Defaults[f]]

\* $set of the fields named, $setOnInsert of the defaults.
Update(p, e) == [f \in Fields |-> IF f \in DOMAIN e THEN e[f]
                                  ELSE IF p = None THEN Defaults[f] ELSE p[f]]

\* The document that call c makes of one that prefers p, or of none.
Edited(c, p) == [customerId |-> Owner(c), prefs |-> Update(p, Known(body[c]))]

\* Mutant: new: true is forgotten.
ReturnOld(i) == docs[i]

\* new: true
ReturnNew(i) == docs'[i]

Settle(c, outcome) == pc' = [pc EXCEPT ![c] = outcome]

\* The document has been written; its reply comes, or is lost.
Written(c, i) ==
  \/ Settle(c, "answered") /\ answer' = [answer EXCEPT ![c] = ReturnNew(i)]
  \/ Settle(c, "error") /\ UNCHANGED answer

UpdatePreferences(c, u, b) ==
  /\ pc[c] = "idle"
  /\ Settle(c, "look")
  /\ customer' = [customer EXCEPT ![c] = u]
  /\ body' = [body EXCEPT ![c] = b]
  /\ UNCHANGED <<docs, indexed, answer>>

\* A document that is found is updated in the same step.
FindOneAndUpdate(c) ==
  /\ pc[c] = "look"
  /\ \/ \E i \in Of(customer[c]) :
          /\ Unique(Owner(c), i)
          /\ docs' = [docs EXCEPT ![i] = Edited(c, @.prefs)]
          /\ Written(c, i)
     \/ /\ Of(customer[c]) = {}
        /\ Settle(c, "insert")
        /\ UNCHANGED <<docs, answer>>
  /\ UNCHANGED <<indexed, calls>>

\* None was found: insert one, or look again when the index refuses it.
Upsert(c) ==
  /\ pc[c] = "insert"
  /\ \/ \E i \in Ids :
          /\ docs[i] = None
          /\ Unique(Owner(c), i)
          /\ docs' = [docs EXCEPT ![i] = Edited(c, None)]
          /\ Written(c, i)
     \/ /\ indexed /\ Of(customer[c]) # {}
        /\ Owner(c) = customer[c]
        /\ Settle(c, "look")
        /\ UNCHANGED <<docs, answer>>
  /\ UNCHANGED <<indexed, calls>>

\* The query rejects before it has written anything: a failure, or E11000 when
\* the customer whose document it would be has another.
Reject(c) ==
  /\ pc[c] \in {"look", "insert"}
  /\ Settle(c, "error")
  /\ UNCHANGED <<docs, indexed, calls, answer>>

BuildIndex ==
  /\ ~indexed
  /\ \A u \in Customers : \A i, j \in Of(u) : i = j
  /\ indexed' = TRUE
  /\ UNCHANGED <<docs, pc, calls, answer>>

Init ==
  /\ docs = [i \in Ids |-> None]
  /\ indexed = FALSE
  /\ pc = [c \in Calls |-> "idle"]
  /\ customer = [c \in Calls |-> None]
  /\ body = [c \in Calls |-> None]
  /\ answer = [c \in Calls |-> None]

Continue(c) == FindOneAndUpdate(c) \/ Upsert(c) \/ Reject(c)

Next ==
  \/ \E c \in Calls : Continue(c) \/ \E u \in Customers, b \in Bodies : UpdatePreferences(c, u, b)
  \/ BuildIndex

Spec == Init /\ [][Next]_vars

-----------------------------------------------------------------------------
\* Every variable holds a value of the kind its comment says.
TypeOK ==
  /\ docs \in [Ids -> Document \cup {None}]
  /\ indexed \in BOOLEAN
  /\ pc \in [Calls -> {"idle", "look", "insert", "answered", "error"}]
  /\ customer \in [Calls -> Customers \cup {None}]
  /\ body \in [Calls -> Bodies \cup {None}]
  /\ answer \in [Calls -> Document \cup {None}]

\* Once the index is there a customer has one document, though first edits
\* race; without it the edits of one customer may end in two.
OneDocument == indexed => \A u \in Customers : \A i, j \in Of(u) : i = j

\* Who is answered is shown a document with the whole of his edit in it, as far
\* as the schema knows the names, customerId among them: without it the document
\* is the caller's own, with it that of the customer it names.
AnswerShowsEdit ==
  \A c \in Calls : pc[c] = "answered" =>
    /\ answer[c] # None
    /\ answer[c].customerId = Owner(c)
    /\ \A f \in DOMAIN Known(body[c]) \cap Fields : answer[c].prefs[f] = body[c][f]

\* From the moment the index is there, racing upserts behave like edits applied
\* one after the other, each whole as far as the schema knows its names: the
\* service implements PreferenceStore.
Prefs == [u \in Customers |-> IF Of(u) = {} THEN None
                              ELSE docs[CHOOSE i \in Of(u) : TRUE].prefs]
Store == INSTANCE PreferenceStore
         WITH Edits <- {Known(b) : b \in Bodies}, open <- indexed, prefs <- Prefs
ImplementsStore == Store!SSpec
=============================================================================
