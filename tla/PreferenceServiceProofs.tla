---------------------- MODULE PreferenceServiceProofs ----------------------
(***************************************************************************)
(* The preferences collection behaves like PreferenceStore from the moment *)
(* its index is there: proved for any number of edits and customers.       *)
(***************************************************************************)
EXTENDS PreferenceService, TLAPS

Active == {"look", "insert", "answered", "error"}

\* A call that has begun has its parameters.
HasCall == \A c \in Calls : pc[c] \in Active => customer[c] \in Customers /\ body[c] \in Bodies

Typed == TypeOK /\ HasCall
Inv   == Typed /\ OneDocument /\ AnswerShowsEdit

-----------------------------------------------------------------------------
(* What an edit does to a document. *)

LEMMA KnownEdit ==
  ASSUME NEW b \in Bodies
  PROVE  /\ DOMAIN Known(b) \subseteq Fields \cup {"customerId"}
         /\ \A f \in DOMAIN Known(b) : Known(b)[f] = b[f]
         /\ \A f \in DOMAIN Known(b) \cap Fields : b[f] \in BOOLEAN
         /\ "customerId" \in DOMAIN Known(b) => b["customerId"] \in Customers
<1>1. "customerId" \notin Fields
  BY DEF Fields
<1> QED
  BY <1>1, BodiesAssumption DEF Known

LEMMA UpdateTyped ==
  ASSUME NEW b \in Bodies, NEW p \in [Fields -> BOOLEAN] \cup {None}
  PROVE  Update(p, Known(b)) \in [Fields -> BOOLEAN]
<1>1. ASSUME NEW f \in Fields
      PROVE  (IF f \in DOMAIN Known(b) THEN Known(b)[f]
              ELSE IF p = None THEN Defaults[f] ELSE p[f]) \in BOOLEAN
  BY KnownEdit DEF Defaults
<1> QED
  BY <1>1 DEF Update

LEMMA UpdateShows ==
  ASSUME NEW b \in Bodies, NEW p
  PROVE  \A f \in DOMAIN Known(b) \cap Fields : Update(p, Known(b))[f] = b[f]
BY KnownEdit DEF Update

\* What a call makes of a document is a document, and its owner's.
LEMMA EditedDocument ==
  ASSUME Typed, NEW c \in Calls, pc[c] \in Active, NEW p \in [Fields -> BOOLEAN] \cup {None}
  PROVE  /\ Owner(c) \in Customers
         /\ Edited(c, p) \in Document
         /\ Edited(c, p).customerId = Owner(c)
         /\ Edited(c, p).prefs = Update(p, Known(body[c]))
<1>1. body[c] \in Bodies /\ customer[c] \in Customers
  BY DEF Typed, HasCall
<1>2. Owner(c) \in Customers
  BY <1>1, KnownEdit DEF Owner
<1>3. Update(p, Known(body[c])) \in [Fields -> BOOLEAN]
  BY <1>1, UpdateTyped
<1> QED
  BY <1>2, <1>3 DEF Edited, Document

-----------------------------------------------------------------------------
(* The steps that write. *)

\* Call c writes document i, which preferred p before, or was not there.
Writes(c, i, p) == /\ docs' = [docs EXCEPT ![i] = Edited(c, p)]
                   /\ p = IF docs[i] = None THEN None ELSE docs[i].prefs

\* The other documents are left alone.
LEMMA WrittenDocument ==
  ASSUME Typed, NEW c \in Calls, pc[c] \in Active, NEW i \in Ids, NEW p, Writes(c, i, p)
  PROVE  /\ p \in [Fields -> BOOLEAN] \cup {None}
         /\ docs' \in [Ids -> Document \cup {None}]
         /\ docs'[i] = Edited(c, p) /\ docs'[i] \in Document /\ docs'[i] # None
         /\ docs'[i].customerId = Owner(c)
         /\ \A j \in Ids \ {i} : docs'[j] = docs[j]
<1>1. docs \in [Ids -> Document \cup {None}]
  BY DEF Typed, TypeOK
<1>2. p \in [Fields -> BOOLEAN] \cup {None}
  BY <1>1 DEF Writes, Document
<1>3. Edited(c, p) \in Document /\ Edited(c, p).customerId = Owner(c)
  BY <1>2, EditedDocument
<1>4. docs' = [docs EXCEPT ![i] = Edited(c, p)]
  BY DEF Writes
<1> QED
  BY <1>1, <1>2, <1>3, <1>4, NoneAssumption

\* A document that FindOneAndUpdate has found, or that Upsert inserts, is written,
\* or the query goes on.
Allowed(c, i, p) == /\ Writes(c, i, p) /\ Unique(Owner(c), i) /\ Written(c, i)
                    /\ docs[i] # None => docs[i].customerId = customer[c]

GoesOn(c) == \E outcome \in {"look", "insert"} : Settle(c, outcome) /\ UNCHANGED <<docs, answer>>

LEMMA QuerySteps ==
  ASSUME Typed, NEW c \in Calls, FindOneAndUpdate(c) \/ Upsert(c)
  PROVE  GoesOn(c) \/ \E i \in Ids : \E p : Allowed(c, i, p)
<1>1. docs \in [Ids -> Document \cup {None}]
  BY DEF Typed, TypeOK
<1>2. ASSUME NEW i \in Of(customer[c]), Unique(Owner(c), i), Written(c, i),
             docs' = [docs EXCEPT ![i] = Edited(c, @.prefs)]
      PROVE  i \in Ids /\ Allowed(c, i, docs[i].prefs)
  <2>1. i \in Ids /\ docs[i] # None /\ docs[i].customerId = customer[c]
    BY DEF Of
  <2>2. Writes(c, i, docs[i].prefs)
    BY <1>1, <1>2, <2>1 DEF Writes
  <2> QED
    BY <1>2, <2>1, <2>2 DEF Allowed
<1>3. ASSUME NEW i \in Ids, docs[i] = None, Unique(Owner(c), i), Written(c, i),
             docs' = [docs EXCEPT ![i] = Edited(c, None)]
      PROVE  Allowed(c, i, None)
  BY <1>3 DEF Allowed, Writes
<1>4. CASE FindOneAndUpdate(c)
  BY <1>2, <1>4 DEF FindOneAndUpdate, GoesOn
<1>5. CASE Upsert(c)
  BY <1>3, <1>5 DEF Upsert, GoesOn
<1> QED
  BY <1>4, <1>5

\* The reply, if it comes, shows the edit.
LEMMA WrittenShows ==
  ASSUME Typed, AnswerShowsEdit, NEW c \in Calls, pc[c] \in {"look", "insert"},
         NEW i \in Ids, NEW p, Writes(c, i, p), Written(c, i), UNCHANGED calls
  PROVE  /\ pc' \in [Calls -> {"idle", "look", "insert", "answered", "error"}]
         /\ answer' \in [Calls -> Document \cup {None}]
         /\ HasCall'
         /\ AnswerShowsEdit'
<1>t. TypeOK /\ body[c] \in Bodies /\ UNCHANGED <<customer, body>>
  BY DEF Typed, HasCall, Active, calls
<1>w. /\ p \in [Fields -> BOOLEAN] \cup {None} /\ docs'[i] = Edited(c, p)
      /\ docs'[i] \in Document /\ docs'[i] # None /\ docs'[i].customerId = Owner(c)
  BY WrittenDocument DEF Active
<1>o. \A x \in Calls : Owner(x)' = Owner(x) /\ Known(body'[x]) = Known(body[x])
  BY <1>t DEF Owner, Known
<1>1. CASE Settle(c, "answered") /\ answer' = [answer EXCEPT ![c] = docs'[i]]
  <2>1. /\ pc' \in [Calls -> {"idle", "look", "insert", "answered", "error"}]
        /\ answer' \in [Calls -> Document \cup {None}]
        /\ answer'[c] = docs'[i]
        /\ \A x \in Calls \ {c} : pc'[x] = pc[x] /\ answer'[x] = answer[x]
    BY <1>1, <1>t, <1>w DEF TypeOK, Settle
  <2>2. HasCall'
    BY <2>1, <1>t DEF Typed, HasCall, Active
  <2>3. \A f \in DOMAIN Known(body[c]) \cap Fields : docs'[i].prefs[f] = body[c][f]
    <3>1. docs'[i].prefs = Update(p, Known(body[c]))
      BY <1>w, EditedDocument DEF Active
    <3> QED
      BY <1>t, <3>1, UpdateShows
  <2>4. AnswerShowsEdit'
    <3> SUFFICES ASSUME NEW x \in Calls, pc'[x] = "answered"
                 PROVE  /\ answer'[x] # None
                        /\ answer'[x].customerId = Owner(x)
                        /\ \A f \in DOMAIN Known(body[x]) \cap Fields : answer'[x].prefs[f] = body[x][f]
      BY <1>t, <1>o DEF AnswerShowsEdit
    <3>1. CASE x = c
      BY <1>w, <2>1, <2>3, <3>1
    <3>2. CASE x # c
      BY <2>1, <3>2 DEF AnswerShowsEdit
    <3> QED
      BY <3>1, <3>2
  <2> QED
    BY <2>1, <2>2, <2>4
<1>2. CASE Settle(c, "error") /\ UNCHANGED answer
  <2>1. /\ pc' \in [Calls -> {"idle", "look", "insert", "answered", "error"}]
        /\ answer' \in [Calls -> Document \cup {None}]
        /\ \A x \in Calls : pc'[x] # "error" => pc'[x] = pc[x] /\ answer'[x] = answer[x]
        /\ \A x \in Calls \ {c} : pc'[x] = pc[x]
    BY <1>2, <1>t DEF TypeOK, Settle
  <2>2. HasCall'
    BY <2>1, <1>t DEF Typed, HasCall, Active
  <2>3. AnswerShowsEdit'
    <3> SUFFICES ASSUME NEW x \in Calls, pc'[x] = "answered"
                 PROVE  /\ answer'[x] # None
                        /\ answer'[x].customerId = Owner(x)
                        /\ \A f \in DOMAIN Known(body[x]) \cap Fields : answer'[x].prefs[f] = body[x][f]
      BY <1>t, <1>o DEF AnswerShowsEdit
    <3> QED
      BY <2>1 DEF AnswerShowsEdit
  <2> QED
    BY <2>1, <2>2, <2>3
<1> QED
  BY <1>1, <1>2 DEF Written, ReturnNew

\* The document is its new owner's, and nobody else's any more; once the index is
\* there the owner must have had no other.
LEMMA WriteKeepsOne ==
  ASSUME Typed, OneDocument, NEW c \in Calls, pc[c] \in Active, NEW i \in Ids, NEW p,
         Writes(c, i, p), Unique(Owner(c), i), indexed' = indexed
  PROVE  /\ \A v \in Customers : Of(v)' = IF v = Owner(c) THEN Of(v) \cup {i} ELSE Of(v) \ {i}
         /\ OneDocument'
<1>1. docs'[i] # None /\ docs'[i].customerId = Owner(c)
  BY WrittenDocument
<1>2. \A j \in Ids \ {i} : docs'[j] = docs[j]
  BY WrittenDocument
<1>3. \A v \in Customers : Of(v)' = IF v = Owner(c) THEN Of(v) \cup {i} ELSE Of(v) \ {i}
  BY <1>1, <1>2 DEF Of
<1> QED
  BY <1>3 DEF OneDocument, Unique

-----------------------------------------------------------------------------
LEMMA InvInit == Init => Inv
BY DEF Init, Inv, Typed, TypeOK, HasCall, Active, OneDocument, AnswerShowsEdit, Of

\* A step that writes nothing and answers nobody.
LEMMA QuietStep ==
  ASSUME Inv, NEW c \in Calls, NEW outcome \in {"look", "insert", "error"}, Settle(c, outcome),
         pc[c] \in {"look", "insert"}, UNCHANGED <<docs, indexed, calls, answer>>
  PROVE  Inv'
BY DEF Inv, Typed, TypeOK, HasCall, Active, Settle, calls, OneDocument, AnswerShowsEdit, Of, Known,
       Owner

\* A step that writes a document.
LEMMA WriteStep ==
  ASSUME Inv, NEW c \in Calls, pc[c] \in {"look", "insert"}, NEW i \in Ids, NEW p,
         Writes(c, i, p), Unique(Owner(c), i), Written(c, i), UNCHANGED <<indexed, calls>>
  PROVE  Inv'
<1>1. /\ pc' \in [Calls -> {"idle", "look", "insert", "answered", "error"}]
      /\ answer' \in [Calls -> Document \cup {None}]
      /\ HasCall'
      /\ AnswerShowsEdit'
  BY WrittenShows DEF Inv
<1>2. docs' \in [Ids -> Document \cup {None}] /\ OneDocument'
  BY WrittenDocument, WriteKeepsOne DEF Inv, Active
<1>3. TypeOK'
  BY <1>1, <1>2 DEF Inv, Typed, TypeOK, calls
<1> QED
  BY <1>1, <1>2, <1>3 DEF Inv, Typed

LEMMA InvStep == Inv /\ [Next]_vars => Inv'
<1> SUFFICES ASSUME Inv, [Next]_vars PROVE Inv'
  OBVIOUS
<1>1. ASSUME NEW c \in Calls, NEW u \in Customers, NEW b \in Bodies, UpdatePreferences(c, u, b)
      PROVE  Inv'
  <2>1. /\ customer' \in [Calls -> Customers \cup {None}]
        /\ body' \in [Calls -> Bodies \cup {None}]
        /\ pc' \in [Calls -> {"idle", "look", "insert", "answered", "error"}]
        /\ customer'[c] = u /\ body'[c] = b /\ pc'[c] = "look"
        /\ \A x \in Calls \ {c} : pc'[x] = pc[x] /\ customer'[x] = customer[x] /\ body'[x] = body[x]
    BY <1>1 DEF Inv, Typed, TypeOK, UpdatePreferences, Settle
  <2>2. UNCHANGED <<docs, indexed, answer>>
    BY <1>1 DEF UpdatePreferences
  <2>3. TypeOK' /\ HasCall'
    BY <2>1, <2>2 DEF Inv, Typed, TypeOK, HasCall
  <2>4. OneDocument'
    BY <2>2 DEF Inv, OneDocument, Of
  <2>5. AnswerShowsEdit'
    <3>1. \A x \in Calls : pc'[x] = "answered" => pc[x] = "answered" /\ x # c
      BY <2>1
    <3>2. \A x \in Calls \ {c} : Owner(x)' = Owner(x) /\ body'[x] = body[x]
      BY <2>1 DEF Owner, Known
    <3> SUFFICES ASSUME NEW x \in Calls, pc'[x] = "answered"
                 PROVE  /\ answer'[x] # None
                        /\ answer'[x].customerId = Owner(x)'
                        /\ \A f \in DOMAIN Known(body'[x]) \cap Fields : answer'[x].prefs[f] = body'[x][f]
      BY DEF AnswerShowsEdit, Known
    <3> QED
      BY <2>2, <3>1, <3>2 DEF Inv, AnswerShowsEdit
  <2> QED
    BY <2>3, <2>4, <2>5 DEF Inv, Typed
<1>2. ASSUME NEW c \in Calls, FindOneAndUpdate(c) \/ Upsert(c)
      PROVE  Inv'
  <2>1. pc[c] \in {"look", "insert"} /\ UNCHANGED <<indexed, calls>>
    BY <1>2 DEF FindOneAndUpdate, Upsert
  <2>2. CASE GoesOn(c)
    BY <2>1, <2>2, QuietStep DEF GoesOn
  <2>3. ASSUME NEW i \in Ids, NEW p, Allowed(c, i, p)
        PROVE  Inv'
    BY <2>1, <2>3, WriteStep DEF Allowed
  <2> QED
    BY <1>2, <2>2, <2>3, QuerySteps DEF Inv
<1>3. ASSUME NEW c \in Calls, Reject(c)
      PROVE  Inv'
  BY <1>3, QuietStep DEF Reject
<1>4. CASE BuildIndex
  <2>1. OneDocument'
    BY <1>4 DEF BuildIndex, OneDocument, Of
  <2>2. UNCHANGED <<docs, pc, customer, body, answer>> /\ indexed' \in BOOLEAN
    BY <1>4 DEF BuildIndex, calls
  <2> QED
    BY <2>1, <2>2 DEF Inv, Typed, TypeOK, HasCall, AnswerShowsEdit, Known, Owner
<1>5. CASE UNCHANGED vars
  BY <1>5 DEF vars, calls, Inv, Typed, TypeOK, HasCall, OneDocument, Of, AnswerShowsEdit, Known, Owner
<1> QED
  BY <1>1, <1>2, <1>3, <1>4, <1>5 DEF Next, Continue

LEMMA Invariant == Spec => []Inv
BY InvInit, InvStep, PTL DEF Spec

\* Documents, parameters and answers keep their kinds (preference.service.ts).
THEOREM TypeCorrect == Spec => []TypeOK
<1>1. Inv => TypeOK
  BY DEF Inv, Typed
<1> QED
  BY <1>1, Invariant, PTL

\* Racing first edits leave a customer with one document, from the moment the
\* unique index of preference.schema.ts is there.
THEOREM OnePerCustomer == Spec => []OneDocument
<1>1. Inv => OneDocument
  BY DEF Inv
<1> QED
  BY <1>1, Invariant, PTL

\* updatePreferences answers with a document that has all of the edit in it that
\* preference.schema.ts has names for, whose document it is included.
THEOREM AnswersShowEdits == Spec => []AnswerShowsEdit
<1>1. Inv => AnswerShowsEdit
  BY DEF Inv
<1> QED
  BY <1>1, Invariant, PTL

-----------------------------------------------------------------------------
(* The refinement. *)

\* With one document per customer, the abstract preferences are that document's.
LEMMA PrefsOf ==
  ASSUME NEW u \in Customers, NEW i \in Of(u), \A j \in Of(u) : j = i
  PROVE  Prefs[u] = docs[i].prefs
BY DEF Prefs

LEMMA PrefsNone == ASSUME NEW u \in Customers, Of(u) = {} PROVE Prefs[u] = None
BY DEF Prefs

\* Update is the store's Merge, and Owner its Heir.
LEMMA UpdateMerges == \A p, e : Update(p, e) = Store!Merge(p, e)
BY DEF Update, Store!Merge

LEMMA OwnerIsHeir == \A c \in Calls : Owner(c) = Store!Heir(customer[c], Known(body[c]))
BY DEF Owner, Store!Heir, Known

\* A step that leaves the documents alone leaves the abstract preferences alone.
LEMMA SameDocs == docs' = docs => Prefs' = Prefs
BY DEF Prefs, Of

\* A write changes the abstract preferences of the owner, and takes them from
\* whose the document was.
LEMMA WritePrefs ==
  ASSUME Inv, indexed, NEW c \in Calls, pc[c] \in Active, NEW i \in Ids, NEW p,
         Writes(c, i, p), Unique(Owner(c), i), indexed' = indexed
  PROVE  Prefs' = [v \in Customers |-> IF v = Owner(c) THEN Store!Merge(p, Known(body[c]))
                                       ELSE IF i \in Of(v) THEN None ELSE Prefs[v]]
<1>1. /\ docs'[i].prefs = Store!Merge(p, Known(body[c]))
      /\ \A j \in Ids \ {i} : docs'[j] = docs[j]
  BY WrittenDocument, EditedDocument, UpdateMerges DEF Inv
<1>2. \A v \in Customers : Of(v)' = IF v = Owner(c) THEN Of(v) \cup {i} ELSE Of(v) \ {i}
  BY WriteKeepsOne DEF Inv
<1>3. Of(Owner(c)) \subseteq {i}
  BY DEF Unique
<1>4. ASSUME NEW v \in Customers
      PROVE  Prefs'[v] = IF v = Owner(c) THEN Store!Merge(p, Known(body[c]))
                         ELSE IF i \in Of(v) THEN None ELSE Prefs[v]
  <2>1. Prefs'[v] = IF Of(v)' = {} THEN None ELSE docs'[CHOOSE j \in Of(v)' : TRUE].prefs
    BY DEF Prefs
  <2>2. CASE v = Owner(c)
    <3>1. Of(v)' = {i}
      BY <1>2, <1>3, <2>2
    <3> QED
      BY <1>1, <2>1, <2>2, <3>1
  <2>3. CASE v # Owner(c) /\ i \in Of(v)
    <3>1. Of(v)' = {}
      BY <1>2, <2>3 DEF Inv, OneDocument
    <3> QED
      BY <2>1, <2>3, <3>1
  <2>4. CASE v # Owner(c) /\ i \notin Of(v)
    <3>1. Of(v)' = Of(v)
      BY <1>2, <2>4
    <3>2. \A j \in Of(v) : docs'[j] = docs[j]
      BY <1>1, <2>4 DEF Of
    <3>3. Of(v) # {} => (CHOOSE j \in Of(v) : TRUE) \in Of(v)
      OBVIOUS
    <3> QED
      BY <2>1, <2>4, <3>1, <3>2, <3>3 DEF Prefs
  <2> QED
    BY <2>2, <2>3, <2>4
<1>5. Prefs' = [v \in Customers |-> Prefs'[v]]
  BY DEF Prefs
<1> QED
  BY <1>4, <1>5

\* So it is an edit of the abstract store: of the caller's preferences when their
\* document was found, of nobody's when one was inserted.
LEMMA WriteIsEdit ==
  ASSUME Inv, indexed, NEW c \in Calls, pc[c] \in Active, NEW i \in Ids, NEW p,
         Allowed(c, i, p), indexed' = indexed
  PROVE  Store!Edit(customer[c], Known(body[c]))
<1> DEFINE u == customer[c]
           o == Owner(c)
           m(q) == Store!Merge(q, Known(body[c]))
<1>1. u \in Customers /\ o \in Customers /\ o = Store!Heir(u, Known(body[c]))
  BY EditedDocument, OwnerIsHeir DEF Inv, Typed, HasCall
<1>2. Prefs' = [v \in Customers |-> IF v = o THEN m(p) ELSE IF i \in Of(v) THEN None ELSE Prefs[v]]
  BY WritePrefs DEF Allowed
<1>3. Of(o) \subseteq {i}
  BY DEF Allowed, Unique
<1>4. Prefs = [v \in Customers |-> Prefs[v]]
  BY DEF Prefs
<1>5. CASE docs[i] = None
  <2>1. p = None /\ \A v \in Customers : i \notin Of(v)
    BY <1>5 DEF Allowed, Writes, Of
  <2>2. Prefs[o] = None
    BY <1>1, <1>3, <2>1, PrefsNone
  <2>3. Prefs' = [Prefs EXCEPT ![o] = m(None)]
    <3> HIDE DEF m, o
    <3> QED
      BY <1>1, <1>2, <1>4, <2>1
  <2> QED
    BY <1>1, <2>2, <2>3 DEF Store!Edit, Store!Create
<1>6. CASE docs[i] # None
  <2>1. i \in Of(u) /\ p = docs[i].prefs
    BY <1>6 DEF Allowed, Writes, Of
  <2>2. \A v \in Customers : i \in Of(v) <=> v = u
    BY <2>1 DEF Of
  <2>3. Prefs[u] = p
    BY <1>1, <2>1, PrefsOf DEF Inv, OneDocument
  <2>4. Prefs[u] # None
    BY <1>1, <2>1, <2>3, NoneAssumption DEF Inv, Typed, TypeOK, Document, Of
  <2>5. o = u \/ Prefs[o] = None
    BY <1>1, <1>3, <2>2, PrefsNone
  <2>6. Prefs' = [Prefs EXCEPT ![u] = None, ![o] = m(Prefs[u])]
    <3> HIDE DEF m, o, u
    <3> QED
      BY <1>1, <1>2, <1>4, <2>2, <2>3
  <2> QED
    BY <1>1, <2>4, <2>5, <2>6 DEF Store!Edit, Store!Change
<1> QED
  BY <1>5, <1>6

LEMMA StoreStep == Inv /\ [Next]_vars => [Store!SNext]_Store!svars
<1> SUFFICES ASSUME Inv, [Next]_vars PROVE Store!SNext \/ UNCHANGED Store!svars
  BY DEF Store!svars
<1>1. CASE ~indexed
  <2>1. indexed' \in BOOLEAN
    BY InvStep DEF Inv, Typed, TypeOK
  <2> QED
    BY <1>1, <2>1 DEF Store!SNext, Store!Unpromised
<1>2. CASE indexed /\ UNCHANGED <<docs, indexed>>
  BY <1>2, SameDocs DEF Store!svars
<1>3. ASSUME indexed, NEW c \in Calls, FindOneAndUpdate(c) \/ Upsert(c), docs' # docs
      PROVE  Store!SNext
  <2>1. pc[c] \in Active /\ indexed' = indexed
    BY <1>3 DEF FindOneAndUpdate, Upsert, Active
  <2>2. customer[c] \in Customers /\ Known(body[c]) \in {Known(b) : b \in Bodies}
    BY <2>1 DEF Inv, Typed, HasCall
  <2>3. \E i \in Ids : \E p : Allowed(c, i, p)
    BY <1>3, QuerySteps DEF Inv, GoesOn
  <2>4. Store!Edit(customer[c], Known(body[c]))
    BY <1>3, <2>1, <2>3, WriteIsEdit
  <2> QED
    BY <2>2, <2>4 DEF Store!SNext
<1>4. \/ UNCHANGED <<docs, indexed>>
      \/ ~indexed
      \/ \E c \in Calls : (FindOneAndUpdate(c) \/ Upsert(c)) /\ docs' # docs
  BY DEF Next, Continue, vars, UpdatePreferences, FindOneAndUpdate, Upsert, Reject, BuildIndex
<1> QED
  BY <1>1, <1>2, <1>3, <1>4

\* Racing upserts of preference.repository.ts:22 are edits applied one after the
\* other, each whole as far as the schema knows its names, for any number of them.
THEOREM ServiceImplementsStore == Spec => ImplementsStore
<1>1. Init => Store!SInit
  BY DEF Init, Store!SInit
<1> QED
  BY <1>1, StoreStep, Invariant, PTL DEF Spec, ImplementsStore, Store!SSpec
=============================================================================
