--------------------------- MODULE ListingProofs ---------------------------
(***************************************************************************)
(* What a client that reads page by page is shown, proved for lists of any *)
(* length, every page size, every page the client starts at, and any       *)
(* number of notifications saved meanwhile.                                *)
(*                                                                         *)
(* A save moves a notification down the list, never up.  So what was there *)
(* when the client began, and it has not been shown, is below the pages it *)
(* has read: that is the inductive invariant.                              *)
(***************************************************************************)
EXTENDS Listing, SequenceTheorems, FiniteSetTheorems, TLAPS

-----------------------------------------------------------------------------
(* Lists and pages. *)

\* What is inserted into a list moves nothing up.
LEMMA InsertMovesDown ==
  ASSUME NEW S, NEW s \in Seq(S), NEW e \in S, NEW k \in 1 .. Len(s) + 1
  PROVE  /\ InsertAt(s, k, e) \in Seq(S)
         /\ \A i \in DOMAIN s : \E j \in DOMAIN InsertAt(s, k, e) :
              j >= i /\ InsertAt(s, k, e)[j] = s[i]
<1> DEFINE a == SubSeq(s, 1, k - 1)
           b == SubSeq(s, k, Len(s))
           ae == a \o <<e>>
<1>1. Len(s) \in Nat /\ DOMAIN s = 1 .. Len(s) /\ k \in Int /\ <<e>> \in Seq(S)
  BY LenProperties
<1>2. /\ a \in Seq(S) /\ Len(a) = k - 1
      /\ \A i \in 1 .. k - 1 : a[i] = s[i]
  BY <1>1, SubSeqProperties
<1>3. /\ b \in Seq(S) /\ Len(b) = Len(s) - k + 1
      /\ \A i \in 1 .. Len(b) : b[i] = s[k + i - 1]
  BY <1>1, SubSeqProperties
<1>4. ae \in Seq(S) /\ Len(ae) = k /\ \A i \in 1 .. k - 1 : ae[i] = a[i]
  BY <1>1, <1>2, ConcatProperties
<1> HIDE DEF a, b, ae
<1>5. /\ ae \o b \in Seq(S) /\ Len(ae \o b) = Len(s) + 1
      /\ \A i \in 1 .. Len(s) + 1 : (ae \o b)[i] = IF i <= k THEN ae[i] ELSE b[i - k]
  <2>1. /\ ae \o b \in Seq(S) /\ Len(ae \o b) = Len(ae) + Len(b)
        /\ \A i \in 1 .. Len(ae) + Len(b) :
             (ae \o b)[i] = IF i <= Len(ae) THEN ae[i] ELSE b[i - Len(ae)]
    BY <1>3, <1>4, ConcatProperties
  <2>2. Len(ae) + Len(b) = Len(s) + 1
    BY <1>1, <1>3, <1>4
  <2> QED
    BY <1>4, <2>1, <2>2
<1>6. InsertAt(s, k, e) = ae \o b
  BY DEF InsertAt, a, b, ae
<1>7. DOMAIN (ae \o b) = 1 .. Len(s) + 1
  BY <1>5, LenProperties
<1>8. ASSUME NEW i \in 1 .. Len(s)
      PROVE  \E j \in 1 .. Len(s) + 1 : j >= i /\ (ae \o b)[j] = s[i]
  <2>1. CASE i < k
    BY <1>1, <1>2, <1>4, <1>5, <2>1
  <2>2. CASE i >= k
    <3>1. i + 1 \in 1 .. Len(s) + 1 /\ ~(i + 1 <= k) /\ i + 1 - k \in 1 .. Len(b)
      BY <1>1, <1>3, <2>2
    <3>2. (ae \o b)[i + 1] = b[i + 1 - k]
      BY <1>5, <3>1
    <3>3. b[i + 1 - k] = s[k + (i + 1 - k) - 1] /\ k + (i + 1 - k) - 1 = i
      BY <1>1, <1>3, <3>1
    <3>4. (ae \o b)[i + 1] = s[i] /\ i + 1 >= i
      BY <3>2, <3>3
    <3> QED
      BY <3>1, <3>4
  <2>3. i < k \/ i >= k
    BY <1>1
  <2> QED
    BY <2>1, <2>2, <2>3
<1> QED
  BY <1>1, <1>5, <1>6, <1>7, <1>8

\* The page after the one that begins at a skip begins a limit further.
LEMMA NextPage ==
  \A p \in Int, l \in Nat : /\ (p - 1) * l \in Int /\ p * l \in Int
                            /\ (p - 1) * l + l = p * l
                            /\ (p + 1 - 1) * l = p * l
                            /\ (p <= 1 => (p - 1) * l <= 0)
<1> SUFFICES ASSUME NEW p \in Int, NEW l \in Nat
             PROVE  /\ (p - 1) * l \in Int /\ p * l \in Int
                    /\ (p - 1) * l + l = p * l
                    /\ (p + 1 - 1) * l = p * l
                    /\ (p <= 1 => (p - 1) * l <= 0)
  OBVIOUS
<1>1. (p - 1) * l \in Int /\ p * l \in Int /\ p + 1 - 1 = p
  OBVIOUS
<1>2. (p - 1) * l + l = p * l
  OBVIOUS
<1>3. p <= 1 => (p - 1) * l <= 0
  OBVIOUS
<1> QED
  BY <1>1, <1>2, <1>3

LEMMA Least ==
  ASSUME NEW a \in Int, NEW b \in Int
  PROVE  Min({a, b}) = IF a <= b THEN a ELSE b
BY DEF Min

\* What is shown of two lists one after the other.
LEMMA ShownOfBoth ==
  ASSUME NEW S, NEW s \in Seq(S), NEW t \in Seq(S)
  PROVE  s \o t \in Seq(S) /\ Range(s \o t) = Range(s) \cup Range(t)
<1>1. s \o t \in Seq(S) /\ DOMAIN (s \o t) = 1 .. Len(s) + Len(t)
  BY ConcatProperties, LenProperties
<1>2. Len(s) \in Nat /\ DOMAIN s = 1 .. Len(s) /\ Len(t) \in Nat /\ DOMAIN t = 1 .. Len(t)
  BY LenProperties
<1>3. \A k \in 1 .. Len(s) + Len(t) : (s \o t)[k] = IF k <= Len(s) THEN s[k] ELSE t[k - Len(s)]
  BY ConcatProperties
<1>4. ASSUME NEW k \in 1 .. Len(s) + Len(t) PROVE (s \o t)[k] \in Range(s) \cup Range(t)
  BY <1>2, <1>3 DEF Range
<1>5. ASSUME NEW k \in 1 .. Len(s) PROVE s[k] \in Range(s \o t)
  BY <1>1, <1>2, <1>3 DEF Range
<1>6. ASSUME NEW k \in 1 .. Len(t) PROVE t[k] \in Range(s \o t)
  <2>1. Len(s) + k \in 1 .. Len(s) + Len(t) /\ ~(Len(s) + k <= Len(s)) /\ Len(s) + k - Len(s) = k
    BY <1>2
  <2> QED
    BY <1>1, <1>3, <2>1 DEF Range
<1> QED
  BY <1>1, <1>2, <1>4, <1>5, <1>6 DEF Range

-----------------------------------------------------------------------------
(* The invariant. *)

\* What stands in the list below a place.
Below(k) == {list[i] : i \in {j \in DOMAIN list : j > k}}

Kinds == /\ list \in Seq(Notifications)
         /\ shown \in Seq(Notifications)
         /\ page \in Int /\ limit \in Nat
         /\ until \in {"short", "total"}
         /\ total # None => total \in Nat

\* What the client began with, and has not been shown, is on this page or on
\* the next ones.
Asking == state = "reading" /\ found = None => wanted \subseteq Range(shown) \cup Below(Skip)

\* The page has been found: what is not on it is on the next ones, of which
\* there are none after a short page, or when the list had ended.
Answered ==
  state = "reading" /\ found # None =>
    /\ found \in Seq(Notifications) /\ sizeAtFind \in Nat
    /\ wanted \subseteq Range(shown) \cup Range(found) \cup Below(Skip + limit)
    /\ limit = 0 \/ Len(found) < limit \/ sizeAtFind <= page * limit =>
         wanted \subseteq Range(shown) \cup Range(found)

Inv == /\ Kinds /\ Asking /\ Answered
       /\ ShortPageIsLast /\ TotalIsLastUnlessRaced

\* What is below a place stays below it when a notification is saved.
LEMMA BelowStays ==
  ASSUME list \in Seq(Notifications), NEW n \in Notifications, Save(n), NEW k \in Int
  PROVE  list' \in Seq(Notifications) /\ Below(k) \subseteq Below(k)'
<1>1. PICK i \in 1 .. Len(list) + 1 : list' = InsertAt(list, i, n)
  BY DEF Save
<1>2. /\ list' \in Seq(Notifications)
      /\ \A p \in DOMAIN list : \E q \in DOMAIN list' : q >= p /\ list'[q] = list[p]
  BY <1>1, InsertMovesDown
<1>3. DOMAIN list \subseteq Int /\ DOMAIN list' \subseteq Int
  BY <1>2, LenProperties
<1> QED
  BY <1>2, <1>3 DEF Below

\* What the repository finds: everything below the skip is on the page or
\* below it, and below a page that is short, or ends the list, is nothing.
LEMMA PageAndRest ==
  ASSUME list \in Seq(Notifications), page \in Int, limit \in Nat, Skip >= 0
  PROVE  /\ PageFound \in Seq(Notifications)
         /\ Below(Skip) \subseteq Range(PageFound) \cup Below(Skip + limit)
         /\ limit = 0 \/ Len(PageFound) < limit \/ Len(list) <= page * limit =>
              Below(Skip) \subseteq Range(PageFound)
<1>1. Skip \in Int /\ Skip + limit = page * limit /\ (limit = 0 => Skip = 0)
  BY NextPage DEF Skip
<1>2. Len(list) \in Nat /\ DOMAIN list = 1 .. Len(list)
  BY LenProperties
<1> DEFINE end == IF limit = 0 THEN Len(list) ELSE Min({Skip + limit, Len(list)})
<1>3. end = IF limit = 0 \/ Len(list) < Skip + limit THEN Len(list) ELSE Skip + limit
  BY <1>1, <1>2, Least
<1>4. PageFound = SubSeq(list, Skip + 1, end)
  BY DEF PageFound
<1> HIDE DEF end
<1>5. end \in 0 .. Len(list)
  BY <1>1, <1>2, <1>3
<1>6. /\ PageFound \in Seq(Notifications)
      /\ Len(PageFound) = IF Skip + 1 <= end THEN end - Skip ELSE 0
      /\ \A i \in 1 .. Len(PageFound) : PageFound[i] = list[Skip + i]
  <2>1. \A i \in Skip + 1 .. end : i \in 1 .. Len(list)
    BY <1>1, <1>2, <1>5
  <2>2. /\ PageFound \in Seq(Notifications)
        /\ Len(PageFound) = IF Skip + 1 <= end THEN end - (Skip + 1) + 1 ELSE 0
        /\ \A i \in 1 .. end - (Skip + 1) + 1 : PageFound[i] = list[Skip + 1 + i - 1]
    BY <1>1, <1>4, <1>5, <2>1, SubSeqProperties
  <2> QED
    BY <1>1, <1>5, <2>2
<1>7. ASSUME NEW i \in DOMAIN list, i > Skip, i <= end PROVE list[i] \in Range(PageFound)
  <2>1. i - Skip \in 1 .. Len(PageFound) /\ Skip + (i - Skip) = i
    BY <1>1, <1>2, <1>5, <1>6, <1>7
  <2>2. PageFound[i - Skip] = list[i] /\ i - Skip \in DOMAIN PageFound
    BY <1>6, <2>1, LenProperties
  <2> QED
    BY <2>2 DEF Range
<1>8. \A i \in DOMAIN list : i <= end \/ i > Skip + limit
  BY <1>1, <1>2, <1>3
<1>9. limit = 0 \/ Len(PageFound) < limit \/ Len(list) <= page * limit =>
        \A i \in DOMAIN list : i > Skip => i <= end
  <2>1. CASE limit = 0 \/ Len(list) <= page * limit
    <3>1. limit = 0 \/ Len(list) <= Skip + limit
      BY <1>1, <2>1
    <3>2. Len(list) \in Int /\ Skip + limit \in Int
      BY <1>1, <1>2
    <3>3. limit = 0 \/ Len(list) < Skip + limit \/ Len(list) = Skip + limit
      BY <3>1, <3>2
    <3>4. end = Len(list)
      BY <1>3, <3>3
    <3> QED
      BY <1>2, <3>4
  <2>2. CASE limit # 0 /\ Len(PageFound) < limit
    <3>1. CASE end = Len(list)
      BY <1>2, <3>1
    <3>2. CASE end # Len(list)
      <4>1. end = Skip + limit
        BY <1>3, <3>2
      <4>2. Len(PageFound) = limit
        BY <1>1, <1>6, <2>2, <4>1
      <4> QED
        BY <2>2, <4>2
    <3> QED
      BY <3>1, <3>2
  <2> QED
    BY <2>1, <2>2
<1> QED
  BY <1>6, <1>7, <1>8, <1>9 DEF Below

-----------------------------------------------------------------------------
(* Every action keeps the invariant. *)

LEMMA InvInit == Init => Inv
<1> SUFFICES ASSUME Init PROVE Inv
  OBVIOUS
<1>1. PICK S \in SUBSET Notifications : list \in SetToSeqs(S)
  BY DEF Init
<1>2. Cardinality(S) \in Nat
  BY NotificationsAssumption, FS_Subset, FS_CardinalityType
<1>3. list \in Seq(Notifications)
  <2>1. list \in [1 .. Cardinality(S) -> S]
    BY <1>1 DEF SetToSeqs
  <2> QED
    BY <1>2, <2>1, SeqMonotonic
<1>4. PICK p \in PageParams, l \in LimitParams : page = Given(p, 1) /\ limit = Given(l, 10)
  BY DEF Init
<1>5. page \in Int /\ page <= 1 /\ limit \in Nat
  BY <1>4, ParamsAssumption DEF Given
<1>6. Skip \in Int /\ Skip <= 0
  BY <1>5, NextPage DEF Skip
<1>7. wanted \subseteq Below(Skip)
  <2>1. DOMAIN list = 1 .. Len(list)
    BY <1>3, LenProperties
  <2> QED
    BY <1>6, <2>1 DEF Init, Below, Range
<1>8. Kinds
  BY <1>3, <1>5 DEF Init, Kinds
<1> QED
  BY <1>7, <1>8 DEF Init, Inv, Asking, Answered, ShortPageIsLast, TotalIsLastUnlessRaced

LEMMA SaveKeeps ==
  ASSUME Inv, NEW n \in Notifications, Save(n)
  PROVE  Inv'
<1>1. list \in Seq(Notifications) /\ Skip \in Int /\ limit \in Nat
  BY NextPage DEF Inv, Kinds, Skip
<1>2. UNCHANGED <<query, client>>
  BY DEF Save
<1>3. /\ list' \in Seq(Notifications) /\ Below(Skip) \subseteq Below(Skip)'
      /\ Below(Skip + limit) \subseteq Below(Skip + limit)'
  <2>1. \A k \in Int : list' \in Seq(Notifications) /\ Below(k) \subseteq Below(k)'
    BY <1>1, BelowStays
  <2>2. Skip' = Skip /\ limit' = limit /\ Skip + limit \in Int
    BY <1>1, <1>2 DEF client, Skip
  <2> QED
    BY <1>1, <2>1, <2>2 DEF Below
<1>4. Skip' = Skip
  BY <1>2 DEF client, Skip
<1> QED
  BY <1>2, <1>3, <1>4 DEF Inv, Kinds, Asking, Answered, ShortPageIsLast, TotalIsLastUnlessRaced,
                          query, client

LEMMA FindKeeps ==
  ASSUME Inv, FindReplies
  PROVE  Inv'
<1>1. /\ state = "reading" /\ found = None /\ Skip >= 0
      /\ found' = PageFound /\ sizeAtFind' = Len(list)
      /\ UNCHANGED <<list, total, page, limit, until, state, shown, wanted>>
  BY DEF FindReplies, client
<1>2. list \in Seq(Notifications) /\ page \in Int /\ limit \in Nat /\ Len(list) \in Nat
  BY LenProperties DEF Inv, Kinds
<1>3. Skip' = Skip /\ Below(Skip)' = Below(Skip) /\ Below(Skip + limit)' = Below(Skip + limit)
  BY <1>1 DEF Skip, Below
<1>4. Kinds'
  BY <1>1 DEF Inv, Kinds
<1>5. wanted \subseteq Range(shown) \cup Below(Skip)
  BY <1>1 DEF Inv, Asking
<1>6. Asking' /\ Answered'
  BY <1>1, <1>2, <1>3, <1>5, PageAndRest DEF Asking, Answered
<1> QED
  BY <1>1, <1>4, <1>6 DEF Inv, ShortPageIsLast, TotalIsLastUnlessRaced

LEMMA ReplyKeeps ==
  ASSUME Inv, Reply
  PROVE  Inv'
<1>1. /\ state = "reading" /\ found # None /\ total # None
      /\ shown' = shown \o found
      /\ UNCHANGED <<list, limit, until, wanted>>
  BY DEF Reply
<1>2. /\ page \in Int /\ limit \in Nat /\ page * limit \in Int
      /\ total \in Nat /\ sizeAtFind \in Nat /\ found \in Seq(Notifications)
      /\ Len(found) \in Nat
  BY <1>1, NextPage, LenProperties DEF Inv, Kinds, Answered
<1>3. shown' \in Seq(Notifications) /\ Range(shown') = Range(shown) \cup Range(found)
  BY <1>1, <1>2, ShownOfBoth DEF Inv, Kinds
<1>4. /\ wanted \subseteq Range(shown') \cup Below(Skip + limit)
      /\ limit = 0 \/ Len(found) < limit \/ sizeAtFind <= page * limit =>
           wanted \subseteq Range(shown')
  BY <1>1, <1>3 DEF Inv, Answered
<1>5. CASE LastPage
  <2>1. state' = "done" /\ UNCHANGED <<page, found, total, sizeAtFind>>
    BY <1>5 DEF Reply, query
  <2>2. Kinds' /\ Asking' /\ Answered'
    BY <1>1, <1>3, <2>1 DEF Inv, Kinds, Asking, Answered
  <2>3. ShortPageIsLast'
    BY <1>1, <1>4, <1>5, <2>1 DEF ShortPageIsLast, LastPage
  <2>4. TotalIsLastUnlessRaced'
    BY <1>1, <1>2, <1>4, <1>5, <2>1 DEF TotalIsLastUnlessRaced, LastPage, Total
  <2> QED
    BY <2>2, <2>3, <2>4 DEF Inv
<1>6. CASE ~LastPage
  <2>1. state' = "reading" /\ found' = None /\ total' = None /\ page' = page + 1
    BY <1>1, <1>6 DEF Reply
  <2>2. Skip' = Skip + limit
    BY <1>1, <1>2, <2>1, NextPage DEF Skip
  <2>3. Below(Skip)' = Below(Skip + limit)
    BY <1>1, <2>2 DEF Below
  <2>4. Kinds' /\ Asking' /\ Answered'
    BY <1>1, <1>2, <1>3, <1>4, <2>1, <2>3 DEF Inv, Kinds, Asking, Answered
  <2> QED
    BY <2>1, <2>4 DEF Inv, ShortPageIsLast, TotalIsLastUnlessRaced
<1> QED
  BY <1>5, <1>6

LEMMA InvNext == Inv /\ [Next]_vars => Inv'
<1> SUFFICES ASSUME Inv, [Next]_vars PROVE Inv'
  OBVIOUS
<1>1. CASE CountReplies
  <2>1. /\ Len(list) \in Nat /\ total' = Len(list)
        /\ UNCHANGED <<list, found, sizeAtFind, page, limit, until, state, shown, wanted>>
    BY <1>1, LenProperties DEF CountReplies, client, Inv, Kinds
  <2>2. state = "reading" /\ UNCHANGED <<Skip, Below(Skip), Below(Skip + limit)>>
    BY <1>1, <2>1 DEF CountReplies, Skip, Below
  <2> QED
    BY <2>1, <2>2 DEF Inv, Kinds, Asking, Answered, ShortPageIsLast, TotalIsLastUnlessRaced
<1>2. CASE Refused
  BY <1>2 DEF Refused, query, Inv, Kinds, Asking, Answered, ShortPageIsLast, TotalIsLastUnlessRaced
<1>3. CASE UNCHANGED vars
  <2>1. UNCHANGED <<Skip, Below(Skip), Below(Skip + limit)>>
    BY <1>3 DEF vars, client, Skip, Below
  <2> QED
    BY <1>3, <2>1 DEF vars, query, client, Inv, Kinds, Asking, Answered, ShortPageIsLast,
                      TotalIsLastUnlessRaced
<1> QED
  BY <1>1, <1>2, <1>3, SaveKeeps, FindKeeps, ReplyKeeps DEF Next

\* A client that stops at a page shorter than its limit has missed nothing
\* that was there when it began (notification.repository.ts:30, skip and limit
\* over createdAt descending).
THEOREM ShortPagesSuffice == Spec => []ShortPageIsLast
<1>1. Inv => ShortPageIsLast
  BY DEF Inv
<1> QED
  BY <1>1, InvInit, InvNext, PTL DEF Spec

\* A client that stops by the total has missed something only if its last page
\* was found in a list longer than the one that was counted: the two queries
\* of one Promise.all are not one snapshot (notification.repository.ts:29).
THEOREM TotalsMostlySuffice == Spec => []TotalIsLastUnlessRaced
<1>1. Inv => TotalIsLastUnlessRaced
  BY DEF Inv
<1> QED
  BY <1>1, InvInit, InvNext, PTL DEF Spec
=============================================================================
