----------------------- MODULE TemplateServiceProofs -----------------------
(***************************************************************************)
(* Names are unique once the index is built, and a seed run leaves no      *)
(* default out: proved for any number of requests, seed runs, documents    *)
(* and defaults.                                                           *)
(***************************************************************************)
EXTENDS TemplateService, TLAPS

\* A call that awaits a query has a document for its parameter.
HasData == \A c \in Calls : pc[c] \in {"find", "insert"} => data[c] \in Doc

Typed == TypeOK /\ HasData

\* What a seed run at work has seen, and what became of the defaults behind it.
Covered(s) == \A k \in 1 .. item[s] - 1 : Defaults[k].name \in seen[s] \/ k \in failed[s]

\* The call a seed run awaits is for the default it is at; once answered, that
\* default has been seen, unless a query failed.
Creating(s) ==
  /\ item[s] \in DOMAIN Defaults
  /\ data[<<s, item[s]>>] = Defaults[item[s]]
  /\ pc[<<s, item[s]>>] # "idle"
  /\ pc[<<s, item[s]>>] = "answered" =>
       answer[<<s, item[s]>>] = "error" \/ Defaults[item[s]].name \in seen[s]

Run(s) == /\ Covered(s)
          /\ stage[s] # "exited" => Taken \subseteq seen[s]
          /\ stage[s] = "create" => Creating(s)
          /\ stage[s] = "exited" => item[s] = Len(Defaults) + 1

Runs == \A s \in Seeders : Run(s)

LEMMA DefaultsAreDocs ==
  /\ \A k \in DOMAIN Defaults : Defaults[k] \in Doc
  /\ DOMAIN Defaults = 1 .. Len(Defaults) /\ Len(Defaults) \in Nat
BY DefaultsAssumption

LEMMA SeederCalls == \A s \in Seeders, k \in DOMAIN Defaults : <<s, k>> \in Calls
BY DEF Calls

-----------------------------------------------------------------------------
LEMMA TypedInit == Init => Typed
<1> SUFFICES ASSUME Init PROVE Typed
  OBVIOUS
<1>1. Taken \subseteq Names
  BY DEF Init, Taken, Present, Doc
<1> QED
  BY <1>1, DefaultsAreDocs DEF Init, Typed, TypeOK, HasData

\* A document's name is one of Names; so is what See records.
LEMMA SeeTyped ==
  ASSUME Typed, NEW n \in Names, See(n)
  PROVE  seen' \in [Seeders -> SUBSET Names]
BY DEF Typed, TypeOK, See

\* Every action keeps the types.
LEMMA TypedStep == Typed /\ Runs /\ [Next]_vars => Typed'
<1> SUFFICES ASSUME Typed, Runs, [Next]_vars PROVE Typed'
  OBVIOUS
<1> USE DEF Typed, TypeOK, HasData, vars, collection, create, seeding
<1>1. ASSUME NEW c \in Posts, NEW n \in Names \cup {None}, NEW t \in Texts,
             PostTemplate(c, [name |-> n, text |-> t])
      PROVE  Typed'
  <2>1. c \in Calls
    BY DEF Calls
  <2>2. n # None => [name |-> n, text |-> t] \in Doc
    BY DEF Doc
  <2> QED
    BY <1>1, <2>1, <2>2 DEF PostTemplate, Begin, Settle
<1>2. ASSUME NEW c \in Calls, FindByName(c)
      PROVE  Typed'
  BY <1>2 DEF FindByName, Settle
<1>3. ASSUME NEW c \in Calls, Insert(c)
      PROVE  Typed'
  <2>1. data[c] \in Doc /\ data[c].name \in Names
    BY <1>3 DEF Insert, Doc
  <2>2. templates' \in [ObjectIds -> Doc \cup {None}]
    BY <1>3, <2>1 DEF Insert
  <2>3. seen' \in [Seeders -> SUBSET Names]
    BY <1>3, <2>1, SeeTyped DEF Insert
  <2> QED
    BY <1>3, <2>2, <2>3 DEF Insert, Settle
<1>4. ASSUME NEW i \in ObjectIds, NEW d \in Doc, PutTemplate(i, d)
      PROVE  Typed'
  <2>1. d.name \in Names
    BY DEF Doc
  <2> QED
    BY <1>4, <2>1, SeeTyped DEF PutTemplate
<1>5. ASSUME NEW i \in ObjectIds, DeleteTemplate(i)
      PROVE  Typed'
  BY <1>5 DEF DeleteTemplate
<1>6. CASE BuildIndex
  BY <1>6 DEF BuildIndex
<1>7. ASSUME NEW s \in Seeders, SeedItem(s)
      PROVE  Typed'
  <2>1. item[s] \in DOMAIN Defaults /\ item[s] + 1 \in 1 .. Len(Defaults) + 1
    BY <1>7, DefaultsAreDocs DEF SeedItem
  <2>2. <<s, item[s]>> \in Calls /\ Defaults[item[s]] \in Doc
    BY <2>1, SeederCalls, DefaultsAreDocs
  <2>3. CASE Begin(<<s, item[s]>>, Defaults[item[s]])
             /\ stage' = [stage EXCEPT ![s] = "create"] /\ UNCHANGED <<item, failed>>
    BY <1>7, <2>2, <2>3 DEF SeedItem, Begin
  <2>4. CASE NextItem(s) /\ UNCHANGED create /\ (Fails(s) \/ UNCHANGED failed)
    <3>1. /\ item' \in [Seeders -> 1 .. Len(Defaults) + 1]
          /\ stage' \in [Seeders -> {"list", "create", "exited"}]
      BY <2>1, <2>4 DEF NextItem
    <3>2. failed' \in [Seeders -> SUBSET DOMAIN Defaults]
      BY <2>1, <2>4 DEF Fails
    <3>3. UNCHANGED <<templates, indexed, pc, data, answer, seen>>
      BY <1>7, <2>4 DEF SeedItem
    <3> QED
      BY <3>1, <3>2, <3>3
  <2> QED
    BY <1>7, <2>3, <2>4 DEF SeedItem
<1>8. ASSUME NEW s \in Seeders, SeedCreated(s)
      PROVE  Typed'
  <2>1. item[s] \in DOMAIN Defaults /\ item[s] + 1 \in 1 .. Len(Defaults) + 1
    BY <1>8, DefaultsAreDocs DEF SeedCreated, Runs, Run, Creating
  <2> QED
    BY <1>8, <2>1 DEF SeedCreated, NextItem, Fails
<1>9. ASSUME NEW s \in Seeders, SeedExit(s)
      PROVE  Typed'
  BY <1>9 DEF SeedExit
<1>10. CASE UNCHANGED vars
  BY <1>10
<1> QED
  BY <1>1, <1>2, <1>3, <1>4, <1>5, <1>6, <1>7, <1>8, <1>9, <1>10 DEF Next, Seed

-----------------------------------------------------------------------------
(* The index. *)

\* Writing a name that the index allows to one document keeps names unique.
LEMMA WriteKeepsUnique ==
  ASSUME Typed, NamesAreUnique, NEW i \in ObjectIds, NEW d \in Doc, Unique(i, d.name),
         templates' = [templates EXCEPT ![i] = d], indexed' = indexed
  PROVE  NamesAreUnique'
BY NoneAssumption DEF Typed, TypeOK, NamesAreUnique, Unique, Present

LEMMA UniqueStep == Typed /\ NamesAreUnique /\ [Next]_vars => NamesAreUnique'
<1> SUFFICES ASSUME Typed, NamesAreUnique, [Next]_vars PROVE NamesAreUnique'
  OBVIOUS
<1>1. ASSUME NEW c \in Calls, Insert(c)
      PROVE  NamesAreUnique'
  <2>1. CASE UNCHANGED templates
    BY <1>1, <2>1 DEF Insert, NamesAreUnique, Present
  <2>2. CASE \E i \in ObjectIds : /\ Unique(i, data[c].name)
                                  /\ templates' = [templates EXCEPT ![i] = data[c]]
    BY <1>1, <2>2, WriteKeepsUnique DEF Insert, Typed, HasData
  <2> QED
    BY <1>1, <2>1, <2>2 DEF Insert
<1>2. ASSUME NEW i \in ObjectIds, NEW d \in Doc, PutTemplate(i, d)
      PROVE  NamesAreUnique'
  BY <1>2, WriteKeepsUnique DEF PutTemplate
<1>3. ASSUME NEW i \in ObjectIds, DeleteTemplate(i)
      PROVE  NamesAreUnique'
  BY <1>3 DEF DeleteTemplate, NamesAreUnique, Present, Typed, TypeOK
<1>4. CASE BuildIndex
  BY <1>4 DEF BuildIndex, NamesAreUnique, Present
<1>5. CASE UNCHANGED collection
  BY <1>5 DEF collection, NamesAreUnique, Present
<1> QED
  BY <1>1, <1>2, <1>3, <1>4, <1>5
  DEF Next, vars, Seed, PostTemplate, FindByName, SeedItem, SeedCreated, SeedExit

-----------------------------------------------------------------------------
(* The seed runs. *)

LEMMA RunsInit == Init => Runs
BY DefaultsAreDocs DEF Init, Runs, Run, Covered

\* A step that leaves the runs where they are, loses nothing they have seen and
\* shows them every name that appears, keeps Run(s), if the call s awaits stays put.
LEMMA RunKept ==
  ASSUME Typed, NEW s \in Seeders, Run(s), item'[s] = item[s], stage'[s] = stage[s],
         failed'[s] = failed[s], seen[s] \subseteq seen'[s],
         stage[s] # "exited" => Taken' \subseteq Taken \cup seen'[s],
         stage[s] = "create" => Creating(s)'
  PROVE  Run(s)'
BY DEF Run, Covered

\* What See does for a run: nothing is lost, and a run at work sees the name.
LEMMA SeeShows ==
  ASSUME Typed, NEW n \in Names, See(n), NEW s \in Seeders
  PROVE  /\ seen[s] \subseteq seen'[s]
         /\ stage[s] # "exited" => n \in seen'[s]
BY DEF See

\* Only the written name appears.
LEMMA WriteTakes ==
  ASSUME Typed, NEW i \in ObjectIds, NEW d \in Doc,
         templates' = [templates EXCEPT ![i] = d]
  PROVE  Taken' \subseteq Taken \cup {d.name}
BY NoneAssumption DEF Typed, TypeOK, Taken, Present

\* What a settled call's answer is; the other calls stay as they are.
LEMMA Settled ==
  ASSUME Typed, NEW c \in Calls, NEW how, Settle(c, how), NEW d \in Calls
  PROVE  /\ pc'[d] = IF d = c THEN "answered" ELSE pc[d]
         /\ answer'[d] = IF d = c THEN how ELSE answer[d]
BY DEF Typed, TypeOK, Settle

LEMMA RunsStep == Typed /\ Runs /\ [Next]_vars => Runs'
<1> SUFFICES ASSUME Typed, Runs, [Next]_vars, NEW s \in Seeders PROVE Run(s)'
  BY DEF Runs
<1>a. Run(s)
  BY DEF Runs
<1> USE DEF vars, collection, create, seeding
<1>1. ASSUME NEW c \in Posts, NEW n \in Names \cup {None}, NEW t \in Texts,
             PostTemplate(c, [name |-> n, text |-> t])
      PROVE  Run(s)'
  <2>1. stage[s] = "create" => Creating(s)'
    <3> SUFFICES ASSUME stage[s] = "create" PROVE Creating(s)'
      OBVIOUS
    <3>1. Creating(s) /\ UNCHANGED <<item, seen>>
      BY <1>1, <1>a DEF Run, PostTemplate
    <3> DEFINE d == <<s, item[s]>>
    <3>2. d \in Calls /\ c \in Calls /\ c # d
      BY <1>1, <3>1, SeederCalls DEF Creating, Calls, PostTemplate
    <3> HIDE DEF d
    <3>3. pc'[d] = pc[d] /\ data'[d] = data[d] /\ answer'[d] = answer[d]
      BY <1>1, <3>2 DEF PostTemplate, Begin, Settle, Typed, TypeOK
    <3> QED
      BY <3>1, <3>3 DEF Creating, d
  <2>2. Taken' = Taken
    BY <1>1 DEF PostTemplate, Taken, Present
  <2> QED
    BY <1>1, <1>a, <2>1, <2>2, RunKept DEF PostTemplate
<1>2. ASSUME NEW c \in Calls, FindByName(c)
      PROVE  Run(s)'
  <2>1. stage[s] = "create" => Creating(s)'
    <3> SUFFICES ASSUME stage[s] = "create" PROVE Creating(s)'
      OBVIOUS
    <3>1. Creating(s) /\ Taken \subseteq seen[s]
      BY <1>a DEF Run
    <3> DEFINE d == <<s, item[s]>>
    <3>2. d \in Calls
      BY <3>1, SeederCalls DEF Creating
    <3>3. UNCHANGED <<item, data, seen>>
      BY <1>2 DEF FindByName
    <3> HIDE DEF d
    <3>4. pc'[d] # "idle" \/ pc'[d] = pc[d]
      BY <1>2, <3>2, Settled DEF FindByName, Typed, TypeOK
    <3>5. pc'[d] = "answered" => \/ answer'[d] = "error" \/ data[d].name \in Taken
                                 \/ pc[d] = "answered" /\ answer'[d] = answer[d]
      <4>1. CASE c = d /\ data[c].name \in Taken
        BY <4>1
      <4>2. CASE Settle(c, "error")
        BY <4>2, <3>2, Settled
      <4>3. CASE c = d /\ pc' = [pc EXCEPT ![c] = "insert"]
        BY <4>3 DEF Typed, TypeOK
      <4>4. CASE c # d
        BY <1>2, <3>2, <4>4, Settled DEF FindByName, Typed, TypeOK
      <4> QED
        BY <1>2, <4>1, <4>2, <4>3, <4>4 DEF FindByName
    <3> QED
      BY <3>1, <3>3, <3>4, <3>5 DEF Creating, d
  <2>2. Taken' = Taken
    BY <1>2 DEF FindByName, Taken, Present
  <2> QED
    BY <1>2, <1>a, <2>1, <2>2, RunKept DEF FindByName
<1>3. ASSUME NEW c \in Calls, Insert(c)
      PROVE  Run(s)'
  <2>1. data[c] \in Doc /\ data[c].name \in Names
    BY <1>3 DEF Insert, Doc, Typed, HasData
  <2>2. /\ seen[s] \subseteq seen'[s]
        /\ stage[s] # "exited" => Taken' \subseteq Taken \cup seen'[s]
        /\ answer'[c] = "created" /\ stage[s] # "exited" => data[c].name \in seen'[s]
    <3>1. CASE UNCHANGED <<templates, seen>> /\ answer'[c] # "created"
      BY <3>1 DEF Taken, Present
    <3>2. CASE \E i \in ObjectIds : /\ templates' = [templates EXCEPT ![i] = data[c]]
                                    /\ See(data[c].name)
      BY <3>2, <2>1, WriteTakes, SeeShows
    <3> QED
      BY <1>3, <3>1, <3>2 DEF Insert, Settle, Typed, TypeOK
  <2>3. stage[s] = "create" => Creating(s)'
    <3> SUFFICES ASSUME stage[s] = "create" PROVE Creating(s)'
      OBVIOUS
    <3>1. Creating(s) /\ Taken \subseteq seen[s]
      BY <1>a DEF Run
    <3> DEFINE d == <<s, item[s]>>
    <3>2. d \in Calls
      BY <3>1, SeederCalls DEF Creating
    <3>3. UNCHANGED <<item, data>>
      BY <1>3 DEF Insert
    <3>4. PICK how : Settle(c, how)
      BY <1>3 DEF Insert
    <3> HIDE DEF d
    <3>5. answer'[c] = how
      BY <3>4, Settled
    <3>6. pc'[d] # "idle" \/ pc'[d] = pc[d]
      BY <3>2, <3>4, Settled
    <3>7. pc'[d] = "answered" => \/ answer'[d] = "error" \/ data[d].name \in seen'[s]
                                 \/ pc[d] = "answered" /\ answer'[d] = answer[d]
      <4>1. CASE c = d
        <5>1. answer'[c] \in {"created", "error"} \/ data[c].name \in Taken
          BY <1>3 DEF Insert, Settle, Typed, TypeOK
        <5> QED
          BY <4>1, <5>1, <2>2, <3>1
      <4>2. CASE c # d
        BY <3>2, <3>4, <4>2, Settled
      <4> QED
        BY <4>1, <4>2
    <3> QED
      BY <2>2, <3>1, <3>3, <3>6, <3>7 DEF Creating, d
  <2> QED
    BY <1>3, <1>a, <2>2, <2>3, RunKept DEF Insert
<1>4. ASSUME NEW i \in ObjectIds, NEW d \in Doc, PutTemplate(i, d)
      PROVE  Run(s)'
  <2>1. d.name \in Names /\ See(d.name) /\ templates' = [templates EXCEPT ![i] = d]
    BY <1>4 DEF PutTemplate, Doc
  <2>2. seen[s] \subseteq seen'[s] /\ (stage[s] # "exited" => Taken' \subseteq Taken \cup seen'[s])
    BY <2>1, SeeShows, WriteTakes
  <2>3. stage[s] = "create" => Creating(s)'
    BY <1>4, <1>a, <2>2 DEF PutTemplate, Run, Creating
  <2> QED
    BY <1>4, <1>a, <2>2, <2>3, RunKept DEF PutTemplate
<1>5. ASSUME NEW i \in ObjectIds, DeleteTemplate(i)
      PROVE  Run(s)'
  <2>1. Taken' \subseteq Taken
    BY <1>5 DEF DeleteTemplate, Taken, Present, Typed, TypeOK
  <2>2. stage[s] = "create" => Creating(s)'
    BY <1>5, <1>a DEF DeleteTemplate, Run, Creating
  <2> QED
    BY <1>5, <1>a, <2>1, <2>2, RunKept DEF DeleteTemplate
<1>6. CASE BuildIndex \/ UNCHANGED vars
  BY <1>6, <1>a DEF BuildIndex, Run, Covered, Creating, Taken, Present
<1>7. ASSUME NEW r \in Seeders, Seed(r), r # s
      PROVE  Run(s)'
  <2>1. UNCHANGED <<templates, seen>> /\ item'[s] = item[s] /\ stage'[s] = stage[s]
        /\ failed'[s] = failed[s]
    BY <1>7 DEF Seed, SeedItem, SeedCreated, SeedExit, NextItem, Fails, Typed, TypeOK
  <2>2. \A k \in DOMAIN Defaults : /\ pc'[<<s, k>>] = pc[<<s, k>>]
                                   /\ data'[<<s, k>>] = data[<<s, k>>]
                                   /\ answer'[<<s, k>>] = answer[<<s, k>>]
    <3> SUFFICES ASSUME NEW k \in DOMAIN Defaults
                 PROVE  /\ pc'[<<s, k>>] = pc[<<s, k>>]
                        /\ data'[<<s, k>>] = data[<<s, k>>]
                        /\ answer'[<<s, k>>] = answer[<<s, k>>]
      OBVIOUS
    <3>1. <<s, k>> # <<r, item[r]>> /\ <<s, k>> \in Calls
      BY <1>7, SeederCalls
    <3> QED
      BY <1>7, <3>1 DEF Seed, SeedItem, SeedCreated, SeedExit, Begin, Typed, TypeOK
  <2>3. stage[s] = "create" => Creating(s)'
    BY <1>a, <2>1, <2>2 DEF Run, Creating
  <2>4. Taken' = Taken
    BY <2>1 DEF Taken, Present
  <2> QED
    BY <1>a, <2>1, <2>3, <2>4, RunKept
<1>8. CASE SeedItem(s)
  <2>1. item[s] \in DOMAIN Defaults /\ <<s, item[s]>> \in Calls /\ item[s] \in 1 .. Len(Defaults)
    BY <1>8, SeederCalls, DefaultsAreDocs DEF SeedItem, Typed, TypeOK
  <2>2. Taken' = Taken /\ seen' = seen /\ Taken \subseteq seen[s] /\ stage[s] = "list"
    BY <1>8, <1>a DEF SeedItem, Taken, Present, Run
  <2>3. CASE Begin(<<s, item[s]>>, Defaults[item[s]])
             /\ stage' = [stage EXCEPT ![s] = "create"] /\ UNCHANGED <<item, failed>>
    <3>1. Creating(s)'
      BY <2>1, <2>3 DEF Creating, Begin, Typed, TypeOK
    <3> QED
      BY <1>a, <2>2, <2>3, <3>1 DEF Run, Covered, Typed, TypeOK
  <2>4. CASE NextItem(s) /\ (Fails(s) \/ (UNCHANGED failed /\ Defaults[item[s]].name \in Taken))
    <3>1. item'[s] = item[s] + 1 /\ stage'[s] = "list"
      BY <2>4 DEF NextItem, Typed, TypeOK
    <3>2. /\ failed[s] \subseteq failed'[s]
          /\ item[s] \in failed'[s] \/ Defaults[item[s]].name \in seen'[s]
      BY <2>2, <2>4 DEF Fails, Typed, TypeOK
    <3>3. \A k \in 1 .. item'[s] - 1 : k \in 1 .. item[s] - 1 \/ k = item[s]
      BY <2>1, <3>1, DefaultsAreDocs
    <3> QED
      BY <1>a, <2>2, <3>1, <3>2, <3>3 DEF Run, Covered
  <2> QED
    BY <1>8, <2>3, <2>4 DEF SeedItem
<1>9. CASE SeedCreated(s)
  <2>1. Creating(s) /\ Covered(s) /\ Taken \subseteq seen[s] /\ item[s] \in 1 .. Len(Defaults)
    BY <1>9, <1>a, DefaultsAreDocs DEF SeedCreated, Run, Creating
  <2>2. item'[s] = item[s] + 1 /\ stage'[s] = "list" /\ seen' = seen /\ Taken' = Taken
    BY <1>9 DEF SeedCreated, NextItem, Typed, TypeOK, Taken, Present
  <2>3. /\ failed[s] \subseteq failed'[s]
        /\ item[s] \in failed'[s] \/ Defaults[item[s]].name \in seen[s]
    BY <1>9, <2>1 DEF SeedCreated, Fails, Creating, Typed, TypeOK
  <2>4. \A k \in 1 .. item'[s] - 1 : k \in 1 .. item[s] - 1 \/ k = item[s]
    BY <2>1, <2>2, DefaultsAreDocs
  <2> QED
    BY <2>1, <2>2, <2>3, <2>4 DEF Run, Covered
<1>10. CASE SeedExit(s)
  <2>1. item[s] = Len(Defaults) + 1
    BY <1>10, DefaultsAreDocs DEF SeedExit, Typed, TypeOK
  <2>2. stage'[s] = "exited"
    BY <1>10 DEF SeedExit, Typed, TypeOK
  <2> QED
    BY <1>10, <1>a, <2>1, <2>2 DEF SeedExit, Run, Covered
<1> QED
  BY <1>1, <1>2, <1>3, <1>4, <1>5, <1>6, <1>7, <1>8, <1>9, <1>10 DEF Next, Seed

-----------------------------------------------------------------------------
LEMMA Invariant == Spec => [](Typed /\ Runs)
<1>1. Init => Typed /\ Runs
  BY TypedInit, RunsInit
<1>2. Typed /\ Runs /\ [Next]_vars => (Typed /\ Runs)'
  BY TypedStep, RunsStep
<1> QED
  BY <1>1, <1>2, PTL DEF Spec

\* Every variable of template.service.ts and seed-templates.ts keeps its kind.
THEOREM TypeCorrect == Spec => []TypeOK
BY Invariant, PTL DEF Typed

\* However creations, edits, deletions and seed runs interleave between the
\* look (template.service.ts:24) and the insert (:27), no two templates share a
\* name once mongoose's index is there.
THEOREM NamesUnique == Spec => []NamesAreUnique
<1>1. Init => NamesAreUnique
  BY DEF Init, NamesAreUnique
<1> QED
  BY <1>1, UniqueStep, Invariant, PTL DEF Spec

\* However many seed runs and administrators there are, no run of
\* seed-templates.ts leaves a default out that it did not log a failure for.
THEOREM DefaultsCovered == Spec => []SeedCovers
<1>1. Typed /\ Runs => SeedCovers
  BY DefaultsAreDocs DEF Typed, TypeOK, Runs, Run, Covered, SeedCovers
<1> QED
  BY <1>1, Invariant, PTL
=============================================================================
