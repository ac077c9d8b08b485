-------------------------- MODULE TemplateService --------------------------
(***************************************************************************)
(* The templates collection: administrators who create, edit and delete    *)
(* templates over HTTP (src/application/services/template.service.ts), and *)
(* seed scripts that create the default ones (src/scripts/                 *)
(* seed-templates.ts), all at the same time.                               *)
(*                                                                         *)
(* createTemplate looks for the name first and inserts afterwards, with an *)
(* await between the two; what keeps names unique is the index that        *)
(* mongoose asks MongoDB to build when the process connects.               *)
(*                                                                         *)
(* Limits: a document is a name and a text; an edit replaces both, as a    *)
(* PUT that carries both does.                                             *)
(***************************************************************************)
EXTENDS Naturals, Sequences

CONSTANTS
  Posts,      \* POST /templates requests
  Seeders,    \* runs of the seed script
  ObjectIds,  \* the ids MongoDB can give to a template
  Names, Texts,
  Defaults,   \* the script's list of templates, in order
  None        \* null, undefined, or no such document

Doc == [name : Names, text : Texts]

\* createTemplate is called by a request, or by a seed run for one default.
Calls == Posts \cup (Seeders \X DOMAIN Defaults)

ASSUME DefaultsAssumption == Defaults \in Seq(Doc)
ASSUME NoneAssumption == None \notin Names \cup Doc

VARIABLES
  templates,  \* templates[i]: the document with _id i
  indexed,    \* is the unique index on name built?
  pc,         \* pc[c]: the await call c of createTemplate stands at
  data,       \* data[c]: its parameter
  answer,     \* answer[c]: how it ended
  item,       \* item[s]: the default that seed run s is at
  stage,      \* stage[s]: "list", "create" or "exited"
  \* History, read by no action:
  seen,       \* seen[s]: names that were in the collection since s began
  failed      \* failed[s]: defaults for which a query of s failed

collection == <<templates, indexed>>
create     == <<pc, data, answer>>
seeding    == <<item, stage, failed>>
vars       == <<collection, create, seeding, seen>>

-----------------------------------------------------------------------------
Present == {i \in ObjectIds : templates[i] # None}
Taken   == {templates[i].name : i \in Present}

\* Mutant: the schema does not say unique.
UniqueByChance(i, name) == TRUE

\* Does MongoDB let document i have this name?
Unique(i, name) == indexed => \A j \in Present \ {i} : templates[j].name # name

Settle(c, how) == /\ pc' = [pc EXCEPT ![c] = "answered"]
                  /\ answer' = [answer EXCEPT ![c] = how]

Begin(c, d) == /\ data' = [data EXCEPT ![c] = d]
               /\ pc' = [pc EXCEPT ![c] = "find"]
               /\ UNCHANGED answer

\* Every seed run still at work sees the name that appears.
See(name) == seen' = [s \in Seeders |-> IF stage[s] = "exited" THEN seen[s]
                                        ELSE seen[s] \cup {name}]

-----------------------------------------------------------------------------
(* createTemplate. *)

\* A request without a name is refused before anything is awaited.
PostTemplate(c, d) ==
  /\ pc[c] = "idle"
  /\ \/ d.name # None /\ Begin(c, d)
     \/ d.name = None /\ Settle(c, "invalid") /\ UNCHANGED data
  /\ UNCHANGED <<collection, seeding, seen>>

FindByName(c) ==
  /\ pc[c] = "find"
  /\ \/ data[c].name \in Taken /\ Settle(c, "exists")
     \/ data[c].name \notin Taken /\ pc' = [pc EXCEPT ![c] = "insert"] /\ UNCHANGED answer
     \/ Settle(c, "error")                          \* the query rejects
  /\ UNCHANGED <<collection, data, seeding, seen>>

\* "conflict" is MongoDB's E11000: not a ValidationError, so HTTP 500.
Insert(c) ==
  /\ pc[c] = "insert"
  /\ \/ \E i \in ObjectIds :
          /\ templates[i] = None
          /\ Unique(i, data[c].name)
          /\ templates' = [templates EXCEPT ![i] = data[c]]
          /\ Settle(c, "created") \/ Settle(c, "error")   \* the reply is lost
          /\ See(data[c].name)
     \/ /\ indexed /\ data[c].name \in Taken
        /\ Settle(c, "conflict")
        /\ UNCHANGED <<templates, seen>>
     \/ Settle(c, "error") /\ UNCHANGED <<templates, seen>>
  /\ UNCHANGED <<indexed, data, seeding>>

-----------------------------------------------------------------------------
(* updateTemplate, deleteTemplate, and the index. *)

PutTemplate(i, d) ==
  /\ i \in Present
  /\ Unique(i, d.name)
  /\ templates' = [templates EXCEPT ![i] = d]
  /\ See(d.name)
  /\ UNCHANGED <<indexed, create, seeding>>

DeleteTemplate(i) ==
  /\ i \in Present
  /\ templates' = [templates EXCEPT ![i] = None]
  /\ UNCHANGED <<indexed, create, seeding, seen>>

\* MongoDB does not build a unique index over duplicates.
BuildIndex ==
  /\ ~indexed
  /\ \A i, j \in Present : templates[i].name = templates[j].name => i = j
  /\ indexed' = TRUE
  /\ UNCHANGED <<templates, create, seeding, seen>>

-----------------------------------------------------------------------------
(* The seed script: one default after the other, whatever happens to each. *)

NextItem(s) == /\ item' = [item EXCEPT ![s] = @ + 1]
               /\ stage' = [stage EXCEPT ![s] = "list"]

Fails(s) == failed' = [failed EXCEPT ![s] = @ \cup {item[s]}]

\* Mutant: the loop is left at the first default that exists.
SeedItemBreaks(s) ==
  /\ stage[s] = "list"
  /\ item[s] <= Len(Defaults)
  /\ \/ /\ Defaults[item[s]].name \in Taken
        /\ item' = [item EXCEPT ![s] = Len(Defaults) + 1]
        /\ UNCHANGED <<create, stage, failed>>
     \/ /\ Defaults[item[s]].name \notin Taken
        /\ Begin(<<s, item[s]>>, Defaults[item[s]])
        /\ stage' = [stage EXCEPT ![s] = "create"]
        /\ UNCHANGED <<item, failed>>
     \/ NextItem(s) /\ Fails(s) /\ UNCHANGED create
  /\ UNCHANGED <<collection, seen>>

SeedItem(s) ==
  /\ stage[s] = "list"
  /\ item[s] <= Len(Defaults)
  /\ \/ /\ Defaults[item[s]].name \in Taken         \* skipped
        /\ NextItem(s)
        /\ UNCHANGED <<create, failed>>
     \/ /\ Defaults[item[s]].name \notin Taken
        /\ Begin(<<s, item[s]>>, Defaults[item[s]])
        /\ stage' = [stage EXCEPT ![s] = "create"]
        /\ UNCHANGED <<item, failed>>
     \/ /\ NextItem(s)                              \* the listing rejects
        /\ Fails(s)
        /\ UNCHANGED create
  /\ UNCHANGED <<collection, seen>>

\* Mutant: a default that could not be created is tried again.
SeedCreatedRetries(s) ==
  /\ stage[s] = "create"
  /\ pc[<<s, item[s]>>] = "answered"
  /\ IF answer[<<s, item[s]>>] = "created" THEN NextItem(s)
     ELSE stage' = [stage EXCEPT ![s] = "list"] /\ UNCHANGED item
  /\ UNCHANGED <<collection, create, failed, seen>>

SeedCreated(s) ==
  /\ stage[s] = "create"
  /\ pc[<<s, item[s]>>] = "answered"
  /\ NextItem(s)
  /\ IF answer[<<s, item[s]>>] = "error" THEN Fails(s) ELSE UNCHANGED failed
  /\ UNCHANGED <<collection, create, seen>>

SeedExit(s) ==
  /\ stage[s] = "list"
  /\ item[s] > Len(Defaults)
  /\ stage' = [stage EXCEPT ![s] = "exited"]
  /\ UNCHANGED <<collection, create, item, failed, seen>>

-----------------------------------------------------------------------------
Init ==
  /\ templates \in [ObjectIds -> Doc \cup {None}]
  /\ indexed \in BOOLEAN
  /\ indexed => \A i, j \in Present : templates[i].name = templates[j].name => i = j
  /\ pc = [c \in Calls |-> "idle"]
  /\ data = [c \in Calls |-> None]
  /\ answer = [c \in Calls |-> "none"]
  /\ item = [s \in Seeders |-> 1]
  /\ stage = [s \in Seeders |-> "list"]
  /\ seen = [s \in Seeders |-> Taken]
  /\ failed = [s \in Seeders |-> {}]

Seed(s) == SeedItem(s) \/ SeedCreated(s) \/ SeedExit(s)

Next ==
  \/ \E c \in Posts, n \in Names \cup {None}, t \in Texts : PostTemplate(c, [name |-> n, text |-> t])
  \/ \E c \in Calls : FindByName(c) \/ Insert(c)
  \/ \E i \in ObjectIds : DeleteTemplate(i) \/ \E d \in Doc : PutTemplate(i, d)
  \/ BuildIndex
  \/ \E s \in Seeders : Seed(s)

\* Awaited queries are answered or time out, and the script goes on.
Fairness == /\ \A c \in Calls : WF_vars(FindByName(c) \/ Insert(c))
            /\ \A s \in Seeders : WF_vars(Seed(s))

Spec     == Init /\ [][Next]_vars
FairSpec == Spec /\ Fairness

-----------------------------------------------------------------------------
\* Every variable holds a value of the kind its comment says.
TypeOK ==
  /\ templates \in [ObjectIds -> Doc \cup {None}]
  /\ indexed \in BOOLEAN
  /\ pc \in [Calls -> {"idle", "find", "insert", "answered"}]
  /\ data \in [Calls -> Doc \cup {None}]
  /\ answer \in [Calls -> {"none", "created", "exists", "conflict", "invalid", "error"}]
  /\ item \in [Seeders -> 1 .. Len(Defaults) + 1]
  /\ stage \in [Seeders -> {"list", "create", "exited"}]
  /\ seen \in [Seeders -> SUBSET Names]
  /\ failed \in [Seeders -> SUBSET DOMAIN Defaults]

\* Once the index is built no two templates share a name, though creations
\* look first and insert later, and edits and seed runs happen in between.
\* sendNotification depends on it: it takes any template of the name.
NamesAreUnique ==
  indexed => \A i, j \in Present : templates[i].name = templates[j].name => i = j

\* A seed run leaves no default out: when it exits, each was in the collection
\* at some moment of the run, or a query for it failed and was logged.
SeedCovers ==
  \A s \in Seeders : stage[s] = "exited" =>
    \A k \in DOMAIN Defaults : Defaults[k].name \in seen[s] \/ k \in failed[s]

\* Every seed run exits, whatever becomes of its queries.
SeedExits == \A s \in Seeders : <>(stage[s] = "exited")
=============================================================================
