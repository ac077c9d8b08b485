-------------------------- MODULE PreferenceStore --------------------------
(***************************************************************************)
(* What the preferences collection promises from the moment its index is   *)
(* there: one set of preferences per customer, to which edits are applied  *)
(* one after the other, each whole.  An edit sets the fields it names; the *)
(* first makes the preferences, with every other field at its default.     *)
(*                                                                         *)
(* An edit that names a customer gives what it makes to that customer, who *)
(* must have none of his own.  It takes them from the one who edits, but   *)
(* promises less than the other edits: if he had none when it began, it    *)
(* may overlook those that another edit has given him since.               *)
(***************************************************************************)
CONSTANTS
  Customers, Fields,
  Edits,     \* functions from some of the fields, and "customerId", to values
  Defaults,  \* Defaults[f]: what field f is when no edit has named it
  None       \* no preferences yet

VARIABLES
  open,  \* has the promise begun?
  prefs  \* prefs[u]: what customer u prefers

svars == <<open, prefs>>

\* The fields of edit e over those of p.
Merge(p, e) == [f \in Fields |-> IF f \in DOMAIN e THEN e[f]
                                 ELSE IF p = None THEN Defaults[f] ELSE p[f]]

\* Who has the preferences after u's edit e.
Heir(u, e) == IF "customerId" \in DOMAIN e THEN e["customerId"] ELSE u

SInit == open = FALSE

\* Until the index is there, anything may happen.
Unpromised == ~open /\ open' \in BOOLEAN

\* u's preferences are edited, and are the heir's from then on.
Change(u, e) == /\ prefs[u] # None
                /\ Heir(u, e) = u \/ prefs[Heir(u, e)] = None
                /\ prefs' = [prefs EXCEPT ![u] = None, ![Heir(u, e)] = Merge(prefs[u], e)]

\* There were none to edit: the heir gets his first.
Create(u, e) == /\ prefs[Heir(u, e)] = None
                /\ prefs' = [prefs EXCEPT ![Heir(u, e)] = Merge(None, e)]

Edit(u, e) == open /\ open' /\ (Change(u, e) \/ Create(u, e))

SNext == Unpromised \/ \E u \in Customers, e \in Edits : Edit(u, e)

SSpec == SInit /\ [][SNext]_svars
=============================================================================
