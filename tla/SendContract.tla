---------------------------- MODULE SendContract ----------------------------
(***************************************************************************)
(* What sendNotification promises its callers, without the database, the   *)
(* templates or the broker: which calls have saved a notification, which   *)
(* have handed a message to RabbitMQ, and what each caller was told.       *)
(*                                                                         *)
(* The two effects are not one transaction.  They happen in this order,    *)
(* each at most once, and the answer is given with the second of them or   *)
(* after it has been given up; a call that throws, or dies with its        *)
(* process, may leave a saved notification that nobody will queue.         *)
(***************************************************************************)
EXTENDS Sequences

CONSTANT Calls

VARIABLES
  saved,    \* the calls whose notification is in the database
  queued,   \* the calls whose message RabbitMQ was handed, in order
  verdict   \* verdict[c]: "idle", "open", or how call c ended

cvars == <<saved, queued, verdict>>

CInit == /\ saved = {}
         /\ queued = <<>>
         /\ verdict = [c \in Calls |-> "idle"]

Ask(c)    == /\ verdict[c] = "idle"
             /\ verdict' = [verdict EXCEPT ![c] = "open"]
             /\ UNCHANGED <<saved, queued>>

Save(c)   == /\ verdict[c] = "open"
             /\ c \notin saved
             /\ saved' = saved \cup {c}
             /\ UNCHANGED <<queued, verdict>>

\* Mutant: the message is queued before the notification is saved.
QueueUnsaved(c) == /\ verdict[c] = "open"
                   /\ queued' = Append(queued, c)
                   /\ verdict' = [verdict EXCEPT ![c] = "pending"]
                   /\ UNCHANGED saved

Queue(c)  == /\ verdict[c] = "open"
             /\ c \in saved
             /\ queued' = Append(queued, c)
             /\ verdict' = [verdict EXCEPT ![c] = "pending"]
             /\ UNCHANGED saved

GiveUp(c) == /\ verdict[c] = "open"
             /\ c \in saved
             /\ verdict' = [verdict EXCEPT ![c] = "failed"]
             /\ UNCHANGED <<saved, queued>>

\* The call may have saved its notification, without hearing of it.
Throws(c) == /\ verdict[c] = "open"
             /\ saved' \in {saved, saved \cup {c}}
             /\ verdict' = [verdict EXCEPT ![c] = "error"]
             /\ UNCHANGED queued

Die       == /\ verdict' = [c \in Calls |-> IF verdict[c] = "open" THEN "crashed"
                                            ELSE verdict[c]]
             /\ UNCHANGED <<saved, queued>>

CNext == \/ \E c \in Calls : Ask(c) \/ Save(c) \/ Queue(c) \/ GiveUp(c) \/ Throws(c)
         \/ Die

CSpec == CInit /\ [][CNext]_cvars
=============================================================================
