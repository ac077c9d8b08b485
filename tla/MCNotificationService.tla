----------------------- MODULE MCNotificationService -----------------------
(***************************************************************************)
(* Small instances of NotificationService for TLC.                         *)
(***************************************************************************)
EXTENDS NotificationService, TLC

CONSTANTS c1, c2, n1, n2, ana, welcome

\* Two sources: one asks for a variable, one for nothing.
MCTexts == {"Hi {{name}}", "Hello"}
MCNeeds == ("Hi {{name}}" :> {"name"}) @@ ("Hello" :> {})

Doc(ch, body, subject, isActive) ==
  [channel |-> ch, bodyTemplate |-> body, subject |-> subject, isActive |-> isActive]

\* Two active versions that differ in channel and text, and an inactive one.
MCTemplateDocs == {Doc("email", "Hi {{name}}", "Hello", TRUE),
                   Doc("sms", "Hello", None, TRUE),
                   Doc("sms", "Hi {{name}}", None, FALSE)}

\* The first of them alone, for the liveness runs.
MCOneTemplateDoc == {Doc("email", "Hi {{name}}", "Hello", TRUE)}

Pref(email, push, sms) ==
  [ch \in Channels |-> CASE ch = "email" -> email [] ch = "push" -> push [] ch = "sms" -> sms]

MCOnePreferenceDoc == {Pref(FALSE, TRUE, TRUE)}
MCPreferenceDocs == {Pref(TRUE, TRUE, FALSE), Pref(FALSE, FALSE, TRUE)}

Req(ch, variables) == [customer_id |-> ana, template_name |-> welcome,
                       channel |-> ch, variables |-> variables]

Named(v) == [x \in {"name"} |-> v]
Bare     == [x \in {} |-> "Ann"]

\* The template's own channel, a channel that overrides it, and one that only
\* the enum refuses; with the variable and without it.
MCRequests    == {Req(None, Named("Ann")), Req("push", Bare), Req("deadLetter", Named("Ann"))}
MCFewRequests == {Req(None, Named("Ann")), Req("deadLetter", Bare)}

Symmetry == Permutations({c1, c2}) \cup Permutations({n1, n2})
=============================================================================
