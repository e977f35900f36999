------------------------------ MODULE TeamPage ------------------------------
(* The team settings page of one browser tab (TeamSettingsRoute): the settings *)
(* it has loaded, the forms, and the calls it has under way.  The service      *)
(* answers as Workspace models it; here it is the settings it would return.    *)
EXTENDS Naturals, FiniteSets

CONSTANTS
  Mates,          \* the members at the start, without the owner and the user of the tab
  Emails,         \* addresses to invite
  Assignable,     \* the roles a member can be given
  MaxFailures, MaxSubmissions, MaxCalls,   \* bounds: lost calls, submissions, calls at a time
  None

Plans == {"personal", "pro_trial", "pro", "enterprise"}

VARIABLES
  server,      \* what GetTeamSettings would return
  settings,    \* what the page has of it, or None
  loading,
  form,        \* the name typed, the addresses and the role of the invitation form
  invite,      \* None, or the submission under way: addresses left, its number
  calls,       \* the other calls under way
  removing, canceling, billing,   \* the busy flags of the page
  sent,        \* per address, the submission and role it was last invited with
  stale,       \* whether calls overlapped, a load failed or a submission stopped half-way
  submissions, failures

vars == <<server, settings, loading, form, invite, calls, removing, canceling, billing, sent, stale, submissions, failures>>
busyFlags == <<removing, canceling, billing>>
counts == <<submissions, failures>>
history == <<sent, stale>>

---------------------------------------------------------------------------
(* What the page offers *)

canManage == settings # None /\ settings.mine \in {"owner", "admin"}
hasEntitlement(plan) == plan # "personal"
canManageTeamProfile == canManage /\ hasEntitlement(settings.plan)
canManageRoles == settings # None /\ settings.mine = "owner" /\ hasEntitlement(settings.plan)
Calls(op) == {c \in calls : c.op = op}
saveTeamLoading == Calls("save") # {}
roleSaving(m) == \E c \in Calls("role") : c.who = m

\* While settings are loaded the page shows a card in place of all its forms.
Ready == ~loading /\ settings # None
OffersSave == Ready /\ canManageTeamProfile /\ ~saveTeamLoading
\* Fault: the role of the form stays open while its invitations are sent.
OffersInviteFormAlways == Ready /\ canManageTeamProfile
OffersInviteForm == Ready /\ canManageTeamProfile /\ invite = None
OffersRole(m) == Ready /\ canManageRoles /\ settings.roles[m] \in Assignable /\ ~roleSaving(m)
OffersRemove(m) == Ready /\ canManageRoles /\ settings.roles[m] \in Assignable /\ removing # m
OffersCancel(e) == Ready /\ canManageTeamProfile /\ settings.invitations[e] # "none" /\ canceling # e
OffersBilling == Ready /\ canManage /\ ~billing
OffersCheckout(plan) ==
  /\ OffersBilling
  /\ CASE plan = "pro_trial"  -> settings.plan = "personal"
       [] plan = "pro"        -> settings.plan \in {"personal", "pro_trial"}
       [] plan = "enterprise" -> settings.plan # "enterprise"
OffersEndTrial == OffersBilling /\ settings.plan = "pro_trial"
OffersPortal == OffersBilling /\ settings.plan = "pro"

\* A call under way: what it does, to whom, with what value, and the answer on its way.
Call(op, who, value) == [op |-> op, who |-> who, value |-> value, at |-> "sent", doc |-> None]
Load(awaitedBy) == Call("load", None, awaitedBy)

\* A load whose answer was read before a later change is late.
Overtaken(cs) == {IF c.op = "load" /\ c.at = "done" THEN [c EXCEPT !.at = "late"] ELSE c : c \in cs}

---------------------------------------------------------------------------
Init ==
  /\ \E plan \in Plans, mine \in {"owner", "admin", "reader"} :
       server = [name |-> "old", plan |-> plan, mine |-> mine, roles |-> [m \in Mates |-> "editor"],
                 invitations |-> [e \in Emails |-> "none"]]
  /\ settings = None /\ loading = TRUE
  /\ form = [name |-> "old", emails |-> {}, role |-> "editor"]
  /\ invite = None /\ calls = {Load("page")}
  /\ removing = None /\ canceling = None /\ billing = FALSE
  /\ sent = [e \in Emails |-> None] /\ stale = FALSE /\ submissions = 0 /\ failures = 0

page == <<settings, loading, form>>

Types(name, emails) ==
  /\ Ready /\ form' = [form EXCEPT !.name = name, !.emails = IF OffersInviteForm THEN emails ELSE @]
  /\ form' # form
  /\ UNCHANGED <<server, settings, loading, invite, calls, busyFlags, history, counts>>

setInviteRole(r) ==
  /\ OffersInviteForm /\ r # form.role /\ form' = [form EXCEPT !.role = r]
  /\ UNCHANGED <<server, settings, loading, invite, calls, busyFlags, history, counts>>

---------------------------------------------------------------------------
(* loadSettings replaces the settings and the name that is being typed. *)

ServeLoad(c) ==
  /\ c \in calls /\ c.op = "load" /\ c.at = "sent"
  /\ LET overtaken == (\E d \in calls \ {c} : d.at = "sent") \/ (invite # None /\ invite.left # {})
     IN calls' = (calls \ {c}) \cup {[c EXCEPT !.at = IF overtaken THEN "late" ELSE "done", !.doc = server]}
  /\ UNCHANGED <<server, page, invite, busyFlags, history, counts>>

\* The submission, or the end of the trial, that awaited the load ends with it.
LoadEnds(c) ==
  /\ calls' = calls \ {c} /\ loading' = FALSE
  /\ invite' = IF c.value = "invite" THEN None ELSE invite
  /\ billing' = (billing /\ c.value # "billing")

Loaded(c) ==
  /\ c \in calls /\ c.op = "load" /\ c.at # "sent" /\ LoadEnds(c)
  /\ settings' = c.doc /\ form' = [form EXCEPT !.name = c.doc.name]
  /\ stale' = (stale /\ (calls # {c} \/ c.at = "late"))
  /\ UNCHANGED <<server, removing, canceling, sent, counts>>

LoadFails(c) ==
  /\ failures < MaxFailures /\ failures' = failures + 1
  /\ c \in calls /\ c.op = "load" /\ LoadEnds(c) /\ stale' = TRUE
  /\ UNCHANGED <<server, settings, form, removing, canceling, sent, submissions>>

---------------------------------------------------------------------------
(* inviteMembers: one call for each address, in turn, each with the role the  *)
(* form has at that moment; then the settings are loaded.                     *)

inviteMembers ==
  /\ OffersInviteForm /\ form.emails # {} /\ submissions < MaxSubmissions
  /\ submissions' = submissions + 1
  /\ invite' = [left |-> form.emails, all |-> form.emails]
  /\ stale' = (stale \/ calls # {})
  /\ UNCHANGED <<server, page, calls, busyFlags, sent, failures>>

Invited(e) ==
  /\ invite # None /\ e \in invite.left /\ hasEntitlement(server.plan)
  /\ server' = [server EXCEPT !.invitations[e] = form.role]
  /\ sent' = [sent EXCEPT ![e] = [number |-> submissions, role |-> form.role]]
  /\ LET left == invite.left \ {e} IN
     IF left # {} THEN invite' = [invite EXCEPT !.left = left] /\ calls' = Overtaken(calls) /\ UNCHANGED <<form, loading>>
     ELSE /\ invite' = [invite EXCEPT !.left = {}] /\ form' = [form EXCEPT !.emails = {}]
          /\ calls' = Overtaken(calls) \cup {Load("invite")} /\ loading' = TRUE
  /\ UNCHANGED <<settings, busyFlags, stale, counts>>

\* The service refuses on Free; otherwise the call is lost on its way.
InviteFails ==
  /\ invite # None /\ invite.left # {}
  /\ \/ ~hasEntitlement(server.plan) /\ UNCHANGED failures
     \/ failures < MaxFailures /\ failures' = failures + 1
  /\ invite' = None /\ stale' = (stale \/ invite.left # invite.all)
  /\ UNCHANGED <<server, page, calls, busyFlags, sent, submissions>>

---------------------------------------------------------------------------
(* The other handlers: a call, and what its answer does to the settings. *)

Sends(c) ==
  /\ Cardinality(calls) < MaxCalls
  /\ calls' = calls \cup {c} /\ stale' = (stale \/ calls # {} \/ invite # None)
  /\ UNCHANGED <<server, page, invite, sent, counts>>

saveTeamName ==
  /\ OffersSave /\ Sends(Call("save", None, form.name)) /\ UNCHANGED busyFlags
changeRole(m, r) ==
  /\ OffersRole(m) /\ r # settings.roles[m]
  /\ Sends(Call("role", m, r)) /\ UNCHANGED busyFlags
removeMember(m) ==
  /\ OffersRemove(m) /\ removing' = m
  /\ Sends(Call("remove", m, "none")) /\ UNCHANGED <<canceling, billing>>
cancelInvitation(e) ==
  /\ OffersCancel(e) /\ canceling' = e
  /\ Sends(Call("cancel", e, "none")) /\ UNCHANGED <<removing, billing>>
startBilling(plan) ==
  /\ OffersCheckout(plan) /\ billing' = TRUE /\ Sends(Call("checkout", None, plan)) /\ UNCHANGED <<removing, canceling>>
openBillingPortal ==
  /\ OffersPortal /\ billing' = TRUE /\ Sends(Call("checkout", None, "portal")) /\ UNCHANGED <<removing, canceling>>
endTrial ==
  /\ OffersEndTrial /\ billing' = TRUE /\ Sends(Call("endTrial", None, "personal")) /\ UNCHANGED <<removing, canceling>>

NoInvitations == [e \in Emails |-> "none"]

\* What the service does, or "refused".
Applied(c) ==
  CASE c.op = "save"    /\ hasEntitlement(server.plan) -> [server EXCEPT !.name = c.value]
    [] c.op = "role"    /\ hasEntitlement(server.plan) /\ server.roles[c.who] # "none" -> [server EXCEPT !.roles[c.who] = c.value]
    [] c.op = "remove"  /\ hasEntitlement(server.plan) /\ server.roles[c.who] # "none" -> [server EXCEPT !.roles[c.who] = "none"]
    [] c.op = "cancel"  /\ hasEntitlement(server.plan) /\ server.invitations[c.who] # "none" -> [server EXCEPT !.invitations[c.who] = "none"]
    [] c.op = "checkout" /\ c.value # "pro_trial" -> server
    [] c.op = "checkout" /\ server.plan = "personal" -> [server EXCEPT !.plan = "pro_trial"]
    [] c.op = "endTrial" /\ server.plan = "pro_trial" -> [server EXCEPT !.plan = "personal", !.invitations = NoInvitations]
    [] OTHER -> None

Serve(c) ==
  /\ c \in calls /\ c.op # "load" /\ c.at = "sent"
  /\ server' = IF Applied(c) = None THEN server ELSE Applied(c)
  /\ calls' = Overtaken(calls \ {c}) \cup
       {[c EXCEPT !.at = IF Applied(c) = None THEN "refused" ELSE "done", !.doc = Applied(c)]}
  /\ UNCHANGED <<page, invite, busyFlags, history, counts>>

CallLost(c) ==
  /\ failures < MaxFailures /\ failures' = failures + 1
  /\ c \in calls /\ c.op # "load" /\ c.at = "sent"
  /\ calls' = (calls \ {c}) \cup {[c EXCEPT !.at = "refused"]}
  /\ UNCHANGED <<server, page, invite, busyFlags, history, submissions>>

\* Each answer replaces its part of the settings: the team as a whole, or one row.
TeamSaved(team) == [settings EXCEPT !.name = team.name, !.plan = team.plan]
RoleSaved(m, r) == IF settings.roles[m] = "none" THEN settings ELSE [settings EXCEPT !.roles[m] = r]
\* Fault: a removal leaves the member in the list.
MemberRemovedNot(m) == settings
MemberRemoved(m) == [settings EXCEPT !.roles[m] = "none"]
InvitationCancelled(e) == [settings EXCEPT !.invitations[e] = "none"]

Merged(c) ==
  CASE c.op \in {"save", "checkout"} -> TeamSaved(c.doc)
    [] c.op = "role"   -> RoleSaved(c.who, c.value)
    [] c.op = "remove" -> MemberRemoved(c.who)
    [] c.op = "cancel" -> InvitationCancelled(c.who)
    [] OTHER -> settings

Leaves(c) == c.op = "checkout" /\ c.value # "pro_trial" /\ c.at = "done"

Answered(c) ==
  /\ c \in calls /\ c.op # "load" /\ c.at \in {"done", "refused"} /\ ~Leaves(c)
  /\ settings' = IF c.at = "done" THEN Merged(c) ELSE settings
  /\ form' = IF c.op = "save" /\ c.at = "done" THEN [form EXCEPT !.name = c.doc.name] ELSE form
  /\ IF c.op = "endTrial" /\ c.at = "done"
     THEN calls' = (calls \ {c}) \cup {Load("billing")} /\ loading' = TRUE /\ UNCHANGED billing
     ELSE /\ calls' = calls \ {c} /\ UNCHANGED loading
          /\ billing' = IF c.op \in {"checkout", "endTrial"} THEN FALSE ELSE billing
  /\ removing' = IF c.op = "remove" THEN None ELSE removing
  /\ canceling' = IF c.op = "cancel" THEN None ELSE canceling
  /\ UNCHANGED <<server, invite, history, counts>>

\* The answer is the address of another page, and the browser goes there.
LeavesPage(c) ==
  /\ c \in calls /\ c.at = "done" /\ Leaves(c)
  /\ settings' = None /\ loading' = FALSE /\ calls' = {} /\ invite' = None
  /\ removing' = None /\ canceling' = None /\ billing' = FALSE
  /\ UNCHANGED <<server, form, history, counts>>

Next ==
  \/ \E name \in {"old", "new"}, emails \in SUBSET Emails : Types(name, emails)
  \/ \E r \in Assignable : setInviteRole(r)
  \/ inviteMembers \/ InviteFails \/ saveTeamName \/ endTrial \/ openBillingPortal
  \/ \E plan \in {"pro_trial", "pro", "enterprise"} : startBilling(plan)
  \/ \E e \in Emails : Invited(e) \/ cancelInvitation(e)
  \/ \E m \in Mates : removeMember(m) \/ \E r \in Assignable : changeRole(m, r)
  \/ \E c \in calls : ServeLoad(c) \/ Loaded(c) \/ LoadFails(c) \/ Serve(c) \/ CallLost(c) \/ Answered(c) \/ LeavesPage(c)

Spec == Init /\ [][Next]_vars

---------------------------------------------------------------------------
(* The page has loaded or loads, what it shows has the form of settings, and  *)
(* a submission has addresses left or waits for its load.                     *)
TypeOK ==
  /\ server.plan \in Plans /\ server.roles \in [Mates -> Assignable \cup {"none"}]
  /\ settings # None => settings.plan \in Plans /\ settings.roles \in [Mates -> Assignable \cup {"none"}]
  /\ form.role \in Assignable /\ form.emails \subseteq Emails
  /\ removing \in Mates \cup {None} /\ canceling \in Emails \cup {None}
  /\ invite # None => invite.left \subseteq invite.all /\ (invite.left = {} => Calls("load") # {})

(* All invitations of one submission carry one role, although each call reads *)
(* the role of the form when it is sent (TeamSettingsRoute.tsx:179): it only  *)
(* holds because the form stays closed until the submission has ended.        *)
OneSubmissionOneRole ==
  \A d, e \in Emails :
    sent[d] # None /\ sent[e] # None /\ sent[d].number = sent[e].number => sent[d].role = sent[e].role

(* When nothing is under way and no calls overlapped, what the page shows is  *)
(* what the service has: every answer, refused call and lost call leaves the  *)
(* list of members, the invitations, the name and the plan as they are there. *)
ShowsWhatIsThere ==
  /\ TypeOK
  /\ calls = {} /\ invite = None /\ ~stale /\ settings # None => settings = server
=============================================================================
