----------------------------- MODULE Workspace -----------------------------
(* One workspace of the account service: its plan, members and invitations,   *)
(* the subscription at the payment provider and the provider's events.  A      *)
(* request checks first and writes in a later statement or transaction, and    *)
(* the requests of several users overlap.                                      *)
EXTENDS Naturals, FiniteSets

CONSTANTS
  Users, Owner,
  Slots,          \* requests under way at the same time
  Codes,          \* invitation codes, numbers given out in order
  Subscriptions,  \* checkouts, numbered in the order they start
  FirstPlan,
  MaxDays, MaxFailures,
  None

Plans == {"personal", "pro_trial", "pro", "enterprise"}
Assignable == {"admin", "editor", "reader"}
Roles == Assignable \cup {"owner", "none"}
Invitation == [to : Users, role : Assignable, status : {"pending", "accepted", "deleted"}]
Request ==
  [op : {"invite"}, to : Users, role : Assignable, found : Codes \cup {None}]
    \cup [op : {"cancel"}, code : Codes]
    \cup [op : {"role"}, user : Users, role : Assignable] \cup [op : {"remove"}, user : Users]
    \cup [op : {"trial", "endTrial"}] \cup [op : {"seats"}, event : Subscriptions \cup {None}]
    \cup [op : {"quantity"}, event : Subscriptions \cup {None}, sub : Subscriptions \cup {None},
          count : 0..Cardinality(Users)]

ASSUME WorkspaceAssumption ==
  /\ Owner \in Users /\ FirstPlan \in Plans \ {"pro"}
  /\ Codes \subseteq Nat /\ Subscriptions \subseteq Nat
  /\ IsFiniteSet(Users) /\ {MaxDays, MaxFailures} \subseteq Nat
  /\ None \notin Invitation \cup Request \cup Codes \cup Subscriptions

VARIABLES
  plan, trial,      \* the plan, and the days the current trial has lasted
  roles,            \* per user the role, "none" of those who are not members
  invitations,      \* per code None, or who is invited, the role and the status
  subscription,     \* stripe_subscription_id
  requests,         \* per slot None, or a request that has passed its checks
  paid,             \* per subscription its state and quantity at the provider
  events,           \* webhook events the provider still delivers
  failures,
  overlapped        \* history: whether two requests were ever under way at once

account == <<plan, trial, roles, invitations, subscription>>
vars == <<account, requests, paid, events, failures, overlapped>>

---------------------------------------------------------------------------
canManageTeam(u) == roles[u] \in {"owner", "admin"}
\* Every team entitlement belongs to the Pro and the Enterprise family.
requireTeamEntitlement == plan \in Plans \ {"personal"}
Members == {u \in Users : roles[u] # "none"}
BillingState == [personal |-> "none", pro_trial |-> "trial", pro |-> "paid", enterprise |-> "sales"][plan]
Pending(c) == invitations[c] # None /\ invitations[c].status = "pending"
PendingFor(u) == {c \in Codes : Pending(c) /\ invitations[c].to = u}
Fresh(set, used) == {n \in set : n \notin used /\ \A k \in set : k < n => k \in used}
FreshCodes == Fresh(Codes, {c \in Codes : invitations[c] # None})
\* Deleted rows free no code: a cancelled invitation keeps its place, without a status.
Erased(invites, gone) ==
  [c \in Codes |-> IF c \in gone THEN [invites[c] EXCEPT !.status = "deleted"] ELSE invites[c]]
WithoutPending == Erased(invitations, {c \in Codes : Pending(c)})

Idle(j) == requests[j] = None
Is(j, op) == ~Idle(j) /\ requests[j].op = op
Enter(j, request) == requests' = [requests EXCEPT ![j] = request]
Done(j) == Enter(j, None)
Seats(event) == [op |-> "seats", event |-> event]

---------------------------------------------------------------------------
Init ==
  /\ plan = FirstPlan /\ trial = 0 /\ subscription = None
  /\ roles = [u \in Users |-> IF u = Owner THEN "owner" ELSE "none"]
  /\ invitations = [c \in Codes |-> None]
  /\ requests = [j \in Slots |-> None]
  /\ paid = [s \in Subscriptions |-> [state |-> "none", quantity |-> 0]]
  /\ events = {} /\ failures = 0 /\ overlapped = FALSE

provider == <<paid, events, failures>>

(* InviteMember: the checks and the look for a pending invitation, then an    *)
(* insert or an update of its role.                                           *)
InviteMember(j, u, to, role) ==
  /\ Idle(j) /\ canManageTeam(u) /\ requireTeamEntitlement /\ roles[to] = "none"
  /\ \E found \in IF PendingFor(to) = {} THEN {None} ELSE PendingFor(to) :
       Enter(j, [op |-> "invite", to |-> to, role |-> role, found |-> found])
  /\ UNCHANGED <<account, provider>>

InviteWritten(j) ==
  /\ Is(j, "invite") /\ Done(j)
  /\ LET r == requests[j] IN
     IF r.found = None
     THEN \E c \in FreshCodes :
            invitations' = [invitations EXCEPT ![c] = [to |-> r.to, role |-> r.role, status |-> "pending"]]
     ELSE invitations' = [invitations EXCEPT ![r.found].role = r.role]
  /\ UNCHANGED <<plan, trial, roles, subscription, provider>>

CancelInvitation(j, u, c) ==
  /\ Idle(j) /\ canManageTeam(u) /\ requireTeamEntitlement /\ invitations[c] # None
  /\ Enter(j, [op |-> "cancel", code |-> c])
  /\ UNCHANGED <<account, provider>>

CancelWritten(j) ==
  /\ Is(j, "cancel") /\ Done(j)
  /\ invitations' = IF Pending(requests[j].code) THEN Erased(invitations, {requests[j].code}) ELSE invitations
  /\ UNCHANGED <<plan, trial, roles, subscription, provider>>

\* Fault: the owner's own row may be changed.
MayChangeAny(u, target) == roles[u] = "owner" /\ roles[target] # "none"

\* Only the owner changes and removes members, and never an owner.
MayChange(u, target) == roles[u] = "owner" /\ roles[target] \in Assignable

UpdateMemberRole(j, u, target, role) ==
  /\ Idle(j) /\ requireTeamEntitlement /\ MayChange(u, target)
  /\ Enter(j, [op |-> "role", user |-> target, role |-> role])
  /\ UNCHANGED <<account, provider>>

RoleWritten(j) ==
  /\ Is(j, "role") /\ Done(j)
  /\ LET r == requests[j] IN
     roles' = IF roles[r.user] = "none" THEN roles ELSE [roles EXCEPT ![r.user] = r.role]
  /\ UNCHANGED <<plan, trial, invitations, subscription, provider>>

RemoveMember(j, u, target) ==
  /\ Idle(j) /\ requireTeamEntitlement /\ MayChange(u, target)
  /\ Enter(j, [op |-> "remove", user |-> target])
  /\ UNCHANGED <<account, provider>>

\* Fault: a removal leaves the seats alone.
NoSync == None
AfterRemoval == Seats(None)

\* The handler goes on to synchronise the seats; without a row it has ended.
MemberRemoved(j) ==
  /\ Is(j, "remove")
  /\ IF roles[requests[j].user] = "none" THEN Done(j) ELSE Enter(j, AfterRemoval)
  /\ roles' = [roles EXCEPT ![requests[j].user] = "none"]
  /\ UNCHANGED <<plan, trial, invitations, subscription, provider>>

\* Fault: everybody joins as an editor.
JoinsAsEditor(u, c) == IF roles[u] = "none" THEN "editor" ELSE roles[u]

\* The upsert leaves the role of a row that exists.
JoinRole(u, c) == IF roles[u] = "none" THEN invitations[c].role ELSE roles[u]

(* AcceptInvitation is one transaction: a pending invitation needs a plan     *)
(* with invitations, an accepted one is accepted again, and a member keeps    *)
(* the role.                                                                  *)
AcceptInvitation(j, u, c) ==
  /\ Idle(j) /\ invitations[c] # None /\ invitations[c].to = u
  /\ \/ Pending(c) /\ requireTeamEntitlement
     \/ invitations[c].status = "accepted"
  /\ roles' = [roles EXCEPT ![u] = JoinRole(u, c)]
  /\ invitations' = [invitations EXCEPT ![c].status = "accepted"]
  /\ Enter(j, Seats(None))
  /\ UNCHANGED <<plan, trial, subscription, provider>>

---------------------------------------------------------------------------
(* Trials *)

BeginProTrial(j, u) ==
  /\ Idle(j) /\ canManageTeam(u) /\ BillingState = "none"
  /\ Enter(j, [op |-> "trial"])
  /\ UNCHANGED <<account, provider>>

TrialWritten(j) ==
  /\ Is(j, "trial") /\ Done(j) /\ plan' = "pro_trial" /\ trial' = 0
  /\ UNCHANGED <<roles, invitations, subscription, provider>>

EndProTrial(j, u) ==
  /\ Idle(j) /\ canManageTeam(u) /\ BillingState = "trial"
  /\ Enter(j, [op |-> "endTrial"])
  /\ UNCHANGED <<account, provider>>

Downgraded ==
  /\ plan' = "personal" /\ trial' = 0 /\ subscription' = None /\ invitations' = WithoutPending

TrialEnded(j) ==
  /\ Is(j, "endTrial") /\ Done(j) /\ Downgraded
  /\ UNCHANGED <<roles, provider>>

\* A day passes: no statement of the service reads trial_ends_at.
Day ==
  /\ plan = "pro_trial" /\ trial < MaxDays /\ trial' = trial + 1
  /\ UNCHANGED <<plan, roles, invitations, subscription, requests, provider>>

---------------------------------------------------------------------------
(* Checkout, and the provider *)

Checkout(u) ==
  /\ canManageTeam(u) /\ BillingState \in {"none", "trial"}
  /\ \E s \in Fresh(Subscriptions, {t \in Subscriptions : paid[t].state # "none"}) :
       paid' = [paid EXCEPT ![s] = [state |-> "open", quantity |-> Cardinality(Members)]]
  /\ UNCHANGED <<account, requests, events, failures>>

Pays(s) ==
  /\ paid[s].state = "open" /\ paid' = [paid EXCEPT ![s].state = "active"]
  /\ events' = events \cup {[kind |-> "completed", sub |-> s]}
  /\ UNCHANGED <<account, requests, failures>>

Unsubscribes(s) ==
  /\ paid[s].state = "active" /\ paid' = [paid EXCEPT ![s].state = "ended"]
  /\ events' = events \cup {[kind |-> "deleted", sub |-> s]}
  /\ UNCHANGED <<account, requests, failures>>

\* checkout.session.completed: the plan first, then the seats; the event stays until both went well.
ActivateProFromStripe(j, s) ==
  /\ Idle(j) /\ [kind |-> "completed", sub |-> s] \in events
  /\ plan' = "pro" /\ trial' = 0 /\ subscription' = s
  /\ Enter(j, Seats(s))
  /\ UNCHANGED <<roles, invitations, provider>>

\* customer.subscription.deleted: an unknown subscription is logged, and the event acknowledged.
SubscriptionDeleted(s) ==
  /\ [kind |-> "deleted", sub |-> s] \in events
  /\ events' = events \ {[kind |-> "deleted", sub |-> s]}
  /\ IF subscription = s THEN Downgraded ELSE UNCHANGED <<plan, trial, subscription, invitations>>
  /\ UNCHANGED <<roles, requests, paid, failures>>

Acknowledge(j) ==
  events' = IF requests[j].event = None THEN events
            ELSE events \ {[kind |-> "completed", sub |-> requests[j].event]}

(* syncStripeWorkspaceSeatCount: the members are counted, then the quantity   *)
(* is written at the provider.                                                *)
SeatsCounted(j) ==
  /\ Is(j, "seats")
  /\ IF BillingState # "paid" THEN Done(j) /\ Acknowledge(j)
     ELSE /\ Enter(j, [op |-> "quantity", event |-> requests[j].event, sub |-> subscription,
                       count |-> Cardinality(Members)])
          /\ UNCHANGED events
  /\ UNCHANGED <<account, paid, failures>>

\* A quantity that is right already is not written; an ended subscription takes no other.
QuantityWritten(j) ==
  /\ Is(j, "quantity") /\ Done(j)
  /\ LET r == requests[j] IN
     IF r.sub # None /\ (paid[r.sub].quantity = r.count \/ paid[r.sub].state = "active")
     THEN paid' = [paid EXCEPT ![r.sub].quantity = r.count] /\ Acknowledge(j)
     ELSE UNCHANGED <<paid, events>>
  /\ UNCHANGED <<account, failures>>

\* The provider cannot be reached: logged after a join or a removal, and the
\* event of a checkout is delivered again.
SyncFails(j) ==
  /\ failures < MaxFailures /\ failures' = failures + 1
  /\ Is(j, "quantity") /\ Done(j)
  /\ UNCHANGED <<account, paid, events>>

Begins(j) ==
  \/ \E u, to \in Users, role \in Assignable : InviteMember(j, u, to, role) \/ UpdateMemberRole(j, u, to, role)
  \/ \E u \in Users, c \in Codes : CancelInvitation(j, u, c) \/ AcceptInvitation(j, u, c)
  \/ \E u, target \in Users : RemoveMember(j, u, target)
  \/ \E u \in Users : BeginProTrial(j, u) \/ EndProTrial(j, u)
  \/ \E s \in Subscriptions : ActivateProFromStripe(j, s)

Ends(j) ==
  \/ InviteWritten(j) \/ CancelWritten(j) \/ RoleWritten(j) \/ MemberRemoved(j)
  \/ TrialWritten(j) \/ TrialEnded(j) \/ SeatsCounted(j) \/ QuantityWritten(j)

Overlapping == \E i, j \in Slots : i # j /\ ~Idle(i) /\ ~Idle(j)

Moves ==
  \/ \E j \in Slots : Begins(j) \/ Ends(j) \/ SyncFails(j)
  \/ \E u \in Users : Checkout(u)
  \/ \E s \in Subscriptions : Pays(s) \/ Unsubscribes(s) \/ SubscriptionDeleted(s)
  \/ Day

Next == Moves /\ overlapped' = (overlapped \/ Overlapping')

Spec == Init /\ [][Next]_vars

---------------------------------------------------------------------------
(* A workspace has a known plan, members known roles, invitations and         *)
(* subscriptions a known status.                                              *)
TypeOK ==
  /\ plan \in Plans /\ trial \in 0..MaxDays /\ roles \in [Users -> Roles]
  /\ subscription \in Subscriptions \cup {None}
  /\ invitations \in [Codes -> Invitation \cup {None}]
  /\ paid \in [Subscriptions -> [state : {"none", "open", "active", "ended"}, quantity : 0..Cardinality(Users)]]
  /\ events \subseteq [kind : {"completed", "deleted"}, sub : Subscriptions]
  /\ requests \in [Slots -> Request \cup {None}]

(* However role changes, removals, invitations and joins overlap, the         *)
(* workspace keeps its owner and gets no second one: every check reads a role *)
(* that may have changed when the write comes (service_01.go:162-306).        *)
OneOwner == {u \in Users : roles[u] = "owner"} = {Owner}

(* Nobody becomes a member but by an invitation that was written for them,    *)
(* and then with the role the invitation has when it is accepted.             *)
JoinsByInvitation ==
  [][\A u \in Users : roles[u] = "none" /\ roles'[u] # "none" =>
       \E c \in Codes : /\ invitations'[c] # None /\ invitations'[c].to = u
                        /\ invitations'[c].status = "accepted" /\ invitations'[c].role = roles'[u]]_vars

AllIdle == \A j \in Slots : Idle(j)
Billed == BillingState = "paid" /\ paid[subscription].state = "active"

(* docs/test-catalog.md:626-627, "Accept Invitation Syncs Paid Subscription   *)
(* Seat Count" and "Remove Member Syncs ...": as long as requests come one    *)
(* after the other and the provider is reached, it bills one seat for each    *)
(* member whenever all of them and all events have been handled.              *)
SeatsInTurn ==
  TypeOK /\ (~overlapped /\ failures = 0 /\ AllIdle /\ events = {} /\ Billed =>
               paid[subscription].quantity = Cardinality(Members))
=============================================================================
