-------------------------- MODULE WorkspaceProofs --------------------------
(***************************************************************************)
(* Proofs about Workspace, for every number of users, requests and codes:  *)
(* however requests overlap, the owner stays the only one, and whoever     *)
(* joins does so by an invitation and with the role it has.  And about the *)
(* pages on which a workspace and its boards are managed: at rest the team *)
(* page and the boards dialog show what the service has.                   *)
(***************************************************************************)
EXTENDS Workspace, ClientPages, FiniteSetTheorems, TLAPS

\* What a request that has passed its checks still knows when it writes.
Checked(r) ==
  /\ r.op = "invite" => /\ r.to \in Users /\ r.role \in Assignable
                        /\ r.found \in Codes => invitations[r.found] \in Invitation
                        /\ r.found \in Codes \cup {None}
  /\ r.op = "role"   => r.user \in Users \ {Owner} /\ r.role \in Assignable
  /\ r.op = "remove" => r.user \in Users \ {Owner}

Ownership == roles \in [Users -> Roles] /\ \A u \in Users : roles[u] = "owner" <=> u = Owner
Invited == invitations \in [Codes -> Invitation \cup {None}]
Requested ==
  /\ requests = [j \in Slots |-> requests[j]]
  /\ \A j \in Slots : ~Idle(j) => Checked(requests[j])

IInv == Ownership /\ Invited /\ Requested

LEMMA RoleSets == /\ Assignable \subseteq Roles /\ "owner" \notin Assignable /\ "none" \notin Assignable
                  /\ "owner" # "none" /\ "none" \in Roles
BY DEF Assignable, Roles

-----------------------------------------------------------------------------
(* What a step does to each part of the invariant. *)

\* Invitations may be written and changed, but none goes back to None.
Kept == \A c \in Codes : invitations[c] \in Invitation => invitations'[c] \in Invitation

LEMMA OtherRequests ==
  ASSUME IInv, Kept, NEW j \in Slots, NEW r, Enter(j, r), r = None \/ Checked(r)'
  PROVE  Requested'
<1>1. requests' = [i \in Slots |-> requests'[i]]
  BY DEF IInv, Requested, Enter
<1>2. ASSUME NEW i \in Slots, ~Idle(i)'
      PROVE  Checked(requests[i])'
  <2>1. CASE i = j
    <3>1. requests'[i] = r
      BY <2>1 DEF IInv, Requested, Enter
    <3> QED BY <3>1, <1>2 DEF Idle, Checked
  <2>2. CASE i # j
    <3>1. requests'[i] = requests[i]
      BY <2>2 DEF IInv, Requested, Enter
    <3>2. Checked(requests[i])
      BY <3>1, <1>2 DEF IInv, Requested, Idle
    <3> QED BY <3>1, <3>2 DEF Checked, Kept
  <2> QED BY <2>1, <2>2
<1> QED BY <1>1, <1>2 DEF Requested

LEMMA SameRequests ==
  ASSUME IInv, Kept, requests' = requests
  PROVE  Requested'
<1>1. ASSUME NEW j \in Slots, ~Idle(j)'
      PROVE  Checked(requests[j])'
  <2>1. Checked(requests[j])
    BY <1>1 DEF IInv, Requested, Idle
  <2> QED BY <2>1 DEF Checked, Kept
<1> QED BY <1>1 DEF IInv, Requested, Idle

\* An invitation that is written or changed stays one.
LEMMA OneInvitation ==
  ASSUME Invited, NEW c \in Codes, NEW i \in Invitation, invitations' = [invitations EXCEPT ![c] = i]
  PROVE  Invited' /\ Kept
BY DEF Invited, Kept

LEMMA ErasedInvitations ==
  ASSUME Invited, NEW gone, \A c \in gone : Pending(c), invitations' = Erased(invitations, gone)
  PROVE  Invited' /\ Kept
<1>1. ASSUME NEW c \in Codes
      PROVE  invitations'[c] = IF c \in gone THEN [invitations[c] EXCEPT !.status = "deleted"] ELSE invitations[c]
  BY <1>1 DEF Erased
<1>2. ASSUME NEW c \in Codes, c \in gone
      PROVE  invitations'[c] \in Invitation
  <2>1. invitations[c] \in Invitation
    BY <1>2 DEF Invited, Pending
  <2> QED BY <2>1, <1>1, <1>2 DEF Invitation
<1>3. ASSUME NEW c \in Codes
      PROVE  /\ invitations'[c] \in Invitation \cup {None}
             /\ invitations[c] \in Invitation => invitations'[c] \in Invitation
  BY <1>1, <1>2, <1>3 DEF Invited
<1>4. invitations' = [c \in Codes |-> invitations'[c]]
  BY DEF Erased
<1> QED BY <1>3, <1>4 DEF Invited, Kept

LEMMA SameInvitations ==
  ASSUME Invited, invitations' = invitations
  PROVE  Invited' /\ Kept
BY DEF Invited, Kept

\* The role of someone else than the owner changes to one that is assignable, or goes.
LEMMA OneRole ==
  ASSUME Ownership, NEW u \in Users, NEW role \in Assignable \cup {"none"}, u # Owner,
         roles' = [roles EXCEPT ![u] = role]
  PROVE  Ownership'
BY RoleSets DEF Ownership

LEMMA SameRoles ==
  ASSUME Ownership, roles' = roles
  PROVE  Ownership'
BY DEF Ownership

-----------------------------------------------------------------------------
(* Each step preserves the invariant. *)

LEMMA NotOwner ==
  ASSUME Ownership, NEW u \in Users, NEW target \in Users, MayChange(u, target)
  PROVE  target \in Users \ {Owner}
BY RoleSets DEF Ownership, MayChange

LEMMA BeginsKeeps ==
  ASSUME IInv, NEW j \in Slots, Begins(j)
  PROVE  IInv'
<1>0. Ownership /\ Invited
  BY DEF IInv
<1>1. ASSUME NEW u \in Users, NEW to \in Users, NEW role \in Assignable, InviteMember(j, u, to, role)
      PROVE  IInv'
  <2>1. PICK found \in IF PendingFor(to) = {} THEN {None} ELSE PendingFor(to) :
          Enter(j, [op |-> "invite", to |-> to, role |-> role, found |-> found])
    BY <1>1 DEF InviteMember
  <2>2. roles' = roles /\ invitations' = invitations
    BY <1>1 DEF InviteMember, account
  <2>3. found \in Codes \cup {None}
    BY DEF PendingFor
  <2>4. found \in Codes => invitations[found] \in Invitation
    BY <1>0, WorkspaceAssumption DEF PendingFor, Pending, Invited
  <2>5. Checked([op |-> "invite", to |-> to, role |-> role, found |-> found])'
    BY <2>2, <2>3, <2>4 DEF Checked
  <2>6. Requested'
    BY <2>1, <2>2, <2>5, SameInvitations, <1>0, OtherRequests
  <2> QED BY <2>2, <2>6, <1>0, SameInvitations, SameRoles DEF IInv
<1>2. ASSUME NEW u \in Users, NEW to \in Users, NEW role \in Assignable, UpdateMemberRole(j, u, to, role)
      PROVE  IInv'
  <2>1. roles' = roles /\ invitations' = invitations /\ Enter(j, [op |-> "role", user |-> to, role |-> role])
    BY <1>2 DEF UpdateMemberRole, account
  <2>2. to \in Users \ {Owner}
    BY <1>2, <1>0, NotOwner DEF UpdateMemberRole
  <2>3. Checked([op |-> "role", user |-> to, role |-> role])'
    BY <2>2 DEF Checked
  <2>4. Requested'
    BY <2>1, <2>3, SameInvitations, <1>0, OtherRequests
  <2> QED BY <2>1, <2>4, <1>0, SameInvitations, SameRoles DEF IInv
<1>3. ASSUME NEW u \in Users, NEW c \in Codes, CancelInvitation(j, u, c)
      PROVE  IInv'
  <2>1. roles' = roles /\ invitations' = invitations /\ Enter(j, [op |-> "cancel", code |-> c])
    BY <1>3 DEF CancelInvitation, account
  <2>2. Checked([op |-> "cancel", code |-> c])'
    BY DEF Checked
  <2>3. Requested'
    BY <2>1, <2>2, SameInvitations, <1>0, OtherRequests
  <2> QED BY <2>1, <2>3, <1>0, SameInvitations, SameRoles DEF IInv
<1>4. ASSUME NEW u \in Users, NEW c \in Codes, AcceptInvitation(j, u, c)
      PROVE  IInv'
  <2>1. invitations' = [invitations EXCEPT ![c] = [invitations[c] EXCEPT !.status = "accepted"]]
    BY <1>4 DEF AcceptInvitation
  <2>2. invitations[c] \in Invitation
    BY <1>4, <1>0 DEF AcceptInvitation, Invited
  <2>3. [invitations[c] EXCEPT !.status = "accepted"] \in Invitation
    BY <2>2 DEF Invitation
  <2>4. Invited' /\ Kept
    BY <2>1, <2>3, <1>0, OneInvitation
  <2>5. Enter(j, Seats(None)) /\ Checked(Seats(None))'
    BY <1>4 DEF AcceptInvitation, Seats, Checked
  <2>6. Requested'
    BY <2>4, <2>5, OtherRequests
  <2>7. roles' = [roles EXCEPT ![u] = JoinRole(u, c)]
    BY <1>4 DEF AcceptInvitation
  <2>8. Ownership'
    <3>1. CASE roles[u] = "none"
      <4>1. JoinRole(u, c) \in Assignable
        BY <3>1, <2>2 DEF JoinRole, Invitation
      <4>2. u # Owner
        BY <3>1, <1>0, RoleSets DEF Ownership
      <4> QED BY <4>1, <4>2, <2>7, <1>0, OneRole
    <3>2. CASE roles[u] # "none"
      <4>1. JoinRole(u, c) = roles[u]
        BY <3>2 DEF JoinRole
      <4> QED BY <4>1, <2>7, <1>0 DEF Ownership
    <3> QED BY <3>1, <3>2
  <2> QED BY <2>4, <2>6, <2>8 DEF IInv
<1>5. ASSUME NEW u \in Users, NEW target \in Users, RemoveMember(j, u, target)
      PROVE  IInv'
  <2>1. roles' = roles /\ invitations' = invitations /\ Enter(j, [op |-> "remove", user |-> target])
    BY <1>5 DEF RemoveMember, account
  <2>2. target \in Users \ {Owner}
    BY <1>5, <1>0, NotOwner DEF RemoveMember
  <2>3. Checked([op |-> "remove", user |-> target])'
    BY <2>2 DEF Checked
  <2>4. Requested'
    BY <2>1, <2>3, SameInvitations, <1>0, OtherRequests
  <2> QED BY <2>1, <2>4, <1>0, SameInvitations, SameRoles DEF IInv
<1>6. ASSUME NEW u \in Users, BeginProTrial(j, u) \/ EndProTrial(j, u)
      PROVE  IInv'
  <2>1. /\ roles' = roles /\ invitations' = invitations
        /\ Enter(j, [op |-> "trial"]) \/ Enter(j, [op |-> "endTrial"])
    BY <1>6 DEF BeginProTrial, EndProTrial, account
  <2>2. Checked([op |-> "trial"])' /\ Checked([op |-> "endTrial"])'
    BY DEF Checked
  <2>3. Requested'
    BY <2>1, <2>2, SameInvitations, <1>0, OtherRequests
  <2> QED BY <2>1, <2>3, <1>0, SameInvitations, SameRoles DEF IInv
<1>7. ASSUME NEW s \in Subscriptions, ActivateProFromStripe(j, s)
      PROVE  IInv'
  <2>1. roles' = roles /\ invitations' = invitations /\ Enter(j, Seats(s))
    BY <1>7 DEF ActivateProFromStripe
  <2>2. Checked(Seats(s))'
    BY DEF Checked, Seats
  <2>3. Requested'
    BY <2>1, <2>2, SameInvitations, <1>0, OtherRequests
  <2> QED BY <2>1, <2>3, <1>0, SameInvitations, SameRoles DEF IInv
<1> QED BY <1>1, <1>2, <1>3, <1>4, <1>5, <1>6, <1>7 DEF Begins

LEMMA EndsKeeps ==
  ASSUME IInv, NEW j \in Slots, Ends(j) \/ SyncFails(j)
  PROVE  IInv'
<1>0. Ownership /\ Invited
  BY DEF IInv
<1>a. ~Idle(j) => Checked(requests[j])
  BY DEF IInv, Requested
<1>1. CASE InviteWritten(j)
  <2> DEFINE r == requests[j]
  <2>1. /\ r.to \in Users /\ r.role \in Assignable /\ r.found \in Codes \cup {None}
        /\ r.found \in Codes => invitations[r.found] \in Invitation
    BY <1>1, <1>a DEF InviteWritten, Is, Checked
  <2>2. Invited' /\ Kept
    <3>1. CASE r.found = None
      <4>1. PICK c \in FreshCodes :
              invitations' = [invitations EXCEPT ![c] = [to |-> r.to, role |-> r.role, status |-> "pending"]]
        BY <1>1, <3>1 DEF InviteWritten
      <4>2. c \in Codes /\ [to |-> r.to, role |-> r.role, status |-> "pending"] \in Invitation
        BY <2>1 DEF FreshCodes, Fresh, Invitation
      <4> QED BY <4>1, <4>2, <1>0, OneInvitation
    <3>2. CASE r.found # None
      <4>1. invitations' = [invitations EXCEPT ![r.found] = [invitations[r.found] EXCEPT !.role = r.role]]
        BY <1>1, <3>2 DEF InviteWritten
      <4>2. [invitations[r.found] EXCEPT !.role = r.role] \in Invitation
        BY <2>1, <3>2 DEF Invitation
      <4> QED BY <4>1, <4>2, <2>1, <3>2, <1>0, OneInvitation
    <3> QED BY <3>1, <3>2
  <2>3. Enter(j, None) /\ roles' = roles
    BY <1>1 DEF InviteWritten, Done
  <2> QED BY <2>2, <2>3, <1>0, OtherRequests, SameRoles DEF IInv
<1>2. CASE CancelWritten(j)
  <2>1. Enter(j, None) /\ roles' = roles
    BY <1>2 DEF CancelWritten, Done
  <2>2. CASE Pending(requests[j].code)
    <3>1. invitations' = Erased(invitations, {requests[j].code})
      BY <1>2, <2>2 DEF CancelWritten
    <3>2. Invited' /\ Kept
      BY <3>1, <2>2, <1>0, ErasedInvitations
    <3> QED BY <3>2, <2>1, <1>0, OtherRequests, SameRoles DEF IInv
  <2>3. CASE ~Pending(requests[j].code)
    <3>1. invitations' = invitations
      BY <1>2, <2>3 DEF CancelWritten
    <3> QED BY <3>1, <2>1, <1>0, SameInvitations, OtherRequests, SameRoles DEF IInv
  <2> QED BY <2>2, <2>3
<1>3. CASE RoleWritten(j)
  <2>1. Enter(j, None) /\ invitations' = invitations
    BY <1>3 DEF RoleWritten, Done
  <2>2. requests[j].user \in Users \ {Owner} /\ requests[j].role \in Assignable
    BY <1>3, <1>a DEF RoleWritten, Is, Checked
  <2>3. roles' = roles \/ roles' = [roles EXCEPT ![requests[j].user] = requests[j].role]
    BY <1>3 DEF RoleWritten
  <2>4. Ownership'
    BY <2>2, <2>3, <1>0, OneRole, SameRoles
  <2> QED BY <2>1, <2>4, <1>0, SameInvitations, OtherRequests DEF IInv
<1>4. CASE MemberRemoved(j)
  <2>1. /\ invitations' = invitations /\ roles' = [roles EXCEPT ![requests[j].user] = "none"]
        /\ Enter(j, None) \/ Enter(j, AfterRemoval)
    BY <1>4 DEF MemberRemoved, Done
  <2>2. requests[j].user \in Users \ {Owner}
    BY <1>4, <1>a DEF MemberRemoved, Is, Checked
  <2>3. Ownership'
    BY <2>1, <2>2, <1>0, OneRole
  <2>4. Checked(AfterRemoval)'
    BY DEF AfterRemoval, Seats, Checked
  <2>5. Requested'
    BY <2>1, <2>4, <1>0, SameInvitations, OtherRequests
  <2> QED BY <2>1, <2>3, <2>5, <1>0, SameInvitations DEF IInv
<1>5. CASE TrialWritten(j)
  <2>1. Enter(j, None) /\ roles' = roles /\ invitations' = invitations
    BY <1>5 DEF TrialWritten, Done
  <2> QED BY <2>1, <1>0, SameInvitations, OtherRequests, SameRoles DEF IInv
<1>6. CASE TrialEnded(j)
  <2>1. Enter(j, None) /\ roles' = roles /\ invitations' = WithoutPending
    BY <1>6 DEF TrialEnded, Downgraded, Done
  <2>2. Invited' /\ Kept
    BY <2>1, <1>0, ErasedInvitations DEF WithoutPending
  <2> QED BY <2>1, <2>2, <1>0, OtherRequests, SameRoles DEF IInv
<1>7. CASE SeatsCounted(j)
  <2>1. roles' = roles /\ invitations' = invitations
    BY <1>7 DEF SeatsCounted, account
  <2>2. PICK r : Enter(j, r) /\ (r = None \/ r.op = "quantity")
    <3>1. \E n : Enter(j, None) \/ Enter(j, [op |-> "quantity", event |-> requests[j].event,
                                             sub |-> subscription, count |-> n])
      BY <1>7 DEF SeatsCounted, Done
    <3> QED BY <3>1
  <2>3. r = None \/ Checked(r)'
    BY <2>2 DEF Checked
  <2>4. Requested'
    BY <2>1, <2>2, <2>3, <1>0, SameInvitations, OtherRequests
  <2> QED BY <2>1, <2>4, <1>0, SameInvitations, SameRoles DEF IInv
<1>8. CASE QuantityWritten(j) \/ SyncFails(j)
  <2>1. Enter(j, None) /\ roles' = roles /\ invitations' = invitations
    BY <1>8 DEF QuantityWritten, SyncFails, Done, account
  <2> QED BY <2>1, <1>0, SameInvitations, OtherRequests, SameRoles DEF IInv
<1> QED BY <1>1, <1>2, <1>3, <1>4, <1>5, <1>6, <1>7, <1>8 DEF Ends

LEMMA RestKeeps ==
  ASSUME IInv,
         \/ \E u \in Users : Checkout(u)
         \/ \E s \in Subscriptions : Pays(s) \/ Unsubscribes(s) \/ SubscriptionDeleted(s)
         \/ Day
         \/ UNCHANGED vars
  PROVE  IInv'
<1>1. requests' = requests /\ roles' = roles
  BY DEF Checkout, Pays, Unsubscribes, SubscriptionDeleted, Day, vars, account
<1>2. invitations' = invitations \/ invitations' = WithoutPending
  BY DEF Checkout, Pays, Unsubscribes, SubscriptionDeleted, Downgraded, Day, vars, account
<1>3. Invited /\ Ownership
  BY DEF IInv
<1>4. Invited' /\ Kept
  BY <1>2, <1>3, SameInvitations, ErasedInvitations DEF WithoutPending
<1> QED BY <1>1, <1>3, <1>4, SameRequests, SameRoles DEF IInv

LEMMA Inductive ==
  ASSUME IInv, [Next]_vars
  PROVE  IInv'
BY BeginsKeeps, EndsKeeps, RestKeeps DEF Next, Moves

LEMMA Initially ==
  ASSUME Init
  PROVE  IInv
<1>1. Ownership
  BY WorkspaceAssumption DEF Init, Ownership, Roles
<1>2. Invited
  BY DEF Init, Invited
<1>3. Requested
  BY DEF Init, Requested, Idle
<1> QED BY <1>1, <1>2, <1>3 DEF IInv

THEOREM Invariance == Spec => []IInv
<1> QED BY Initially, Inductive, PTL DEF Spec

-----------------------------------------------------------------------------
(* Role changes and removals that were checked before another request wrote   *)
(* (service_01.go:162-306) neither take the ownership nor give it away.       *)
THEOREM OwnerStays == Spec => []OneOwner
<1>1. IInv => OneOwner
  BY WorkspaceAssumption DEF IInv, Ownership, OneOwner
<1> QED BY Invariance, <1>1, PTL

LEMMA JoinStep ==
  ASSUME IInv, [Next]_vars, NEW u \in Users, roles[u] = "none", roles'[u] # "none"
  PROVE  \E c \in Codes : /\ invitations'[c] # None /\ invitations'[c].to = u
                          /\ invitations'[c].status = "accepted" /\ invitations'[c].role = roles'[u]
<1>0. Ownership /\ Invited /\ Requested
  BY DEF IInv
<1>1. ASSUME NEW j \in Slots, NEW w \in Users, NEW c \in Codes, AcceptInvitation(j, w, c)
      PROVE  /\ invitations'[c] # None /\ invitations'[c].to = u
             /\ invitations'[c].status = "accepted" /\ invitations'[c].role = roles'[u]
  <2>1. invitations[c] \in Invitation /\ invitations[c].to = w
    BY <1>1, <1>0 DEF AcceptInvitation, Invited
  <2>2. invitations'[c] = [invitations[c] EXCEPT !.status = "accepted"]
    BY <1>1, <1>0 DEF AcceptInvitation, Invited
  <2>3. w = u /\ roles'[u] = JoinRole(u, c)
    BY <1>1, <1>0 DEF AcceptInvitation, Ownership
  <2>4. /\ invitations'[c] \in Invitation /\ invitations'[c].to = w
        /\ invitations'[c].status = "accepted" /\ invitations'[c].role = invitations[c].role
    BY <2>1, <2>2 DEF Invitation
  <2> QED BY <2>3, <2>4, WorkspaceAssumption DEF JoinRole
<1>2. ASSUME NEW j \in Slots, RoleWritten(j) \/ MemberRemoved(j)
      PROVE  FALSE
  BY <1>2, <1>0 DEF RoleWritten, MemberRemoved, Ownership
<1>3. CASE roles' = roles
  BY <1>3
<1>4. CASE \E j \in Slots, w \in Users, c \in Codes : AcceptInvitation(j, w, c)
  BY <1>1, <1>4
<1>5. \/ roles' = roles
      \/ \E j \in Slots : RoleWritten(j) \/ MemberRemoved(j)
      \/ \E j \in Slots, w \in Users, c \in Codes : AcceptInvitation(j, w, c)
  <2>1. ASSUME NEW j \in Slots, Begins(j)
        PROVE  roles' = roles \/ \E w \in Users, c \in Codes : AcceptInvitation(j, w, c)
    BY <2>1 DEF Begins, InviteMember, UpdateMemberRole, CancelInvitation, RemoveMember, BeginProTrial,
                EndProTrial, ActivateProFromStripe, account
  <2>2. ASSUME NEW j \in Slots, Ends(j) \/ SyncFails(j)
        PROVE  roles' = roles \/ RoleWritten(j) \/ MemberRemoved(j)
    BY <2>2 DEF Ends, InviteWritten, CancelWritten, TrialWritten, TrialEnded, SeatsCounted, QuantityWritten,
                SyncFails, account
  <2>3. ASSUME ~\E j \in Slots : Begins(j) \/ Ends(j) \/ SyncFails(j)
        PROVE  roles' = roles
    BY <2>3 DEF Next, Moves, Checkout, Pays, Unsubscribes, SubscriptionDeleted, Day, vars, account
  <2> QED BY <2>1, <2>2, <2>3
<1> QED BY <1>2, <1>3, <1>4, <1>5

(* Nobody joins but by an accepted invitation of their own, with the role it   *)
(* has when it is accepted, whatever was invited or cancelled meanwhile.       *)
THEOREM JoinedByInvitation == Spec => JoinsByInvitation
<1>1. IInv /\ [Next]_vars =>
        [\A u \in Users : roles[u] = "none" /\ roles'[u] # "none" =>
           \E c \in Codes : /\ invitations'[c] # None /\ invitations'[c].to = u
                            /\ invitations'[c].status = "accepted" /\ invitations'[c].role = roles'[u]]_vars
  BY JoinStep
<1> QED BY Invariance, <1>1, PTL DEF Spec, JoinsByInvitation

-----------------------------------------------------------------------------
(* The books: what the plan, the subscription and the requests say of one      *)
(* another.  A Pro plan names a subscription that has been paid for, and once  *)
(* ended none becomes active again.                                            *)
Bought(s) == paid[s].state \in {"active", "ended"}
Payment == [state : {"none", "open", "active", "ended"}, quantity : 0..Cardinality(Users)]
Event == [kind : {"completed", "deleted"}, sub : Subscriptions]

Books ==
  /\ plan \in Plans /\ trial \in 0..MaxDays
  /\ subscription \in Subscriptions \cup {None}
  /\ paid \in [Subscriptions -> Payment]
  /\ events \subseteq Event
  /\ requests \in [Slots -> Request \cup {None}]
  /\ plan = "pro" => subscription \in Subscriptions
  /\ subscription \in Subscriptions => Bought(subscription)
  /\ \A e \in events : Bought(e.sub)

\* As long as requests come one after the other, a count that is under way is the
\* number of members, and a quantity that is wrong has a request to put it right.
OneAtATime == \A i, j \in Slots : ~Idle(i) /\ ~Idle(j) => i = j
CountsMembers(j) == requests[j].sub = subscription /\ requests[j].count = Cardinality(Members)
Counting == \E j \in Slots : Is(j, "seats") \/ Is(j, "quantity")
Paying == plan = "pro" /\ paid[subscription].state = "active"

InTurn ==
  ~overlapped =>
    /\ OneAtATime
    /\ plan = "pro" => \A j \in Slots : Is(j, "quantity") => CountsMembers(j)
    /\ failures = 0 /\ Paying => paid[subscription].quantity = Cardinality(Members) \/ Counting

LEMMA Headcount ==
  Cardinality(Members) \in 0..Cardinality(Users)
<1>1. IsFiniteSet(Users) /\ Members \subseteq Users
  BY WorkspaceAssumption DEF Members
<1>2. IsFiniteSet(Members) /\ Cardinality(Members) <= Cardinality(Users)
  BY <1>1, FS_Subset
<1>3. Cardinality(Members) \in Nat /\ Cardinality(Users) \in Nat
  BY <1>1, <1>2, FS_CardinalityType
<1> QED BY <1>2, <1>3

LEMMA PaidIsPro ==
  ASSUME plan \in Plans
  PROVE  BillingState = "paid" <=> plan = "pro"
BY DEF Plans, BillingState

LEMMA Turns ==
  ASSUME Next, ~overlapped'
  PROVE  ~overlapped /\ OneAtATime'
BY DEF Next, Overlapping, OneAtATime

\* One request changes: the others are as they were.
LEMMA Entered ==
  ASSUME Books, NEW j \in Slots, NEW r \in Request \cup {None}, Enter(j, r)
  PROVE  /\ requests' \in [Slots -> Request \cup {None}] /\ requests'[j] = r
         /\ \A i \in Slots : i # j => requests'[i] = requests[i]
BY DEF Books, Enter

\* In turn, while a request is under way there is no other.
LEMMA Alone ==
  ASSUME Books, Next, ~overlapped', NEW j \in Slots, NEW r \in Request, Enter(j, r)
  PROVE  \A i \in Slots : i # j => requests'[i] = None /\ requests[i] = None
<1>1. requests'[j] = r /\ \A i \in Slots : i # j => requests'[i] = requests[i]
  BY Entered
<1>2. r # None
  BY WorkspaceAssumption
<1> QED BY <1>1, <1>2, Turns DEF OneAtATime, Idle

Untouched == plan' = plan /\ subscription' = subscription /\ paid' = paid /\ failures' = failures

\* A request that begins, or ends, and concerns neither the members nor what is paid.
LEMMA Unrelated ==
  ASSUME Books, InTurn, Next, Untouched, Members' = Members, NEW j \in Slots,
         NEW r \in Request \cup {None}, Enter(j, r),
         ~Is(j, "seats") /\ ~Is(j, "quantity"), r # None => r.op # "quantity"
  PROVE  InTurn'
<1> SUFFICES ASSUME ~overlapped' PROVE InTurn'
  BY DEF InTurn
<1>1. ~overlapped /\ OneAtATime'
  BY Turns
<1>2. requests'[j] = r /\ \A i \in Slots : i # j => requests'[i] = requests[i]
  BY Entered
<1>3. ASSUME NEW i \in Slots, Is(i, "quantity")', plan' = "pro"
      PROVE  CountsMembers(i)'
  <2>1. i # j
    BY <1>2, <1>3 DEF Is, Idle
  <2>2. Is(i, "quantity") /\ plan = "pro"
    BY <1>2, <1>3, <2>1 DEF Is, Idle, Untouched
  <2>3. CountsMembers(i)
    BY <2>2, <1>1 DEF InTurn
  <2> QED BY <2>1, <2>3, <1>2 DEF CountsMembers, Untouched
<1>4. ASSUME failures' = 0, Paying'
      PROVE  (paid[subscription].quantity = Cardinality(Members) \/ Counting)'
  <2>1. failures = 0 /\ Paying
    BY <1>4 DEF Paying, Untouched
  <2>2. paid[subscription].quantity = Cardinality(Members) \/ Counting
    BY <2>1, <1>1 DEF InTurn
  <2>3. Counting => Counting'
    <3>1. ASSUME NEW i \in Slots, Is(i, "seats") \/ Is(i, "quantity")
          PROVE  Is(i, "seats")' \/ Is(i, "quantity")'
      <4>1. i # j
        BY <3>1
      <4> QED BY <3>1, <4>1, <1>2 DEF Is, Idle
    <3> QED BY <3>1 DEF Counting
  <2> QED BY <2>2, <2>3 DEF Untouched
<1> QED BY <1>1, <1>3, <1>4 DEF InTurn

\* Whatever a request did, it goes on to synchronise the seats.
LEMMA GoesOn ==
  ASSUME Books, Next, NEW j \in Slots, NEW s \in Subscriptions \cup {None}, Enter(j, Seats(s))
  PROVE  InTurn'
<1> SUFFICES ASSUME ~overlapped' PROVE InTurn'
  BY DEF InTurn
<1>1. Seats(s) \in Request /\ Seats(s).op = "seats" /\ Seats(s) # None
  BY WorkspaceAssumption DEF Seats, Request
<1>2. requests'[j] = Seats(s)
  BY <1>1, Entered
<1>3. \A i \in Slots : i # j => requests'[i] = None
  BY <1>1, Alone
<1>4. Counting'
  BY <1>1, <1>2 DEF Counting, Is, Idle
<1>5. ASSUME NEW i \in Slots, Is(i, "quantity")'
      PROVE  FALSE
  BY <1>1, <1>2, <1>3, <1>5 DEF Is, Idle
<1> QED BY <1>4, <1>5, Turns DEF InTurn

\* Off the Pro plan there is nothing to bill.
LEMMA NotPro ==
  ASSUME Next, plan' # "pro"
  PROVE  InTurn'
BY Turns DEF InTurn, Paying

-----------------------------------------------------------------------------
(* The steps of one request. *)

LEMMA BeginsBooked ==
  ASSUME IInv, Books, InTurn, Next, NEW j \in Slots, Begins(j)
  PROVE  Books' /\ InTurn'
<1>1. ASSUME NEW r \in Request, r.op \notin {"seats", "quantity"}, Idle(j), Enter(j, r),
             UNCHANGED <<account, provider>>
      PROVE  Books' /\ InTurn'
  <2>1. Untouched /\ Members' = Members
    BY <1>1 DEF Untouched, Members, account, provider
  <2>2. ~Is(j, "seats") /\ ~Is(j, "quantity")
    BY <1>1 DEF Is
  <2>3. InTurn'
    BY <2>1, <2>2, <1>1, Unrelated
  <2>4. requests' \in [Slots -> Request \cup {None}]
    BY <1>1, Entered
  <2> QED BY <2>3, <2>4, <1>1 DEF Books, Bought, account, provider
<1>2. ASSUME NEW u \in Users, NEW to \in Users, NEW role \in Assignable, InviteMember(j, u, to, role)
      PROVE  Books' /\ InTurn'
  <2>1. PICK found \in IF PendingFor(to) = {} THEN {None} ELSE PendingFor(to) :
          Enter(j, [op |-> "invite", to |-> to, role |-> role, found |-> found])
    BY <1>2 DEF InviteMember
  <2>2. found \in Codes \cup {None}
    BY DEF PendingFor
  <2>3. [op |-> "invite", to |-> to, role |-> role, found |-> found] \in Request
    BY <2>2 DEF Request
  <2> QED BY <2>1, <2>3, <1>1, <1>2 DEF InviteMember
<1>3. ASSUME NEW u \in Users, NEW to \in Users, NEW role \in Assignable, UpdateMemberRole(j, u, to, role)
      PROVE  Books' /\ InTurn'
  <2>1. [op |-> "role", user |-> to, role |-> role] \in Request
    BY DEF Request
  <2> QED BY <2>1, <1>1, <1>3 DEF UpdateMemberRole
<1>4. ASSUME NEW u \in Users, NEW c \in Codes, CancelInvitation(j, u, c)
      PROVE  Books' /\ InTurn'
  <2>1. [op |-> "cancel", code |-> c] \in Request
    BY DEF Request
  <2> QED BY <2>1, <1>1, <1>4 DEF CancelInvitation
<1>5. ASSUME NEW u \in Users, NEW c \in Codes, AcceptInvitation(j, u, c)
      PROVE  Books' /\ InTurn'
  <2>1. Enter(j, Seats(None)) /\ UNCHANGED <<plan, trial, subscription, provider>>
    BY <1>5 DEF AcceptInvitation
  <2>2. InTurn'
    BY <2>1, GoesOn
  <2>3. Seats(None) \in Request
    BY DEF Seats, Request
  <2>4. requests' \in [Slots -> Request \cup {None}]
    BY <2>1, <2>3, Entered
  <2> QED BY <2>1, <2>2, <2>4 DEF Books, Bought, provider
<1>6. ASSUME NEW u \in Users, NEW target \in Users, RemoveMember(j, u, target)
      PROVE  Books' /\ InTurn'
  <2>1. [op |-> "remove", user |-> target] \in Request
    BY DEF Request
  <2> QED BY <2>1, <1>1, <1>6 DEF RemoveMember
<1>7. ASSUME NEW u \in Users, BeginProTrial(j, u) \/ EndProTrial(j, u)
      PROVE  Books' /\ InTurn'
  <2>1. [op |-> "trial"] \in Request /\ [op |-> "endTrial"] \in Request
    BY DEF Request
  <2> QED BY <2>1, <1>1, <1>7 DEF BeginProTrial, EndProTrial
<1>8. ASSUME NEW s \in Subscriptions, ActivateProFromStripe(j, s)
      PROVE  Books' /\ InTurn'
  <2>1. /\ [kind |-> "completed", sub |-> s] \in events /\ Enter(j, Seats(s))
        /\ plan' = "pro" /\ trial' = 0 /\ subscription' = s /\ UNCHANGED provider
    BY <1>8 DEF ActivateProFromStripe
  <2>2. InTurn'
    BY <2>1, GoesOn
  <2>3. Seats(s) \in Request
    BY DEF Seats, Request
  <2>4. requests' \in [Slots -> Request \cup {None}]
    BY <2>1, <2>3, Entered
  <2>5. Bought(s)
    BY <2>1 DEF Books
  <2>6. trial' \in 0..MaxDays /\ plan' \in Plans
    BY <2>1, WorkspaceAssumption DEF Plans
  <2> QED BY <2>1, <2>2, <2>4, <2>5, <2>6 DEF Books, Bought, provider
<1> QED BY <1>2, <1>3, <1>4, <1>5, <1>6, <1>7, <1>8 DEF Begins

LEMMA EndsBooked ==
  ASSUME IInv, Books, InTurn, Next, NEW j \in Slots, Ends(j)
  PROVE  Books' /\ InTurn'
<1>0. None \in Request \cup {None}
  OBVIOUS
<1>1. CASE InviteWritten(j) \/ CancelWritten(j)
  <2>1. /\ Enter(j, None) /\ UNCHANGED <<plan, trial, roles, subscription, provider>>
        /\ requests[j].op \notin {"seats", "quantity"}
    BY <1>1 DEF InviteWritten, CancelWritten, Is, Done
  <2>2. Untouched /\ Members' = Members
    BY <2>1 DEF Untouched, Members, provider
  <2>3. InTurn'
    BY <2>1, <2>2, <1>0, Unrelated DEF Is
  <2>4. requests' \in [Slots -> Request \cup {None}]
    BY <2>1, <1>0, Entered
  <2> QED BY <2>1, <2>3, <2>4 DEF Books, Bought, provider
<1>2. CASE RoleWritten(j)
  <2>1. /\ Enter(j, None) /\ UNCHANGED <<plan, trial, subscription, provider>>
        /\ requests[j].op \notin {"seats", "quantity"}
    BY <1>2 DEF RoleWritten, Is, Done
  <2>2. requests[j].user \in Users /\ requests[j].role \in Assignable
    BY <1>2 DEF RoleWritten, Is, IInv, Requested, Checked
  <2>3. \A u \in Users : roles'[u] = "none" <=> roles[u] = "none"
    BY <1>2, <2>2, RoleSets DEF RoleWritten, IInv, Ownership
  <2>4. Untouched /\ Members' = Members
    BY <2>1, <2>3 DEF Untouched, Members, provider
  <2>5. InTurn'
    BY <2>1, <2>4, <1>0, Unrelated DEF Is
  <2>6. requests' \in [Slots -> Request \cup {None}]
    BY <2>1, <1>0, Entered
  <2> QED BY <2>1, <2>5, <2>6 DEF Books, Bought, provider
<1>3. CASE MemberRemoved(j)
  <2>1. /\ UNCHANGED <<plan, trial, subscription, provider>>
        /\ requests[j].op \notin {"seats", "quantity"}
    BY <1>3 DEF MemberRemoved, Is
  <2>2. AfterRemoval = Seats(None) /\ Seats(None) \in Request
    BY DEF AfterRemoval, Seats, Request
  <2>3. InTurn' /\ requests' \in [Slots -> Request \cup {None}]
    <3>1. CASE roles[requests[j].user] = "none"
      <4>1. Enter(j, None) /\ roles' = roles
        BY <1>3, <3>1 DEF MemberRemoved, Done, IInv, Ownership
      <4>2. Untouched /\ Members' = Members
        BY <2>1, <4>1 DEF Untouched, Members, provider
      <4> QED BY <2>1, <4>1, <4>2, <1>0, Unrelated, Entered DEF Is
    <3>2. CASE roles[requests[j].user] # "none"
      <4>1. Enter(j, Seats(None))
        BY <1>3, <3>2, <2>2 DEF MemberRemoved
      <4> QED BY <2>2, <4>1, GoesOn, Entered
    <3> QED BY <3>1, <3>2
  <2> QED BY <2>1, <2>3 DEF Books, Bought, provider
<1>4. CASE TrialWritten(j) \/ TrialEnded(j)
  <2>1. /\ Enter(j, None) /\ plan' \in {"pro_trial", "personal"} /\ trial' = 0
        /\ subscription' \in {subscription, None} /\ UNCHANGED provider
    BY <1>4 DEF TrialWritten, TrialEnded, Downgraded, Done
  <2>2. InTurn'
    BY <2>1, NotPro
  <2>3. requests' \in [Slots -> Request \cup {None}]
    BY <2>1, <1>0, Entered
  <2>4. plan' \in Plans /\ trial' \in 0..MaxDays
    BY <2>1, WorkspaceAssumption DEF Plans
  <2>5. subscription' \in Subscriptions => subscription' = subscription
    BY <2>1, WorkspaceAssumption
  <2> QED BY <2>1, <2>2, <2>3, <2>4, <2>5 DEF Books, Bought, provider
<1>5. CASE SeatsCounted(j)
  <2>1. UNCHANGED <<account, paid, failures>> /\ events' \subseteq events
    BY <1>5 DEF SeatsCounted, Acknowledge
  <2>2. plan' = plan /\ subscription' = subscription /\ Members' = Members
    BY <2>1 DEF account, Members
  <2>3. InTurn' /\ requests' \in [Slots -> Request \cup {None}]
    <3>1. CASE plan # "pro"
      <4>1. Enter(j, None)
        BY <1>5, <3>1, PaidIsPro DEF SeatsCounted, Done, Books
      <4> QED BY <3>1, <4>1, <2>2, <1>0, NotPro, Entered
    <3>2. CASE plan = "pro"
      <4> DEFINE r == [op |-> "quantity", event |-> requests[j].event, sub |-> subscription,
                       count |-> Cardinality(Members)]
      <4>1. Enter(j, r)
        BY <1>5, <3>2, PaidIsPro DEF SeatsCounted, Books
      <4>2. requests[j] \in Request /\ requests[j].op = "seats"
        BY <1>5 DEF SeatsCounted, Is, Idle, Books
      <4>3. requests[j].event \in Subscriptions \cup {None}
        BY <4>2 DEF Request
      <4>4. r \in Request
        BY <4>3, Headcount DEF Request, Books
      <4>5. requests'[j] = r /\ requests' \in [Slots -> Request \cup {None}] /\ r # None
        BY <4>1, <4>4, Entered, WorkspaceAssumption
      <4>6. CountsMembers(j)' /\ Counting'
        BY <4>5, <2>2 DEF CountsMembers, Counting, Is, Idle
      <4>7. ASSUME ~overlapped', NEW i \in Slots, Is(i, "quantity")'
            PROVE  i = j
        BY <4>1, <4>4, <4>7, Alone DEF Is, Idle
      <4> QED BY <4>5, <4>6, <4>7, Turns DEF InTurn
    <3> QED BY <3>1, <3>2
  <2> QED BY <2>1, <2>3 DEF Books, Bought, account
<1>6. CASE QuantityWritten(j)
  <2> DEFINE r == requests[j]
  <2>1. UNCHANGED <<account, failures>> /\ events' \subseteq events /\ Enter(j, None)
    BY <1>6 DEF QuantityWritten, Acknowledge, Done
  <2>2. plan' = plan /\ subscription' = subscription /\ Members' = Members
    BY <2>1 DEF account, Members
  <2>3. r \in Request /\ r.op = "quantity" /\ ~Idle(j)
    BY <1>6 DEF QuantityWritten, Is, Idle, Books
  <2>4. r.sub \in Subscriptions \cup {None} /\ r.count \in 0..Cardinality(Users)
    BY <2>3 DEF Request
  <2>5. \/ paid' = paid
        \/ r.sub \in Subscriptions /\ paid' = [paid EXCEPT ![r.sub] = [paid[r.sub] EXCEPT !.quantity = r.count]]
    BY <1>6, <2>4 DEF QuantityWritten
  <2>6. /\ paid' \in [Subscriptions -> Payment]
        /\ \A s \in Subscriptions : paid'[s].state = paid[s].state
    <3>1. CASE paid' = paid
      BY <3>1 DEF Books
    <3>2. CASE r.sub \in Subscriptions /\ paid' = [paid EXCEPT ![r.sub] = [paid[r.sub] EXCEPT !.quantity = r.count]]
      <4>1. paid[r.sub] \in Payment /\ paid \in [Subscriptions -> Payment]
        BY <3>2 DEF Books
      <4>2. /\ [paid[r.sub] EXCEPT !.quantity = r.count] \in Payment
            /\ [paid[r.sub] EXCEPT !.quantity = r.count].state = paid[r.sub].state
        BY <4>1, <2>4 DEF Payment
      <4> QED BY <3>2, <4>1, <4>2
    <3> QED BY <2>5, <3>1, <3>2
  <2>7. requests' \in [Slots -> Request \cup {None}] /\ requests'[j] = None
        /\ \A i \in Slots : i # j => requests'[i] = requests[i]
    BY <2>1, <1>0, Entered
  <2>8. Books'
    <3>1. /\ plan \in Plans /\ trial \in 0..MaxDays /\ trial' = trial
          /\ subscription \in Subscriptions \cup {None}
          /\ plan = "pro" => subscription \in Subscriptions
          /\ subscription \in Subscriptions => Bought(subscription)
      BY <2>1 DEF Books, account
    <3>2. \A e \in events : e \in Event /\ e.sub \in Subscriptions /\ Bought(e.sub)
      BY DEF Books, Event
    <3> QED BY <3>1, <3>2, <2>1, <2>2, <2>6, <2>7 DEF Books, Bought
  <2>9. ASSUME ~overlapped'
        PROVE  InTurn'
    <3>1. ~overlapped /\ OneAtATime /\ OneAtATime'
      BY <2>9, Turns DEF InTurn
    <3>2. \A i \in Slots : requests'[i] = None
      BY <3>1, <2>3, <2>7 DEF OneAtATime, Idle
    <3>3. ASSUME failures' = 0, Paying'
          PROVE  paid'[subscription].quantity = Cardinality(Members)
      <4>1. plan = "pro" /\ subscription \in Subscriptions
        BY <3>3, <2>2 DEF Paying, Books
      <4>2. paid[subscription].state = "active"
        BY <3>3, <4>1, <2>2, <2>6 DEF Paying
      <4>3. r.sub = subscription /\ r.count = Cardinality(Members)
        BY <3>1, <4>1, <2>3 DEF InTurn, Is, CountsMembers
      <4>4. subscription # None
        BY <4>1, WorkspaceAssumption
      <4>5. paid' = [paid EXCEPT ![subscription] = [paid[subscription] EXCEPT !.quantity = Cardinality(Members)]]
        BY <1>6, <4>2, <4>3, <4>4 DEF QuantityWritten
      <4>6. paid[subscription] \in Payment /\ paid \in [Subscriptions -> Payment]
        BY <4>1 DEF Books
      <4>7. paid'[subscription] = [paid[subscription] EXCEPT !.quantity = Cardinality(Members)]
        BY <4>1, <4>5, <4>6
      <4> QED BY <4>6, <4>7 DEF Payment
    <3> QED BY <3>1, <3>2, <3>3, <2>2 DEF InTurn, Is, Idle
  <2>10. overlapped' => InTurn'
    BY DEF InTurn
  <2> QED BY <2>8, <2>9, <2>10
<1> QED BY <1>1, <1>2, <1>3, <1>4, <1>5, <1>6 DEF Ends

LEMMA FailsBooked ==
  ASSUME IInv, Books, InTurn, failures \in Nat, Next, NEW j \in Slots, SyncFails(j)
  PROVE  Books' /\ InTurn'
<1>1. Enter(j, None) /\ UNCHANGED <<account, paid, events>> /\ failures' = failures + 1
  BY DEF SyncFails, Done
<1>2. requests' \in [Slots -> Request \cup {None}]
      /\ requests'[j] = None /\ \A i \in Slots : i # j => requests'[i] = requests[i]
  BY <1>1, Entered
<1>3. Books'
  BY <1>1, <1>2 DEF Books, Bought, account
<1>4. ASSUME ~overlapped', plan' = "pro", NEW i \in Slots, Is(i, "quantity")'
      PROVE  CountsMembers(i)'
  <2>1. ~overlapped /\ plan = "pro" /\ Is(i, "quantity") /\ requests'[i] = requests[i]
    BY <1>4, <1>1, <1>2, Turns DEF Is, Idle, account
  <2>2. CountsMembers(i)
    BY <2>1 DEF InTurn
  <2> QED BY <2>1, <2>2, <1>1 DEF CountsMembers, Members, account
<1>5. failures' # 0
  BY <1>1
<1> QED BY <1>3, <1>4, <1>5, Turns DEF InTurn

-----------------------------------------------------------------------------
(* The steps of the provider, and of the days. *)

LEMMA RestBooked ==
  ASSUME Books, InTurn, Next,
         \/ \E u \in Users : Checkout(u)
         \/ \E s \in Subscriptions : Pays(s) \/ Unsubscribes(s) \/ SubscriptionDeleted(s)
         \/ Day
  PROVE  Books' /\ InTurn'
<1>0. requests' = requests /\ roles' = roles /\ failures' = failures
  BY DEF Checkout, Pays, Unsubscribes, SubscriptionDeleted, Day, account, provider
<1>1. Members' = Members
  BY <1>0 DEF Members
\* A payment of another subscription than the one of the plan, or its end.
<1>2. ASSUME NEW s \in Subscriptions, NEW p \in Payment, paid' = [paid EXCEPT ![s] = p],
             UNCHANGED account, Bought(s) => p.state = "ended", ~Bought(s) => subscription # s,
             \A e \in events' \ events : e \in Event /\ e.sub = s /\ p.state \in {"active", "ended"}
      PROVE  Books' /\ InTurn'
  <2>1. plan' = plan /\ subscription' = subscription /\ trial' = trial
    BY <1>2 DEF account
  <2>2. paid' \in [Subscriptions -> Payment] /\ paid'[s] = p /\ \A t \in Subscriptions : t # s => paid'[t] = paid[t]
    BY <1>2 DEF Books
  <2>3. \A t \in Subscriptions : Bought(t) => Bought(t)'
    BY <2>2, <1>2 DEF Bought
  <2>4. \A f \in events : f \in Event /\ f.sub \in Subscriptions /\ Bought(f.sub)
    BY DEF Books, Event
  <2>5. \A f \in events' : f \in Event /\ Bought(f.sub)'
    <3> SUFFICES ASSUME NEW f \in events' PROVE f \in Event /\ Bought(f.sub)'
      OBVIOUS
    <3>1. CASE f \in events
      BY <3>1, <2>3, <2>4
    <3>2. CASE f \notin events
      <4>1. f \in Event /\ f.sub = s /\ p.state \in {"active", "ended"}
        BY <3>2, <1>2
      <4> QED BY <4>1, <2>2 DEF Bought
    <3> QED BY <3>1, <3>2
  <2>6. Books'
    BY <2>1, <2>2, <2>3, <2>5, <1>0 DEF Books
  <2>7. Paying' => Paying /\ paid'[subscription].quantity = paid[subscription].quantity
    <3> SUFFICES ASSUME Paying' PROVE Paying /\ paid'[subscription].quantity = paid[subscription].quantity
      OBVIOUS
    <3>1. plan = "pro" /\ subscription \in Subscriptions /\ paid'[subscription].state = "active"
      BY <2>1 DEF Paying, Books
    <3>2. subscription # s
      <4>1. CASE Bought(s)
        <5>1. p.state = "ended"
          BY <4>1, <1>2
        <5> QED BY <5>1, <3>1, <2>2
      <4>2. CASE ~Bought(s)
        BY <4>2, <1>2
      <4> QED BY <4>1, <4>2
    <3> QED BY <3>1, <3>2, <2>2 DEF Paying
  <2>8. InTurn'
    <3> SUFFICES ASSUME ~overlapped' PROVE InTurn'
      BY DEF InTurn
    <3>1. ~overlapped /\ OneAtATime'
      BY Turns
    <3>2. \A j \in Slots : (Is(j, "quantity")' <=> Is(j, "quantity")) /\ (CountsMembers(j)' <=> CountsMembers(j))
      BY <1>0, <1>1, <2>1 DEF Is, Idle, CountsMembers
    <3>3. Counting' <=> Counting
      BY <1>0 DEF Counting, Is, Idle
    <3> QED BY <3>1, <3>2, <3>3, <2>1, <2>7, <1>0, <1>1 DEF InTurn
  <2> QED BY <2>6, <2>8
<1>3. ASSUME NEW u \in Users, Checkout(u)
      PROVE  Books' /\ InTurn'
  <2>1. PICK s \in Fresh(Subscriptions, {t \in Subscriptions : paid[t].state # "none"}) :
          paid' = [paid EXCEPT ![s] = [state |-> "open", quantity |-> Cardinality(Members)]]
    BY <1>3 DEF Checkout
  <2>2. s \in Subscriptions /\ paid[s].state = "none"
    BY DEF Fresh
  <2>3. [state |-> "open", quantity |-> Cardinality(Members)] \in Payment
    BY Headcount DEF Payment
  <2>4. ~Bought(s) /\ subscription # s
    BY <2>2 DEF Bought, Books
  <2>5. UNCHANGED account /\ events' = events
    BY <1>3 DEF Checkout
  <2> QED BY <2>1, <2>2, <2>3, <2>4, <2>5, <1>2
<1>4. ASSUME NEW s \in Subscriptions, Pays(s)
      PROVE  Books' /\ InTurn'
  <2> DEFINE p == [paid[s] EXCEPT !.state = "active"]
             e == [kind |-> "completed", sub |-> s]
  <2>1. /\ paid[s].state = "open" /\ paid' = [paid EXCEPT ![s] = p]
        /\ events' = events \cup {e} /\ UNCHANGED account
    BY <1>4 DEF Pays
  <2>2. paid[s] \in Payment
    BY DEF Books
  <2>3. p \in Payment /\ p.state = "active"
    BY <2>2 DEF Payment
  <2>4. e \in Event /\ e.sub = s
    BY DEF Event
  <2>5. ~Bought(s) /\ subscription # s
    BY <2>1 DEF Bought, Books
  <2>6. \A f \in events' \ events : f \in Event /\ f.sub = s /\ p.state \in {"active", "ended"}
    BY <2>1, <2>3, <2>4
  <2> HIDE DEF p, e
  <2> QED BY <2>1, <2>3, <2>5, <2>6, <1>2
<1>5. ASSUME NEW s \in Subscriptions, Unsubscribes(s)
      PROVE  Books' /\ InTurn'
  <2> DEFINE p == [paid[s] EXCEPT !.state = "ended"]
             e == [kind |-> "deleted", sub |-> s]
  <2>1. /\ paid[s].state = "active" /\ paid' = [paid EXCEPT ![s] = p]
        /\ events' = events \cup {e} /\ UNCHANGED account
    BY <1>5 DEF Unsubscribes
  <2>2. paid[s] \in Payment
    BY DEF Books
  <2>3. p \in Payment /\ p.state = "ended"
    BY <2>2 DEF Payment
  <2>4. e \in Event /\ e.sub = s
    BY DEF Event
  <2>5. Bought(s)
    BY <2>1 DEF Bought
  <2>6. \A f \in events' \ events : f \in Event /\ f.sub = s /\ p.state \in {"active", "ended"}
    BY <2>1, <2>3, <2>4
  <2> HIDE DEF p, e
  <2> QED BY <2>1, <2>3, <2>5, <2>6, <1>2
<1>6. ASSUME NEW s \in Subscriptions, SubscriptionDeleted(s)
      PROVE  Books' /\ InTurn'
  <2>1. events' \subseteq events /\ paid' = paid
    BY <1>6 DEF SubscriptionDeleted
  <2>2. CASE subscription = s
    <3>1. plan' = "personal" /\ trial' = 0 /\ subscription' = None
      BY <1>6, <2>2 DEF SubscriptionDeleted, Downgraded
    <3>2. plan' \in Plans /\ trial' \in 0..MaxDays /\ subscription' \notin Subscriptions
      BY <3>1, WorkspaceAssumption DEF Plans
    <3>3. Books'
      BY <3>1, <3>2, <2>1, <1>0 DEF Books, Bought
    <3> QED BY <3>1, <3>3, NotPro
  <2>3. CASE subscription # s
    <3>1. plan' = plan /\ trial' = trial /\ subscription' = subscription
      BY <1>6, <2>3 DEF SubscriptionDeleted
    <3>2. Books'
      BY <3>1, <2>1, <1>0 DEF Books, Bought
    <3>3. InTurn'
      BY <3>1, <2>1, <1>0, <1>1, Turns DEF InTurn, Paying, Counting, CountsMembers, Is, Idle
    <3> QED BY <3>2, <3>3
  <2> QED BY <2>2, <2>3
<1>7. CASE Day
  <2>1. plan = "pro_trial" /\ trial < MaxDays /\ trial' = trial + 1 /\ UNCHANGED <<plan, subscription, provider>>
    BY <1>7 DEF Day
  <2>2. trial' \in 0..MaxDays
    BY <2>1, WorkspaceAssumption DEF Books
  <2>3. Books'
    BY <2>1, <2>2, <1>0 DEF Books, Bought, provider
  <2> QED BY <2>1, <2>3, NotPro
<1> QED BY <1>3, <1>4, <1>5, <1>6, <1>7

LEMMA NothingBooked ==
  ASSUME Books, InTurn, UNCHANGED vars
  PROVE  Books' /\ InTurn'
<1>1. Books'
  BY DEF Books, Bought, vars, account
<1>2. Members' = Members
  BY DEF Members, vars, account
<1>3. InTurn'
  BY <1>2 DEF InTurn, OneAtATime, Paying, Counting, CountsMembers, Is, Idle, vars, account
<1> QED BY <1>1, <1>3

BInv == Books /\ InTurn /\ failures \in Nat

LEMMA BooksInductive ==
  ASSUME IInv, BInv, [Next]_vars
  PROVE  BInv'
<1>1. failures' \in Nat
  <2>1. failures' \in {failures, failures + 1}
    BY DEF Next, Moves, Begins, Ends, InviteMember, UpdateMemberRole, CancelInvitation, AcceptInvitation,
           RemoveMember, BeginProTrial, EndProTrial, ActivateProFromStripe, InviteWritten, CancelWritten,
           RoleWritten, MemberRemoved, TrialWritten, TrialEnded, SeatsCounted, QuantityWritten, SyncFails,
           Checkout, Pays, Unsubscribes, SubscriptionDeleted, Day, vars, provider
  <2> QED BY <2>1 DEF BInv
<1>2. CASE Next
  <2>1. Books /\ InTurn /\ failures \in Nat
    BY DEF BInv
  <2>2. ASSUME NEW j \in Slots, Begins(j)
        PROVE  Books' /\ InTurn'
    BY <2>1, <2>2, <1>2, BeginsBooked
  <2>3. ASSUME NEW j \in Slots, Ends(j)
        PROVE  Books' /\ InTurn'
    BY <2>1, <2>3, <1>2, EndsBooked
  <2>4. ASSUME NEW j \in Slots, SyncFails(j)
        PROVE  Books' /\ InTurn'
    BY <2>1, <2>4, <1>2, FailsBooked
  <2>5. ASSUME \/ \E u \in Users : Checkout(u)
               \/ \E s \in Subscriptions : Pays(s) \/ Unsubscribes(s) \/ SubscriptionDeleted(s)
               \/ Day
        PROVE  Books' /\ InTurn'
    BY <2>1, <2>5, <1>2, RestBooked
  <2>6. Moves
    BY <1>2 DEF Next
  <2> QED BY <2>2, <2>3, <2>4, <2>5, <2>6, <1>1 DEF Moves, BInv
<1>3. CASE UNCHANGED vars
  BY <1>1, <1>3, NothingBooked DEF BInv
<1> QED BY <1>2, <1>3

LEMMA BooksInitially ==
  ASSUME Init
  PROVE  BInv
<1>1. [state |-> "none", quantity |-> 0] \in Payment
  <2>1. 0 \in 0..Cardinality(Users)
    BY WorkspaceAssumption, FS_CardinalityType
  <2> QED BY <2>1 DEF Payment
<1>2. plan \in Plans /\ plan # "pro" /\ trial \in 0..MaxDays /\ subscription \notin Subscriptions
  BY WorkspaceAssumption DEF Init
<1>3. \A j \in Slots : Idle(j)
  BY DEF Init, Idle
<1>4. Books
  BY <1>1, <1>2 DEF Init, Books
<1>5. InTurn
  BY <1>2, <1>3 DEF InTurn, OneAtATime, Paying
<1> QED BY <1>4, <1>5 DEF BInv, Init

(* Whatever is invited, joined, removed, tried, bought, ended and delivered    *)
(* again, as long as requests come one after the other and the provider is     *)
(* reached, it bills one seat for each member (httpapi/server_07.go:72-107).   *)
THEOREM SeatsAreBilled == Spec => []SeatsInTurn
<1>1. Init => IInv /\ BInv
  BY Initially, BooksInitially
<1>2. IInv /\ BInv /\ [Next]_vars => (IInv /\ BInv)'
  BY Inductive, BooksInductive
<1>3. IInv /\ BInv => SeatsInTurn
  <2> SUFFICES ASSUME IInv, BInv PROVE SeatsInTurn
    OBVIOUS
  <2>1. TypeOK
    BY DEF IInv, BInv, Ownership, Invited, Books, Payment, Event, TypeOK
  <2>2. ASSUME ~overlapped, failures = 0, AllIdle, Billed
        PROVE  paid[subscription].quantity = Cardinality(Members)
    <3>1. Paying
      BY <2>2, PaidIsPro DEF Billed, Paying, BInv, Books
    <3>2. ~Counting
      BY <2>2 DEF AllIdle, Counting, Is
    <3> QED BY <3>1, <3>2, <2>2 DEF BInv, InTurn
  <2> QED BY <2>1, <2>2 DEF SeatsInTurn
<1> QED BY <1>1, <1>2, <1>3, PTL DEF Spec

-----------------------------------------------------------------------------
(* The page of the team settings (TeamPage, as ClientPages!Team), for every     *)
(* number of members, addresses, submissions and calls at a time.               *)

TeamNames == {"old", "new"}
TeamMaybeRoles == GivenRoles \cup {"none"}
TeamDocuments == [name : TeamNames, plan : Team!Plans, mine : {"owner", "admin", "reader"},
                  roles : [TeamMates -> TeamMaybeRoles], invitations : [Addresses -> TeamMaybeRoles]]
TeamCallValues == TeamNames \cup Team!Plans \cup TeamMaybeRoles \cup {"page", "invite", "billing", "portal"}
TeamCallTypes == [op : {"load", "save", "role", "remove", "cancel", "checkout", "endTrial"},
                  who : TeamMates \cup Addresses \cup {Nil}, value : TeamCallValues,
                  at : {"sent", "done", "late", "refused"}, doc : TeamDocuments \cup {Nil}]

TeamCallOK(c) ==
  /\ c.op = "load" => c.at # "refused"
  /\ c.op # "load" => c.at # "late" /\ teamSettings \in TeamDocuments
  /\ c.at \in {"done", "late"} => c.doc \in TeamDocuments
  /\ c.op = "save" => c.value \in TeamNames
  /\ c.op = "role" => c.who \in TeamMates /\ c.value \in GivenRoles
  /\ c.op = "remove" => c.who \in TeamMates
  /\ c.op = "cancel" => c.who \in Addresses
  /\ c.op = "load" /\ c.at = "done" => c.doc = teamServer

TeamTypes ==
  /\ teamServer \in TeamDocuments /\ teamSettings \in TeamDocuments \cup {Nil}
  /\ teamForm \in [name : TeamNames, emails : SUBSET Addresses, role : GivenRoles]
  /\ teamInvite \in TeamSubmissions \cup {Nil}
  /\ teamInvite # Nil => /\ teamInvite.left \subseteq teamInvite.all
                         /\ teamInvite.left = {} => \E c \in teamCalls : c.op = "load" /\ c.value = "invite"
  /\ teamRemoving \in TeamMates \cup {Nil} /\ teamCanceling \in Addresses \cup {Nil}
  /\ teamStale \in BOOLEAN

TeamCallsOK == teamCalls \subseteq TeamCallTypes /\ \A c \in teamCalls : TeamCallOK(c)

TeamUndisturbed ==
  ~teamStale =>
    /\ \A c, d \in teamCalls : c = d
    /\ \A c \in teamCalls : c.op = "load" => c.at # "late" /\ (teamInvite = Nil \/ teamInvite.left = {})
    /\ \A c \in teamCalls : c.op # "load" =>
         /\ teamInvite = Nil
         /\ c.at # "done" => teamSettings = teamServer
         /\ c.at = "done" /\ c.op # "endTrial" => Team!Merged(c) = teamServer
    /\ teamCalls = {} /\ (teamInvite = Nil \/ teamInvite.left = teamInvite.all) /\ teamSettings # Nil => teamSettings = teamServer

TeamInv == TeamTypes /\ TeamCallsOK /\ TeamUndisturbed

TeamSentInv ==
  /\ teamSubmissions \in Nat
  /\ teamSent = [e \in Addresses |-> teamSent[e]]
  /\ \A e \in Addresses : teamSent[e] # Nil =>
       /\ teamSent[e].number \in 0..teamSubmissions
       /\ teamSent[e].number = teamSubmissions /\ teamInvite # Nil => teamSent[e].role = teamForm.role
  /\ Team!OneSubmissionOneRole

-----------------------------------------------------------------------------
LEMMA InitTeam ==
  ASSUME TeamAssumption, Team!Init
  PROVE  TeamInv /\ TeamSentInv
<1> USE DEF TeamAssumption
<1>1. PICK tier \in Team!Plans, mine \in {"owner", "admin", "reader"} :
        teamServer = [name |-> "old", plan |-> tier, mine |-> mine, roles |-> [m \in TeamMates |-> "editor"],
                      invitations |-> [e \in Addresses |-> "none"]]
  BY DEF Team!Init
<1>2. teamServer \in TeamDocuments
  BY <1>1 DEF TeamDocuments, TeamNames, TeamMaybeRoles
<1>3. teamCalls = {Team!Load("page")} /\ Team!Load("page") \in TeamCallTypes /\ TeamCallOK(Team!Load("page"))
  BY DEF Team!Init, Team!Load, Team!Call, TeamCallTypes, TeamCallOK, TeamCallValues
<1>4. TeamTypes
  BY <1>2 DEF Team!Init, TeamTypes, TeamNames
<1>5. TeamCallsOK
  BY <1>3 DEF TeamCallsOK
<1>6. TeamUndisturbed
  BY <1>3 DEF TeamUndisturbed, Team!Init, Team!Load, Team!Call
<1>7. TeamSentInv
  BY DEF Team!Init, TeamSentInv, Team!OneSubmissionOneRole
<1> QED BY <1>4, <1>5, <1>6, <1>7 DEF TeamInv

\* A call is as good as before when neither the service nor the page has changed.
LEMMA CallStays ==
  ASSUME NEW c, TeamCallOK(c), teamServer' = teamServer, teamSettings' = teamSettings
  PROVE  TeamCallOK(c)'
BY DEF TeamCallOK

\* A load whose answer was overtaken does not count as one of the service as it is now.
LEMMA OvertakenCalls ==
  ASSUME NEW cs, cs \subseteq TeamCallTypes, \A c \in cs : TeamCallOK(c), teamSettings' = teamSettings
  PROVE  /\ Team!Overtaken(cs) \subseteq TeamCallTypes
         /\ \A c \in Team!Overtaken(cs) : TeamCallOK(c)'
         /\ \A c \in cs : \E d \in Team!Overtaken(cs) : d.op = c.op /\ d.value = c.value
         /\ cs = {} => Team!Overtaken(cs) = {}
<1> DEFINE late(c) == IF c.op = "load" /\ c.at = "done" THEN [c EXCEPT !.at = "late"] ELSE c
<1>1. Team!Overtaken(cs) = {late(c) : c \in cs}
  BY DEF Team!Overtaken
<1>2. ASSUME NEW c \in cs
      PROVE  late(c) \in TeamCallTypes /\ TeamCallOK(late(c))' /\ late(c).op = c.op /\ late(c).value = c.value
  <2>1. c \in TeamCallTypes /\ TeamCallOK(c)
    OBVIOUS
  <2>2. CASE c.op = "load" /\ c.at = "done"
    <3>1. late(c) = [c EXCEPT !.at = "late"]
      BY <2>2
    <3> QED BY <2>1, <2>2, <3>1 DEF TeamCallTypes, TeamCallOK
  <2>3. CASE ~(c.op = "load" /\ c.at = "done")
    <3>1. late(c) = c
      BY <2>3
    <3> QED BY <2>1, <2>3, <3>1 DEF TeamCallOK
  <2> QED BY <2>2, <2>3
<1> HIDE DEF late
<1> QED BY <1>1, <1>2

-----------------------------------------------------------------------------
LEMMA FormKeeps ==
  ASSUME TeamInv, UNCHANGED <<teamServer, teamSettings, teamInvite, teamCalls, Team!busyFlags, teamStale>>,
         teamForm' \in [name : TeamNames, emails : SUBSET Addresses, role : GivenRoles]
  PROVE  TeamInv'
<1>1. TeamTypes'
  BY DEF TeamInv, TeamTypes, Team!busyFlags
<1>2. TeamCallsOK'
  BY CallStays DEF TeamInv, TeamCallsOK
<1>3. TeamUndisturbed'
  BY DEF TeamInv, TeamUndisturbed, Team!Merged, Team!TeamSaved, Team!RoleSaved, Team!MemberRemoved, Team!InvitationCancelled
<1> QED BY <1>1, <1>2, <1>3 DEF TeamInv

LEMMA TypesKeeps ==
  ASSUME TeamInv, NEW name \in {"old", "new"}, NEW emails \in SUBSET Addresses, Team!Types(name, emails)
  PROVE  TeamInv'
<1>1. teamForm' \in [name : TeamNames, emails : SUBSET Addresses, role : GivenRoles]
  BY DEF TeamInv, TeamTypes, Team!Types, TeamNames
<1> QED BY <1>1, FormKeeps DEF Team!Types, Team!history

LEMMA RoleKeeps ==
  ASSUME TeamInv, NEW r \in GivenRoles, Team!setInviteRole(r)
  PROVE  TeamInv'
<1>1. teamForm' \in [name : TeamNames, emails : SUBSET Addresses, role : GivenRoles]
  BY DEF TeamInv, TeamTypes, Team!setInviteRole
<1> QED BY <1>1, FormKeeps DEF Team!setInviteRole, Team!history

LEMMA ServeLoadKeeps ==
  ASSUME TeamInv, NEW c, Team!ServeLoad(c)
  PROVE  TeamInv'
<1> DEFINE overtaken == (\E d \in teamCalls \ {c} : d.at = "sent") \/ (teamInvite # Nil /\ teamInvite.left # {})
<1>0. PICK served : served = [c EXCEPT !.at = IF overtaken THEN "late" ELSE "done", !.doc = teamServer]
  OBVIOUS
<1>1. c \in teamCalls /\ c \in TeamCallTypes /\ c.op = "load" /\ c.at = "sent" /\ TeamCallOK(c)
  BY DEF TeamInv, TeamCallsOK, Team!ServeLoad
<1>2. teamCalls' = (teamCalls \ {c}) \cup {served} /\ UNCHANGED <<teamServer, teamSettings, teamForm, teamInvite, teamRemoving, teamCanceling, teamStale>>
  BY <1>0 DEF Team!ServeLoad, Team!page, Team!busyFlags, Team!history
<1>3. served \in TeamCallTypes /\ TeamCallOK(served)' /\ served.op = "load" /\ served.value = c.value
  BY <1>0, <1>1, <1>2 DEF TeamInv, TeamTypes, TeamCallTypes, TeamCallOK
<1>4. served.at = (IF overtaken THEN "late" ELSE "done")
  BY <1>0, <1>1 DEF TeamCallTypes
<1>5. TeamTypes'
  BY <1>1, <1>2, <1>3 DEF TeamInv, TeamTypes
<1>6. TeamCallsOK'
  <2>1. ASSUME NEW d \in teamCalls
        PROVE  d \in TeamCallTypes /\ TeamCallOK(d)'
    BY <1>2, CallStays DEF TeamInv, TeamCallsOK
  <2> QED BY <2>1, <1>2, <1>3 DEF TeamCallsOK
<1>7. TeamUndisturbed'
  <2> SUFFICES ASSUME ~teamStale
               PROVE  TeamUndisturbed'
    BY <1>2 DEF TeamUndisturbed
  <2>1. teamCalls = {c} /\ (teamInvite = Nil \/ teamInvite.left = {})
    BY <1>1 DEF TeamInv, TeamUndisturbed
  <2>2. teamCalls' = {served} /\ served.at = "done"
    BY <2>1, <1>2, <1>4
  <2> QED BY <2>1, <2>2, <1>2, <1>3 DEF TeamUndisturbed
<1> QED BY <1>5, <1>6, <1>7 DEF TeamInv

\* The end of a load: what had awaited it ends, and the page stays well-formed.
LEMMA LoadEndsTypes ==
  ASSUME TeamInv, NEW c \in teamCalls, c.op = "load", Team!LoadEnds(c), UNCHANGED <<teamServer, teamRemoving, teamCanceling>>,
         teamSettings' \in TeamDocuments \cup {Nil}, teamStale' \in BOOLEAN, teamSettings \in TeamDocuments => teamSettings' \in TeamDocuments,
         teamForm' \in [name : TeamNames, emails : SUBSET Addresses, role : GivenRoles]
  PROVE  TeamTypes' /\ TeamCallsOK'
<1>1. teamCalls' = teamCalls \ {c} /\ teamInvite' = IF c.value = "invite" THEN Nil ELSE teamInvite
  BY DEF Team!LoadEnds
<1>2. ASSUME teamInvite' # Nil, teamInvite'.left = {}
      PROVE  \E d \in teamCalls' : d.op = "load" /\ d.value = "invite"
  <2>1. teamInvite' = teamInvite /\ c.value # "invite"
    BY <1>1, <1>2
  <2>2. PICK d \in teamCalls : d.op = "load" /\ d.value = "invite"
    BY <1>2, <2>1 DEF TeamInv, TeamTypes
  <2> QED BY <2>1, <2>2, <1>1
<1>3. teamInvite' \in TeamSubmissions \cup {Nil} /\ (teamInvite' # Nil => teamInvite'.left \subseteq teamInvite'.all)
  BY <1>1 DEF TeamInv, TeamTypes
<1>4. TeamTypes'
  BY <1>2, <1>3 DEF TeamInv, TeamTypes
<1>5. ASSUME NEW d \in teamCalls'
      PROVE  d \in TeamCallTypes /\ TeamCallOK(d)'
  <2>1. d \in teamCalls
    BY <1>1
  <2> QED BY <2>1 DEF TeamInv, TeamCallsOK, TeamCallOK
<1> QED BY <1>4, <1>5 DEF TeamCallsOK

LEMMA LoadedKeeps ==
  ASSUME TeamInv, NEW c, Team!Loaded(c)
  PROVE  TeamInv'
<1>1. c \in teamCalls /\ c \in TeamCallTypes /\ TeamCallOK(c) /\ c.op = "load" /\ c.at \in {"done", "late"} /\ c.doc \in TeamDocuments
  BY DEF TeamInv, TeamCallsOK, Team!Loaded, TeamCallOK, TeamCallTypes
<1>2. /\ Team!LoadEnds(c) /\ teamSettings' = c.doc /\ teamForm' = [teamForm EXCEPT !.name = c.doc.name]
      /\ teamStale' = (teamStale /\ (teamCalls # {c} \/ c.at = "late")) /\ UNCHANGED <<teamServer, teamRemoving, teamCanceling>>
  BY DEF Team!Loaded
<1>3. teamForm' \in [name : TeamNames, emails : SUBSET Addresses, role : GivenRoles] /\ teamStale' \in BOOLEAN
  BY <1>1, <1>2 DEF TeamInv, TeamTypes, TeamDocuments
<1>4. TeamTypes' /\ TeamCallsOK'
  BY <1>1, <1>2, <1>3, LoadEndsTypes
<1>5. TeamUndisturbed'
  <2> SUFFICES ASSUME ~teamStale'
               PROVE  TeamUndisturbed'
    BY DEF TeamUndisturbed
  <2>1. teamCalls = {c} /\ c.at = "done"
    BY <1>1, <1>2 DEF TeamInv, TeamUndisturbed
  <2>2. teamCalls' = {} /\ teamSettings' = teamServer'
    BY <2>1, <1>1, <1>2 DEF Team!LoadEnds, TeamCallOK
  <2> QED BY <2>2 DEF TeamUndisturbed
<1> QED BY <1>4, <1>5 DEF TeamInv

LEMMA LoadFailsKeeps ==
  ASSUME TeamInv, NEW c, Team!LoadFails(c)
  PROVE  TeamInv'
<1>1. c \in teamCalls /\ c.op = "load" /\ Team!LoadEnds(c) /\ teamStale' = TRUE /\ UNCHANGED <<teamServer, teamSettings, teamForm, teamRemoving, teamCanceling>>
  BY DEF Team!LoadFails
<1>2. TeamTypes' /\ TeamCallsOK'
  <2>1. teamSettings' \in TeamDocuments \cup {Nil} /\ teamStale' \in BOOLEAN /\ (teamSettings \in TeamDocuments => teamSettings' \in TeamDocuments)
    BY <1>1 DEF TeamInv, TeamTypes
  <2>2. teamForm' \in [name : TeamNames, emails : SUBSET Addresses, role : GivenRoles]
    BY <1>1 DEF TeamInv, TeamTypes
  <2> QED BY <1>1, <2>1, <2>2, LoadEndsTypes
<1> QED BY <1>1, <1>2 DEF TeamInv, TeamUndisturbed

-----------------------------------------------------------------------------
LEMMA InviteKeeps ==
  ASSUME TeamAssumption, TeamInv, Team!inviteMembers
  PROVE  TeamInv'
<1>1. /\ teamInvite = Nil /\ teamForm.emails # {} /\ teamSettings # Nil
      /\ teamInvite' = [left |-> teamForm.emails, all |-> teamForm.emails] /\ teamStale' = (teamStale \/ teamCalls # {})
      /\ UNCHANGED <<teamServer, teamSettings, teamForm, teamCalls, teamRemoving, teamCanceling>>
  BY DEF Team!inviteMembers, Team!OffersInviteForm, Team!Ready, Team!page, Team!busyFlags
<1>2. TeamTypes'
  BY <1>1 DEF TeamInv, TeamTypes, TeamSubmissions
<1>3. TeamCallsOK'
  BY <1>1, CallStays DEF TeamInv, TeamCallsOK
<1>4. TeamUndisturbed'
  BY <1>1 DEF TeamInv, TeamUndisturbed
<1> QED BY <1>2, <1>3, <1>4 DEF TeamInv

LEMMA InvitedKeeps ==
  ASSUME TeamAssumption, TeamInv, NEW e, Team!Invited(e)
  PROVE  TeamInv'
<1> DEFINE left == teamInvite.left \ {e}
<1>1. /\ teamInvite # Nil /\ teamInvite \in TeamSubmissions /\ e \in teamInvite.left /\ teamInvite.left \subseteq teamInvite.all /\ e \in Addresses
      /\ teamServer' = [teamServer EXCEPT !.invitations[e] = teamForm.role] /\ UNCHANGED <<teamSettings, teamRemoving, teamCanceling, teamStale>>
  BY DEF TeamInv, TeamTypes, Team!Invited, Team!busyFlags, TeamSubmissions
<1>2. teamServer' \in TeamDocuments
  BY <1>1 DEF TeamInv, TeamTypes, TeamDocuments, TeamMaybeRoles
<1>3. /\ Team!Overtaken(teamCalls) \subseteq TeamCallTypes /\ \A c \in Team!Overtaken(teamCalls) : TeamCallOK(c)'
      /\ teamCalls = {} => Team!Overtaken(teamCalls) = {}
  BY <1>1, OvertakenCalls DEF TeamInv, TeamCallsOK
<1>4. ~teamStale => teamCalls = {}
  BY <1>1 DEF TeamInv, TeamUndisturbed
<1>5. CASE left # {}
  <2>1. teamInvite' = [teamInvite EXCEPT !.left = left] /\ teamCalls' = Team!Overtaken(teamCalls) /\ UNCHANGED teamForm
    BY <1>5 DEF Team!Invited
  <2>2. teamInvite' \in TeamSubmissions /\ teamInvite'.left = left /\ teamInvite'.all = teamInvite.all /\ teamInvite' # Nil
    BY <1>1, <2>1 DEF TeamSubmissions, TeamAssumption
  <2>3. TeamTypes'
    BY <1>1, <1>2, <1>5, <2>1, <2>2 DEF TeamInv, TeamTypes
  <2>4. TeamCallsOK'
    BY <1>3, <2>1 DEF TeamCallsOK
  <2>5. TeamUndisturbed'
    BY <1>1, <1>3, <1>4, <2>1, <2>2 DEF TeamUndisturbed
  <2> QED BY <2>3, <2>4, <2>5 DEF TeamInv
<1>6. CASE left = {}
  <2>1. teamInvite' = [teamInvite EXCEPT !.left = {}] /\ teamForm' = [teamForm EXCEPT !.emails = {}] /\ teamCalls' = Team!Overtaken(teamCalls) \cup {Team!Load("invite")}
    BY <1>6 DEF Team!Invited
  <2>2. teamInvite' \in TeamSubmissions /\ teamInvite'.left = {} /\ teamInvite'.all = teamInvite.all /\ teamInvite' # Nil
    BY <1>1, <2>1 DEF TeamSubmissions, TeamAssumption
  <2>3. teamForm' \in [name : TeamNames, emails : SUBSET Addresses, role : GivenRoles]
    BY <2>1 DEF TeamInv, TeamTypes
  <2>4. Team!Load("invite") \in TeamCallTypes /\ TeamCallOK(Team!Load("invite"))' /\ Team!Load("invite").op = "load" /\ Team!Load("invite").value = "invite" /\ Team!Load("invite").at = "sent"
    BY DEF Team!Load, Team!Call, TeamCallTypes, TeamCallOK, TeamCallValues
  <2>5. TeamTypes'
    BY <1>1, <1>2, <2>1, <2>2, <2>3, <2>4 DEF TeamInv, TeamTypes
  <2>6. TeamCallsOK'
    BY <1>3, <2>1, <2>4 DEF TeamCallsOK
  <2>7. TeamUndisturbed'
    BY <1>1, <1>3, <1>4, <2>1, <2>2, <2>4 DEF TeamUndisturbed
  <2> QED BY <2>5, <2>6, <2>7 DEF TeamInv
<1> QED BY <1>5, <1>6

LEMMA InviteFailsKeeps ==
  ASSUME TeamInv, Team!InviteFails
  PROVE  TeamInv'
<1>1. /\ teamInvite # Nil /\ teamInvite.left # {} /\ teamInvite' = Nil /\ teamStale' = (teamStale \/ teamInvite.left # teamInvite.all)
      /\ UNCHANGED <<teamServer, teamSettings, teamForm, teamCalls, teamRemoving, teamCanceling>>
  BY DEF Team!InviteFails, Team!page, Team!busyFlags
<1>2. TeamTypes'
  BY <1>1 DEF TeamInv, TeamTypes
<1>3. TeamCallsOK'
  BY <1>1, CallStays DEF TeamInv, TeamCallsOK
<1>4. TeamUndisturbed'
  BY <1>1 DEF TeamInv, TeamUndisturbed
<1> QED BY <1>2, <1>3, <1>4 DEF TeamInv

-----------------------------------------------------------------------------
LEMMA SendsKeeps ==
  ASSUME TeamInv, NEW c \in TeamCallTypes, TeamCallOK(c), c.op # "load", c.at = "sent", teamSettings # Nil, Team!Sends(c),
         teamRemoving' \in TeamMates \cup {Nil}, teamCanceling' \in Addresses \cup {Nil}
  PROVE  TeamInv'
<1>1. teamCalls' = teamCalls \cup {c} /\ teamStale' = (teamStale \/ teamCalls # {} \/ teamInvite # Nil) /\ UNCHANGED <<teamServer, teamSettings, teamForm, teamInvite>>
  BY DEF Team!Sends, Team!page
<1>2. TeamTypes'
  BY <1>1 DEF TeamInv, TeamTypes
<1>3. TeamCallsOK'
  BY <1>1, CallStays DEF TeamInv, TeamCallsOK
<1>4. TeamUndisturbed'
  BY <1>1 DEF TeamInv, TeamUndisturbed
<1> QED BY <1>2, <1>3, <1>4 DEF TeamInv

\* What a call is sent with.
LEMMA NewCall ==
  ASSUME NEW op \in {"save", "role", "remove", "cancel", "checkout", "endTrial"}, NEW who \in TeamMates \cup Addresses \cup {Nil},
         NEW value \in TeamCallValues, teamSettings \in TeamDocuments,
         op = "save" => value \in TeamNames, op = "role" => who \in TeamMates /\ value \in GivenRoles,
         op = "remove" => who \in TeamMates, op = "cancel" => who \in Addresses
  PROVE  /\ Team!Call(op, who, value) \in TeamCallTypes /\ TeamCallOK(Team!Call(op, who, value))
         /\ Team!Call(op, who, value).op # "load" /\ Team!Call(op, who, value).at = "sent"
BY DEF Team!Call, TeamCallTypes, TeamCallOK

LEMMA HandlersKeep ==
  ASSUME TeamInv,
         \/ Team!saveTeamName \/ Team!endTrial \/ Team!openBillingPortal
         \/ \E tier \in {"pro_trial", "pro", "enterprise"} : Team!startBilling(tier)
         \/ \E e \in Addresses : Team!cancelInvitation(e)
         \/ \E m \in TeamMates : Team!removeMember(m) \/ \E r \in GivenRoles : Team!changeRole(m, r)
  PROVE  TeamInv'
<1> USE DEF TeamInv, TeamTypes
<1>1. CASE Team!saveTeamName
  <2>1. teamSettings # Nil /\ teamSettings \in TeamDocuments /\ Team!Sends(Team!Call("save", Nil, teamForm.name)) /\ teamRemoving' = teamRemoving /\ teamCanceling' = teamCanceling
    BY <1>1 DEF Team!saveTeamName, Team!OffersSave, Team!Ready, Team!busyFlags
  <2>2. teamForm.name \in TeamNames /\ teamForm.name \in TeamCallValues
    BY DEF TeamCallValues
  <2> HIDE DEF TeamInv, TeamTypes
  <2>3. teamRemoving' \in TeamMates \cup {Nil} /\ teamCanceling' \in Addresses \cup {Nil}
    BY <2>1 DEF TeamInv, TeamTypes
  <2> QED BY <2>1, <2>2, <2>3, NewCall, SendsKeeps
<1>2. CASE Team!endTrial
  <2>1. teamSettings # Nil /\ teamSettings \in TeamDocuments /\ Team!Sends(Team!Call("endTrial", Nil, "personal")) /\ teamRemoving' = teamRemoving /\ teamCanceling' = teamCanceling
    BY <1>2 DEF Team!endTrial, Team!OffersEndTrial, Team!OffersBilling, Team!Ready
  <2>2. "personal" \in TeamCallValues
    BY DEF TeamCallValues, Team!Plans
  <2>3. teamRemoving' \in TeamMates \cup {Nil} /\ teamCanceling' \in Addresses \cup {Nil}
    BY <2>1 DEF TeamInv, TeamTypes
  <2> HIDE DEF TeamInv, TeamTypes
  <2> QED BY <2>1, <2>2, <2>3, NewCall, SendsKeeps
<1>3. CASE Team!openBillingPortal
  <2>1. teamSettings # Nil /\ teamSettings \in TeamDocuments /\ Team!Sends(Team!Call("checkout", Nil, "portal")) /\ teamRemoving' = teamRemoving /\ teamCanceling' = teamCanceling
    BY <1>3 DEF Team!openBillingPortal, Team!OffersPortal, Team!OffersBilling, Team!Ready
  <2>2. "portal" \in TeamCallValues
    BY DEF TeamCallValues
  <2>3. teamRemoving' \in TeamMates \cup {Nil} /\ teamCanceling' \in Addresses \cup {Nil}
    BY <2>1 DEF TeamInv, TeamTypes
  <2> HIDE DEF TeamInv, TeamTypes
  <2> QED BY <2>1, <2>2, <2>3, NewCall, SendsKeeps
<1>4. ASSUME NEW tier \in {"pro_trial", "pro", "enterprise"}, Team!startBilling(tier)
      PROVE  TeamInv'
  <2>1. teamSettings # Nil /\ teamSettings \in TeamDocuments /\ Team!Sends(Team!Call("checkout", Nil, tier)) /\ teamRemoving' = teamRemoving /\ teamCanceling' = teamCanceling
    BY <1>4 DEF Team!startBilling, Team!OffersCheckout, Team!OffersBilling, Team!Ready
  <2>2. tier \in TeamCallValues
    BY DEF TeamCallValues, Team!Plans
  <2>3. teamRemoving' \in TeamMates \cup {Nil} /\ teamCanceling' \in Addresses \cup {Nil}
    BY <2>1 DEF TeamInv, TeamTypes
  <2> HIDE DEF TeamInv, TeamTypes
  <2> QED BY <2>1, <2>2, <2>3, NewCall, SendsKeeps
<1>5. ASSUME NEW e \in Addresses, Team!cancelInvitation(e)
      PROVE  TeamInv'
  <2>1. teamSettings # Nil /\ teamSettings \in TeamDocuments /\ Team!Sends(Team!Call("cancel", e, "none")) /\ teamRemoving' = teamRemoving /\ teamCanceling' = e
    BY <1>5 DEF Team!cancelInvitation, Team!OffersCancel, Team!Ready
  <2>2. "none" \in TeamCallValues
    BY DEF TeamCallValues, TeamMaybeRoles
  <2>3. teamRemoving' \in TeamMates \cup {Nil} /\ teamCanceling' \in Addresses \cup {Nil}
    BY <2>1 DEF TeamInv, TeamTypes
  <2> HIDE DEF TeamInv, TeamTypes
  <2> QED BY <2>1, <2>2, <2>3, NewCall, SendsKeeps
<1>6. ASSUME NEW m \in TeamMates, Team!removeMember(m)
      PROVE  TeamInv'
  <2>1. teamSettings # Nil /\ teamSettings \in TeamDocuments /\ Team!Sends(Team!Call("remove", m, "none")) /\ teamRemoving' = m /\ teamCanceling' = teamCanceling
    BY <1>6 DEF Team!removeMember, Team!OffersRemove, Team!Ready
  <2>2. "none" \in TeamCallValues
    BY DEF TeamCallValues, TeamMaybeRoles
  <2>3. teamRemoving' \in TeamMates \cup {Nil} /\ teamCanceling' \in Addresses \cup {Nil}
    BY <2>1 DEF TeamInv, TeamTypes
  <2> HIDE DEF TeamInv, TeamTypes
  <2> QED BY <2>1, <2>2, <2>3, NewCall, SendsKeeps
<1>7. ASSUME NEW m \in TeamMates, NEW r \in GivenRoles, Team!changeRole(m, r)
      PROVE  TeamInv'
  <2>1. teamSettings # Nil /\ teamSettings \in TeamDocuments /\ Team!Sends(Team!Call("role", m, r)) /\ teamRemoving' = teamRemoving /\ teamCanceling' = teamCanceling
    BY <1>7 DEF Team!changeRole, Team!OffersRole, Team!Ready, Team!busyFlags
  <2>2. r \in TeamCallValues
    BY DEF TeamCallValues, TeamMaybeRoles
  <2>3. teamRemoving' \in TeamMates \cup {Nil} /\ teamCanceling' \in Addresses \cup {Nil}
    BY <2>1 DEF TeamInv, TeamTypes
  <2> HIDE DEF TeamInv, TeamTypes
  <2> QED BY <2>1, <2>2, <2>3, NewCall, SendsKeeps
<1> QED BY <1>1, <1>2, <1>3, <1>4, <1>5, <1>6, <1>7

-----------------------------------------------------------------------------
\* What the service does to a document of the team leaves one, and the page, from the same document, comes to the same.
LEMMA AppliedIsMerged ==
  ASSUME TeamTypes, NEW c \in TeamCallTypes, TeamCallOK(c), c.op # "load", Team!Applied(c) # Nil
  PROVE  /\ Team!Applied(c) \in TeamDocuments
         /\ teamSettings = teamServer /\ c.op # "endTrial" =>
              Team!Merged([c EXCEPT !.at = "done", !.doc = Team!Applied(c)]) = Team!Applied(c)
<1> DEFINE d == [c EXCEPT !.at = "done", !.doc = Team!Applied(c)]
<1>0. teamServer \in TeamDocuments
  BY DEF TeamTypes
<1>1. d.op = c.op /\ d.who = c.who /\ d.value = c.value /\ d.doc = Team!Applied(c)
  BY DEF TeamCallTypes
<1>2. CASE c.op = "save" /\ Team!hasEntitlement(teamServer.plan)
  <2>1. Team!Applied(c) = [teamServer EXCEPT !.name = c.value]
    BY <1>2 DEF Team!Applied
  <2>2. Team!Applied(c) \in TeamDocuments
    BY <1>0, <1>2, <2>1 DEF TeamCallOK, TeamDocuments
  <2>3. teamSettings = teamServer => Team!Merged(d) = Team!Applied(c)
    <3>1. Team!Merged(d) = [teamSettings EXCEPT !.name = Team!Applied(c).name, !.plan = Team!Applied(c).plan]
      BY <1>1, <1>2 DEF Team!Merged, Team!TeamSaved
    <3>2. Team!Applied(c).name = c.value /\ Team!Applied(c).plan = teamServer.plan
      BY <2>1, <1>0 DEF TeamDocuments
    <3>3. teamSettings = teamServer => Team!Merged(d) = [teamServer EXCEPT !.name = c.value, !.plan = teamServer.plan]
      BY <3>1, <3>2
    <3>4. [teamServer EXCEPT !.name = c.value, !.plan = teamServer.plan] = [teamServer EXCEPT !.name = c.value]
      BY <1>0 DEF TeamDocuments
    <3> QED BY <3>3, <3>4, <2>1
  <2> QED BY <2>2, <2>3
<1>3. CASE c.op = "role" /\ Team!hasEntitlement(teamServer.plan) /\ teamServer.roles[c.who] # "none"
  <2>1. Team!Applied(c) = [teamServer EXCEPT !.roles[c.who] = c.value]
    BY <1>3 DEF Team!Applied
  <2>2. Team!Applied(c) \in TeamDocuments
    BY <1>0, <1>3, <2>1 DEF TeamCallOK, TeamDocuments, TeamMaybeRoles
  <2>3. teamSettings = teamServer => Team!Merged(d) = Team!Applied(c)
    BY <1>1, <1>3, <2>1 DEF Team!Merged, Team!RoleSaved
  <2> QED BY <2>2, <2>3
<1>4. CASE c.op = "remove" /\ Team!hasEntitlement(teamServer.plan) /\ teamServer.roles[c.who] # "none"
  <2>1. Team!Applied(c) = [teamServer EXCEPT !.roles[c.who] = "none"]
    BY <1>4 DEF Team!Applied
  <2>2. Team!Applied(c) \in TeamDocuments
    BY <1>0, <1>4, <2>1 DEF TeamCallOK, TeamDocuments, TeamMaybeRoles
  <2>3. teamSettings = teamServer => Team!Merged(d) = Team!Applied(c)
    BY <1>1, <1>4, <2>1 DEF Team!Merged, Team!MemberRemoved
  <2> QED BY <2>2, <2>3
<1>5. CASE c.op = "cancel" /\ Team!hasEntitlement(teamServer.plan) /\ teamServer.invitations[c.who] # "none"
  <2>1. Team!Applied(c) = [teamServer EXCEPT !.invitations[c.who] = "none"]
    BY <1>5 DEF Team!Applied
  <2>2. Team!Applied(c) \in TeamDocuments
    BY <1>0, <1>5, <2>1 DEF TeamCallOK, TeamDocuments, TeamMaybeRoles
  <2>3. teamSettings = teamServer => Team!Merged(d) = Team!Applied(c)
    BY <1>1, <1>5, <2>1 DEF Team!Merged, Team!InvitationCancelled
  <2> QED BY <2>2, <2>3
<1>6. CASE c.op = "checkout"
  <2>1. Team!Applied(c) = teamServer \/ Team!Applied(c) = [teamServer EXCEPT !.plan = "pro_trial"]
    BY <1>6 DEF Team!Applied
  <2>2. Team!Applied(c) \in TeamDocuments
    BY <1>0, <2>1 DEF TeamDocuments, Team!Plans
  <2>3. teamSettings = teamServer => Team!Merged(d) = Team!Applied(c)
    <3>1. Team!Merged(d) = [teamSettings EXCEPT !.name = Team!Applied(c).name, !.plan = Team!Applied(c).plan]
      BY <1>1, <1>6 DEF Team!Merged, Team!TeamSaved
    <3>2. DOMAIN teamServer = {"name", "plan", "mine", "roles", "invitations"} /\ teamServer = [f \in DOMAIN teamServer |-> teamServer[f]]
      BY <1>0 DEF TeamDocuments
    <3>3. CASE Team!Applied(c) = teamServer
      <4>1. [teamServer EXCEPT !.name = teamServer.name, !.plan = teamServer.plan] = teamServer
        BY <3>2
      <4> QED BY <3>1, <3>3, <4>1
    <3>4. CASE Team!Applied(c) = [teamServer EXCEPT !.plan = "pro_trial"]
      <4>1. Team!Applied(c).name = teamServer.name /\ Team!Applied(c).plan = "pro_trial"
        BY <3>2, <3>4
      <4>2. [teamServer EXCEPT !.name = teamServer.name, !.plan = "pro_trial"] = [teamServer EXCEPT !.plan = "pro_trial"]
        BY <3>2
      <4> QED BY <3>1, <3>4, <4>1, <4>2
    <3> QED BY <2>1, <3>3, <3>4
  <2> QED BY <2>2, <2>3
<1>7. CASE c.op = "endTrial" /\ teamServer.plan = "pro_trial"
  <2>1. Team!Applied(c) = [teamServer EXCEPT !.plan = "personal", !.invitations = Team!NoInvitations]
    BY <1>7 DEF Team!Applied
  <2>2. Team!NoInvitations \in [Addresses -> TeamMaybeRoles] /\ "personal" \in Team!Plans
    BY DEF Team!NoInvitations, TeamMaybeRoles, Team!Plans
  <2>3. Team!Applied(c) \in TeamDocuments
    BY <1>0, <2>1, <2>2 DEF TeamDocuments
  <2> QED BY <2>3, <1>7
<1>8. QED
  BY <1>2, <1>3, <1>4, <1>5, <1>6, <1>7 DEF Team!Applied, TeamCallTypes

LEMMA ServeKeeps ==
  ASSUME TeamInv, NEW c, Team!Serve(c)
  PROVE  TeamInv'
<1> DEFINE refused == Team!Applied(c) = Nil
<1>0. PICK served : served = [c EXCEPT !.at = IF refused THEN "refused" ELSE "done", !.doc = Team!Applied(c)]
  OBVIOUS
<1>1. c \in teamCalls /\ c \in TeamCallTypes /\ TeamCallOK(c) /\ c.op # "load" /\ c.at = "sent" /\ teamSettings \in TeamDocuments
  BY DEF TeamInv, TeamCallsOK, TeamCallOK, Team!Serve
<1>2. /\ teamServer' = (IF refused THEN teamServer ELSE Team!Applied(c)) /\ teamCalls' = Team!Overtaken(teamCalls \ {c}) \cup {served}
      /\ UNCHANGED <<teamSettings, teamForm, teamInvite, teamRemoving, teamCanceling, teamStale>>
  BY <1>0 DEF Team!Serve, Team!page, Team!busyFlags, Team!history
<1>3. /\ Team!Applied(c) \in TeamDocuments \cup {Nil}
      /\ teamSettings = teamServer /\ c.op # "endTrial" /\ ~refused => Team!Merged([c EXCEPT !.at = "done", !.doc = Team!Applied(c)]) = Team!Applied(c)
  BY <1>1, AppliedIsMerged DEF TeamInv
<1>4. /\ served \in TeamCallTypes /\ served.op = c.op /\ served.who = c.who /\ served.value = c.value /\ served.doc = Team!Applied(c)
      /\ served.at = (IF refused THEN "refused" ELSE "done")
      /\ ~refused => served = [c EXCEPT !.at = "done", !.doc = Team!Applied(c)]
  BY <1>0, <1>1, <1>3 DEF TeamCallTypes
<1>5. TeamCallOK(served)'
  BY <1>1, <1>2, <1>3, <1>4 DEF TeamCallOK
<1>6. teamServer' \in TeamDocuments
  BY <1>2, <1>3 DEF TeamInv, TeamTypes
<1>7. teamCalls \ {c} \subseteq TeamCallTypes /\ \A d \in teamCalls \ {c} : TeamCallOK(d)
  BY DEF TeamInv, TeamCallsOK
<1>8. /\ Team!Overtaken(teamCalls \ {c}) \subseteq TeamCallTypes /\ \A d \in Team!Overtaken(teamCalls \ {c}) : TeamCallOK(d)'
      /\ \A d \in teamCalls \ {c} : \E b \in Team!Overtaken(teamCalls \ {c}) : b.op = d.op /\ b.value = d.value
      /\ teamCalls \ {c} = {} => Team!Overtaken(teamCalls \ {c}) = {}
  BY <1>2, <1>7, OvertakenCalls
<1>9. TeamTypes'
  BY <1>1, <1>2, <1>6, <1>8 DEF TeamInv, TeamTypes
<1>10. TeamCallsOK'
  BY <1>2, <1>4, <1>5, <1>8 DEF TeamCallsOK
<1>11. TeamUndisturbed'
  <2> SUFFICES ASSUME ~teamStale
               PROVE  TeamUndisturbed'
    BY <1>2 DEF TeamUndisturbed
  <2>1. teamCalls = {c} /\ teamInvite = Nil /\ teamSettings = teamServer
    BY <1>1 DEF TeamInv, TeamUndisturbed
  <2>2. teamCalls' = {served}
    BY <2>1, <1>2, <1>8
  <2>3. served.at # "done" => teamSettings' = teamServer'
    BY <2>1, <1>2, <1>4
  <2>4. served.at = "done" /\ served.op # "endTrial" => Team!Merged(served)' = teamServer'
    <3> SUFFICES ASSUME served.at = "done", served.op # "endTrial"
                 PROVE  Team!Merged(served)' = teamServer'
      OBVIOUS
    <3>1. ~refused /\ served = [c EXCEPT !.at = "done", !.doc = Team!Applied(c)]
      BY <1>4
    <3>2. Team!Merged(served) = Team!Applied(c) /\ teamServer' = Team!Applied(c)
      BY <2>1, <3>1, <1>2, <1>3, <1>4
    <3>3. Team!Merged(served)' = Team!Merged(served)
      BY <1>2 DEF Team!Merged, Team!TeamSaved, Team!RoleSaved, Team!MemberRemoved, Team!InvitationCancelled
    <3> QED BY <3>2, <3>3
  <2> QED BY <2>1, <2>2, <2>3, <2>4, <1>1, <1>2, <1>4 DEF TeamUndisturbed
<1> QED BY <1>9, <1>10, <1>11 DEF TeamInv

LEMMA CallLostKeeps ==
  ASSUME TeamInv, NEW c, Team!CallLost(c)
  PROVE  TeamInv'
<1> DEFINE lost == [c EXCEPT !.at = "refused"]
<1>1. c \in teamCalls /\ c \in TeamCallTypes /\ TeamCallOK(c) /\ c.op # "load" /\ c.at = "sent"
  BY DEF TeamInv, TeamCallsOK, Team!CallLost
<1>2. teamCalls' = (teamCalls \ {c}) \cup {lost} /\ UNCHANGED <<teamServer, teamSettings, teamForm, teamInvite, teamRemoving, teamCanceling, teamStale>>
  BY DEF Team!CallLost, Team!page, Team!busyFlags, Team!history
<1>3. lost \in TeamCallTypes /\ TeamCallOK(lost)' /\ lost.op = c.op /\ lost.at = "refused"
  BY <1>1, <1>2 DEF TeamCallTypes, TeamCallOK
<1> HIDE DEF lost
<1>4. TeamTypes'
  BY <1>1, <1>2 DEF TeamInv, TeamTypes
<1>5. TeamCallsOK'
  BY <1>2, <1>3, CallStays DEF TeamInv, TeamCallsOK
<1>6. TeamUndisturbed'
  <2> SUFFICES ASSUME ~teamStale
               PROVE  TeamUndisturbed'
    BY <1>2 DEF TeamUndisturbed
  <2>1. teamCalls = {c} /\ teamInvite = Nil /\ teamSettings = teamServer
    BY <1>1 DEF TeamInv, TeamUndisturbed
  <2>2. teamCalls' = {lost}
    BY <2>1, <1>2
  <2> QED BY <2>1, <2>2, <1>1, <1>2, <1>3 DEF TeamUndisturbed
<1> QED BY <1>4, <1>5, <1>6 DEF TeamInv

\* Each answer leaves settings of the team, and the trial that ended is followed by a load.
LEMMA AnsweredKeeps ==
  ASSUME TeamInv, NEW c, Team!Answered(c)
  PROVE  TeamInv'
<1> DEFINE reloads == c.op = "endTrial" /\ c.at = "done"
<1>1. c \in teamCalls /\ c \in TeamCallTypes /\ TeamCallOK(c) /\ c.op # "load" /\ c.at \in {"done", "refused"} /\ teamSettings \in TeamDocuments
  BY DEF TeamInv, TeamCallsOK, TeamCallOK, Team!Answered
<1>2. /\ teamSettings' = (IF c.at = "done" THEN Team!Merged(c) ELSE teamSettings)
      /\ teamForm' = (IF c.op = "save" /\ c.at = "done" THEN [teamForm EXCEPT !.name = c.doc.name] ELSE teamForm)
      /\ teamCalls' = (IF reloads THEN (teamCalls \ {c}) \cup {Team!Load("billing")} ELSE teamCalls \ {c})
      /\ teamRemoving' = (IF c.op = "remove" THEN Nil ELSE teamRemoving)
      /\ teamCanceling' = (IF c.op = "cancel" THEN Nil ELSE teamCanceling)
      /\ UNCHANGED <<teamServer, teamInvite, teamStale>>
  BY DEF Team!Answered, Team!history
<1>3. teamSettings' \in TeamDocuments
  <2>1. CASE c.at = "refused"
    BY <2>1, <1>1, <1>2
  <2>2. CASE c.at = "done"
    <3>1. c.doc \in TeamDocuments
      BY <2>2, <1>1 DEF TeamCallOK
    <3>2. CASE c.op \in {"save", "checkout"}
      <4>1. teamSettings' = [teamSettings EXCEPT !.name = c.doc.name, !.plan = c.doc.plan]
        BY <3>2, <2>2, <1>2 DEF Team!Merged, Team!TeamSaved
      <4> QED BY <4>1, <3>1, <1>1 DEF TeamDocuments
    <3>3. CASE c.op = "role"
      <4>1. teamSettings' = teamSettings \/ teamSettings' = [teamSettings EXCEPT !.roles[c.who] = c.value]
        BY <3>3, <2>2, <1>2 DEF Team!Merged, Team!RoleSaved
      <4> QED BY <4>1, <3>3, <1>1 DEF TeamDocuments, TeamCallOK, TeamMaybeRoles
    <3>4. CASE c.op = "remove"
      <4>1. teamSettings' = [teamSettings EXCEPT !.roles[c.who] = "none"]
        BY <3>4, <2>2, <1>2 DEF Team!Merged, Team!MemberRemoved
      <4> QED BY <4>1, <3>4, <1>1 DEF TeamDocuments, TeamCallOK, TeamMaybeRoles
    <3>5. CASE c.op = "cancel"
      <4>1. teamSettings' = [teamSettings EXCEPT !.invitations[c.who] = "none"]
        BY <3>5, <2>2, <1>2 DEF Team!Merged, Team!InvitationCancelled
      <4> QED BY <4>1, <3>5, <1>1 DEF TeamDocuments, TeamCallOK, TeamMaybeRoles
    <3>6. CASE c.op = "endTrial"
      BY <3>6, <2>2, <1>1, <1>2 DEF Team!Merged
    <3> QED BY <3>2, <3>3, <3>4, <3>5, <3>6, <1>1 DEF TeamCallTypes
  <2> QED BY <2>1, <2>2, <1>1
<1>4. teamForm' \in [name : TeamNames, emails : SUBSET Addresses, role : GivenRoles]
  BY <1>1, <1>2 DEF TeamInv, TeamTypes, TeamCallOK, TeamDocuments
<1>5. /\ Team!Load("billing") \in TeamCallTypes /\ TeamCallOK(Team!Load("billing"))'
      /\ Team!Load("billing").op = "load" /\ Team!Load("billing").at = "sent"
  BY DEF Team!Load, Team!Call, TeamCallTypes, TeamCallOK, TeamCallValues
<1>6. TeamTypes'
  <2>1. teamInvite # Nil /\ teamInvite.left = {} => \E d \in teamCalls' : d.op = "load" /\ d.value = "invite"
    BY <1>1, <1>2 DEF TeamInv, TeamTypes
  <2> QED BY <2>1, <1>1, <1>2, <1>3, <1>4 DEF TeamInv, TeamTypes
<1>7. TeamCallsOK'
  <2>1. ASSUME NEW d \in teamCalls
        PROVE  d \in TeamCallTypes /\ TeamCallOK(d)'
    BY <1>2, <1>3 DEF TeamInv, TeamCallsOK, TeamCallOK
  <2> QED BY <2>1, <1>2, <1>5 DEF TeamCallsOK
<1>8. TeamUndisturbed'
  <2> SUFFICES ASSUME ~teamStale
               PROVE  TeamUndisturbed'
    BY <1>2 DEF TeamUndisturbed
  <2>1. teamCalls = {c} /\ teamInvite = Nil
    BY <1>1 DEF TeamInv, TeamUndisturbed
  <2>2. CASE reloads
    <3>1. teamCalls' = {Team!Load("billing")}
      BY <2>1, <2>2, <1>2
    <3> QED BY <2>1, <3>1, <1>2, <1>5 DEF TeamUndisturbed
  <2>3. CASE ~reloads
    <3>1. teamCalls' = {} /\ teamSettings' = teamServer'
      BY <2>1, <2>3, <1>1, <1>2 DEF TeamInv, TeamUndisturbed
    <3> QED BY <3>1 DEF TeamUndisturbed
  <2> QED BY <2>2, <2>3
<1> QED BY <1>6, <1>7, <1>8 DEF TeamInv

LEMMA LeavesKeeps ==
  ASSUME TeamInv, NEW c, Team!LeavesPage(c)
  PROVE  TeamInv'
BY DEF TeamInv, TeamTypes, TeamCallsOK, TeamUndisturbed, Team!LeavesPage, Team!history

-----------------------------------------------------------------------------
LEMMA NextTeam ==
  ASSUME TeamAssumption, TeamInv, [Team!Next]_teamVars
  PROVE  TeamInv'
<1>1. CASE UNCHANGED teamVars
  <2>1. UNCHANGED <<teamServer, teamSettings, teamForm, teamInvite, teamCalls, Team!busyFlags, teamStale>>
    BY <1>1 DEF teamVars, Team!busyFlags, Team!history
  <2> QED BY <2>1, FormKeeps DEF TeamInv, TeamTypes
<1>2. ASSUME NEW name \in {"old", "new"}, NEW emails \in SUBSET Addresses, Team!Types(name, emails)
      PROVE  TeamInv'
  BY <1>2, TypesKeeps
<1>3. ASSUME NEW r \in GivenRoles, Team!setInviteRole(r)
      PROVE  TeamInv'
  BY <1>3, RoleKeeps
<1>4. CASE Team!inviteMembers \/ Team!InviteFails
  BY <1>4, InviteKeeps, InviteFailsKeeps
<1>5. CASE \/ Team!saveTeamName \/ Team!endTrial \/ Team!openBillingPortal
           \/ \E tier \in {"pro_trial", "pro", "enterprise"} : Team!startBilling(tier)
           \/ \E e \in Addresses : Team!cancelInvitation(e)
           \/ \E m \in TeamMates : Team!removeMember(m) \/ \E r \in GivenRoles : Team!changeRole(m, r)
  BY <1>5, HandlersKeep
<1>6. ASSUME NEW e \in Addresses, Team!Invited(e)
      PROVE  TeamInv'
  BY <1>6, InvitedKeeps
<1>7. ASSUME NEW c \in teamCalls, Team!ServeLoad(c) \/ Team!Loaded(c) \/ Team!LoadFails(c)
      PROVE  TeamInv'
  BY <1>7, ServeLoadKeeps, LoadedKeeps, LoadFailsKeeps
<1>8. ASSUME NEW c \in teamCalls, Team!Serve(c) \/ Team!CallLost(c) \/ Team!Answered(c) \/ Team!LeavesPage(c)
      PROVE  TeamInv'
  BY <1>8, ServeKeeps, CallLostKeeps, AnsweredKeeps, LeavesKeeps
<1> QED BY <1>1, <1>2, <1>3, <1>4, <1>5, <1>6, <1>7, <1>8 DEF Team!Next

LEMMA TeamInvShows ==
  ASSUME TeamInv
  PROVE  Team!ShowsWhatIsThere
BY DEF TeamInv, TeamTypes, TeamUndisturbed, Team!ShowsWhatIsThere, Team!TypeOK, TeamDocuments, TeamMaybeRoles, Team!Calls

-----------------------------------------------------------------------------
\* Outside the calls of a submission nothing is sent, and the role of the form stays while there is one.
LEMMA SentStays ==
  ASSUME TeamSentInv, UNCHANGED <<teamSent, teamSubmissions>>, teamInvite' # Nil => teamInvite # Nil /\ teamForm'.role = teamForm.role
  PROVE  TeamSentInv'
BY DEF TeamSentInv, Team!OneSubmissionOneRole

\* Whatever is typed, saved or loaded, the form keeps its role.
LEMMA NextSent ==
  ASSUME TeamAssumption, TeamInv, TeamSentInv, [Team!Next]_teamVars
  PROVE  TeamSentInv'
<1>0. teamForm \in [name : TeamNames, emails : SUBSET Addresses, role : GivenRoles]
  BY DEF TeamInv, TeamTypes
<1>1. CASE UNCHANGED teamVars
  BY <1>1, SentStays DEF teamVars, Team!history, Team!counts
<1>2. ASSUME NEW name \in {"old", "new"}, NEW emails \in SUBSET Addresses, Team!Types(name, emails)
      PROVE  TeamSentInv'
  <2>1. UNCHANGED <<teamSent, teamSubmissions, teamInvite>> /\ teamForm'.role = teamForm.role
    BY <1>0, <1>2 DEF Team!Types, Team!history, Team!counts
  <2> QED BY <2>1, SentStays
<1>3. ASSUME NEW r \in GivenRoles, Team!setInviteRole(r)
      PROVE  TeamSentInv'
  <2>1. UNCHANGED <<teamSent, teamSubmissions, teamInvite>> /\ teamInvite = Nil
    BY <1>3 DEF Team!setInviteRole, Team!OffersInviteForm, Team!history, Team!counts
  <2> QED BY <2>1, SentStays
<1>4. CASE Team!inviteMembers
  <2>1. teamSent' = teamSent /\ teamSubmissions' = teamSubmissions + 1
    BY <1>4 DEF Team!inviteMembers
  <2>2. ASSUME NEW e \in Addresses, teamSent[e] # Nil
        PROVE  teamSent[e].number \in 0..teamSubmissions' /\ teamSent[e].number # teamSubmissions'
    BY <2>1, <2>2 DEF TeamSentInv
  <2>3. Team!OneSubmissionOneRole'
    BY <2>1 DEF TeamSentInv, Team!OneSubmissionOneRole
  <2>4. teamSubmissions' \in Nat
    BY <2>1 DEF TeamSentInv
  <2> QED BY <2>1, <2>2, <2>3, <2>4 DEF TeamSentInv
<1>5. CASE Team!InviteFails
  BY <1>5, SentStays DEF Team!InviteFails
<1>6. ASSUME NEW e \in Addresses, Team!Invited(e)
      PROVE  TeamSentInv'
  <2>1. /\ teamInvite # Nil /\ teamSent' = [teamSent EXCEPT ![e] = [number |-> teamSubmissions, role |-> teamForm.role]]
        /\ teamSubmissions' = teamSubmissions
    BY <1>6 DEF Team!Invited, Team!counts
  <2>2. teamForm'.role = teamForm.role
    BY <1>0, <1>6 DEF Team!Invited
  <2>3. ASSUME NEW d \in Addresses
        PROVE  teamSent'[d] = IF d = e THEN [number |-> teamSubmissions, role |-> teamForm.role] ELSE teamSent[d]
    BY <2>1 DEF TeamSentInv
  <2>4. teamSent' = [d \in Addresses |-> teamSent'[d]]
    BY <2>1 DEF TeamSentInv
  <2>5. ASSUME NEW d \in Addresses, teamSent'[d] # Nil
        PROVE  /\ teamSent'[d].number \in 0..teamSubmissions
               /\ teamSent'[d].number = teamSubmissions => teamSent'[d].role = teamForm.role
    BY <2>1, <2>3, <2>5 DEF TeamSentInv
  <2>6. Team!OneSubmissionOneRole'
    <3> SUFFICES ASSUME NEW c \in Addresses, NEW d \in Addresses, teamSent'[c] # Nil, teamSent'[d] # Nil, teamSent'[c].number = teamSent'[d].number
                 PROVE  teamSent'[c].role = teamSent'[d].role
      BY DEF Team!OneSubmissionOneRole
    <3>1. CASE c = e \/ d = e
      BY <3>1, <2>3, <2>5
    <3>2. CASE c # e /\ d # e
      BY <3>2, <2>3 DEF TeamSentInv, Team!OneSubmissionOneRole
    <3> QED BY <3>1, <3>2
  <2> QED BY <2>1, <2>2, <2>4, <2>5, <2>6 DEF TeamSentInv
<1>7. CASE \/ Team!saveTeamName \/ Team!endTrial \/ Team!openBillingPortal
           \/ \E tier \in {"pro_trial", "pro", "enterprise"} : Team!startBilling(tier)
           \/ \E e \in Addresses : Team!cancelInvitation(e)
           \/ \E m \in TeamMates : Team!removeMember(m) \/ \E r \in GivenRoles : Team!changeRole(m, r)
  <2>1. UNCHANGED <<teamSent, teamSubmissions, teamInvite, teamForm>>
    BY <1>7 DEF Team!saveTeamName, Team!endTrial, Team!openBillingPortal, Team!startBilling, Team!cancelInvitation, Team!removeMember, Team!changeRole, Team!Sends,
                Team!page, Team!counts
  <2> QED BY <2>1, SentStays
<1>8. ASSUME NEW c \in teamCalls, Team!ServeLoad(c) \/ Team!Loaded(c) \/ Team!LoadFails(c)
      PROVE  TeamSentInv'
  <2>1. UNCHANGED <<teamSent, teamSubmissions>> /\ (teamInvite' # Nil => teamInvite' = teamInvite)
    BY <1>8 DEF Team!ServeLoad, Team!Loaded, Team!LoadFails, Team!LoadEnds, Team!history, Team!counts
  <2>2. teamForm'.role = teamForm.role
    BY <1>0, <1>8 DEF Team!ServeLoad, Team!Loaded, Team!LoadFails, Team!page
  <2> QED BY <2>1, <2>2, SentStays
<1>9. ASSUME NEW c \in teamCalls, Team!Serve(c) \/ Team!CallLost(c) \/ Team!Answered(c) \/ Team!LeavesPage(c)
      PROVE  TeamSentInv'
  <2>1. UNCHANGED <<teamSent, teamSubmissions>> /\ (teamInvite' # Nil => teamInvite' = teamInvite)
    BY <1>9 DEF Team!Serve, Team!CallLost, Team!Answered, Team!LeavesPage, Team!history, Team!counts
  <2>2. teamForm'.role = teamForm.role
    BY <1>0, <1>9 DEF Team!Serve, Team!CallLost, Team!Answered, Team!LeavesPage, Team!page
  <2> QED BY <2>1, <2>2, SentStays
<1> QED BY <1>1, <1>2, <1>3, <1>4, <1>5, <1>6, <1>7, <1>8, <1>9 DEF Team!Next

-----------------------------------------------------------------------------
(* Of the pages of the client. *)

LEMMA StepsTeam ==
  ASSUME [PagesNext]_pagesvars, OnTeam
  PROVE  [Team!Next]_teamVars /\ OnTeam'
BY DEF PagesNext, pagesvars, OnlyCards, OnlyHome, OnlyTeam, OnlyProfile, OnlyShare, OnCards, OnHome, OnTeam, OnProfile, OnShare

LEMMA StaysTeam ==
  ASSUME [PagesNext]_pagesvars
  PROVE  OnTeam' <=> OnTeam
BY DEF PagesNext, pagesvars, OnlyCards, OnlyHome, OnlyTeam, OnlyProfile, OnlyShare, OnTeam

(* TeamShowsWhatIsThere: at rest the page shows the members, invitations, name  *)
(* and plan the service has unless calls overlapped, whatever was refused or    *)
(* lost before (TeamSettingsRoute.tsx).                                         *)
THEOREM TeamPageShows == PagesSpec => []TeamShowsWhatIsThere
<1> DEFINE Inv == OnTeam => TeamInv
<1>0. TeamAssumption
  BY PagesAssumption
<1>1. PagesInit => Inv
  BY <1>0, InitTeam DEF PagesInit, OnCards, OnHome, OnTeam, OnProfile, OnShare
<1>2. Inv /\ [PagesNext]_pagesvars => Inv'
  BY <1>0, StepsTeam, StaysTeam, NextTeam
<1>3. Inv => TeamShowsWhatIsThere
  BY TeamInvShows DEF TeamShowsWhatIsThere
<1> QED BY <1>1, <1>2, <1>3, PTL DEF PagesSpec

(* TeamInvitesWithOneRole: the addresses of one submission are invited with one *)
(* role although the form is read again for each of them.                       *)
THEOREM SubmissionHasOneRole == PagesSpec => []TeamInvitesWithOneRole
<1> DEFINE Inv == OnTeam => (TeamInv /\ TeamSentInv)
<1>0. TeamAssumption
  BY PagesAssumption
<1>1. PagesInit => Inv
  BY <1>0, InitTeam DEF PagesInit, OnCards, OnHome, OnTeam, OnProfile, OnShare
<1>2. Inv /\ [PagesNext]_pagesvars => Inv'
  BY <1>0, StepsTeam, StaysTeam, NextTeam, NextSent
<1>3. Inv => TeamInvitesWithOneRole
  BY DEF TeamInvitesWithOneRole, TeamSentInv
<1> QED BY <1>1, <1>2, <1>3, PTL DEF PagesSpec

-----------------------------------------------------------------------------
(* The dialog in which boards are made and shared (BoardSettings, as            *)
(* ClientPages!Share), for every number of boards, members and addresses.       *)

ShareOps == {"mount", "page", "dialog", "create", "delete", "rename", "add", "remove", "invite"}
ShareStages == {"members", "projects", "settings", "write", "next"}
ShareLists == [OfBoards -> BoardTitles \cup {"slug", Nil}]
ShareAnswers == (SUBSET Share!Users) \cup ShareLists \cup (SUBSET Outsiders) \cup {Nil}
ShareCallTypes == [op : ShareOps, board : OfBoards, who : BoardTitles \cup Share!Users \cup Outsiders \cup {Nil}, left : SUBSET (TeamMates \cup Outsiders),
                   stage : ShareStages, at : {"sent", "done", "refused", "late", "failed"}, doc : {Nil} \cup (ShareStages \X ShareAnswers)]
SharePageTypes == [active : OfBoards, managed : OfBoards, open : BOOLEAN, shown : SUBSET Share!Users, sharing : BOOLEAN, changing : BOOLEAN]

ChangesBoards(c) == c.op \in {"create", "delete", "rename"}
ChangesMembers(c) == c.op \in {"add", "remove", "invite"}
ShareCallOK(c) ==
  /\ c.op = "mount" => c.stage \in {"projects", "settings"}
  /\ c.op \in {"page", "dialog"} => c.stage = "members"
  /\ ChangesBoards(c) => c.stage \in {"write", "projects"}
  /\ c.op \in {"create", "rename"} => c.who \in BoardTitles
  /\ c.op = "delete" => c.board # DefaultBoard
  /\ c.op \in {"add", "remove"} => c.stage \in {"write", "members"} /\ c.who \in Share!Users
  /\ c.op = "invite" => c.stage # "projects"
  /\ c.stage = "members" /\ c.at \in {"done", "late", "refused"} => c.doc[2] \in SUBSET Share!Users
  /\ c.stage = "projects" => c.at # "refused" /\ (c.at \in {"done", "late"} => c.doc[2] \in ShareLists)
  /\ c.stage = "settings" => c.at \in {"sent", "done", "failed"} /\ (c.at = "done" => c.doc[2] \in SUBSET Outsiders)
  /\ c.stage = "write" => c.at \in {"sent", "done", "failed"}
  /\ c.stage = "next" => c.at = "done"

ShareServiceTypes ==
  /\ shareProjects \in [OfBoards -> {Nil} \cup [name : BoardTitles, archived : BOOLEAN]]
  /\ shareMembers \in [OfBoards -> SUBSET Share!Users] /\ shareInvited \in SUBSET Outsiders
SharePageOK ==
  /\ shareList \in ShareLists /\ shareKnown \in {Nil} \cup (SUBSET Outsiders) /\ sharePage \in SharePageTypes
  /\ shareStale \in BOOLEAN /\ shareCrossed \in BOOLEAN /\ shareStrayed \in BOOLEAN /\ shareSkipped = {}
ShareCallsOK == shareCalls \subseteq ShareCallTypes /\ \A c \in shareCalls : ShareCallOK(c)

\* Whoever uses a board, the user does; and the default board stays.
ShareAccess == User \in shareMembers[DefaultBoard] /\ \A b \in OfBoards : shareMembers[b] # {} => User \in shareMembers[b]

\* The page is busy with what is under way, one change of boards and one of members.
ShareBusy ==
  /\ sharePage.sharing <=> \E c \in shareCalls : ChangesMembers(c)
  /\ sharePage.changing <=> \E c \in shareCalls : ChangesBoards(c)
  /\ \A c, d \in shareCalls : (ChangesBoards(c) /\ ChangesBoards(d)) \/ (ChangesMembers(c) /\ ChangesMembers(d)) => c = d

ShareFresh ==
  \A c \in shareCalls :
    /\ c.stage = "projects" /\ c.at = "done" => c.doc[2] = Share!Listing
    /\ c.stage = "members" /\ c.at \in {"done", "refused"} => c.doc[2] = shareMembers[c.board]

\* The list is right, or something that was told to the service will bring another one.
ShareTold(c) == c.stage # "write" \/ c.at # "sent"
ShareWillList(c) == c.stage = "projects" \/ (ChangesBoards(c) /\ ShareTold(c))
ShareListFollows == ~shareStale => shareList = Share!Listing \/ \E c \in shareCalls : ShareWillList(c)

ShareWillShow(c) == c.stage = "members" \/ c.op = "invite" \/ (c.op \in {"add", "remove", "create", "delete"} /\ ShareTold(c))
ShareMembersFollow == ~shareCrossed => sharePage.shown = shareMembers[sharePage.managed] \/ \E c \in shareCalls : ShareWillShow(c)

\* Who is shown and not about to be gone has access.
ShareLoadsMembers == \E c \in shareCalls : c.stage = "members"
ShareShownHaveAccess ==
  ~shareCrossed /\ ~ShareLoadsMembers =>
    \/ sharePage.shown \subseteq shareMembers[sharePage.managed]
    \/ \E c \in shareCalls : c.op = "remove" /\ ShareTold(c)
    \/ shareMembers[sharePage.managed] = {} /\ \E c \in shareCalls : c.op = "delete"

\* The boards the page is on are there, or their deletion will send it elsewhere.
ShareHome(b) == User \in shareMembers[b] \/ \E c \in shareCalls : c.op = "delete" /\ c.board = b
ShareStays == ~shareStrayed => ShareHome(sharePage.active) /\ ShareHome(sharePage.managed)
ShareMade == \A c \in shareCalls : c.op = "create" /\ (c.stage = "projects" \/ c.at = "done") => User \in shareMembers[c.board]

ShareInv == ShareServiceTypes /\ SharePageOK /\ ShareCallsOK /\ ShareAccess /\ ShareBusy /\ ShareFresh /\ ShareListFollows /\ ShareMembersFollow /\ ShareShownHaveAccess /\ ShareStays /\ ShareMade

-----------------------------------------------------------------------------
(* The first state *)

LEMMA NewChain ==
  ASSUME NEW op \in ShareOps, NEW b \in OfBoards, NEW stage \in ShareStages
  PROVE  LET c == Share!Chain(op, b, stage) IN
         /\ c \in ShareCallTypes /\ c.op = op /\ c.board = b /\ c.stage = stage /\ c.at = "sent" /\ c.who = Nil /\ c.left = {}
BY DEF Share!Chain, ShareCallTypes

LEMMA NewLoad ==
  ASSUME NEW by \in {"page", "dialog"}, NEW b \in OfBoards
  PROVE  LET c == Share!LoadBoardMembers(by, b) IN
         /\ c \in ShareCallTypes /\ c.op = by /\ c.board = b /\ c.stage = "members" /\ c.at = "sent" /\ ShareCallOK(c)
BY NewChain DEF Share!LoadBoardMembers, ShareOps, ShareStages, ShareCallOK, ChangesBoards

LEMMA ListingTyped ==
  ASSUME ShareServiceTypes
  PROVE  Share!Listing \in ShareLists
BY DEF ShareServiceTypes, Share!Listing, ShareLists

LEMMA InitShare ==
  ASSUME ShareAssumption, Share!Init
  PROVE  ShareInv
<1>1. PICK mount : mount = Share!Chain("mount", DefaultBoard, "projects")
  OBVIOUS
<1>2. PICK settings : settings = Share!Chain("mount", DefaultBoard, "settings")
  OBVIOUS
<1>3. PICK load : load = Share!LoadBoardMembers("page", DefaultBoard)
  OBVIOUS
<1>4. mount \in ShareCallTypes /\ mount.op = "mount" /\ mount.stage = "projects" /\ mount.at = "sent"
  BY <1>1, NewChain DEF ShareOps, ShareStages, ShareAssumption
<1>5. settings \in ShareCallTypes /\ settings.op = "mount" /\ settings.stage = "settings" /\ settings.at = "sent"
  BY <1>2, NewChain DEF ShareOps, ShareStages, ShareAssumption
<1>6. load \in ShareCallTypes /\ load.op = "page" /\ load.stage = "members" /\ load.at = "sent" /\ ShareCallOK(load)
  BY <1>3, NewLoad DEF ShareAssumption
<1>7. ShareCallOK(mount) /\ ShareCallOK(settings)
  BY <1>4, <1>5 DEF ShareCallOK, ChangesBoards
<1>8. shareCalls = {mount, settings, load}
  BY <1>1, <1>2, <1>3 DEF Share!Init
<1>9. ShareServiceTypes /\ ShareAccess
  <2>1. shareProjects \in [OfBoards -> {Nil} \cup [name : BoardTitles, archived : BOOLEAN]]
    <3>1. shareProjects \in [OfBoards -> {Nil} \cup [name : {"one"}, archived : BOOLEAN]]
      BY DEF Share!Init
    <3>2. [name : {"one"}, archived : BOOLEAN] \subseteq [name : BoardTitles, archived : BOOLEAN]
      BY DEF ShareAssumption
    <3> QED BY <3>1, <3>2
  <2>2. User \in shareMembers[DefaultBoard]
    BY DEF Share!Init, ShareAssumption
  <2> QED BY <2>1, <2>2 DEF Share!Init, ShareServiceTypes, ShareAccess
<1>10. SharePageOK
  BY DEF Share!Init, SharePageOK, ShareLists, SharePageTypes, ShareAssumption
<1>11. sharePage.sharing = FALSE /\ sharePage.changing = FALSE /\ sharePage.active = DefaultBoard /\ sharePage.managed = DefaultBoard /\ shareStrayed = FALSE
  BY DEF Share!Init
<1>12. ShareBusy
  BY <1>4, <1>5, <1>6, <1>8, <1>11 DEF ShareBusy, ChangesMembers, ChangesBoards
<1>13. ShareFresh /\ ShareMade
  BY <1>4, <1>5, <1>6, <1>8 DEF ShareFresh, ShareMade
<1>14. ShareListFollows /\ ShareMembersFollow /\ ShareShownHaveAccess
  BY <1>4, <1>6, <1>8 DEF ShareListFollows, ShareWillList, ShareMembersFollow, ShareWillShow, ShareShownHaveAccess, ShareLoadsMembers
<1>15. ShareStays
  BY <1>9, <1>11 DEF ShareStays, ShareHome, ShareAccess
<1> QED BY <1>4, <1>5, <1>6, <1>7, <1>8, <1>9, <1>10, <1>12, <1>13, <1>14, <1>15 DEF ShareInv, ShareCallsOK

-----------------------------------------------------------------------------
(* The service *)

\* What may become of the members of a chain's board.
ShareEffect(c, v) ==
  /\ shareMembers' \in [OfBoards -> SUBSET Share!Users]
  /\ \A b \in OfBoards : b # c.board => shareMembers'[b] = shareMembers[b]
  /\ shareMembers'[c.board] # {} => User \in shareMembers'[c.board]
  /\ User \in shareMembers[c.board] => User \in shareMembers'[c.board] \/ (c.op = "delete" /\ c.board # DefaultBoard /\ shareMembers'[c.board] = {})
  /\ c.op # "remove" => shareMembers[c.board] \subseteq shareMembers'[c.board] \/ (c.op = "delete" /\ shareMembers'[c.board] = {})
  /\ shareMembers[c.board] = {} /\ c.op # "create" => shareMembers'[c.board] = {}
  /\ shareMembers' = shareMembers \/ (v.stage = "write" /\ (ChangesMembers(v) \/ v.op \in {"create", "delete"}))
  /\ v.op = "create" /\ v.stage = "write" /\ v.at = "done" => User \in shareMembers'[c.board] \/ (c.stage = "write" /\ c.at = "done" /\ shareMembers' = shareMembers)

\* What becomes of the chains of calls: one has its answer, others may be late.
ShareImage(img, c, v) ==
  /\ shareCalls' = {img[d] : d \in shareCalls} /\ img[c] = v
  /\ \A d \in shareCalls :
       /\ img[d] \in ShareCallTypes /\ ShareCallOK(img[d])
       /\ img[d].op = d.op /\ img[d].board = d.board /\ img[d].stage = d.stage
       /\ d.at # "sent" => img[d].at # "sent"
       /\ d # c /\ img[d].at = "done" => d.at = "done"

LEMMA ServedKeeps ==
  ASSUME ShareAssumption, ShareInv, NEW c \in shareCalls, NEW v, NEW img, ShareImage(img, c, v), ShareEffect(c, v), v.at # "sent",
         Share!Listing' = Share!Listing \/ (v.stage = "write" /\ ChangesBoards(v)),
         shareProjects' \in [OfBoards -> {Nil} \cup [name : BoardTitles, archived : BOOLEAN]], shareInvited' \in SUBSET Outsiders,
         ShareFresh', UNCHANGED <<shareList, shareKnown, sharePage, shareStale, shareCrossed, shareSkipped, shareStrayed>>
  PROVE  ShareInv'
<1>1. ASSUME NEW x \in shareCalls'
      PROVE  \E d \in shareCalls : x = img[d]
  BY <1>1 DEF ShareImage
<1>2. ASSUME NEW d \in shareCalls
      PROVE  /\ img[d] \in shareCalls' /\ img[d].op = d.op /\ img[d].board = d.board /\ img[d].stage = d.stage
             /\ (ChangesMembers(img[d]) <=> ChangesMembers(d)) /\ (ChangesBoards(img[d]) <=> ChangesBoards(d))
             /\ (ShareTold(d) => ShareTold(img[d]))
  BY DEF ShareImage, ChangesMembers, ChangesBoards, ShareTold
<1>3. v \in shareCalls' /\ v.op = c.op /\ v.board = c.board /\ v.stage = c.stage /\ ShareTold(v) /\ c.board \in OfBoards
  BY <1>2 DEF ShareImage, ShareTold, ShareInv, ShareCallsOK, ShareCallTypes
<1>4. ShareCallsOK'
  <2>1. shareCalls' \subseteq ShareCallTypes /\ \A x \in shareCalls' : ShareCallOK(x)
    BY DEF ShareImage
  <2> QED BY <2>1 DEF ShareCallsOK, ShareCallOK, ChangesBoards
<1>5. ShareServiceTypes' /\ SharePageOK'
  BY DEF ShareInv, ShareServiceTypes, SharePageOK, ShareEffect
<1>6. ShareAccess'
  <2>1. DefaultBoard \in OfBoards
    BY DEF ShareAssumption
  <2>2. User \in shareMembers'[DefaultBoard]
    BY <1>3, <2>1 DEF ShareInv, ShareAccess, ShareEffect
  <2>3. \A b \in OfBoards : shareMembers'[b] # {} => User \in shareMembers'[b]
    BY <1>3 DEF ShareInv, ShareAccess, ShareEffect
  <2> QED BY <2>2, <2>3 DEF ShareAccess
<1>7. ShareBusy'
  <2>1. sharePage.sharing <=> \E x \in shareCalls' : ChangesMembers(x)
    BY <1>1, <1>2 DEF ShareInv, ShareBusy
  <2>2. sharePage.changing <=> \E x \in shareCalls' : ChangesBoards(x)
    BY <1>1, <1>2 DEF ShareInv, ShareBusy
  <2>3. ASSUME NEW x \in shareCalls', NEW y \in shareCalls', (ChangesBoards(x) /\ ChangesBoards(y)) \/ (ChangesMembers(x) /\ ChangesMembers(y))
        PROVE  x = y
    <3>1. PICK d \in shareCalls : x = img[d]
      BY <1>1
    <3>2. PICK e \in shareCalls : y = img[e]
      BY <1>1
    <3> QED BY <2>3, <3>1, <3>2, <1>2 DEF ShareInv, ShareBusy
  <2> QED BY <2>1, <2>2, <2>3 DEF ShareBusy, ChangesMembers, ChangesBoards
<1>8. ShareListFollows'
  <2>1. ASSUME NEW d \in shareCalls, ShareWillList(d) PROVE \E x \in shareCalls' : ShareWillList(x)
    BY <2>1, <1>2 DEF ShareWillList
  <2>2. ChangesBoards(v) => \E x \in shareCalls' : ShareWillList(x)
    BY <1>3 DEF ShareWillList
  <2> QED BY <2>1, <2>2 DEF ShareInv, ShareListFollows
<1>9. ShareMembersFollow'
  <2>1. ASSUME NEW d \in shareCalls, ShareWillShow(d) PROVE \E x \in shareCalls' : ShareWillShow(x)
    BY <2>1, <1>2 DEF ShareWillShow
  <2>2. ChangesMembers(v) \/ v.op \in {"create", "delete"} => \E x \in shareCalls' : ShareWillShow(x)
    BY <1>3 DEF ShareWillShow, ChangesMembers
  <2> QED BY <2>1, <2>2 DEF ShareInv, ShareMembersFollow, ShareEffect
<1>10. ShareShownHaveAccess'
  <2> SUFFICES ASSUME ~shareCrossed, ~ShareLoadsMembers'
               PROVE  \/ sharePage.shown \subseteq shareMembers'[sharePage.managed]
                      \/ \E x \in shareCalls' : x.op = "remove" /\ ShareTold(x)
                      \/ shareMembers'[sharePage.managed] = {} /\ \E x \in shareCalls' : x.op = "delete"
    BY DEF ShareShownHaveAccess, ShareTold
  <2>1. ~ShareLoadsMembers
    BY <1>2 DEF ShareLoadsMembers
  <2>2. sharePage.managed \in OfBoards
    BY DEF ShareInv, SharePageOK, SharePageTypes
  <2>3. CASE sharePage.shown \subseteq shareMembers[sharePage.managed]
    <3>1. CASE c.board # sharePage.managed
      BY <2>2, <2>3, <3>1 DEF ShareEffect
    <3>2. CASE c.board = sharePage.managed /\ c.op = "remove"
      BY <3>2, <1>3
    <3>3. CASE c.board = sharePage.managed /\ c.op # "remove"
      BY <2>3, <3>3, <1>3 DEF ShareEffect
    <3> QED BY <3>1, <3>2, <3>3
  <2>4. CASE \E d \in shareCalls : d.op = "remove" /\ ShareTold(d)
    BY <2>4, <1>2
  <2>5. CASE shareMembers[sharePage.managed] = {} /\ \E d \in shareCalls : d.op = "delete"
    <3>1. PICK d \in shareCalls : d.op = "delete"
      BY <2>5
    <3>2. img[d] \in shareCalls' /\ img[d].op = "delete"
      BY <3>1, <1>2
    <3>3. c.op # "create"
      BY <3>1 DEF ShareInv, ShareBusy, ChangesBoards
    <3>4. shareMembers'[sharePage.managed] = {}
      BY <2>2, <2>5, <3>3 DEF ShareEffect
    <3> QED BY <3>2, <3>4
  <2> QED BY <2>1, <2>3, <2>4, <2>5 DEF ShareInv, ShareShownHaveAccess
<1>11. ShareStays'
  <2>1. ASSUME NEW b \in OfBoards, ShareHome(b)
        PROVE  User \in shareMembers'[b] \/ \E x \in shareCalls' : x.op = "delete" /\ x.board = b
    <3>1. CASE User \in shareMembers[b]
      BY <3>1, <1>3 DEF ShareEffect
    <3>2. CASE \E d \in shareCalls : d.op = "delete" /\ d.board = b
      BY <3>2, <1>2
    <3> QED BY <2>1, <3>1, <3>2 DEF ShareHome
  <2>2. sharePage.active \in OfBoards /\ sharePage.managed \in OfBoards
    BY DEF ShareInv, SharePageOK, SharePageTypes
  <2>3. ~shareStrayed => ShareHome(sharePage.active) /\ ShareHome(sharePage.managed)
    BY DEF ShareInv, ShareStays
  <2> QED BY <2>1, <2>2, <2>3 DEF ShareStays, ShareHome
<1>12. ShareMade'
  <2> SUFFICES ASSUME NEW x \in shareCalls', x.op = "create", x.stage = "projects" \/ x.at = "done"
               PROVE  User \in shareMembers'[x.board]
    BY DEF ShareMade
  <2>1. PICK d \in shareCalls : x = img[d]
    BY <1>1
  <2>2. d.op = "create" /\ d.board = x.board /\ d.stage = x.stage /\ d.board \in OfBoards
    BY <2>1, <1>2 DEF ShareInv, ShareCallsOK, ShareCallTypes
  <2>3. d.stage \in {"write", "projects"}
    BY <2>2 DEF ShareInv, ShareCallsOK, ShareCallOK, ChangesBoards
  <2>4. CASE User \in shareMembers[d.board]
    <3>1. c.op = "delete" => FALSE
      BY <2>2 DEF ShareInv, ShareBusy, ChangesBoards
    <3> QED BY <2>2, <2>4, <3>1, <1>3 DEF ShareEffect
  <2>5. CASE User \notin shareMembers[d.board]
    <3>1. ~(d.stage = "projects" \/ d.at = "done")
      BY <2>2, <2>5 DEF ShareInv, ShareMade
    <3>2. d.stage = "write" /\ x.at = "done"
      BY <2>2, <2>3, <3>1
    <3>3. d = c
      BY <2>1, <3>1, <3>2 DEF ShareImage
    <3> QED BY <2>1, <2>2, <3>1, <3>2, <3>3 DEF ShareImage, ShareEffect
  <2> QED BY <2>4, <2>5
<1> QED BY <1>4, <1>5, <1>6, <1>7, <1>8, <1>9, <1>10, <1>11, <1>12 DEF ShareInv

LEMMA OneAnswered ==
  ASSUME ShareInv, NEW c \in shareCalls, NEW v \in ShareCallTypes, ShareCallOK(v), v.op = c.op, v.board = c.board, v.stage = c.stage,
         v.at # "sent", shareCalls' = (shareCalls \ {c}) \cup {v}
  PROVE  \E img : ShareImage(img, c, v)
<1>1. PICK img : img = [d \in shareCalls |-> IF d = c THEN v ELSE d]
  OBVIOUS
<1>2. shareCalls' = {img[d] : d \in shareCalls} /\ img[c] = v
  BY <1>1
<1>3. ASSUME NEW d \in shareCalls
      PROVE  /\ img[d] \in ShareCallTypes /\ ShareCallOK(img[d])
             /\ img[d].op = d.op /\ img[d].board = d.board /\ img[d].stage = d.stage
             /\ d.at # "sent" => img[d].at # "sent"
             /\ d # c /\ img[d].at = "done" => d.at = "done"
  <2>1. CASE d = c
    BY <2>1, <1>1
  <2>2. CASE d # c
    BY <2>2, <1>1 DEF ShareInv, ShareCallsOK
  <2> QED BY <2>1, <2>2
<1> QED BY <1>2, <1>3 DEF ShareImage

\* A change that is accepted makes the loads that were answered before it late.
ShareAged(d, stage) == IF d.stage = stage /\ d.at \in {"done", "refused"} THEN [d EXCEPT !.at = "late"] ELSE d
LEMMA AgedOK ==
  ASSUME NEW d \in ShareCallTypes, ShareCallOK(d), NEW stage \in {"members", "projects"}
  PROVE  /\ ShareAged(d, stage) \in ShareCallTypes /\ ShareCallOK(ShareAged(d, stage))
         /\ ShareAged(d, stage).op = d.op /\ ShareAged(d, stage).board = d.board /\ ShareAged(d, stage).stage = d.stage
         /\ ShareAged(d, stage).at = d.at \/ (ShareAged(d, stage).at = "late" /\ d.at \in {"done", "refused"})
         /\ d.stage = stage => ShareAged(d, stage).at \notin {"done", "refused"}
<1>1. CASE d.stage = stage /\ d.at \in {"done", "refused"}
  <2>1. PICK w : w = [d EXCEPT !.at = "late"]
    OBVIOUS
  <2>2. /\ w \in ShareCallTypes /\ w.op = d.op /\ w.board = d.board /\ w.stage = d.stage /\ w.at = "late" /\ w.doc = d.doc
        /\ w.who = d.who
    BY <2>1 DEF ShareCallTypes
  <2>3. ShareCallOK(w)
    BY <1>1, <2>2 DEF ShareCallOK, ChangesBoards
  <2> QED BY <1>1, <2>1, <2>2, <2>3 DEF ShareAged
<1>2. CASE ~(d.stage = stage /\ d.at \in {"done", "refused"})
  BY <1>2 DEF ShareAged
<1> QED BY <1>1, <1>2

LEMMA Accepted ==
  ASSUME ShareInv, NEW c \in shareCalls, NEW v \in ShareCallTypes, ShareCallOK(v), v.op = c.op, v.board = c.board, v.stage = c.stage,
         v.stage = "write", v.at # "sent", shareCalls' = Share!Overtaken(Share!Overtaken((shareCalls \ {c}) \cup {v}, "members"), "projects")
  PROVE  (\E img : ShareImage(img, c, v)) /\ ShareFresh'
<1> DEFINE Late(d) == ShareAged(ShareAged(d, "members"), "projects")
<1>1. shareCalls' = {Late(d) : d \in (shareCalls \ {c}) \cup {v}}
  BY DEF Share!Overtaken, ShareAged
<1>2. PICK img : img = [d \in shareCalls |-> IF d = c THEN v ELSE Late(d)]
  OBVIOUS
<1>3. Late(v) = v
  BY DEF ShareAged
<1>4. shareCalls' = {img[d] : d \in shareCalls} /\ img[c] = v
  BY <1>1, <1>2, <1>3
<1>5. ASSUME NEW d \in shareCalls, d # c
      PROVE  /\ Late(d) \in ShareCallTypes /\ ShareCallOK(Late(d))
             /\ Late(d).op = d.op /\ Late(d).board = d.board /\ Late(d).stage = d.stage
             /\ Late(d).at = d.at \/ (Late(d).at = "late" /\ d.at \in {"done", "refused"})
             /\ d.stage \in {"members", "projects"} => Late(d).at \notin {"done", "refused"}
  <2>1. d \in ShareCallTypes /\ ShareCallOK(d)
    BY DEF ShareInv, ShareCallsOK
  <2>2. PICK e : e = ShareAged(d, "members")
    OBVIOUS
  <2>3. /\ e \in ShareCallTypes /\ ShareCallOK(e) /\ e.op = d.op /\ e.board = d.board /\ e.stage = d.stage
        /\ e.at = d.at \/ (e.at = "late" /\ d.at \in {"done", "refused"})
        /\ d.stage = "members" => e.at \notin {"done", "refused"}
    BY <2>1, <2>2, AgedOK
  <2>4. PICK f : f = ShareAged(e, "projects")
    OBVIOUS
  <2>5. /\ f \in ShareCallTypes /\ ShareCallOK(f) /\ f.op = e.op /\ f.board = e.board /\ f.stage = e.stage
        /\ f.at = e.at \/ (f.at = "late" /\ e.at \in {"done", "refused"})
        /\ e.stage = "projects" => f.at \notin {"done", "refused"}
    BY <2>3, <2>4, AgedOK
  <2>6. Late(d) = f
    BY <2>2, <2>4
  <2> QED BY <2>3, <2>5, <2>6
<1>6. ASSUME NEW d \in shareCalls
      PROVE  /\ img[d] \in ShareCallTypes /\ ShareCallOK(img[d])
             /\ img[d].op = d.op /\ img[d].board = d.board /\ img[d].stage = d.stage
             /\ d.at # "sent" => img[d].at # "sent"
             /\ d # c /\ img[d].at = "done" => d.at = "done"
  <2>1. CASE d = c
    BY <2>1, <1>2
  <2>2. CASE d # c
    <3>1. img[d] = Late(d)
      BY <2>2, <1>2
    <3> HIDE DEF Late
    <3> QED BY <2>2, <3>1, <1>5
  <2> QED BY <2>1, <2>2
<1>7. ShareImage(img, c, v)
  BY <1>4, <1>6 DEF ShareImage
<1>8. ASSUME NEW x \in shareCalls', x.stage \in {"members", "projects"}
      PROVE  x.at \notin {"done", "refused"}
  <2>1. PICK d \in shareCalls : x = img[d]
    BY <1>4
  <2>2. d # c /\ d.stage \in {"members", "projects"}
    BY <1>6, <1>8, <2>1
  <2>3. x = Late(d)
    BY <1>2, <2>1, <2>2
  <2> HIDE DEF Late
  <2> QED BY <1>5, <2>2, <2>3
<1>9. ShareFresh'
  BY <1>8 DEF ShareFresh
<1> QED BY <1>7, <1>9

\* The chain whose change was made, or not.
LEMMA Written ==
  ASSUME ShareInv, NEW c \in shareCalls, Share!Waits(c), NEW status \in {"done", "failed"}
  PROVE  LET v == [c EXCEPT !.at = status, !.doc = <<c.stage, Nil>>] IN
         /\ v \in ShareCallTypes /\ ShareCallOK(v) /\ v.op = c.op /\ v.board = c.board /\ v.stage = c.stage /\ v.stage = "write"
         /\ v.at = status /\ c.board \in OfBoards /\ c.op \in ShareOps
<1>1. c \in ShareCallTypes /\ ShareCallOK(c) /\ c.stage = "write"
  BY DEF ShareInv, ShareCallsOK, Share!Waits
<1>2. PICK doc : doc = <<c.stage, Nil>>
  OBVIOUS
<1>3. doc \in {Nil} \cup (ShareStages \X ShareAnswers)
  <2>1. Nil \in ShareAnswers
    BY DEF ShareAnswers
  <2>2. c.stage \in ShareStages
    BY <1>1 DEF ShareCallTypes
  <2>3. doc \in ShareStages \X ShareAnswers
    BY <1>2, <2>1, <2>2
  <2> QED BY <2>3
<1>4. PICK v : v = [c EXCEPT !.at = status, !.doc = doc]
  OBVIOUS
<1>5. /\ v \in ShareCallTypes /\ v.op = c.op /\ v.board = c.board /\ v.stage = c.stage /\ v.who = c.who /\ v.at = status
      /\ c.board \in OfBoards /\ c.op \in ShareOps
  BY <1>1, <1>3, <1>4 DEF ShareCallTypes
<1>6. ShareCallOK(v)
  BY <1>1, <1>5 DEF ShareCallOK, ChangesBoards
<1> QED BY <1>1, <1>2, <1>4, <1>5, <1>6

LEMMA AcceptKeeps ==
  ASSUME ShareAssumption, ShareInv, NEW c \in shareCalls, Share!Waits(c), NEW status \in {"done", "failed"},
         NEW v, v = [c EXCEPT !.at = status, !.doc = <<c.stage, Nil>>],
         shareCalls' = Share!Overtaken(Share!Overtaken((shareCalls \ {c}) \cup {v}, "members"), "projects"), ShareEffect(c, v),
         Share!Listing' = Share!Listing \/ ChangesBoards(v),
         shareProjects' \in [OfBoards -> {Nil} \cup [name : BoardTitles, archived : BOOLEAN]], shareInvited' \in SUBSET Outsiders,
         UNCHANGED <<shareList, shareKnown, sharePage, shareStale, shareCrossed, shareSkipped, shareStrayed>>
  PROVE  ShareInv'
<1>1. /\ v \in ShareCallTypes /\ ShareCallOK(v) /\ v.op = c.op /\ v.board = c.board /\ v.stage = c.stage /\ v.stage = "write"
      /\ v.at = status
  BY Written
<1>2. (\E img : ShareImage(img, c, v)) /\ ShareFresh'
  BY <1>1, Accepted
<1>3. PICK img : ShareImage(img, c, v)
  BY <1>2
<1> QED BY <1>1, <1>2, <1>3, ServedKeeps

\* A change that is refused changes nothing.
LEMMA ShareAnsweredKeeps ==
  ASSUME ShareAssumption, ShareInv, NEW c \in shareCalls, NEW v \in ShareCallTypes, ShareCallOK(v),
         v.op = c.op, v.board = c.board, v.stage = c.stage, v.at # "sent", shareCalls' = (shareCalls \ {c}) \cup {v},
         v.op = "create" /\ v.stage = "write" => v.at # "done",
         v.stage = "projects" /\ v.at = "done" => v.doc[2] = Share!Listing,
         v.stage = "members" /\ v.at \in {"done", "refused"} => v.doc[2] = shareMembers[v.board],
         UNCHANGED <<shareProjects, shareMembers, shareWithTasks>>, shareInvited' \in SUBSET Outsiders,
         UNCHANGED <<shareList, shareKnown, sharePage, shareStale, shareCrossed, shareSkipped, shareStrayed>>
  PROVE  ShareInv'
<1>1. PICK img : ShareImage(img, c, v)
  BY OneAnswered
<1>2. Share!Listing' = Share!Listing
  BY DEF Share!Listing
<1>3. ShareFresh'
  BY <1>2 DEF ShareInv, ShareFresh
<1>4. c.board \in OfBoards
  BY DEF ShareInv, ShareCallsOK, ShareCallTypes
<1>5. ShareEffect(c, v)
  BY <1>4 DEF ShareEffect, ShareInv, ShareServiceTypes, ShareAccess
<1>6. shareProjects' \in [OfBoards -> {Nil} \cup [name : BoardTitles, archived : BOOLEAN]]
  BY DEF ShareInv, ShareServiceTypes
<1> QED BY <1>1, <1>2, <1>3, <1>5, <1>6, ServedKeeps

LEMMA RefuseKeeps ==
  ASSUME ShareAssumption, ShareInv, NEW c \in shareCalls, Share!Waits(c), Share!Refuse(c),
         UNCHANGED <<shareList, shareKnown, sharePage, shareStale, shareCrossed, shareSkipped, shareStrayed>>
  PROVE  ShareInv'
<1>1. PICK v : v = [c EXCEPT !.at = "failed", !.doc = <<c.stage, Nil>>]
  OBVIOUS
<1>2. /\ v \in ShareCallTypes /\ ShareCallOK(v) /\ v.op = c.op /\ v.board = c.board /\ v.stage = c.stage /\ v.stage = "write"
      /\ v.at = "failed"
  BY <1>1, Written
<1>3. shareCalls' = (shareCalls \ {c}) \cup {v} /\ UNCHANGED <<shareProjects, shareMembers, shareWithTasks, shareInvited>>
  BY <1>1 DEF Share!Refuse, Share!Answered, Share!service
<1>4. shareInvited' \in SUBSET Outsiders
  BY <1>3 DEF ShareInv, ShareServiceTypes
<1> QED BY <1>2, <1>3, <1>4, ShareAnsweredKeeps

LEMMA BoardMemberKeeps ==
  ASSUME ShareAssumption, ShareInv, NEW c \in shareCalls, Share!handleBoardMember(c),
         UNCHANGED <<shareList, shareKnown, sharePage, shareStale, shareCrossed, shareSkipped, shareStrayed>>
  PROVE  ShareInv'
<1>1. Share!Waits(c) /\ c \in ShareCallTypes /\ ShareCallOK(c) /\ c.board \in OfBoards /\ c.op \in {"add", "remove", "invite"} /\ c.who \in Share!Users
  BY DEF ShareInv, ShareCallsOK, ShareCallTypes, ShareCallOK, Share!handleBoardMember
<1>2. CASE Share!Refuse(c)
  BY <1>1, <1>2, RefuseKeeps
<1>3. CASE /\ Share!Allowed(c) /\ (c.op = "remove" => c.who # User /\ c.who \in shareMembers[c.board])
           /\ shareMembers' = IF c.op = "remove" THEN [shareMembers EXCEPT ![c.board] = @ \ {c.who}] ELSE Share!Joined(c, c.who)
           /\ Share!Accept(c) /\ UNCHANGED <<shareProjects, shareWithTasks, shareInvited, shareFailures>>
  <2>1. PICK v : v = [c EXCEPT !.at = "done", !.doc = <<c.stage, Nil>>]
    OBVIOUS
  <2>2. v.op = c.op /\ v.board = c.board /\ v.stage = "write"
    BY <1>1, <2>1, Written
  <2>3. shareCalls' = Share!Overtaken(Share!Overtaken((shareCalls \ {c}) \cup {v}, "members"), "projects")
    BY <1>3, <2>1 DEF Share!Accept, Share!Answered
  <2>4. User \in shareMembers[c.board] /\ shareMembers \in [OfBoards -> SUBSET Share!Users]
    BY <1>3 DEF Share!Allowed, ShareInv, ShareServiceTypes
  <2>5. /\ shareMembers' \in [OfBoards -> SUBSET Share!Users] /\ (\A b \in OfBoards : b # c.board => shareMembers'[b] = shareMembers[b])
        /\ c.op = "remove" => shareMembers'[c.board] = shareMembers[c.board] \ {c.who} /\ c.who # User
        /\ c.op # "remove" => shareMembers'[c.board] = shareMembers[c.board] \cup {c.who}
    BY <1>1, <1>3, <2>4 DEF Share!Joined
  <2>6. ShareEffect(c, v)
    BY <1>1, <2>2, <2>4, <2>5 DEF ShareEffect, ChangesMembers
  <2>7. Share!Listing' = Share!Listing
    <3>1. \A b \in OfBoards : User \in shareMembers'[b] <=> User \in shareMembers[b]
      BY <1>1, <2>4, <2>5
    <3> QED BY <1>3, <3>1 DEF Share!Listing
  <2>8. shareProjects' \in [OfBoards -> {Nil} \cup [name : BoardTitles, archived : BOOLEAN]] /\ shareInvited' \in SUBSET Outsiders
    BY <1>3 DEF ShareInv, ShareServiceTypes
  <2> QED BY <1>1, <2>1, <2>3, <2>6, <2>7, <2>8, AcceptKeeps
<1> QED BY <1>2, <1>3 DEF Share!handleBoardMember

LEMMA InviteMemberKeeps ==
  ASSUME ShareAssumption, ShareInv, NEW c \in shareCalls, Share!InviteMember(c),
         UNCHANGED <<shareList, shareKnown, sharePage, shareStale, shareCrossed, shareSkipped, shareStrayed>>
  PROVE  ShareInv'
<1>1. PICK v : v = [c EXCEPT !.at = "done", !.doc = <<c.stage, Nil>>]
  OBVIOUS
<1>2. Share!Waits(c) /\ c.op = "invite" /\ c.who \in Outsiders
  BY DEF Share!InviteMember
<1>3. /\ v \in ShareCallTypes /\ ShareCallOK(v) /\ v.op = c.op /\ v.board = c.board /\ v.stage = c.stage /\ v.stage = "write"
      /\ v.at = "done"
  BY <1>1, <1>2, Written
<1>4. shareCalls' = (shareCalls \ {c}) \cup {v} /\ UNCHANGED <<shareProjects, shareMembers, shareWithTasks>> /\ shareInvited' = shareInvited \cup {c.who}
  BY <1>1 DEF Share!InviteMember, Share!Answered
<1>5. shareInvited' \in SUBSET Outsiders
  BY <1>2, <1>4 DEF ShareInv, ShareServiceTypes
<1> QED BY <1>2, <1>3, <1>4, <1>5, ShareAnsweredKeeps

LEMMA Upsert ==
  ASSUME ShareInv, NEW c \in shareCalls, c.op \in {"create", "rename"}
  PROVE  Share!Upserted(c) \in [OfBoards -> {Nil} \cup [name : BoardTitles, archived : BOOLEAN]]
<1>1. c \in ShareCallTypes /\ ShareCallOK(c) /\ c.board \in OfBoards /\ c.who \in BoardTitles
  BY DEF ShareInv, ShareCallsOK, ShareCallTypes, ShareCallOK
<1>2. PICK r : r = IF shareProjects[c.board] = Nil THEN [name |-> c.who, archived |-> FALSE] ELSE [shareProjects[c.board] EXCEPT !.name = c.who]
  OBVIOUS
<1>3. shareProjects[c.board] \in {Nil} \cup [name : BoardTitles, archived : BOOLEAN]
  BY <1>1 DEF ShareInv, ShareServiceTypes
<1>4. r \in [name : BoardTitles, archived : BOOLEAN]
  <2>1. CASE shareProjects[c.board] = Nil
    BY <1>1, <1>2, <2>1
  <2>2. CASE shareProjects[c.board] # Nil
    BY <1>1, <1>2, <1>3, <2>2
  <2> QED BY <2>1, <2>2
<1>5. Share!Upserted(c) = [shareProjects EXCEPT ![c.board] = r]
  BY <1>2 DEF Share!Upserted
<1> QED BY <1>1, <1>4, <1>5 DEF ShareInv, ShareServiceTypes

LEMMA CreateKeeps ==
  ASSUME ShareAssumption, ShareInv, NEW c \in shareCalls, Share!handleCreateProject(c),
         UNCHANGED <<shareList, shareKnown, sharePage, shareStale, shareCrossed, shareSkipped, shareStrayed>>
  PROVE  ShareInv'
<1>1. Share!Waits(c) /\ c.op = "create" /\ c \in ShareCallTypes /\ c.board \in OfBoards /\ shareMembers' = Share!Joined(c, User)
      /\ UNCHANGED <<shareWithTasks, shareInvited>>
  BY DEF ShareInv, ShareCallsOK, ShareCallTypes, Share!handleCreateProject
<1>2. PICK status \in {"done", "failed"} :
        /\ shareCalls' = Share!Overtaken(Share!Overtaken(Share!Answered(c, status, Nil), "members"), "projects")
        /\ shareProjects' = Share!Upserted(c) \/ UNCHANGED shareProjects
  BY DEF Share!handleCreateProject, Share!Accept
<1>3. PICK v : v = [c EXCEPT !.at = status, !.doc = <<c.stage, Nil>>]
  OBVIOUS
<1>4. v.op = c.op /\ v.board = c.board /\ v.stage = "write"
  BY <1>1, <1>3, Written
<1>5. shareCalls' = Share!Overtaken(Share!Overtaken((shareCalls \ {c}) \cup {v}, "members"), "projects")
  BY <1>2, <1>3 DEF Share!Answered
<1>6. /\ shareMembers' \in [OfBoards -> SUBSET Share!Users] /\ (\A b \in OfBoards : b # c.board => shareMembers'[b] = shareMembers[b])
      /\ shareMembers'[c.board] = shareMembers[c.board] \cup {User}
  BY <1>1 DEF Share!Joined, ShareInv, ShareServiceTypes, Share!Users
<1>7. ShareEffect(c, v)
  BY <1>1, <1>4, <1>6 DEF ShareEffect
<1>8. ChangesBoards(v)
  BY <1>1, <1>4 DEF ChangesBoards
<1>9. shareProjects' \in [OfBoards -> {Nil} \cup [name : BoardTitles, archived : BOOLEAN]] /\ shareInvited' \in SUBSET Outsiders
  BY <1>1, <1>2, Upsert DEF ShareInv, ShareServiceTypes
<1> QED BY <1>1, <1>3, <1>5, <1>7, <1>8, <1>9, AcceptKeeps

LEMMA PatchKeeps ==
  ASSUME ShareAssumption, ShareInv, NEW c \in shareCalls, Share!handlePatchProject(c),
         UNCHANGED <<shareList, shareKnown, sharePage, shareStale, shareCrossed, shareSkipped, shareStrayed>>
  PROVE  ShareInv'
<1>1. Share!Waits(c) /\ c.op = "rename" /\ c \in ShareCallTypes /\ c.board \in OfBoards
  BY DEF ShareInv, ShareCallsOK, ShareCallTypes, Share!handlePatchProject
<1>2. CASE Share!Refuse(c)
  BY <1>1, <1>2, RefuseKeeps
<1>3. CASE shareProjects' = Share!Upserted(c) /\ Share!Accept(c) /\ UNCHANGED <<shareMembers, shareWithTasks, shareInvited, shareFailures>>
  <2>1. PICK v : v = [c EXCEPT !.at = "done", !.doc = <<c.stage, Nil>>]
    OBVIOUS
  <2>2. v.op = c.op /\ v.board = c.board /\ v.stage = "write"
    BY <1>1, <2>1, Written
  <2>3. shareCalls' = Share!Overtaken(Share!Overtaken((shareCalls \ {c}) \cup {v}, "members"), "projects")
    BY <1>3, <2>1 DEF Share!Accept, Share!Answered
  <2>4. ShareEffect(c, v) /\ ChangesBoards(v)
    BY <1>1, <1>3, <2>2 DEF ShareEffect, ChangesBoards, ShareInv, ShareServiceTypes, ShareAccess
  <2>5. shareProjects' \in [OfBoards -> {Nil} \cup [name : BoardTitles, archived : BOOLEAN]] /\ shareInvited' \in SUBSET Outsiders
    BY <1>1, <1>3, Upsert DEF ShareInv, ShareServiceTypes
  <2> QED BY <1>1, <2>1, <2>3, <2>4, <2>5, AcceptKeeps
<1> QED BY <1>2, <1>3 DEF Share!handlePatchProject

LEMMA DeleteKeeps ==
  ASSUME ShareAssumption, ShareInv, NEW c \in shareCalls, Share!handleDeleteProject(c),
         UNCHANGED <<shareList, shareKnown, sharePage, shareStale, shareCrossed, shareSkipped, shareStrayed>>
  PROVE  ShareInv'
<1>1. Share!Waits(c) /\ c.op = "delete" /\ c \in ShareCallTypes /\ ShareCallOK(c) /\ c.board \in OfBoards
  BY DEF ShareInv, ShareCallsOK, ShareCallTypes, Share!handleDeleteProject
<1>2. CASE Share!Refuse(c)
  BY <1>1, <1>2, RefuseKeeps
<1>3. CASE /\ shareProjects[c.board] # Nil
           /\ shareProjects' = [shareProjects EXCEPT ![c.board].archived = TRUE] /\ Share!Accept(c)
           /\ shareMembers' = [shareMembers EXCEPT ![c.board] = {}] \/ UNCHANGED shareMembers
           /\ UNCHANGED <<shareWithTasks, shareInvited>>
  <2>1. PICK v : v = [c EXCEPT !.at = "done", !.doc = <<c.stage, Nil>>]
    OBVIOUS
  <2>2. v.op = c.op /\ v.board = c.board /\ v.stage = "write" /\ c.board # DefaultBoard
    BY <1>1, <2>1, Written DEF ShareCallOK
  <2>3. shareCalls' = Share!Overtaken(Share!Overtaken((shareCalls \ {c}) \cup {v}, "members"), "projects")
    BY <1>3, <2>1 DEF Share!Accept, Share!Answered
  <2>4. /\ shareMembers' \in [OfBoards -> SUBSET Share!Users] /\ (\A b \in OfBoards : b # c.board => shareMembers'[b] = shareMembers[b])
        /\ shareMembers'[c.board] = {} \/ shareMembers' = shareMembers
    BY <1>1, <1>3 DEF ShareInv, ShareServiceTypes
  <2>5. ShareEffect(c, v) /\ ChangesBoards(v)
    BY <1>1, <2>2, <2>4 DEF ShareEffect, ChangesBoards, ShareInv, ShareAccess
  <2>6. shareProjects' \in [OfBoards -> {Nil} \cup [name : BoardTitles, archived : BOOLEAN]] /\ shareInvited' \in SUBSET Outsiders
    <3>1. shareProjects[c.board] \in [name : BoardTitles, archived : BOOLEAN]
      BY <1>1, <1>3 DEF ShareInv, ShareServiceTypes
    <3>2. PICK r : r = [shareProjects[c.board] EXCEPT !.archived = TRUE]
      OBVIOUS
    <3>3. r \in [name : BoardTitles, archived : BOOLEAN]
      BY <3>1, <3>2
    <3>4. shareProjects' = [shareProjects EXCEPT ![c.board] = r]
      BY <1>3, <3>2
    <3> QED BY <1>1, <1>3, <3>3, <3>4 DEF ShareInv, ShareServiceTypes
  <2> QED BY <1>1, <2>1, <2>3, <2>5, <2>6, AcceptKeeps
<1> QED BY <1>2, <1>3 DEF Share!handleDeleteProject

LEMMA ServeReadKeeps ==
  ASSUME ShareAssumption, ShareInv, NEW c \in shareCalls, Share!ServeRead(c),
         UNCHANGED <<shareList, shareKnown, sharePage, shareStale, shareCrossed, shareSkipped, shareStrayed>>
  PROVE  ShareInv'
<1>1. c \in ShareCallTypes /\ ShareCallOK(c) /\ c.at = "sent" /\ c.stage \in {"members", "projects", "settings"} /\ c.board \in OfBoards
  BY DEF ShareInv, ShareCallsOK, ShareCallTypes, ShareCallOK, Share!ServeRead, ShareStages
<1>2. PICK status, doc : /\ shareCalls' = Share!Answered(c, status, doc)
                         /\ \/ c.stage = "members" /\ ~Share!Allowed(c) /\ status = "refused" /\ doc = {}
                            \/ c.stage = "members" /\ Share!Allowed(c) /\ status = "done" /\ doc = shareMembers[c.board]
                            \/ c.stage = "projects" /\ status = "done" /\ doc = Share!Listing
                            \/ c.stage = "settings" /\ status = "done" /\ doc = shareInvited
  BY <1>1 DEF Share!ServeRead
<1>3. /\ c.stage = "members" => doc \in SUBSET Share!Users /\ doc = shareMembers[c.board] /\ status \in {"done", "refused"}
      /\ c.stage = "projects" => doc \in ShareLists /\ doc = Share!Listing /\ status = "done"
      /\ c.stage = "settings" => doc \in SUBSET Outsiders /\ status = "done"
  BY <1>1, <1>2, ListingTyped DEF ShareInv, ShareServiceTypes, Share!Allowed, ShareAccess
<1>4. doc \in ShareAnswers /\ status \in {"done", "refused"}
  BY <1>1, <1>3 DEF ShareAnswers
<1>5. PICK pair : pair = <<c.stage, doc>>
  OBVIOUS
<1>6. pair \in {Nil} \cup (ShareStages \X ShareAnswers) /\ pair[2] = doc
  BY <1>1, <1>4, <1>5 DEF ShareStages
<1>7. PICK v : v = [c EXCEPT !.at = status, !.doc = pair]
  OBVIOUS
<1>8. /\ v \in ShareCallTypes /\ v.op = c.op /\ v.board = c.board /\ v.stage = c.stage /\ v.who = c.who /\ v.at = status
      /\ v.doc[2] = doc
  BY <1>1, <1>4, <1>6, <1>7 DEF ShareCallTypes
<1>9. ShareCallOK(v)
  BY <1>1, <1>3, <1>8 DEF ShareCallOK, ChangesBoards
<1>10. /\ shareCalls' = (shareCalls \ {c}) \cup {v} /\ v.at # "sent"
       /\ UNCHANGED <<shareProjects, shareMembers, shareWithTasks, shareInvited>>
  BY <1>2, <1>4, <1>5, <1>7, <1>8 DEF Share!Answered, Share!ServeRead, Share!service
<1>11. /\ v.stage # "write"
       /\ v.stage = "projects" /\ v.at = "done" => v.doc[2] = Share!Listing
       /\ v.stage = "members" /\ v.at \in {"done", "refused"} => v.doc[2] = shareMembers[v.board]
  BY <1>1, <1>3, <1>8
<1>12. shareInvited' \in SUBSET Outsiders
  BY <1>10 DEF ShareInv, ShareServiceTypes
<1> QED BY <1>8, <1>9, <1>10, <1>11, <1>12, ShareAnsweredKeeps

LEMMA CallFailsKeeps ==
  ASSUME ShareAssumption, ShareInv, NEW c \in shareCalls, Share!CallFails(c),
         UNCHANGED <<shareList, shareKnown, sharePage, shareStale, shareCrossed, shareSkipped, shareStrayed>>
  PROVE  ShareInv'
<1>1. c \in ShareCallTypes /\ ShareCallOK(c) /\ c.stage # "next" /\ c.stage \in ShareStages
  BY DEF ShareInv, ShareCallsOK, ShareCallTypes, Share!CallFails
<1>2. PICK pair : pair = <<c.stage, Nil>>
  OBVIOUS
<1>3. pair \in {Nil} \cup (ShareStages \X ShareAnswers)
  <2>1. Nil \in ShareAnswers
    BY DEF ShareAnswers
  <2> QED BY <1>1, <1>2, <2>1
<1>4. PICK v : v = [c EXCEPT !.at = "failed", !.doc = pair]
  OBVIOUS
<1>5. /\ v \in ShareCallTypes /\ v.op = c.op /\ v.board = c.board /\ v.stage = c.stage /\ v.who = c.who /\ v.at = "failed"
  BY <1>1, <1>3, <1>4 DEF ShareCallTypes
<1>6. ShareCallOK(v)
  BY <1>1, <1>5 DEF ShareCallOK, ChangesBoards
<1>7. shareCalls' = (shareCalls \ {c}) \cup {v} /\ UNCHANGED <<shareProjects, shareMembers, shareWithTasks, shareInvited>>
  BY <1>2, <1>4 DEF Share!CallFails, Share!Answered, Share!service
<1>8. shareInvited' \in SUBSET Outsiders
  BY <1>7 DEF ShareInv, ShareServiceTypes
<1> QED BY <1>5, <1>6, <1>7, <1>8, ShareAnsweredKeeps

LEMMA ShareServeKeeps ==
  ASSUME ShareAssumption, ShareInv, Share!Serve
  PROVE  ShareInv'
<1>1. UNCHANGED <<shareList, shareKnown, sharePage, shareStale, shareCrossed, shareSkipped, shareStrayed>>
  BY DEF Share!Serve, Share!excuses
<1>2. PICK c \in shareCalls : \/ Share!handleBoardMember(c) \/ Share!InviteMember(c) \/ Share!handleCreateProject(c) \/ Share!handlePatchProject(c)
                              \/ Share!handleDeleteProject(c) \/ Share!ServeRead(c) \/ Share!CallFails(c)
  BY DEF Share!Serve
<1> QED BY <1>1, <1>2, BoardMemberKeeps, InviteMemberKeeps, CreateKeeps, PatchKeeps, DeleteKeeps, ServeReadKeeps, CallFailsKeeps

-----------------------------------------------------------------------------
(* What the page does with the answers *)

\* Without a chain that says nothing of boards and members any more, all is as it was.
LEMMA FewerCalls ==
  ASSUME ShareInv, NEW gone, NEW more, shareCalls' = (shareCalls \ gone) \cup more,
         \A x \in more : x \in ShareCallTypes /\ ShareCallOK(x) /\ x.at = "sent" /\ x.op # "create",
         UNCHANGED <<shareProjects, shareMembers, shareWithTasks, shareInvited>>
  PROVE  ShareCallsOK' /\ ShareServiceTypes' /\ ShareAccess' /\ ShareFresh' /\ Share!Listing' = Share!Listing
         /\ \A x \in shareCalls' : x.op = "create" => x \in shareCalls
<1>1. ShareCallsOK'
  BY DEF ShareInv, ShareCallsOK, ShareCallOK, ChangesBoards
<1>2. ShareServiceTypes' /\ ShareAccess'
  BY DEF ShareInv, ShareServiceTypes, ShareAccess
<1>3. Share!Listing' = Share!Listing
  BY DEF Share!Listing
<1>4. ShareFresh'
  BY <1>3 DEF ShareInv, ShareFresh
<1> QED BY <1>1, <1>2, <1>3, <1>4

LEMMA MembersLoadedKeeps ==
  ASSUME ShareAssumption, ShareInv, NEW c \in shareCalls, Share!MembersLoaded(c)
  PROVE  ShareInv'
<1>1. c \in ShareCallTypes /\ ShareCallOK(c) /\ c.stage = "members" /\ c.at \in {"done", "refused", "late", "failed"} /\ sharePage \in SharePageTypes
  BY DEF ShareInv, ShareCallsOK, ShareCallTypes, SharePageOK, Share!MembersLoaded, Share!Ended
<1>2. PICK shown : shown = IF c.at = "failed" THEN {} ELSE c.doc[2]
  OBVIOUS
<1>3. shown \in SUBSET Share!Users
  BY <1>1, <1>2 DEF ShareCallOK
<1>4. /\ shareCalls' = shareCalls \ {c} /\ shareCrossed' = (c.at \in {"late", "failed"} \/ c.board # sharePage.managed)
      /\ UNCHANGED <<shareProjects, shareMembers, shareWithTasks, shareInvited, shareList, shareKnown, shareStale, shareSkipped, shareStrayed>>
      /\ sharePage' = [sharePage EXCEPT !.shown = shown, !.sharing = IF c \in Share!Sharing(shareCalls) THEN FALSE ELSE @]
  BY <1>2 DEF Share!MembersLoaded, Share!service
<1>5. /\ sharePage' \in SharePageTypes /\ sharePage'.active = sharePage.active /\ sharePage'.managed = sharePage.managed /\ sharePage'.changing = sharePage.changing
      /\ sharePage'.shown = shown /\ sharePage'.sharing = (sharePage.sharing /\ ~ChangesMembers(c))
  <2>1. c \in Share!Sharing(shareCalls) <=> ChangesMembers(c)
    BY DEF Share!Sharing, ChangesMembers
  <2> QED BY <1>1, <1>3, <1>4, <2>1 DEF SharePageTypes
<1>6. ShareCallsOK' /\ ShareServiceTypes' /\ ShareAccess' /\ ShareFresh' /\ Share!Listing' = Share!Listing
  <2>1. PICK gone, more : gone = {c} /\ more = {}
    OBVIOUS
  <2>2. shareCalls' = (shareCalls \ gone) \cup more /\ \A x \in more : x \in ShareCallTypes /\ ShareCallOK(x) /\ x.at = "sent" /\ x.op # "create"
    BY <1>4, <2>1
  <2> QED BY <1>4, <2>2, FewerCalls
<1>7. SharePageOK'
  BY <1>4, <1>5 DEF ShareInv, SharePageOK
<1>8. ShareBusy'
  <2>1. ~ChangesBoards(c)
    BY <1>1 DEF ShareCallOK, ChangesBoards
  <2> QED BY <1>4, <1>5, <2>1 DEF ShareInv, ShareBusy, ChangesMembers, ChangesBoards
<1>9. ShareListFollows'
  <2>1. ~ShareWillList(c)
    BY <1>1 DEF ShareCallOK, ShareWillList, ChangesBoards
  <2>2. ASSUME NEW d \in shareCalls, ShareWillList(d) PROVE \E x \in shareCalls' : ShareWillList(x)
    BY <1>4, <2>1, <2>2
  <2> QED BY <1>4, <1>6, <2>2 DEF ShareInv, ShareListFollows
<1>10. ~shareCrossed' => shown = shareMembers[sharePage.managed]
  BY <1>1, <1>2, <1>4 DEF ShareInv, ShareFresh
<1>11. ShareMembersFollow' /\ ShareShownHaveAccess'
  BY <1>4, <1>5, <1>10 DEF ShareMembersFollow, ShareShownHaveAccess
<1>12. ShareStays'
  <2>1. c.op # "delete"
    BY <1>1 DEF ShareCallOK, ChangesBoards
  <2>2. ASSUME NEW b, ShareHome(b) PROVE User \in shareMembers[b] \/ \E x \in shareCalls' : x.op = "delete" /\ x.board = b
    BY <1>4, <2>1, <2>2 DEF ShareHome
  <2> QED BY <1>4, <1>5, <2>2 DEF ShareInv, ShareStays, ShareHome
<1>13. ShareMade'
  BY <1>4 DEF ShareInv, ShareMade
<1> QED BY <1>6, <1>7, <1>8, <1>9, <1>11, <1>12, <1>13 DEF ShareInv

\* The list of boards that arrives is the one there is, or known to be old.
LEMMA ListArrives ==
  ASSUME ShareInv, NEW c \in shareCalls, c.stage = "projects", c.at # "sent", Share!Listing' = Share!Listing,
         shareList' = (IF c.at = "failed" THEN shareList ELSE c.doc[2]), shareStale' = (c.at # "done")
  PROVE  shareList' \in ShareLists /\ shareStale' \in BOOLEAN /\ ShareListFollows'
<1>1. c \in ShareCallTypes /\ ShareCallOK(c) /\ c.at \in {"done", "late", "failed"}
  BY DEF ShareInv, ShareCallsOK, ShareCallTypes, ShareCallOK
<1>2. shareList' \in ShareLists
  BY <1>1 DEF ShareCallOK, ShareInv, SharePageOK
<1>3. ~shareStale' => shareList' = Share!Listing
  BY <1>1 DEF ShareInv, ShareFresh
<1> QED BY <1>2, <1>3 DEF ShareListFollows

LEMMA ProjectsLoadedKeeps ==
  ASSUME ShareAssumption, ShareInv, NEW c \in shareCalls, Share!ProjectsLoaded(c)
  PROVE  ShareInv'
<1>1. c \in ShareCallTypes /\ ShareCallOK(c) /\ c.stage = "projects" /\ c.at # "sent" /\ sharePage \in SharePageTypes /\ c.board \in OfBoards
      /\ DefaultBoard \in OfBoards /\ Nil \notin OfBoards
  BY DEF ShareInv, ShareCallsOK, ShareCallTypes, SharePageOK, Share!ProjectsLoaded, Share!Ended, ShareAssumption
<1>2. c.op = "mount" \/ ChangesBoards(c)
  BY <1>1 DEF ShareCallOK, ChangesBoards, ShareCallTypes, ShareOps
<1>3. PICK next : next = IF c.op = "create" THEN c.board ELSE IF c.op = "delete" THEN Share!ManagedAfter(c.board) ELSE Nil
  OBVIOUS
<1>4. PICK active : active = IF c.op = "create" \/ (c.op = "delete" /\ sharePage.active = c.board) THEN next ELSE sharePage.active
  OBVIOUS
<1>5. PICK more : more = IF next = Nil THEN {} ELSE {Share!LoadBoardMembers("dialog", next)} \cup Share!OpenLoads(sharePage, active)
  OBVIOUS
<1>6. /\ shareCalls' = (shareCalls \ {c}) \cup more /\ shareList' = (IF c.at = "failed" THEN shareList ELSE c.doc[2]) /\ shareStale' = (c.at # "done")
      /\ UNCHANGED <<shareProjects, shareMembers, shareWithTasks, shareInvited, shareKnown, shareCrossed, shareSkipped, shareStrayed>>
      /\ sharePage' = [Share!Opens(sharePage, active) EXCEPT !.managed = IF next = Nil THEN @ ELSE next,
                                                               !.changing = IF c.op = "mount" THEN @ ELSE FALSE]
  BY <1>3, <1>4, <1>5 DEF Share!ProjectsLoaded, Share!service
<1>7. /\ next \in OfBoards \cup {Nil} /\ (next = Nil <=> c.op \in {"mount", "rename"})
      /\ active \in OfBoards /\ (next = Nil => active = sharePage.active)
  BY <1>1, <1>2, <1>3, <1>4 DEF Share!ManagedAfter, SharePageTypes, ChangesBoards
<1>8. PICK onBoard : onBoard = Share!Opens(sharePage, active)
  OBVIOUS
<1>9. /\ onBoard \in SharePageTypes /\ onBoard.active = active /\ onBoard.managed = sharePage.managed /\ onBoard.open = sharePage.open
      /\ onBoard.sharing = sharePage.sharing /\ onBoard.changing = sharePage.changing
      /\ active = sharePage.active => onBoard.shown = sharePage.shown
  BY <1>1, <1>7, <1>8 DEF Share!Opens, SharePageTypes
<1>10. /\ sharePage' \in SharePageTypes /\ sharePage'.active = active /\ sharePage'.managed = (IF next = Nil THEN sharePage.managed ELSE next)
       /\ sharePage'.sharing = sharePage.sharing /\ sharePage'.changing = (sharePage.changing /\ c.op = "mount") /\ sharePage'.shown = onBoard.shown
  BY <1>6, <1>7, <1>8, <1>9 DEF SharePageTypes
<1>11. \A x \in more : x \in ShareCallTypes /\ ShareCallOK(x) /\ x.stage = "members" /\ x.at = "sent" /\ x.op \in {"dialog", "page"}
  <2>1. CASE next = Nil
    BY <1>5, <2>1
  <2>2. CASE next # Nil
    <3>1. next \in OfBoards
      BY <1>7, <2>2
    <3>2. \A x \in more : x = Share!LoadBoardMembers("dialog", next) \/ x = Share!LoadBoardMembers("page", active)
      BY <1>5, <2>2 DEF Share!OpenLoads
    <3> QED BY <1>7, <3>1, <3>2, NewLoad
  <2> QED BY <2>1, <2>2
<1>12. ShareCallsOK' /\ ShareServiceTypes' /\ ShareAccess' /\ ShareFresh' /\ Share!Listing' = Share!Listing
  <2>1. PICK gone : gone = {c}
    OBVIOUS
  <2>2. shareCalls' = (shareCalls \ gone) \cup more /\ \A x \in more : x \in ShareCallTypes /\ ShareCallOK(x) /\ x.at = "sent" /\ x.op # "create"
    BY <1>6, <1>11, <2>1
  <2> QED BY <1>6, <2>2, FewerCalls
<1>13. shareList' \in ShareLists /\ shareStale' \in BOOLEAN /\ ShareListFollows'
  BY <1>1, <1>6, <1>12, ListArrives
<1>14. SharePageOK'
  BY <1>6, <1>10, <1>13 DEF ShareInv, SharePageOK
<1>15. \A x \in more : ~ChangesMembers(x) /\ ~ChangesBoards(x) /\ x.op # "delete" /\ x.op # "create"
  BY <1>11 DEF ChangesMembers, ChangesBoards
<1>16. ShareBusy'
  <2>1. ~ChangesMembers(c)
    BY <1>2 DEF ChangesMembers, ChangesBoards
  <2>2. sharePage'.sharing <=> \E x \in shareCalls' : ChangesMembers(x)
    BY <1>6, <1>10, <1>15, <2>1 DEF ShareInv, ShareBusy
  <2>3. sharePage'.changing <=> \E x \in shareCalls' : ChangesBoards(x)
    <3>1. CASE c.op = "mount"
      BY <1>6, <1>10, <1>15, <3>1 DEF ShareInv, ShareBusy, ChangesBoards
    <3>2. CASE ChangesBoards(c)
      BY <1>6, <1>10, <1>15, <3>2 DEF ShareInv, ShareBusy, ChangesBoards
    <3> QED BY <1>2, <3>1, <3>2
  <2>4. \A x, y \in shareCalls' : (ChangesBoards(x) /\ ChangesBoards(y)) \/ (ChangesMembers(x) /\ ChangesMembers(y)) => x = y
    BY <1>6, <1>15 DEF ShareInv, ShareBusy
  <2> QED BY <2>2, <2>3, <2>4 DEF ShareBusy, ChangesMembers, ChangesBoards
<1>17. next # Nil => \E x \in shareCalls' : x.stage = "members"
  <2>1. ASSUME next # Nil PROVE Share!LoadBoardMembers("dialog", next) \in shareCalls'
    BY <1>5, <1>6, <2>1
  <2>2. ASSUME next # Nil PROVE Share!LoadBoardMembers("dialog", next).stage = "members"
    BY <1>7, <2>2, NewLoad
  <2> QED BY <2>1, <2>2
<1>18. next = Nil => sharePage'.shown = sharePage.shown /\ sharePage'.managed = sharePage.managed /\ sharePage'.active = sharePage.active /\ shareCalls' = shareCalls \ {c}
  BY <1>5, <1>6, <1>7, <1>9, <1>10
<1>19. ShareMembersFollow'
  <2>1. CASE next # Nil
    BY <1>17, <2>1 DEF ShareMembersFollow, ShareWillShow
  <2>2. CASE next = Nil
    <3>1. ~ShareWillShow(c)
      BY <1>1, <1>7, <2>2 DEF ShareWillShow
    <3>2. ASSUME NEW d \in shareCalls, ShareWillShow(d) PROVE \E x \in shareCalls' : ShareWillShow(x)
      BY <1>18, <2>2, <3>1, <3>2
    <3> QED BY <1>6, <1>18, <2>2, <3>2 DEF ShareInv, ShareMembersFollow
  <2> QED BY <2>1, <2>2
<1>20. ShareShownHaveAccess'
  <2>1. CASE next # Nil
    BY <1>17, <2>1 DEF ShareShownHaveAccess, ShareLoadsMembers
  <2>2. CASE next = Nil
    <3>1. c.op \notin {"remove", "delete"} /\ c.stage # "members"
      BY <1>1, <1>7, <2>2
    <3> QED BY <1>6, <1>18, <2>2, <3>1 DEF ShareInv, ShareShownHaveAccess, ShareLoadsMembers, ShareTold
  <2> QED BY <2>1, <2>2
<1>21. ShareStays'
  <2> SUFFICES ASSUME ~shareStrayed
               PROVE  /\ User \in shareMembers[sharePage'.active] \/ \E x \in shareCalls' : x.op = "delete" /\ x.board = sharePage'.active
                      /\ User \in shareMembers[sharePage'.managed] \/ \E x \in shareCalls' : x.op = "delete" /\ x.board = sharePage'.managed
    BY <1>6 DEF ShareStays, ShareHome
  <2>1. ShareHome(sharePage.active) /\ ShareHome(sharePage.managed) /\ User \in shareMembers[DefaultBoard]
    BY DEF ShareInv, ShareStays, ShareAccess
  <2>2. CASE c.op = "create"
    <3>1. User \in shareMembers[c.board] /\ next = c.board /\ active = c.board
      BY <1>1, <1>3, <1>4, <2>2 DEF ShareInv, ShareMade
    <3> QED BY <1>1, <1>10, <3>1
  <2>3. CASE c.op = "delete"
    <3>1. User \in shareMembers[active] /\ next = active
      <4>1. CASE sharePage.active = c.board
        BY <1>3, <1>4, <2>1, <2>3, <4>1 DEF Share!ManagedAfter
      <4>2. CASE sharePage.active # c.board
        <5>1. \A d \in shareCalls : d.op = "delete" => d = c
          BY <2>3 DEF ShareInv, ShareBusy, ChangesBoards
        <5> QED BY <1>3, <1>4, <2>1, <2>3, <4>2, <5>1 DEF Share!ManagedAfter, ShareHome
      <4> QED BY <4>1, <4>2
    <3> QED BY <1>7, <1>10, <2>3, <3>1
  <2>4. CASE c.op \notin {"create", "delete"}
    <3>1. next = Nil
      BY <1>3, <2>4
    <3> QED BY <1>18, <2>1, <2>4, <3>1 DEF ShareHome
  <2> QED BY <2>2, <2>3, <2>4
<1>22. ShareMade'
  BY <1>6, <1>15 DEF ShareInv, ShareMade
<1> QED BY <1>12, <1>13, <1>14, <1>16, <1>19, <1>20, <1>21, <1>22 DEF ShareInv

\* A chain goes on to its next call, or to the next address.
LEMMA ShareGoesOn ==
  ASSUME ShareAssumption, ShareInv, NEW c \in shareCalls, NEW v \in ShareCallTypes, ShareCallOK(v), v.op = c.op, v.board = c.board,
         shareCalls' = (shareCalls \ {c}) \cup {v}, v.at = "sent" \/ v.stage = "next",
         ShareWillList(c) => ShareWillList(v), ShareWillShow(c) => ShareWillShow(v), ShareTold(c) /\ c.op = "remove" => ShareTold(v),
         c.stage = "members" => v.stage = "members",
         v.op = "create" /\ (v.stage = "projects" \/ v.at = "done") => User \in shareMembers[c.board],
         UNCHANGED <<shareProjects, shareMembers, shareWithTasks, shareInvited, shareList, sharePage, shareStale, shareCrossed, shareSkipped, shareStrayed>>,
         shareKnown' \in {Nil} \cup (SUBSET Outsiders)
  PROVE  ShareInv'
<1>1. ShareCallsOK'
  BY DEF ShareInv, ShareCallsOK, ShareCallOK, ChangesBoards
<1>2. ShareServiceTypes' /\ ShareAccess' /\ SharePageOK'
  BY DEF ShareInv, ShareServiceTypes, ShareAccess, SharePageOK
<1>3. Share!Listing' = Share!Listing
  BY DEF Share!Listing
<1>4. ShareFresh'
  BY <1>3 DEF ShareInv, ShareFresh
<1>5. ShareBusy'
  BY DEF ShareInv, ShareBusy, ChangesMembers, ChangesBoards
<1>6. ShareListFollows'
  <2>1. ASSUME NEW d \in shareCalls, ShareWillList(d) PROVE \E x \in shareCalls' : ShareWillList(x)
    BY <2>1
  <2> QED BY <1>3, <2>1 DEF ShareInv, ShareListFollows
<1>7. ShareMembersFollow'
  <2>1. ASSUME NEW d \in shareCalls, ShareWillShow(d) PROVE \E x \in shareCalls' : ShareWillShow(x)
    BY <2>1
  <2> QED BY <2>1 DEF ShareInv, ShareMembersFollow
<1>8. ShareShownHaveAccess'
  <2>1. ShareLoadsMembers => ShareLoadsMembers'
    BY DEF ShareLoadsMembers
  <2>2. (\E d \in shareCalls : d.op = "remove" /\ ShareTold(d)) => \E x \in shareCalls' : x.op = "remove" /\ ShareTold(x)
    OBVIOUS
  <2>3. (\E d \in shareCalls : d.op = "delete") => \E x \in shareCalls' : x.op = "delete"
    OBVIOUS
  <2> QED BY <2>1, <2>2, <2>3 DEF ShareInv, ShareShownHaveAccess
<1>9. ShareStays'
  <2>1. ASSUME NEW b, ShareHome(b) PROVE User \in shareMembers[b] \/ \E x \in shareCalls' : x.op = "delete" /\ x.board = b
    BY <2>1 DEF ShareHome
  <2> QED BY <2>1 DEF ShareInv, ShareStays, ShareHome
<1>10. ShareMade'
  BY DEF ShareInv, ShareMade
<1> QED BY <1>1, <1>2, <1>4, <1>5, <1>6, <1>7, <1>8, <1>9, <1>10 DEF ShareInv

LEMMA GoingTo ==
  ASSUME ShareInv, NEW c \in shareCalls, NEW stage \in ShareStages
  PROVE  LET v == Share!Going(c, stage) IN
         /\ v \in ShareCallTypes /\ v.op = c.op /\ v.board = c.board /\ v.who = c.who /\ v.left = c.left
         /\ v.stage = stage /\ v.at = "sent"
BY DEF Share!Going, ShareInv, ShareCallsOK, ShareCallTypes

\* A chain that was about nothing the page shows ends.
LEMMA ChainEnds ==
  ASSUME ShareAssumption, ShareInv, NEW c \in shareCalls, shareCalls' = shareCalls \ {c}, c.op = "mount", c.stage = "settings",
         UNCHANGED <<shareProjects, shareMembers, shareWithTasks, shareInvited, shareList, sharePage, shareStale, shareCrossed, shareSkipped, shareStrayed>>,
         shareKnown' \in {Nil} \cup (SUBSET Outsiders)
  PROVE  ShareInv'
<1>1. ~ShareWillList(c) /\ ~ShareWillShow(c) /\ ~ChangesMembers(c) /\ ~ChangesBoards(c)
  BY DEF ShareWillList, ShareWillShow, ChangesMembers, ChangesBoards
<1>2. ShareCallsOK' /\ ShareServiceTypes' /\ ShareAccess' /\ ShareFresh' /\ Share!Listing' = Share!Listing
  <2>1. PICK gone, more : gone = {c} /\ more = {}
    OBVIOUS
  <2>2. shareCalls' = (shareCalls \ gone) \cup more /\ \A x \in more : x \in ShareCallTypes /\ ShareCallOK(x) /\ x.at = "sent" /\ x.op # "create"
    BY <2>1
  <2> QED BY <2>2, FewerCalls
<1>3. SharePageOK'
  BY DEF ShareInv, SharePageOK
<1>4. ShareBusy'
  BY <1>1 DEF ShareInv, ShareBusy, ChangesMembers, ChangesBoards
<1>5. ShareListFollows' /\ ShareMembersFollow'
  <2>1. ASSUME NEW d \in shareCalls, ShareWillList(d) PROVE \E x \in shareCalls' : ShareWillList(x)
    BY <1>1, <2>1
  <2>2. ASSUME NEW d \in shareCalls, ShareWillShow(d) PROVE \E x \in shareCalls' : ShareWillShow(x)
    BY <1>1, <2>2
  <2> QED BY <1>2, <2>1, <2>2 DEF ShareInv, ShareListFollows, ShareMembersFollow
<1>6. ShareShownHaveAccess'
  BY DEF ShareInv, ShareShownHaveAccess, ShareLoadsMembers, ShareTold
<1>7. ShareStays' /\ ShareMade'
  BY DEF ShareInv, ShareStays, ShareHome, ShareMade
<1> QED BY <1>2, <1>3, <1>4, <1>5, <1>6, <1>7 DEF ShareInv

LEMMA SettingsLoadedKeeps ==
  ASSUME ShareAssumption, ShareInv, NEW c \in shareCalls, Share!SettingsLoaded(c)
  PROVE  ShareInv'
<1>1. c \in ShareCallTypes /\ ShareCallOK(c) /\ c.stage = "settings" /\ c.at \in {"done", "failed"} /\ c.op \in {"mount", "invite"}
  BY DEF ShareInv, ShareCallsOK, ShareCallTypes, ShareCallOK, Share!SettingsLoaded, Share!Ended, ShareOps, ChangesBoards
<1>2. /\ UNCHANGED <<shareProjects, shareMembers, shareWithTasks, shareInvited, shareList, sharePage, shareStale, shareCrossed, shareSkipped, shareStrayed>>
      /\ shareKnown' = IF c.at = "failed" THEN shareKnown ELSE c.doc[2]
      /\ shareCalls' = (shareCalls \ {c}) \cup IF c.op = "invite" THEN {Share!Going(c, "members")} ELSE {}
  BY DEF Share!SettingsLoaded, Share!service, Share!excuses
<1>3. shareKnown' \in {Nil} \cup (SUBSET Outsiders)
  BY <1>1, <1>2 DEF ShareCallOK, ShareInv, SharePageOK
<1>4. CASE c.op = "invite"
  <2>1. PICK v : v = Share!Going(c, "members")
    OBVIOUS
  <2>2. v \in ShareCallTypes /\ v.op = c.op /\ v.board = c.board /\ v.who = c.who /\ v.stage = "members" /\ v.at = "sent"
    BY <2>1, GoingTo DEF ShareStages
  <2>3. ShareCallOK(v)
    BY <1>4, <2>2 DEF ShareCallOK, ChangesBoards
  <2>4. ~ShareWillList(c) /\ ShareWillShow(v) /\ shareCalls' = (shareCalls \ {c}) \cup {v}
    BY <1>1, <1>2, <1>4, <2>1, <2>2 DEF ShareWillList, ShareWillShow, ChangesBoards
  <2> QED BY <1>2, <1>3, <1>4, <2>2, <2>3, <2>4, ShareGoesOn
<1>5. CASE c.op = "mount"
  BY <1>1, <1>2, <1>3, <1>5, ChainEnds
<1> QED BY <1>1, <1>4, <1>5

LEMMA WriteAnsweredKeeps ==
  ASSUME ShareAssumption, ShareInv, NEW c \in shareCalls, Share!WriteAnswered(c)
  PROVE  ShareInv'
<1>1. c \in ShareCallTypes /\ ShareCallOK(c) /\ c.stage = "write" /\ c.at \in {"done", "failed"} /\ sharePage \in SharePageTypes
      /\ (ChangesBoards(c) \/ ChangesMembers(c)) /\ c.op \in ShareOps
  BY DEF ShareInv, ShareCallsOK, ShareCallTypes, ShareCallOK, SharePageOK, Share!WriteAnswered, Share!Ended, ChangesBoards, ChangesMembers, ShareOps
<1>2. (c \in Share!Sharing(shareCalls) <=> ChangesMembers(c)) /\ ~(ChangesBoards(c) /\ ChangesMembers(c))
  BY DEF Share!Sharing, ChangesMembers, ChangesBoards
<1>3. UNCHANGED <<shareProjects, shareMembers, shareWithTasks, shareInvited, shareList, shareKnown, shareSkipped>>
  BY DEF Share!WriteAnswered, Share!service
<1>4. CASE c.at = "done"
  <2>1. UNCHANGED <<sharePage, shareStale, shareCrossed, shareStrayed>>
    BY <1>4 DEF Share!WriteAnswered
  <2>2. PICK v : v = IF c.op = "invite" THEN [Share!Going(c, "next") EXCEPT !.at = "done", !.who = Nil]
                     ELSE IF ChangesMembers(c) THEN Share!Going(c, "members") ELSE Share!Going(c, "projects")
    OBVIOUS
  <2>3. shareCalls' = (shareCalls \ {c}) \cup {v}
    BY <1>2, <1>4, <2>2 DEF Share!WriteAnswered
  <2>4. /\ v \in ShareCallTypes /\ v.op = c.op /\ v.board = c.board
        /\ c.op = "invite" => v.stage = "next" /\ v.at = "done"
        /\ c.op # "invite" => v.at = "sent" /\ v.who = c.who /\ v.stage = IF ChangesMembers(c) THEN "members" ELSE "projects"
    <3>1. CASE c.op = "invite"
      <4>1. PICK w : w = Share!Going(c, "next")
        OBVIOUS
      <4>2. w \in ShareCallTypes /\ w.op = c.op /\ w.board = c.board /\ w.stage = "next"
        BY <4>1, GoingTo DEF ShareStages
      <4>3. v = [w EXCEPT !.at = "done", !.who = Nil]
        BY <2>2, <3>1, <4>1
      <4> QED BY <3>1, <4>2, <4>3 DEF ShareCallTypes
    <3>2. CASE c.op # "invite" /\ ChangesMembers(c)
      BY <2>2, <3>2, GoingTo DEF ShareStages
    <3>3. CASE c.op # "invite" /\ ~ChangesMembers(c)
      BY <2>2, <3>3, GoingTo DEF ShareStages
    <3> QED BY <3>1, <3>2, <3>3
  <2>5. ShareCallOK(v)
    BY <1>1, <2>4 DEF ShareCallOK, ChangesBoards, ChangesMembers
  <2>6. (ShareWillList(c) => ShareWillList(v)) /\ (ShareWillShow(c) => ShareWillShow(v)) /\ (ShareTold(c) /\ c.op = "remove" => ShareTold(v))
    BY <1>1, <1>2, <2>4 DEF ShareWillList, ShareWillShow, ShareTold, ChangesBoards, ChangesMembers
  <2>7. v.op = "create" => User \in shareMembers[c.board]
    BY <1>4, <2>4 DEF ShareInv, ShareMade
  <2>8. shareKnown' \in {Nil} \cup (SUBSET Outsiders)
    BY <1>3 DEF ShareInv, SharePageOK
  <2>9. (v.at = "sent" \/ v.stage = "next") /\ c.stage # "members"
    BY <1>1, <2>4
  <2> QED BY <1>3, <2>1, <2>3, <2>4, <2>5, <2>6, <2>7, <2>8, <2>9, ShareGoesOn
<1>5. CASE c.at = "failed"
  <2>1. /\ shareCalls' = shareCalls \ {c} /\ shareStale' = TRUE /\ shareCrossed' = TRUE
        /\ shareStrayed' = (shareStrayed \/ (c.op = "delete" /\ User \notin shareMembers[c.board]))
        /\ sharePage' = IF ChangesMembers(c) THEN [sharePage EXCEPT !.sharing = FALSE] ELSE [sharePage EXCEPT !.changing = FALSE]
    BY <1>2, <1>5 DEF Share!WriteAnswered, Share!Allowed
  <2>2. /\ sharePage' \in SharePageTypes /\ sharePage'.active = sharePage.active /\ sharePage'.managed = sharePage.managed
        /\ sharePage'.sharing = (sharePage.sharing /\ ~ChangesMembers(c)) /\ sharePage'.changing = (sharePage.changing /\ ChangesMembers(c))
    BY <1>1, <2>1 DEF SharePageTypes
  <2>3. ShareCallsOK' /\ ShareServiceTypes' /\ ShareAccess' /\ ShareFresh'
    <3>1. PICK gone, more : gone = {c} /\ more = {}
      OBVIOUS
    <3>2. shareCalls' = (shareCalls \ gone) \cup more /\ \A x \in more : x \in ShareCallTypes /\ ShareCallOK(x) /\ x.at = "sent" /\ x.op # "create"
      BY <2>1, <3>1
    <3> QED BY <1>3, <3>2, FewerCalls
  <2>4. SharePageOK'
    BY <1>3, <2>1, <2>2 DEF ShareInv, SharePageOK
  <2>5. ShareBusy'
    <3>1. sharePage'.sharing <=> \E x \in shareCalls' : ChangesMembers(x)
      BY <1>1, <1>2, <2>1, <2>2 DEF ShareInv, ShareBusy
    <3>2. sharePage'.changing <=> \E x \in shareCalls' : ChangesBoards(x)
      BY <1>1, <1>2, <2>1, <2>2 DEF ShareInv, ShareBusy
    <3> QED BY <2>1, <3>1, <3>2 DEF ShareInv, ShareBusy, ChangesMembers, ChangesBoards
  <2>6. ShareListFollows' /\ ShareMembersFollow' /\ ShareShownHaveAccess'
    BY <2>1 DEF ShareListFollows, ShareMembersFollow, ShareShownHaveAccess
  <2>7. ShareStays'
    <3> SUFFICES ASSUME ~shareStrayed'
                 PROVE  \A b \in {sharePage.active, sharePage.managed} : User \in shareMembers[b] \/ \E x \in shareCalls' : x.op = "delete" /\ x.board = b
      BY <1>3, <2>2 DEF ShareStays, ShareHome
    <3>1. ASSUME NEW b, ShareHome(b) PROVE User \in shareMembers[b] \/ \E x \in shareCalls' : x.op = "delete" /\ x.board = b
      BY <2>1, <3>1 DEF ShareHome
    <3>2. ShareHome(sharePage.active) /\ ShareHome(sharePage.managed)
      BY <2>1 DEF ShareInv, ShareStays
    <3> QED BY <3>1, <3>2
  <2>8. ShareMade'
    BY <1>3, <2>1 DEF ShareInv, ShareMade
  <2> QED BY <2>3, <2>4, <2>5, <2>6, <2>7, <2>8 DEF ShareInv
<1> QED BY <1>1, <1>4, <1>5

\* The next address: whoever is passed over has access.
LEMMA InviteNextKeeps ==
  ASSUME ShareAssumption, ShareInv, NEW c \in shareCalls, Share!InviteNext(c)
  PROVE  ShareInv'
<1>1. c \in ShareCallTypes /\ ShareCallOK(c) /\ c.stage = "next" /\ c.at = "done" /\ c.op = "invite" /\ c.left \subseteq TeamMates \cup Outsiders
      /\ c.board \in OfBoards
  BY DEF ShareInv, ShareCallsOK, ShareCallTypes, ShareCallOK, Share!InviteNext, Share!Ended, ShareOps, ChangesBoards
<1>2. UNCHANGED <<shareProjects, shareMembers, shareWithTasks, shareInvited, shareList, shareKnown, sharePage, shareStale, shareCrossed, shareStrayed>>
  BY DEF Share!InviteNext, Share!service
<1>3. \E v \in ShareCallTypes :
        /\ v.op = c.op /\ v.board = c.board /\ v.stage \in {"settings", "next", "write"} /\ shareCalls' = (shareCalls \ {c}) \cup {v}
        /\ v.at = IF v.stage = "next" THEN "done" ELSE "sent"
  <2>1. CASE c.left = {}
    <3>1. PICK v : v = Share!Going(c, "settings")
      OBVIOUS
    <3>2. v \in ShareCallTypes /\ v.op = c.op /\ v.board = c.board /\ v.stage = "settings" /\ v.at = "sent"
      BY <3>1, GoingTo DEF ShareStages
    <3>3. shareCalls' = (shareCalls \ {c}) \cup {v}
      BY <2>1, <3>1 DEF Share!InviteNext
    <3> QED BY <3>2, <3>3
  <2>2. CASE c.left # {}
    <3>1. PICK e \in c.left :
            LET rest == [c EXCEPT !.left = c.left \ {e}]
                passed == IF e \in Share!Users THEN e \in sharePage.shown ELSE e \in shareKnown
            IN shareCalls' = (shareCalls \ {c}) \cup {IF passed THEN rest ELSE [Share!Going(rest, "write") EXCEPT !.who = e]}
      BY <2>2 DEF Share!InviteNext
    <3>2. PICK rest : rest = [c EXCEPT !.left = c.left \ {e}]
      OBVIOUS
    <3>3. rest \in ShareCallTypes /\ rest.op = c.op /\ rest.board = c.board /\ rest.stage = "next" /\ rest.at = "done"
      BY <1>1, <3>2 DEF ShareCallTypes
    <3>4. PICK going : going = [Share!Going(rest, "write") EXCEPT !.who = e]
      OBVIOUS
    <3>5. PICK on : on = Share!Going(rest, "write")
      OBVIOUS
    <3>6. on \in ShareCallTypes /\ on.op = c.op /\ on.board = c.board /\ on.stage = "write" /\ on.at = "sent"
      BY <3>3, <3>5 DEF Share!Going, ShareCallTypes, ShareStages
    <3>7. e \in BoardTitles \cup Share!Users \cup Outsiders \cup {Nil}
      BY <1>1 DEF Share!Users
    <3>8. going \in ShareCallTypes /\ going.op = c.op /\ going.board = c.board /\ going.stage = "write" /\ going.at = "sent"
      BY <3>4, <3>5, <3>6, <3>7 DEF ShareCallTypes
    <3>9. shareCalls' = (shareCalls \ {c}) \cup {rest} \/ shareCalls' = (shareCalls \ {c}) \cup {going}
      BY <3>1, <3>2, <3>4
    <3> QED BY <3>3, <3>8, <3>9
  <2> QED BY <2>1, <2>2
<1>4. PICK v \in ShareCallTypes :
        /\ v.op = c.op /\ v.board = c.board /\ v.stage \in {"settings", "next", "write"} /\ shareCalls' = (shareCalls \ {c}) \cup {v}
        /\ v.at = IF v.stage = "next" THEN "done" ELSE "sent"
  BY <1>3
<1>5. ShareCallOK(v)
  BY <1>1, <1>4 DEF ShareCallOK, ChangesBoards
<1>6. ~ShareWillList(c) /\ ShareWillShow(v)
  BY <1>1, <1>4 DEF ShareWillList, ShareWillShow, ChangesBoards
<1>7. shareSkipped' = shareSkipped
  <2>1. CASE c.left = {}
    BY <2>1 DEF Share!InviteNext
  <2>2. CASE c.left # {}
    <3>1. PICK e \in c.left :
            LET passed == IF e \in Share!Users THEN e \in sharePage.shown ELSE e \in shareKnown
            IN shareSkipped' = IF passed /\ e \in Share!Users \ shareMembers[c.board] /\ Share!Undisturbed(c) THEN shareSkipped \cup {e} ELSE shareSkipped
      BY <2>2 DEF Share!InviteNext
    <3>2. ASSUME e \in sharePage.shown, e \in Share!Users \ shareMembers[c.board], Share!Undisturbed(c)
          PROVE  FALSE
      <4>1. ~shareCrossed /\ sharePage.managed = c.board /\ User \in shareMembers[c.board] /\ ~ShareLoadsMembers
        BY <3>2 DEF Share!Undisturbed, Share!Allowed, ShareLoadsMembers
      <4>2. ~\E d \in shareCalls : d.op = "remove"
        BY <1>1 DEF ShareInv, ShareBusy, ChangesMembers
      <4> QED BY <3>2, <4>1, <4>2 DEF ShareInv, ShareShownHaveAccess
    <3> QED BY <3>1, <3>2
  <2> QED BY <2>1, <2>2
<1>8. shareKnown' \in {Nil} \cup (SUBSET Outsiders)
  BY <1>2 DEF ShareInv, SharePageOK
<1> QED BY <1>1, <1>2, <1>4, <1>5, <1>6, <1>7, <1>8, ShareGoesOn

-----------------------------------------------------------------------------
(* The gestures *)

LEMMA CallsAdded ==
  ASSUME ShareAssumption, ShareInv, NEW more, shareCalls' = shareCalls \cup more,
         \A x \in more : x \in ShareCallTypes /\ ShareCallOK(x) /\ (x.at = "sent" \/ x.stage = "next"),
         \A x \in more : x.op = "create" => x.stage = "write" /\ x.at = "sent",
         \A x, y \in more : ChangesMembers(x) \/ ChangesBoards(x) => x = y,
         (\E x \in more : ChangesMembers(x)) => ~sharePage.sharing, (\E x \in more : ChangesBoards(x)) => ~sharePage.changing,
         sharePage' \in SharePageTypes,
         sharePage'.sharing <=> sharePage.sharing \/ \E x \in more : ChangesMembers(x),
         sharePage'.changing <=> sharePage.changing \/ \E x \in more : ChangesBoards(x),
         (\E x \in more : x.stage = "members") \/ (sharePage'.shown = sharePage.shown /\ sharePage'.managed = sharePage.managed),
         shareStrayed' = (shareStrayed \/ Share!Lures(sharePage'.active) \/ Share!Lures(sharePage'.managed)),
         UNCHANGED <<shareProjects, shareMembers, shareWithTasks, shareInvited, shareList, shareKnown, shareStale, shareCrossed, shareSkipped>>
  PROVE  ShareInv'
<1>1. ShareCallsOK'
  BY DEF ShareInv, ShareCallsOK, ShareCallOK, ChangesBoards
<1>2. ShareServiceTypes' /\ ShareAccess' /\ Share!Listing' = Share!Listing
  BY DEF ShareInv, ShareServiceTypes, ShareAccess, Share!Listing
<1>3. SharePageOK'
  <2>1. shareStrayed' \in BOOLEAN
    BY DEF ShareInv, SharePageOK, Share!Lures
  <2> QED BY <2>1 DEF ShareInv, SharePageOK
<1>4. ShareBusy'
  <2>1. sharePage'.sharing <=> \E x \in shareCalls' : ChangesMembers(x)
    BY DEF ShareInv, ShareBusy
  <2>2. sharePage'.changing <=> \E x \in shareCalls' : ChangesBoards(x)
    BY DEF ShareInv, ShareBusy
  <2>3. ASSUME NEW x \in shareCalls', NEW y \in shareCalls', (ChangesBoards(x) /\ ChangesBoards(y)) \/ (ChangesMembers(x) /\ ChangesMembers(y))
        PROVE  x = y
    <3>1. CASE x \in more /\ y \in more
      BY <2>3, <3>1
    <3>2. CASE x \in shareCalls /\ y \in shareCalls
      BY <2>3, <3>2 DEF ShareInv, ShareBusy
    <3>3. CASE x \in more /\ y \in shareCalls
      BY <2>3, <3>3 DEF ShareInv, ShareBusy
    <3>4. CASE x \in shareCalls /\ y \in more
      BY <2>3, <3>4 DEF ShareInv, ShareBusy
    <3> QED BY <3>1, <3>2, <3>3, <3>4
  <2> QED BY <2>1, <2>2, <2>3 DEF ShareBusy, ChangesMembers, ChangesBoards
<1>5. ShareFresh'
  BY <1>2 DEF ShareInv, ShareFresh
<1>6. ShareListFollows'
  <2>1. ASSUME NEW d \in shareCalls, ShareWillList(d) PROVE \E x \in shareCalls' : ShareWillList(x)
    BY <2>1
  <2> QED BY <1>2, <2>1 DEF ShareInv, ShareListFollows
<1>7. ShareMembersFollow' /\ ShareShownHaveAccess'
  <2>1. CASE \E x \in more : x.stage = "members"
    <3>1. \E x \in shareCalls' : x.stage = "members"
      BY <2>1
    <3> QED BY <3>1 DEF ShareMembersFollow, ShareWillShow, ShareShownHaveAccess, ShareLoadsMembers
  <2>2. CASE sharePage'.shown = sharePage.shown /\ sharePage'.managed = sharePage.managed
    <3>1. ASSUME NEW d \in shareCalls, ShareWillShow(d) PROVE \E x \in shareCalls' : ShareWillShow(x)
      BY <3>1
    <3>2. ShareMembersFollow'
      BY <2>2, <3>1 DEF ShareInv, ShareMembersFollow
    <3>3. ShareLoadsMembers => ShareLoadsMembers'
      BY DEF ShareLoadsMembers
    <3>4. ShareShownHaveAccess'
      BY <2>2, <3>3 DEF ShareInv, ShareShownHaveAccess, ShareTold
    <3> QED BY <3>2, <3>4
  <2> QED BY <2>1, <2>2
<1>8. ShareStays'
  <2>1. ASSUME NEW b, ShareHome(b) PROVE User \in shareMembers[b] \/ \E x \in shareCalls' : x.op = "delete" /\ x.board = b
    BY <2>1 DEF ShareHome
  <2>2. ASSUME ~shareStrayed, NEW b, ~Share!Lures(b) PROVE ShareHome(b)
    BY <2>2 DEF ShareInv, ShareStays, Share!Lures, ShareHome
  <2>3. ~shareStrayed' => ~shareStrayed /\ ~Share!Lures(sharePage'.active) /\ ~Share!Lures(sharePage'.managed)
    OBVIOUS
  <2> QED BY <2>1, <2>2, <2>3 DEF ShareStays, ShareHome
<1>9. ShareMade'
  <2>1. \A x \in more : ~(x.op = "create" /\ (x.stage = "projects" \/ x.at = "done"))
    OBVIOUS
  <2> QED BY <2>1 DEF ShareInv, ShareMade
<1> QED BY <1>1, <1>2, <1>3, <1>4, <1>5, <1>6, <1>7, <1>8, <1>9 DEF ShareInv

\* A gesture that starts a load of members, or nothing.
LEMMA LoadsAdded ==
  ASSUME ShareAssumption, ShareInv, NEW more, shareCalls' = shareCalls \cup more,
         \A x \in more : \E by \in {"page", "dialog"}, b \in OfBoards : x = Share!LoadBoardMembers(by, b),
         sharePage' \in SharePageTypes, sharePage'.sharing = sharePage.sharing, sharePage'.changing = sharePage.changing,
         more # {} \/ (sharePage'.shown = sharePage.shown /\ sharePage'.managed = sharePage.managed),
         shareStrayed' = (shareStrayed \/ Share!Lures(sharePage'.active) \/ Share!Lures(sharePage'.managed)),
         UNCHANGED <<shareProjects, shareMembers, shareWithTasks, shareInvited, shareList, shareKnown, shareStale, shareCrossed, shareSkipped>>
  PROVE  ShareInv'
<1>1. \A x \in more : x \in ShareCallTypes /\ ShareCallOK(x) /\ x.at = "sent" /\ x.stage = "members" /\ x.op \in {"page", "dialog"}
  BY NewLoad
<1>2. \A x \in more : ~ChangesMembers(x) /\ ~ChangesBoards(x) /\ x.op # "create"
  BY <1>1 DEF ChangesMembers, ChangesBoards
<1> QED BY <1>1, <1>2, CallsAdded

LEMMA ChoicesAreBoards ==
  ASSUME ShareAssumption, ShareInv
  PROVE  Share!boardChoices \subseteq OfBoards
BY DEF Share!boardChoices, ShareAssumption, ShareInv, SharePageOK, SharePageTypes

LEMMA OpensKeeps ==
  ASSUME ShareAssumption, ShareInv, NEW b \in OfBoards, b # sharePage.active, sharePage' = Share!Opens(sharePage, b), shareCalls' = shareCalls \cup Share!OpenLoads(sharePage, b),
         shareStrayed' = (shareStrayed \/ Share!Lures(sharePage'.active) \/ Share!Lures(sharePage'.managed)),
         UNCHANGED <<shareProjects, shareMembers, shareWithTasks, shareInvited, shareList, shareKnown, shareStale, shareCrossed, shareSkipped>>
  PROVE  ShareInv'
<1>1. sharePage \in SharePageTypes
  BY DEF ShareInv, SharePageOK
<1>2. sharePage' = [sharePage EXCEPT !.active = b, !.shown = {}]
  BY DEF Share!Opens
<1>3. sharePage' \in SharePageTypes /\ sharePage'.sharing = sharePage.sharing /\ sharePage'.changing = sharePage.changing
  BY <1>1, <1>2 DEF SharePageTypes
<1>4. PICK more : more = {Share!LoadBoardMembers("page", b)}
  OBVIOUS
<1>5. shareCalls' = shareCalls \cup more
  BY <1>4 DEF Share!OpenLoads
<1>6. more # {} /\ \A x \in more : \E by \in {"page", "dialog"}, d \in OfBoards : x = Share!LoadBoardMembers(by, d)
  BY <1>4
<1> QED BY <1>3, <1>5, <1>6, LoadsAdded

LEMMA ManagesKeeps ==
  ASSUME ShareAssumption, ShareInv, NEW b \in OfBoards, NEW open \in BOOLEAN,
         sharePage' = [sharePage EXCEPT !.open = open, !.managed = b], shareCalls' = shareCalls \cup {Share!LoadBoardMembers("dialog", b)},
         shareStrayed' = (shareStrayed \/ Share!Lures(sharePage'.active) \/ Share!Lures(sharePage'.managed)),
         UNCHANGED <<shareProjects, shareMembers, shareWithTasks, shareInvited, shareList, shareKnown, shareStale, shareCrossed, shareSkipped>>
  PROVE  ShareInv'
<1>1. sharePage \in SharePageTypes
  BY DEF ShareInv, SharePageOK
<1>2. sharePage' \in SharePageTypes /\ sharePage'.sharing = sharePage.sharing /\ sharePage'.changing = sharePage.changing
  BY <1>1 DEF SharePageTypes
<1>3. PICK more : more = {Share!LoadBoardMembers("dialog", b)}
  OBVIOUS
<1>4. more # {} /\ \A x \in more : \E by \in {"page", "dialog"}, d \in OfBoards : x = Share!LoadBoardMembers(by, d)
  BY <1>3
<1> QED BY <1>2, <1>3, <1>4, LoadsAdded

LEMMA CloseKeeps ==
  ASSUME ShareAssumption, ShareInv, Share!closeCreateBoardModal,
         shareStrayed' = (shareStrayed \/ Share!Lures(sharePage'.active) \/ Share!Lures(sharePage'.managed)),
         UNCHANGED <<shareProjects, shareMembers, shareWithTasks, shareInvited, shareList, shareKnown, shareStale, shareCrossed, shareSkipped>>
  PROVE  ShareInv'
<1>1. sharePage \in SharePageTypes /\ sharePage' = [sharePage EXCEPT !.open = FALSE] /\ shareCalls' = shareCalls
  BY DEF ShareInv, SharePageOK, Share!closeCreateBoardModal
<1>2. /\ sharePage' \in SharePageTypes /\ sharePage'.sharing = sharePage.sharing /\ sharePage'.changing = sharePage.changing
      /\ sharePage'.shown = sharePage.shown /\ sharePage'.managed = sharePage.managed
  BY <1>1 DEF SharePageTypes
<1>3. PICK more : more = {}
  OBVIOUS
<1>4. shareCalls' = shareCalls \cup more /\ \A x \in more : \E by \in {"page", "dialog"}, b \in OfBoards : x = Share!LoadBoardMembers(by, b)
  BY <1>1, <1>3
<1> QED BY <1>2, <1>4, LoadsAdded

LEMMA ChangesKeeps ==
  ASSUME ShareAssumption, ShareInv, NEW c \in ShareCallTypes, c.op \in {"create", "rename", "delete"}, c.stage = "write", c.at = "sent", ShareCallOK(c),
         Share!Changes(c),
         shareStrayed' = (shareStrayed \/ Share!Lures(sharePage'.active) \/ Share!Lures(sharePage'.managed)),
         UNCHANGED <<shareProjects, shareMembers, shareWithTasks, shareInvited, shareList, shareKnown, shareStale, shareCrossed, shareSkipped>>
  PROVE  ShareInv'
<1>1. sharePage \in SharePageTypes /\ sharePage' = [sharePage EXCEPT !.changing = TRUE] /\ ~sharePage.changing
  BY DEF ShareInv, SharePageOK, Share!Changes
<1>2. /\ sharePage' \in SharePageTypes /\ sharePage'.sharing = sharePage.sharing /\ sharePage'.changing = TRUE
      /\ sharePage'.shown = sharePage.shown /\ sharePage'.managed = sharePage.managed
  BY <1>1 DEF SharePageTypes
<1>3. PICK more : more = {c}
  OBVIOUS
<1>4. shareCalls' = shareCalls \cup more /\ ChangesBoards(c) /\ ~ChangesMembers(c)
  BY <1>3 DEF Share!Changes, ChangesBoards, ChangesMembers
<1>5. (\E x \in more : ChangesBoards(x)) /\ ~\E x \in more : ChangesMembers(x)
  BY <1>3, <1>4
<1>6. sharePage'.sharing <=> sharePage.sharing \/ \E x \in more : ChangesMembers(x)
  BY <1>2, <1>5
<1>7. sharePage'.changing <=> sharePage.changing \/ \E x \in more : ChangesBoards(x)
  BY <1>2, <1>5
<1> QED BY <1>1, <1>2, <1>3, <1>4, <1>5, <1>6, <1>7, CallsAdded

LEMMA SharesKeeps ==
  ASSUME ShareAssumption, ShareInv, NEW c \in ShareCallTypes, c.op \in {"add", "remove", "invite"}, c.at = "sent" \/ c.stage = "next", ShareCallOK(c),
         Share!Shares(c),
         shareStrayed' = (shareStrayed \/ Share!Lures(sharePage'.active) \/ Share!Lures(sharePage'.managed)),
         UNCHANGED <<shareProjects, shareMembers, shareWithTasks, shareInvited, shareList, shareKnown, shareStale, shareCrossed, shareSkipped>>
  PROVE  ShareInv'
<1>1. sharePage \in SharePageTypes /\ sharePage' = [sharePage EXCEPT !.sharing = TRUE] /\ ~sharePage.sharing
  BY DEF ShareInv, SharePageOK, Share!Shares
<1>2. /\ sharePage' \in SharePageTypes /\ sharePage'.sharing = TRUE /\ sharePage'.changing = sharePage.changing
      /\ sharePage'.shown = sharePage.shown /\ sharePage'.managed = sharePage.managed
  BY <1>1 DEF SharePageTypes
<1>3. PICK more : more = {c}
  OBVIOUS
<1>4. shareCalls' = shareCalls \cup more /\ ~ChangesBoards(c) /\ ChangesMembers(c) /\ c.op # "create"
  BY <1>3 DEF Share!Shares, ChangesBoards, ChangesMembers
<1>5. (\E x \in more : ChangesMembers(x)) /\ ~\E x \in more : ChangesBoards(x)
  BY <1>3, <1>4
<1>6. sharePage'.sharing <=> sharePage.sharing \/ \E x \in more : ChangesMembers(x)
  BY <1>2, <1>5
<1>7. sharePage'.changing <=> sharePage.changing \/ \E x \in more : ChangesBoards(x)
  BY <1>2, <1>5
<1> QED BY <1>1, <1>2, <1>3, <1>4, <1>5, <1>6, <1>7, CallsAdded

LEMMA GestureKeeps ==
  ASSUME ShareAssumption, ShareInv, Share!Gesture
  PROVE  ShareInv'
<1>1. /\ shareStrayed' = (shareStrayed \/ Share!Lures(sharePage'.active) \/ Share!Lures(sharePage'.managed))
      /\ UNCHANGED <<shareProjects, shareMembers, shareWithTasks, shareInvited, shareList, shareKnown, shareStale, shareCrossed, shareSkipped>>
  BY DEF Share!Gesture, Share!service
<1>2. sharePage \in SharePageTypes /\ sharePage.active \in OfBoards /\ sharePage.managed \in OfBoards /\ sharePage.open \in BOOLEAN
  BY DEF ShareInv, SharePageOK, SharePageTypes
<1>3. ASSUME NEW b \in OfBoards, Share!switchBoard(b) \/ Share!Back(b) PROVE ShareInv'
  BY <1>1, <1>3, OpensKeeps DEF Share!switchBoard, Share!Back
<1>4. ASSUME NEW b \in OfBoards, Share!setManagedBoard(b) PROVE ShareInv'
  <2>1. sharePage' = [sharePage EXCEPT !.open = TRUE, !.managed = b] /\ shareCalls' = shareCalls \cup {Share!LoadBoardMembers("dialog", b)}
    BY <1>2, <1>4 DEF Share!setManagedBoard, SharePageTypes
  <2> QED BY <1>1, <2>1, ManagesKeeps
<1>5. CASE Share!openCreateBoardModal
  BY <1>1, <1>2, <1>5, ManagesKeeps DEF Share!openCreateBoardModal
<1>6. CASE Share!closeCreateBoardModal
  BY <1>1, <1>6, CloseKeeps
<1>7. ASSUME NEW b \in OfBoards, Share!createBoard(b) PROVE ShareInv'
  <2>1. PICK d : d = Share!Chain("create", b, "write")
    OBVIOUS
  <2>2. d \in ShareCallTypes /\ d.op = "create" /\ d.board = b /\ d.stage = "write" /\ d.at = "sent"
    BY <2>1, NewChain DEF ShareOps, ShareStages
  <2>3. PICK c : c = [d EXCEPT !.who = "one"]
    OBVIOUS
  <2>4. c \in ShareCallTypes /\ c.op = "create" /\ c.stage = "write" /\ c.at = "sent" /\ c.who = "one"
    BY <2>2, <2>3 DEF ShareCallTypes, ShareAssumption
  <2>5. ShareCallOK(c)
    BY <2>4 DEF ShareCallOK, ChangesBoards, ShareAssumption
  <2> QED BY <1>1, <1>7, <2>1, <2>3, <2>4, <2>5, ChangesKeeps DEF Share!createBoard
<1>8. CASE Share!deleteBoard
  <2>1. PICK c : c = Share!Chain("delete", sharePage.managed, "write")
    OBVIOUS
  <2>2. c \in ShareCallTypes /\ c.op = "delete" /\ c.board = sharePage.managed /\ c.stage = "write" /\ c.at = "sent"
    BY <1>2, <2>1, NewChain DEF ShareOps, ShareStages
  <2>3. ShareCallOK(c)
    BY <1>8, <2>2 DEF ShareCallOK, ChangesBoards, Share!deleteBoard
  <2> QED BY <1>1, <1>8, <2>1, <2>2, <2>3, ChangesKeeps DEF Share!deleteBoard
<1>9. ASSUME NEW name \in BoardTitles, Share!renameManagedBoard(name) PROVE ShareInv'
  <2>1. PICK d : d = Share!Chain("rename", sharePage.managed, "write")
    OBVIOUS
  <2>2. d \in ShareCallTypes /\ d.op = "rename" /\ d.stage = "write" /\ d.at = "sent"
    BY <1>2, <2>1, NewChain DEF ShareOps, ShareStages
  <2>3. PICK c : c = [d EXCEPT !.who = name]
    OBVIOUS
  <2>4. c \in ShareCallTypes /\ c.op = "rename" /\ c.stage = "write" /\ c.at = "sent" /\ c.who = name
    BY <2>2, <2>3 DEF ShareCallTypes
  <2>5. ShareCallOK(c)
    BY <2>4 DEF ShareCallOK, ChangesBoards
  <2> QED BY <1>1, <1>9, <2>1, <2>3, <2>4, <2>5, ChangesKeeps DEF Share!renameManagedBoard
<1>10. ASSUME NEW u \in Share!Users, Share!toggleManagedBoardMember(u) PROVE ShareInv'
  <2>1. PICK op : op = IF u \in sharePage.shown THEN "remove" ELSE "add"
    OBVIOUS
  <2>2. PICK d : d = Share!Chain(op, sharePage.managed, "write")
    OBVIOUS
  <2>3. d \in ShareCallTypes /\ d.op = op /\ d.stage = "write" /\ d.at = "sent" /\ op \in {"add", "remove"}
    BY <1>2, <2>1, <2>2, NewChain DEF ShareOps, ShareStages
  <2>4. PICK c : c = [d EXCEPT !.who = u]
    OBVIOUS
  <2>5. c \in ShareCallTypes /\ c.op = op /\ c.stage = "write" /\ c.at = "sent" /\ c.who = u
    BY <2>3, <2>4 DEF ShareCallTypes
  <2>6. ShareCallOK(c)
    BY <2>3, <2>5 DEF ShareCallOK, ChangesBoards
  <2> QED BY <1>1, <1>10, <2>1, <2>2, <2>3, <2>4, <2>5, <2>6, SharesKeeps DEF Share!toggleManagedBoardMember
<1>11. ASSUME NEW emails \in SUBSET (TeamMates \cup Outsiders), Share!inviteBoardMembersByEmail(emails) PROVE ShareInv'
  <2>1. PICK d : d = Share!Chain("invite", sharePage.managed, "next")
    OBVIOUS
  <2>2. d \in ShareCallTypes /\ d.op = "invite" /\ d.stage = "next"
    BY <1>2, <2>1, NewChain DEF ShareOps, ShareStages
  <2>3. PICK c : c = [d EXCEPT !.left = emails, !.at = "done"]
    OBVIOUS
  <2>4. c \in ShareCallTypes /\ c.op = "invite" /\ c.stage = "next" /\ c.at = "done"
    BY <2>2, <2>3 DEF ShareCallTypes
  <2>5. ShareCallOK(c)
    BY <2>4 DEF ShareCallOK, ChangesBoards
  <2> QED BY <1>1, <1>11, <2>1, <2>3, <2>4, <2>5, SharesKeeps DEF Share!inviteBoardMembersByEmail
<1> QED BY <1>3, <1>4, <1>5, <1>6, <1>7, <1>8, <1>9, <1>10, <1>11 DEF Share!Gesture

-----------------------------------------------------------------------------
(* The dialog shows the board it manages *)

LEMMA NextShare ==
  ASSUME ShareAssumption, ShareInv, [Share!Next]_shareVars
  PROVE  ShareInv'
<1>1. CASE Share!Gesture
  BY <1>1, GestureKeeps
<1>2. CASE Share!Progress
  BY <1>2, ShareServeKeeps, MembersLoadedKeeps, ProjectsLoadedKeeps, SettingsLoadedKeeps, WriteAnsweredKeeps, InviteNextKeeps DEF Share!Progress
<1>3. CASE UNCHANGED shareVars
  <2>1. UNCHANGED <<shareProjects, shareMembers, shareWithTasks, shareInvited, shareList, shareKnown, sharePage, shareCalls, shareStale, shareCrossed, shareSkipped, shareStrayed>>
    BY <1>3 DEF shareVars, Share!service, Share!excuses
  <2>2. Share!Listing' = Share!Listing
    BY <2>1 DEF Share!Listing
  <2>3. ShareCallsOK' /\ ShareServiceTypes' /\ SharePageOK' /\ ShareAccess'
    BY <2>1 DEF ShareInv, ShareCallsOK, ShareCallOK, ChangesBoards, ShareServiceTypes, SharePageOK, ShareAccess
  <2>4. ShareBusy' /\ ShareFresh' /\ ShareListFollows' /\ ShareMade'
    BY <2>1, <2>2 DEF ShareInv, ShareBusy, ShareFresh, ShareListFollows, ShareMade, ChangesMembers, ChangesBoards, ShareWillList, ShareTold
  <2>5. ShareMembersFollow' /\ ShareShownHaveAccess' /\ ShareStays'
    BY <2>1 DEF ShareInv, ShareMembersFollow, ShareShownHaveAccess, ShareLoadsMembers, ShareStays, ShareHome, ShareWillShow, ShareTold
  <2> QED BY <2>3, <2>4, <2>5 DEF ShareInv
<1> QED BY <1>1, <1>2, <1>3 DEF Share!Next

LEMMA InvShowsTheBoard ==
  ASSUME ShareInv
  PROVE  Share!SettingsShowTheBoard
<1>1. Share!TypeOK /\ shareSkipped = {}
  BY DEF ShareInv, ShareServiceTypes, SharePageOK, SharePageTypes, ShareLists, Share!TypeOK
<1>2. ASSUME shareCalls = {}
      PROVE  /\ ~sharePage.sharing /\ ~sharePage.changing
             /\ ~shareStale => shareList = Share!Listing
             /\ sharePage.open /\ ~shareCrossed => sharePage.shown = shareMembers[sharePage.managed]
             /\ ~shareStrayed => User \in shareMembers[sharePage.active] /\ (sharePage.open => User \in shareMembers[sharePage.managed])
  BY <1>2 DEF ShareInv, ShareBusy, ShareListFollows, ShareMembersFollow, ShareStays, ShareHome
<1> QED BY <1>1, <1>2 DEF Share!SettingsShowTheBoard

LEMMA StepsShare ==
  ASSUME [PagesNext]_pagesvars, OnShare
  PROVE  [Share!Next]_shareVars /\ OnShare'
BY DEF PagesNext, pagesvars, OnlyCards, OnlyHome, OnlyTeam, OnlyProfile, OnlyShare, OnCards, OnHome, OnTeam, OnProfile, OnShare

LEMMA StaysShare ==
  ASSUME [PagesNext]_pagesvars
  PROVE  OnShare' <=> OnShare
BY DEF PagesNext, pagesvars, OnlyCards, OnlyHome, OnlyTeam, OnlyProfile, OnlyShare, OnShare

(* SettingsShowTheBoard: whatever loads, changes of access, deletions and       *)
(* submissions of addresses overlap, are refused or lost, the dialog comes to   *)
(* rest with its buttons free, with the boards there are and the members of the *)
(* managed one, on boards the user has, and passes over members only.           *)
THEOREM SharingShowsTheBoard == PagesSpec => []SettingsShowTheBoard
<1> DEFINE Inv == OnShare => ShareInv
<1>0. ShareAssumption
  BY PagesAssumption
<1>1. PagesInit => Inv
  BY <1>0, InitShare DEF PagesInit, OnCards, OnHome, OnTeam, OnProfile, OnShare
<1>2. Inv /\ [PagesNext]_pagesvars => Inv'
  BY <1>0, StepsShare, StaysShare, NextShare
<1>3. Inv => SettingsShowTheBoard
  BY <1>0, InvShowsTheBoard DEF SettingsShowTheBoard
<1> QED BY <1>1, <1>2, <1>3, PTL DEF PagesSpec

=============================================================================
