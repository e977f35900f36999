------------------------------- MODULE SignIn -------------------------------
(* Signing in from one browser tab (LoginRoute, OnboardingRoute,              *)
(* WaitlistRoute, ProtectedRoute of app.tsx, SidebarAccountCard) at the       *)
(* account service (account/auth.go): codes, invitations, the session of the  *)
(* cookie, and the answer about it that the tab keeps.  A page that is left   *)
(* still answers: its chain of calls goes on and may navigate.                *)
EXTENDS Naturals, FiniteSets

CONSTANTS
  Emails,
  Invited,        \* the address the invitation is for
  Challenges,     \* bound: the codes sent, numbers in order
  MaxAttempts,    \* wrong codes a challenge bears
  MaxFailures,    \* bound: lost calls, and calls that take too long
  None

Challenge == [email : Emails, attempts : 0..MaxAttempts, over : BOOLEAN]
Forms == [op : {"request", "verify", "onboarding", "logout"}, at : {"sent", "done", "failed"},
          email : Emails \cup {None}, challenge : Challenges \cup {None}, code : Challenges \cup {None},
          invited : BOOLEAN, read : BOOLEAN, to : {"none", "task", "onboarding"}, shown : BOOLEAN]

ASSUME SignInAssumption ==
  /\ Invited \in Emails /\ Challenges \subseteq Nat /\ {MaxAttempts, MaxFailures} \subseteq Nat
  /\ None \notin Challenge /\ None \notin Forms
  /\ None \notin Emails \cup {"sent", "new", "ready", "refused"}

VARIABLES
  users,       \* per address "none", "new" (onboarding is to be shown) or "ready"
  invitation,  \* "pending", "accepted" or "cancelled"
  challenges,  \* per challenge None, or its address, the wrong attempts and whether it is over: spent or expired
  session,     \* who the session of the cookie belongs to, or None
  signed,      \* per challenge the sessions it gave, with the invitation each was to accept
  route,       \* "task" for any page of the application, "login", "onboarding" or "waitlist"
  link,        \* whether the address of the login page names the invitation
  page,        \* of the login page: whether the beta is open, the address, whether it is locked, challenge and code
  chains,      \* the chains of calls the pages start with
  call,        \* the form under way, or None; bound: one at a time
  orphan,      \* a verification the service goes on with although its answer will be lost, or None
  cached,      \* the answer about the session: "none", "new" or "ready", whether it failed last, and is fresh
  fetch,       \* its query under way, or None
  lossy,       \* whether a call was lost or late, an invitation was refused, or the session ended by itself
  failures

server == <<users, invitation, challenges, session, signed, orphan>>
tab == <<route, link, page, chains, call>>
query == <<cached, fetch>>
faults == <<lossy, failures>>
vars == <<server, tab, query, faults>>

---------------------------------------------------------------------------
(* The account service *)

Me == IF session = None THEN "none" ELSE users[session]

\* Fault: a challenge that was spent is taken again.
MayConsumeAgain(c) == TRUE
\* The update that consumes a challenge finds it open, however many have read it before.
MayConsume(c) == ~challenges[c].over

Readable(c) == challenges[c] # None /\ ~challenges[c].over /\ challenges[c].attempts < MaxAttempts

\* Fault: whoever signs in with the link is taken into the team.
AcceptsAll(e) == invitation \in {"pending", "accepted"}
Accepts(e) == e = Invited /\ invitation \in {"pending", "accepted"}

---------------------------------------------------------------------------
(* The tab *)

NoForm == [open |-> FALSE, email |-> None, locked |-> FALSE, challenge |-> None, code |-> None]
Chain(origin, step) == [from |-> origin, shown |-> TRUE, step |-> step, at |-> "sent", got |-> "none", open |-> FALSE]
Starts(to) ==
  CASE to \in {"login", "waitlist"} -> {Chain(to, "config")}
    [] to = "onboarding"            -> {Chain(to, "me")}
    [] to = "task"                  -> {}
Hidden(things) == {[c EXCEPT !.shown = FALSE] : c \in things}

\* Fault: an answer that is kept is never asked for again.
AsksOnce == cached.data = "none"
\* A page of the application asks who is signed in, unless it has a fresh answer.
Asks == cached.data = "none" \/ ~cached.fresh

\* Where the tab goes: the page starts with calls of its own, while those of the page
\* before go on.  Only from the waitlist the link comes along.
Navigate(to, rest, form) ==
  /\ route' = to
  /\ IF route = to THEN chains' = rest /\ call' = form /\ UNCHANGED <<link, page, query>>
     ELSE /\ page' = NoForm /\ link' = (link /\ route = "waitlist" /\ to = "login")
          /\ chains' = Hidden(rest) \cup Starts(to)
          /\ call' = IF form = None THEN None ELSE [form EXCEPT !.shown = FALSE]
          /\ fetch' = IF to = "task" /\ Asks /\ fetch = None THEN "sent" ELSE fetch
          /\ cached' = IF to = "task" /\ cached.data = "none" THEN [cached EXCEPT !.failed = FALSE] ELSE cached
Stay(rest, form) == chains' = rest /\ call' = form /\ UNCHANGED <<route, link, page, query>>

Init ==
  /\ users \in [Emails -> {"none", "new", "ready"}] /\ invitation = "pending"
  /\ challenges = [c \in Challenges |-> None] /\ signed = [c \in Challenges |-> {}]
  /\ session \in {e \in Emails : users[e] # "none"} \cup {None}
  /\ link \in BOOLEAN /\ page = NoForm /\ orphan = None
  /\ route \in IF link THEN {"login", "waitlist"} ELSE {"login", "waitlist", "onboarding", "task"}
  /\ chains = Starts(route)
  /\ cached = [data |-> "none", failed |-> FALSE, fresh |-> FALSE]
  /\ fetch = (IF route = "task" THEN "sent" ELSE None)
  /\ call = None /\ lossy = FALSE /\ failures = 0

---------------------------------------------------------------------------
(* The calls a page starts with *)

ServeChain(c) ==
  /\ c \in chains /\ c.at = "sent"
  /\ LET did(status, got) == chains' = (chains \ {c}) \cup {[c EXCEPT !.at = status, !.got = got]} IN
     \/ c.step = "config" /\ did("done", "open") /\ UNCHANGED <<users, invitation>>
     \/ c.step = "me" /\ did(IF Me = "none" THEN "failed" ELSE "done", Me) /\ UNCHANGED <<users, invitation>>
     \/ c.step = "lookup" /\ did(IF invitation = "cancelled" THEN "failed" ELSE "done", "none") /\ UNCHANGED <<users, invitation>>
     \/ /\ c.step = "accept"
        /\ IF session # None /\ Accepts(session)
           THEN did("done", "ready") /\ users' = [users EXCEPT ![session] = "ready"] /\ invitation' = "accepted"
           ELSE did("failed", "none") /\ UNCHANGED <<users, invitation>>
  /\ UNCHANGED <<challenges, session, signed, orphan, route, link, page, call, query, faults>>

\* A call that is lost fails; of the first two steps of a page that can sign in the page waits for no late answer either.
ChainFails(c) ==
  /\ failures < MaxFailures /\ failures' = failures + 1 /\ lossy' = TRUE
  /\ c \in chains /\ c.at \in {"sent", "done"}
  /\ chains' = (chains \ {c}) \cup {[c EXCEPT !.at = "failed", !.got = "none"]}
  /\ UNCHANGED <<server, route, link, page, call, query>>

Belongs(who) == IF who = "new" THEN "onboarding" ELSE "task"
Then(c, step) == (chains \ {c}) \cup {[c EXCEPT !.step = step, !.at = "sent", !.got = "none"]}
Ended(c) == c \in chains /\ c.at \in {"done", "failed"}

\* Without an answer the beta is closed.
Configured(c) ==
  /\ Ended(c) /\ c.step = "config"
  /\ chains' = (chains \ {c}) \cup {[c EXCEPT !.step = "me", !.at = "sent", !.got = "none", !.open = (c.at = "done")]}
  /\ page' = IF c.shown /\ c.from = "login" THEN [page EXCEPT !.open = (c.at = "done")] ELSE page
  /\ UNCHANGED <<server, route, link, call, query, faults>>

\* The login page accepts the invitation of its link, or looks whom it is for.
LoginKnows(c) ==
  /\ Ended(c) /\ c.step = "me" /\ c.from = "login"
  /\ IF link /\ (c.got # "none" \/ c.open) THEN Stay(Then(c, IF c.got # "none" THEN "accept" ELSE "lookup"), call)
     ELSE IF c.got # "none" THEN Navigate(Belongs(c.got), chains \ {c}, call)
     ELSE Stay(chains \ {c}, call)
  /\ UNCHANGED <<server, faults>>

WaitlistKnows(c) ==
  /\ Ended(c) /\ c.step = "me" /\ c.from = "waitlist"
  /\ IF c.got # "none" THEN Navigate(Belongs(c.got), chains \ {c}, call)
     ELSE IF c.open THEN Navigate("login", chains \ {c}, call)
     ELSE Stay(chains \ {c}, call)
  /\ UNCHANGED <<server, faults>>

\* Fault: the page does not send away who has been through it.
SentBackNever(c) == IF c.got = "none" THEN "login" ELSE "onboarding"
SentBack(c) == IF c.got = "none" THEN "login" ELSE IF c.got = "ready" THEN "task" ELSE "onboarding"
OnboardingKnows(c) ==
  /\ Ended(c) /\ c.step = "me" /\ c.from = "onboarding"
  /\ IF SentBack(c) = "onboarding" THEN Stay(chains \ {c}, call) ELSE Navigate(SentBack(c), chains \ {c}, call)
  /\ UNCHANGED <<server, faults>>

InvitationAccepted(c) ==
  /\ Ended(c) /\ c.step = "accept"
  /\ IF c.at = "done" THEN Navigate("task", chains \ {c}, call) ELSE Stay(chains \ {c}, call)
  /\ lossy' = (lossy \/ c.at = "failed")
  /\ UNCHANGED <<server, failures>>

InvitationKnown(c) ==
  /\ Ended(c) /\ c.step = "lookup"
  /\ chains' = chains \ {c}
  /\ page' = IF c.at = "done" /\ c.shown THEN [page EXCEPT !.email = Invited, !.locked = TRUE] ELSE page
  /\ UNCHANGED <<server, route, link, call, query, faults>>

---------------------------------------------------------------------------
(* The answer about the session that the application keeps *)

ServeFetch ==
  /\ fetch = "sent" /\ fetch' = IF Me = "none" THEN "refused" ELSE Me
  /\ UNCHANGED <<server, tab, cached, faults>>
FetchLost ==
  /\ fetch # None /\ fetch # "refused" /\ failures < MaxFailures /\ failures' = failures + 1
  /\ fetch' = "refused" /\ lossy' = TRUE /\ UNCHANGED <<server, tab, cached>>
Fetched ==
  /\ fetch \in {"new", "ready", "refused"} /\ fetch' = None
  /\ cached' = IF fetch = "refused" THEN [cached EXCEPT !.failed = TRUE, !.fresh = FALSE]
               ELSE [data |-> fetch, failed |-> FALSE, fresh |-> TRUE]
  /\ UNCHANGED <<server, tab, faults>>
\* Ten seconds later.
GoesStale == cached.fresh /\ cached' = [cached EXCEPT !.fresh = FALSE] /\ UNCHANGED <<server, tab, fetch, faults>>

\* A failure comes first, even where there is an answer of before.
Redirects == route = "task" /\ (cached.failed \/ cached.data = "new")
ProtectedRoute ==
  /\ Redirects /\ Navigate(IF cached.failed THEN "login" ELSE "onboarding", chains, call)
  /\ UNCHANGED <<server, faults>>

---------------------------------------------------------------------------
(* The forms *)

LoginForm == route = "login" /\ page.open /\ page.challenge = None
Looking == \E c \in chains : c.shown /\ c.step = "lookup"
CodeForm == route = "login" /\ page.open /\ page.challenge # None

typeEmail(e) ==
  /\ LoginForm /\ ~page.locked /\ page.email # e /\ page' = [page EXCEPT !.email = e]
  /\ UNCHANGED <<server, route, link, chains, call, query, faults>>
typeCode(c) ==
  /\ CodeForm /\ page.code # c /\ page' = [page EXCEPT !.code = c]
  /\ UNCHANGED <<server, route, link, chains, call, query, faults>>
useDifferentEmail ==
  /\ CodeForm /\ ~page.locked /\ page' = [page EXCEPT !.challenge = None]
  /\ UNCHANGED <<server, route, link, chains, call, query, faults>>

Form(op) == [op |-> op, at |-> "sent", email |-> page.email, challenge |-> page.challenge, code |-> page.code,
              invited |-> link, read |-> FALSE, to |-> "none", shown |-> TRUE]
Submits(form) == call = None /\ call' = form /\ UNCHANGED <<server, route, link, page, chains, query, faults>>
submitRequest == LoginForm /\ ~Looking /\ page.email # None /\ (\E c \in Challenges : challenges[c] = None) /\ Submits(Form("request"))
submitVerify == CodeForm /\ page.code # None /\ Submits(Form("verify"))
submitOnboarding == route = "onboarding" /\ Submits(Form("onboarding"))
signOut == route = "task" /\ cached.data # "none" /\ ~Redirects /\ Submits(Form("logout"))

BeginEmailLogin ==
  /\ call # None /\ call.op = "request" /\ call.at = "sent"
  /\ \E c \in Challenges :
       /\ challenges[c] = None /\ \A d \in Challenges : d < c => challenges[d] # None
       /\ challenges' = [challenges EXCEPT ![c] = [email |-> call.email, attempts |-> 0, over |-> FALSE]]
       /\ call' = [call EXCEPT !.at = "done", !.challenge = c]
  /\ UNCHANGED <<users, invitation, session, signed, orphan, route, link, page, chains, query, faults>>

\* What is read of a challenge is used later: two requests can have read it open.
VerifyReads ==
  /\ call # None /\ call.op = "verify" /\ call.at = "sent" /\ ~call.read
  /\ IF ~Readable(call.challenge) THEN call' = [call EXCEPT !.at = "failed"] /\ UNCHANGED challenges
     ELSE IF call.code # call.challenge
     THEN /\ challenges' = [challenges EXCEPT ![call.challenge].attempts = @ + 1]
          /\ call' = [call EXCEPT !.at = "failed"]
     ELSE call' = [call EXCEPT !.read = TRUE] /\ UNCHANGED challenges
  /\ UNCHANGED <<users, invitation, session, signed, orphan, route, link, page, chains, query, faults>>

\* The code is spent and the user made; then, in transactions of their own, the invitation
\* is accepted, whose refusal ends it without a session, and the session is written.
Signs(v, answered) ==
  LET c == v.challenge
      e == challenges[c].email
      who == IF users[e] = "none" THEN "new" ELSE users[e]
      refused == v.invited /\ ~Accepts(e) IN
  /\ challenges' = [challenges EXCEPT ![c].over = TRUE]
  /\ users' = [users EXCEPT ![e] = IF v.invited /\ ~refused THEN "ready" ELSE who]
  /\ invitation' = IF v.invited /\ ~refused THEN "accepted" ELSE invitation
  /\ signed' = IF refused THEN signed ELSE [signed EXCEPT ![c] = @ \cup {[n |-> Cardinality(@), invited |-> v.invited]}]
  /\ session' = IF answered /\ ~refused THEN e ELSE session
VerifyEmailLogin ==
  /\ call # None /\ call.op = "verify" /\ call.at = "sent" /\ call.read
  /\ IF MayConsume(call.challenge) THEN Signs(call, TRUE) ELSE UNCHANGED <<users, invitation, challenges, session, signed>>
  /\ call' = IF signed' = signed THEN [call EXCEPT !.at = "failed"]
             ELSE [call EXCEPT !.at = "done", !.to = Belongs(users'[session'])]
  /\ UNCHANGED <<orphan, route, link, page, chains, query, faults>>
VerifyAlone ==
  /\ orphan # None /\ orphan' = None
  /\ IF MayConsume(orphan.challenge) THEN Signs(orphan, FALSE) ELSE UNCHANGED <<users, invitation, challenges, session, signed>>
  /\ UNCHANGED <<tab, query, faults>>

CompleteOnboarding ==
  /\ call # None /\ call.op = "onboarding" /\ call.at = "sent"
  /\ IF session = None THEN call' = [call EXCEPT !.at = "failed"] /\ UNCHANGED users
     ELSE call' = [call EXCEPT !.at = "done"] /\ users' = [users EXCEPT ![session] = "ready"]
  /\ UNCHANGED <<invitation, challenges, session, signed, orphan, route, link, page, chains, query, faults>>

Logout ==
  /\ call # None /\ call.op = "logout" /\ call.at = "sent"
  /\ session' = None /\ call' = [call EXCEPT !.at = "done"]
  /\ UNCHANGED <<users, invitation, challenges, signed, orphan, route, link, page, chains, query, faults>>

\* The service may go on with a call the tab has given up.
CallLost ==
  /\ call # None /\ call.at \in {"sent", "done"} /\ failures < MaxFailures /\ failures' = failures + 1
  /\ call' = [call EXCEPT !.at = "failed"] /\ lossy' = TRUE
  /\ orphan' \in {orphan} \cup IF call.read /\ call.at = "sent" THEN {call} ELSE {}
  /\ UNCHANGED <<users, invitation, challenges, session, signed, route, link, page, chains, query>>

Requested ==
  /\ call # None /\ call.op = "request" /\ call.at \in {"done", "failed"} /\ call' = None
  /\ page' = IF call.at = "done" /\ call.shown THEN [page EXCEPT !.challenge = call.challenge] ELSE page
  /\ UNCHANGED <<server, route, link, chains, query, faults>>

Submitted ==
  /\ call # None /\ call.op \in {"verify", "onboarding"} /\ call.at \in {"done", "failed"}
  /\ IF call.at = "done" THEN Navigate(IF call.op = "verify" THEN call.to ELSE "task", chains, None) ELSE Stay(chains, None)
  /\ UNCHANGED <<server, faults>>

\* The browser loads the application again, at the login page, whatever became of the call.
SignedOut ==
  /\ call # None /\ call.op = "logout" /\ call.at \in {"done", "failed"}
  /\ call' = None /\ route' = "login" /\ page' = NoForm /\ link' = FALSE
  /\ chains' = {Chain("login", "config")} /\ fetch' = None
  /\ cached' = [data |-> "none", failed |-> FALSE, fresh |-> FALSE]
  /\ UNCHANGED <<server, faults>>

---------------------------------------------------------------------------
(* What else happens *)

\* Another page of the application.
Browse ==
  /\ route = "task" /\ ~Redirects /\ cached.data # "none" /\ Asks /\ fetch = None /\ fetch' = "sent"
  /\ UNCHANGED <<server, tab, cached, faults>>
SessionEnds ==
  /\ session # None /\ session' = None /\ lossy' = TRUE
  /\ UNCHANGED <<users, invitation, challenges, signed, orphan, tab, query, failures>>
InvitationCancelled ==
  /\ invitation = "pending" /\ invitation' = "cancelled"
  /\ UNCHANGED <<users, challenges, session, signed, orphan, tab, query, faults>>
ChallengeExpires ==
  \E c \in Challenges :
    /\ challenges[c] # None /\ ~challenges[c].over /\ challenges' = [challenges EXCEPT ![c].over = TRUE]
    /\ UNCHANGED <<users, invitation, session, signed, orphan, tab, query, faults>>

Gesture ==
  \/ \E e \in Emails : typeEmail(e)
  \/ \E c \in Challenges : typeCode(c)
  \/ useDifferentEmail \/ submitRequest \/ submitVerify \/ submitOnboarding \/ signOut \/ Browse
Progress ==
  \/ \E c \in chains : \/ ServeChain(c) \/ Configured(c) \/ LoginKnows(c) \/ WaitlistKnows(c) \/ OnboardingKnows(c)
                       \/ InvitationAccepted(c) \/ InvitationKnown(c)
  \/ ServeFetch \/ Fetched \/ GoesStale \/ ProtectedRoute
  \/ BeginEmailLogin \/ VerifyReads \/ VerifyEmailLogin \/ VerifyAlone \/ CompleteOnboarding \/ Logout \/ Requested \/ Submitted \/ SignedOut
Mishap ==
  \/ \E c \in chains : ChainFails(c)
  \/ FetchLost \/ CallLost \/ SessionEnds \/ ChallengeExpires \/ InvitationCancelled
Next == Gesture \/ Progress \/ Mishap

\* Calls are answered, and time passes.
Fairness == WF_vars(Progress) /\ WF_vars(ServeFetch \/ Fetched) /\ WF_vars(GoesStale)
Spec == Init /\ [][Next]_vars /\ Fairness

---------------------------------------------------------------------------
(* Challenges have an address, the form under way is one there is, and the    *)
(* answer kept is fresh only where there is one.                              *)
TypeOK ==
  /\ users \in [Emails -> {"none", "new", "ready"}] /\ session \in Emails \cup {None}
  /\ session # None => users[session] # "none"
  /\ challenges \in [Challenges -> Challenge \cup {None}]
  /\ page.challenge # None => challenges[page.challenge] # None
  /\ cached.fresh => cached.data # "none" /\ ~cached.failed

(* A code signs in once (auth_login_challenge_consume.sql), even when its     *)
(* form is sent again while the service still works on the first sending.     *)
OneSessionPerCode == \A c \in Challenges : Cardinality(signed[c]) <= 1

(* Who signs in with the link of an invitation is whom it is for, and is then *)
(* in the workspace it has been accepted for.                                 *)
InvitedSignsIn ==
  /\ TypeOK
  /\ \A c \in Challenges : (\E s \in signed[c] : s.invited) =>
       challenges[c].email = Invited /\ users[Invited] = "ready" /\ invitation = "accepted"

Settled == chains = {} /\ fetch = None /\ call = None /\ ~Redirects

(* Whatever the tab remembers of the session, and whichever of its pages have *)
(* been left while their calls were under way: at rest it shows the page that *)
(* belongs to who is signed in, unless a call was lost or late, an invitation *)
(* was refused or the session ended by itself.                                *)
RightPage ==
  Settled /\ ~lossy =>
    CASE route = "task"       -> session # None /\ users[session] = "ready"
      [] route = "onboarding" -> session # None /\ users[session] = "new"
      [] route = "login"      -> session = None
      [] route = "waitlist"   -> FALSE

(* The pages send each other away: the login page whom it finds signed in,    *)
(* the application whom it last heard to be new or not at all, onboarding     *)
(* whom it finds ready.  With nobody acting any more it comes to rest.        *)
ComesToRest == <>[]Settled
=============================================================================
