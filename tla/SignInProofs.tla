---------------------------- MODULE SignInProofs ----------------------------
(***************************************************************************)
(* Proofs about SignIn, for every number of addresses and codes: a code    *)
(* gives one session, however often its form is sent; whoever signs in     *)
(* with the link of an invitation is whom it is for; and once everything   *)
(* has been answered, the tab shows the page of who is signed in.  And     *)
(* about the profile page of who is: at rest it shows what is held.        *)
(***************************************************************************)
EXTENDS SignIn, ClientPages, FiniteSetTheorems, TLAPS

FormFields == {"op", "at", "email", "challenge", "code", "invited", "read", "to", "shown"}
PageFields == {"open", "email", "locked", "challenge", "code"}

Accounts ==
  /\ users \in [Emails -> {"none", "new", "ready"}] /\ session \in Emails \cup {None}
  /\ session # None => users[session] # "none"
Sent == challenges \in [Challenges -> Challenge \cup {None}]
\* A code that can still be spent has given no session.
Unspent ==
  /\ signed = [c \in Challenges |-> signed[c]]
  /\ \A c \in Challenges : signed[c] = {} \/ (challenges[c] # None /\ challenges[c].over /\ \E s : signed[c] = {s})
Joined ==
  \A c \in Challenges : (\E s \in signed[c] : s.invited) =>
    challenges[c].email = Invited /\ users[Invited] = "ready" /\ invitation = "accepted"
Server == Accounts /\ Sent /\ Unspent /\ Joined

Known(c) == c \in Challenges /\ challenges[c] # None
\* The challenges the tab and the service still work with have been sent.
PageKnown ==
  /\ DOMAIN page = PageFields /\ page.email \in Emails \cup {None}
  /\ page.challenge # None => Known(page.challenge)
FormKnown ==
  call # None => /\ DOMAIN call = FormFields
                 /\ call.op = "verify" => Known(call.challenge)
                 /\ call.op = "request" => call.email \in Emails
                 /\ call.op = "request" /\ call.at = "done" => Known(call.challenge)
                 /\ call.read => call.op = "verify"
OrphanKnown == orphan # None => Known(orphan.challenge)
Answer == DOMAIN cached = {"data", "failed", "fresh"} /\ (cached.fresh => cached.data # "none" /\ ~cached.failed)

IInv == Server /\ PageKnown /\ FormKnown /\ OrphanKnown /\ Answer

\* What holds of challenges goes on holding.
Kept == \A c \in Challenges : challenges[c] # None => challenges'[c] # None

-----------------------------------------------------------------------------
(* The account service. *)

LEMMA SameServer ==
  ASSUME Server, UNCHANGED <<users, invitation, challenges, session, signed>>
  PROVE  Server' /\ Kept
BY DEF Server, Accounts, Sent, Unspent, Joined, Kept

\* Users only get further.
Further ==
  /\ users' \in [Emails -> {"none", "new", "ready"}]
  /\ \A e \in Emails : /\ users[e] # "none" => users'[e] # "none"
                       /\ users[e] = "ready" => users'[e] = "ready"
  /\ invitation = "accepted" => invitation' = "accepted"

LEMMA OnlyUsers ==
  ASSUME Server, Further, session' \in {session, None}, UNCHANGED <<challenges, signed>>
  PROVE  Server' /\ Kept
<1>1. Accounts'
  BY DEF Server, Accounts, Further
<1>2. Sent' /\ Kept /\ Unspent'
  BY DEF Server, Sent, Kept, Unspent
<1>3. Joined'
  BY SignInAssumption DEF Server, Joined, Further
<1> QED BY <1>1, <1>2, <1>3 DEF Server

\* One challenge is changed that has given no session.
LEMMA OneChallenge ==
  ASSUME Server, NEW c \in Challenges, NEW h \in Challenge,
         signed[c] = {} \/ (h.over /\ h.email = challenges[c].email),
         challenges' = [challenges EXCEPT ![c] = h], UNCHANGED <<users, invitation, session, signed>>
  PROVE  Server' /\ Kept
<1>1. Accounts'
  BY DEF Server, Accounts
<1>2. Sent' /\ Kept /\ challenges'[c] = h /\ h # None /\ \A d \in Challenges : d # c => challenges'[d] = challenges[d]
  BY SignInAssumption DEF Server, Sent, Kept
<1>3. Unspent'
  BY <1>2 DEF Server, Unspent
<1>4. Joined'
  <2>1. ASSUME NEW d \in Challenges, \E s \in signed[d] : s.invited
        PROVE  challenges'[d].email = Invited /\ users[Invited] = "ready" /\ invitation = "accepted"
    <3>1. challenges[d].email = Invited /\ users[Invited] = "ready" /\ invitation = "accepted"
      BY <2>1 DEF Server, Joined
    <3>2. signed[d] # {}
      BY <2>1
    <3>3. challenges'[d].email = challenges[d].email
      BY <3>2, <1>2
    <3> QED BY <3>1, <3>3
  <2> QED BY <2>1 DEF Joined
<1> QED BY <1>1, <1>2, <1>3, <1>4 DEF Server

LEMMA SignsKeeps ==
  ASSUME Server, NEW v, Known(v.challenge), MayConsume(v.challenge), NEW answered \in BOOLEAN, Signs(v, answered)
  PROVE  Server' /\ Kept
<1> DEFINE c == v.challenge
           e == challenges[c].email
           who == IF users[e] = "none" THEN "new" ELSE users[e]
           refused == v.invited /\ ~Accepts(e)
           new == [n |-> Cardinality(signed[c]), invited |-> v.invited]
<1>1. c \in Challenges /\ challenges[c] \in Challenge /\ e \in Emails /\ ~challenges[c].over
  BY DEF Known, MayConsume, Server, Sent, Challenge
<1>2. signed[c] = {}
  BY <1>1 DEF Server, Unspent
<1>3. challenges' = [challenges EXCEPT ![c] = [challenges[c] EXCEPT !.over = TRUE]]
  BY DEF Signs
<1>4. [challenges[c] EXCEPT !.over = TRUE] \in Challenge /\ [challenges[c] EXCEPT !.over = TRUE].over
  BY <1>1 DEF Challenge
<1>5. /\ challenges'[c] \in Challenge /\ challenges'[c].over /\ challenges'[c].email = e
      /\ \A d \in Challenges : d # c => challenges'[d] = challenges[d]
  <2>1. challenges'[c] = [challenges[c] EXCEPT !.over = TRUE] /\ \A d \in Challenges : d # c => challenges'[d] = challenges[d]
    BY <1>1, <1>3 DEF Server, Sent
  <2>2. [challenges[c] EXCEPT !.over = TRUE].email = e
    BY <1>1 DEF Challenge
  <2> QED BY <1>4, <2>1, <2>2
<1>6. Sent' /\ Kept
  BY <1>1, <1>3, <1>5, SignInAssumption DEF Server, Sent, Kept
<1>7. /\ users' = [users EXCEPT ![e] = IF v.invited /\ ~refused THEN "ready" ELSE who]
      /\ invitation' = IF v.invited /\ ~refused THEN "accepted" ELSE invitation
      /\ session' = IF answered /\ ~refused THEN e ELSE session
      /\ signed' = IF refused THEN signed ELSE [signed EXCEPT ![c] = signed[c] \cup {new}]
  BY DEF Signs
<1>8. users'[e] \in {"new", "ready"} /\ Further
  BY <1>1, <1>7 DEF Further, Server, Accounts
<1>9. Accounts'
  BY <1>1, <1>7, <1>8 DEF Server, Accounts, Further
<1>10. /\ signed' = [d \in Challenges |-> signed'[d]] /\ \A d \in Challenges : d # c => signed'[d] = signed[d]
       /\ signed'[c] = {} \/ (signed'[c] = {new} /\ ~refused)
  BY <1>1, <1>2, <1>7 DEF Server, Unspent
<1>11. Unspent'
  BY <1>5, <1>10, SignInAssumption DEF Server, Unspent
<1>12. Joined'
  <2>1. ASSUME NEW d \in Challenges, d # c, \E s \in signed'[d] : s.invited
        PROVE  challenges'[d].email = Invited /\ users'[Invited] = "ready" /\ invitation' = "accepted"
    <3>1. challenges[d].email = Invited /\ users[Invited] = "ready" /\ invitation = "accepted"
      BY <2>1, <1>10 DEF Server, Joined
    <3> QED BY <3>1, <2>1, <1>5, <1>8, SignInAssumption DEF Further
  <2>2. ASSUME \E s \in signed'[c] : s.invited
        PROVE  challenges'[c].email = Invited /\ users'[Invited] = "ready" /\ invitation' = "accepted"
    <3>1. v.invited /\ ~refused
      BY <2>2, <1>10
    <3>2. e = Invited
      BY <3>1 DEF Accepts
    <3>3. users'[e] = "ready" /\ invitation' = "accepted"
      BY <3>1, <1>1, <1>7 DEF Server, Accounts
    <3> QED BY <3>2, <3>3, <1>5
  <2> QED BY <2>1, <2>2 DEF Joined
<1> QED BY <1>6, <1>9, <1>11, <1>12 DEF Server

-----------------------------------------------------------------------------
(* The tab. *)

LEMMA SamePage ==
  ASSUME PageKnown, Kept, page' = page
  PROVE  PageKnown'
BY DEF PageKnown, Known, Kept

LEMMA SameForm ==
  ASSUME FormKnown, Kept, call' \in {call, None}
  PROVE  FormKnown'
BY DEF FormKnown, Known, Kept

LEMMA SameOrphan ==
  ASSUME OrphanKnown, Kept, orphan' \in {orphan, None}
  PROVE  OrphanKnown'
BY DEF OrphanKnown, Known, Kept

LEMMA SameAnswer ==
  ASSUME Answer, UNCHANGED cached
  PROVE  Answer'
BY DEF Answer

LEMMA HiddenForm ==
  ASSUME FormKnown, Kept, call # None, call' = [call EXCEPT !.shown = FALSE]
  PROVE  FormKnown'
<1>1. DOMAIN call = FormFields
  BY DEF FormKnown
<1>2. /\ DOMAIN call' = FormFields /\ call'.op = call.op /\ call'.at = call.at /\ call'.email = call.email
      /\ call'.challenge = call.challenge /\ call'.read = call.read
  BY <1>1 DEF FormFields
<1> QED BY <1>2 DEF FormKnown, Known, Kept

\* The form under way is answered or has failed.
LEMMA EndedForm ==
  ASSUME FormKnown, Kept, call # None, call.op # "request", NEW at, NEW to,
         call' = [call EXCEPT !.at = at] \/ call' = [call EXCEPT !.at = at, !.to = to]
  PROVE  FormKnown'
<1>1. DOMAIN call = FormFields
  BY DEF FormKnown
<1>2. /\ DOMAIN call' = FormFields /\ call'.op = call.op
      /\ call'.challenge = call.challenge /\ call'.read = call.read
  BY <1>1 DEF FormFields
<1> QED BY <1>2 DEF FormKnown, Known, Kept

LEMMA FailedForm ==
  ASSUME FormKnown, Kept, call # None, call' = [call EXCEPT !.at = "failed"]
  PROVE  FormKnown'
<1>1. DOMAIN call = FormFields
  BY DEF FormKnown
<1>2. /\ DOMAIN call' = FormFields /\ call'.op = call.op /\ call'.at = "failed" /\ call'.email = call.email
      /\ call'.challenge = call.challenge /\ call'.read = call.read
  BY <1>1 DEF FormFields
<1> QED BY <1>2 DEF FormKnown, Known, Kept

LEMMA NavigateKeeps ==
  ASSUME PageKnown, FormKnown, Answer, Kept, NEW to, NEW rest, NEW form \in {call, None}, Navigate(to, rest, form)
  PROVE  PageKnown' /\ FormKnown' /\ Answer'
<1>1. CASE route = to
  BY <1>1, SamePage, SameForm, SameAnswer DEF Navigate, query
<1>2. CASE route # to
  <2>1. PageKnown'
    BY <1>2 DEF Navigate, NoForm, PageKnown, PageFields
  <2>2. call' = None \/ (call # None /\ call' = [call EXCEPT !.shown = FALSE])
    BY <1>2 DEF Navigate
  <2>3. FormKnown'
    BY <2>2, SameForm, HiddenForm
  <2>4. cached' = cached \/ (cached.data = "none" /\ cached' = [cached EXCEPT !.failed = FALSE])
    BY <1>2 DEF Navigate
  <2>5. Answer'
    BY <2>4 DEF Answer
  <2> QED BY <2>1, <2>3, <2>5
<1> QED BY <1>1, <1>2

LEMMA StayKeeps ==
  ASSUME PageKnown, FormKnown, Answer, Kept, NEW rest, NEW form \in {call, None}, Stay(rest, form)
  PROVE  PageKnown' /\ FormKnown' /\ Answer'
BY SamePage, SameForm, SameAnswer DEF Stay, query

-----------------------------------------------------------------------------
(* Each step preserves the invariant. *)

LEMMA GesturesKeep ==
  ASSUME IInv, Gesture
  PROVE  IInv'
<1>0. Server /\ PageKnown /\ FormKnown /\ OrphanKnown /\ Answer
  BY DEF IInv
<1>1. UNCHANGED <<users, invitation, challenges, session, signed, orphan, cached>>
  BY DEF Gesture, typeEmail, typeCode, useDifferentEmail, submitRequest, submitVerify, submitOnboarding, signOut,
         Browse, Submits, server, query
<1>2. Server' /\ Kept /\ OrphanKnown' /\ Answer'
  BY <1>0, <1>1, SameServer, SameOrphan, SameAnswer
<1>3. \/ page' = page
      \/ \E e \in Emails : page' = [page EXCEPT !.email = e]
      \/ \E c \in Challenges : page' = [page EXCEPT !.code = c]
      \/ page' = [page EXCEPT !.challenge = None]
  BY DEF Gesture, typeEmail, typeCode, useDifferentEmail, submitRequest, submitVerify, submitOnboarding, signOut,
         Browse, Submits, tab
<1>4. DOMAIN page' = PageFields /\ page'.challenge \in {page.challenge, None} /\ page'.email \in Emails \cup {None}
  <2>1. DOMAIN page = PageFields /\ page.email \in Emails \cup {None}
    BY <1>0 DEF PageKnown
  <2> QED BY <1>3, <2>1 DEF PageFields
<1>5. PageKnown'
  BY <1>0, <1>2, <1>4 DEF PageKnown, Known, Kept
<1>6. call' = call \/ \E op \in {"request", "verify", "onboarding", "logout"} :
                        /\ call' = Form(op)
                        /\ op = "verify" => page.challenge # None
                        /\ op = "request" => page.email # None
  BY DEF Gesture, typeEmail, typeCode, useDifferentEmail, submitRequest, submitVerify, submitOnboarding, signOut,
         Browse, Submits, tab, CodeForm
<1>7. FormKnown'
  <2>1. CASE call' = call
    BY <1>0, <1>2, <2>1, SameForm
  <2>2. ASSUME NEW op \in {"request", "verify", "onboarding", "logout"}, call' = Form(op),
               op = "verify" => page.challenge # None, op = "request" => page.email # None
        PROVE  FormKnown'
    <3>1. /\ DOMAIN call' = FormFields /\ call'.op = op /\ call'.at = "sent" /\ call'.read = FALSE
          /\ call'.challenge = page.challenge /\ call'.email = page.email
      BY <2>2 DEF Form, FormFields
    <3>2. op = "request" => page.email \in Emails
      BY <1>0, <2>2 DEF PageKnown
    <3>3. op = "verify" => call'.challenge \in Challenges /\ challenges'[call'.challenge] # None
      BY <1>0, <1>2, <2>2, <3>1 DEF PageKnown, Known, Kept
    <3> QED BY <3>1, <3>2, <3>3 DEF FormKnown, Known
  <2> QED BY <1>6, <2>1, <2>2
<1> QED BY <1>2, <1>5, <1>7 DEF IInv

LEMMA ChainsKeep ==
  ASSUME IInv, NEW c \in chains,
         \/ ServeChain(c) \/ Configured(c) \/ LoginKnows(c) \/ WaitlistKnows(c) \/ OnboardingKnows(c)
         \/ InvitationAccepted(c) \/ InvitationKnown(c) \/ ChainFails(c)
  PROVE  IInv'
<1>0. Server /\ PageKnown /\ FormKnown /\ OrphanKnown /\ Answer
  BY DEF IInv
<1>1. CASE ServeChain(c)
  <2>1. UNCHANGED <<challenges, session, signed, orphan, page, call, cached>>
    BY <1>1 DEF ServeChain, query
  <2>2. \/ UNCHANGED <<users, invitation>>
        \/ session # None /\ users' = [users EXCEPT ![session] = "ready"] /\ invitation' = "accepted"
    BY <1>1 DEF ServeChain
  <2>3. Server' /\ Kept
    <3>1. Further
      BY <1>0, <2>2 DEF Further, Server, Accounts
    <3> QED BY <1>0, <2>1, <3>1, OnlyUsers
  <2> QED BY <1>0, <2>1, <2>3, SamePage, SameForm, SameOrphan, SameAnswer DEF IInv
<1>2. CASE Configured(c) \/ InvitationKnown(c) \/ ChainFails(c)
  <2>1. UNCHANGED <<users, invitation, challenges, session, signed, orphan, call, cached>>
    BY <1>2 DEF Configured, InvitationKnown, ChainFails, server, query
  <2>2. Server' /\ Kept
    BY <1>0, <2>1, SameServer
  <2>3. page' = page \/ page' = [page EXCEPT !.open = (c.at = "done")]
                     \/ page' = [page EXCEPT !.email = Invited, !.locked = TRUE]
    BY <1>2 DEF Configured, InvitationKnown, ChainFails
  <2>4. DOMAIN page' = PageFields /\ page'.challenge = page.challenge /\ page'.email \in Emails \cup {None}
    <3>1. DOMAIN page = PageFields /\ page.email \in Emails \cup {None}
      BY <1>0 DEF PageKnown
    <3> QED BY <2>3, <3>1, SignInAssumption DEF PageFields
  <2>5. PageKnown'
    BY <1>0, <2>2, <2>4 DEF PageKnown, Known, Kept
  <2> QED BY <1>0, <2>1, <2>2, <2>5, SameForm, SameOrphan, SameAnswer DEF IInv
<1>3. CASE LoginKnows(c) \/ WaitlistKnows(c) \/ OnboardingKnows(c) \/ InvitationAccepted(c)
  <2>1. UNCHANGED <<users, invitation, challenges, session, signed, orphan>>
    BY <1>3 DEF LoginKnows, WaitlistKnows, OnboardingKnows, InvitationAccepted, server
  <2>2. Server' /\ Kept /\ OrphanKnown'
    BY <1>0, <2>1, SameServer, SameOrphan
  <2>3. \E to, rest : Navigate(to, rest, call) \/ Stay(rest, call)
    BY <1>3 DEF LoginKnows, WaitlistKnows, OnboardingKnows, InvitationAccepted
  <2>4. PageKnown' /\ FormKnown' /\ Answer'
    BY <1>0, <2>2, <2>3, NavigateKeeps, StayKeeps
  <2> QED BY <2>2, <2>4 DEF IInv
<1> QED BY <1>1, <1>2, <1>3

LEMMA AnswersKeep ==
  ASSUME IInv, ServeFetch \/ FetchLost \/ Fetched \/ GoesStale \/ ProtectedRoute
  PROVE  IInv'
<1>0. Server /\ PageKnown /\ FormKnown /\ OrphanKnown /\ Answer
  BY DEF IInv
<1>1. UNCHANGED <<users, invitation, challenges, session, signed, orphan>>
  BY DEF ServeFetch, FetchLost, Fetched, GoesStale, ProtectedRoute, server
<1>2. Server' /\ Kept /\ OrphanKnown'
  BY <1>0, <1>1, SameServer, SameOrphan
<1>3. CASE ServeFetch \/ FetchLost \/ Fetched \/ GoesStale
  <2>1. UNCHANGED <<page, call>>
    BY <1>3 DEF ServeFetch, FetchLost, Fetched, GoesStale, tab
  <2>2. \/ cached' = cached \/ cached' = [cached EXCEPT !.failed = TRUE, !.fresh = FALSE]
        \/ cached' = [cached EXCEPT !.fresh = FALSE]
        \/ fetch # "none" /\ cached' = [data |-> fetch, failed |-> FALSE, fresh |-> TRUE]
    BY <1>3 DEF ServeFetch, FetchLost, Fetched, GoesStale
  <2>3. Answer'
    <3>1. DOMAIN cached = {"data", "failed", "fresh"}
      BY <1>0 DEF Answer
    <3>2. CASE cached' = cached
      BY <1>0, <3>2, SameAnswer
    <3>3. CASE cached' = [cached EXCEPT !.failed = TRUE, !.fresh = FALSE] \/ cached' = [cached EXCEPT !.fresh = FALSE]
      <4>1. DOMAIN cached' = {"data", "failed", "fresh"} /\ cached'.fresh = FALSE
        BY <3>1, <3>3
      <4> QED BY <4>1 DEF Answer
    <3>4. CASE fetch # "none" /\ cached' = [data |-> fetch, failed |-> FALSE, fresh |-> TRUE]
      <4>1. DOMAIN cached' = {"data", "failed", "fresh"} /\ cached'.data # "none" /\ cached'.failed = FALSE
        BY <3>4
      <4> QED BY <4>1 DEF Answer
    <3> QED BY <2>2, <3>2, <3>3, <3>4
  <2> QED BY <1>0, <1>2, <2>1, <2>3, SamePage, SameForm DEF IInv
<1>4. CASE ProtectedRoute
  <2>1. \E to : Navigate(to, chains, call)
    BY <1>4 DEF ProtectedRoute
  <2>2. PageKnown' /\ FormKnown' /\ Answer'
    BY <1>0, <1>2, <2>1, NavigateKeeps
  <2> QED BY <1>2, <2>2 DEF IInv
<1> QED BY <1>3, <1>4

LEMMA ServiceKeeps ==
  ASSUME IInv,
         BeginEmailLogin \/ VerifyReads \/ VerifyEmailLogin \/ VerifyAlone \/ CompleteOnboarding \/ Logout
  PROVE  IInv'
<1>0. Server /\ PageKnown /\ FormKnown /\ OrphanKnown /\ Answer
  BY DEF IInv
<1>1. page' = page /\ cached' = cached
  BY DEF BeginEmailLogin, VerifyReads, VerifyEmailLogin, VerifyAlone, CompleteOnboarding, Logout, tab, query
<1>2. ASSUME Server', Kept, FormKnown', orphan' \in {orphan, None}
      PROVE  IInv'
  BY <1>0, <1>1, <1>2, SamePage, SameOrphan, SameAnswer DEF IInv
<1>3. CASE BeginEmailLogin
  <2>1. PICK c \in Challenges :
          /\ challenges[c] = None
          /\ challenges' = [challenges EXCEPT ![c] = [email |-> call.email, attempts |-> 0, over |-> FALSE]]
          /\ call' = [call EXCEPT !.at = "done", !.challenge = c]
    BY <1>3 DEF BeginEmailLogin
  <2>2. call # None /\ call.op = "request" /\ call.email \in Emails /\ DOMAIN call = FormFields
    BY <1>0, <1>3 DEF BeginEmailLogin, FormKnown
  <2>3. [email |-> call.email, attempts |-> 0, over |-> FALSE] \in Challenge /\ signed[c] = {}
    BY <1>0, <2>1, <2>2, SignInAssumption DEF Challenge, Server, Unspent
  <2>4. UNCHANGED <<users, invitation, session, signed, orphan>>
    BY <1>3 DEF BeginEmailLogin
  <2>5. Server' /\ Kept
    BY <1>0, <2>1, <2>3, <2>4, OneChallenge
  <2>6. /\ DOMAIN call' = FormFields /\ call'.op = "request" /\ call'.email = call.email
        /\ call'.challenge = c /\ call'.read = call.read
    BY <2>1, <2>2 DEF FormFields
  <2>7. challenges'[c] # None
    BY <1>0, <2>1, <2>3, SignInAssumption DEF Server, Sent
  <2>8. ~call.read
    BY <1>0, <2>2 DEF FormKnown
  <2>9. FormKnown'
    BY <2>2, <2>6, <2>7, <2>8 DEF FormKnown, Known
  <2> QED BY <1>2, <2>4, <2>5, <2>9
<1>4. CASE VerifyReads
  <2> DEFINE c == call.challenge
  <2>1. call # None /\ call.op = "verify" /\ Known(c) /\ DOMAIN call = FormFields
    BY <1>0, <1>4 DEF VerifyReads, FormKnown
  <2>2. UNCHANGED <<users, invitation, session, signed, orphan>>
    BY <1>4 DEF VerifyReads
  <2>3. \/ challenges' = challenges
        \/ Readable(c) /\ challenges' = [challenges EXCEPT ![c] = [challenges[c] EXCEPT !.attempts = challenges[c].attempts + 1]]
    BY <1>4 DEF VerifyReads
  <2>4. Server' /\ Kept
    <3>1. CASE challenges' = challenges
      BY <1>0, <2>2, <3>1, SameServer
    <3>2. CASE Readable(c) /\ challenges' = [challenges EXCEPT ![c] = [challenges[c] EXCEPT !.attempts = challenges[c].attempts + 1]]
      <4>1. challenges[c] \in Challenge /\ c \in Challenges
        BY <1>0, <2>1 DEF Known, Server, Sent
      <4>2. [challenges[c] EXCEPT !.attempts = challenges[c].attempts + 1] \in Challenge
        BY <3>2, <4>1, SignInAssumption DEF Readable, Challenge
      <4>3. signed[c] = {}
        BY <1>0, <3>2, <4>1 DEF Readable, Server, Unspent
      <4> QED BY <1>0, <2>2, <3>2, <4>1, <4>2, <4>3, OneChallenge
    <3> QED BY <2>3, <3>1, <3>2
  <2>5. call' = [call EXCEPT !.at = "failed"] \/ call' = [call EXCEPT !.read = TRUE]
    BY <1>4 DEF VerifyReads
  <2>6. FormKnown'
    <3>1. CASE call' = [call EXCEPT !.at = "failed"]
      BY <1>0, <2>1, <2>4, <3>1, FailedForm
    <3>2. CASE call' = [call EXCEPT !.read = TRUE]
      <4>1. DOMAIN call' = FormFields /\ call'.op = "verify" /\ call'.challenge = c
        BY <2>1, <3>2 DEF FormFields
      <4> QED BY <2>1, <2>4, <4>1 DEF FormKnown, Known, Kept
    <3> QED BY <2>5, <3>1, <3>2
  <2> QED BY <1>2, <2>2, <2>4, <2>6
<1>5. CASE VerifyEmailLogin
  <2>0. call # None /\ call.op = "verify" /\ Known(call.challenge)
    BY <1>0, <1>5 DEF VerifyEmailLogin, FormKnown
  <2>1. Server' /\ Kept
    BY <1>0, <1>5, <2>0, SameServer, SignsKeeps DEF VerifyEmailLogin
  <2>2. \E at, to : call' = [call EXCEPT !.at = at] \/ call' = [call EXCEPT !.at = at, !.to = to]
    BY <1>5 DEF VerifyEmailLogin
  <2>3. FormKnown'
    BY <1>0, <2>0, <2>1, <2>2, EndedForm
  <2> QED BY <1>2, <1>5, <2>1, <2>3 DEF VerifyEmailLogin
<1>6. CASE VerifyAlone
  <2>1. Server' /\ Kept
    BY <1>0, <1>6, SameServer, SignsKeeps DEF VerifyAlone, OrphanKnown
  <2>2. call' = call /\ orphan' = None
    BY <1>6 DEF VerifyAlone, tab
  <2> QED BY <1>0, <1>2, <2>1, <2>2, SameForm
<1>7. CASE CompleteOnboarding
  <2>1. UNCHANGED <<invitation, challenges, session, signed, orphan>>
    BY <1>7 DEF CompleteOnboarding
  <2>2. users' = users \/ (session # None /\ users' = [users EXCEPT ![session] = "ready"])
    BY <1>7 DEF CompleteOnboarding
  <2>3. Further
    BY <1>0, <2>1, <2>2 DEF Further, Server, Accounts
  <2>4. Server' /\ Kept
    BY <1>0, <2>1, <2>3, OnlyUsers
  <2>5. call # None /\ call.op # "request" /\ \E at : call' = [call EXCEPT !.at = at]
    BY <1>7 DEF CompleteOnboarding
  <2>6. FormKnown'
    BY <1>0, <2>4, <2>5, EndedForm
  <2> QED BY <1>2, <2>1, <2>4, <2>6
<1>8. CASE Logout
  <2>1. UNCHANGED <<users, invitation, challenges, signed, orphan>> /\ session' = None
    BY <1>8 DEF Logout
  <2>2. Further
    BY <1>0, <2>1 DEF Further, Server, Accounts
  <2>3. Server' /\ Kept
    BY <1>0, <2>1, <2>2, OnlyUsers
  <2>4. call # None /\ call.op # "request" /\ call' = [call EXCEPT !.at = "done"]
    BY <1>8 DEF Logout
  <2>5. FormKnown'
    BY <1>0, <2>3, <2>4, EndedForm
  <2> QED BY <1>2, <2>1, <2>3, <2>5
<1> QED BY <1>3, <1>4, <1>5, <1>6, <1>7, <1>8

LEMMA EndsKeep ==
  ASSUME IInv, CallLost \/ Requested \/ Submitted \/ SignedOut
  PROVE  IInv'
<1>0. Server /\ PageKnown /\ FormKnown /\ OrphanKnown /\ Answer
  BY DEF IInv
<1>1. UNCHANGED <<users, invitation, challenges, session, signed>> /\ call # None
  BY DEF CallLost, Requested, Submitted, SignedOut, server
<1>2. Server' /\ Kept
  BY <1>0, <1>1, SameServer
<1>3. CASE CallLost
  <2>1. UNCHANGED <<page, cached>> /\ call' = [call EXCEPT !.at = "failed"]
    BY <1>3 DEF CallLost, query
  <2>2. FormKnown'
    BY <1>0, <1>1, <1>2, <2>1, FailedForm
  <2>3. orphan' = orphan \/ (call.read /\ orphan' = call)
    BY <1>3 DEF CallLost
  <2>4. OrphanKnown'
    BY <1>0, <1>1, <1>2, <2>3, SameOrphan DEF FormKnown, OrphanKnown, Known, Kept
  <2> QED BY <1>0, <1>2, <2>1, <2>2, <2>4, SamePage, SameAnswer DEF IInv
<1>4. CASE Requested
  <2>1. UNCHANGED <<orphan, cached>> /\ call' = None
    BY <1>4 DEF Requested, server, query
  <2>2. page' = page \/ (call.op = "request" /\ call.at = "done" /\ page' = [page EXCEPT !.challenge = call.challenge])
    BY <1>4 DEF Requested
  <2>3. PageKnown'
    <3>1. CASE page' = page
      BY <1>0, <1>2, <3>1, SamePage
    <3>2. CASE call.op = "request" /\ call.at = "done" /\ page' = [page EXCEPT !.challenge = call.challenge]
      <4>1. DOMAIN page = PageFields /\ page.email \in Emails \cup {None}
        BY <1>0 DEF PageKnown
      <4>2. DOMAIN page' = PageFields /\ page'.email = page.email /\ page'.challenge = call.challenge
        BY <3>2, <4>1 DEF PageFields
      <4>3. Known(call.challenge)
        BY <1>0, <1>1, <3>2 DEF FormKnown
      <4> QED BY <1>2, <4>1, <4>2, <4>3 DEF PageKnown, Known, Kept
    <3> QED BY <2>2, <3>1, <3>2
  <2> QED BY <1>0, <1>2, <2>1, <2>3, SameForm, SameOrphan, SameAnswer DEF IInv
<1>5. CASE Submitted
  <2>1. orphan' = orphan
    BY <1>5 DEF Submitted, server
  <2>2. (\E to : Navigate(to, chains, None)) \/ Stay(chains, None)
    BY <1>5 DEF Submitted
  <2>3. PageKnown' /\ FormKnown' /\ Answer'
    BY <1>0, <1>2, <2>2, NavigateKeeps, StayKeeps
  <2> QED BY <1>0, <1>2, <2>1, <2>3, SameOrphan DEF IInv
<1>6. CASE SignedOut
  <2>1. orphan' = orphan /\ call' = None
    BY <1>6 DEF SignedOut, server
  <2>2. PageKnown'
    BY <1>6 DEF SignedOut, PageKnown, NoForm, PageFields
  <2>3. cached' = [data |-> "none", failed |-> FALSE, fresh |-> FALSE]
    BY <1>6 DEF SignedOut
  <2>4. Answer'
    BY <2>3 DEF Answer
  <2> QED BY <1>0, <1>2, <2>1, <2>2, <2>4, SameForm, SameOrphan DEF IInv
<1> QED BY <1>3, <1>4, <1>5, <1>6

LEMMA RestKeeps ==
  ASSUME IInv, SessionEnds \/ ChallengeExpires \/ InvitationCancelled \/ UNCHANGED vars
  PROVE  IInv'
<1>0. Server /\ PageKnown /\ FormKnown /\ OrphanKnown /\ Answer
  BY DEF IInv
<1>1. UNCHANGED <<page, call, orphan, cached>>
  BY DEF SessionEnds, ChallengeExpires, InvitationCancelled, vars, server, tab, query
<1>2. ASSUME Server', Kept
      PROVE  IInv'
  BY <1>0, <1>1, <1>2, SamePage, SameForm, SameOrphan, SameAnswer DEF IInv
<1>3. CASE SessionEnds \/ InvitationCancelled
  <2>1. UNCHANGED <<users, challenges, signed>> /\ session' \in {session, None}
    BY <1>3 DEF SessionEnds, InvitationCancelled
  <2>2. invitation = "accepted" => invitation' = "accepted"
    BY <1>3 DEF SessionEnds, InvitationCancelled
  <2>3. Further
    BY <1>0, <2>1, <2>2 DEF Further, Server, Accounts
  <2> QED BY <1>0, <1>2, <2>1, <2>3, OnlyUsers
<1>4. CASE ChallengeExpires
  <2>1. PICK c \in Challenges :
          /\ challenges[c] # None /\ ~challenges[c].over
          /\ challenges' = [challenges EXCEPT ![c] = [challenges[c] EXCEPT !.over = TRUE]]
          /\ UNCHANGED <<users, invitation, session, signed>>
    BY <1>4 DEF ChallengeExpires
  <2>2. challenges[c] \in Challenge /\ signed[c] = {}
    BY <1>0, <2>1 DEF Server, Sent, Unspent
  <2>3. [challenges[c] EXCEPT !.over = TRUE] \in Challenge
    BY <2>2 DEF Challenge
  <2> QED BY <1>0, <1>2, <2>1, <2>2, <2>3, OneChallenge
<1>5. CASE UNCHANGED vars
  BY <1>0, <1>2, <1>5, SameServer DEF vars, server
<1> QED BY <1>3, <1>4, <1>5

LEMMA Inductive ==
  ASSUME IInv, [Next]_vars
  PROVE  IInv'
BY GesturesKeep, ChainsKeep, AnswersKeep, ServiceKeeps, EndsKeep, RestKeeps DEF Next, Progress, Mishap

LEMMA Initially ==
  ASSUME Init
  PROVE  IInv
<1>1. Server
  <2>1. Accounts
    BY DEF Init, Accounts
  <2>2. Sent /\ Unspent /\ Joined
    BY DEF Init, Sent, Unspent, Joined
  <2> QED BY <2>1, <2>2 DEF Server
<1>2. PageKnown /\ FormKnown /\ OrphanKnown
  BY DEF Init, PageKnown, FormKnown, OrphanKnown, NoForm, PageFields
<1>3. cached = [data |-> "none", failed |-> FALSE, fresh |-> FALSE]
  BY DEF Init
<1>4. Answer
  BY <1>3 DEF Answer
<1> QED BY <1>1, <1>2, <1>4 DEF IInv

THEOREM Invariance == Spec => []IInv
<1> QED BY Initially, Inductive, PTL DEF Spec

-----------------------------------------------------------------------------
(* However often the form of a code is sent and answers are lost, the update  *)
(* that spends the code (auth_login_challenge_consume.sql) succeeds once.     *)
THEOREM CodeSignsInOnce == Spec => []OneSessionPerCode
<1>1. ASSUME IInv, NEW c \in Challenges
      PROVE  Cardinality(signed[c]) <= 1
  <2>1. signed[c] = {} \/ \E s : signed[c] = {s}
    BY <1>1 DEF IInv, Server, Unspent
  <2>2. CASE signed[c] = {}
    BY <2>2, FS_EmptySet
  <2>3. ASSUME NEW s, signed[c] = {s}
        PROVE  Cardinality(signed[c]) <= 1
    <3>1. Cardinality({s}) = 1
      BY FS_Singleton
    <3> QED BY <2>3, <3>1
  <2> QED BY <2>1, <2>2, <2>3
<1>2. IInv => OneSessionPerCode
  BY <1>1 DEF OneSessionPerCode
<1> QED BY Invariance, <1>2, PTL

(* A session that came with the link of an invitation belongs to the address  *)
(* it was for, and its user stays in the workspace it was accepted for.       *)
THEOREM InvitedIsWhoSignsIn == Spec => []InvitedSignsIn
<1>1. IInv => TypeOK
  BY DEF IInv, Server, Accounts, Sent, PageKnown, Known, Answer, TypeOK
<1>2. IInv => InvitedSignsIn
  BY <1>1 DEF IInv, Server, Joined, InvitedSignsIn
<1> QED BY Invariance, <1>2, PTL
-----------------------------------------------------------------------------
(* What the forms hold, and the answers the tab keeps. *)

Chosen == Challenges \cup {None}
\* The form under way is one that the pages can send.
Typed == page.code \in Chosen /\ link \in BOOLEAN /\ (call # None => call \in Forms)

LEMMA FormTyped ==
  ASSUME IInv, Typed, NEW op \in {"request", "verify", "onboarding", "logout"}
  PROVE  Form(op) \in Forms
BY DEF IInv, PageKnown, Known, Typed, Chosen, Form, Forms

\* A form under way whose `at`, `to`, `challenge`, `read` or `shown` changes.
LEMMA FormGoesOn ==
  ASSUME NEW f \in Forms, NEW at \in {"sent", "done", "failed"}, NEW to \in {"none", "task", "onboarding"}
  PROVE  /\ [f EXCEPT !.at = at] \in Forms
         /\ \A c \in Challenges : [f EXCEPT !.at = at, !.challenge = c] \in Forms
         /\ [f EXCEPT !.at = at, !.to = to] \in Forms
         /\ [f EXCEPT !.read = TRUE] \in Forms /\ [f EXCEPT !.shown = FALSE] \in Forms
BY DEF Forms

LEMMA NavigateTypes ==
  ASSUME IInv, Typed, NEW to, NEW rest, NEW form \in {call, None}, Navigate(to, rest, form)
  PROVE  Typed'
<1>1. CASE route = to
  BY <1>1 DEF Navigate, Typed
<1>2. CASE route # to
  <2>1. call' # None => call' \in Forms
    <3>1. CASE form = None
      BY <1>2, <3>1 DEF Navigate
    <3>2. CASE form # None
      <4>1. call \in Forms /\ call' = [call EXCEPT !.shown = FALSE]
        BY <1>2, <3>2 DEF Navigate, Typed
      <4> QED BY <4>1, FormGoesOn
    <3> QED BY <3>1, <3>2
  <2>2. page'.code = None /\ link' \in BOOLEAN
    BY <1>2 DEF Navigate, NoForm
  <2> QED BY <2>1, <2>2 DEF Typed, Chosen
<1> QED BY <1>1, <1>2

LEMMA TypedNext ==
  ASSUME IInv, Typed, [Next]_vars
  PROVE  Typed'
<1>0. DOMAIN page = PageFields
  BY DEF IInv, PageKnown
<1>1. CASE Gesture
  <2>1. link' = link
    BY <1>1 DEF Gesture, typeEmail, typeCode, useDifferentEmail, submitRequest, submitVerify, submitOnboarding, signOut,
           Browse, Submits, tab
  <2>2. page'.code \in Chosen
    BY <1>0, <1>1 DEF Gesture, typeEmail, typeCode, useDifferentEmail, submitRequest, submitVerify, submitOnboarding,
           signOut, Browse, Submits, tab, Typed, Chosen, PageFields
  <2>3. call' = call \/ \E op \in {"request", "verify", "onboarding", "logout"} : call' = Form(op)
    BY <1>1 DEF Gesture, typeEmail, typeCode, useDifferentEmail, submitRequest, submitVerify, submitOnboarding, signOut,
           Browse, Submits, tab
  <2> QED BY <2>1, <2>2, <2>3, FormTyped DEF Typed
<1>2. ASSUME NEW c \in chains, LoginKnows(c) \/ WaitlistKnows(c) \/ OnboardingKnows(c) \/ InvitationAccepted(c)
      PROVE  Typed'
  <2>1. \E to, rest : Navigate(to, rest, call) \/ Stay(rest, call)
    BY <1>2 DEF LoginKnows, WaitlistKnows, OnboardingKnows, InvitationAccepted
  <2>2. ASSUME NEW rest, Stay(rest, call) PROVE Typed'
    BY <2>2 DEF Stay, Typed
  <2> QED BY <2>1, <2>2, NavigateTypes
<1>3. ASSUME NEW c \in chains, ServeChain(c) \/ Configured(c) \/ InvitationKnown(c) \/ ChainFails(c)
      PROVE  Typed'
  <2>1. UNCHANGED <<link, call>>
    BY <1>3 DEF ServeChain, Configured, InvitationKnown, ChainFails
  <2>2. page' = page \/ page' = [page EXCEPT !.open = (c.at = "done")]
                     \/ page' = [page EXCEPT !.email = Invited, !.locked = TRUE]
    BY <1>3 DEF ServeChain, Configured, InvitationKnown, ChainFails
  <2>3. page'.code = page.code
    BY <1>0, <2>2 DEF PageFields
  <2> QED BY <2>1, <2>3 DEF Typed
<1>4. CASE ServeFetch \/ FetchLost \/ Fetched \/ GoesStale \/ VerifyAlone \/ SessionEnds \/ ChallengeExpires
           \/ InvitationCancelled \/ UNCHANGED vars
  <2>1. UNCHANGED <<link, call, page>>
    BY <1>4 DEF ServeFetch, FetchLost, Fetched, GoesStale, VerifyAlone, SessionEnds, ChallengeExpires,
                InvitationCancelled, vars, tab
  <2> QED BY <2>1 DEF Typed
<1>5. CASE ProtectedRoute \/ Submitted
  <2>1. \/ \E to, rest : Navigate(to, rest, call)
        \/ \E to, rest : Navigate(to, rest, None)
        \/ \E rest : Stay(rest, None)
    BY <1>5 DEF ProtectedRoute, Submitted
  <2>2. ASSUME NEW rest, NEW form \in {call, None}, Stay(rest, form) PROVE Typed'
    BY <2>2 DEF Stay, Typed
  <2> QED BY <2>1, <2>2, NavigateTypes
<1>6. CASE BeginEmailLogin \/ VerifyReads \/ VerifyEmailLogin \/ CompleteOnboarding \/ Logout \/ CallLost
  <2>1. UNCHANGED <<link, page>> /\ call # None
    BY <1>6 DEF BeginEmailLogin, VerifyReads, VerifyEmailLogin, CompleteOnboarding, Logout, CallLost
  <2>2. call \in Forms
    BY <2>1 DEF Typed
  <2>3. \E at \in {"sent", "done", "failed"}, to \in {"none", "task", "onboarding"} :
          \/ call' = [call EXCEPT !.at = at] \/ \E c \in Challenges : call' = [call EXCEPT !.at = at, !.challenge = c]
          \/ call' = [call EXCEPT !.at = at, !.to = to] \/ call' = [call EXCEPT !.read = TRUE]
    BY <1>6 DEF BeginEmailLogin, VerifyReads, VerifyEmailLogin, CompleteOnboarding, Logout, CallLost, Belongs
  <2>4. call' \in Forms
    <3>1. PICK at \in {"sent", "done", "failed"}, to \in {"none", "task", "onboarding"} :
            \/ call' = [call EXCEPT !.at = at] \/ \E c \in Challenges : call' = [call EXCEPT !.at = at, !.challenge = c]
            \/ call' = [call EXCEPT !.at = at, !.to = to] \/ call' = [call EXCEPT !.read = TRUE]
      BY <2>3
    <3>2. /\ [call EXCEPT !.at = at] \in Forms /\ [call EXCEPT !.at = at, !.to = to] \in Forms
          /\ [call EXCEPT !.read = TRUE] \in Forms
          /\ \A c \in Challenges : [call EXCEPT !.at = at, !.challenge = c] \in Forms
      BY <2>2, FormGoesOn, Zenon
    <3> QED BY <3>1, <3>2, Zenon
  <2> QED BY <2>1, <2>4 DEF Typed
<1>7. CASE Requested
  <2>1. call' = None /\ link' = link
    BY <1>7 DEF Requested
  <2>2. page'.code = page.code
    BY <1>0, <1>7 DEF Requested, PageFields
  <2> QED BY <2>1, <2>2 DEF Typed
<1>8. CASE SignedOut
  BY <1>8 DEF SignedOut, NoForm, Typed, Chosen
<1> QED BY <1>1, <1>2, <1>3, <1>4, <1>5, <1>6, <1>7, <1>8 DEF Next, Progress, Mishap
-----------------------------------------------------------------------------
(* The right page, as long as nothing is lost, late or refused.               *)

ChainFields == {"from", "shown", "step", "at", "got", "open"}
Routes == {"task", "login", "onboarding", "waitlist"}
Verifies(at) == call # None /\ call.op = "verify" /\ call.at = at
\* Signed out, and the browser does not know yet: it loads everything again.
Leaving == call # None /\ call.op = "logout" /\ call.at = "done"

\* Nobody is signed in: one chain at most, and it is of the page shown.
OneChain == \A c, d \in chains : c = d
OutChains ==
  /\ OneChain
  /\ \A c \in chains : /\ c.from = route /\ (c.step = "config" => c.at # "failed") /\ c.step # "accept"
                       /\ c.step = "me" => c.got = "none" /\ c.at \in {"sent", "failed"} /\ (c.from = "waitlist" => c.open)
  /\ route = "task" => chains = {}
  /\ route \in {"onboarding", "waitlist"} => \E c \in chains : c.step \in {"config", "me"}
OutCall ==
  call # None => /\ route # "task" /\ call.op \in {"request", "verify", "onboarding"}
                 /\ call.op = "verify" => call.at # "done" /\ route = "login"
                 /\ call.op = "onboarding" => call.at # "done"
OutAnswer ==
  /\ cached.data = "none" /\ fetch \in {None, "sent", "refused"}
  /\ fetch # None => route = "task" /\ ~cached.failed
  /\ route = "task" => fetch # None \/ cached.failed
Outside == OutChains /\ OutCall /\ OutAnswer

\* What was heard of who is signed in.
Heard == {cached.data, fetch} \cup {c.got : c \in chains}
\* Somebody is signed in.  Every chain that asks is answered with somebody.
InChains ==
  \A c \in chains :
    /\ c.from # "login" => c.step \in {"config", "me"} /\ c.at # "failed"
    /\ c.from = "onboarding" => c.step = "me"
    /\ c.step = "me" => c.got \in IF c.at = "done" THEN {"new", "ready"} ELSE {"none"}
InAnswer ==
  /\ fetch # "refused" /\ (cached.failed => cached.data = "none" /\ route # "task")
  /\ route = "task" => cached.data # "none" \/ fetch # None
\* The way on from the login page: a chain, or the form that has signed in.
Leads(c) == c.from = "login" /\ (c.step \in {"config", "accept"} \/ (c.step = "me" /\ c.at # "failed"))
AtLogin ==
  /\ route = "login" => Verifies("done") \/ \E c \in chains : Leads(c)
  /\ route = "login" /\ ~Verifies("done") =>
       /\ OneChain /\ cached.data = "none" /\ fetch = None
       /\ call # None => call.op \in {"request", "verify"}
       /\ \A c \in chains : /\ Leads(c) /\ (c.got \in {"new", "ready"} => c.got = users[session])
                            /\ ~link => c.step # "accept"
AtWaitlist == route = "waitlist" => \E c \in chains : c.from = "waitlist"
\* A chain that is on its way from onboarding, or into the team.
Witness(c) == \/ c.from = "onboarding" /\ (c.at = "sent" \/ c.got = "ready")
              \/ c.step = "accept" /\ c.at = "done"
AtOnboarding ==
  route = "onboarding" =>
    \/ users[session] = "new"
    \/ \E c \in chains : Witness(c)
    \/ call # None /\ call.op = "onboarding" /\ call.at = "done"
    \/ Verifies("done") /\ call.to = "task"
\* A code can still change who is signed in, if the page was left meanwhile.
Changing ==
  Verifies("sent") =>
    /\ route # "waitlist" /\ (route # "login" => \A c \in chains : c.from = "onboarding")
    /\ ~call.invited => /\ ~link /\ (\A c \in chains : c.step # "accept")
                        /\ users[session] = "ready" =>
                             /\ route # "onboarding" /\ \A c \in chains : c.from = "login"
                             /\ "new" \notin Heard
\* Who is new, but was taken for somebody ready, is on the way to onboarding.
Mistaken ==
  users[session] = "new" /\ "ready" \in {cached.data, fetch} =>
    /\ ~Verifies("sent") /\ \A c \in chains : c.from = "onboarding" /\ c.got # "ready"
    /\ (Verifies("done") /\ call.to = "onboarding") \/ route = "onboarding"
\* Where a form that was answered leads is where its user belongs, or further.
InCall ==
  /\ Verifies("done") => call.to \in {"task", "onboarding"} /\ (call.to = "task" => users[session] = "ready")
  /\ call # None /\ call.op = "onboarding" /\ call.at = "done" => users[session] = "ready"
Inside == InChains /\ InAnswer /\ AtLogin /\ AtWaitlist /\ AtOnboarding /\ Changing /\ Mistaken /\ InCall

Straight ==
  ~lossy => /\ route \in Routes /\ \A c \in chains : DOMAIN c = ChainFields
            /\ orphan = None
            /\ Leaving => session = None
            /\ ~Leaving => IF session = None THEN Outside ELSE Inside
-----------------------------------------------------------------------------
(* Chains and forms of a page that is left go on as they are. *)

Same(c, d) == c.from = d.from /\ c.step = d.step /\ c.at = d.at /\ c.got = d.got /\ c.open = d.open

LEMMA HiddenChains ==
  ASSUME NEW S, \A c \in S : DOMAIN c = ChainFields
  PROVE  /\ \A h \in Hidden(S) : DOMAIN h = ChainFields /\ \E c \in S : Same(h, c)
         /\ \A c \in S : \E h \in Hidden(S) : Same(h, c)
<1>1. ASSUME NEW c \in S
      PROVE  LET h == [c EXCEPT !.shown = FALSE] IN DOMAIN h = ChainFields /\ Same(h, c)
  BY DEF ChainFields, Same
<1> QED BY <1>1 DEF Hidden

LEMMA HiddenForms ==
  ASSUME NEW f \in Forms
  PROVE  LET g == [f EXCEPT !.shown = FALSE] IN
         g \in Forms /\ g # None /\ g.op = f.op /\ g.at = f.at /\ g.to = f.to /\ g.invited = f.invited
BY SignInAssumption DEF Forms

\* A call is none of what the form under way was not.
SameCall == /\ (call' # None) <=> (call # None)
            /\ call # None => /\ call'.op = call.op /\ call'.at = call.at /\ call'.to = call.to
                              /\ call'.invited = call.invited
LEMMA SameCalls == ASSUME Typed, call' \in {call} \cup {[call EXCEPT !.shown = FALSE]}, call = None => call' = None
                   PROVE  SameCall
BY HiddenForms DEF SameCall, Typed

Rest == <<users, session, orphan, route, link, cached, fetch>>
\* Only the form under way changes, and it has neither signed in nor led anywhere.
Minor(f) == f # None => f.op = "request" \/ f.at # "done"
LEMMA MinorCall ==
  ASSUME Straight, ~lossy, UNCHANGED <<session, orphan, route, link, cached, fetch, chains, lossy>>,
         session # None => users'[session] = users[session], Minor(call), Minor(call'),
         call' # None => call # None /\ call'.op = call.op /\ call'.at \in {call.at, "done", "failed"},
         call' # None => call'.invited = call.invited
  PROVE  Straight'
<1>1. ~Leaving /\ ~Leaving'
  BY DEF Leaving, Minor
<1>2. CASE session = None
  <2>1. Outside
    BY <1>1, <1>2 DEF Straight
  <2>2. Outside'
    BY <2>1 DEF Outside, OutChains, OneChain, OutCall, OutAnswer, Minor
  <2> QED BY <1>1, <1>2, <2>2 DEF Straight
<1>3. CASE session # None
  <2>1. Inside
    BY <1>1, <1>3 DEF Straight
  <2>2. ~Verifies("done") /\ ~Verifies("done")' /\ (Verifies("sent")' => Verifies("sent"))
    BY DEF Verifies, Minor
  <2>3. InChains' /\ InAnswer' /\ AtLogin' /\ AtWaitlist'
    BY <1>3, <2>1, <2>2 DEF Inside, InChains, InAnswer, AtLogin, AtWaitlist, Leads, OneChain
  <2>4. AtOnboarding' /\ Mistaken' /\ InCall'
    BY <1>3, <2>1, <2>2 DEF Inside, AtOnboarding, Mistaken, InCall, Minor
  <2>5. Changing'
    BY <1>3, <2>1, <2>2 DEF Inside, Changing, Heard, Verifies
  <2>6. Inside'
    BY <2>3, <2>4, <2>5 DEF Inside
  <2> QED BY <1>1, <1>3, <2>6 DEF Straight
<1> QED BY <1>2, <1>3

LEMMA SameStraight ==
  ASSUME Straight, UNCHANGED <<Rest, chains, call, lossy>>
  PROVE  Straight'
<1>1. Rest' = Rest /\ chains' = chains /\ call' = call /\ lossy' = lossy
  OBVIOUS
<1>2. (Leaving' <=> Leaving) /\ (Outside' <=> Outside)
  BY <1>1 DEF Leaving, Outside, OutChains, OneChain, OutCall, OutAnswer, Rest
<1>3. (InChains' <=> InChains) /\ (InAnswer' <=> InAnswer) /\ (AtLogin' <=> AtLogin) /\ (AtWaitlist' <=> AtWaitlist)
  BY <1>1 DEF InChains, InAnswer, AtLogin, AtWaitlist, Leads, OneChain, Verifies, Rest
<1>4. (AtOnboarding' <=> AtOnboarding) /\ (Changing' <=> Changing) /\ (Mistaken' <=> Mistaken) /\ (InCall' <=> InCall)
  BY <1>1 DEF AtOnboarding, Changing, Mistaken, InCall, Heard, Verifies, Rest
<1> QED BY <1>1, <1>2, <1>3, <1>4 DEF Straight, Inside, Rest

-----------------------------------------------------------------------------
(* What the user does. *)

LEMMA SubmitsStraight ==
  ASSUME IInv, Typed, Straight, ~lossy,
         NEW op \in {"request", "verify", "onboarding", "logout"}, Submits(Form(op)),
         op \in {"request", "verify"} => route = "login", op = "onboarding" => route = "onboarding",
         op = "logout" => route = "task" /\ cached.data # "none"
  PROVE  Straight'
<1>1. call = None /\ UNCHANGED <<Rest, chains, lossy>>
  BY DEF Submits, server, query, faults, Rest
<1>2. call' \in Forms /\ call'.op = op /\ call'.at = "sent" /\ call'.invited = link
  BY FormTyped DEF Submits, Form
<1>3. ~Leaving /\ ~Leaving' /\ ~Verifies("done") /\ ~Verifies("done")' /\ ~Verifies("sent")
  BY <1>1, <1>2 DEF Leaving, Verifies
<1>4. CASE session = None
  <2>1. Outside
    BY <1>3, <1>4 DEF Straight
  <2>2. Outside'
    BY <1>1, <1>2, <2>1 DEF Outside, OutChains, OneChain, OutCall, OutAnswer, Rest
  <2> QED BY <1>1, <1>3, <1>4, <2>2 DEF Straight, Rest
<1>5. CASE session # None
  <2>1. Inside
    BY <1>3, <1>5 DEF Straight
  <2>2. InChains' /\ InAnswer' /\ AtLogin' /\ AtWaitlist'
    BY <1>1, <1>2, <1>3, <2>1 DEF Inside, InChains, InAnswer, AtLogin, AtWaitlist, Leads, OneChain, Rest
  <2>3. AtOnboarding' /\ InCall'
    BY <1>1, <1>2, <1>3, <2>1 DEF Inside, AtOnboarding, InCall, Rest
  <2>4. ASSUME op = "verify" PROVE Changing' /\ Mistaken'
    <3>1. /\ route = "login" /\ cached.data = "none" /\ fetch = None
          /\ \A c \in chains : /\ Leads(c) /\ (c.got \in {"new", "ready"} => c.got = users[session])
                               /\ ~link => c.step # "accept"
      BY <1>3, <2>1, <2>4 DEF Inside, AtLogin
    <3>2. "new" # None /\ "ready" # None
      BY SignInAssumption
    <3> QED BY <1>1, <1>2, <3>1, <3>2 DEF Changing, Mistaken, Heard, Leads, Rest
  <2>5. ASSUME op # "verify" PROVE Changing' /\ Mistaken'
    BY <1>1, <1>2, <1>3, <2>1, <2>5 DEF Inside, Changing, Mistaken, Verifies, Rest
  <2>6. Inside'
    BY <2>2, <2>3, <2>4, <2>5 DEF Inside
  <2> QED BY <1>1, <1>3, <1>5, <2>6 DEF Straight, Rest
<1> QED BY <1>4, <1>5

\* Only the answer that is kept, or its query, changes.
LEMMA AnswerStraight ==
  ASSUME IInv, Straight, ~lossy, Browse \/ ServeFetch \/ Fetched \/ GoesStale
  PROVE  Straight'
<1>1. UNCHANGED <<users, session, orphan, route, link, chains, call, lossy>>
  BY DEF Browse, ServeFetch, Fetched, GoesStale, server, tab, faults
<1>2. DOMAIN cached = {"data", "failed", "fresh"}
  BY DEF IInv, Answer
<1>3. "new" # None /\ "ready" # None /\ "sent" # None /\ "refused" # None
  BY SignInAssumption
<1>4. Leaving' <=> Leaving
  BY <1>1 DEF Leaving
<1>5. CASE ~Leaving /\ session = None
  <2>1. Outside
    BY <1>5 DEF Straight
  <2>2. OutAnswer'
    BY <1>1, <1>2, <1>3, <1>5, <2>1 DEF Outside, OutAnswer, Browse, ServeFetch, Fetched, GoesStale, Me
  <2>3. Outside'
    BY <1>1, <2>1, <2>2 DEF Outside, OutChains, OneChain, OutCall
  <2> QED BY <1>1, <1>4, <1>5, <2>3 DEF Straight
<1>6. CASE ~Leaving /\ session # None
  <2>1. Inside
    BY <1>6 DEF Straight
  <2>2. users[session] \in {"new", "ready"}
    BY <1>6 DEF IInv, Server, Accounts
  <2>3. InAnswer'
    BY <1>1, <1>2, <1>3, <1>6, <2>1, <2>2 DEF Inside, InAnswer, Browse, ServeFetch, Fetched, GoesStale, Me
  <2>4. /\ fetch' \in {fetch, None, "sent", users[session]}
        /\ cached'.data \in {cached.data, fetch}
        /\ route = "login" /\ ~Verifies("done") => cached'.data = "none" /\ fetch' = None
    <3>1. route = "login" /\ ~Verifies("done") => cached.data = "none" /\ fetch = None
      BY <2>1 DEF Inside, AtLogin
    <3>2. CASE Browse \/ ServeFetch
      BY <1>3, <1>6, <2>2, <3>1, <3>2 DEF Browse, ServeFetch, Me
    <3>3. CASE Fetched
      BY <1>2, <1>3, <2>1, <3>1, <3>3 DEF Fetched, Inside, InAnswer
    <3>4. CASE GoesStale
      BY <1>2, <3>1, <3>4 DEF GoesStale
    <3> QED BY <3>2, <3>3, <3>4
  <2>5. AtLogin'
    BY <1>1, <2>1, <2>4 DEF Inside, AtLogin, Verifies, Leads, OneChain
  <2>6. Changing'
    BY <1>1, <1>3, <2>1, <2>2, <2>4 DEF Inside, Changing, Verifies, Heard
  <2>7. Mistaken'
    BY <1>1, <1>3, <2>1, <2>2, <2>4 DEF Inside, Mistaken, Verifies
  <2>8. InChains' /\ AtWaitlist' /\ AtOnboarding' /\ InCall'
    BY <1>1, <2>1 DEF Inside, InChains, AtWaitlist, AtOnboarding, InCall, Verifies
  <2>9. Inside'
    BY <2>3, <2>5, <2>6, <2>7, <2>8 DEF Inside
  <2> QED BY <1>1, <1>4, <1>6, <2>9 DEF Straight
<1>7. CASE Leaving
  BY <1>1, <1>4, <1>7 DEF Straight
<1> QED BY <1>5, <1>6, <1>7

LEMMA GesturesStraight ==
  ASSUME IInv, Typed, Straight, ~lossy, Gesture
  PROVE  Straight'
<1>1. CASE submitRequest \/ submitVerify \/ submitOnboarding \/ signOut
  BY <1>1, SubmitsStraight DEF submitRequest, submitVerify, submitOnboarding, signOut, LoginForm, CodeForm
<1>2. CASE Browse
  BY <1>2, AnswerStraight
<1>3. CASE (\E e \in Emails : typeEmail(e)) \/ (\E c \in Challenges : typeCode(c)) \/ useDifferentEmail
  <2>1. UNCHANGED <<Rest, chains, call, lossy>>
    BY <1>3 DEF typeEmail, typeCode, useDifferentEmail, server, query, faults, Rest
  <2> QED BY <2>1, SameStraight
<1> QED BY <1>1, <1>2, <1>3 DEF Gesture

-----------------------------------------------------------------------------
(* Going to another page. *)

LEMMA StartsAre ==
  /\ Starts("task") = {}
  /\ \A to \in {"login", "waitlist", "onboarding"} :
       \E c : /\ Starts(to) = {c} /\ DOMAIN c = ChainFields /\ c.from = to /\ c.at = "sent" /\ c.got = "none"
              /\ c.step = IF to = "onboarding" THEN "me" ELSE "config"
<1>1. Starts("task") = {}
  BY DEF Starts
<1>2. ASSUME NEW to \in {"login", "waitlist"} PROVE Starts(to) = {Chain(to, "config")}
  BY DEF Starts
<1>3. Starts("onboarding") = {Chain("onboarding", "me")}
  BY DEF Starts
<1>4. ASSUME NEW from, NEW step
      PROVE  LET c == Chain(from, step) IN
             DOMAIN c = ChainFields /\ c.from = from /\ c.at = "sent" /\ c.got = "none" /\ c.step = step
  BY DEF Chain, ChainFields
<1> QED BY <1>1, <1>2, <1>3, <1>4

LEMMA NavigateInside ==
  ASSUME IInv, Typed, Straight, ~lossy, ~Leaving, session # None, NEW to \in {"task", "onboarding"},
         NEW rest \in SUBSET chains, NEW form \in {call, None}, Navigate(to, rest, form), UNCHANGED server,
         form = None => call = None \/ call.at = "done",
         to = "task" => users[session] = "ready" \/ "ready" \notin {cached.data, fetch},
         Verifies("sent") /\ ~call.invited /\ users[session] = "ready" => to = "task",
         route = "login" => Verifies("done") \/ rest = {},
         route = "onboarding" /\ to = "onboarding" =>
           /\ \A c \in chains \ rest : ~Witness(c)
           /\ form = None /\ call # None => call.op # "onboarding" /\ call.to = "onboarding"
  PROVE  Straight'
<1>1. Inside
  BY DEF Straight
<1>2. /\ users' = users /\ session' = session /\ orphan' = orphan
      /\ (link' = link \/ link' = FALSE) /\ route' = to
  <2>1. link \in BOOLEAN
    BY DEF Typed
  <2> QED BY <2>1 DEF Navigate, server
<1>3. DOMAIN cached = {"data", "failed", "fresh"}
  BY DEF IInv, Answer
<1>4. "new" # None /\ "ready" # None /\ "sent" # None
  BY SignInAssumption
<1>5. form = None => call' = None
  BY DEF Navigate
<1>6. form # None => call # None /\ SameCall
  <2>1. form # None => call' \in {call, [call EXCEPT !.shown = FALSE]} /\ call # None
    BY DEF Navigate
  <2> QED BY <2>1, SameCalls
<1> DEFINE New(h) == /\ route # to /\ to = "onboarding" /\ h.from = "onboarding" /\ h.step = "me"
                     /\ h.at = "sent" /\ h.got = "none"
<1>7. /\ \A h \in chains' : DOMAIN h = ChainFields /\ (New(h) \/ \E c \in rest : Same(h, c))
      /\ \A c \in rest : \E h \in chains' : Same(h, c)
      /\ route # to /\ to = "onboarding" => \E h \in chains' : New(h)
  <2>1. \A c \in rest : DOMAIN c = ChainFields
    BY DEF Straight
  <2>2. CASE route = to
    <3>1. chains' = rest
      BY <2>2 DEF Navigate
    <3>2. \A c \in rest : Same(c, c)
      BY DEF Same
    <3> HIDE DEF New
    <3> QED BY <2>1, <2>2, <3>1, <3>2, Zenon
  <2>3. CASE route # to
    <3>1. chains' = Hidden(rest) \cup Starts(to)
      BY <2>3 DEF Navigate
    <3>2. /\ \A h \in Hidden(rest) : DOMAIN h = ChainFields /\ \E c \in rest : Same(h, c)
          /\ \A c \in rest : \E h \in Hidden(rest) : Same(h, c)
      BY <2>1, HiddenChains
    <3>3. CASE to = "task"
      <4>1. chains' = Hidden(rest)
        BY <3>1, <3>3, StartsAre
      <4> HIDE DEF New
      <4> QED BY <3>2, <3>3, <4>1, Zenon
    <3>4. CASE to = "onboarding"
      <4>1. PICK c : /\ Starts(to) = {c} /\ DOMAIN c = ChainFields /\ c.from = to /\ c.at = "sent" /\ c.got = "none"
                     /\ c.step = "me"
        BY <3>4, StartsAre
      <4>2. New(c)
        BY <2>3, <3>4, <4>1
      <4> HIDE DEF New
      <4>3. ASSUME NEW h \in chains' PROVE DOMAIN h = ChainFields /\ (New(h) \/ \E x \in rest : Same(h, x))
        <5>1. h \in Hidden(rest) \/ h = c
          BY <3>1, <4>1
        <5> QED BY <3>2, <4>1, <4>2, <5>1, Zenon
      <4>4. c \in chains' /\ Hidden(rest) \subseteq chains'
        BY <3>1, <4>1
      <4> QED BY <3>2, <4>2, <4>3, <4>4, Zenon
    <3> QED BY <3>3, <3>4
  <2> QED BY <2>2, <2>3
<1>8. /\ cached'.data = cached.data /\ (cached'.failed => cached.failed)
      /\ fetch' \in {fetch, "sent"}
      /\ to = "task" => ~cached'.failed /\ (cached.data # "none" \/ fetch' # None)
  BY <1>1, <1>3, <1>4 DEF Navigate, query, Asks, Inside, InAnswer
<1>9. Leaving' => FALSE
  BY <1>5, <1>6 DEF Leaving, SameCall
<1>10. InChains'
  BY <1>1, <1>7 DEF Inside, InChains, Same
<1>11. InAnswer'
  BY <1>1, <1>2, <1>4, <1>8 DEF Inside, InAnswer
<1>12. AtLogin' /\ AtWaitlist'
  BY <1>2 DEF AtLogin, AtWaitlist
<1>13. InCall'
  BY <1>1, <1>2, <1>5, <1>6 DEF Inside, InCall, Verifies, SameCall
<1>14. AtOnboarding'
  <2>1. CASE to = "onboarding" /\ route = to
    <3>1. \/ users[session] = "new"
          \/ \E c \in chains : Witness(c)
          \/ call # None /\ call.op = "onboarding" /\ call.at = "done"
          \/ Verifies("done") /\ call.to = "task"
      BY <1>1, <2>1 DEF Inside, AtOnboarding, Witness
    <3>2. (\E c \in chains : Witness(c)) => \E h \in chains' : Witness(h)
      <4>1. ASSUME NEW c \in chains, Witness(c) PROVE \E h \in chains' : Witness(h)
        <5>1. c \in rest
          BY <2>1, <4>1
        <5>2. PICK h \in chains' : Same(h, c)
          BY <1>7, <5>1
        <5> QED BY <4>1, <5>2 DEF Same, Witness
      <4> QED BY <4>1
    <3>3. CASE form = None
      BY <1>2, <2>1, <3>1, <3>2, <3>3 DEF AtOnboarding, Verifies, Witness
    <3>4. CASE form # None
      BY <1>2, <1>6, <3>1, <3>2, <3>4 DEF AtOnboarding, Verifies, Witness, SameCall
    <3> QED BY <3>3, <3>4
  <2>2. CASE to = "onboarding" /\ route # to
    BY <1>2, <1>7, <2>2 DEF AtOnboarding, Witness
  <2>3. CASE to = "task"
    BY <1>2, <2>3 DEF AtOnboarding
  <2> QED BY <2>1, <2>2, <2>3
<1>15. Changing'
  <2>1. CASE ~Verifies("sent")
    BY <1>5, <1>6, <2>1 DEF Changing, Verifies, SameCall
  <2>2. CASE Verifies("sent")
    <3>1. ~Verifies("done") /\ (form # None \/ call' = None)
      BY <1>5, <2>2 DEF Verifies
    <3>2. Changing
      BY <1>1 DEF Inside
    <3>3. \A c \in rest : c.from = "onboarding"
      BY <2>2, <3>2 DEF Changing, Verifies
    <3>4. Verifies("sent")' => call'.invited = call.invited /\ form # None
      BY <1>5, <1>6 DEF Verifies, SameCall
    <3>5. \A h \in chains' : h.from = "onboarding"
      BY <1>7, <3>3 DEF Same
    <3>6. ASSUME ~call.invited
          PROVE  /\ ~link' /\ \A h \in chains' : h.step # "accept"
                 /\ users[session] = "ready" => to = "task" /\ chains' = {} /\ "new" \notin Heard'
      <4>1. ~link /\ \A c \in rest : c.step # "accept"
        BY <2>2, <3>2, <3>6 DEF Changing
      <4>2. ~link' /\ \A h \in chains' : h.step # "accept"
        BY <1>2, <1>7, <4>1 DEF Same
      <4>3. ASSUME users[session] = "ready"
            PROVE  to = "task" /\ chains' = {} /\ "new" \notin Heard'
        <5>1. to = "task" /\ "new" \notin Heard /\ \A c \in chains : c.from = "login"
          BY <2>2, <3>2, <3>6, <4>3 DEF Changing
        <5>2. rest = {}
          BY <3>3, <5>1
        <5>3. chains' = {}
          BY <1>7, <5>1, <5>2
        <5> QED BY <1>4, <1>8, <5>1, <5>3 DEF Heard
      <4> QED BY <4>2, <4>3
    <3> QED BY <1>2, <3>4, <3>5, <3>6 DEF Changing
  <2> QED BY <2>1, <2>2
<1>16. Mistaken'
  <2>1. SUFFICES ASSUME users[session] = "new", "ready" \in {cached.data, fetch}
                 PROVE  Mistaken'
    BY <1>2, <1>4, <1>8 DEF Mistaken
  <2>2. to = "onboarding"
    BY <2>1
  <2>3. ~Verifies("sent") /\ \A c \in chains : c.from = "onboarding" /\ c.got # "ready"
    BY <1>1, <2>1 DEF Inside, Mistaken
  <2>4. ~Verifies("sent")'
    BY <1>5, <1>6, <2>3 DEF Verifies, SameCall
  <2>5. \A h \in chains' : h.from = "onboarding" /\ h.got # "ready"
    BY <1>7, <2>3 DEF Same
  <2> QED BY <1>2, <2>2, <2>4, <2>5 DEF Mistaken
<1>17. Inside'
  BY <1>10, <1>11, <1>12, <1>13, <1>14, <1>15, <1>16 DEF Inside
<1> QED BY <1>2, <1>7, <1>9, <1>17 DEF Straight, Routes

LEMMA ToLogin ==
  ASSUME IInv, Typed, Straight, ~lossy, ~Leaving, session = None, Navigate("login", {}, call),
         UNCHANGED <<server, lossy>>, route # "login", route = "task" => fetch = None
  PROVE  Straight'
<1>1. Outside
  BY DEF Straight
<1>2. UNCHANGED <<users, session, orphan, lossy, cached, fetch>> /\ route' = "login"
  BY DEF Navigate, server
<1>3. PICK c : chains' = {c} /\ DOMAIN c = ChainFields /\ c.from = "login" /\ c.at = "sent" /\ c.got = "none"
               /\ c.step = "config"
  <2>1. chains' = Starts("login")
    BY DEF Navigate, Hidden
  <2> QED BY <2>1, StartsAre
<1>4. call = None => call' = None
  BY DEF Navigate
<1>5. SameCall
  BY <1>4, SameCalls DEF Navigate
<1>6. OutCall'
  BY <1>1, <1>2, <1>5 DEF Outside, OutCall, SameCall
<1>7. OutChains' /\ OutAnswer'
  BY <1>1, <1>2, <1>3 DEF Outside, OutChains, OneChain, OutAnswer
<1>8. ~Leaving'
  BY <1>5 DEF Leaving, SameCall
<1> QED BY <1>2, <1>3, <1>6, <1>7, <1>8 DEF Straight, Routes, Outside

-----------------------------------------------------------------------------
(* A chain goes on, or ends. *)

\* The one chain of a page nobody is signed in to.
LEMMA GoesOnOutside ==
  ASSUME Straight, ~lossy, ~Leaving, session = None, NEW c \in chains, NEW d, DOMAIN d = ChainFields,
         chains' = (chains \ {c}) \cup {d}, UNCHANGED <<Rest, call, lossy>>,
         d.from = c.from, d.step = "config" => d.at # "failed", d.step # "accept",
         d.step = "me" => d.got = "none" /\ d.at \in {"sent", "failed"} /\ (d.from = "waitlist" => d.open),
         route \in {"onboarding", "waitlist"} => d.step \in {"config", "me"}
  PROVE  Straight'
<1>1. Outside
  BY DEF Straight
<1>2. chains' = {d}
  BY <1>1 DEF Outside, OutChains, OneChain
<1>3. OutChains'
  BY <1>1, <1>2 DEF Outside, OutChains, OneChain, Rest
<1>4. OutCall' /\ OutAnswer' /\ ~Leaving'
  BY <1>1 DEF Outside, OutCall, OutAnswer, Leaving, Rest
<1> QED BY <1>2, <1>3, <1>4 DEF Straight, Rest, Outside

LEMMA EndsOutside ==
  ASSUME Straight, ~lossy, ~Leaving, session = None, NEW c \in chains,
         chains' = chains \ {c}, UNCHANGED <<Rest, call, lossy>>, route \notin {"onboarding", "waitlist"}
  PROVE  Straight'
<1>1. Outside
  BY DEF Straight
<1>2. OutChains'
  BY <1>1 DEF Outside, OutChains, OneChain, Rest
<1>3. OutCall' /\ OutAnswer' /\ ~Leaving'
  BY <1>1 DEF Outside, OutCall, OutAnswer, Leaving, Rest
<1> QED BY <1>2, <1>3 DEF Straight, Rest, Outside

LEMMA GoesOnInside ==
  ASSUME IInv, Straight, ~lossy, ~Leaving, session # None, NEW c \in chains, NEW d, DOMAIN d = ChainFields,
         chains' = (chains \ {c}) \cup {d},
         UNCHANGED <<session, orphan, route, link, cached, fetch, call, lossy>>,
         d.from = c.from,
         d.from # "login" => d.step \in {"config", "me"} /\ d.at # "failed",
         d.from = "onboarding" => d.step = "me",
         d.step = "me" => d.got \in IF d.at = "done" THEN {"new", "ready"} ELSE {"none"},
         route = "login" /\ ~Verifies("done") =>
           Leads(d) /\ (d.got \in {"new", "ready"} => d.got = users'[session]) /\ (~link => d.step # "accept"),
         Witness(c) => Witness(d) \/ users'[session] = "new",
         users'[session] # users[session] => Witness(d) /\ users'[session] = "ready",
         Verifies("sent") /\ ~call.invited =>
           d.step # "accept" /\ users'[session] = users[session] /\ (users[session] = "ready" => d.got # "new"),
         users[session] = "new" /\ c.from = "onboarding" /\ "ready" \in {cached.data, fetch} => d.got # "ready"
  PROVE  Straight'
<1>1. Inside
  BY DEF Straight
<1>2. users[session] \in {"new", "ready"}
  BY DEF IInv, Server, Accounts
<1>3. InChains' /\ InAnswer' /\ AtWaitlist'
  BY <1>1 DEF Inside, InChains, InAnswer, AtWaitlist
<1>4. AtLogin'
  BY <1>1 DEF Inside, AtLogin, OneChain, Verifies
<1>5. AtOnboarding'
  <2>1. CASE users'[session] = "new"
    BY <2>1 DEF AtOnboarding
  <2>2. CASE Witness(d)
    BY <2>2 DEF AtOnboarding
  <2>3. CASE users'[session] # "new" /\ ~Witness(d)
    <3>1. users[session] # "new" /\ \A x \in chains : Witness(x) => x \in chains'
      BY <2>3
    <3> QED BY <1>1, <3>1 DEF Inside, AtOnboarding, Verifies
  <2> QED BY <2>1, <2>2, <2>3
<1>6. Changing'
  BY <1>1, <1>2 DEF Inside, Changing, Heard, Verifies
<1>7. Mistaken'
  BY <1>1, <1>2 DEF Inside, Mistaken, Verifies
<1>8. InCall' /\ ~Leaving'
  BY <1>1 DEF Inside, InCall, Verifies, Leaving
<1>9. Inside'
  BY <1>3, <1>4, <1>5, <1>6, <1>7, <1>8 DEF Inside
<1> QED BY <1>8, <1>9 DEF Straight

LEMMA EndsInside ==
  ASSUME Straight, ~lossy, ~Leaving, session # None, NEW c \in chains,
         chains' = chains \ {c}, UNCHANGED <<Rest, call, lossy>>,
         route = "login" => Verifies("done"), route = "waitlist" => c.from # "waitlist", ~Witness(c)
  PROVE  Straight'
<1>1. Inside
  BY DEF Straight
<1>2. InChains' /\ InAnswer' /\ AtWaitlist' /\ AtLogin'
  BY <1>1 DEF Inside, InChains, InAnswer, AtWaitlist, AtLogin, Verifies, Rest
<1>3. AtOnboarding'
  BY <1>1 DEF Inside, AtOnboarding, Verifies, Rest
<1>4. Changing'
  BY <1>1 DEF Inside, Changing, Heard, Verifies, Rest
<1>5. Mistaken' /\ InCall' /\ ~Leaving'
  BY <1>1 DEF Inside, Mistaken, InCall, Verifies, Leaving, Rest
<1> QED BY <1>2, <1>3, <1>4, <1>5 DEF Straight, Inside, Rest

-----------------------------------------------------------------------------
(* The steps of a chain. *)

\* What a call answers to a chain.
Answers(c, d) ==
  /\ DOMAIN d = ChainFields /\ d.from = c.from /\ d.step = c.step /\ d.open = c.open
  /\ \/ c.step = "config" /\ d.at = "done" /\ d.got = "open" /\ users' = users
     \/ c.step = "me" /\ d.at = (IF Me = "none" THEN "failed" ELSE "done") /\ d.got = Me /\ users' = users
     \/ c.step = "lookup" /\ d.at \in {"done", "failed"} /\ d.got = "none" /\ users' = users
     \/ c.step = "accept" /\ d.at = "failed" /\ d.got = "none" /\ users' = users
     \/ /\ c.step = "accept" /\ d.at = "done" /\ d.got = "ready" /\ session # None
        /\ users' = [users EXCEPT ![session] = "ready"]

LEMMA Served ==
  ASSUME NEW c \in chains, DOMAIN c = ChainFields, ServeChain(c)
  PROVE  c.at = "sent" /\ \E d : Answers(c, d) /\ chains' = (chains \ {c}) \cup {d}
<1>1. ASSUME NEW at, NEW got
      PROVE  LET d == [c EXCEPT !.at = at, !.got = got] IN
             /\ DOMAIN d = ChainFields /\ d.from = c.from /\ d.step = c.step /\ d.open = c.open
             /\ d.at = at /\ d.got = got
  BY DEF ChainFields
<1>2. \E at, got : /\ chains' = (chains \ {c}) \cup {[c EXCEPT !.at = at, !.got = got]}
                   /\ \/ c.step = "config" /\ at = "done" /\ got = "open" /\ users' = users
                      \/ c.step = "me" /\ at = (IF Me = "none" THEN "failed" ELSE "done") /\ got = Me /\ users' = users
                      \/ c.step = "lookup" /\ at \in {"done", "failed"} /\ got = "none" /\ users' = users
                      \/ c.step = "accept" /\ at = "failed" /\ got = "none" /\ users' = users
                      \/ /\ c.step = "accept" /\ at = "done" /\ got = "ready" /\ session # None
                         /\ users' = [users EXCEPT ![session] = "ready"]
  BY DEF ServeChain
<1>3. PICK at, got : /\ chains' = (chains \ {c}) \cup {[c EXCEPT !.at = at, !.got = got]}
                   /\ \/ c.step = "config" /\ at = "done" /\ got = "open" /\ users' = users
                      \/ c.step = "me" /\ at = (IF Me = "none" THEN "failed" ELSE "done") /\ got = Me /\ users' = users
                      \/ c.step = "lookup" /\ at \in {"done", "failed"} /\ got = "none" /\ users' = users
                      \/ c.step = "accept" /\ at = "failed" /\ got = "none" /\ users' = users
                      \/ /\ c.step = "accept" /\ at = "done" /\ got = "ready" /\ session # None
                         /\ users' = [users EXCEPT ![session] = "ready"]
  BY <1>2
<1> DEFINE d == [c EXCEPT !.at = at, !.got = got]
<1>4. /\ DOMAIN d = ChainFields /\ d.from = c.from /\ d.step = c.step /\ d.open = c.open
      /\ d.at = at /\ d.got = got
  BY <1>1
<1> HIDE DEF d
<1>5. Answers(c, d)
  BY <1>3, <1>4 DEF Answers
<1>6. chains' = (chains \ {c}) \cup {d}
  BY <1>3 DEF d
<1> QED BY <1>5, <1>6 DEF ServeChain

LEMMA ServeStraight ==
  ASSUME IInv, Typed, Straight, ~lossy, ~Leaving, NEW c \in chains, ServeChain(c)
  PROVE  Straight'
<1>1. c.at = "sent" /\ DOMAIN c = ChainFields
  BY DEF ServeChain, Straight
<1>2. PICK d : Answers(c, d) /\ chains' = (chains \ {c}) \cup {d}
  BY <1>1, Served
<1>3. UNCHANGED <<session, orphan, route, link, cached, fetch, call, lossy>>
  BY DEF ServeChain, query, faults
<1>4. CASE session = None
  <2>1. Outside /\ Me = "none"
    BY <1>4 DEF Straight, Me
  <2>2. c.from = route /\ c.step # "accept" /\ (c.step = "me" /\ c.from = "waitlist" => c.open)
    BY <2>1 DEF Outside, OutChains
  <2>3. users' = users /\ (d.step = "config" => d.at # "failed") /\ (d.step = "me" => d.got = "none" /\ d.at = "failed")
    BY <1>2, <2>1, <2>2 DEF Answers
  <2>4. route \in {"onboarding", "waitlist"} => d.step \in {"config", "me"}
    BY <1>2, <2>1 DEF Answers, Outside, OutChains, OneChain
  <2> QED BY <1>2, <1>3, <1>4, <2>2, <2>3, <2>4, GoesOnOutside DEF Answers, Rest
<1>5. CASE session # None
  <2>1. Inside /\ users[session] \in {"new", "ready"} /\ Me = users[session] /\ users[session] # "none"
    BY <1>5 DEF Straight, Me, IInv, Server, Accounts
  <2>2. users'[session] = IF c.step = "accept" /\ d.at = "done" THEN "ready" ELSE users[session]
    BY <1>2, <1>5, <2>1 DEF Answers, IInv, Server, Accounts
  <2>3. /\ c.from # "login" => c.step \in {"config", "me"}
        /\ c.from = "onboarding" => c.step = "me"
    BY <2>1 DEF Inside, InChains
  <2>4. /\ d.from = c.from /\ d.step = c.step /\ DOMAIN d = ChainFields
        /\ d.step \in {"config", "lookup"} => d.got \in {"open", "none"}
        /\ d.step = "config" => d.at = "done"
        /\ d.step = "me" => d.at = "done" /\ d.got = users[session]
        /\ d.step = "accept" => (d.at = "failed" /\ d.got = "none") \/ (d.at = "done" /\ d.got = "ready")
        /\ d.step \in {"config", "lookup", "me", "accept"}
    BY <1>2, <2>1 DEF Answers
  <2>5. route = "login" /\ ~Verifies("done") =>
           Leads(d) /\ (d.got \in {"new", "ready"} => d.got = users'[session]) /\ (~link => d.step # "accept")
    <3>1. route = "login" /\ ~Verifies("done") => Leads(c) /\ (~link => c.step # "accept")
      BY <2>1 DEF Inside, AtLogin
    <3> QED BY <2>2, <2>4, <3>1 DEF Leads
  <2>6. Witness(c) => Witness(d) \/ users'[session] = "new"
    BY <1>1, <2>1, <2>2, <2>3, <2>4 DEF Witness
  <2>7. users'[session] # users[session] => Witness(d) /\ users'[session] = "ready"
    BY <2>2, <2>4 DEF Witness
  <2>8. Verifies("sent") /\ ~call.invited =>
           d.step # "accept" /\ users'[session] = users[session] /\ (users[session] = "ready" => d.got # "new")
    <3>1. Verifies("sent") /\ ~call.invited => c.step # "accept"
      BY <2>1 DEF Inside, Changing
    <3> QED BY <2>2, <2>4, <3>1
  <2>9. users[session] = "new" /\ c.from = "onboarding" => d.got # "ready"
    BY <2>3, <2>4
  <2>10. d.step = "me" => d.got \in IF d.at = "done" THEN {"new", "ready"} ELSE {"none"}
    BY <2>1, <2>4
  <2>11. d.from # "login" => d.step \in {"config", "me"} /\ d.at # "failed"
    BY <2>3, <2>4
  <2> QED BY <1>2, <1>3, <1>5, <2>3, <2>4, <2>5, <2>6, <2>7, <2>8, <2>9, <2>10, <2>11, GoesOnInside
<1> QED BY <1>4, <1>5

LEMMA ConfiguredStraight ==
  ASSUME IInv, Straight, ~lossy, ~Leaving, NEW c \in chains, Configured(c)
  PROVE  Straight'
<1> DEFINE d == [c EXCEPT !.step = "me", !.at = "sent", !.got = "none", !.open = (c.at = "done")]
<1>1. DOMAIN c = ChainFields /\ c.step = "config" /\ c.at \in {"done", "failed"}
  BY DEF Configured, Ended, Straight
<1>2. DOMAIN d = ChainFields /\ d.from = c.from /\ d.step = "me" /\ d.at = "sent" /\ d.got = "none" /\ d.open = (c.at = "done")
  BY <1>1 DEF ChainFields
<1>3. chains' = (chains \ {c}) \cup {d} /\ UNCHANGED <<Rest, call, lossy>>
  BY DEF Configured, server, query, faults, Rest
<1> HIDE DEF d
<1>4. CASE session = None
  <2>1. c.from = route /\ c.at # "failed"
    BY <1>1, <1>4 DEF Straight, Outside, OutChains
  <2> QED BY <1>1, <1>2, <1>3, <1>4, <2>1, GoesOnOutside
<1>5. CASE session # None
  <2>1. Inside
    BY <1>5 DEF Straight
  <2>2. c.from # "onboarding" /\ ~Witness(c)
    BY <1>1, <2>1 DEF Inside, InChains, Witness
  <2>3. route = "login" /\ ~Verifies("done") => Leads(d)
    BY <1>2, <2>1 DEF Inside, AtLogin, Leads
  <2>4. users' = users
    BY <1>3 DEF Rest
  <2> QED BY <1>2, <1>3, <1>5, <2>2, <2>3, <2>4, GoesOnInside DEF Rest
<1> QED BY <1>4, <1>5

LEMMA LoginStraight ==
  ASSUME IInv, Typed, Straight, ~lossy, ~Leaving, NEW c \in chains, LoginKnows(c)
  PROVE  Straight'
<1>1. DOMAIN c = ChainFields /\ c.step = "me" /\ c.from = "login" /\ c.at \in {"done", "failed"}
  BY DEF LoginKnows, Ended, Straight
<1>2. UNCHANGED server /\ UNCHANGED lossy
  BY DEF LoginKnows, faults
<1>3. CASE link /\ (c.got # "none" \/ c.open)
  <2> DEFINE step == IF c.got # "none" THEN "accept" ELSE "lookup"
             d == [c EXCEPT !.step = step, !.at = "sent", !.got = "none"]
  <2>1. DOMAIN d = ChainFields /\ d.from = "login" /\ d.step = step /\ d.at = "sent" /\ d.got = "none"
    BY <1>1 DEF ChainFields
  <2>2. chains' = (chains \ {c}) \cup {d} /\ UNCHANGED <<Rest, call, lossy>>
    BY <1>2, <1>3 DEF LoginKnows, Stay, Then, server, query, Rest
  <2> HIDE DEF d
  <2>3. CASE session = None
    <3>1. c.from = route /\ c.got = "none"
      BY <1>1, <2>3 DEF Straight, Outside, OutChains
    <3> QED BY <1>1, <2>1, <2>2, <2>3, <3>1, GoesOnOutside
  <2>4. CASE session # None
    <3>1. Inside
      BY <2>4 DEF Straight
    <3>2. ~Witness(c) /\ c.from = "login"
      BY <1>1 DEF Witness
    <3>3. route = "login" /\ ~Verifies("done") => Leads(d) /\ link
      BY <1>1, <1>3, <2>1, <3>1 DEF Inside, AtLogin, Leads, InChains
    <3>4. Verifies("sent") /\ ~call.invited => FALSE
      BY <1>3, <3>1 DEF Inside, Changing
    <3>5. users' = users
      BY <2>2 DEF Rest
    <3> QED BY <1>1, <2>1, <2>2, <2>4, <3>2, <3>3, <3>4, <3>5, GoesOnInside DEF Rest
  <2> QED BY <2>3, <2>4
<1>4. CASE ~(link /\ (c.got # "none" \/ c.open)) /\ c.got # "none"
  <2>1. Navigate(Belongs(c.got), chains \ {c}, call)
    BY <1>4 DEF LoginKnows
  <2>2. session # None
    BY <1>1, <1>4 DEF Straight, Outside, OutChains
  <2>3. Inside
    BY <2>2 DEF Straight
  <2>4. Belongs(c.got) \in {"task", "onboarding"} /\ (c.got # "new" => Belongs(c.got) = "task")
    BY DEF Belongs
  <2>5. c.got \in {"new", "ready"} /\ c.got \in Heard
    BY <1>1, <1>4, <2>3 DEF Inside, InChains, Heard
  <2>6. users[session] = "ready" \/ "ready" \notin {cached.data, fetch}
    <3>1. users[session] \in {"new", "ready"}
      BY <2>2 DEF IInv, Server, Accounts
    <3> QED BY <1>1, <2>3, <3>1 DEF Inside, Mistaken
  <2>7. Verifies("sent") /\ ~call.invited /\ users[session] = "ready" => Belongs(c.got) = "task"
    BY <2>3, <2>4, <2>5 DEF Inside, Changing
  <2>8. route = "login" => Verifies("done") \/ chains \ {c} = {}
    BY <2>3 DEF Inside, AtLogin, OneChain
  <2>9. \A x \in chains \ (chains \ {c}) : ~Witness(x)
    BY <1>1 DEF Witness
  <2>10. chains \ {c} \in SUBSET chains /\ call \in {call, None} /\ (call = None => call = None \/ call.at = "done")
    OBVIOUS
  <2> QED BY <1>2, <2>1, <2>2, <2>4, <2>6, <2>7, <2>8, <2>9, <2>10, NavigateInside
<1>5. CASE ~(link /\ (c.got # "none" \/ c.open)) /\ c.got = "none"
  <2>1. chains' = chains \ {c} /\ UNCHANGED <<Rest, call, lossy>>
    BY <1>2, <1>5 DEF LoginKnows, Stay, server, query, Rest
  <2>2. CASE session = None
    <3>1. route = "login"
      BY <1>1, <2>2 DEF Straight, Outside, OutChains
    <3> QED BY <2>1, <2>2, <3>1, EndsOutside
  <2>3. CASE session # None
    <3>1. Inside
      BY <2>3 DEF Straight
    <3>2. route = "login" => Verifies("done")
      BY <1>1, <1>5, <3>1 DEF Inside, AtLogin, Leads, InChains
    <3>3. ~Witness(c)
      BY <1>1 DEF Witness
    <3> QED BY <1>1, <2>1, <2>3, <3>2, <3>3, EndsInside
  <2> QED BY <2>2, <2>3
<1> QED BY <1>3, <1>4, <1>5

LEMMA WaitlistStraight ==
  ASSUME IInv, Typed, Straight, ~lossy, ~Leaving, NEW c \in chains, WaitlistKnows(c)
  PROVE  Straight'
<1>1. c.step = "me" /\ c.from = "waitlist" /\ c.at \in {"done", "failed"}
  BY DEF WaitlistKnows, Ended
<1>2. UNCHANGED server /\ UNCHANGED lossy
  BY DEF WaitlistKnows, faults
<1>3. CASE session = None
  <2>1. route = "waitlist" /\ c.got = "none" /\ c.open /\ chains \ {c} = {} /\ fetch = None
    BY <1>1, <1>3 DEF Straight, Outside, OutChains, OneChain, OutAnswer
  <2>2. Navigate("login", {}, call)
    BY <2>1 DEF WaitlistKnows
  <2> QED BY <1>2, <1>3, <2>1, <2>2, ToLogin
<1>4. CASE session # None
  <2>1. Inside
    BY <1>4 DEF Straight
  <2>2. c.got \in {"new", "ready"} /\ c.got # "none"
    BY <1>1, <2>1 DEF Inside, InChains
  <2>3. Navigate(Belongs(c.got), chains \ {c}, call)
    BY <2>2 DEF WaitlistKnows
  <2>4. Belongs(c.got) \in {"task", "onboarding"}
    BY DEF Belongs
  <2>5. users[session] = "ready" \/ "ready" \notin {cached.data, fetch}
    <3>1. users[session] \in {"new", "ready"}
      BY <1>4 DEF IInv, Server, Accounts
    <3> QED BY <1>1, <2>1, <3>1 DEF Inside, Mistaken
  <2>6. ~(Verifies("sent") /\ ~call.invited /\ users[session] = "ready")
    BY <1>1, <2>1 DEF Inside, Changing
  <2>7. route = "login" => Verifies("done")
    BY <1>1, <2>1 DEF Inside, AtLogin, Leads
  <2>8. \A x \in chains \ (chains \ {c}) : ~Witness(x)
    BY <1>1 DEF Witness
  <2>9. chains \ {c} \in SUBSET chains /\ call \in {call, None} /\ (call = None => call = None \/ call.at = "done")
    OBVIOUS
  <2> QED BY <1>2, <1>4, <2>3, <2>4, <2>5, <2>6, <2>7, <2>8, <2>9, NavigateInside
<1> QED BY <1>3, <1>4

LEMMA OnboardingStraight ==
  ASSUME IInv, Typed, Straight, ~lossy, ~Leaving, NEW c \in chains, OnboardingKnows(c)
  PROVE  Straight'
<1>1. c.step = "me" /\ c.from = "onboarding" /\ c.at \in {"done", "failed"}
  BY DEF OnboardingKnows, Ended
<1>2. UNCHANGED server /\ UNCHANGED lossy
  BY DEF OnboardingKnows, faults
<1>3. CASE session = None
  <2>1. route = "onboarding" /\ c.got = "none" /\ chains \ {c} = {} /\ fetch = None
    BY <1>1, <1>3 DEF Straight, Outside, OutChains, OneChain, OutAnswer
  <2>2. Navigate("login", {}, call)
    BY <2>1 DEF OnboardingKnows, SentBack
  <2> QED BY <1>2, <1>3, <2>1, <2>2, ToLogin
<1>4. CASE session # None
  <2>1. Inside
    BY <1>4 DEF Straight
  <2>2. c.got \in {"new", "ready"}
    BY <1>1, <2>1 DEF Inside, InChains
  <2>3. CASE c.got = "ready"
    <3>1. Navigate("task", chains \ {c}, call)
      BY <2>3 DEF OnboardingKnows, SentBack
    <3>2. users[session] = "ready" \/ "ready" \notin {cached.data, fetch}
      <4>1. users[session] \in {"new", "ready"}
        BY <1>4 DEF IInv, Server, Accounts
      <4> QED BY <2>1, <2>3, <4>1 DEF Inside, Mistaken
    <3>3. route = "login" => Verifies("done")
      BY <1>1, <2>1 DEF Inside, AtLogin, Leads
    <3>4. chains \ {c} \in SUBSET chains /\ call \in {call, None} /\ (call = None => call = None \/ call.at = "done")
      OBVIOUS
    <3> QED BY <1>2, <1>4, <3>1, <3>2, <3>3, <3>4, NavigateInside
  <2>4. CASE c.got = "new"
    <3>1. chains' = chains \ {c} /\ UNCHANGED <<Rest, call, lossy>>
      BY <1>2, <2>4 DEF OnboardingKnows, SentBack, Stay, server, query, Rest
    <3>2. ~Witness(c)
      BY <1>1, <2>1, <2>4 DEF Witness, Inside, InChains
    <3>3. route = "login" => Verifies("done")
      BY <1>1, <2>1 DEF Inside, AtLogin, Leads
    <3> QED BY <1>1, <1>4, <3>1, <3>2, <3>3, EndsInside
  <2> QED BY <2>2, <2>3, <2>4
<1> QED BY <1>3, <1>4

LEMMA InvitationStraight ==
  ASSUME IInv, Typed, Straight, ~lossy, ~lossy', ~Leaving, NEW c \in chains, InvitationAccepted(c) \/ InvitationKnown(c)
  PROVE  Straight'
<1>1. CASE InvitationAccepted(c)
  <2>1. c.step = "accept" /\ c.at = "done" /\ Navigate("task", chains \ {c}, call) /\ UNCHANGED server
    BY <1>1 DEF InvitationAccepted, Ended
  <2>2. session # None
    BY <2>1 DEF Straight, Outside, OutChains
  <2>3. Inside
    BY <2>2 DEF Straight
  <2>4. c.from = "login"
    BY <2>1, <2>3 DEF Inside, InChains
  <2>5. users[session] = "ready" \/ "ready" \notin {cached.data, fetch}
    <3>1. users[session] \in {"new", "ready"}
      BY <2>2 DEF IInv, Server, Accounts
    <3> QED BY <2>3, <2>4, <3>1 DEF Inside, Mistaken
  <2>6. route = "login" => Verifies("done") \/ chains \ {c} = {}
    BY <2>3 DEF Inside, AtLogin, OneChain
  <2>7. chains \ {c} \in SUBSET chains /\ call \in {call, None} /\ (call = None => call = None \/ call.at = "done")
    OBVIOUS
  <2> QED BY <2>1, <2>2, <2>5, <2>6, <2>7, NavigateInside
<1>2. CASE InvitationKnown(c)
  <2>1. c.step = "lookup" /\ chains' = chains \ {c} /\ UNCHANGED <<Rest, call, lossy>>
    BY <1>2 DEF InvitationKnown, Ended, server, query, faults, Rest
  <2>2. CASE session = None
    <3>1. route \notin {"onboarding", "waitlist"}
      BY <2>1, <2>2 DEF Straight, Outside, OutChains, OneChain
    <3> QED BY <2>1, <2>2, <3>1, EndsOutside
  <2>3. CASE session # None
    <3>1. Inside
      BY <2>3 DEF Straight
    <3>2. c.from = "login" /\ ~Witness(c)
      BY <2>1, <3>1 DEF Inside, InChains, Witness
    <3>3. route = "login" => Verifies("done")
      BY <2>1, <3>1 DEF Inside, AtLogin, Leads
    <3> QED BY <2>1, <2>3, <3>2, <3>3, EndsInside
  <2> QED BY <2>2, <2>3
<1> QED BY <1>1, <1>2

-----------------------------------------------------------------------------
(* The steps of a form, and of the answer that is kept. *)

LEMMA VerifiedStraight ==
  ASSUME IInv, Typed, Straight, ~lossy, VerifyEmailLogin
  PROVE  Straight'
<1> DEFINE c == call.challenge
           e == challenges[c].email
           who == IF users[e] = "none" THEN "new" ELSE users[e]
<1>1. /\ call # None /\ call.op = "verify" /\ call.at = "sent" /\ call \in Forms
      /\ UNCHANGED <<orphan, route, link, chains, cached, fetch, lossy>>
  BY DEF VerifyEmailLogin, query, faults, Typed
<1>2. c \in Challenges /\ challenges[c] \in Challenge /\ e \in Emails /\ e # None /\ who \in {"new", "ready"}
  <2>1. c \in Challenges /\ challenges[c] \in Challenge
    BY <1>1 DEF IInv, FormKnown, Known, Server, Sent
  <2>2. e \in Emails
    BY <2>1 DEF Challenge
  <2> QED BY <2>1, <2>2, SignInAssumption DEF IInv, Server, Accounts
<1>3. ~Leaving /\ ~Verifies("done")
  BY <1>1 DEF Leaving, Verifies
<1> HIDE DEF c, who
<1>4. ASSUME signed' = signed PROVE Straight'
  <2>1. call' = [call EXCEPT !.at = "failed"]
    BY <1>4 DEF VerifyEmailLogin
  <2>2. call'.op = call.op /\ call'.at = "failed" /\ call'.invited = call.invited
    BY <1>1, <2>1 DEF Forms
  <2>3. \/ UNCHANGED <<users, session>>
        \/ session' = session /\ users' = [users EXCEPT ![e] = who]
    <3>1. CASE ~MayConsume(c)
      BY <3>1 DEF VerifyEmailLogin, c
    <3>2. CASE MayConsume(c) /\ call.invited /\ ~Accepts(e)
      BY <3>2 DEF VerifyEmailLogin, Signs, c, who
    <3>3. CASE MayConsume(c) /\ ~(call.invited /\ ~Accepts(e))
      <4>1. signed' = [signed EXCEPT ![c] = @ \cup {[n |-> Cardinality(@), invited |-> call.invited]}]
        BY <3>3 DEF VerifyEmailLogin, Signs, c
      <4>2. signed[c] = {} /\ signed = [x \in Challenges |-> signed[x]]
        BY <1>2, <3>3 DEF IInv, Server, Unspent, MayConsume
      <4>3. signed'[c] # {}
        BY <1>2, <4>1, <4>2
      <4> QED BY <1>4, <4>2, <4>3
    <3> QED BY <3>1, <3>2, <3>3
  <2>4. session' = session /\ (session # None => users'[session] = users[session])
    BY <1>2, <2>3 DEF IInv, Server, Accounts, who
  <2> QED BY <1>1, <2>2, <2>4, MinorCall DEF Minor
<1>5. ASSUME signed' # signed PROVE Straight'
  <2>1. /\ session' = e /\ users' = [users EXCEPT ![e] = IF call.invited THEN "ready" ELSE who]
        /\ call' = [call EXCEPT !.at = "done", !.to = Belongs(users'[session'])]
    BY <1>5 DEF VerifyEmailLogin, Signs, c, who
  <2>2. /\ users'[e] \in {"new", "ready"} /\ (call.invited => users'[e] = "ready")
    BY <1>2, <2>1 DEF IInv, Server, Accounts
  <2>3. /\ call' # None /\ call'.op = "verify" /\ call'.at = "done"
        /\ call'.to = IF users'[e] = "new" THEN "onboarding" ELSE "task"
    <3>1. call' \in Forms
      BY <1>1, <2>1 DEF Forms, Belongs
    <3> QED BY <1>1, <2>1, <3>1, SignInAssumption DEF Forms, Belongs
  <2>4. Verifies("done")' /\ ~Verifies("sent")' /\ ~Leaving'
    BY <2>3 DEF Verifies, Leaving
  <2>5. session' # None
    BY <1>2, <2>1
  <2>6. "ready" # None /\ "refused" # None
    BY SignInAssumption
  <2>7. Changing' /\ InCall' /\ AtLogin' /\ AtOnboarding'
    BY <2>1, <2>2, <2>3, <2>4 DEF Changing, InCall, AtLogin, AtOnboarding
  <2>8. CASE session = None
    <3>1. Outside /\ route = "login"
      BY <1>1, <1>3, <2>8 DEF Straight, Outside, OutCall
    <3>2. InChains' /\ InAnswer' /\ AtWaitlist' /\ Mistaken'
      BY <1>1, <2>6, <3>1 DEF Outside, OutChains, OutAnswer, InChains, InAnswer, AtWaitlist, Mistaken
    <3> QED BY <1>1, <2>4, <2>5, <2>7, <3>2 DEF Straight, Inside
  <2>9. CASE session # None
    <3>1. Inside /\ Verifies("sent")
      BY <1>1, <1>3, <2>9 DEF Straight, Verifies
    <3>2. InChains' /\ InAnswer' /\ AtWaitlist'
      BY <1>1, <3>1 DEF Inside, InChains, InAnswer, AtWaitlist
    <3>3. Mistaken'
      <4>1. SUFFICES ASSUME users'[e] = "new", "ready" \in {cached.data, fetch}
                     PROVE  Mistaken'
        BY <1>1, <2>1 DEF Mistaken
      <4>2. ~call.invited
        BY <2>2, <4>1
      <4>3. users[session] = "ready"
        BY <2>9, <3>1, <4>1 DEF Inside, Mistaken, IInv, Server, Accounts
      <4>4. route # "login"
        BY <1>3, <2>6, <3>1, <4>1 DEF Inside, AtLogin
      <4>5. chains = {}
        BY <3>1, <4>2, <4>3, <4>4 DEF Inside, Changing
      <4> QED BY <1>1, <2>3, <2>4, <4>1, <4>5 DEF Mistaken
    <3> QED BY <1>1, <2>4, <2>5, <2>7, <3>2, <3>3 DEF Straight, Inside
  <2> QED BY <2>8, <2>9
<1> QED BY <1>4, <1>5

LEMMA OnboardedStraight ==
  ASSUME IInv, Typed, Straight, ~lossy, CompleteOnboarding
  PROVE  Straight'
<1>1. /\ call # None /\ call.op = "onboarding" /\ call.at = "sent" /\ call \in Forms
      /\ UNCHANGED <<session, orphan, route, link, chains, cached, fetch, lossy>>
  BY DEF CompleteOnboarding, query, faults, Typed
<1>2. ~Leaving /\ ~Verifies("done") /\ ~Verifies("sent")
  BY <1>1 DEF Leaving, Verifies
<1>3. CASE session = None
  <2>1. call'.op = call.op /\ call'.at = "failed" /\ call'.invited = call.invited
    BY <1>1, <1>3 DEF CompleteOnboarding, Forms
  <2> QED BY <1>1, <1>3, <2>1, MinorCall DEF Minor
<1>4. CASE session # None
  <2>1. users'[session] = "ready"
    BY <1>4 DEF CompleteOnboarding, IInv, Server, Accounts
  <2>2. call' # None /\ call'.op = "onboarding" /\ call'.at = "done"
    <3>1. call' \in Forms
      BY <1>1, <1>4 DEF CompleteOnboarding, Forms
    <3> QED BY <1>1, <1>4, <3>1, SignInAssumption DEF CompleteOnboarding, Forms
  <2>3. Inside
    BY <1>2, <1>4 DEF Straight
  <2>4. route # "login"
    BY <1>1, <1>2, <2>3 DEF Inside, AtLogin
  <2>5. InChains' /\ InAnswer' /\ AtWaitlist' /\ AtLogin'
    BY <1>1, <2>3, <2>4 DEF Inside, InChains, InAnswer, AtWaitlist, AtLogin
  <2>6. AtOnboarding' /\ Changing' /\ Mistaken' /\ InCall' /\ ~Leaving'
    BY <1>1, <2>1, <2>2 DEF AtOnboarding, Changing, Mistaken, InCall, Verifies, Leaving
  <2> QED BY <1>1, <1>4, <2>3, <2>5, <2>6 DEF Straight, Inside
<1> QED BY <1>3, <1>4

LEMMA FormStraight ==
  ASSUME IInv, Typed, Straight, ~lossy, BeginEmailLogin \/ VerifyReads \/ Requested \/ Logout
  PROVE  Straight'
<1>1. call # None /\ call \in Forms /\ UNCHANGED <<users, orphan, route, link, chains, cached, fetch, lossy>>
  BY DEF BeginEmailLogin, VerifyReads, Requested, Logout, server, query, faults, Typed
<1>2. CASE BeginEmailLogin
  <2>1. PICK x \in Challenges : call' = [call EXCEPT !.at = "done", !.challenge = x]
    BY <1>2 DEF BeginEmailLogin
  <2>2. call'.op = call.op /\ call'.at = "done" /\ call'.invited = call.invited /\ call.op = "request"
    BY <1>1, <1>2, <2>1 DEF BeginEmailLogin, Forms
  <2>3. session' = session
    BY <1>2 DEF BeginEmailLogin
  <2> QED BY <1>1, <2>2, <2>3, MinorCall DEF Minor
<1>3. CASE VerifyReads
  <2>1. call' = [call EXCEPT !.at = "failed"] \/ call' = [call EXCEPT !.read = TRUE]
    BY <1>3 DEF VerifyReads
  <2>2. call'.op = call.op /\ call'.at \in {call.at, "failed"} /\ call'.invited = call.invited
    BY <1>1, <2>1 DEF Forms
  <2>3. session' = session /\ call.at = "sent"
    BY <1>3 DEF VerifyReads
  <2> QED BY <1>1, <2>2, <2>3, MinorCall DEF Minor
<1>4. CASE Requested
  <2>1. call' = None /\ call.op = "request" /\ session' = session
    BY <1>4 DEF Requested, server
  <2> QED BY <1>1, <2>1, MinorCall DEF Minor
<1>5. CASE Logout
  <2>1. call' # None /\ call'.op = "logout" /\ call'.at = "done" /\ session' = None
    <3>1. call' \in Forms /\ call.op = "logout"
      BY <1>1, <1>5 DEF Logout, Forms
    <3> QED BY <1>1, <1>5, <3>1, SignInAssumption DEF Logout, Forms
  <2>2. Leaving'
    BY <2>1 DEF Leaving
  <2> QED BY <1>1, <2>1, <2>2 DEF Straight
<1> QED BY <1>2, <1>3, <1>4, <1>5

LEMMA SubmittedStraight ==
  ASSUME IInv, Typed, Straight, ~lossy, Submitted
  PROVE  Straight'
<1>1. call # None /\ call.op \in {"verify", "onboarding"} /\ call.at \in {"done", "failed"} /\ UNCHANGED server
      /\ UNCHANGED lossy
  BY DEF Submitted, faults
<1>2. ~Leaving /\ ~Verifies("sent")
  BY <1>1 DEF Leaving, Verifies
<1>3. CASE call.at = "failed"
  <2>1. call' = None /\ UNCHANGED <<users, session, orphan, route, link, chains, cached, fetch, lossy>>
    BY <1>1, <1>3 DEF Submitted, Stay, server, query
  <2> QED BY <1>1, <1>3, <2>1, MinorCall DEF Minor
<1>4. CASE call.at = "done"
  <2>1. session # None
    BY <1>1, <1>2, <1>4 DEF Straight, Outside, OutCall
  <2>2. Inside
    BY <1>2, <2>1 DEF Straight
  <2> DEFINE to == IF call.op = "verify" THEN call.to ELSE "task"
  <2>3. Navigate(to, chains, None)
    BY <1>4 DEF Submitted
  <2>4. to \in {"task", "onboarding"} /\ (to = "task" => users[session] = "ready")
        /\ (to = "onboarding" => call.op = "verify" /\ call.to = "onboarding")
    BY <1>1, <1>4, <2>2 DEF Inside, InCall, Verifies
  <2>5. route = "login" => Verifies("done")
    BY <1>1, <1>4, <2>2 DEF Inside, AtLogin, Verifies
  <2> HIDE DEF to
  <2>6. chains \in SUBSET chains /\ None \in {call, None} /\ (None = None => call = None \/ call.at = "done")
    BY <1>4
  <2>7. route = "onboarding" /\ to = "onboarding" => \A c \in chains \ chains : ~Witness(c)
    OBVIOUS
  <2>8. None = None /\ call # None => (route = "onboarding" /\ to = "onboarding" => call.op # "onboarding" /\ call.to = "onboarding")
    BY <2>4
  <2> QED BY <1>1, <1>2, <2>1, <2>3, <2>4, <2>5, <2>6, <2>7, <2>8, NavigateInside
<1> QED BY <1>1, <1>3, <1>4

LEMMA ProtectedStraight ==
  ASSUME IInv, Typed, Straight, ~lossy, ~Leaving, ProtectedRoute
  PROVE  Straight'
<1>1. route = "task" /\ (cached.failed \/ cached.data = "new") /\ UNCHANGED server /\ UNCHANGED lossy
  BY DEF ProtectedRoute, Redirects, faults
<1>2. CASE session = None
  <2>1. chains = {} /\ fetch = None /\ cached.failed
    BY <1>1, <1>2 DEF Straight, Outside, OutChains, OutAnswer
  <2>2. Navigate("login", {}, call)
    BY <2>1 DEF ProtectedRoute
  <2> QED BY <1>1, <1>2, <2>1, <2>2, ToLogin
<1>3. CASE session # None
  <2>1. Inside
    BY <1>3 DEF Straight
  <2>2. ~cached.failed /\ cached.data = "new" /\ Navigate("onboarding", chains, call)
    BY <1>1, <2>1 DEF Inside, InAnswer, ProtectedRoute
  <2>3. ~(Verifies("sent") /\ ~call.invited /\ users[session] = "ready")
    BY <1>1, <2>1, <2>2 DEF Inside, Changing, Heard
  <2>4. chains \in SUBSET chains /\ call \in {call, None} /\ (call = None => call = None \/ call.at = "done")
    OBVIOUS
  <2> QED BY <1>1, <1>3, <2>2, <2>3, <2>4, NavigateInside
<1> QED BY <1>2, <1>3

LEMMA SignedOutStraight ==
  ASSUME IInv, Straight, ~lossy, SignedOut
  PROVE  Straight'
<1>1. /\ call' = None /\ route' = "login" /\ fetch' = None /\ cached'.data = "none" /\ ~cached'.failed
      /\ UNCHANGED <<users, session, orphan, lossy>> /\ chains' = {Chain("login", "config")} /\ link' = FALSE
  BY DEF SignedOut, server, faults
<1>2. PICK c : chains' = {c} /\ DOMAIN c = ChainFields /\ c.from = "login" /\ c.at = "sent" /\ c.got = "none"
               /\ c.step = "config"
  <2>1. Starts("login") = {Chain("login", "config")}
    BY DEF Starts
  <2> QED BY <1>1, <2>1, StartsAre
<1>3. session = None => Outside'
  BY <1>1, <1>2 DEF Outside, OutChains, OneChain, OutCall, OutAnswer
<1>4. ASSUME session # None PROVE Inside'
  <2>1. InChains' /\ InAnswer' /\ AtWaitlist' /\ AtLogin'
    BY <1>1, <1>2, SignInAssumption DEF InChains, InAnswer, AtWaitlist, AtLogin, Verifies, Leads, OneChain
  <2>2. AtOnboarding' /\ Changing' /\ Mistaken' /\ InCall'
    BY <1>1, <1>2, SignInAssumption DEF AtOnboarding, Changing, Mistaken, InCall, Verifies
  <2> QED BY <2>1, <2>2 DEF Inside
<1>5. ~Leaving'
  BY <1>1 DEF Leaving
<1>6. orphan = None
  BY DEF Straight
<1> QED BY <1>1, <1>2, <1>3, <1>4, <1>5, <1>6 DEF Straight, Routes

\* While the browser does not know yet that it is signed out nothing else counts.
LEMMA LeavingStraight ==
  ASSUME IInv, Typed, Straight, ~lossy, ~lossy', Leaving,
         \/ \E c \in chains : \/ ServeChain(c) \/ Configured(c) \/ LoginKnows(c) \/ WaitlistKnows(c)
                              \/ OnboardingKnows(c) \/ InvitationAccepted(c) \/ InvitationKnown(c)
         \/ ProtectedRoute
  PROVE  Straight'
<1>1. /\ session = None /\ orphan = None /\ call # None /\ call.op = "logout" /\ call.at = "done"
      /\ \A c \in chains : DOMAIN c = ChainFields
  BY DEF Straight, Leaving
<1>2. UNCHANGED <<session, orphan>>
  BY DEF ServeChain, Configured, LoginKnows, WaitlistKnows, OnboardingKnows, InvitationAccepted, InvitationKnown,
         ProtectedRoute, server
<1>3. /\ route' \in Routes /\ \A c \in chains' : DOMAIN c = ChainFields
      /\ call' \in {call, [call EXCEPT !.shown = FALSE]}
  <2>1. ASSUME NEW to \in {"login", "task", "onboarding"}, NEW rest \in SUBSET chains, Navigate(to, rest, call)
        PROVE  /\ route' \in Routes /\ \A c \in chains' : DOMAIN c = ChainFields
               /\ call' \in {call, [call EXCEPT !.shown = FALSE]}
    <3>1. route' = to /\ chains' \in {rest, Hidden(rest) \cup Starts(to)} /\ call' \in {call, [call EXCEPT !.shown = FALSE]}
      BY <1>1, <2>1 DEF Navigate
    <3>2. \A c \in Hidden(rest) \cup Starts(to) : DOMAIN c = ChainFields
      <4>1. \A c \in rest : DOMAIN c = ChainFields
        BY <1>1
      <4>2. \A c \in Hidden(rest) : DOMAIN c = ChainFields
        BY <4>1, HiddenChains
      <4>3. \A c \in Starts(to) : DOMAIN c = ChainFields
        BY StartsAre
      <4> QED BY <4>2, <4>3
    <3> QED BY <1>1, <3>1, <3>2 DEF Routes
  <2>2. ASSUME NEW c \in chains, NEW step
        PROVE  \A d \in Then(c, step) : DOMAIN d = ChainFields
    <3>1. DOMAIN [c EXCEPT !.step = step, !.at = "sent", !.got = "none"] = ChainFields
      BY <1>1
    <3> QED BY <1>1, <3>1 DEF Then
  <2>3. ASSUME NEW c \in chains, LoginKnows(c) \/ WaitlistKnows(c) \/ OnboardingKnows(c) \/ InvitationAccepted(c)
        PROVE  \/ \E to \in {"login", "task", "onboarding"} : Navigate(to, chains \ {c}, call)
               \/ Stay(chains \ {c}, call) \/ \E step : Stay(Then(c, step), call)
    BY <2>3 DEF LoginKnows, WaitlistKnows, OnboardingKnows, InvitationAccepted, Belongs, SentBack
  <2>4. CASE \E c \in chains : LoginKnows(c) \/ WaitlistKnows(c) \/ OnboardingKnows(c) \/ InvitationAccepted(c)
    <3>1. PICK c \in chains : \/ \E to \in {"login", "task", "onboarding"} : Navigate(to, chains \ {c}, call)
                              \/ Stay(chains \ {c}, call) \/ \E step : Stay(Then(c, step), call)
      BY <2>3, <2>4
    <3>2. CASE \E to \in {"login", "task", "onboarding"} : Navigate(to, chains \ {c}, call)
      <4>1. chains \ {c} \in SUBSET chains
        OBVIOUS
      <4> QED BY <2>1, <3>2, <4>1
    <3>3. CASE Stay(chains \ {c}, call) \/ \E step : Stay(Then(c, step), call)
      <4>1. route' = route /\ call' = call /\ (chains' = chains \ {c} \/ \E step : chains' = Then(c, step))
        BY <3>3 DEF Stay
      <4> QED BY <1>1, <2>2, <4>1 DEF Straight
    <3> QED BY <3>1, <3>2, <3>3
  <2>5. CASE ProtectedRoute
    <3>1. \E to \in {"login", "task", "onboarding"} : Navigate(to, chains, call)
      BY <2>5 DEF ProtectedRoute
    <3>2. chains \in SUBSET chains
      OBVIOUS
    <3> QED BY <2>1, <3>1, <3>2
  <2>6. ASSUME NEW c \in chains, ServeChain(c)
        PROVE  /\ route' \in Routes /\ \A d \in chains' : DOMAIN d = ChainFields
               /\ call' \in {call, [call EXCEPT !.shown = FALSE]}
    <3>1. PICK d : Answers(c, d) /\ chains' = (chains \ {c}) \cup {d}
      BY <1>1, <2>6, Served
    <3> QED BY <1>1, <2>6, <3>1 DEF Answers, ServeChain, Straight
  <2>7. ASSUME NEW c \in chains, Configured(c)
        PROVE  /\ route' \in Routes /\ \A d \in chains' : DOMAIN d = ChainFields
               /\ call' \in {call, [call EXCEPT !.shown = FALSE]}
    <3>1. DOMAIN [c EXCEPT !.step = "me", !.at = "sent", !.got = "none", !.open = (c.at = "done")] = ChainFields
      BY <1>1
    <3> QED BY <1>1, <2>7, <3>1 DEF Configured, Straight
  <2>8. ASSUME NEW c \in chains, InvitationKnown(c)
        PROVE  /\ route' \in Routes /\ \A d \in chains' : DOMAIN d = ChainFields
               /\ call' \in {call, [call EXCEPT !.shown = FALSE]}
    BY <1>1, <2>8 DEF InvitationKnown, Straight
  <2> QED BY <2>4, <2>5, <2>6, <2>7, <2>8
<1>4. SameCall
  BY <1>1, <1>3, SameCalls
<1>5. Leaving'
  BY <1>1, <1>4 DEF Leaving, SameCall
<1> QED BY <1>1, <1>2, <1>3, <1>5 DEF Straight

LEMMA StraightNext ==
  ASSUME IInv, Typed, Straight, [Next]_vars
  PROVE  Straight'
<1>0. lossy /\ ~lossy' => FALSE
  <2>1. ASSUME lossy PROVE lossy'
    <3>1. CASE Gesture
      BY <2>1, <3>1 DEF Gesture, typeEmail, typeCode, useDifferentEmail, submitRequest, submitVerify, submitOnboarding,
                        signOut, Submits, Browse, faults
    <3>2. CASE Progress
      BY <2>1, <3>2 DEF Progress, ServeChain, Configured, LoginKnows, WaitlistKnows, OnboardingKnows, InvitationAccepted,
                        InvitationKnown, ServeFetch, Fetched, GoesStale, ProtectedRoute, BeginEmailLogin, VerifyReads,
                        VerifyEmailLogin, VerifyAlone, CompleteOnboarding, Logout, Requested, Submitted, SignedOut, faults
    <3>3. CASE Mishap
      BY <2>1, <3>3 DEF Mishap, ChainFails, FetchLost, CallLost, SessionEnds, ChallengeExpires, InvitationCancelled, faults
    <3>4. CASE UNCHANGED vars
      BY <2>1, <3>4 DEF vars, faults
    <3> QED BY <3>1, <3>2, <3>3, <3>4 DEF Next
  <2> QED BY <2>1
<1>1. CASE ~lossy' /\ Gesture
  BY <1>0, <1>1, GesturesStraight
<1>2. ASSUME ~lossy', NEW c \in chains,
             \/ ServeChain(c) \/ Configured(c) \/ LoginKnows(c) \/ WaitlistKnows(c)
             \/ OnboardingKnows(c) \/ InvitationAccepted(c) \/ InvitationKnown(c)
      PROVE  Straight'
  <2>1. CASE Leaving
    BY <1>0, <1>2, <2>1, LeavingStraight
  <2>2. CASE ~Leaving
    BY <1>0, <1>2, <2>2, ServeStraight, ConfiguredStraight, LoginStraight, WaitlistStraight, OnboardingStraight,
       InvitationStraight
  <2> QED BY <2>1, <2>2
<1>3. CASE ~lossy' /\ ProtectedRoute
  BY <1>0, <1>3, LeavingStraight, ProtectedStraight
<1>4. CASE ~lossy' /\ (ServeFetch \/ Fetched \/ GoesStale)
  BY <1>0, <1>4, AnswerStraight
<1>5. CASE ~lossy' /\ (\/ BeginEmailLogin \/ VerifyReads \/ VerifyEmailLogin \/ CompleteOnboarding \/ Logout
                       \/ Requested \/ Submitted \/ SignedOut)
  BY <1>0, <1>5, FormStraight, VerifiedStraight, OnboardedStraight, SubmittedStraight, SignedOutStraight
<1>6. CASE ~lossy' /\ VerifyAlone
  BY <1>0, <1>6 DEF VerifyAlone, Straight
<1>7. CASE ~lossy' /\ Mishap
  <2>1. ChallengeExpires \/ InvitationCancelled
    BY <1>7 DEF Mishap, ChainFails, FetchLost, CallLost, SessionEnds
  <2>2. UNCHANGED <<Rest, chains, call, lossy>>
    BY <2>1 DEF ChallengeExpires, InvitationCancelled, tab, query, faults, Rest
  <2> QED BY <2>2, SameStraight
<1>8. CASE UNCHANGED vars
  BY <1>8, SameStraight DEF vars, server, tab, query, faults, Rest
<1>9. CASE lossy' /\ Next
  <2>1. Straight'
    BY <1>9 DEF Straight
  <2> QED BY <2>1
<1> QED BY <1>1, <1>2, <1>3, <1>4, <1>5, <1>6, <1>7, <1>8, <1>9 DEF Next, Progress

\* What the tab has heard of the session.
AnswerIs == cached.data \in {"none", "new", "ready"} /\ fetch \in {None, "sent", "new", "ready", "refused"}
LEMMA AnswerIsNext ==
  ASSUME IInv, AnswerIs, [Next]_vars
  PROVE  AnswerIs'
<1>0. DOMAIN cached = {"data", "failed", "fresh"} /\ Me \in {"none", "new", "ready"}
  BY DEF IInv, Answer, Server, Accounts, Me
<1>1. /\ [cached EXCEPT !.failed = FALSE].data = cached.data /\ [cached EXCEPT !.fresh = FALSE].data = cached.data
      /\ [cached EXCEPT !.failed = TRUE, !.fresh = FALSE].data = cached.data
  BY <1>0
<1>2. ASSUME NEW to, NEW rest, NEW form, Navigate(to, rest, form) PROVE AnswerIs'
  <2>1. cached' = cached \/ cached' = [cached EXCEPT !.failed = FALSE]
    BY <1>2 DEF Navigate, query
  <2>2. fetch' = fetch \/ fetch' = "sent"
    BY <1>2 DEF Navigate, query
  <2> QED BY <1>1, <2>1, <2>2 DEF AnswerIs
<1>3. CASE ServeFetch \/ FetchLost \/ Fetched \/ GoesStale \/ Browse
  <2>1. \/ cached' = cached \/ cached' = [cached EXCEPT !.failed = TRUE, !.fresh = FALSE]
        \/ cached' = [cached EXCEPT !.fresh = FALSE]
        \/ fetch \in {"new", "ready"} /\ cached' = [data |-> fetch, failed |-> FALSE, fresh |-> TRUE]
    BY <1>3 DEF ServeFetch, FetchLost, Fetched, GoesStale, Browse
  <2>2. fetch' \in {fetch, None, "sent", "refused"} \/ (Me # "none" /\ fetch' = Me)
    BY <1>3 DEF ServeFetch, FetchLost, Fetched, GoesStale, Browse
  <2>4. cached'.data \in {"none", "new", "ready"}
    <3>1. ASSUME fetch \in {"new", "ready"}, cached' = [data |-> fetch, failed |-> FALSE, fresh |-> TRUE]
          PROVE  cached'.data \in {"new", "ready"}
      BY <3>1
    <3>2. ASSUME cached'.data = cached.data PROVE cached'.data \in {"none", "new", "ready"}
      BY <3>2 DEF AnswerIs
    <3> QED BY <1>1, <2>1, <3>1, <3>2
  <2> QED BY <1>0, <2>2, <2>4 DEF AnswerIs
<1>4. CASE UNCHANGED <<cached, fetch>>
  BY <1>4 DEF AnswerIs
<1>5. ASSUME NEW c \in chains, LoginKnows(c) \/ WaitlistKnows(c) \/ OnboardingKnows(c) \/ InvitationAccepted(c)
      PROVE  (\E to, rest : Navigate(to, rest, call)) \/ UNCHANGED <<cached, fetch>>
  BY <1>5 DEF LoginKnows, WaitlistKnows, OnboardingKnows, InvitationAccepted, Stay, query
<1>6. CASE ProtectedRoute \/ Submitted
  <2>1. (\E to, rest, form : Navigate(to, rest, form)) \/ UNCHANGED <<cached, fetch>>
    BY <1>6 DEF ProtectedRoute, Submitted, Stay, query
  <2> QED BY <1>2, <1>4, <2>1
<1>7. CASE SignedOut
  BY <1>7 DEF SignedOut, AnswerIs
<1>8. CASE Gesture /\ ~Browse
  <2>1. UNCHANGED <<cached, fetch>>
    BY <1>8 DEF Gesture, typeEmail, typeCode, useDifferentEmail, submitRequest, submitVerify, submitOnboarding, signOut,
           Submits, query
  <2> QED BY <1>4, <2>1
<1>9. CASE Progress
  <2>1. ASSUME \/ \E c \in chains : ServeChain(c) \/ Configured(c) \/ InvitationKnown(c)
               \/ BeginEmailLogin \/ VerifyReads \/ VerifyEmailLogin \/ VerifyAlone \/ CompleteOnboarding \/ Logout \/ Requested
        PROVE  UNCHANGED <<cached, fetch>>
    BY <2>1 DEF ServeChain, Configured, InvitationKnown, BeginEmailLogin, VerifyReads, VerifyEmailLogin, VerifyAlone,
                CompleteOnboarding, Logout, Requested, query
  <2> QED BY <1>2, <1>3, <1>4, <1>5, <1>6, <1>7, <1>9, <2>1 DEF Progress
<1>10. CASE Mishap /\ ~FetchLost
  <2>1. UNCHANGED <<cached, fetch>>
    BY <1>10 DEF Mishap, ChainFails, CallLost, SessionEnds, ChallengeExpires, InvitationCancelled, query
  <2> QED BY <1>4, <2>1
<1>11. CASE UNCHANGED vars
  BY <1>4, <1>11 DEF vars, query
<1> QED BY <1>3, <1>8, <1>9, <1>10, <1>11 DEF Next

LEMMA StraightInitially == Init => Typed /\ AnswerIs /\ Straight
<1> SUFFICES ASSUME Init PROVE Typed /\ AnswerIs /\ Straight
  OBVIOUS
<1>1. /\ route \in Routes /\ page = NoForm /\ link \in BOOLEAN /\ orphan = None /\ chains = Starts(route) /\ call = None
      /\ cached = [data |-> "none", failed |-> FALSE, fresh |-> FALSE]
      /\ fetch = (IF route = "task" THEN "sent" ELSE None)
      /\ session # None => users[session] \in {"new", "ready"}
  <2>1. route \in Routes
    BY DEF Init, Routes
  <2>2. session # None => session \in Emails /\ users[session] # "none"
    BY DEF Init
  <2> QED BY <2>1, <2>2 DEF Init
<1>2. Typed /\ AnswerIs
  BY <1>1 DEF Typed, NoForm, Chosen, AnswerIs
<1>3. /\ \A c \in chains : /\ DOMAIN c = ChainFields /\ c.from = route /\ c.at = "sent" /\ c.got = "none"
                           /\ c = Chain(route, IF route = "onboarding" THEN "me" ELSE "config")
      /\ route = "task" => chains = {}
      /\ route # "task" => chains = {Chain(route, IF route = "onboarding" THEN "me" ELSE "config")}
  BY <1>1, StartsAre DEF Starts, Chain, ChainFields, Routes
<1>4. \A c \in chains : c.step = IF route = "onboarding" THEN "me" ELSE "config"
  BY <1>3 DEF Chain
<1>5. ~Leaving /\ \A at : ~Verifies(at)
  BY <1>1 DEF Leaving, Verifies
<1>6. CASE session = None
  <2>1. OutChains
    BY <1>1, <1>3, <1>4 DEF OutChains, OneChain, Routes
  <2>2. OutCall /\ OutAnswer
    BY <1>1, SignInAssumption DEF OutCall, OutAnswer
  <2> QED BY <1>1, <1>2, <1>3, <1>5, <1>6, <2>1, <2>2 DEF Straight, Outside
<1>7. CASE session # None
  <2>1. InChains /\ InAnswer
    BY <1>1, <1>3, <1>4, SignInAssumption DEF InChains, InAnswer
  <2>2. AtLogin /\ AtWaitlist
    BY <1>1, <1>3, <1>4, <1>5 DEF AtLogin, AtWaitlist, Leads, OneChain
  <2>3. AtOnboarding
    BY <1>1, <1>3, <1>4, <1>7 DEF AtOnboarding, Witness
  <2>4. Changing /\ Mistaken /\ InCall
    BY <1>1, <1>5, SignInAssumption DEF Changing, Mistaken, InCall
  <2> QED BY <1>1, <1>2, <1>3, <1>5, <1>7, <2>1, <2>2, <2>3, <2>4 DEF Straight, Inside
<1> QED BY <1>6, <1>7

\* At rest there is no chain, no form and no question left to explain a page that is not right.
LEMMA RestIsRight == ASSUME IInv, AnswerIs, Straight PROVE RightPage
<1> SUFFICES ASSUME Settled, ~lossy
             PROVE  /\ route = "task" => session # None /\ users[session] = "ready"
                    /\ route = "onboarding" => session # None /\ users[session] = "new"
                    /\ route = "login" => session = None
                    /\ route # "waitlist" /\ route \in Routes
  BY DEF RightPage, Routes
<1>1. chains = {} /\ fetch = None /\ call = None /\ ~Redirects /\ route \in Routes
  BY DEF Settled, Straight
<1>2. ~Leaving /\ \A at : ~Verifies(at)
  BY <1>1 DEF Leaving, Verifies
<1>3. CASE session = None
  <2>1. Outside
    BY <1>2, <1>3 DEF Straight
  <2>2. route # "task"
    BY <1>1, <2>1 DEF Outside, OutAnswer, Redirects
  <2>3. route \notin {"onboarding", "waitlist"}
    BY <1>1, <2>1 DEF Outside, OutChains
  <2> QED BY <1>1, <1>3, <2>2, <2>3
<1>4. CASE session # None
  <2>1. Inside
    BY <1>2, <1>4 DEF Straight
  <2>2. users[session] \in {"new", "ready"}
    BY <1>4 DEF IInv, Server, Accounts
  <2>3. route # "login" /\ route # "waitlist"
    BY <1>1, <1>2, <2>1 DEF Inside, AtLogin, AtWaitlist
  <2>4. route = "onboarding" => users[session] = "new"
    BY <1>1, <1>2, <2>1 DEF Inside, AtOnboarding
  <2>5. route = "task" => users[session] = "ready"
    <3>1. ASSUME route = "task" PROVE cached.data \in {"new", "ready"} /\ cached.data # "new"
      BY <1>1, <2>1, <3>1 DEF Inside, InAnswer, Redirects, AnswerIs
    <3>2. ASSUME route = "task", users[session] = "new" PROVE FALSE
      <4>1. "ready" \in {cached.data, fetch}
        BY <3>1, <3>2
      <4> QED BY <1>2, <2>1, <3>2, <4>1 DEF Inside, Mistaken
    <3> QED BY <2>2, <3>2
  <2> QED BY <1>1, <1>4, <2>3, <2>4, <2>5
<1> QED BY <1>3, <1>4

(* Whatever pages were left while their calls were under way and whatever the *)
(* tab still believes of the session: once everything has been answered it    *)
(* shows the page that belongs to who is signed in (LoginRoute,               *)
(* OnboardingRoute, WaitlistRoute and ProtectedRoute of app.tsx).             *)
THEOREM RestsOnRightPage == Spec => []RightPage
<1>1. Init => Typed /\ AnswerIs /\ Straight
  BY StraightInitially
<1>2. IInv /\ Typed /\ AnswerIs /\ Straight /\ [Next]_vars => Typed' /\ AnswerIs' /\ Straight'
  BY TypedNext, AnswerIsNext, StraightNext
<1>3. IInv /\ AnswerIs /\ Straight => RightPage
  BY RestIsRight
<1> QED BY Invariance, <1>1, <1>2, <1>3, PTL DEF Spec

-----------------------------------------------------------------------------
(* The profile page (ProfilePage, as ClientPages!Profile), for every number of  *)
(* boards, calendar accounts and authorizations.                                *)

ProfileTargetTypes == [account : Calendars, expired : BOOLEAN, refresh : BOOLEAN, ready : BOOLEAN]
ProfileCallTypes == [op : {"base", "list", "board", "sync", "remove", "connect"}, who : Calendars \cup OfBoards \cup {"all", "sync", "remove", Nil},
                     at : {"sent", "listed", "working", "done", "late", "failed"}, doc : [Calendars -> Nat] \cup Consents \cup {Nil},
                     left : SUBSET (Calendars \cup ProfileTargetTypes), shown : BOOLEAN]
ProfilePageTypes == [open : BOOLEAN, loading : BOOLEAN, list : [Calendars -> Nat], active : OfBoards, quests : OfBoards \cup {Nil},
                     syncing : Calendars \cup {"all", Nil}, removing : Calendars \cup {Nil}, connecting : BOOLEAN]

ProfileLoader(c) == c.op \in {"base", "list"}
ProfileCallOK(c) ==
  /\ ProfileLoader(c) /\ c.at \in {"done", "late"} => c.doc \in [Calendars -> Nat]
  /\ ProfileLoader(c) \/ c.op = "board" => c.at \in {"sent", "done", "late", "failed"}
  /\ c.op = "connect" /\ c.at \in {"done", "late"} => c.doc \in Consents
  /\ c.op = "board" => c.who \in OfBoards /\ c.at # "late"
  /\ c.op = "sync" => c.who \in Calendars \cup {"all"}
  /\ c.at = "working" => c.op = "sync" /\ c.left \subseteq ProfileTargetTypes
  /\ c.at = "listed" => c.op = "sync" /\ c.left \subseteq Calendars

ProfileTypes ==
  /\ profileHeld \in [Calendars -> ProfileHeldTypes \cup {Nil}]
  /\ profileConsents \in [Consents -> {"none", "begun", "used"}] /\ profileConnected \in [Consents -> Nat]
  /\ profileAway \in Consents \cup {Nil} /\ profilePage \in ProfilePageTypes
  /\ profileCalls \subseteq ProfileCallTypes /\ \A c \in profileCalls : ProfileCallOK(c)
  /\ profileStale \in BOOLEAN /\ profileMisplaced \in BOOLEAN

ProfileConsentsOnce == \A k \in Consents : profileConnected[k] <= 1 /\ (profileConsents[k] # "used" => profileConnected[k] = 0)

\* What the page is busy with is under way, and the other way round.
ProfileLoads(c) == c.shown /\ c.op = "base"
ProfileSyncs(c) == c.shown /\ (c.op = "sync" \/ (c.op = "list" /\ c.who = "sync"))
ProfileRemoves(c) == c.shown /\ (c.op = "remove" \/ (c.op = "list" /\ c.who # "sync"))
ProfileBusy ==
  /\ profilePage.open /\ profilePage.loading => \E c \in profileCalls : ProfileLoads(c)
  /\ profilePage.open /\ profilePage.syncing # Nil => \E c \in profileCalls : ProfileSyncs(c)
  /\ profilePage.open /\ profilePage.removing # Nil => \E c \in profileCalls : ProfileRemoves(c)
  /\ profilePage.open /\ profilePage.connecting => \E c \in profileCalls : c.shown /\ c.op = "connect"
ProfileChains ==
  /\ \A c \in profileCalls : c.shown => profilePage.open
  /\ \A c \in profileCalls : ProfileLoads(c) => profilePage.loading
  /\ \A c \in profileCalls : ProfileSyncs(c) => profilePage.syncing # Nil /\ ~profilePage.loading
  /\ \A c \in profileCalls : ProfileRemoves(c) => profilePage.removing # Nil /\ ~profilePage.loading
  /\ \A c, d \in profileCalls : (ProfileLoads(c) /\ ProfileLoads(d)) \/ (ProfileSyncs(c) /\ ProfileSyncs(d)) \/ (ProfileRemoves(c) /\ ProfileRemoves(d)) => c = d
  /\ \A c, d \in profileCalls : ProfileSyncs(c) /\ ProfileRemoves(d) => profileStale

\* The list is the one there is, or something under way will see to it.
ProfileFresh == \A c \in profileCalls : ProfileLoader(c) /\ c.at = "done" => c.doc = Profile!Listing
ProfileLateIsStale == \A c \in profileCalls : c.shown /\ ProfileLoader(c) /\ c.at = "late" => profileStale
ProfileCovers(c) ==
  /\ c.shown
  /\ \/ ProfileLoader(c) /\ c.at \in {"sent", "done", "failed"}
     \/ c.op = "remove" /\ c.at = "done"
     \/ c.op = "sync" /\ c.at \in {"working", "done"}
ProfileListFollows == profilePage.open /\ ~profileStale => profilePage.list = Profile!Listing \/ \E c \in profileCalls : ProfileCovers(c)

ProfileQuestsFollow ==
  profilePage.open /\ ~profileMisplaced =>
    /\ \A c \in profileCalls : c.shown /\ c.op = "board" => c.who = profilePage.active
    /\ profilePage.quests = profilePage.active \/ \E c \in profileCalls : c.shown /\ c.op = "board"

ProfileInv == ProfileTypes /\ ProfileConsentsOnce /\ ProfileBusy /\ ProfileChains /\ ProfileFresh /\ ProfileLateIsStale /\ ProfileListFollows /\ ProfileQuestsFollow

-----------------------------------------------------------------------------
(* The first page *)

LEMMA NewCall ==
  ASSUME NEW op \in {"base", "list", "board", "sync", "remove", "connect"},
         NEW who \in Calendars \cup OfBoards \cup {"all", "sync", "remove", Nil}
  PROVE  /\ Profile!Call(op, who) \in ProfileCallTypes /\ Profile!Call(op, who).op = op /\ Profile!Call(op, who).who = who
         /\ Profile!Call(op, who).at = "sent" /\ Profile!Call(op, who).shown
BY DEF Profile!Call, ProfileCallTypes

LEMMA ListingTyped ==
  ASSUME ProfileTypes
  PROVE  Profile!Listing \in [Calendars -> Nat] /\ Profile!Held \subseteq Calendars /\ \A a \in Profile!Held : profileHeld[a] \in ProfileHeldTypes
<1>1. \A a \in Profile!Held : a \in Calendars /\ profileHeld[a] \in ProfileHeldTypes
  BY DEF Profile!Held, ProfileTypes
<1>2. \A a \in Profile!Held : profileHeld[a].synced + 1 \in Nat
  BY <1>1 DEF ProfileHeldTypes
<1> QED BY <1>1, <1>2 DEF Profile!Listing

\* A page that opens has two calls of its own, and none of what the others had.
LEMMA OpensKeeps ==
  ASSUME ProfileAssumption, NEW b \in OfBoards, NEW rest, NEW next \in {Nil, "sync"}, Profile!Opens(b, rest, next),
         rest \subseteq ProfileCallTypes, \A c \in rest : ProfileCallOK(c) /\ ~c.shown,
         \A c \in rest : ProfileLoader(c) /\ c.at = "done" => c.doc = Profile!Listing'
  PROVE  /\ profilePage' \in ProfilePageTypes /\ profileCalls' \subseteq ProfileCallTypes /\ (\A c \in profileCalls' : ProfileCallOK(c))
         /\ profileStale' \in BOOLEAN /\ profileMisplaced' \in BOOLEAN
         /\ ProfileBusy' /\ ProfileChains' /\ ProfileFresh' /\ ProfileLateIsStale' /\ ProfileListFollows' /\ ProfileQuestsFollow'
<1>1. PICK base : base = Profile!Call("base", next)
  OBVIOUS
<1>2. PICK board : board = Profile!Call("board", b)
  OBVIOUS
<1>3. /\ base \in ProfileCallTypes /\ base.op = "base" /\ base.at = "sent" /\ base.shown /\ ProfileCallOK(base)
  BY <1>1, NewCall DEF ProfileCallOK, ProfileLoader
<1>4. /\ board \in ProfileCallTypes /\ board.op = "board" /\ board.who = b /\ board.at = "sent" /\ board.shown /\ ProfileCallOK(board)
  BY <1>2, NewCall DEF ProfileCallOK, ProfileLoader
<1>5. /\ profileCalls' = rest \cup {base, board} /\ profileStale' = (Profile!Writing(rest) # {}) /\ profileMisplaced' = FALSE
  BY <1>1, <1>2 DEF Profile!Opens
<1>6. /\ profilePage' \in ProfilePageTypes /\ profilePage'.open /\ profilePage'.loading /\ profilePage'.active = b /\ profilePage'.syncing = Nil
      /\ profilePage'.removing = Nil /\ ~profilePage'.connecting /\ profilePage'.quests = Nil
  <2>1. profilePage' = [open |-> TRUE, loading |-> TRUE, list |-> Profile!Nothing, active |-> b, quests |-> Nil,
                        syncing |-> Nil, removing |-> Nil, connecting |-> FALSE]
    BY DEF Profile!Opens, Profile!Page
  <2>2. Profile!Nothing \in [Calendars -> Nat]
    BY DEF Profile!Nothing
  <2> QED BY <2>1, <2>2 DEF ProfilePageTypes
<1>7. ProfileBusy'
  BY <1>3, <1>5, <1>6 DEF ProfileBusy, ProfileLoads
<1>8. ProfileChains'
  BY <1>3, <1>4, <1>5, <1>6 DEF ProfileChains, ProfileLoads, ProfileSyncs, ProfileRemoves
<1>9. ProfileFresh' /\ ProfileLateIsStale'
  <2>1. \A c \in profileCalls' : ProfileLoader(c) /\ c.at = "done" => c.doc = Profile!Listing'
    BY <1>3, <1>4, <1>5
  <2>2. \A c \in profileCalls' : c.shown /\ ProfileLoader(c) => c.at # "late"
    BY <1>3, <1>4, <1>5
  <2> QED BY <2>1, <2>2 DEF ProfileFresh, ProfileLateIsStale, ProfileLoader
<1>10. ProfileListFollows'
  BY <1>3, <1>5 DEF ProfileListFollows, ProfileCovers, ProfileLoader
<1>11. ProfileQuestsFollow'
  BY <1>3, <1>4, <1>5, <1>6 DEF ProfileQuestsFollow
<1> QED BY <1>3, <1>4, <1>5, <1>6, <1>7, <1>8, <1>9, <1>10, <1>11

LEMMA InitProfile ==
  ASSUME ProfileAssumption, Profile!Init
  PROVE  ProfileInv
<1>1. PICK base : base = Profile!Call("base", Nil)
  OBVIOUS
<1>2. PICK board : board = Profile!Call("board", DefaultBoard)
  OBVIOUS
<1>3. base \in ProfileCallTypes /\ base.op = "base" /\ base.at = "sent" /\ base.shown /\ ProfileCallOK(base)
  BY <1>1, NewCall DEF ProfileCallOK, ProfileLoader
<1>4. /\ board \in ProfileCallTypes /\ board.op = "board" /\ board.who = DefaultBoard /\ board.at = "sent" /\ board.shown /\ ProfileCallOK(board)
  BY <1>2, NewCall DEF ProfileCallOK, ProfileLoader, ProfileAssumption
<1>5. profileCalls = {base, board}
  BY <1>1, <1>2 DEF Profile!Init
<1>6. /\ profilePage \in ProfilePageTypes /\ profilePage.open /\ profilePage.loading /\ profilePage.active = DefaultBoard /\ profilePage.syncing = Nil
      /\ profilePage.removing = Nil /\ ~profilePage.connecting
  <2>1. profilePage = [open |-> TRUE, loading |-> TRUE, list |-> Profile!Nothing, active |-> DefaultBoard, quests |-> Nil,
                       syncing |-> Nil, removing |-> Nil, connecting |-> FALSE]
    BY DEF Profile!Init, Profile!Page
  <2>2. Profile!Nothing \in [Calendars -> Nat]
    BY DEF Profile!Nothing
  <2> QED BY <2>1, <2>2 DEF ProfilePageTypes, ProfileAssumption
<1>7. ProfileTypes
  <2>1. profileHeld \in [Calendars -> ProfileHeldTypes \cup {Nil}]
    <3>1. profileHeld \in [Calendars -> {Nil} \cup [deleted : {FALSE}, synced : {0}, expired : BOOLEAN, refresh : BOOLEAN]]
      BY DEF Profile!Init
    <3>2. [deleted : {FALSE}, synced : {0}, expired : BOOLEAN, refresh : BOOLEAN] \subseteq ProfileHeldTypes
      <4> SUFFICES ASSUME NEW r \in [deleted : {FALSE}, synced : {0}, expired : BOOLEAN, refresh : BOOLEAN]
                   PROVE  r \in [deleted : BOOLEAN, synced : Nat, expired : BOOLEAN, refresh : BOOLEAN]
        BY DEF ProfileHeldTypes
      <4>1. r = [deleted |-> r.deleted, synced |-> r.synced, expired |-> r.expired, refresh |-> r.refresh]
        OBVIOUS
      <4>2. r.deleted \in BOOLEAN /\ r.synced \in Nat /\ r.expired \in BOOLEAN /\ r.refresh \in BOOLEAN
        <5>1. r.synced = 0
          OBVIOUS
        <5>2. r.deleted \in {FALSE}
          OBVIOUS
        <5>3. r.expired \in BOOLEAN /\ r.refresh \in BOOLEAN
          OBVIOUS
        <5>4. \A x \in {FALSE} : x \in BOOLEAN
          BY Zenon
        <5>5. r.deleted \in BOOLEAN
          BY <5>2, <5>4, Zenon
        <5> QED BY <5>1, <5>3, <5>5
      <4> QED BY <4>1, <4>2
    <3> QED BY <3>1, <3>2
  <2> QED BY <2>1, <1>3, <1>4, <1>5, <1>6 DEF Profile!Init, ProfileTypes
<1>8. ProfileConsentsOnce
  BY DEF Profile!Init, ProfileConsentsOnce
<1>9. ProfileBusy /\ ProfileChains
  BY <1>3, <1>4, <1>5, <1>6 DEF ProfileBusy, ProfileChains, ProfileLoads, ProfileSyncs, ProfileRemoves
<1>10. ProfileFresh /\ ProfileLateIsStale /\ ProfileListFollows
  BY <1>3, <1>4, <1>5 DEF ProfileFresh, ProfileLateIsStale, ProfileListFollows, ProfileCovers, ProfileLoader
<1>11. ProfileQuestsFollow
  BY <1>3, <1>4, <1>5, <1>6 DEF ProfileQuestsFollow
<1> QED BY <1>7, <1>8, <1>9, <1>10, <1>11 DEF ProfileInv

-----------------------------------------------------------------------------
(* Steps that leave the page alone *)

\* The calls stay what they are calls for; calls that are shown nowhere may join them.
ProfileSameRole(v, d) ==
  /\ v.shown = d.shown /\ (ProfileLoads(v) <=> ProfileLoads(d)) /\ (ProfileSyncs(v) <=> ProfileSyncs(d)) /\ (ProfileRemoves(v) <=> ProfileRemoves(d))
  /\ (v.op = "connect" <=> d.op = "connect") /\ (v.op = "board" <=> d.op = "board") /\ (d.op = "board" => v.who = d.who)
LEMMA ProfileSameCall ==
  ASSUME NEW v, NEW d, v.op = d.op, v.who = d.who, v.shown = d.shown
  PROVE  ProfileSameRole(v, d)
BY DEF ProfileSameRole, ProfileLoads, ProfileSyncs, ProfileRemoves

LEMMA CallsStay ==
  ASSUME ProfileInv, NEW img, NEW extra, profileCalls' = {img[d] : d \in profileCalls} \cup extra, \A e \in extra : ~e.shown,
         \A d \in profileCalls : ProfileSameRole(img[d], d),
         profilePage' = profilePage, profileStale => profileStale', profileMisplaced' = profileMisplaced
  PROVE  ProfileBusy' /\ ProfileChains' /\ ProfileQuestsFollow'
<1>1. ASSUME NEW x \in profileCalls', x.shown
      PROVE  \E d \in profileCalls : x = img[d]
  BY <1>1
<1>2. ASSUME NEW d \in profileCalls
      PROVE  /\ img[d] \in profileCalls' /\ img[d].shown = d.shown /\ (ProfileLoads(img[d]) <=> ProfileLoads(d)) /\ (ProfileSyncs(img[d]) <=> ProfileSyncs(d))
             /\ (ProfileRemoves(img[d]) <=> ProfileRemoves(d)) /\ (img[d].op = "connect" <=> d.op = "connect")
             /\ (img[d].op = "board" <=> d.op = "board") /\ (d.op = "board" => img[d].who = d.who)
  BY DEF ProfileSameRole
<1>3. ProfileBusy'
  BY <1>2 DEF ProfileInv, ProfileBusy
<1>4. ProfileChains'
  <2>1. \A x \in profileCalls' : x.shown => profilePage'.open
    BY <1>1, <1>2 DEF ProfileInv, ProfileChains
  <2>2. \A x \in profileCalls' : (ProfileLoads(x) => profilePage'.loading) /\ (ProfileSyncs(x) => profilePage'.syncing # Nil /\ ~profilePage'.loading)
                                 /\ (ProfileRemoves(x) => profilePage'.removing # Nil /\ ~profilePage'.loading)
    <3> SUFFICES ASSUME NEW x \in profileCalls', x.shown
                 PROVE  (ProfileLoads(x) => profilePage'.loading) /\ (ProfileSyncs(x) => profilePage'.syncing # Nil /\ ~profilePage'.loading)
                        /\ (ProfileRemoves(x) => profilePage'.removing # Nil /\ ~profilePage'.loading)
      BY DEF ProfileLoads, ProfileSyncs, ProfileRemoves
    <3>1. PICK d \in profileCalls : x = img[d]
      BY <1>1
    <3> QED BY <3>1, <1>2 DEF ProfileInv, ProfileChains
  <2>3. ASSUME NEW x \in profileCalls', NEW y \in profileCalls', x.shown, y.shown
        PROVE  /\ (ProfileLoads(x) /\ ProfileLoads(y)) \/ (ProfileSyncs(x) /\ ProfileSyncs(y)) \/ (ProfileRemoves(x) /\ ProfileRemoves(y)) => x = y
               /\ ProfileSyncs(x) /\ ProfileRemoves(y) => profileStale'
    <3>1. PICK d \in profileCalls : x = img[d]
      BY <1>1, <2>3
    <3>2. PICK e \in profileCalls : y = img[e]
      BY <1>1, <2>3
    <3> QED BY <3>1, <3>2, <1>2 DEF ProfileInv, ProfileChains
  <2>4. \A x \in profileCalls' : ProfileLoads(x) \/ ProfileSyncs(x) \/ ProfileRemoves(x) => x.shown
    BY DEF ProfileLoads, ProfileSyncs, ProfileRemoves
  <2> QED BY <2>1, <2>2, <2>3, <2>4 DEF ProfileChains, ProfileLoads, ProfileSyncs, ProfileRemoves
<1>5. ProfileQuestsFollow'
  <2> SUFFICES ASSUME profilePage.open, ~profileMisplaced
               PROVE  /\ \A x \in profileCalls' : x.shown /\ x.op = "board" => x.who = profilePage.active
                      /\ profilePage.quests = profilePage.active \/ \E x \in profileCalls' : x.shown /\ x.op = "board"
    BY DEF ProfileQuestsFollow
  <2>1. ASSUME NEW x \in profileCalls', x.shown, x.op = "board"
        PROVE  x.who = profilePage.active
    <3>1. PICK d \in profileCalls : x = img[d]
      BY <1>1, <2>1
    <3> QED BY <3>1, <2>1, <1>2 DEF ProfileInv, ProfileQuestsFollow
  <2>2. profilePage.quests = profilePage.active \/ \E x \in profileCalls' : x.shown /\ x.op = "board"
    BY <1>2 DEF ProfileInv, ProfileQuestsFollow
  <2> QED BY <2>1, <2>2
<1> QED BY <1>3, <1>4, <1>5

\* One call goes on, and the connections stay as they are shown.
LEMMA CallGoesOn ==
  ASSUME ProfileInv, NEW c \in profileCalls, NEW v \in ProfileCallTypes, ProfileCallOK(v), profileCalls' = (profileCalls \ {c}) \cup {v},
         v.op = c.op, v.who = c.who, v.shown = c.shown, Profile!Listing' = Profile!Listing,
         ProfileCovers(c) => ProfileCovers(v), ProfileLoader(v) /\ v.at = "done" => v.doc = Profile!Listing, ProfileLoader(v) => v.at # "late",
         UNCHANGED <<profilePage, profileStale, profileMisplaced>>
  PROVE  /\ profileCalls' \subseteq ProfileCallTypes /\ (\A x \in profileCalls' : ProfileCallOK(x))
         /\ ProfileBusy' /\ ProfileChains' /\ ProfileFresh' /\ ProfileLateIsStale' /\ ProfileListFollows' /\ ProfileQuestsFollow'
<1>1. profileCalls' \subseteq ProfileCallTypes /\ (\A x \in profileCalls' : ProfileCallOK(x))
  BY DEF ProfileInv, ProfileTypes
<1>2. ProfileBusy' /\ ProfileChains' /\ ProfileQuestsFollow'
  <2>1. PICK img : img = [d \in profileCalls |-> IF d = c THEN v ELSE d]
    OBVIOUS
  <2>2. PICK extra : extra = {}
    OBVIOUS
  <2>3. profileCalls' = {img[d] : d \in profileCalls} \cup extra /\ \A e \in extra : ~e.shown
    BY <2>1, <2>2
  <2>4. \A d \in profileCalls : ProfileSameRole(img[d], d)
    <3>1. \A d \in profileCalls : img[d].op = d.op /\ img[d].who = d.who /\ img[d].shown = d.shown
      BY <2>1
    <3> QED BY <3>1, ProfileSameCall
  <2>5. profilePage' = profilePage /\ profileMisplaced' = profileMisplaced /\ (profileStale => profileStale')
    OBVIOUS
  <2> QED BY <2>3, <2>4, <2>5, CallsStay
<1>3. ProfileFresh' /\ ProfileLateIsStale'
  BY DEF ProfileInv, ProfileFresh, ProfileLateIsStale, ProfileLoader
<1>4. ProfileListFollows'
  <2>1. ASSUME NEW d \in profileCalls, ProfileCovers(d) PROVE \E x \in profileCalls' : ProfileCovers(x)
    BY <2>1
  <2> QED BY <2>1 DEF ProfileInv, ProfileListFollows
<1> QED BY <1>1, <1>2, <1>3, <1>4

LEMMA ServeReadKeeps ==
  ASSUME ProfileAssumption, ProfileInv, NEW c \in profileCalls, Profile!ServeRead(c)
  PROVE  ProfileInv'
<1>1. c \in ProfileCallTypes /\ ProfileCallOK(c) /\ c.at = "sent" /\ c.op \in {"base", "list", "board"}
  BY DEF ProfileInv, ProfileTypes, Profile!ServeRead
<1>2. PICK doc : doc = IF c.op = "board" THEN Nil ELSE Profile!Listing
  OBVIOUS
<1>3. PICK v : v = [c EXCEPT !.at = "done", !.doc = doc]
  OBVIOUS
<1>4. doc \in [Calendars -> Nat] \cup {Nil} /\ (c.op # "board" => doc \in [Calendars -> Nat])
  BY <1>1, <1>2, ListingTyped DEF ProfileInv
<1>5. /\ v \in ProfileCallTypes /\ v.op = c.op /\ v.who = c.who /\ v.shown = c.shown /\ v.at = "done" /\ v.doc = doc
  BY <1>1, <1>3, <1>4 DEF ProfileCallTypes
<1>6. ProfileCallOK(v)
  BY <1>1, <1>4, <1>5 DEF ProfileCallOK, ProfileLoader
<1>7. ProfileCovers(c) => ProfileCovers(v)
  BY <1>1, <1>5 DEF ProfileCovers, ProfileLoader
<1>8. ProfileLoader(v) /\ v.at = "done" => v.doc = Profile!Listing
  BY <1>2, <1>5 DEF ProfileLoader
<1>9. profileCalls' = (profileCalls \ {c}) \cup {v} /\ UNCHANGED <<profileHeld, profileConsents, profileConnected, profileAway, profilePage, profileStale, profileMisplaced>>
  BY <1>2, <1>3 DEF Profile!ServeRead, Profile!Answered, Profile!service, Profile!excuses
<1>10. Profile!Listing' = Profile!Listing
  BY <1>9 DEF Profile!Listing, Profile!Held
<1>11. /\ profileCalls' \subseteq ProfileCallTypes /\ (\A x \in profileCalls' : ProfileCallOK(x))
       /\ ProfileBusy' /\ ProfileChains' /\ ProfileFresh' /\ ProfileLateIsStale' /\ ProfileListFollows' /\ ProfileQuestsFollow'
  BY <1>5, <1>6, <1>7, <1>8, <1>9, <1>10, CallGoesOn
<1> QED BY <1>9, <1>11 DEF ProfileInv, ProfileTypes, ProfileConsentsOnce, ProfileCallOK, ProfileLoader

\* So does a synchronisation, or a connection that is begun.
LEMMA WriterGoesOn ==
  ASSUME ProfileInv, NEW c \in profileCalls, ~ProfileLoader(c), NEW v \in ProfileCallTypes, ProfileCallOK(v), profileCalls' = (profileCalls \ {c}) \cup {v},
         v.op = c.op, v.who = c.who, v.shown = c.shown, ProfileCovers(c) => ProfileCovers(v),
         profileHeld' \in [Calendars -> ProfileHeldTypes \cup {Nil}], Profile!Listing' = Profile!Listing,
         profileConsents' \in [Consents -> {"none", "begun", "used"}], ProfileConsentsOnce',
         UNCHANGED <<profileConnected, profileAway, profilePage, profileStale, profileMisplaced>>
  PROVE  ProfileInv'
<1>1. ~ProfileLoader(v)
  BY DEF ProfileLoader
<1>2. /\ profileCalls' \subseteq ProfileCallTypes /\ (\A x \in profileCalls' : ProfileCallOK(x))
      /\ ProfileBusy' /\ ProfileChains' /\ ProfileFresh' /\ ProfileLateIsStale' /\ ProfileListFollows' /\ ProfileQuestsFollow'
  BY <1>1, CallGoesOn
<1> QED BY <1>2 DEF ProfileInv, ProfileTypes, ProfileCallOK, ProfileLoader

LEMMA SyncListsKeeps ==
  ASSUME ProfileAssumption, ProfileInv, NEW c \in profileCalls, Profile!SyncLists(c)
  PROVE  ProfileInv'
<1>1. c \in ProfileCallTypes /\ ProfileCallOK(c) /\ c.at = "sent" /\ c.op = "sync"
  BY DEF ProfileInv, ProfileTypes, Profile!SyncLists
<1>2. PICK left : left = IF c.who = "all" THEN Profile!Held ELSE {c.who}
  OBVIOUS
<1>3. left \subseteq Calendars
  BY <1>1, <1>2, ListingTyped DEF ProfileInv, ProfileCallOK
<1>4. PICK v : v = [c EXCEPT !.at = "listed", !.left = left]
  OBVIOUS
<1>5. v \in ProfileCallTypes /\ v.op = c.op /\ v.who = c.who /\ v.shown = c.shown /\ v.at = "listed" /\ v.left = left
  BY <1>1, <1>3, <1>4 DEF ProfileCallTypes
<1>6. ProfileCallOK(v) /\ ~ProfileLoader(c) /\ ~ProfileCovers(c)
  BY <1>1, <1>3, <1>5 DEF ProfileCallOK, ProfileLoader, ProfileCovers
<1>7. /\ profileCalls' = (profileCalls \ {c}) \cup {v}
      /\ UNCHANGED <<profileHeld, profileConsents, profileConnected, profileAway, profilePage, profileStale, profileMisplaced>>
  BY <1>2, <1>4 DEF Profile!SyncLists, Profile!service, Profile!excuses
<1>8. Profile!Listing' = Profile!Listing /\ ProfileConsentsOnce'
  BY <1>7 DEF Profile!Listing, Profile!Held, ProfileInv, ProfileConsentsOnce
<1> QED BY <1>5, <1>6, <1>7, <1>8, WriterGoesOn DEF ProfileInv, ProfileTypes

LEMMA SyncReadsKeeps ==
  ASSUME ProfileAssumption, ProfileInv, NEW c \in profileCalls, Profile!SyncReads(c)
  PROVE  ProfileInv'
<1>1. c \in ProfileCallTypes /\ ProfileCallOK(c) /\ c.at = "listed" /\ c.op = "sync" /\ c.left \subseteq Calendars
  BY DEF ProfileInv, ProfileTypes, Profile!SyncReads, ProfileCallOK
<1>2. PICK v : v = IF c.left # {} /\ c.left \subseteq Profile!Held THEN [c EXCEPT !.at = "working", !.left = {Profile!Target(a) : a \in c.left}]
                   ELSE [c EXCEPT !.at = "failed", !.left = {}]
  OBVIOUS
<1>3. c.left \subseteq Profile!Held => {Profile!Target(a) : a \in c.left} \subseteq ProfileTargetTypes
  <2> SUFFICES ASSUME NEW a \in Profile!Held PROVE Profile!Target(a) \in ProfileTargetTypes
    OBVIOUS
  <2>1. a \in Calendars /\ profileHeld[a] \in ProfileHeldTypes
    BY ListingTyped DEF ProfileInv
  <2> QED BY <2>1 DEF Profile!Target, ProfileTargetTypes, ProfileHeldTypes
<1>4. /\ v \in ProfileCallTypes /\ v.op = c.op /\ v.who = c.who /\ v.shown = c.shown /\ v.at \in {"working", "failed"}
      /\ v.at = "working" => v.left \subseteq ProfileTargetTypes
  BY <1>1, <1>2, <1>3 DEF ProfileCallTypes
<1>5. ProfileCallOK(v) /\ ~ProfileLoader(c) /\ ~ProfileCovers(c)
  BY <1>1, <1>4 DEF ProfileCallOK, ProfileLoader, ProfileCovers
<1>6. /\ profileCalls' = (profileCalls \ {c}) \cup {v}
      /\ UNCHANGED <<profileHeld, profileConsents, profileConnected, profileAway, profilePage, profileStale, profileMisplaced>>
  BY <1>2 DEF Profile!SyncReads, Profile!service, Profile!excuses
<1>7. Profile!Listing' = Profile!Listing /\ ProfileConsentsOnce'
  BY <1>6 DEF Profile!Listing, Profile!Held, ProfileInv, ProfileConsentsOnce
<1> QED BY <1>4, <1>5, <1>6, <1>7, WriterGoesOn DEF ProfileInv, ProfileTypes

LEMMA SyncSkipsKeeps ==
  ASSUME ProfileAssumption, ProfileInv, NEW c \in profileCalls, NEW t, Profile!SyncSkips(c, t)
  PROVE  ProfileInv'
<1>1. c \in ProfileCallTypes /\ ProfileCallOK(c) /\ c.at = "working" /\ c.op = "sync" /\ c.left \subseteq ProfileTargetTypes
  BY DEF ProfileInv, ProfileTypes, Profile!SyncSkips, ProfileCallOK
<1>2. PICK v : v = [c EXCEPT !.left = c.left \ {t}]
  OBVIOUS
<1>3. v \in ProfileCallTypes /\ v.op = c.op /\ v.who = c.who /\ v.shown = c.shown /\ v.at = "working" /\ v.left \subseteq ProfileTargetTypes
  BY <1>1, <1>2 DEF ProfileCallTypes
<1>4. ProfileCallOK(v) /\ ~ProfileLoader(c) /\ (ProfileCovers(c) => ProfileCovers(v))
  BY <1>1, <1>3 DEF ProfileCallOK, ProfileLoader, ProfileCovers
<1>5. /\ profileCalls' = (profileCalls \ {c}) \cup {v}
      /\ UNCHANGED <<profileHeld, profileConsents, profileConnected, profileAway, profilePage, profileStale, profileMisplaced>>
  BY <1>2 DEF Profile!SyncSkips, Profile!service, Profile!excuses
<1>6. Profile!Listing' = Profile!Listing /\ ProfileConsentsOnce'
  BY <1>5 DEF Profile!Listing, Profile!Held, ProfileInv, ProfileConsentsOnce
<1> QED BY <1>3, <1>4, <1>5, <1>6, WriterGoesOn DEF ProfileInv, ProfileTypes

LEMMA SyncEndsKeeps ==
  ASSUME ProfileAssumption, ProfileInv, NEW c \in profileCalls, Profile!SyncEnds(c)
  PROVE  ProfileInv'
<1>1. c \in ProfileCallTypes /\ ProfileCallOK(c) /\ c.at = "working" /\ c.op = "sync"
  BY DEF ProfileInv, ProfileTypes, Profile!SyncEnds, ProfileCallOK
<1>2. PICK v : v = [c EXCEPT !.at = "done", !.doc = Nil]
  OBVIOUS
<1>3. v \in ProfileCallTypes /\ v.op = c.op /\ v.who = c.who /\ v.shown = c.shown /\ v.at = "done"
  BY <1>1, <1>2 DEF ProfileCallTypes
<1>4. ProfileCallOK(v) /\ ~ProfileLoader(c) /\ (ProfileCovers(c) => ProfileCovers(v))
  BY <1>1, <1>3 DEF ProfileCallOK, ProfileLoader, ProfileCovers
<1>5. /\ profileCalls' = (profileCalls \ {c}) \cup {v}
      /\ UNCHANGED <<profileHeld, profileConsents, profileConnected, profileAway, profilePage, profileStale, profileMisplaced>>
  BY <1>2 DEF Profile!SyncEnds, Profile!Answered, Profile!service, Profile!excuses
<1>6. Profile!Listing' = Profile!Listing /\ ProfileConsentsOnce'
  BY <1>5 DEF Profile!Listing, Profile!Held, ProfileInv, ProfileConsentsOnce
<1> QED BY <1>3, <1>4, <1>5, <1>6, WriterGoesOn DEF ProfileInv, ProfileTypes

LEMMA BeginConnectKeeps ==
  ASSUME ProfileAssumption, ProfileInv, NEW c \in profileCalls, Profile!BeginConnect(c)
  PROVE  ProfileInv'
<1>1. c \in ProfileCallTypes /\ ProfileCallOK(c) /\ c.at = "sent" /\ c.op = "connect"
  BY DEF ProfileInv, ProfileTypes, Profile!BeginConnect
<1>2. PICK k \in Consents : profileConsents[k] = "none" /\ profileConsents' = [profileConsents EXCEPT ![k] = "begun"] /\ profileCalls' = Profile!Answered(c, "done", k)
  BY DEF Profile!BeginConnect
<1>3. PICK v : v = [c EXCEPT !.at = "done", !.doc = k]
  OBVIOUS
<1>4. v \in ProfileCallTypes /\ v.op = c.op /\ v.who = c.who /\ v.shown = c.shown /\ v.at = "done" /\ v.doc = k
  BY <1>1, <1>3 DEF ProfileCallTypes
<1>5. ProfileCallOK(v) /\ ~ProfileLoader(c) /\ ~ProfileCovers(c)
  BY <1>1, <1>4 DEF ProfileCallOK, ProfileLoader, ProfileCovers
<1>6. /\ profileCalls' = (profileCalls \ {c}) \cup {v}
      /\ UNCHANGED <<profileHeld, profileConnected, profileAway, profilePage, profileStale, profileMisplaced>>
  BY <1>2, <1>3 DEF Profile!BeginConnect, Profile!Answered, Profile!excuses
<1>7. Profile!Listing' = Profile!Listing /\ ProfileConsentsOnce' /\ profileConsents' \in [Consents -> {"none", "begun", "used"}]
  BY <1>2, <1>6 DEF Profile!Listing, Profile!Held, ProfileInv, ProfileTypes, ProfileConsentsOnce
<1> QED BY <1>4, <1>5, <1>6, <1>7, WriterGoesOn DEF ProfileInv, ProfileTypes

\* A token that is renewed or that expires shows in no list.
LEMMA ExpiryUnlisted ==
  ASSUME ProfileAssumption, ProfileInv, NEW a \in Profile!Held, NEW e \in BOOLEAN, profileHeld' = [profileHeld EXCEPT ![a].expired = e]
  PROVE  profileHeld' \in [Calendars -> ProfileHeldTypes \cup {Nil}] /\ Profile!Listing' = Profile!Listing
<1>1. a \in Calendars /\ profileHeld[a] \in ProfileHeldTypes /\ profileHeld[a] # Nil /\ ~profileHeld[a].deleted
  BY ListingTyped DEF ProfileInv, Profile!Held
<1>2. PICK r : r = [profileHeld[a] EXCEPT !.expired = e]
  OBVIOUS
<1>3. r \in ProfileHeldTypes /\ r.deleted = profileHeld[a].deleted /\ r.synced = profileHeld[a].synced
  BY <1>1, <1>2 DEF ProfileHeldTypes
<1>4. profileHeld' \in [Calendars -> ProfileHeldTypes \cup {Nil}] /\ profileHeld'[a] = r /\ \A b \in Calendars : b # a => profileHeld'[b] = profileHeld[b]
  BY <1>1, <1>2, <1>3 DEF ProfileInv, ProfileTypes
<1>5. r # Nil
  BY <1>3 DEF ProfileAssumption
<1>6. Profile!Held' = Profile!Held
  BY <1>1, <1>3, <1>4, <1>5 DEF Profile!Held
<1>7. \A b \in Calendars : (IF b \in Profile!Held' THEN profileHeld'[b].synced + 1 ELSE 0) = IF b \in Profile!Held THEN profileHeld[b].synced + 1 ELSE 0
  BY <1>3, <1>4, <1>6
<1>8. Profile!Listing' = Profile!Listing
  BY <1>7 DEF Profile!Listing
<1> QED BY <1>4, <1>8

LEMMA TokenReadyKeeps ==
  ASSUME ProfileAssumption, ProfileInv, NEW c \in profileCalls, NEW t, Profile!TokenReady(c, t)
  PROVE  ProfileInv'
<1>1. c \in ProfileCallTypes /\ ProfileCallOK(c) /\ c.at = "working" /\ c.op = "sync" /\ c.left \subseteq ProfileTargetTypes /\ t \in ProfileTargetTypes
  BY DEF ProfileInv, ProfileTypes, Profile!TokenReady, ProfileCallOK
<1>2. PICK u : u = [t EXCEPT !.ready = TRUE]
  OBVIOUS
<1>3. u \in ProfileTargetTypes
  BY <1>1, <1>2 DEF ProfileTargetTypes
<1>4. PICK v : v = [c EXCEPT !.left = (c.left \ {t}) \cup {u}]
  OBVIOUS
<1>5. v \in ProfileCallTypes /\ v.op = c.op /\ v.who = c.who /\ v.shown = c.shown /\ v.at = "working" /\ v.left \subseteq ProfileTargetTypes
  BY <1>1, <1>3, <1>4 DEF ProfileCallTypes
<1>6. ProfileCallOK(v) /\ ~ProfileLoader(c) /\ (ProfileCovers(c) => ProfileCovers(v))
  BY <1>1, <1>5 DEF ProfileCallOK, ProfileLoader, ProfileCovers
<1>7. /\ profileCalls' = (profileCalls \ {c}) \cup {v}
      /\ UNCHANGED <<profileConsents, profileConnected, profileAway, profilePage, profileStale, profileMisplaced>>
  BY <1>2, <1>4 DEF Profile!TokenReady, Profile!excuses
<1>8. profileHeld' \in [Calendars -> ProfileHeldTypes \cup {Nil}] /\ Profile!Listing' = Profile!Listing
  <2>1. CASE t.expired
    <3>1. t.account \in Profile!Held /\ profileHeld' = [profileHeld EXCEPT ![t.account].expired = FALSE]
      BY <2>1 DEF Profile!TokenReady
    <3> QED BY <3>1, ExpiryUnlisted
  <2>2. CASE ~t.expired
    <3>1. profileHeld' = profileHeld
      BY <2>2 DEF Profile!TokenReady
    <3> QED BY <3>1 DEF Profile!Listing, Profile!Held, ProfileInv, ProfileTypes
  <2> QED BY <2>1, <2>2
<1>9. ProfileConsentsOnce' /\ profileConsents' \in [Consents -> {"none", "begun", "used"}]
  BY <1>7 DEF ProfileInv, ProfileTypes, ProfileConsentsOnce
<1> QED BY <1>5, <1>6, <1>7, <1>8, <1>9, WriterGoesOn

LEMMA TokenExpiresKeeps ==
  ASSUME ProfileAssumption, ProfileInv, NEW a \in Calendars, Profile!TokenExpires(a)
  PROVE  ProfileInv'
<1>1. profileHeld' \in [Calendars -> ProfileHeldTypes \cup {Nil}] /\ Profile!Listing' = Profile!Listing
  BY ExpiryUnlisted DEF Profile!TokenExpires
<1>2. UNCHANGED <<profileConsents, profileConnected, profileAway, profilePage, profileCalls, profileStale, profileMisplaced>>
  BY DEF Profile!TokenExpires, Profile!tab, Profile!excuses
<1>3. ProfileBusy' /\ ProfileChains' /\ ProfileListFollows' /\ ProfileQuestsFollow' /\ ProfileLateIsStale'
  BY <1>1, <1>2 DEF ProfileInv, ProfileBusy, ProfileChains, ProfileListFollows, ProfileQuestsFollow, ProfileLateIsStale, ProfileCovers, ProfileLoader, ProfileLoads, ProfileSyncs, ProfileRemoves
<1>4. ProfileFresh' /\ ProfileConsentsOnce'
  BY <1>1, <1>2 DEF ProfileInv, ProfileFresh, ProfileConsentsOnce, ProfileLoader
<1> QED BY <1>1, <1>2, <1>3, <1>4 DEF ProfileInv, ProfileTypes, ProfileCallOK, ProfileLoader

-----------------------------------------------------------------------------
(* Steps that change the connections *)

\* What was read before is late, and the load that follows the change will be right.
LEMMA ConnectionsChange ==
  ASSUME ProfileInv, NEW c \in profileCalls, c.op \in {"sync", "remove"}, NEW v \in ProfileCallTypes, ProfileCallOK(v),
         v.op = c.op, v.who = c.who, v.shown = c.shown, c.shown => ProfileCovers(v),
         profileCalls' = Profile!Overtaken((profileCalls \ {c}) \cup {v}), profileStale' = (profileStale \/ ~c.shown),
         profileHeld' \in [Calendars -> ProfileHeldTypes \cup {Nil}],
         UNCHANGED <<profileConsents, profileConnected, profileAway, profilePage, profileMisplaced>>
  PROVE  ProfileInv'
<1>1. PICK img : img = [d \in profileCalls |-> IF d = c THEN v ELSE IF d.op \in {"base", "list"} /\ d.at = "done"
                                               THEN [d EXCEPT !.at = "late"] ELSE d]
  OBVIOUS
<1>2. ~ProfileLoader(c) /\ ~ProfileLoader(v)
  BY DEF ProfileLoader
<1>3. profileCalls' = {img[d] : d \in profileCalls}
  BY <1>1, <1>2 DEF Profile!Overtaken, ProfileLoader
<1>4. ASSUME NEW d \in profileCalls
      PROVE  /\ img[d] \in ProfileCallTypes /\ ProfileCallOK(img[d]) /\ img[d].op = d.op /\ img[d].who = d.who /\ img[d].shown = d.shown
             /\ ProfileLoader(img[d]) => img[d].at # "done" /\ d # c /\ (img[d].at = "late" => d.at \in {"done", "late"})
  <2>1. CASE d = c
    BY <2>1, <1>1, <1>2
  <2>2. CASE d # c /\ ProfileLoader(d) /\ d.at = "done"
    <3>1. d \in ProfileCallTypes /\ ProfileCallOK(d)
      BY DEF ProfileInv, ProfileTypes
    <3>2. PICK w : w = [d EXCEPT !.at = "late"]
      OBVIOUS
    <3>3. /\ w \in ProfileCallTypes /\ w.op = d.op /\ w.who = d.who /\ w.shown = d.shown /\ w.at = "late" /\ w.doc = d.doc
      BY <3>1, <3>2 DEF ProfileCallTypes
    <3>4. ProfileCallOK(w)
      BY <2>2, <3>1, <3>3 DEF ProfileCallOK, ProfileLoader
    <3> QED BY <2>2, <3>2, <3>3, <3>4, <1>1 DEF ProfileLoader
  <2>3. CASE d # c /\ ~(ProfileLoader(d) /\ d.at = "done")
    <3>1. img[d] = d
      BY <2>3, <1>1 DEF ProfileLoader
    <3> QED BY <2>3, <3>1 DEF ProfileInv, ProfileTypes
  <2> QED BY <2>1, <2>2, <2>3
<1>5. profileCalls' \subseteq ProfileCallTypes /\ (\A x \in profileCalls' : ProfileCallOK(x))
  BY <1>3, <1>4
<1>6. ProfileBusy' /\ ProfileChains' /\ ProfileQuestsFollow'
  <2>1. PICK extra : extra = {}
    OBVIOUS
  <2>2. profileCalls' = {img[d] : d \in profileCalls} \cup extra /\ \A e \in extra : ~e.shown
    BY <1>3, <2>1
  <2>3. \A d \in profileCalls : ProfileSameRole(img[d], d)
    BY <1>4, ProfileSameCall
  <2>4. profilePage' = profilePage /\ profileMisplaced' = profileMisplaced /\ (profileStale => profileStale')
    OBVIOUS
  <2> QED BY <2>2, <2>3, <2>4, CallsStay
<1>7. ProfileFresh'
  BY <1>3, <1>4 DEF ProfileFresh, ProfileLoader
<1>8. ASSUME NEW x \in profileCalls', x.shown, ProfileLoader(x), x.at = "late"
      PROVE  profileStale'
  <2>1. PICK d \in profileCalls : x = img[d]
    BY <1>3
  <2>2. d # c /\ d.shown /\ ProfileLoader(d) /\ d.at \in {"done", "late"} /\ d.op = x.op
    BY <1>4, <1>8, <2>1 DEF ProfileLoader
  <2>3. CASE c.shown
    <3>1. ProfileSyncs(c) \/ ProfileRemoves(c)
      BY <2>3 DEF ProfileSyncs, ProfileRemoves
    <3>2. ProfileLoads(d) \/ ProfileSyncs(d) \/ ProfileRemoves(d)
      BY <2>2 DEF ProfileLoads, ProfileSyncs, ProfileRemoves, ProfileLoader
    <3> QED BY <2>2, <3>1, <3>2 DEF ProfileInv, ProfileChains
  <2>4. CASE ~c.shown
    BY <2>4
  <2> QED BY <2>3, <2>4
<1>9. ProfileLateIsStale'
  BY <1>8 DEF ProfileLateIsStale, ProfileLoader
<1>10. ProfileListFollows'
  <2>1. v \in profileCalls'
    BY <1>1, <1>3
  <2>2. c.shown => \E x \in profileCalls' : ProfileCovers(x)
    BY <2>1
  <2> QED BY <2>2 DEF ProfileListFollows
<1>11. ProfileConsentsOnce' /\ profileStale' \in BOOLEAN /\ profileMisplaced' \in BOOLEAN /\ profileConnected' \in [Consents -> Nat]
       /\ profileConsents' \in [Consents -> {"none", "begun", "used"}] /\ profileAway' \in Consents \cup {Nil} /\ profilePage' \in ProfilePageTypes
  BY DEF ProfileInv, ProfileTypes, ProfileConsentsOnce
<1> QED BY <1>5, <1>6, <1>7, <1>9, <1>10, <1>11 DEF ProfileInv, ProfileTypes, ProfileCallOK, ProfileLoader

LEMMA DeleteConnectionKeeps ==
  ASSUME ProfileAssumption, ProfileInv, NEW c \in profileCalls, Profile!DeleteConnection(c)
  PROVE  ProfileInv'
<1>1. c \in ProfileCallTypes /\ ProfileCallOK(c) /\ c.at = "sent" /\ c.op = "remove" /\ c.shown \in BOOLEAN
  BY DEF ProfileInv, ProfileTypes, Profile!DeleteConnection, ProfileCallTypes
<1>2. UNCHANGED <<profileConsents, profileConnected, profileAway, profilePage, profileMisplaced>> /\ profileStale' = (profileStale \/ ~c.shown)
  BY DEF Profile!DeleteConnection, Profile!Orphaned
<1>3. CASE c.who \in Profile!Held
  <2>1. PICK v : v = [c EXCEPT !.at = "done", !.doc = Nil]
    OBVIOUS
  <2>2. v \in ProfileCallTypes /\ v.op = c.op /\ v.who = c.who /\ v.shown = c.shown /\ v.at = "done"
    BY <1>1, <2>1 DEF ProfileCallTypes
  <2>3. ProfileCallOK(v) /\ (c.shown => ProfileCovers(v))
    BY <1>1, <2>2 DEF ProfileCallOK, ProfileLoader, ProfileCovers
  <2>4. profileCalls' = Profile!Overtaken((profileCalls \ {c}) \cup {v})
    BY <1>3, <2>1 DEF Profile!DeleteConnection, Profile!Answered
  <2>5. profileHeld' \in [Calendars -> ProfileHeldTypes \cup {Nil}]
    <3>1. c.who \in Calendars /\ profileHeld[c.who] \in ProfileHeldTypes
      BY <1>3, ListingTyped DEF ProfileInv
    <3>2. [profileHeld[c.who] EXCEPT !.deleted = TRUE] \in ProfileHeldTypes
      BY <3>1 DEF ProfileHeldTypes
    <3>3. profileHeld' = [profileHeld EXCEPT ![c.who] = [profileHeld[c.who] EXCEPT !.deleted = TRUE]]
      BY <1>3 DEF Profile!DeleteConnection
    <3> QED BY <3>1, <3>2, <3>3 DEF ProfileInv, ProfileTypes
  <2> QED BY <1>1, <1>2, <2>2, <2>3, <2>4, <2>5, ConnectionsChange
<1>4. CASE c.who \notin Profile!Held
  <2>1. PICK v : v = [c EXCEPT !.at = "failed", !.doc = Nil]
    OBVIOUS
  <2>2. v \in ProfileCallTypes /\ v.op = c.op /\ v.who = c.who /\ v.shown = c.shown /\ v.at = "failed"
    BY <1>1, <2>1 DEF ProfileCallTypes
  <2>3. ProfileCallOK(v) /\ ~ProfileLoader(c) /\ ~ProfileLoader(v) /\ ~ProfileCovers(c)
    BY <1>1, <2>2 DEF ProfileCallOK, ProfileLoader, ProfileCovers
  <2>4. profileCalls' = (profileCalls \ {c}) \cup {v} /\ profileHeld' = profileHeld
    BY <1>4, <2>1 DEF Profile!DeleteConnection, Profile!Answered
  <2>5. profileCalls' \subseteq ProfileCallTypes /\ (\A x \in profileCalls' : ProfileCallOK(x))
    BY <2>2, <2>3, <2>4 DEF ProfileInv, ProfileTypes
  <2>6. Profile!Listing' = Profile!Listing
    BY <2>4 DEF Profile!Listing, Profile!Held
  <2>7. ProfileBusy' /\ ProfileChains' /\ ProfileQuestsFollow'
    <3>1. PICK img : img = [d \in profileCalls |-> IF d = c THEN v ELSE d]
      OBVIOUS
    <3>2. PICK extra : extra = {}
      OBVIOUS
    <3>3. profileCalls' = {img[d] : d \in profileCalls} \cup extra /\ \A e \in extra : ~e.shown
      BY <3>1, <3>2, <2>4
    <3>4. \A d \in profileCalls : img[d].op = d.op /\ img[d].who = d.who /\ img[d].shown = d.shown
      BY <3>1, <2>2
    <3>5. \A d \in profileCalls : ProfileSameRole(img[d], d)
      BY <3>4, ProfileSameCall
    <3>6. profilePage' = profilePage /\ profileMisplaced' = profileMisplaced /\ (profileStale => profileStale')
      BY <1>2
    <3> QED BY <3>3, <3>5, <3>6, CallsStay
  <2>8. ProfileFresh' /\ ProfileLateIsStale'
    <3>1. \A x \in profileCalls' : ProfileLoader(x) => x \in profileCalls
      BY <2>3, <2>4
    <3> QED BY <3>1, <2>6, <1>2 DEF ProfileInv, ProfileFresh, ProfileLateIsStale, ProfileLoader
  <2>9. ProfileListFollows'
    <3>1. ASSUME NEW d \in profileCalls, ProfileCovers(d) PROVE \E x \in profileCalls' : ProfileCovers(x)
      BY <3>1, <2>3, <2>4
    <3> QED BY <3>1, <2>6, <1>2 DEF ProfileInv, ProfileListFollows
  <2>10. ProfileConsentsOnce' /\ profileStale' \in BOOLEAN
    BY <1>2 DEF ProfileInv, ProfileTypes, ProfileConsentsOnce
  <2> QED BY <1>2, <2>4, <2>5, <2>7, <2>8, <2>9, <2>10 DEF ProfileInv, ProfileTypes, ProfileCallOK, ProfileLoader
<1> QED BY <1>3, <1>4

LEMMA SyncMarksKeeps ==
  ASSUME ProfileAssumption, ProfileInv, NEW c \in profileCalls, NEW t, Profile!SyncMarks(c, t)
  PROVE  ProfileInv'
<1>1. c \in ProfileCallTypes /\ ProfileCallOK(c) /\ c.at = "working" /\ c.op = "sync" /\ c.left \subseteq ProfileTargetTypes
  BY DEF ProfileInv, ProfileTypes, Profile!SyncMarks, ProfileCallOK
<1>2. PICK v : v = [c EXCEPT !.left = c.left \ {t}]
  OBVIOUS
<1>3. v \in ProfileCallTypes /\ v.op = c.op /\ v.who = c.who /\ v.shown = c.shown /\ v.at = "working" /\ v.left \subseteq ProfileTargetTypes
  BY <1>1, <1>2 DEF ProfileCallTypes
<1>4. ProfileCallOK(v) /\ (c.shown => ProfileCovers(v))
  BY <1>1, <1>3 DEF ProfileCallOK, ProfileLoader, ProfileCovers
<1>5. /\ profileCalls' = Profile!Overtaken((profileCalls \ {c}) \cup {v}) /\ profileStale' = (profileStale \/ ~c.shown)
      /\ UNCHANGED <<profileConsents, profileConnected, profileAway, profilePage, profileMisplaced>>
  BY <1>2 DEF Profile!SyncMarks, Profile!Orphaned
<1>6. profileHeld' \in [Calendars -> ProfileHeldTypes \cup {Nil}]
  <2>1. CASE t.account \in Profile!Held
    <3>1. t.account \in Calendars /\ profileHeld[t.account] \in ProfileHeldTypes
      BY <2>1, ListingTyped DEF ProfileInv
    <3>2. [profileHeld[t.account] EXCEPT !.synced = profileHeld[t.account].synced + 1] \in ProfileHeldTypes
      BY <3>1 DEF ProfileHeldTypes
    <3>3. profileHeld' = [profileHeld EXCEPT ![t.account] = [profileHeld[t.account] EXCEPT !.synced = profileHeld[t.account].synced + 1]]
      BY <2>1 DEF Profile!SyncMarks
    <3> QED BY <3>1, <3>2, <3>3 DEF ProfileInv, ProfileTypes
  <2>2. CASE t.account \notin Profile!Held
    BY <2>2 DEF Profile!SyncMarks, ProfileInv, ProfileTypes
  <2> QED BY <2>1, <2>2
<1> QED BY <1>1, <1>3, <1>4, <1>5, <1>6, ConnectionsChange

\* A call whose answer is lost keeps its part for the page; the service goes on with a copy.
LEMMA CallFailsKeeps ==
  ASSUME ProfileAssumption, ProfileInv, NEW c \in profileCalls, Profile!CallFails(c)
  PROVE  ProfileInv'
<1>1. c \in ProfileCallTypes /\ ProfileCallOK(c) /\ c.shown
  BY DEF ProfileInv, ProfileTypes, Profile!CallFails
<1>2. PICK v : v = [c EXCEPT !.at = "failed", !.left = {}, !.doc = Nil]
  OBVIOUS
<1>3. PICK alone \in {{}, {c} \cap Profile!Writing(profileCalls)} :
         profileCalls' = ((profileCalls \ {c}) \cup {v}) \cup {[d EXCEPT !.shown = FALSE] : d \in alone}
  BY <1>2 DEF Profile!CallFails
<1>4. PICK extra : extra = {[d EXCEPT !.shown = FALSE] : d \in alone}
  OBVIOUS
<1>5. /\ v \in ProfileCallTypes /\ v.op = c.op /\ v.who = c.who /\ v.shown = c.shown /\ v.at = "failed"
  BY <1>1, <1>2 DEF ProfileCallTypes
<1>6. ProfileCallOK(v)
  BY <1>1, <1>5 DEF ProfileCallOK, ProfileLoader
<1>7. \A e \in extra : e \in ProfileCallTypes /\ ProfileCallOK(e) /\ ~e.shown /\ ~ProfileLoader(e)
  <2> SUFFICES ASSUME NEW e \in extra PROVE e \in ProfileCallTypes /\ ProfileCallOK(e) /\ ~e.shown /\ ~ProfileLoader(e)
    OBVIOUS
  <2>1. e = [c EXCEPT !.shown = FALSE] /\ c.op \in {"sync", "remove"}
    BY <1>3, <1>4 DEF Profile!Writing
  <2>2. e \in ProfileCallTypes /\ e.op = c.op /\ e.who = c.who /\ e.at = c.at /\ e.doc = c.doc /\ e.left = c.left /\ ~e.shown
    BY <1>1, <2>1 DEF ProfileCallTypes
  <2> QED BY <1>1, <2>1, <2>2 DEF ProfileCallOK, ProfileLoader
<1>8. /\ profileCalls' = ((profileCalls \ {c}) \cup {v}) \cup extra /\ profileStale' = (profileStale \/ Profile!Writing({c}) # {})
      /\ UNCHANGED <<profileHeld, profileConsents, profileConnected, profileAway, profilePage, profileMisplaced>>
  BY <1>3, <1>4 DEF Profile!CallFails, Profile!service
<1>9. profileCalls' \subseteq ProfileCallTypes /\ (\A x \in profileCalls' : ProfileCallOK(x))
  BY <1>5, <1>6, <1>7, <1>8 DEF ProfileInv, ProfileTypes
<1>10. Profile!Listing' = Profile!Listing
  BY <1>8 DEF Profile!Listing, Profile!Held
<1>11. ProfileBusy' /\ ProfileChains' /\ ProfileQuestsFollow'
  <2>1. PICK img : img = [d \in profileCalls |-> IF d = c THEN v ELSE d]
    OBVIOUS
  <2>2. profileCalls' = {img[d] : d \in profileCalls} \cup extra /\ \A e \in extra : ~e.shown
    BY <1>7, <1>8, <2>1
  <2>3. \A d \in profileCalls : img[d].op = d.op /\ img[d].who = d.who /\ img[d].shown = d.shown
    BY <1>5, <2>1
  <2>4. \A d \in profileCalls : ProfileSameRole(img[d], d)
    BY <2>3, ProfileSameCall
  <2>5. profilePage' = profilePage /\ profileMisplaced' = profileMisplaced /\ (profileStale => profileStale')
    BY <1>8
  <2> QED BY <2>2, <2>4, <2>5, CallsStay
<1>12. ProfileFresh' /\ ProfileLateIsStale'
  <2>1. \A x \in profileCalls' : ProfileLoader(x) /\ x.at # "failed" => x \in profileCalls
    BY <1>5, <1>7, <1>8
  <2> QED BY <2>1, <1>8, <1>10 DEF ProfileInv, ProfileFresh, ProfileLateIsStale, ProfileLoader
<1>13. ProfileListFollows'
  <2> SUFFICES ASSUME profilePage.open, ~profileStale'
               PROVE  profilePage.list = Profile!Listing \/ \E x \in profileCalls' : ProfileCovers(x)
    BY <1>8, <1>10 DEF ProfileListFollows
  <2>1. ~profileStale /\ c.op \notin {"sync", "remove"}
    BY <1>8 DEF Profile!Writing
  <2>2. ProfileCovers(c) => ProfileCovers(v)
    BY <2>1, <1>5 DEF ProfileCovers, ProfileLoader
  <2>3. ASSUME NEW d \in profileCalls, ProfileCovers(d) PROVE \E x \in profileCalls' : ProfileCovers(x)
    BY <2>2, <2>3, <1>8
  <2> QED BY <2>1, <2>3 DEF ProfileInv, ProfileListFollows
<1>14. ProfileConsentsOnce' /\ profileStale' \in BOOLEAN
  BY <1>8 DEF ProfileInv, ProfileTypes, ProfileConsentsOnce
<1> QED BY <1>8, <1>9, <1>11, <1>12, <1>13, <1>14 DEF ProfileInv, ProfileTypes, ProfileCallOK, ProfileLoader

-----------------------------------------------------------------------------
(* What the user does *)

\* A call that is begun takes nothing from the others.
LEMMA CallAdded ==
  ASSUME ProfileInv, NEW v \in ProfileCallTypes, ProfileCallOK(v), v.at = "sent", ~ProfileLoader(v), profileCalls' = profileCalls \cup {v},
         profileStale' \in BOOLEAN, profileStale => profileStale', profileMisplaced' \in BOOLEAN,
         profilePage' \in ProfilePageTypes, profilePage'.open = profilePage.open, profilePage'.list = profilePage.list,
         UNCHANGED <<profileHeld, profileConsents, profileConnected, profileAway>>, ProfileBusy', ProfileChains', ProfileQuestsFollow'
  PROVE  ProfileInv'
<1>1. profileCalls' \subseteq ProfileCallTypes /\ (\A x \in profileCalls' : ProfileCallOK(x))
  BY DEF ProfileInv, ProfileTypes
<1>2. Profile!Listing' = Profile!Listing
  BY DEF Profile!Listing, Profile!Held
<1>3. ProfileFresh' /\ ProfileLateIsStale' /\ ProfileListFollows'
  <2>1. \A x \in profileCalls' : ProfileLoader(x) => x \in profileCalls
    OBVIOUS
  <2>2. ASSUME NEW d \in profileCalls, ProfileCovers(d) PROVE \E x \in profileCalls' : ProfileCovers(x)
    BY <2>2
  <2> QED BY <1>2, <2>1, <2>2 DEF ProfileInv, ProfileFresh, ProfileLateIsStale, ProfileListFollows, ProfileLoader
<1>4. ProfileConsentsOnce'
  BY DEF ProfileInv, ProfileConsentsOnce
<1> QED BY <1>1, <1>3, <1>4 DEF ProfileInv, ProfileTypes, ProfileCallOK, ProfileLoader

LEMMA SwitchBoardKeeps ==
  ASSUME ProfileAssumption, ProfileInv, NEW b \in OfBoards, Profile!switchBoard(b)
  PROVE  ProfileInv'
<1>1. PICK v : v = Profile!Call("board", b)
  OBVIOUS
<1>2. v \in ProfileCallTypes /\ v.op = "board" /\ v.who = b /\ v.at = "sent" /\ v.shown
  BY <1>1, NewCall
<1>3. ProfileCallOK(v) /\ ~ProfileLoader(v)
  BY <1>2 DEF ProfileCallOK, ProfileLoader
<1>4. /\ profileCalls' = profileCalls \cup {v} /\ profilePage' = [profilePage EXCEPT !.active = b] /\ profilePage.open
      /\ profileMisplaced' = (\E c \in profileCalls : c.op = "board" /\ c.shown)
      /\ UNCHANGED <<profileHeld, profileConsents, profileConnected, profileAway, profileStale>>
  BY <1>1 DEF Profile!switchBoard, Profile!service
<1>5. profilePage \in ProfilePageTypes
  BY DEF ProfileInv, ProfileTypes
<1>6. /\ profilePage' \in ProfilePageTypes /\ profilePage'.active = b /\ profilePage'.open = profilePage.open /\ profilePage'.list = profilePage.list
      /\ profilePage'.loading = profilePage.loading /\ profilePage'.syncing = profilePage.syncing /\ profilePage'.removing = profilePage.removing
      /\ profilePage'.connecting = profilePage.connecting /\ profilePage'.quests = profilePage.quests
  BY <1>4, <1>5 DEF ProfilePageTypes
<1>7. ProfileBusy'
  BY <1>4, <1>6 DEF ProfileInv, ProfileBusy
<1>8. ProfileChains'
  BY <1>2, <1>4, <1>6 DEF ProfileInv, ProfileChains, ProfileLoads, ProfileSyncs, ProfileRemoves
<1>9. ProfileQuestsFollow'
  BY <1>2, <1>4, <1>6 DEF ProfileQuestsFollow
<1>10. profileStale' \in BOOLEAN /\ (profileStale => profileStale') /\ profileMisplaced' \in BOOLEAN
  BY <1>4 DEF ProfileInv, ProfileTypes
<1> QED BY <1>2, <1>3, <1>4, <1>6, <1>7, <1>8, <1>9, <1>10, CallAdded

LEMMA SyncCalendarKeeps ==
  ASSUME ProfileAssumption, ProfileInv, NEW key \in Calendars \cup {"all"}, Profile!syncCalendar(key)
  PROVE  ProfileInv'
<1>1. PICK v : v = Profile!Call("sync", key)
  OBVIOUS
<1>2. v \in ProfileCallTypes /\ v.op = "sync" /\ v.who = key /\ v.at = "sent" /\ v.shown
  BY <1>1, NewCall
<1>3. ProfileCallOK(v) /\ ~ProfileLoader(v) /\ key # Nil
  BY <1>2 DEF ProfileCallOK, ProfileLoader, ProfileAssumption
<1>4. /\ profileCalls' = profileCalls \cup {v} /\ profilePage' = [profilePage EXCEPT !.syncing = key] /\ profilePage.open /\ ~profilePage.loading /\ profilePage.syncing = Nil
      /\ profileStale' = (profileStale \/ profilePage.removing # Nil)
      /\ UNCHANGED <<profileHeld, profileConsents, profileConnected, profileAway, profileMisplaced>>
  BY <1>1 DEF Profile!syncCalendar, Profile!service, Profile!Ready
<1>5. profilePage \in ProfilePageTypes
  BY DEF ProfileInv, ProfileTypes
<1>6. /\ profilePage' \in ProfilePageTypes /\ profilePage'.active = profilePage.active /\ profilePage'.open = profilePage.open /\ profilePage'.list = profilePage.list
      /\ profilePage'.loading = profilePage.loading /\ profilePage'.syncing = key /\ profilePage'.removing = profilePage.removing
      /\ profilePage'.connecting = profilePage.connecting /\ profilePage'.quests = profilePage.quests
  BY <1>4, <1>5 DEF ProfilePageTypes
<1>7. ProfileBusy'
  BY <1>2, <1>4, <1>6 DEF ProfileInv, ProfileBusy, ProfileSyncs
<1>8. ProfileChains'
  BY <1>2, <1>3, <1>4, <1>6 DEF ProfileInv, ProfileChains, ProfileLoads, ProfileSyncs, ProfileRemoves
<1>9. ProfileQuestsFollow'
  BY <1>2, <1>4, <1>6 DEF ProfileInv, ProfileQuestsFollow
<1>10. profileStale' \in BOOLEAN /\ (profileStale => profileStale') /\ profileMisplaced' \in BOOLEAN
  BY <1>4 DEF ProfileInv, ProfileTypes
<1> QED BY <1>2, <1>3, <1>4, <1>6, <1>7, <1>8, <1>9, <1>10, CallAdded

LEMMA DisconnectKeeps ==
  ASSUME ProfileAssumption, ProfileInv, NEW a \in Calendars, Profile!disconnectCalendar(a)
  PROVE  ProfileInv'
<1>1. PICK v : v = Profile!Call("remove", a)
  OBVIOUS
<1>2. v \in ProfileCallTypes /\ v.op = "remove" /\ v.who = a /\ v.at = "sent" /\ v.shown
  BY <1>1, NewCall
<1>3. ProfileCallOK(v) /\ ~ProfileLoader(v) /\ a # Nil
  BY <1>2 DEF ProfileCallOK, ProfileLoader, ProfileAssumption
<1>4. /\ profileCalls' = profileCalls \cup {v} /\ profilePage' = [profilePage EXCEPT !.removing = a] /\ profilePage.open /\ ~profilePage.loading
      /\ profilePage.syncing = Nil /\ profilePage.removing = Nil
      /\ UNCHANGED <<profileHeld, profileConsents, profileConnected, profileAway, profileStale, profileMisplaced>>
  BY <1>1 DEF Profile!disconnectCalendar, Profile!service, Profile!excuses, Profile!Ready, Profile!OffersRemoval
<1>5. profilePage \in ProfilePageTypes
  BY DEF ProfileInv, ProfileTypes
<1>6. /\ profilePage' \in ProfilePageTypes /\ profilePage'.active = profilePage.active /\ profilePage'.open = profilePage.open /\ profilePage'.list = profilePage.list
      /\ profilePage'.loading = profilePage.loading /\ profilePage'.syncing = profilePage.syncing /\ profilePage'.removing = a
      /\ profilePage'.connecting = profilePage.connecting /\ profilePage'.quests = profilePage.quests
  BY <1>4, <1>5 DEF ProfilePageTypes
<1>7. ProfileBusy'
  BY <1>2, <1>4, <1>6 DEF ProfileInv, ProfileBusy, ProfileRemoves
<1>8. ProfileChains'
  BY <1>2, <1>3, <1>4, <1>6 DEF ProfileInv, ProfileChains, ProfileLoads, ProfileSyncs, ProfileRemoves
<1>9. ProfileQuestsFollow'
  BY <1>2, <1>4, <1>6 DEF ProfileInv, ProfileQuestsFollow
<1>10. profileStale' \in BOOLEAN /\ (profileStale => profileStale') /\ profileMisplaced' \in BOOLEAN
  BY <1>4 DEF ProfileInv, ProfileTypes
<1> QED BY <1>2, <1>3, <1>4, <1>6, <1>7, <1>8, <1>9, <1>10, CallAdded

LEMMA StartConnectKeeps ==
  ASSUME ProfileAssumption, ProfileInv, Profile!startCalendarConnect
  PROVE  ProfileInv'
<1>1. PICK v : v = Profile!Call("connect", Nil)
  OBVIOUS
<1>2. v \in ProfileCallTypes /\ v.op = "connect" /\ v.at = "sent" /\ v.shown
  BY <1>1, NewCall
<1>3. ProfileCallOK(v) /\ ~ProfileLoader(v)
  BY <1>2 DEF ProfileCallOK, ProfileLoader
<1>4. /\ profileCalls' = profileCalls \cup {v} /\ profilePage' = [profilePage EXCEPT !.connecting = TRUE] /\ profilePage.open
      /\ UNCHANGED <<profileHeld, profileConsents, profileConnected, profileAway, profileStale, profileMisplaced>>
  BY <1>1 DEF Profile!startCalendarConnect, Profile!service, Profile!excuses, Profile!Ready
<1>5. profilePage \in ProfilePageTypes
  BY DEF ProfileInv, ProfileTypes
<1>6. /\ profilePage' \in ProfilePageTypes /\ profilePage'.active = profilePage.active /\ profilePage'.open = profilePage.open /\ profilePage'.list = profilePage.list
      /\ profilePage'.loading = profilePage.loading /\ profilePage'.syncing = profilePage.syncing /\ profilePage'.removing = profilePage.removing
      /\ profilePage'.quests = profilePage.quests
  BY <1>4, <1>5 DEF ProfilePageTypes
<1>7. ProfileBusy'
  BY <1>2, <1>4, <1>6 DEF ProfileInv, ProfileBusy
<1>8. ProfileChains'
  BY <1>2, <1>4, <1>6 DEF ProfileInv, ProfileChains, ProfileLoads, ProfileSyncs, ProfileRemoves
<1>9. ProfileQuestsFollow'
  BY <1>2, <1>4, <1>6 DEF ProfileInv, ProfileQuestsFollow
<1>10. profileStale' \in BOOLEAN /\ (profileStale => profileStale') /\ profileMisplaced' \in BOOLEAN
  BY <1>4 DEF ProfileInv, ProfileTypes
<1> QED BY <1>2, <1>3, <1>4, <1>6, <1>7, <1>8, <1>9, <1>10, CallAdded

-----------------------------------------------------------------------------
(* The page is left, and comes back *)

LEMMA HiddenOK ==
  ASSUME ProfileInv, NEW e \in Profile!Hidden(profileCalls)
  PROVE  /\ e \in ProfileCallTypes /\ ProfileCallOK(e) /\ ~e.shown
         /\ \E d \in profileCalls : e.op = d.op /\ e.at = d.at /\ e.doc = d.doc
<1>1. PICK d \in profileCalls : e = [d EXCEPT !.shown = FALSE]
  BY DEF Profile!Hidden
<1>2. d \in ProfileCallTypes /\ ProfileCallOK(d)
  BY DEF ProfileInv, ProfileTypes
<1>3. e \in ProfileCallTypes /\ e.op = d.op /\ e.who = d.who /\ e.at = d.at /\ e.doc = d.doc /\ e.left = d.left /\ ~e.shown
  BY <1>1, <1>2 DEF ProfileCallTypes
<1> QED BY <1>2, <1>3 DEF ProfileCallOK, ProfileLoader

\* No page is open and no call is shown.
LEMMA PageLeft ==
  ASSUME ProfileAssumption, ProfileInv, profilePage' = Profile!NoPage, profileCalls' \subseteq Profile!Hidden(profileCalls), profileAway' \in Consents \cup {Nil},
         UNCHANGED <<profileHeld, profileConsents, profileConnected, profileStale, profileMisplaced>>
  PROVE  ProfileInv'
<1>1. profilePage' \in ProfilePageTypes /\ ~profilePage'.open
  <2>1. PICK p : p = Profile!Page(DefaultBoard)
    OBVIOUS
  <2>2. p \in ProfilePageTypes
    BY <2>1 DEF Profile!Page, ProfilePageTypes, Profile!Nothing, ProfileAssumption
  <2>3. profilePage' = [p EXCEPT !.open = FALSE, !.loading = FALSE]
    BY <2>1 DEF Profile!NoPage
  <2> QED BY <2>2, <2>3 DEF ProfilePageTypes
<1>2. \A e \in profileCalls' : e \in ProfileCallTypes /\ ProfileCallOK(e) /\ ~e.shown /\ \E d \in profileCalls : e.op = d.op /\ e.at = d.at /\ e.doc = d.doc
  BY HiddenOK
<1>3. Profile!Listing' = Profile!Listing
  BY DEF Profile!Listing, Profile!Held
<1>4. ProfileBusy' /\ ProfileChains' /\ ProfileListFollows' /\ ProfileQuestsFollow' /\ ProfileLateIsStale'
  BY <1>1, <1>2 DEF ProfileBusy, ProfileChains, ProfileListFollows, ProfileQuestsFollow, ProfileLateIsStale, ProfileLoads, ProfileSyncs, ProfileRemoves
<1>5. ProfileFresh'
  BY <1>2, <1>3 DEF ProfileInv, ProfileFresh, ProfileLoader
<1>6. ProfileConsentsOnce'
  BY DEF ProfileInv, ProfileConsentsOnce
<1> QED BY <1>1, <1>2, <1>4, <1>5, <1>6 DEF ProfileInv, ProfileTypes, ProfileCallOK, ProfileLoader

LEMMA LeaveKeeps ==
  ASSUME ProfileAssumption, ProfileInv, Profile!Leave
  PROVE  ProfileInv'
BY PageLeft DEF Profile!Leave, Profile!service, Profile!excuses, ProfileInv, ProfileTypes

LEMMA ReturnKeeps ==
  ASSUME ProfileAssumption, ProfileInv, NEW b \in OfBoards, Profile!Return(b)
  PROVE  ProfileInv'
<1>1. Profile!Opens(b, profileCalls, Nil) /\ ~profilePage.open /\ UNCHANGED <<profileHeld, profileConsents, profileConnected, profileAway>>
  BY DEF Profile!Return, Profile!service
<1>2. PICK next \in {Nil, "sync"} : next = Nil
  OBVIOUS
<1>3. Profile!Opens(b, profileCalls, next)
  BY <1>1, <1>2
<1>4. profileCalls \subseteq ProfileCallTypes /\ \A c \in profileCalls : ProfileCallOK(c) /\ ~c.shown
  BY <1>1 DEF ProfileInv, ProfileTypes, ProfileChains
<1>5. Profile!Listing' = Profile!Listing
  BY <1>1 DEF Profile!Listing, Profile!Held
<1>6. \A c \in profileCalls : ProfileLoader(c) /\ c.at = "done" => c.doc = Profile!Listing'
  BY <1>5 DEF ProfileInv, ProfileFresh, ProfileLoader
<1>7. /\ profilePage' \in ProfilePageTypes /\ profileCalls' \subseteq ProfileCallTypes /\ (\A c \in profileCalls' : ProfileCallOK(c))
      /\ profileStale' \in BOOLEAN /\ profileMisplaced' \in BOOLEAN
      /\ ProfileBusy' /\ ProfileChains' /\ ProfileFresh' /\ ProfileLateIsStale' /\ ProfileListFollows' /\ ProfileQuestsFollow'
  BY <1>3, <1>4, <1>6, OpensKeeps
<1>8. ProfileConsentsOnce'
  BY <1>1 DEF ProfileInv, ProfileConsentsOnce
<1> QED BY <1>1, <1>7, <1>8 DEF ProfileInv, ProfileTypes, ProfileCallOK, ProfileLoader

\* What the browser left behind: changes that the service was sent, and no load.
LEMMA UnloadedOK ==
  ASSUME ProfileInv
  PROVE  Profile!Unloaded \subseteq Profile!Hidden(profileCalls) /\ \A e \in Profile!Unloaded : e \in ProfileCallTypes /\ ProfileCallOK(e) /\ ~e.shown /\ ~ProfileLoader(e)
BY HiddenOK DEF Profile!Unloaded, Profile!Writing, ProfileLoader

LEMMA CallbackKeeps ==
  ASSUME ProfileAssumption, ProfileInv, NEW k \in Consents, Profile!Callback(k)
  PROVE  ProfileInv'
<1>1. profileAway' = Nil
  BY DEF Profile!Callback
<1>2. Profile!Opens(DefaultBoard, Profile!Unloaded, "sync") \/ Profile!Opens(DefaultBoard, Profile!Unloaded, Nil)
  BY DEF Profile!Callback
<1>3. PICK next \in {Nil, "sync"} : Profile!Opens(DefaultBoard, Profile!Unloaded, next)
  BY <1>2
<1>4. DefaultBoard \in OfBoards
  BY DEF ProfileAssumption
<1>5. Profile!Unloaded \subseteq ProfileCallTypes /\ (\A e \in Profile!Unloaded : ProfileCallOK(e) /\ ~e.shown)
  BY UnloadedOK
<1>6. \A e \in Profile!Unloaded : ProfileLoader(e) /\ e.at = "done" => e.doc = Profile!Listing'
  BY UnloadedOK
<1>7. /\ profilePage' \in ProfilePageTypes /\ profileCalls' \subseteq ProfileCallTypes /\ (\A c \in profileCalls' : ProfileCallOK(c))
      /\ profileStale' \in BOOLEAN /\ profileMisplaced' \in BOOLEAN
      /\ ProfileBusy' /\ ProfileChains' /\ ProfileFresh' /\ ProfileLateIsStale' /\ ProfileListFollows' /\ ProfileQuestsFollow'
  BY <1>3, <1>4, <1>5, <1>6, OpensKeeps
<1>8. /\ profileHeld' \in [Calendars -> ProfileHeldTypes \cup {Nil}] /\ profileConsents' \in [Consents -> {"none", "begun", "used"}]
      /\ profileConnected' \in [Consents -> Nat] /\ ProfileConsentsOnce'
  <2>1. CASE UNCHANGED Profile!service
    BY <2>1 DEF Profile!service, ProfileInv, ProfileTypes, ProfileConsentsOnce
  <2>2. CASE Profile!MayConsume(k) /\ profileConsents' = [profileConsents EXCEPT ![k] = "used"] /\ UNCHANGED <<profileHeld, profileConnected>>
    BY <2>2 DEF ProfileInv, ProfileTypes, ProfileConsentsOnce
  <2>3. CASE /\ Profile!MayConsume(k) /\ profileConsents' = [profileConsents EXCEPT ![k] = "used"]
             /\ \E a \in Calendars, refresh \in BOOLEAN : profileHeld' = Profile!Upserted(a, refresh)
             /\ profileConnected' = [profileConnected EXCEPT ![k] = @ + 1]
    <3>1. PICK a \in Calendars, refresh \in BOOLEAN : profileHeld' = Profile!Upserted(a, refresh)
      BY <2>3
    <3>2. profileHeld[a] \in ProfileHeldTypes \cup {Nil}
      BY DEF ProfileInv, ProfileTypes
    <3>3. PICK synced : synced = IF profileHeld[a] = Nil THEN 0 ELSE profileHeld[a].synced
      OBVIOUS
    <3>4. PICK kept : kept = (refresh \/ (profileHeld[a] # Nil /\ profileHeld[a].refresh))
      OBVIOUS
    <3>5. synced \in Nat
      BY <3>2, <3>3 DEF ProfileHeldTypes
    <3>6. kept \in BOOLEAN
      BY <3>4
    <3>7. PICK r : r = [deleted |-> FALSE, synced |-> synced, expired |-> FALSE, refresh |-> kept]
      OBVIOUS
    <3>8. r \in ProfileHeldTypes
      BY <3>5, <3>6, <3>7 DEF ProfileHeldTypes
    <3>9. profileHeld' = [profileHeld EXCEPT ![a] = r]
      BY <3>1, <3>3, <3>4, <3>7 DEF Profile!Upserted
    <3>10. profileHeld' \in [Calendars -> ProfileHeldTypes \cup {Nil}]
      BY <3>8, <3>9 DEF ProfileInv, ProfileTypes
    <3>11. profileConsents[k] = "begun" /\ profileConnected[k] = 0
      BY <2>3 DEF Profile!MayConsume, ProfileInv, ProfileConsentsOnce
    <3>12. profileConnected' \in [Consents -> Nat] /\ profileConnected'[k] = 1 /\ \A j \in Consents : j # k => profileConnected'[j] = profileConnected[j]
      BY <2>3, <3>11 DEF ProfileInv, ProfileTypes
    <3>13. profileConsents' \in [Consents -> {"none", "begun", "used"}] /\ profileConsents'[k] = "used"
           /\ \A j \in Consents : j # k => profileConsents'[j] = profileConsents[j]
      BY <2>3 DEF ProfileInv, ProfileTypes
    <3>14. ProfileConsentsOnce'
      BY <3>12, <3>13 DEF ProfileInv, ProfileConsentsOnce
    <3> QED BY <3>10, <3>12, <3>13, <3>14
  <2> QED BY <2>1, <2>2, <2>3 DEF Profile!Callback
<1> QED BY <1>1, <1>7, <1>8 DEF ProfileInv, ProfileTypes, ProfileCallOK, ProfileLoader

-----------------------------------------------------------------------------
(* What the page does with the answers *)

\* A list that the page takes, and keeps to be sure of, is the one there is.
LEMMA ListTaken ==
  ASSUME ProfileInv, NEW c \in profileCalls, ProfileLoader(c), c.shown, c.at \in {"done", "late", "failed"}, profileStale' = Profile!Doubt(c), Profile!Listing' = Profile!Listing
  PROVE  /\ profileStale' \in BOOLEAN /\ Profile!NewList(c) \in [Calendars -> Nat] /\ (~profileStale' => Profile!NewList(c) = Profile!Listing)
         /\ \/ profileStale => profileStale'
            \/ \A d \in profileCalls : d # c => d.op \notin {"list", "sync", "remove"}
<1>1. c \in ProfileCallTypes /\ ProfileCallOK(c) /\ profilePage \in ProfilePageTypes /\ profileStale \in BOOLEAN
  BY DEF ProfileInv, ProfileTypes
<1>2. Profile!NewList(c) \in [Calendars -> Nat]
  BY <1>1 DEF Profile!NewList, ProfileCallOK, ProfilePageTypes
<1>3. c.at = "done" => Profile!NewList(c) = Profile!Listing
  BY DEF Profile!NewList, ProfileInv, ProfileFresh, ProfileLoader
<1>4. CASE c.at = "done" /\ ~\E d \in profileCalls \ {c} : d.op \in {"list", "sync", "remove"}
  <2>1. profileStale' = FALSE
    BY <1>4 DEF Profile!Doubt
  <2> QED BY <2>1, <1>2, <1>3, <1>4
<1>5. CASE ~(c.at = "done" /\ ~\E d \in profileCalls \ {c} : d.op \in {"list", "sync", "remove"})
  <2>1. profileStale' = (profileStale \/ c.at = "failed")
    BY <1>5 DEF Profile!Doubt
  <2>2. c.at = "late" => profileStale
    BY DEF ProfileInv, ProfileLateIsStale, ProfileLoader
  <2> QED BY <2>1, <2>2, <1>1, <1>2, <1>3
<1> QED BY <1>4, <1>5

LEMMA BaseLoadedKeeps ==
  ASSUME ProfileAssumption, ProfileInv, NEW c \in profileCalls, Profile!BaseLoaded(c)
  PROVE  ProfileInv'
<1>1. c \in ProfileCallTypes /\ ProfileCallOK(c) /\ c.op = "base" /\ c.at \in {"done", "late", "failed"} /\ profilePage \in ProfilePageTypes /\ c.shown \in BOOLEAN
  BY DEF ProfileInv, ProfileTypes, Profile!BaseLoaded, Profile!Ended, ProfileCallTypes
<1>2. PICK w : w = Profile!Call("sync", "all")
  OBVIOUS
<1>3. w \in ProfileCallTypes /\ w.op = "sync" /\ w.who = "all" /\ w.at = "sent"
  BY <1>2, NewCall
<1>4. PICK v : v = [w EXCEPT !.shown = c.shown]
  OBVIOUS
<1>5. v \in ProfileCallTypes /\ v.op = "sync" /\ v.who = "all" /\ v.at = "sent" /\ v.shown = c.shown
  BY <1>1, <1>3, <1>4 DEF ProfileCallTypes
<1>6. ProfileCallOK(v) /\ ~ProfileLoader(v) /\ ~ProfileCovers(v)
  BY <1>5 DEF ProfileCallOK, ProfileLoader, ProfileCovers
<1>7. PICK more : more = IF c.who = "sync" THEN {v} ELSE {}
  OBVIOUS
<1>8. /\ profileCalls' = (profileCalls \ {c}) \cup more /\ profileStale' = Profile!Doubt(c)
      /\ UNCHANGED <<profileHeld, profileConsents, profileConnected, profileAway, profileMisplaced>>
  BY <1>2, <1>4, <1>7 DEF Profile!BaseLoaded, Profile!service
<1>9. Profile!Listing' = Profile!Listing
  BY <1>8 DEF Profile!Listing, Profile!Held
<1>10. profileCalls' \subseteq ProfileCallTypes /\ (\A x \in profileCalls' : ProfileCallOK(x)) /\ \A x \in profileCalls' : ProfileLoader(x) => x \in profileCalls /\ x # c
  BY <1>5, <1>6, <1>7, <1>8 DEF ProfileInv, ProfileTypes
<1>11. ProfileFresh'
  BY <1>9, <1>10 DEF ProfileInv, ProfileFresh, ProfileLoader
<1>12. ProfileConsentsOnce'
  BY <1>8 DEF ProfileInv, ProfileConsentsOnce
<1>13. /\ profilePage' \in ProfilePageTypes /\ profileStale' \in BOOLEAN
       /\ ProfileBusy' /\ ProfileChains' /\ ProfileLateIsStale' /\ ProfileListFollows' /\ ProfileQuestsFollow'
  <2>1. CASE c.shown
    <3>1. ProfileLoader(c) /\ ProfileLoads(c)
      BY <1>1, <2>1 DEF ProfileLoader, ProfileLoads
    <3>2. /\ profileStale' \in BOOLEAN /\ Profile!NewList(c) \in [Calendars -> Nat] /\ (~profileStale' => Profile!NewList(c) = Profile!Listing)
          /\ \/ profileStale => profileStale'
             \/ \A d \in profileCalls : d # c => d.op \notin {"list", "sync", "remove"}
      BY <1>1, <1>8, <1>9, <2>1, <3>1, ListTaken
    <3>3. profilePage.open /\ profilePage.loading /\ profilePage.syncing = Nil /\ profilePage.removing = Nil
      BY <2>1, <3>1 DEF ProfileInv, ProfileChains, ProfileBusy
    <3>4. \A d \in profileCalls : ~ProfileSyncs(d) /\ ~ProfileRemoves(d) /\ (ProfileLoads(d) => d = c)
      BY <3>1, <3>3 DEF ProfileInv, ProfileChains
    <3>5. profilePage' = [profilePage EXCEPT !.list = Profile!NewList(c), !.loading = FALSE, !.syncing = IF c.who = "sync" THEN "all" ELSE @]
      BY <2>1 DEF Profile!BaseLoaded
    <3>6. /\ profilePage' \in ProfilePageTypes /\ profilePage'.open /\ ~profilePage'.loading /\ profilePage'.list = Profile!NewList(c) /\ profilePage'.removing = Nil
          /\ profilePage'.syncing = (IF c.who = "sync" THEN "all" ELSE Nil) /\ profilePage'.connecting = profilePage.connecting
          /\ profilePage'.active = profilePage.active /\ profilePage'.quests = profilePage.quests
      BY <1>1, <3>2, <3>3, <3>5 DEF ProfilePageTypes
    <3>7. ProfileBusy'
      BY <1>1, <1>5, <1>7, <1>8, <2>1, <3>3, <3>6 DEF ProfileInv, ProfileBusy, ProfileSyncs
    <3>8. \A x \in profileCalls' : x.shown => (x = v /\ c.who = "sync") \/ (x \in profileCalls /\ x # c)
      BY <1>7, <1>8
    <3>9. \A x \in profileCalls' : ~ProfileLoads(x) /\ ~ProfileRemoves(x) /\ (ProfileSyncs(x) => x = v /\ c.who = "sync")
      BY <1>5, <1>7, <1>8, <3>4 DEF ProfileLoads, ProfileRemoves
    <3>10. ProfileChains'
      BY <3>3, <3>6, <3>9, <1>5 DEF ProfileChains, ProfileAssumption
    <3>11. ProfileLateIsStale'
      <4>1. ASSUME NEW x \in profileCalls', x.shown, ProfileLoader(x)
            PROVE  FALSE
        <5>1. x \in profileCalls /\ x # c
          BY <1>10, <4>1
        <5>2. ProfileLoads(x) \/ ProfileSyncs(x) \/ ProfileRemoves(x)
          BY <4>1 DEF ProfileLoader, ProfileLoads, ProfileSyncs, ProfileRemoves
        <5> QED BY <3>4, <5>1, <5>2
      <4> QED BY <4>1 DEF ProfileLateIsStale, ProfileLoader
    <3>12. ProfileListFollows'
      BY <3>2, <3>6, <1>9 DEF ProfileListFollows
    <3>13. ProfileQuestsFollow'
      <4>1. \A x : x.op = "board" => (x \in profileCalls' <=> x \in profileCalls)
        BY <1>1, <1>5, <1>7, <1>8
      <4> QED BY <4>1, <1>8, <3>3, <3>6 DEF ProfileInv, ProfileQuestsFollow
    <3> QED BY <3>2, <3>6, <3>7, <3>10, <3>11, <3>12, <3>13
  <2>2. CASE ~c.shown
    <3>1. profilePage' = profilePage /\ profileStale' = profileStale
      BY <2>2, <1>8 DEF Profile!BaseLoaded, Profile!Doubt, ProfileInv, ProfileTypes
    <3>2. \A x : x.shown => (x \in profileCalls' <=> x \in profileCalls)
      BY <1>5, <1>7, <1>8, <2>2
    <3>3. ProfileBusy' /\ ProfileChains' /\ ProfileLateIsStale' /\ ProfileQuestsFollow'
      BY <3>1, <3>2, <1>8 DEF ProfileInv, ProfileBusy, ProfileChains, ProfileLateIsStale, ProfileQuestsFollow, ProfileLoads, ProfileSyncs, ProfileRemoves, ProfileLoader
    <3>4. ProfileListFollows'
      BY <3>1, <3>2, <1>9 DEF ProfileInv, ProfileListFollows, ProfileCovers
    <3> QED BY <3>1, <3>3, <3>4 DEF ProfileInv, ProfileTypes
  <2> QED BY <1>1, <2>1, <2>2
<1> QED BY <1>8, <1>10, <1>11, <1>12, <1>13 DEF ProfileInv, ProfileTypes, ProfileCallOK, ProfileLoader

\* A change that was made leads on to a load of the list; one that failed ends.
LEMMA WriteAnsweredKeeps ==
  ASSUME ProfileAssumption, ProfileInv, NEW c \in profileCalls, Profile!WriteAnswered(c)
  PROVE  ProfileInv'
<1>1. c \in ProfileCallTypes /\ ProfileCallOK(c) /\ c.op \in {"sync", "remove"} /\ c.at \in {"done", "late", "failed"} /\ profilePage \in ProfilePageTypes
      /\ c.shown \in BOOLEAN
  BY DEF ProfileInv, ProfileTypes, Profile!WriteAnswered, Profile!Ended, ProfileCallTypes
<1>2. UNCHANGED <<profileHeld, profileConsents, profileConnected, profileAway, profileStale, profileMisplaced>>
  BY DEF Profile!WriteAnswered, Profile!service, Profile!excuses
<1>3. Profile!Listing' = Profile!Listing
  BY <1>2 DEF Profile!Listing, Profile!Held
<1>4. ProfileConsentsOnce'
  BY <1>2 DEF ProfileInv, ProfileConsentsOnce
<1>5. CASE c.at = "done"
  <2>1. PICK w : w = Profile!Call("list", c.op)
    OBVIOUS
  <2>2. w \in ProfileCallTypes /\ w.op = "list" /\ w.who = c.op /\ w.at = "sent"
    BY <1>1, <2>1, NewCall
  <2>3. PICK v : v = [w EXCEPT !.shown = c.shown]
    OBVIOUS
  <2>4. v \in ProfileCallTypes /\ v.op = "list" /\ v.who = c.op /\ v.at = "sent" /\ v.shown = c.shown
    BY <1>1, <2>2, <2>3 DEF ProfileCallTypes
  <2>5. ProfileCallOK(v) /\ (ProfileCovers(c) => ProfileCovers(v))
    BY <2>4 DEF ProfileCallOK, ProfileLoader, ProfileCovers
  <2>6. profileCalls' = (profileCalls \ {c}) \cup {v} /\ profilePage' = profilePage
    BY <1>5, <2>1, <2>3 DEF Profile!WriteAnswered
  <2>7. profileCalls' \subseteq ProfileCallTypes /\ (\A x \in profileCalls' : ProfileCallOK(x))
    BY <2>4, <2>5, <2>6 DEF ProfileInv, ProfileTypes
  <2>8. ProfileBusy' /\ ProfileChains' /\ ProfileQuestsFollow'
    <3>1. PICK img : img = [d \in profileCalls |-> IF d = c THEN v ELSE d]
      OBVIOUS
    <3>2. PICK extra : extra = {}
      OBVIOUS
    <3>3. profileCalls' = {img[d] : d \in profileCalls} \cup extra /\ \A e \in extra : ~e.shown
      BY <3>1, <3>2, <2>6
    <3>4. ProfileSameRole(v, c)
      BY <1>1, <2>4 DEF ProfileSameRole, ProfileLoads, ProfileSyncs, ProfileRemoves
    <3>5. \A d \in profileCalls : ProfileSameRole(img[d], d)
      BY <3>1, <3>4, ProfileSameCall
    <3>6. profilePage' = profilePage /\ profileMisplaced' = profileMisplaced /\ (profileStale => profileStale')
      BY <1>2, <2>6
    <3> QED BY <3>3, <3>5, <3>6, CallsStay
  <2>9. ProfileFresh' /\ ProfileLateIsStale'
    <3>1. \A x \in profileCalls' : x.at # "sent" => x \in profileCalls
      BY <2>4, <2>6
    <3> QED BY <3>1, <1>2, <1>3 DEF ProfileInv, ProfileFresh, ProfileLateIsStale, ProfileLoader
  <2>10. ProfileListFollows'
    <3>1. ASSUME NEW d \in profileCalls, ProfileCovers(d) PROVE \E x \in profileCalls' : ProfileCovers(x)
      BY <3>1, <2>5, <2>6
    <3> QED BY <3>1, <2>6, <1>2, <1>3 DEF ProfileInv, ProfileListFollows
  <2> QED BY <1>2, <1>4, <2>6, <2>7, <2>8, <2>9, <2>10 DEF ProfileInv, ProfileTypes, ProfileCallOK, ProfileLoader
<1>6. CASE c.at # "done"
  <2>1. profileCalls' = profileCalls \ {c}
    BY <1>6 DEF Profile!WriteAnswered
  <2>2. profilePage' = IF ~c.shown THEN profilePage ELSE IF c.op = "sync" THEN [profilePage EXCEPT !.syncing = Nil] ELSE [profilePage EXCEPT !.removing = Nil]
    BY <1>6 DEF Profile!WriteAnswered
  <2>3. /\ profilePage' \in ProfilePageTypes /\ profilePage'.open = profilePage.open /\ profilePage'.loading = profilePage.loading /\ profilePage'.list = profilePage.list
        /\ profilePage'.active = profilePage.active /\ profilePage'.quests = profilePage.quests /\ profilePage'.connecting = profilePage.connecting
        /\ profilePage'.syncing = (IF c.shown /\ c.op = "sync" THEN Nil ELSE profilePage.syncing)
        /\ profilePage'.removing = (IF c.shown /\ c.op = "remove" THEN Nil ELSE profilePage.removing)
    BY <1>1, <2>2 DEF ProfilePageTypes
  <2>4. ProfileBusy'
    BY <1>1, <2>1, <2>3 DEF ProfileInv, ProfileBusy, ProfileLoads, ProfileSyncs, ProfileRemoves
  <2>5. ProfileChains'
    BY <1>1, <1>2, <2>1, <2>3 DEF ProfileInv, ProfileChains, ProfileLoads, ProfileSyncs, ProfileRemoves
  <2>6. ProfileFresh' /\ ProfileLateIsStale'
    BY <1>2, <1>3, <2>1 DEF ProfileInv, ProfileFresh, ProfileLateIsStale, ProfileLoader
  <2>7. ~ProfileCovers(c)
    BY <1>1, <1>6 DEF ProfileCovers, ProfileLoader
  <2>8. ProfileListFollows'
    <3>1. ASSUME NEW d \in profileCalls, ProfileCovers(d) PROVE \E x \in profileCalls' : ProfileCovers(x)
      BY <3>1, <2>1, <2>7
    <3> QED BY <3>1, <2>3, <1>2, <1>3 DEF ProfileInv, ProfileListFollows
  <2>9. ProfileQuestsFollow'
    BY <1>1, <1>2, <2>1, <2>3 DEF ProfileInv, ProfileQuestsFollow
  <2> QED BY <1>2, <1>4, <2>1, <2>3, <2>4, <2>5, <2>6, <2>8, <2>9 DEF ProfileInv, ProfileTypes, ProfileCallOK, ProfileLoader
<1> QED BY <1>5, <1>6

LEMMA ReloadKeeps ==
  ASSUME ProfileAssumption, ProfileInv, NEW c \in profileCalls, Profile!reloadCalendarConnections(c)
  PROVE  ProfileInv'
<1>1. c \in ProfileCallTypes /\ ProfileCallOK(c) /\ c.op = "list" /\ c.at \in {"done", "late", "failed"} /\ profilePage \in ProfilePageTypes /\ c.shown \in BOOLEAN
  BY DEF ProfileInv, ProfileTypes, Profile!reloadCalendarConnections, Profile!Ended, ProfileCallTypes
<1>2. profileCalls' = profileCalls \ {c} /\ profileStale' = Profile!Doubt(c) /\ UNCHANGED <<profileHeld, profileConsents, profileConnected, profileAway, profileMisplaced>>
  BY DEF Profile!reloadCalendarConnections, Profile!service
<1>3. Profile!Listing' = Profile!Listing
  BY <1>2 DEF Profile!Listing, Profile!Held
<1>4. profileCalls' \subseteq ProfileCallTypes /\ (\A x \in profileCalls' : ProfileCallOK(x)) /\ ProfileFresh' /\ ProfileConsentsOnce'
  BY <1>2, <1>3 DEF ProfileInv, ProfileTypes, ProfileFresh, ProfileConsentsOnce, ProfileLoader
<1>5. /\ profilePage' \in ProfilePageTypes /\ profileStale' \in BOOLEAN
      /\ ProfileBusy' /\ ProfileChains' /\ ProfileLateIsStale' /\ ProfileListFollows' /\ ProfileQuestsFollow'
  <2>1. CASE c.shown
    <3>1. ProfileLoader(c)
      BY <1>1 DEF ProfileLoader
    <3>2. /\ profileStale' \in BOOLEAN /\ Profile!NewList(c) \in [Calendars -> Nat] /\ (~profileStale' => Profile!NewList(c) = Profile!Listing)
          /\ \/ profileStale => profileStale'
             \/ \A d \in profileCalls : d # c => d.op \notin {"list", "sync", "remove"}
      BY <1>1, <1>2, <1>3, <2>1, <3>1, ListTaken
    <3>3. profilePage' = IF c.who = "sync" THEN [profilePage EXCEPT !.list = Profile!NewList(c), !.syncing = Nil]
                                           ELSE [profilePage EXCEPT !.list = Profile!NewList(c), !.removing = Nil]
      BY <2>1 DEF Profile!reloadCalendarConnections
    <3>4. /\ profilePage' \in ProfilePageTypes /\ profilePage'.open = profilePage.open /\ profilePage'.loading = profilePage.loading /\ profilePage'.list = Profile!NewList(c)
          /\ profilePage'.active = profilePage.active /\ profilePage'.quests = profilePage.quests /\ profilePage'.connecting = profilePage.connecting
          /\ profilePage'.syncing = (IF c.who = "sync" THEN Nil ELSE profilePage.syncing)
          /\ profilePage'.removing = (IF c.who # "sync" THEN Nil ELSE profilePage.removing)
      BY <1>1, <3>2, <3>3 DEF ProfilePageTypes
    <3>5. (ProfileSyncs(c) <=> c.who = "sync") /\ (ProfileRemoves(c) <=> c.who # "sync") /\ ~ProfileLoads(c)
      BY <1>1, <2>1 DEF ProfileSyncs, ProfileRemoves, ProfileLoads
    <3>6. ProfileBusy'
      BY <1>1, <1>2, <3>4, <3>5 DEF ProfileInv, ProfileBusy
    <3>7. ~profilePage.loading /\ \A d \in profileCalls : ~ProfileLoads(d)
      BY <3>5 DEF ProfileInv, ProfileChains
    <3>8. ProfileChains'
      <4>1. \A x, y \in profileCalls' : ProfileSyncs(x) /\ ProfileRemoves(y) => profileStale'
        <5> SUFFICES ASSUME NEW x \in profileCalls', NEW y \in profileCalls', ProfileSyncs(x), ProfileRemoves(y) PROVE profileStale'
          OBVIOUS
        <5>1. x \in profileCalls /\ x # c /\ x.op \in {"sync", "list"}
          BY <1>2 DEF ProfileSyncs
        <5>2. y \in profileCalls /\ profileStale
          BY <1>2, <5>1 DEF ProfileInv, ProfileChains
        <5> QED BY <3>2, <5>1, <5>2
      <4>2. \A x \in profileCalls' : (ProfileSyncs(x) => profilePage'.syncing # Nil /\ ~profilePage'.loading) /\ (ProfileRemoves(x) => profilePage'.removing # Nil /\ ~profilePage'.loading)
        BY <1>2, <3>4, <3>5 DEF ProfileInv, ProfileChains
      <4> QED BY <1>2, <3>4, <3>7, <4>1, <4>2 DEF ProfileInv, ProfileChains
    <3>9. ProfileLateIsStale'
      <4>1. ASSUME NEW x \in profileCalls', x.shown, ProfileLoader(x), x.at = "late"
            PROVE  profileStale'
        <5>1. x \in profileCalls /\ x # c
          BY <1>2, <4>1
        <5>2. x.op = "list"
          BY <3>7, <4>1, <5>1 DEF ProfileLoader, ProfileLoads
        <5>3. profileStale
          BY <4>1, <5>1 DEF ProfileInv, ProfileLateIsStale, ProfileLoader
        <5> QED BY <3>2, <5>1, <5>2, <5>3
      <4> QED BY <4>1 DEF ProfileLateIsStale, ProfileLoader
    <3>10. ProfileListFollows'
      BY <3>2, <3>4, <1>3 DEF ProfileListFollows
    <3>11. ProfileQuestsFollow'
      BY <1>1, <1>2, <3>4 DEF ProfileInv, ProfileQuestsFollow
    <3> QED BY <3>2, <3>4, <3>6, <3>8, <3>9, <3>10, <3>11
  <2>2. CASE ~c.shown
    <3>1. profilePage' = profilePage /\ profileStale' = profileStale
      BY <2>2, <1>2 DEF Profile!reloadCalendarConnections, Profile!Doubt, ProfileInv, ProfileTypes
    <3>2. \A x : x.shown => (x \in profileCalls' <=> x \in profileCalls)
      BY <1>2, <2>2
    <3>3. ProfileBusy' /\ ProfileChains' /\ ProfileLateIsStale' /\ ProfileQuestsFollow'
      BY <3>1, <3>2, <1>2 DEF ProfileInv, ProfileBusy, ProfileChains, ProfileLateIsStale, ProfileQuestsFollow, ProfileLoads, ProfileSyncs, ProfileRemoves, ProfileLoader
    <3>4. ProfileListFollows'
      BY <3>1, <3>2, <1>3 DEF ProfileInv, ProfileListFollows, ProfileCovers
    <3> QED BY <3>1, <3>3, <3>4 DEF ProfileInv, ProfileTypes
  <2> QED BY <1>1, <2>1, <2>2
<1> QED BY <1>2, <1>4, <1>5 DEF ProfileInv, ProfileTypes, ProfileCallOK, ProfileLoader

\* A call that has nothing to do with the list ends.
LEMMA CallEnds ==
  ASSUME ProfileInv, NEW c \in profileCalls, c.op \in {"board", "connect"}, profileCalls' = profileCalls \ {c},
         profilePage' \in ProfilePageTypes, profilePage'.open = profilePage.open, profilePage'.list = profilePage.list, profilePage'.loading = profilePage.loading,
         profilePage'.syncing = profilePage.syncing, profilePage'.removing = profilePage.removing,
         profilePage'.connecting => profilePage.connecting /\ ~(c.shown /\ c.op = "connect"),
         profileMisplaced' \in BOOLEAN, UNCHANGED <<profileHeld, profileConsents, profileConnected, profileAway, profileStale>>, ProfileQuestsFollow'
  PROVE  ProfileInv'
<1>1. profileCalls' \subseteq ProfileCallTypes /\ (\A x \in profileCalls' : ProfileCallOK(x))
  BY DEF ProfileInv, ProfileTypes
<1>2. Profile!Listing' = Profile!Listing
  BY DEF Profile!Listing, Profile!Held
<1>3. ProfileBusy' /\ ProfileChains'
  BY DEF ProfileInv, ProfileBusy, ProfileChains, ProfileLoads, ProfileSyncs, ProfileRemoves
<1>4. ProfileFresh' /\ ProfileLateIsStale' /\ ProfileConsentsOnce'
  BY <1>2 DEF ProfileInv, ProfileFresh, ProfileLateIsStale, ProfileLoader, ProfileConsentsOnce
<1>5. ProfileListFollows'
  <2>1. ASSUME NEW d \in profileCalls, ProfileCovers(d) PROVE \E x \in profileCalls' : ProfileCovers(x)
    BY <2>1 DEF ProfileCovers, ProfileLoader
  <2> QED BY <2>1, <1>2 DEF ProfileInv, ProfileListFollows
<1> QED BY <1>1, <1>3, <1>4, <1>5 DEF ProfileInv, ProfileTypes, ProfileCallOK, ProfileLoader

LEMMA BoardLoadedKeeps ==
  ASSUME ProfileAssumption, ProfileInv, NEW c \in profileCalls, Profile!BoardLoaded(c)
  PROVE  ProfileInv'
<1>1. c \in ProfileCallTypes /\ ProfileCallOK(c) /\ c.op = "board" /\ c.at \in {"done", "failed"} /\ c.who \in OfBoards /\ profilePage \in ProfilePageTypes
      /\ c.shown \in BOOLEAN /\ profileMisplaced \in BOOLEAN
  BY DEF ProfileInv, ProfileTypes, Profile!BoardLoaded, Profile!Ended, ProfileCallTypes, ProfileCallOK
<1>2. /\ profileCalls' = profileCalls \ {c} /\ UNCHANGED <<profileHeld, profileConsents, profileConnected, profileAway, profileStale>>
      /\ profilePage' = IF c.shown THEN [profilePage EXCEPT !.quests = IF c.at = "done" THEN c.who ELSE Nil] ELSE profilePage
      /\ profileMisplaced' = (profileMisplaced \/ (c.shown /\ c.at = "failed"))
  BY DEF Profile!BoardLoaded, Profile!service
<1>3. /\ profilePage' \in ProfilePageTypes /\ profilePage'.open = profilePage.open /\ profilePage'.loading = profilePage.loading /\ profilePage'.list = profilePage.list
      /\ profilePage'.active = profilePage.active /\ profilePage'.connecting = profilePage.connecting /\ profilePage'.syncing = profilePage.syncing /\ profilePage'.removing = profilePage.removing
      /\ c.shown /\ c.at = "done" => profilePage'.quests = c.who
      /\ ~c.shown => profilePage'.quests = profilePage.quests
  BY <1>1, <1>2 DEF ProfilePageTypes
<1>4. ProfileQuestsFollow'
  <2> SUFFICES ASSUME profilePage.open, ~profileMisplaced'
               PROVE  /\ \A d \in profileCalls' : d.shown /\ d.op = "board" => d.who = profilePage.active
                      /\ profilePage'.quests = profilePage.active \/ \E d \in profileCalls' : d.shown /\ d.op = "board"
    BY <1>3 DEF ProfileQuestsFollow
  <2>1. ~profileMisplaced /\ (c.shown => c.at = "done")
    BY <1>1, <1>2
  <2>2. \A d \in profileCalls : d.shown /\ d.op = "board" => d.who = profilePage.active
    BY <2>1 DEF ProfileInv, ProfileQuestsFollow
  <2>3. CASE c.shown
    BY <1>1, <1>2, <1>3, <2>1, <2>2, <2>3
  <2>4. CASE ~c.shown
    <3>1. profilePage.quests = profilePage.active \/ \E d \in profileCalls : d.shown /\ d.op = "board"
      BY <2>1 DEF ProfileInv, ProfileQuestsFollow
    <3> QED BY <1>2, <1>3, <2>2, <2>4, <3>1
  <2> QED BY <2>3, <2>4
<1> QED BY <1>1, <1>2, <1>3, <1>4, CallEnds

LEMMA ConnectAnsweredKeeps ==
  ASSUME ProfileAssumption, ProfileInv, NEW c \in profileCalls, Profile!ConnectAnswered(c)
  PROVE  ProfileInv'
<1>1. c \in ProfileCallTypes /\ ProfileCallOK(c) /\ c.op = "connect" /\ c.at \in {"done", "late", "failed"} /\ profilePage \in ProfilePageTypes
      /\ c.shown \in BOOLEAN
  BY DEF ProfileInv, ProfileTypes, Profile!ConnectAnswered, Profile!Ended, ProfileCallTypes
<1>2. UNCHANGED <<profileHeld, profileConsents, profileConnected, profileStale, profileMisplaced>>
  BY DEF Profile!ConnectAnswered, Profile!service, Profile!excuses
<1>3. CASE c.at = "done"
  <2>1. profileAway' = c.doc /\ profilePage' = Profile!NoPage /\ profileCalls' = Profile!Unloaded
    BY <1>3 DEF Profile!ConnectAnswered
  <2>2. c.doc \in Consents
    BY <1>1, <1>3 DEF ProfileCallOK
  <2> QED BY <1>2, <2>1, <2>2, UnloadedOK, PageLeft
<1>4. CASE c.at # "done"
  <2>1. /\ profileCalls' = profileCalls \ {c} /\ profileAway' = profileAway
        /\ profilePage' = IF c.shown THEN [profilePage EXCEPT !.connecting = FALSE] ELSE profilePage
    BY <1>4 DEF Profile!ConnectAnswered
  <2>2. /\ profilePage' \in ProfilePageTypes /\ profilePage'.open = profilePage.open /\ profilePage'.loading = profilePage.loading /\ profilePage'.list = profilePage.list
        /\ profilePage'.active = profilePage.active /\ profilePage'.quests = profilePage.quests /\ profilePage'.syncing = profilePage.syncing /\ profilePage'.removing = profilePage.removing
        /\ profilePage'.connecting = (profilePage.connecting /\ ~c.shown)
    BY <1>1, <2>1 DEF ProfilePageTypes
  <2>3. ProfileQuestsFollow'
    BY <1>1, <1>2, <2>1, <2>2 DEF ProfileInv, ProfileQuestsFollow
  <2>4. profileMisplaced' \in BOOLEAN
    BY <1>2 DEF ProfileInv, ProfileTypes
  <2> QED BY <1>1, <1>2, <2>1, <2>2, <2>3, <2>4, CallEnds
<1> QED BY <1>3, <1>4

-----------------------------------------------------------------------------
(* The theorem *)

LEMMA ProfileStep ==
  ASSUME ProfileAssumption, ProfileInv, [Profile!Next]_profileVars
  PROVE  ProfileInv'
<1>1. CASE Profile!Gesture
  <2>1. ASSUME NEW b \in OfBoards, Profile!switchBoard(b) \/ Profile!Return(b) PROVE ProfileInv'
    BY <2>1, SwitchBoardKeeps, ReturnKeeps
  <2>2. ASSUME NEW key \in Calendars \cup {"all"}, Profile!syncCalendar(key) PROVE ProfileInv'
    BY <2>2, SyncCalendarKeeps
  <2>3. ASSUME NEW a \in Calendars, Profile!disconnectCalendar(a) \/ Profile!TokenExpires(a) PROVE ProfileInv'
    BY <2>3, DisconnectKeeps, TokenExpiresKeeps
  <2>4. ASSUME Profile!startCalendarConnect \/ Profile!Leave PROVE ProfileInv'
    BY <2>4, StartConnectKeeps, LeaveKeeps
  <2>5. ASSUME NEW k \in Consents, Profile!Callback(k) PROVE ProfileInv'
    BY <2>5, CallbackKeeps
  <2> QED BY <1>1, <2>1, <2>2, <2>3, <2>4, <2>5 DEF Profile!Gesture
<1>2. CASE Profile!Progress
  <2>1. PICK c \in profileCalls :
          \/ Profile!ServeRead(c) \/ Profile!DeleteConnection(c) \/ Profile!SyncLists(c) \/ Profile!SyncReads(c) \/ Profile!SyncEnds(c) \/ Profile!BeginConnect(c)
          \/ \E t \in c.left : c.at = "working" /\ (Profile!TokenReady(c, t) \/ Profile!SyncMarks(c, t) \/ Profile!SyncSkips(c, t))
          \/ Profile!BaseLoaded(c) \/ Profile!WriteAnswered(c) \/ Profile!reloadCalendarConnections(c) \/ Profile!BoardLoaded(c) \/ Profile!ConnectAnswered(c)
          \/ Profile!CallFails(c)
    BY <1>2 DEF Profile!Progress
  <2>2. ASSUME Profile!ServeRead(c) \/ Profile!DeleteConnection(c) \/ Profile!SyncLists(c) \/ Profile!SyncReads(c) \/ Profile!SyncEnds(c) \/ Profile!BeginConnect(c)
        PROVE  ProfileInv'
    BY <2>2, ServeReadKeeps, DeleteConnectionKeeps, SyncListsKeeps, SyncReadsKeeps, SyncEndsKeeps, BeginConnectKeeps
  <2>3. ASSUME NEW t \in c.left, Profile!TokenReady(c, t) \/ Profile!SyncMarks(c, t) \/ Profile!SyncSkips(c, t) PROVE ProfileInv'
    BY <2>3, TokenReadyKeeps, SyncMarksKeeps, SyncSkipsKeeps
  <2>4. ASSUME \/ Profile!BaseLoaded(c) \/ Profile!WriteAnswered(c) \/ Profile!reloadCalendarConnections(c) \/ Profile!BoardLoaded(c) \/ Profile!ConnectAnswered(c)
               \/ Profile!CallFails(c)
        PROVE  ProfileInv'
    BY <2>4, BaseLoadedKeeps, WriteAnsweredKeeps, ReloadKeeps, BoardLoadedKeeps, ConnectAnsweredKeeps, CallFailsKeeps
  <2> QED BY <2>1, <2>2, <2>3, <2>4
<1>3. CASE UNCHANGED profileVars
  <2>1. UNCHANGED <<profileHeld, profileConsents, profileConnected, profileAway, profilePage, profileCalls, profileStale, profileMisplaced>>
    BY <1>3 DEF profileVars, Profile!service, Profile!tab, Profile!excuses
  <2>2. Profile!Listing' = Profile!Listing
    BY <2>1 DEF Profile!Listing, Profile!Held
  <2>3. ProfileBusy' /\ ProfileChains' /\ ProfileListFollows' /\ ProfileQuestsFollow' /\ ProfileLateIsStale'
    BY <2>1, <2>2 DEF ProfileInv, ProfileBusy, ProfileChains, ProfileListFollows, ProfileQuestsFollow, ProfileLateIsStale, ProfileCovers, ProfileLoader, ProfileLoads, ProfileSyncs, ProfileRemoves
  <2>4. ProfileFresh' /\ ProfileConsentsOnce'
    BY <2>1, <2>2 DEF ProfileInv, ProfileFresh, ProfileConsentsOnce, ProfileLoader
  <2> QED BY <2>1, <2>3, <2>4 DEF ProfileInv, ProfileTypes, ProfileCallOK, ProfileLoader
<1> QED BY <1>1, <1>2, <1>3 DEF Profile!Next

LEMMA ProfileRests ==
  ASSUME ProfileInv
  PROVE  Profile!ShowsWhatIsHeld
<1>1. Profile!TypeOK
  BY DEF ProfileInv, ProfileTypes, ProfilePageTypes, ProfileHeldTypes, Profile!TypeOK
<1>2. ASSUME profilePage.open, profileCalls = {}
      PROVE  /\ ~profilePage.loading /\ profilePage.syncing = Nil /\ profilePage.removing = Nil /\ ~profilePage.connecting
             /\ ~profileStale => profilePage.list = Profile!Listing
             /\ ~profileMisplaced => profilePage.quests = profilePage.active
  <2>1. ~profilePage.loading /\ profilePage.syncing = Nil /\ profilePage.removing = Nil /\ ~profilePage.connecting
    BY <1>2 DEF ProfileInv, ProfileBusy
  <2>2. ~profileStale => profilePage.list = Profile!Listing
    BY <1>2 DEF ProfileInv, ProfileListFollows
  <2>3. ~profileMisplaced => profilePage.quests = profilePage.active
    BY <1>2 DEF ProfileInv, ProfileQuestsFollow
  <2> QED BY <2>1, <2>2, <2>3
<1>3. \A k \in Consents : profileConnected[k] <= 1
  BY DEF ProfileInv, ProfileConsentsOnce
<1> QED BY <1>1, <1>2, <1>3 DEF Profile!ShowsWhatIsHeld

LEMMA StepsProfile ==
  ASSUME [PagesNext]_pagesvars, OnProfile
  PROVE  [Profile!Next]_profileVars /\ OnProfile'
BY DEF PagesNext, pagesvars, OnlyCards, OnlyHome, OnlyTeam, OnlyProfile, OnlyShare, OnCards, OnHome, OnTeam, OnProfile, OnShare

LEMMA StaysProfile ==
  ASSUME [PagesNext]_pagesvars
  PROVE  OnProfile' <=> OnProfile
BY DEF PagesNext, pagesvars, OnlyCards, OnlyHome, OnlyTeam, OnlyProfile, OnlyShare, OnProfile

(* ProfileShowsWhatIsHeld: however calls overtake each other, are lost, or are  *)
(* left behind by a page that closes, the profile page comes to rest with its   *)
(* buttons free, the connections the service holds and the quests of its board, *)
(* and a consent connects once.                                                 *)
THEOREM ProfilePageShows == PagesSpec => []ProfileShowsWhatIsHeld
<1> DEFINE Inv == OnProfile => ProfileInv
<1>0. ProfileAssumption
  BY PagesAssumption
<1>1. PagesInit => Inv
  BY <1>0, InitProfile DEF PagesInit, OnCards, OnHome, OnTeam, OnProfile, OnShare
<1>2. Inv /\ [PagesNext]_pagesvars => Inv'
  BY <1>0, StepsProfile, StaysProfile, ProfileStep
<1>3. Inv => ProfileShowsWhatIsHeld
  BY <1>0, ProfileRests DEF ProfileShowsWhatIsHeld
<1> QED BY <1>1, <1>2, <1>3, PTL DEF PagesSpec

=============================================================================
