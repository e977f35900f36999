---------------------------- MODULE BoardCommand ----------------------------
(***************************************************************************)
(* The way of a command: browser tabs that load the board and send a       *)
(* gesture with the version they saw, Service.Command and                  *)
(* Service.GrantStorePurchase under the service's mutex, the task service  *)
(* called in the middle of a command, and the save at its end.  A request  *)
(* may fail after its calls to the task service, and the process may stop  *)
(* at any point: the board is then not saved and the calls stay.           *)
(*                                                                         *)
(* Abstractions.  One board; one process, which is what the deployment     *)
(* keeps running, so one mutex.  A tab makes one gesture.  Quests, and     *)
(* edits of the task list outside the board, are left out.                 *)
(***************************************************************************)
EXTENDS BoardDoc, FiniteSets

CONSTANTS Deliveries,   \* deliveries of webhook events, redelivered until answered
          SessionOf,    \* delivery |-> the checkout session it reports
          MaxFaults     \* bound: failed calls, failed saves, lost answers, restarts

ASSUME DeliveriesAssumption ==
  /\ SessionOf \in [Deliveries -> Sessions]
  /\ Deliveries \cap Gestures = {}
  /\ MaxFaults \in Nat

Requests == Gestures \cup Deliveries

VARIABLES stored,    \* the row of board_states
          rows,      \* the task list
          holds,     \* requests inside the mutex: at most one
          step,      \* where each request is
          local,     \* the document a request inside the mutex works on
          view,      \* the document a tab has loaded
          sent,      \* how often a tab has sent its gesture
          faults
vars == <<stored, rows, holds, step, local, view, sent, faults>>

Steps == {"idle", "ready", "waiting", "loaded", "executed", "ok", "conflict", "error"}

Init ==
  /\ stored = FirstDoc
  /\ rows = [r \in Rows |-> IF r \in Tasks THEN "open" ELSE "absent"]
  /\ holds = {}
  /\ step = [r \in Requests |-> "idle"]
  /\ local = [r \in Requests |-> FirstDoc]
  /\ view = [g \in Gestures |-> FirstDoc]
  /\ sent = [g \in Gestures |-> 0]
  /\ faults = 0

Goto(r, s) == step' = [step EXCEPT ![r] = s]
Fault == faults < MaxFaults /\ faults' = faults + 1

-----------------------------------------------------------------------------
(* Tabs: BoardControllerData.tsx *)

\* loadBoard.  GetState takes no mutex and saves nothing.
LoadBoard(g) ==
  /\ step[g] = "idle"
  /\ view' = [view EXCEPT ![g] = stored]
  /\ Goto(g, "ready")
  /\ UNCHANGED <<stored, rows, holds, local, sent, faults>>

\* sendCommand up to the request.
SendCommand(g) ==
  /\ step[g] = "ready"
  /\ sent' = [sent EXCEPT ![g] = @ + 1]
  /\ Goto(g, "waiting")
  /\ UNCHANGED <<stored, rows, holds, local, view, faults>>

\* retryConflict: a conflict is answered by loading and sending once more.
Retries(g) == step[g] = "conflict" /\ sent[g] = 1

RetryConflict(g) ==
  /\ Retries(g)
  /\ view' = [view EXCEPT ![g] = stored]
  /\ Goto(g, "ready")
  /\ UNCHANGED <<stored, rows, holds, local, sent, faults>>

\* The event of a paid session, again until it is answered with success.
Deliver(d) ==
  /\ step[d] \in {"idle", "error"}
  /\ Goto(d, "waiting")
  /\ UNCHANGED <<stored, rows, holds, local, view, sent, faults>>

-----------------------------------------------------------------------------
(* The service *)

\* Fault: nothing keeps two commands apart.
MutexAlwaysFree(r) == TRUE

MutexFree(r) == holds = {}

\* Lock, and Repository.Load.
Begin(r) ==
  /\ step[r] = "waiting"
  /\ MutexFree(r)
  /\ holds' = holds \cup {r}
  /\ local' = [local EXCEPT ![r] = stored]
  /\ Goto(r, "loaded")
  /\ UNCHANGED <<stored, rows, view, sent, faults>>

\* Fault: a return that does not unlock.
UnlockUnlessConflict(r) == IF step[r] = "loaded" THEN holds ELSE holds \ {r}

\* defer s.mu.Unlock()
Unlock(r) == holds \ {r}

Current(g) == view[g].version = local[g].version

\* VersionConflictError
Conflict(g) ==
  /\ step[g] = "loaded" /\ ~Current(g)
  /\ holds' = Unlock(g)
  /\ Goto(g, "conflict")
  /\ UNCHANGED <<stored, rows, local, view, sent, faults>>

\* Fault: an error of the task service is swallowed.
AnyTaskCallGoesThrough(g, called) == TRUE

TaskCallGoesThrough(g, called) == called

\* The task list after the command's call, if it makes one and it succeeds:
\* Create is atomic, Close leaves a closed row as it is.
Called(g) ==
  CASE KindOf[g] = "create"   -> [rows EXCEPT ![g] = "open"]
    [] KindOf[g] = "complete" -> [rows EXCEPT ![Target[g]] = "closed"]
    [] OTHER -> rows

\* executeCommand: it finds its cards, and its call to the task service, which
\* may fail, comes before anything is saved.
Execute(g, called) ==
  /\ step[g] = "loaded" /\ Current(g)
  /\ ~called => Fault /\ KindOf[g] \in {"create", "complete"}
  /\ called => UNCHANGED faults
  /\ IF Possible(local[g], g)
     THEN /\ rows' = IF called THEN Called(g) ELSE rows
          /\ IF TaskCallGoesThrough(g, called)
             THEN /\ \E bump \in Bumps(g) :
                       local' = [local EXCEPT ![g] = Effect(@, g, bump)]
                  /\ Goto(g, "executed")
                  /\ UNCHANGED holds
             ELSE /\ Goto(g, "error")
                  /\ holds' = Unlock(g)
                  /\ UNCHANGED local
     ELSE /\ Goto(g, "error")
          /\ holds' = Unlock(g)
          /\ UNCHANGED <<rows, local>>
  /\ UNCHANGED <<stored, view, sent>>

\* GrantStorePurchase: AlreadyApplied is a success and saves nothing.
GrantStorePurchase(d) ==
  /\ step[d] = "loaded"
  /\ IF SessionOf[d] \in local[d].receipts
     THEN /\ holds' = Unlock(d)
          /\ Goto(d, "ok")
          /\ UNCHANGED local
     ELSE /\ \E bump \in Delivered :
               local' = [local EXCEPT ![d] = Granted(@, SessionOf[d], bump)]
          /\ Goto(d, "executed")
          /\ UNCHANGED holds
  /\ UNCHANGED <<stored, rows, view, sent, faults>>

\* Repository.Save: an upsert that compares nothing.
Save(r) ==
  /\ step[r] = "executed"
  /\ stored' = local[r]
  /\ holds' = Unlock(r)
  /\ Goto(r, "ok")
  /\ UNCHANGED <<rows, local, view, sent, faults>>

\* Fault: the webhook logs a failed delivery and answers with success.
SwallowsDeliveryErrors(r) == IF r \in Deliveries THEN "ok" ELSE "error"

FailureAnswer(r) == "error"

\* Save returns an error; the database may have written the row all the same.
SaveFails(r) ==
  /\ step[r] = "executed" /\ Fault
  /\ stored' \in {stored, local[r]}
  /\ holds' = Unlock(r)
  /\ Goto(r, FailureAnswer(r))
  /\ UNCHANGED <<rows, local, view, sent>>

\* The answer to a command or a delivery that was saved does not arrive.
LoseAnswer(r) ==
  /\ step[r] = "ok" /\ Fault
  /\ Goto(r, "error")
  /\ UNCHANGED <<stored, rows, holds, local, view, sent>>

\* The process stops and starts again: every request in it is answered by an error.
Restart ==
  /\ Fault
  /\ step' = [r \in Requests |->
                IF step[r] \in {"waiting", "loaded", "executed"} THEN "error" ELSE step[r]]
  /\ holds' = {}
  /\ UNCHANGED <<stored, rows, local, view, sent>>

Serve(r) ==
  \/ r \in Gestures /\ (Conflict(r) \/ \E called \in BOOLEAN : Execute(r, called))
  \/ r \in Deliveries /\ GrantStorePurchase(r)
  \/ Save(r)
  \/ SaveFails(r)

Next ==
  \/ \E g \in Gestures : LoadBoard(g) \/ SendCommand(g) \/ RetryConflict(g)
  \/ \E d \in Deliveries : Deliver(d)
  \/ \E r \in Requests : Begin(r) \/ Serve(r) \/ LoseAnswer(r)
  \/ Restart

Spec == Init /\ [][Next]_vars

\* Go's mutex lets every waiter in at last, the code between Lock and Unlock has
\* no loop, a tab in the middle of sendCommand goes on, and the payment provider
\* repeats a delivery that failed.
Fairness ==
  /\ \A r \in Requests : SF_vars(Begin(r)) /\ WF_vars(Serve(r))
  /\ \A g \in Gestures : WF_vars(SendCommand(g) \/ RetryConflict(g))
  /\ \A d \in Deliveries : WF_vars(Deliver(d))

FairSpec == Spec /\ Fairness

-----------------------------------------------------------------------------
TypeOK ==
  /\ stored \in Doc
  /\ rows \in [Rows -> {"absent", "open", "closed"}]
  /\ holds \subseteq Requests
  /\ step \in [Requests -> Steps]
  /\ local \in [Requests -> Doc]
  /\ view \in [Gestures -> Doc]
  /\ sent \in [Gestures -> 0..2]
  /\ faults \in 0..MaxFaults

\* The stored document is changed by whole commands, each applied to what the
\* one before stored, no gesture counts twice whatever a tab sends again, and a
\* paid session is delivered once however often its event comes.
Ledger == INSTANCE BoardLedger WITH document <- stored
Linearizable == Ledger!Spec

\* The task list is never behind the board: a card's task has its row, and a
\* task whose card was taken off has been closed, whatever fails in between.
TaskListAhead ==
  /\ \A t \in stored.cards : rows[t] # "absent"
  /\ \A t \in Tasks \ stored.cards : rows[t] = "closed"

Placing == {g \in Gestures : KindOf[g] \in {"place", "create"}}

\* A command that passed the version check acts on a document in which every
\* placing gesture is one its tab has seen: a stale tab never gets past one.
NoPlacingUnseen ==
  \A g \in Gestures : step[g] = "loaded" /\ Current(g) =>
    \A p \in Placing : local[g].times[p] = view[g].times[p]

\* Every request that is sent is answered in the end, as long as the process is
\* not stopped for ever: no path through a command keeps the mutex.
Answered ==
  \A r \in Requests : step[r] = "waiting" ~> step[r] \in {"ok", "conflict", "error"}

\* A paid session is delivered in the end.
PaidIsDelivered ==
  \A d \in Deliveries : <>(SessionOf[d] \in stored.receipts)
=============================================================================
