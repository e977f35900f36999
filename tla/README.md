# Donegeon in TLA+

Donegeon is a task manager with a game on top: a Go server (`internal/`, started
by `cmd/donegeon`), a SolidJS client (`web/apps/client`) and a marketing site.
Rows of the task list appear as cards on a board, where they are stacked with
villagers, modifiers, resources and zombies. This directory holds TLA+ models of
the server's stateful parts and of the pages that call them, the TLC
configurations that check them on small instances, and proofs TLAPS checks for
every instance.

## Inventory

### The board, `internal/board`

* **Document** (`state.go`): cards by id, stacks by id (an ordered list of card
  ids, a position, a Z), the counter `nextZ`, and the game's meta data
  (inventory, villagers, metrics, deck counters, store receipts, quests).
  `Version()` is `nextZ` printed.
* **Commands** (`service.go`, `service_01.go` .. `service_05.go`): one request is
  one command. `Service.Command` takes the service's mutex, loads the document,
  compares the version, refreshes the quests, executes, refreshes the quests
  again and saves. An error before the save drops the document, not the effects
  on the task list.
* **Validator** (`validate.go`): which stacks may be merged, which modifiers added.
* **World** (`world.end_day`): retires the first-day decks, counts overdue tasks,
  spawns zombies, restores stamina, reopens recurring tasks.
* **Quests** (`quests*.go`): daily, story and boss quests drawn, measured,
  completed, claimed and archived.
* **Store** (`store.go`): paid items put on the board once for each checkout session.
* **Repository** (`repository.go`): one row for each board, overwritten whole.

Correct when: cards are neither lost nor copied; forbidden neighbours never meet;
a client never overwrites what it has not seen; a paid item is delivered once; a
reward is claimed once.

### Tasks, `internal/task`

Rows with labels, a due date, a recurrence and a parent. Operations: create,
update, close, reopen, delete, list. Closing a recurring task closes its row and
creates the next occurrence in one transaction. The board's day end reopens
recurring tasks on its own.

Correct when: a series has one open occurrence and does not run past its count;
a close that fails leaves nothing behind.

### Accounts, `internal/account`, and billing, `internal/httpapi`

* **Sign-in**: a challenge by e-mail (a code), attempts and expiry; sessions.
* **Workspaces and members**: invitations, roles, removal, access to boards.
* **Plans**: trial, Pro through Stripe, downgrade, and the seats Stripe bills.
  Stripe's events are repeated, late and out of order.

Correct when: a code signs in once; who joins was invited, with the role of the
invitation; a workspace keeps one owner; the seats billed are the members.

### Projects and calendars, `internal/project`, `internal/calendar`

Boards are projects with a membership. Calendar connections: a consent state
(used once), tokens and their refresh, synchronisation, removal.

Correct when: who has no access changes nothing; a state connects once.

### The client, `web/apps/client`

One tab is a set of pages whose functions wait for calls and go on with whatever
state the page has by then.

* **Board page**: the shown document and its copies in IndexedDB, polls, sends with
  one retry, pointer gestures with optimistic changes, gathers on a timer, the
  task dialog and the boards dialog.
* **Home page**: the list with its views, drags, inline edits, search and composer;
  the task dialog with previews, sections and activations.
* **Team settings, profile, sign-in and onboarding.**

Correct when: at rest a page shows what the service has; an edit goes to the task
it was made for; nothing stays lifted, busy or lost on the way.

### Others

Quick-add parsing, recurrence-rule parsing, the compatibility layer for
task-manager clients, the rate limiter, configuration, migrations, tenancy, the
marketing site and the infrastructure code. `PROJECT.json` says of each part what
is modelled.

## What is hard here

* One process serialises board commands with a mutex, but nothing else does: the
  save is an unconditional upsert, and only some commands advance the version.
* A command's effects on the task list happen before its board is saved.
* With Turso the connection pool has ten connections, so a read and the write
  that depends on it interleave with others' (closings, invitations, seats).
* Stripe's webhooks arrive in any order and more than once.
* The client reads signals after awaits: the active board, the open dialog, the
  form or the list of members may be another one by then.

## Modules

| Module | What it is |
| --- | --- |
| `BoardStacks`, `BoardStacksProofs` | the board document and what every command does to cards and stacks; its invariants, proved |
| `BoardDoc` | the document as requests see it: version, gestures taken in, task cards, receipts |
| `BoardLedger` | abstract: whole commands applied one at a time |
| `BoardCommand`, `BoardCommandProofs` | tabs, mutex, version check, task calls, saves, webhook deliveries, failures; that it implements `BoardLedger` |
| `TaskSeries`, `TaskSeriesProofs` | repeating tasks under concurrent requests and the day end; the proofs about them, the list of the home page and the two task dialogs |
| `Occurrences` | abstract: a task list in which finishing may open one next occurrence |
| `Quests`, `QuestsProofs` | the quests of a board over its days and weeks; the proofs about them and about `BoardMining` |
| `Workspace`, `WorkspaceProofs` | members, invitations, plan, subscription events, seats |
| `SignIn`, `SignInProofs` | codes, sessions, the pages on the way in and the cached answer about the session |
| `BoardTab`, `BoardTabProofs` | shown board, cache, polls, sends and task synchronisation of one tab |
| `BoardGesture`, `BoardGestureProofs` | presses, drags, splits, drops and their optimistic changes; the server is `BoardStacks` |
| `BoardMining` | gathers that a tab sends by itself |
| `BoardTaskDialog`, `HomeTaskDialog` | the two task dialogs with their chains of calls |
| `TaskList` | the list of the home page |
| `BoardSettings` | boards, their names and members, and the dialog that manages them |
| `TeamPage`, `ProfilePage` | team settings; calendar connections and quests of the profile |
| `ClientPages` | the two task dialogs, the boards dialog, the team page and the profile page, one of them in each behaviour; what each promises |
| `MC...` | constants, scenarios and limits for TLC |

Operators whose comment begins with "Fault:" are not part of a model. Each is a
mistake someone could make in the code; put in the place of the operator it
stands before, it makes TLC refute the property it is paired with in
`PROJECT.json`.

### BoardStacks

`board` is the `State` of `state.go`: `cards` (id to definition, link to a task
row, charges left), `stacks` (id to its cards, bottom first, and its Z), `nextZ`
and the serial number of the last card. The operators down to `Detach` are the
methods of `State` and the loops commands share; `ValidStackMerge` and
`ValidModifierAdd` are `validate.go`; then comes one operator for each command,
named after its `cmd...` function. A step is one successful command. A command
that returns an error is not saved, so it has no step. `normalize()`
(`state.go:178-268`), which every method calls, changes nothing in a document
that is `WellFormed`, and `TypeOK` says all of them are.

`stack.merge` is modelled with its redirections: a stack dropped on the collect
deck is collected, and a villager that meets a task, a zombie or food runs that
command instead, with that command's checks and not the validator's. Rewards join
a stack that lies near or make their own; as positions are left out, either may
happen. Stamina, currency and deck locks only make commands fail, so leaving them
out adds behaviours and removes none. A step that hands out more identifiers than
`MaxZ` or `MaxCards` allow is disabled.

### BoardDoc, BoardLedger, BoardCommand

A tab's `step` runs idle, ready, waiting, (loaded, executed while it is inside the
mutex), then ok, conflict or error. `LoadBoard`, `SendCommand` and `RetryConflict`
are `loadBoard` and `sendCommand` of `BoardControllerData.tsx`; `Begin`,
`Conflict`, `Execute`, `Save` and `SaveFails` are `Service.Command` cut where
another actor can see a difference: at the lock, at the call to the task service
and at the save. `Deliver` and `GrantStorePurchase` are the webhook and the store.
`Restart` answers every request in the process with an error and frees the
mutex. `BoardDoc` abstracts a command to what it does to the version and to task
cards: *place* counts `nextZ` up, *edit* does not, *create* and *complete* call
the task service. `times` counts how often a gesture is in the stored document and
`goods` how often a session's item is; both exist to state the properties.

### TaskSeries, Occurrences

`rows` is the tasks table, `reqs` the closings between their read
(`Service.Close`) and their write (`Repository.Close` or
`CloseRecurringAndCreateNext`), `tick` the rows a day end has listed and not yet
reopened. The two SQL closings differ where it matters: `task_close.sql` accepts a
row that is already checked, `task_close_open.sql` does not. `CloseFails` is a
request that ends between the two, or a transaction that rolls back. `Occurrences`
knows no requests: finishing and opening the next occurrence is one step. `series` remembers
of each row the first row of its series and its number in it, `touched` whether a row was
reopened and whether a rule was edited; both exist to state the properties.

### Quests

A read refreshes the quests in memory only; a command refreshes, acts, refreshes
again and saves. The dailies of a day are chosen among the templates not drawn in
the days before, as long as there are any; the model leaves the choice open
where the code hashes the day. `drawn` remembers what a read drew, because the next call
draws the same. `paid` counts what each quest's claims granted and `shown` what a read
showed, to state the properties.

### Workspace

A request checks in one step and writes in a later one, and two may overlap. The
codes of invitations are handed out in order. Provider events name the
subscription they are about and are delivered again at any time; the provider's
view of the seats changes only when a synchronisation that read the members
writes. `overlapped` remembers whether two requests were ever under way at once.

### BoardGesture

`board` is the server's document and `shown` the client's. The server is an instance of
`BoardStacks` with the three commands gestures send; a move raises its stack. `call` is the
command under way with what it was made from: the stack and index, the version it sends, the
cards that were dragged, and the document it is answered or loaded with. `astray` says what
is wrong with the document shown: `late` (it answers a load that a command overtook), `ghost`
(it holds a merge the server refused), `quiet` (another user's command left the version alone
since). A command keeps the `astray` of the document it was made on and adds what comes
after.

### SignIn

`users`, `invitation`, `challenges` and `session` are the service's; `route` and `page`
the page shown and its form; `chains` the calls pages start with, those of pages
that have been left included; `call` the form under way; `cached` what the tab believes
about its session, which goes stale after ten seconds (`GoesStale`) and is then
asked for again (`fetch`).

### The pages

A page's call is a record: what was asked, for what, what came back and how far
the chain is. `Serve...` steps answer, the steps named after the functions of the
page go on with the answer, and read the page as it is then. A page
that loads again when a change is done is correct at rest only if no answer
overtook another: the variables `stale`, `crossed`, `torn`, `mixed` record
that one did (a late, lost or overlapping call), and the properties speak of the
behaviours without. Each names in its comment what excuses it.

`ClientPages` instantiates five of the pages with variables of their own (`cardJobs`,
`teamCalls`, ...); in a behaviour one of them is `opened` and the others do not exist. No
constant is given a value there (`PagesAssumption` says what they must satisfy), so what is proved of `PagesSpec` is proved of every
instance of the pages; `MCPages` extends it with the list of the home page and with values,
scenarios and a limit on gestures.

## Runs

| Run | Module | Question | Bounds |
| --- | --- | --- | --- |
| `board_tables` | `MCBoardStacks` | cards conserved, draw order total, forbidden pairs apart, villagers kept | three boards: work (3 cards), zombies, the seeded board with decks (8 cards) |
| `series_life` | `MCTaskSeries` | closings paid for, one next occurrence, COUNT kept, refinement | 2 requests and a day end on 3 rows; or 3 requests on 2 series, 4 rows, COUNT up to 3 |
| `series_day_end` | `MCSeriesDayEnd` | finding: the day end opens a second row | 3 rows |
| `command_casts` | `MCBoardCommand` | linearizable, task list ahead, no blind placing; paying is answered and delivered under fairness | three casts of at most 3 tabs and 2 deliveries, 2 faults |
| `tab_reconciles` | `MCBoardTab` | the tab caches and shows only documents of the server; polls bring it back | 2 boards, 1 switch, 1 foreign change, 1 failed call |
| `gesture_drops` | `MCBoardGesture` | nothing lifted, cards shown once, splits take what was dragged | a board with a task, or a stack of three with another user |
| `mining_mines_out` | `MCBoardMining` | every gather was earned; mining ends with nothing left | 2 stacks of one charge, or 1 with a slower second charge and 2 disturbances |
| `workspace_members` | `MCWorkspace` | one owner, joins by invitation; seats when requests come in turn | 3 users in turn, or 2 users and 2 requests at once |
| `pages` | `MCPages` | the six parts of the client at rest, and what their saves keep | see `MCPages`: one part a behaviour, two to five gestures, one lost call |
| `sign_in` | `MCSignIn` | a code signs in once, the invited joins, the tab comes to rest on the right page | 2 addresses, 2 codes, 1 lost call, 6 gestures |
| `quests` | `MCQuests` | paid once, dailies follow the days, only shown work counts | 3 days in weeks of 2, 3 templates, 2 pieces of work |
| `story_weeks` | `MCQuests` | finding: a story is completed by work of a later week | as `quests` |

All runs say `CHECK_DEADLOCK FALSE`: the bounds on identifiers, rows, gestures and
faults stop the models where the program would go on, and a tab that has had its
answers rests.

Why the bounds are enough. A board command reads at most two stacks and moves the
cards of those two; three cards show every pair of a stack of one and a stack of
two. The seeded board needs eight cards because the default board brings six. Two
requests are what a race takes, and a third lets one overtake while two are in
their window. A closing race needs one row and its next occurrence; the third row
is the next one's. Two faults allow a retry to fail as well. A page goes wrong
when a second gesture meets the calls of the first: two or three gestures, one of which
may open a dialog, reach that, and a lost call beside it shows what a
failure leaves behind. Quests need a day for the draw, one to be
replaced and one in another week.

Which commands a run has. `DisallowedNeverTogether` is checked with the
commands that merge without the validator (`zombie.clear`, `food.consume`,
`resource.gather`) or drop rewards (`quest.claim_reward`), the day end that spawns
zombies, and the commands they run between. `VillagersSurvive` needs a run
without `stack.remove`, the command that is meant to take cards away; its theorem assumes the same.
`ClosingOpensOne` holds until a row has been reopened, by a user or by the day end, and
`ClosingKeepsCount` until a rule has been edited, whatever else runs; `series_day_end`
shows what the day end does. `series_life` has every command: a series that is both reopened
and edited has one request under way then.

### Fairness

`BoardCommand` (stated for the cast of one tab and two deliveries):

* *strong fairness of `Begin`*: a waiter of Go's `sync.Mutex` that has waited a
  millisecond is handed the lock first, so nobody waits for ever while others pass;
* *weak fairness of `Serve`*: between `Lock` and `Unlock` there is no unbounded loop,
  and each call ends within the request's context;
* *weak fairness of `SendCommand` and `RetryConflict`*: they are the next
  statements of a function that runs; `LoadBoard`, the user's choice, has none;
* *weak fairness of `Deliver`*: the payment provider repeats an event until it is
  answered with success. It gives up after some days; within `MaxFaults` it never
  comes to that.

`BoardTab`: weak fairness of each function under way, because every `fetch` ends,
and of the poll, an interval timer that is not cleared while the page is open.
`BoardMining`: the same, and of the tick of 120 ms. `SignIn`: weak fairness of
`Progress` (calls end and their functions go on), of the query of the session (it is
refetched when stale and watched), and of `GoesStale`, which is the clock.
Gestures and faults have no fairness.

## Findings

* **Day end** (`series_day_end`). Closing a repeating task inserts its next
  occurrence, and the day end also reopens the closed row, so one task becomes two,
  and both go on.
* **Weeks of a story** (`story_weeks`). Story quests are drawn for a week and never
  expire: a story whose first objective was met in its week is completed, and can
  be claimed, by work of a later one.

`PROJECT.json` quotes the documents they disagree with.

## Observations

Met while modelling; the models contain the behaviour, and the properties name it
where they excuse it.

Board:

* A resource can get two workers through `task.assign_villager`, and a task two deadline
  pins through cards made from rows; the validator is not asked there. A gather
  that uses up the last charge does not choose the face card again.
* `end_day` restores only the first villager of a stack.
* Two gathers of one stack can be under way. After a conflict whose reload fails, a
  refused gather is sent again every 120 ms.
* A merge or collect that the client shows before the answer and the server refuses
  leaves the source stack missing until the next load. Switching boards during the
  synchronisation of task cards puts the cards on the other board.
* A split takes other cards than the dragged ones after a retry, on a document
  another request has changed, and after `food.consume`.
* The task dialog reads which dialog is open when a call returns: a save can take over the
  priority and description of another card, and its end closes whichever dialog is
  open. Two saves of an unlinked card create two rows.
* The list of projects does not clear `is_archived` on creation: a board
  deleted and made again under its name stays archived.

Tasks and home page:

* Two quick drags mix their sort orders. A failed request of a drag loads the list while
  the others still land. What is typed into the composer during an add is cleared.
* A title that names another project leaves the old project's section on the row.

Accounts:

* The code of a sign-in is spent before the invitation is accepted, so a refused
  invitation leaves a user without session and a form that cannot succeed until the page is
  loaded again. A configuration later than 1.5 seconds counts as a closed beta.
* A user who has finished onboarding is sent back to it while the kept answer is fresh.
* An accepted invitation can be accepted again. Two synchronisations of seats that
  overlap can leave the older number. A second checkout can orphan the subscription of
  the first. An event delivered again after a cancellation restores Pro.

Quests and profile:

* With the four daily templates, two a day and two days without repeats, the third
  day finds no template left, so those of the days before come back. The
  theorem `DailiesFollow` says when they do not.
* The boss that wants few zombies can be claimed at once. A completed daily that is not
  claimed is archived as failed. The shown streak stays until the next claim.
* A synchronisation of all calendars stops when one is deleted between the list and its
  turn. Connecting again revives the deleted row with its old synchronisation time.

## Proofs

The theorems hold for every value of the constants that satisfies the modules'
`ASSUME`s: any number of cards, commands, tabs, boards, requests, rows, days, users and
faults. Where a property is proved of an arbitrary step, the model's bounds
(`Max...`) are constants like the others.

* **`BoardStacksProofs`**: `TypeOK`, `EveryCardPlacedOnce`, `DrawOrderTotal`,
  `DisallowedNeverTogether`, `VillagersSurvive`. The first three are inductive only together, and only with a generalisation: `Sound(b, out)` is the
  three of them for a document in which the cards `out` lie in no stack. Commands pass
  through such documents (create cards, then stacks; detach cards, then stack them),
  so each step of a command (`CreateCards`, `CreateStacks`, `Detach`, `Remove`,
  `MergeStacks`, `FacePriority`) has a lemma that takes `Sound(b, out)` to
  `Sound(b', out')`, and each command is a chain of them that ends with `out = {}`.
  The other two go through the same chains with `Follows(b, b')`: a tidy document stays tidy
  and keeps its villagers. `Tidy` says of any two cards of a stack that neither is a deck and
  no rule parts their kinds. Commands that merge without the validator keep it because
  they start from a stack with work, workers or food, beside which no zombie can be
  (`CalmCompany`); decks lie alone, so what is opened or retired takes no villager along.
  `VillagersSurvive` assumes that `stack.remove` is not among the commands.
* **`TaskSeriesProofs`**: `TypeOK`, `PaidFor`, `ClosingOpensOne`, `ClosingKeepsCount` and the
  refinement of `Occurrences`. `PaidFor` needs `Linked`: a row's predecessor exists, so a new
  row starts with no successors. Each step maps to one of `Occurrences` or a stutter;
  `RenewWrite` maps to `FinishAndRenew` because it looks at the row again inside its
  transaction. The two about closing rest on `Placed` (a row's first row exists) and
  `Asked`: a closing that has read its row still agrees, while no rule is edited, with
  what the row says of its rule, wherever other requests are; and on seeing every step
  as one of three (`Steps`): rows are rewritten in place, a series begins, one goes on.
* **`BoardCommandProofs`**: `TypeOK`, `TaskListAhead`, `Linearizable`, `NoPlacingUnseen`. The first
  three follow from `IInv`: one request at most is inside the mutex (`Mutex`); what it
  works on is the stored document, or one command applied to it (`Working`); a
  gesture not yet answered has not counted (`Unsent`), a session without receipt was
  not delivered (`Receipted`), and the task list is ahead of the stored document and of
  the one about to be stored (`Aheads`). `NoPlacingUnseen` needs an order on documents,
  `Upto`: of two with the same version neither holds a placing the other lacks.
  Whatever a tab holds is below what is stored (`Seen`), because `nextZ` only grows.
* **`WorkspaceProofs`**: `OneOwner`, `JoinsByInvitation` and `SeatsInTurn`. A request decides in
  its first step and writes in a later one, so the invariant says what stays true of a request
  that has been checked while others write (`Checked`). For the seats, `Books` ties the plan to a
  subscription that was bought, and `InTurn` says, until two requests overlap, that a count
  under way is the number of members and that a wrong quantity has a request on its way.
* **`SignInProofs`**: `OneSessionPerCode`, `InvitedSignsIn` and `RightPage`. For the first two
  `IInv`: a code not spent has signed nobody in (`Unspent`), who joined is whom the
  invitation is for (`Joined`), and forms and pages name codes that were sent. `RightPage`
  speaks of a tab at rest, so the invariant `Straight` says what is on the way to
  make it right: with nobody signed in one chain of calls of the page shown and no
  answer that knows somebody (`Outside`); with somebody signed in, on the login page a
  chain or a form that leads away (`AtLogin`), on onboarding a user who is new or a
  chain that has found out otherwise (`AtOnboarding`), what a code under way may still
  change (`Changing`), and that a new user taken for a ready one is being sent back
  (`Mistaken`). A tab signed out that does not know it yet (`Leaving`) loads everything again.
* **`QuestsProofs`**: `QuestsPaidOnce`, `WorkCountsForShown` and `DailiesFollowTheDays`. A quest's
  claims are its `paid`; a key comes back only when its quest is over. That what was shown
  counts rests on draws being a function of the day (`drawn`). For the dailies,
  `Follow`: every day used has its full draw, history and board remember it, repeats are
  spaced, and the streak is the run of claimed days. That templates suffice is a
  counting argument: the union of the draws of the days looked back on is smaller
  than the templates (`UnionBound`).
* **`QuestsProofs`, the gathers of a tab**: `PaidWhatItEarned`, by `MiningInv`. A stack with no
  applied gather under way has worked more cycles than the marks say it was paid (`StackEarned`),
  and a gather under way pays the next one of them (`GatherEarned`); a tick completes at most
  one more cycle (`DivGrows`), and a document shown leaves a session as it is or starts it anew (`Shows`).
* **`BoardTabProofs`**: `CacheKeepsBoards` and `ShowsServerContent`. A function that calls another
  and waits is a frame on a stack; the frames of every call have one of four shapes
  (load; send; load in send; load in send in load), loads hold copies of their own
  board and what is shown is seeded once it has been shown.
* **`BoardGestureProofs`**: `SplitTakesWhatWasDragged`, `CardsShownOnce` and `NothingLeftLifted`. The lemmas of
  `BoardStacksProofs` are taken over by an instance with the server's constants (`Same...`
  shows that both instances of `BoardStacks` mean the same). `InStep` says of a document of
  the client that it has the server's stacks unless its count is older, which the version
  check notices; the invariant `Steps` says which documents are in step when: the one shown,
  one loaded, and the one shown once the answer of a split is patched in. A command of another
  user either counts up, which makes all of them older, or is marked `quiet`. `CardsShownOnce`
  needs another relation of the two documents, for with a merge under way they differ:
  `Asunder`, no stack shown holds a card the server has in another stack that is shown too. It is
  kept by the optimistic merges (`Kept`) and, with the halves of a split left out, until its
  patch lands (`Halves`); a stack pressed stays shown as long as the server has it (`Held`).
  Nothing stays lifted for one pointer (`Lifted`): with two, the second press overwrites the
  drag of the first. The first board is any document that is well formed and within the bound
  `MaxZ` (`GestureAssumption`).

The pages are proved about in the module of the subject they show, as theorems of `PagesSpec`
(each instance of a page preserves its invariant while it is the part `opened`, and nothing
else moves it). `PagesAssumption` asks of the constants only what tells a value from its
absence or gives a page its first value, never how many there are.

* **`TaskSeriesProofs`, the list of the home page** (a theorem of `ListSpec`): `ShowsRows`, by `ListInv`.
  A page that has not gone stale waits for the calls of one drag, or for one other call. In the
  first case each row shown is the service's, or differs from it in the order that its own
  call is still to save (`Reordering`); in the second the page is as the service was before the
  call, or the query it waits for was not overtaken (`OnItsWay`). An answer nothing overtook is
  what the service would answer now (`FetchOK`), and holds every row there is when they fit.
  That a drag gives each row a place of its own rests on the order being total: a finite
  set has one element of every rank (`Ranked`). Of the constants `TaskListAssumption` asks that
  rows are finitely many, numbered and told from `None`, and that a row can be due on no day.
* **`TaskSeriesProofs`, the board's task dialog**: `BoardCardsAgree`, by `CardsInv`. A card that
  differs from its row is either owed by a chain of calls that is going to write the same to
  the other of the two (`CardAgreeOrOwed`), or marked `torn`. For that a card is claimed for a row by at
  most one of board, shown board and chains (`CardOneCardPerRow`), and what a chain has read
  is what its form held (`CardJobsOK`).
* **`TaskSeriesProofs`, the home page's task dialog**: `PreviewsAreTheTasks`, by `HomeInv`: what
  is asked, kept and shown of a task is about that task until an answer crosses over, and
  a live mark was earned by an activation (`HomeMarksEarned`). Both dialogs together give
  `DialogsKeepWhatWasTyped`: a save that is still clean has in every step what the form said when it began.
* **`WorkspaceProofs`, the team page**: `TeamShowsWhatIsThere` and `TeamInvitesWithOneRole`. Until calls
  overlap one call is under way, and what the page shows differs from the service only in
  what that call has changed and its next step will load or write (`TeamInv`); `TeamSentInv` ties
  the role of each call of a submission to what was sent first.
* **`WorkspaceProofs`, the boards dialog**: `SettingsShowTheBoard`, by `ShareInv`: every list shown
  that is not the service's has a load on its way that was asked for after the last change; a
  change under way will ask for one; the buttons are taken only by a chain that frees them.
* **`SignInProofs`, the profile page**: `ProfileShowsWhatIsHeld`, by `ProfileInv`, the same argument
  with several loads at once and with chains whose page has been closed, which must
  not write on the page opened after it. A consent is spent by the step that connects.

Three properties were not what they said before they were proved, and the models changed.
`CardsAgree` was false with two chains and a lost call: a chain that broke off half-way marked
its card `torn` although a later chain had made the two agree; a card is now torn until
its synchronisation is served. `SettingsShowTheBoard` was false beyond the bounds of its run: going to,
or back to, a board deleted meanwhile managed a board that is not listed; `strayed` records
that. `PaidWhatItEarned` was false with two stacks and two changes of others: the late answer
of a session that has ended clears the marks of the one that took its place, and a cycle is
paid twice; `doubled` records that a stack was gathered again while a gather of it was under way.

Only model-checked is liveness, which the prover has no rules for: `PayingIsAnswered`,
`PaidSessionDelivered`, `Reconciles`, `MinesOut`, `ComesToRest`.

## Not modelled

* Positions and geometry (a move keeps what it decides), titles and
  descriptions beyond what a property tells apart, amounts of rewards, experience, perks,
  currency, deck locks: they make commands fail, or are written and shown.
* Parsing: quick-add, recurrence rules, dates. Pure text functions, with tests of their own;
  calendar arithmetic is abstracted to "ends with this occurrence or not".
* Several processes. `fly.toml` keeps one machine running, and the mutex says
  nothing about two.
* Handlers, middleware and queries that only list, the compatibility layer, the rate
  limiter, tokens of calendar providers, configuration, migrations, errors and logging: they
  keep no state between requests, run once at start, or hold one counter a caller.
* Styles, layout and drawing of the client, the marketing site, infrastructure and scripts.
