# Verification of temporal-tui

TLA+ models of `temporal-tui`, a keyboard-driven dashboard for Temporal
written in Rust, checked with TLC on small instances and, where a property
matters for every instance, proved with TLAPS.  Paths below are relative to the
repository; `app.rs` is `src/app.rs`, and so on.

## 1. The system

    keyboard, ticks --> App (app.rs) --Commands--> runtime.rs --spawns--> tasks
                          ^                            |                    |
                          +------- Messages -----------+<----- mpsc --------+
                                                        TemporalService (service.rs)
                                                        AuthSession (auth.rs)

| Component | State it keeps | Operations | What is hard about it |
| --- | --- | --- | --- |
| Event loop (`runtime.rs`) | the active service, a channel of answers | `run`, `dispatch`, `connect_profile`, `execute` | every command is a Tokio task; answers come in any order, after the session they were asked for has ended |
| Sessions and surfaces (`app.rs`) | profile, namespace, one `current_*_request` and mostly one `loading_*` per surface, rows and details, capability report | refresh, switch view, select a row, pick a namespace, pick a profile, one handler per answer | which answers are still wanted after the dashboard moved on |
| Mutations (`app.rs`) | the open overlay, `operation_in_flight`, `call_in_flight`, `batch_preview_in_flight`, read-only flags | open, submit, toggle, preview, confirm, one handler per result | what a form acts on when the data behind it is reloaded; locks cleared by another command's answer |
| Workflows tab (`app.rs`, `recent_history` in `service.rs`) | query, page tokens, selection, details, older history pages | paging, selecting, loading older history | two paginations and a selection, each with requests in flight |
| Paginated views (`app.rs`) | rows, current, next and previous page tokens, a page number, for workers, deployments, schedules and batches too | page keys, refresh, query, namespace, degradation | a cursor outlives the list it was issued for; a page load fails after the cursor moved |
| Capability detection (`server_capabilities`) | none | GetSystemInfo, DescribeNamespace, one probe per list | a short failure must not take a view away |
| Authentication session (`auth.rs`, the refresh task in `service.rs`) | stored refresh token (credential manager), access token (memory), a pending rotation, a lock file | load, refresh, login, logout | a one-time token shared by processes, over a network and a credential manager that fail |
| Login and profile commands (`cli.rs`) | config file and credential manager | login, logout, profile and filter edits | two stores changed one after the other, several processes, no lock |
| Configuration (`config.rs`) | versioned TOML | load, save, migrate | crash between backup and replacement |
| Service operations (`service.rs`) | none | one method of `TemporalService` per command: RPCs, checks, paging loops, conflict tokens, polling | an RPC whose answer is lost; other clients that edit the same object between two RPCs |
| Payload codec (`HttpPayloadCodec`) | the pending chunk | chunked encode and decode, one retry | payloads lost, doubled or out of place where chunks meet |
| Rendering, terminal, data types, packaging | -- | -- | no protocol of their own |

What makes each component correct:

* **Sessions and surfaces** -- no answer of an old cluster is shown; actions are
  gated by the report of the namespace on screen; a loading flag never outlives
  its request; the keyboard is never locked for good by a switch.
* **Mutations** -- what is changed is what the user was shown; one mutation at a
  time; a read-only session sends none; a lock is released by its own answer.
* **Workflows tab** -- details belong to the selection, tokens to the query, the
  history to one run; a history on screen has no gaps.
* **Paginated views** -- what the header says is what the rows are; a page key
  moves by one page, whatever failed meanwhile; a token goes back to the list it
  came from only; a view is taken away by a definite answer only.
* **Service operations and codec** -- a command changes the cluster at most once,
  reports success only of a change, and answers; a message is encoded and decoded
  whole and in order; an edit leaves pauses, and without a new expression
  calendars, jitter and limits, as others left them.
* **Authentication** -- of several processes one at a time waits for an answer about
  a refresh token; a login is not lost by anything but a crash or a lost answer;
  logout really ends it; an access token is handed out only when its login is
  stored; the lock is never kept for good.
* **Commands and configuration** -- an old file is not replaced without its
  backup; a profile and the credentials it refers to stay together, whatever
  sequence of commands ran, failed or died.

`PROJECT.json` lists the hazards behind these properties, line by line.

## 2. Modules

| Module | Models | Checked by | Proofs |
| --- | --- | --- | --- |
| `Dashboard` | event loop, sessions, namespaces, surface loading | `MCDashboard` | `DashboardProofs` |
| `Operations` | forms, targets, in-flight locks, read-only mode | `MCOperations` | `OperationsProofs` |
| `WorkflowView` | list pages, selection, details, history pages | `MCWorkflowView` | `WorkflowViewProofs` |
| `Surfaces` | page cursors of the five lists, capability detection and degradation | `MCSurfaces` | `SurfacesProofs` |
| `PayloadCodec` | the codec client: chunks, limits, retry | through `ServiceCalls` | `ServiceCallsProofs` |
| `ServiceCalls` | every service operation, step by step, with `PayloadCodec` inside | `MCServiceCalls` | `ServiceCallsProofs` |
| `OneCall` | abstract: what a command promises | implemented by `ServiceCalls` | `ServiceCallsProofs` |
| `AuthRotation` | login, refresh, logout, lock file, credential manager, lossy calls | `MCAuthRotation` | `AuthRotationProofs` |
| `TokenCustody` | abstract: what becomes of a login's tokens | implemented by `AuthRotation` | `AuthRotationProofs` |
| `ProfileStore` | config file, migration, `profile`, `filter` and `auth` commands, credential manager | `MCProfileStore` | `ProfileStoreProofs` |
| `SumTheorems` | nothing of the code: what `SumFunctionOnSet` computes | -- | itself |

The four modules about `App` are views of one program at different places.
`Dashboard` knows of a row only which service and namespace it came from and
whether there is one; `Surfaces` adds pages and cursors to one list and takes for
granted that superseded answers are dropped, which `Dashboard` is about; `Operations` follows one selected row and lets a list
reload change it at any time; `WorkflowView` opens up one surface within one
session.  Each treats what the others refine as nondeterminism, so that
a property of one holds whatever the others do.  `ServiceCalls` opens up what is
one task with one answer in all of them; an answer there is its `result`.

### Dashboard

`service`, `inFlight` and `connecting` are the locals of `runtime::run`, its
spawned tasks and its `connect_profile` tasks.  The other variables are fields
of `App`.  A *slot* is one `current_*_request`: a list and a details slot per
view, the capability report, the namespace list, and the reports named in
`Reports`.  A task carries its slot, its id and the service and namespace it was
given; what is `shown` carries the provenance of the answer.  An action is one
whole key, tick or message handler, with the commands it returns dispatched in
the same step, as `run` does.

One handler call may take several ids; they are compared only within one slot,
so a call takes one number for all of them.  `invalidate_pending_requests`
gives every slot a barrier id no task has (`Invalidated`).  Counts are capped by
`MaxRequest`, which stops keys, never answers.

Left out: chains, Search Attributes and previews (their slots follow the same
protocol; previews are in `Operations`), notices, export, clipboard, browser.

### Operations

Nine kinds of form stand for the overlays that send something: `confirm`
(also deployments and batch stop: frozen target, lock looked at twice), `reset`
and `create` (lock looked at once; `create` has no row), `attribute` (opened
from the Search Attributes overlay, which looks at no lock), `signal`, `update`
and `query` (target read when submitted), `toggle` (no form), `batch` (preview,
then confirmation).  An open form remembers what its user was shown (`seen`); a command
carries what it acts on (`aim`) next to that.  The reload of a list, which may
select another row or none, may happen at any time.

### WorkflowView

A history is a sequence of `HistoryPages` pages, newest first; a page on screen
is the run it came from and its place.  Page tokens are the query they were
issued for and a page number, the empty token being `FirstPage`.

A refresh does drop the older pages that were loaded: every list answer clears
the details (`app.rs:1427`), and what is loaded again has the newest page only.
What can be asked of the history on screen is that it has no gaps: it is every
page from the newest to the cursor (`HistoryReachesCursor`).  A page that was asked
for before the details on screen breaks that; the history variable `overtaken`
records that one was taken since they came.

### Surfaces

A behaviour follows one of the five lists, `kind`; they share the view, the
namespace and the report and nothing else.  A token is the list it was issued
for (namespace and query) and the page it leads to.  `cur`, `next`, `prev` and
`number` are the fields of the pagination, `asked` is what the last request of
the list took with it.  The server is external: it answers a token of the
list it is asked for with that page, and any other token somehow.

`Availability` is `server_capabilities`: of each list, which of the flags of
`GetSystemInfo` and `DescribeNamespace` and which probe it is made of, and what an
error of each says.  `ReportLoaded` ranges over everything the server can say.

Some steps leave a list in a state in which its header or its cursor may be
wrong.  The history variable `upset` names which have happened since the list
was last loaded from its start, and each property says which of them it
tolerates.  So the properties show that there are no other causes, and the five
names are a list of what the code leaves to the user (see Disagreements).

### PayloadCodec and ServiceCalls

`PayloadCodec` is `HttpPayloadCodec::transform` as a loop: `at` is the payload it
looks at, `chunk` the places of the payloads pending, `attempt` the POST that is
out.  A payload is its wire size.  A POST that gets no response is sent once
more, every other failure fails the message.

In `ServiceCalls` a behaviour is one command.  Each method of the trait
`TemporalService` is a row of `Writers` or `Readers`: the sequence of its checks,
codec calls and RPCs (`todo`), each of which may end it with an error.  Codec
calls run the actions of `PayloadCodec`.  `describe_workflow` has two RPCs out at
once (`try_join!`): `join` waits in its steps for the description (`described`),
which may come or fail before, between or behind the read and the decoding of the
history; only then is the description itself decoded.  An RPC is refused, done, or done with its
answer lost.  Two objects are modelled by what they hold, since they are read,
changed and written back under a conflict token: a schedule and the routing of a
Worker Deployment; other clients change both at any time.  An update of a
workflow may be answered before it has an outcome and is then polled for.

`OneCall` is what the rest of the dashboard relies on: at most one change,
success only of a change that was made, an error only of no change, of a lost
answer or of what comes after the change, and always an answer.  `ServiceCalls`
implements it under the mapping that takes `writes` to "is a Writer" and `goesOn`
to "is an update", the one operation that has something left to do behind its
change; all other steps stutter.

### AuthRotation

`session[s]` is the `SessionState` of one process: what it is doing, the token
its request carries, a rotated but unstored token (`pending`), the access token
it hands out.  `lock` is the lock file, `store` the credential manager, `live`
and `issued` the auth server, `late` the requests whose client has given up and
that may still arrive.  The access token that came with refresh token *n* is
called *n*.  A guard of the lock file is dropped where Rust drops it: at the
end of the call, or with `PendingCredential` once the pending token is stored
or revoked; also when a process dies or the refresh task is aborted.

A process may die in every step.  Every request may fail, and may then reach
the server late or never.  The credential manager may fail to read, write or
delete.  The server is external and modelled as the client relies on it: a refresh
token is good for one refresh, revoking a dead one succeeds, only a token that
is not live is refused for good, and a grant may end at any time.  A proxy that
answers in the server's place with a final status is not modelled.

`TokenCustody` is what all sessions together promise about the tokens of a
profile: only the stored token is exchanged, and only while no other replacement
is under way; a replacement goes where the exchanged token was, a login where
there is none; the stored token is deleted when neither it nor its replacement
can be used.  `AuthRotation` implements it with `successor` mapped to the tokens
that a session holds in place of the stored one (`Successor`: a rotation in hand
or pending) and `grants` to those of the logins under way (`Grants`).  A token
whose session has died or whose answer was lost is in neither: what a crash costs
is visible as a `Drop`, and nothing else may drop anything that is live.

### ProfileStore

`file` is `config.toml` (a missing file is the empty configuration it is read
as), `backup` the migration backup of its schema, `keys` and `logins` the
credential manager.  `run[p]` is one process: its step, its copy of the file,
and the profile and account it is about.  Every write is a step, since a process
may die and another may come in between; `Save` replaces the file as a whole, as
the atomic rename does.  Checks and the save that follows them read only the
copy, so they are one step.  A prompt, an exchange with the auth server and an
error that nothing is done about are `Quit`; an error that is undone is
`FailToSave`.  A key is named by the address it was entered for.  In
`AuthRotation` the same login is looked at token by token; here it is stored or
not.

The file is not locked.  Two commands at once can lose an update, and a process
that read an old file may replace what another one has migrated and changed
meanwhile.  The code accepts that and no document promises otherwise; so the
properties about migration hold in every interleaving, and those about commands
as long as no two overlap, which the history variable `overlapped` records.

## 3. Runs

| Run | Instance | States | Shows |
| --- | --- | --- | --- |
| `dashboard` | a profile and the unnamed launch connection, 2 namespaces, workflows, workers and task queues, 3 ids | 431,120 | However late the answers of an old cluster or namespace come, they are not shown; no spinner is orphaned; one profile switch runs at a time and unlocks the keyboard; every wait ends |
| `operations` | 2 rows, 2 namespaces, all forms but `create`, 3 ids | 366,414 | Frozen forms act on what they showed; locks have owners and are released; commands of a kind exclude each other; none is out during a switch; read-only sessions never write |
| `workflow_view` | 2 runs, 2 queries, 3 pages each, 6 ids | 324,018 | Details follow the selection, the list answer that will be taken follows query and cursor, a history has no gaps unless a page asked of earlier details came in, the history key is released |
| `surfaces` | each of the five lists, 2 namespaces, 2 queries, 3 pages | 246,450 | Header, rows and cursor agree and page keys step by one, through failures, late answers, switches and capability reports, but for the named upsets; only a definite answer takes a list away |
| `service_calls` | every operation, chunks of 2 payloads or 3 bytes, messages of up to 4 payloads of size 1, 2 or 4, 3 pages, 3 changes by others | 148,914 | Every operation is one call (`OneCall`); messages are whole; the Codec Server is spared; an edit leaves pauses, and without a new expression calendars, jitter and limits, as others left them |
| `auth_rotation` | 2 sessions, 3 tokens | 287,077 | One session at a time waits for an answer about the login, only crashes and lost answers lose a login, logout ends it, the lock is released; together they are one custodian of the tokens (`TokenCustody`) |
| `profile_store` | 2 processes, 2 profiles, 2 addresses, 1 account, 4 commands | 337,760 | Backups are in place before a replacement and never rewritten; commands that do not overlap keep profiles and credentials together but for two named places, and strand a login only when `auth login` is cut short |

All passing runs explore their whole state space.  Where typing is a theorem and
part of an invariant that has been evaluated on the run, as in `auth_rotation`,
the run spends its time on other properties.  `CHECK_DEADLOCK FALSE` is
set where the bound on request ids, tokens or commands ends every behaviour; the
program waits for the next key.  `surfaces` has no such bound and `service_calls`
ends in `Done`: both are checked for deadlock.

**Why the bounds are enough.**  The hazards are about a stale answer meeting a
newer state.  That takes two sessions (profiles, namespaces, rows, queries) to
tell apart, one request that is overtaken, and the requests that overtake it:
three ids, with six in `workflow_view`, where a list answer has to bring
rows, a selection its details, and a history page has to be out while the
selection moves.  Three history and list pages give a page that is neither
first nor last.  For `auth_rotation` two sessions and three tokens give a stored
token, one rotated from it, and a third by a second rotation or a login;
the inductive invariant was also evaluated with four tokens.  In `profile_store`
four commands create, set a key, replace and use a profile, or migrate, log in,
fail and log in again; a file of an old schema comes with and without a key, and
with no backup or one of another file.  In `service_calls` four
payloads and chunks of two give a chunk cut by number, one cut by size, one that
is full to the byte, a rest, and an oversized payload at every place; three
changes by others are enough to add, route to and drop a build between two RPCs.
`surfaces` needs no bound but its three pages.  Symmetry is
declared for namespaces, queries and processes where a run has no liveness property;
nothing distinguishes them.

**Fairness.**  `Dashboard`, `Operations`, `WorkflowView`: a request that is
still wanted is answered in the end, with a result or an error, and so is a
connection attempt.  Tokio runs every spawned task and each sends one message;
that the frontend's RPCs return is an assumption about the environment, since
the client sets no deadline on them.  Nothing is assumed of keys and ticks.
`AuthRotation`: a call ends (`HTTP_TIMEOUT`, 15 seconds), and a pending token
that can be stored again and again is stored (the refresh task returns to it
after 5 to 60 seconds).  The latter is strong fairness, as other steps of the
session may come in between; it excludes a credential manager that never
accepts a write again, with which the lock would indeed stay taken until the
process ends.
`ServiceCalls`: a task runs on (weak fairness of its own steps: an RPC is
answered or fails with its connection, a POST ends after ten seconds); and when
it polls for an update again and again, one answer has the outcome (strong
fairness): the poll asks the server to wait for completion, and the code polls
until it has one, so that an update whose worker never answers is indeed waited
for without end.  `Surfaces` has no liveness property and no fairness; that its
requests are answered is `WaitingEnds` of `Dashboard`.

### Disagreements with the documentation

Five runs are expected to find a violation; each checks what the repository says
of the program.

| Run | Property | What happens |
| --- | --- | --- |
| `dashboard_namespace` | `RowsOfNamespace` | A namespace switch renews the request ids of the capabilities and the view in front only.  A list or details answer of the old namespace fills a hidden view of the new one.  README: "Request IDs suppress stale list, detail ... responses." |
| `operations_query` | `OneMutationAtATime` | The answer to a Query clears `operation_in_flight`, although a Query never takes it: a second mutation can start while one is out. |
| `operations_targets` | `MutationsHitWhatWasShown` | Signal and Update read the selection when they are submitted; a refresh behind the form may have moved it.  A batch preview of one namespace that answers after a switch to another does the same to a batch: confirming it starts the job there, on workflows nobody counted (the run with `Forms = {"batch"}` finds this one). |
| `workflow_one_run` | `HistoryOfOneRun` | An older history page that arrives after another run was selected is merged into that run's details. |
| `schedule_edit` | `UntouchedFieldsSurvive` | Editing a schedule with a new expression replaces its whole spec: jitter, start and end, intervals and exclusions are gone.  README: updates "preserve fields the form does not change." |

Each of the five has its property as an invariant or action property of its own
run, so the passing runs show that everything else holds in spite of it.
`OneAtATime` of `operations` is about the same code as `operations_query`: until a
Query has released a lock (`queried`), mutations exclude each other; so the
Query is the only cause.  In the same way `HistoryReachesCursor` of `workflow_view`
shows that pages asked of earlier details are the only cause of
`workflow_one_run`.

Other behaviours met while modelling have no run of their own, as no document
speaks of them or the models tolerate them by name:

* A previous page that fails to load leaves the cursor moved and the next-page
  token of the page on screen.  The header still counts the page on screen; the
  next-page key then skips a page (`app.rs:4111`; `returned`, `skipped`).
* An older history page that was asked for before a refresh and arrives after it
  moves the cursor of the details, which were loaded anew with the newest page
  only, past the pages between: they are missing, cannot be asked for, and with
  the last page `H` says "Complete workflow history is loaded" (`app.rs:1478`,
  `app.rs:4134`; `overtaken`).  The missing check is that of `workflow_one_run`;
  here the run is the same one all the time.
* A namespace picked while another view is in front leaves the page cursor of the
  workflows list, which is then loaded in the new namespace with a token of the
  old one (`app.rs:2232`; `crossed`).
* A list that answers after the capability report has taken its view away fills
  the view again (`app.rs:3666`; `degraded`).  A query applied to a view that was
  taken away changes, its cursor does not.
* `DescribeNamespace` refused with PermissionDenied takes the workers away even
  when the probe of the list succeeds.
* An update of a workflow whose outcome cannot be decoded or that comes without
  one is reported as failed although it was carried out.
* A schedule form sends time zone and notes as they were when it opened, whoever
  changed them since; the conflict token is read when the form is submitted and
  so covers only the moment between read and write.
* When `auth login` dies, or fails to clean up, between its two writes, the next
  `auth login` says "already has a login credential; log out first" (`auth.rs:263`)
  and `auth logout` says "is not signed in" (`cli.rs:881`).  `OnlyCutLoginStrands`
  shows that this is the only way there for commands that do not overlap.

## 4. Proofs

For every value of the constants (any profiles, namespaces, views, sessions,
queries, sizes, operations and bounds), under the named assumptions of the
modules, which TLC evaluates in every run.  Eight modules hold the proofs; each
has an inductive invariant, the proof that every action keeps it, and the
theorems that follow, but for `SumTheorems`, which is about arithmetic.

**Dashboard.**  `NoForeignData` says that what is on screen came from the
cluster named there.  It is not inductive: a wanted answer of another service
would break it in one step.  `SafetyInv` adds that no id is above the counter
(`IdsBelowCounter`) and that every answer that is still wanted comes from the
active service, which is the one the dashboard names (`WantedIsOurs`).  A
handler that asks takes an unused id, so tasks already out cannot become wanted
(`AskKeepsWanted`); a switch gives *every* slot the barrier id, so that nothing of
the old service is wanted any more (`Connected`).  `TypeCorrect` and
`NoForeignDataHolds` follow.  `OneSwitchHolds` has an invariant of its own:
keys are dropped while switching, so that a second attempt cannot start and
the awaited id cannot change.  `CapabilitiesHold` and `SpinnersHold` rest on
`WaitInv`: a wanted capability request is one about the current namespace
(`CapabilitiesAsked`), because every switch of the namespace asks for a new report
in the same step; and a handler that clears a slot's request clears or renews
its flag in the same step.

**Operations.**  What is to be shown is about commands, what the code tests are
locks and forms; `Inv` ties the two.  `MutationsGuard`: until a Query has released
a lock, a mutation that is out holds the lock, there is no other, and none is
out while a form is open that does not look at the lock again or while the
session changes.  `LocksGuard` says the same of calls and previews, without the
exception.  `ReadOnlyGuard`: a read-only session has no form and no preview that
could become a mutation, and a forced one is read-only.  `SeenHere`: the namespace
cannot change under a frozen form.  `OneAtATimeHolds`, `LockHasOwnerHolds`,
`FrozenFormsHold` and `ReadOnlyHolds` follow.  `queried` is needed: without it
`MutationsGuard` is false of the code, as `operations_query` shows.

**WorkflowView.**  A details answer that is still wanted is about the selection,
is the only one, and nothing is on screen till it comes (`WantedDetails`); the cursors kept, and
those on their way, are of the current query (`CursorsOfQuery`,
`SentCursorsOfQuery`).  A history page that is awaited is the only one; it is the
next of the details on screen, or was asked for before them; and details that are
still awaited were asked for after it (`WantedHistory`), so that whatever page is
asked for next is one of the details that came.  With ids below the counter
these are inductive, and give `DetailsOfSelectionHolds`, `ListAnswersCursorHolds`
(about the answer that will be taken; rows on screen may be older) and
`HistoryReachesCursorHolds`: details come with their first page (`DetailsReach`),
and a page that is not overtaken is the one at their cursor (`PageReaches`).
`FlagHasRequestHolds` is the safety half of `HistoryLoadEnds`, see below.

**Surfaces.**  `Good` is about one list: its cursors and the tokens behind them
are of the list on screen (`Cursors`), what is awaited was asked for it (`Awaits`),
the pages count on from one another (`Paged`), the header fits the rows
(`Described`), and a list that was taken away is empty (`Taken`) -- each unless the
history says otherwise.  The lemmas are about the operators on a list
(`Forward`, `Back`, `Refreshed`, ...), so each action is a few citations.

**ServiceCalls.**  `InOrder` and `Sendings` are the codec's loop invariant: the
places transformed, those in the chunk and those not looked at follow one
another, and how often each was sent.  `Settled` says of the steps that are left
that the codec is called before the next RPC (the description of a workflow,
which is out beside the read of its history, carries no arguments), `Counted` that a change was made
exactly when the one `write` step is behind, `ScheduleEdit` and `RoutingEdit` that
what was read is what is there unless the version has moved on.  From these
follow `SentWholeHolds`, `AnswersHold`, `TwiceAtMostHolds`, `EditsHold` and
`RoutesHold`; and `CommandsAreCalls`: `Spec => Call!SafeSpec`, the safety part of the
refinement, for any operations and sizes.  `Fits` says that the bytes counted while
a chunk fills (`chunkBytes`) are the sum of its payloads, that neither they nor
their number are over the limits, and that no empty chunk is posted; `FitsStep`
shows it for the four ways a codec step can leave the chunk: as it was, one
payload longer, alone with the payload that did not fit, or empty.
`ServerIsSparedHolds` follows, for any sizes and limits.

**SumTheorems.**  The sum over a chunk is a fold, a recursion over finite sets,
and the library's induction theorems take an operator.  `SetInduction` takes the
set of the numbers that have the property instead, and is proved from `WFMin`: a
set of numbers that is not empty has a least one.  With it, a function that
satisfies the recursion of `SumFunctionOnSet` exists on every finite set
(`SumExists`), any two agree (`SumsAgree`), and so the sum over a set is one
element plus the sum over the rest, whichever element is taken
(`SumTakesApart`).

**AuthRotation.**  `AuthInv` is typing, the range of the tokens (`TokensIssued`)
and, for each session, `Sound`: it has the lock whenever it calls or has a
token pending; a request to refresh carries the stored token; once that token
is consumed (a rotation in hand or pending) the stored token is dead and so is
every access token; a refusal means the token is dead.  `OthersKeepSound` is
the heart of it: a step of one session leaves lock and store alone, or
has the lock to itself, in which case no other session is in a state that
depends on the store, except for its access token, which the third conjunct
covers.  `StepOfOne` reduces every action to the new record of one session.
From `AuthInv` follow

* `AuthTypeCorrect`, `OneCallerHolds`, `ExposedIsStoredHolds` (invariants);
* `OnlyMisfortuneLosesHolds`, `LogoutEndsLoginHolds`, `StopsOnlyWhenOverHolds`
  (what no step does), through `Promises`, the part of the three that is about
  the session that moves, and `PromisesKept`;
* `CustodyHolds`: `Spec => KeepsCustody`, the refinement of `TokenCustody`.

The refinement needs `CustodyInv`: a granted token that is not stored is with one
session (`OneGrantEach`), and a late request to refresh carries a token that is
stored, or dead (`LateRequests`).  The second is why an abandoned request that
reaches the server a minute later is still the exchange of the *stored* token,
and never one beside a replacement that another session has in hand.
`Careful(s)` is what a step of session `s` may do to the tokens it holds and to
the store, given that the others replace nothing (`OthersReplaceNothing`, from the
lock); each group of actions is shown to be careful, and a careful step of one
session is a step of the custodian or a stutter (`LetsGo`, `Sheds`, `Stores` and
`GrantsStayApart`).

**ProfileStore.**  `BackupInv` adds to typing that there is at most one writer of
the backup (`OneWriter`) and, for each process, `Sound`: while it writes, the
backup is incomplete; when it is about to replace the file, the backup is
complete and equal to its copy; an old copy of an old file is that file, since
saves only ever write current files; and whoever works on a current copy knows
the file to be current.  `CurrentStep`, `EmptyStep` and `MigrationStep` treat the
actions by kind.  `BackupBeforeReplaceHolds` and `BackupsAreKeptHolds` follow
for any number of processes and commands.

The second part of `ProfileStoreProofs` is about commands that do not overlap (`CommandInv`).  Then one
process runs (`Alone`), its copy is the file, and it knows what it put into the
credential manager and what it took out (`Knows`): before a key is named in the
file, the key for that address is there; before a key is deleted, the file does
not name it; while a login is stored, the profile has none.  `Effect` states what
the three properties ask of the step of that process, and is proved command by
command; a step that leaves profiles and credentials alone is `QuietEffect`, one
that saves one profile anew `ProfileEffect`.  `KeyFitsHolds`,
`ProfilesStayUsableHolds` and `OnlyCutLoginStrandsHolds` follow.

**What liveness rests on.**  That whatever is waited for ends needs two things: that
there is always somebody who can end it, and that steps are taken.  The first
is a safety property, and proved:

| What ends (TLC) | What is always there (TLAPS) |
| --- | --- |
| `WaitingEnds` | `SpinnersHold`, `OneSwitchHolds`: a flag has a request that is out and still wanted, a switch has its attempt |
| `LocksAreReleased` | `LockHasOwnerHolds`: a lock has a command that is out |
| `HistoryLoadEnds` | `FlagHasRequestHolds`: as for `WaitingEnds` |
| `LockIsReleased` | `LockHasHolderHolds`: who has the lock file has a call out or a token to store |
| an answer in `ImplementsOneCall` | `CommandsGetOnHolds`: every step of a task answers the command or leaves less to do -- fewer steps, else fewer pages, else less of the codec's loop (`Effort`, a natural number), or has the description that was out -- or an update has no outcome yet and is polled for |

`FlagHasRequest`, `LockHasHolder` and `CommandsGetOn` are no properties of a
run: they were evaluated on the instances of the runs before they were proved.

**Only model-checked.**  Every safety property of the passing runs is a
theorem.  Left to TLC is liveness itself (the left column above), since fairness
and ENABLED are out of the reach of the proof system.  The five disagreements
need no proof, a behaviour shows them.

## 5. Not modelled

* Rendering (`ui.rs`): a function of `App`.  Terminal set-up, argument
  parsing, export, clipboard, browser: input and output only.
* The conversions of protobuf messages to the records of `model.rs` and back:
  functions of one message without state.  What of them a property is about
  is modelled (`ShownTimezone`, `Edited`, `Verified`).
* The diagnostics of a task queue, which are computed from what was read.
* Workflow chains, Search Attribute lists and call results as overlays, which
  follow the request protocol of `Dashboard`, and the loss of what was typed when
  one of them opens over a form (`app.rs:1494`).
* Validation of profiles, URLs and token formats: rejects before any state
  changes; in `AuthRotation` an answer that fails it is `TakeGarbled`.
* Permissions of the config file, and a user who edits it by hand.
* Packaging, scripts, completions, tests.

## 6. Plan

Done: the modules above with their runs, both refinements, and a theorem for
every safety property of a passing run.  Left, in order of what a mistake would
cost:

1. One abstract specification of a request slot (asked, superseded, answered
   once) that `Dashboard`, `WorkflowView` and `Operations` each implement.
2. Overlays that open on arrival: what is lost of a form (`app.rs:1494`).
