----------------------------- MODULE Operations -----------------------------
(***************************************************************************)
(* How `App' (src/src/app.rs) lets the user change the cluster: forms and  *)
(* confirmations over the dashboard, the three locks operation_in_flight,  *)
(* call_in_flight and batch_preview_in_flight, read-only mode, and what    *)
(* switching the namespace or the profile does to all of them.             *)
(*                                                                         *)
(* Lists and details are Dashboard's subject.  Here a list may be reloaded *)
(* at any moment, and all that is kept of it is the selected row.          *)
(***************************************************************************)
EXTENDS Naturals, FiniteSets

CONSTANTS
  Targets,      \* the workflows (or schedules, deployments, ...) listed
  NoRow,        \* nothing is selected, or the form is not about a row
  Namespaces,
  Forms,        \* the kinds of form an instance has, out of AllForms
  MaxRequest    \* bound: no form is submitted once this many ids were taken

\* confirm   - Confirm, BatchStop and the two Deployment forms
\* reset     - Reset and the Schedule forms about a row of the list
\* create    - ScheduleCreate
\* toggle    - toggle_schedule_pause, which has no form at all
\* attribute - SearchAttributeAdd and SearchAttributeRemove
\* signal, update, query - the forms that only hold a handler and its input
\* batch     - BatchCreate and, after its preview, BatchConfirm
AllForms == {"confirm", "reset", "create", "toggle", "attribute",
             "signal", "update", "query", "batch"}

ASSUME FormsAssumption == Forms \subseteq AllForms
ASSUME NoRowAssumption == NoRow \notin Targets
ASSUME RequestBoundAssumption == MaxRequest \in Nat

\* The forms that carry the identity they were opened on.
FrozenForms == Forms \cap {"confirm", "reset", "create", "attribute"}

\* The forms that are not about a row of a list.
RowlessForms == Forms \cap {"create", "batch"}

\* The forms that ask for the selected row when they are submitted.
LateForms == Forms \cap {"signal", "update", "query"}

Mutations == Forms \ {"query"}
Calls     == Forms \cap {"update", "query"}

Locks == {"operation", "call", "preview"}

VARIABLES
  tasks,          \* runtime: spawned commands that were not answered yet
  connecting,     \* runtime: the ids of spawned connect_profile tasks
  forced,         \* the --read-only of the launch
  readOnly, namespace,
  switching, switchRequest,
  nextId,
  request,        \* current_operation_request, current_call_request, ...
  busy,           \* operation_in_flight, call_in_flight, batch_preview_in_flight
  queried,        \* history: a Query's answer has released a mutation's lock
  selected,       \* the selected row
  overlay         \* what is drawn over the dashboard and has the keyboard

sessionVars == <<forced, readOnly, namespace, switching, switchRequest>>
lockVars    == <<nextId, request, busy, queried>>
vars == <<tasks, connecting, sessionVars, lockVars, selected, overlay>>

\* What a user was shown, and what a command acts on: a row of a namespace.
Place == [ns : Namespaces, row : Targets \cup {NoRow}]

NoOverlay == [form |-> "none"]

\* Mutant: a form that does not note what it was opened on.
OpenedBlank(form, place) == [form |-> form]

\* `seen' is what was selected when the form was opened.  A frozen form has it
\* as a field; of the others it only tells what the user was looking at.
Opened(form, place) == [form |-> form, seen |-> place]

Overlay == {NoOverlay}
  \cup [form : {"profiles", "namespaces", "attributes", "result"}]
  \cup [form : Forms \cup {"batchConfirm"}, seen : Place]

Task == [kind : Forms \cup {"preview"}, slot : Locks, id : Nat, aim : Place, seen : Place]

Writes == {t \in tasks : t.kind \in Mutations}

TypeOK ==
  /\ tasks \subseteq Task
  /\ connecting \subseteq Nat
  /\ forced \in BOOLEAN
  /\ readOnly \in BOOLEAN
  /\ namespace \in Namespaces
  /\ switching \in BOOLEAN
  /\ switchRequest \in Nat
  /\ nextId \in Nat
  /\ request \in [Locks -> Nat]
  /\ busy \in [Locks -> BOOLEAN]
  /\ queried \in BOOLEAN
  /\ selected \in Targets \cup {NoRow}
  /\ overlay \in Overlay

Here    == [ns |-> namespace, row |-> selected]
Nowhere == [ns |-> namespace, row |-> NoRow]

-----------------------------------------------------------------------------
(* Opening forms.  While a profile switch is pending all keys are dropped.  *)

Dashboard == ~switching /\ overlay = NoOverlay

\* The locks a form's key looks at before it opens.
OpenLocks(f) ==
  CASE f = "query"     -> {"call"}
    [] f = "update"    -> {"call", "operation"}
    [] f = "batch"     -> {"operation", "preview"}
    [] f = "attribute" -> {}
    [] OTHER           -> {"operation"}

\* Mutant: a handler call looks at the wrong lock.
UnlockedAlways(locks) == \A l \in locks \ {"call"} : ~busy[l]

Unlocked(locks) == \A l \in locks : ~busy[l]

\* Mutant: the two kinds of read-only are mixed up.
MayWriteUnlessForced == ~forced

MayWrite == ~readOnly

\* open_confirmation, open_signal, open_workflow_call, open_reset,
\* open_deployment_*, open_batch_*, open_schedule_*.  Whether the row's status
\* and the server's capabilities allow the form is left open.
OpenForm(f) ==
  /\ Dashboard
  /\ f \notin {"toggle", "attribute"}
  /\ f \in Mutations => MayWrite
  /\ Unlocked(OpenLocks(f))
  /\ f \notin RowlessForms => selected # NoRow
  /\ overlay' = Opened(f, IF f \in RowlessForms THEN Nowhere ELSE Here)
  /\ UNCHANGED <<tasks, connecting, sessionVars, lockVars, selected>>

\* The keys P, n and A.
OpenProfiles ==
  /\ Dashboard
  /\ Unlocked(Locks)
  /\ overlay' = [form |-> "profiles"]
  /\ UNCHANGED <<tasks, connecting, sessionVars, lockVars, selected>>

OpenNamespaces ==
  /\ Dashboard
  /\ overlay' = [form |-> "namespaces"]
  /\ UNCHANGED <<tasks, connecting, sessionVars, lockVars, selected>>

OpenAttributes ==
  /\ Dashboard
  /\ "attribute" \in Forms
  /\ overlay' = [form |-> "attributes"]
  /\ UNCHANGED <<tasks, connecting, sessionVars, lockVars, selected>>

\* The Search Attributes overlay opens its own forms, and looks at no lock.
OpenAttributeForm(row) ==
  /\ ~switching
  /\ overlay = [form |-> "attributes"]
  /\ MayWrite
  /\ overlay' = Opened("attribute", [ns |-> namespace, row |-> row])
  /\ UNCHANGED <<tasks, connecting, sessionVars, lockVars, selected>>

\* Escape, or Enter on a form whose row is gone.  Help, Inspector and the other
\* overlays keep the keyboard from the dashboard and change nothing here.
CloseOverlay ==
  /\ ~switching
  /\ overlay # NoOverlay
  /\ overlay' = IF overlay.form = "attribute" THEN [form |-> "attributes"] ELSE NoOverlay
  /\ UNCHANGED <<tasks, connecting, sessionVars, lockVars, selected>>

-----------------------------------------------------------------------------
(* Submitting forms: one command, one id, and the lock is taken             *)

\* Mutant: an Update takes the lock of its call only.
LocksTakenByCall(f) == IF f \in Calls THEN {"call"} ELSE {"operation"}

LocksTaken(f) ==
  CASE f = "query"  -> {"call"}
    [] f = "update" -> {"call", "operation"}
    [] OTHER        -> {"operation"}

Send(kind, slot, locks, aim, seen) ==
  /\ nextId < MaxRequest
  /\ nextId' = nextId + 1
  /\ request' = [request EXCEPT ![slot] = nextId + 1]
  /\ busy' = [l \in Locks |-> l \in locks \/ busy[l]]
  /\ tasks' = tasks \cup
       {[kind |-> kind, slot |-> slot, id |-> nextId + 1, aim |-> aim, seen |-> seen]}
  /\ UNCHANGED queried

\* Mutant: a confirmation acts on the row that is selected when it is confirmed.
FrozenAimLate == [ns |-> namespace, row |-> selected]

FrozenAim == [ns |-> namespace, row |-> overlay.seen.row]

SubmitFrozen(f) ==
  /\ ~switching
  /\ overlay.form = f
  /\ Send(f, "operation", LocksTaken(f), FrozenAim, overlay.seen)
  /\ overlay' = NoOverlay
  /\ UNCHANGED <<connecting, sessionVars, selected>>

\* Confirm, BatchStop, the Deployment and the Search Attribute forms.
SubmitConfirmed(f) ==
  /\ f \in {"confirm", "attribute"}
  /\ Unlocked({"operation"})
  /\ SubmitFrozen(f)

\* Reset and the Schedule forms do not look at the lock a second time.
SubmitUnchecked(f) ==
  /\ f \in {"reset", "create"}
  /\ SubmitFrozen(f)

\* Signal and WorkflowCall: the row is the one selected now.
SubmitLate(f) ==
  /\ ~switching
  /\ overlay.form = f
  /\ selected # NoRow
  /\ Send(f, IF f \in Calls THEN "call" ELSE "operation", LocksTaken(f), Here, overlay.seen)
  /\ overlay' = NoOverlay
  /\ UNCHANGED <<connecting, sessionVars, selected>>

\* toggle_schedule_pause
Toggle ==
  /\ Dashboard
  /\ "toggle" \in Forms
  /\ MayWrite
  /\ Unlocked({"operation"})
  /\ selected # NoRow
  /\ Send("toggle", "operation", {"operation"}, Here, Here)
  /\ UNCHANGED <<connecting, sessionVars, selected, overlay>>

\* BatchCreate, Enter: count what the query matches.
PreviewBatch ==
  /\ ~switching
  /\ overlay.form = "batch"
  /\ Unlocked({"preview"})
  /\ Send("preview", "preview", {"preview"}, Nowhere, Nowhere)
  /\ overlay' = NoOverlay
  /\ UNCHANGED <<connecting, sessionVars, selected>>

\* BatchConfirm, Enter: start the job, in the namespace of the dashboard.
StartBatch ==
  /\ ~switching
  /\ overlay.form = "batchConfirm"
  /\ Unlocked({"operation"})
  /\ Send("batch", "operation", {"operation"}, Nowhere, overlay.seen)
  /\ overlay' = NoOverlay
  /\ UNCHANGED <<connecting, sessionVars, selected>>

-----------------------------------------------------------------------------
(* Answers                                                                  *)

Wanted(t) == t.id = request[t.slot]

\* Mutant: every answer releases every lock.
ReleasedAll(locks, ok) == [l \in Locks |-> FALSE]

\* Mutant: the lock is released only by a success.
ReleasedOnSuccess(locks, ok) == [l \in Locks |-> busy[l] /\ (l \notin locks \/ ~ok)]

Released(locks, ok) == [l \in Locks |-> busy[l] /\ l \notin locks]

DropAnswer(t) ==
  /\ ~Wanted(t)
  /\ tasks' = tasks \ {t}
  /\ UNCHANGED <<connecting, sessionVars, lockVars, selected, overlay>>

\* OperationFinished, ResetFinished.  The refresh that follows a success is one
\* more reload of a list.
AnswerOperation(t, ok) ==
  /\ Wanted(t)
  /\ t.slot = "operation"
  /\ tasks' = tasks \ {t}
  /\ busy' = Released({"operation"}, ok)
  /\ overlay' = IF ok /\ t.kind = "attribute" THEN [form |-> "attributes"] ELSE overlay
  /\ UNCHANGED <<connecting, sessionVars, nextId, request, queried, selected>>

\* WorkflowCallFinished: a query's answer also clears operation_in_flight.
AnswerCall(t, ok) ==
  /\ Wanted(t)
  /\ t.slot = "call"
  /\ tasks' = tasks \ {t}
  /\ busy' = Released({"call", "operation"}, ok)
  /\ queried' = (queried \/ (t.kind = "query" /\ busy["operation"]))
  /\ overlay' = IF ok THEN [form |-> "result"] ELSE overlay
  /\ UNCHANGED <<connecting, sessionVars, nextId, request, selected>>

\* BatchOperationPreviewLoaded
AnswerPreview(t, ok) ==
  /\ Wanted(t)
  /\ t.slot = "preview"
  /\ tasks' = tasks \ {t}
  /\ busy' = Released({"preview"}, ok)
  /\ overlay' = IF ok THEN Opened("batchConfirm", t.aim) ELSE overlay
  /\ UNCHANGED <<connecting, sessionVars, nextId, request, queried, selected>>

-----------------------------------------------------------------------------
(* The selected row, the namespace and the profile                          *)

\* WorkflowsLoaded, SchedulesLoaded, ...: the row is found again by its
\* identity, or else the first one, if any, is selected.  An open form stays.
ListReloaded(row) ==
  /\ selected' = row
  /\ UNCHANGED <<tasks, connecting, sessionVars, lockVars, overlay>>

SelectRow(row) ==
  /\ Dashboard
  /\ selected # NoRow
  /\ selected' = row
  /\ UNCHANGED <<tasks, connecting, sessionVars, lockVars, overlay>>

\* NamespacePicker, Enter
PickNamespace(ns) ==
  /\ ~switching
  /\ overlay.form = "namespaces"
  /\ namespace' = ns
  /\ selected' = NoRow
  /\ overlay' = NoOverlay
  /\ UNCHANGED <<tasks, connecting, forced, readOnly, switching, switchRequest, lockVars>>

\* ProfilePicker, Enter
PickProfile ==
  /\ ~switching
  /\ overlay.form = "profiles"
  /\ nextId < MaxRequest
  /\ nextId' = nextId + 1
  /\ switching' = TRUE
  /\ switchRequest' = nextId + 1
  /\ connecting' = connecting \cup {nextId + 1}
  /\ overlay' = NoOverlay
  /\ UNCHANGED <<tasks, forced, readOnly, namespace, request, busy, queried, selected>>

Expected(c) == switching /\ c = switchRequest

ConnectFailed(c) ==
  /\ connecting' = connecting \ {c}
  /\ switching' = (switching /\ ~Expected(c))
  /\ UNCHANGED <<tasks, forced, readOnly, namespace, switchRequest, lockVars, selected, overlay>>

\* Mutant: the profile's setting replaces the one of the command line.
ReadOnlyOfProfile(setting) == setting

ReadOnlyAfter(setting) == forced \/ setting

\* ProfileSwitchFinished: invalidate_pending_requests and clear_connected_state.
\* The profile was read from disk again, with any namespace and setting.
Connected(c, ns, setting) ==
  /\ Expected(c)
  /\ connecting' = connecting \ {c}
  /\ switching' = FALSE
  /\ switchRequest' = nextId + 1
  /\ nextId' = nextId + 1
  /\ request' = [l \in Locks |-> nextId + 1]
  /\ busy' = [l \in Locks |-> FALSE]
  /\ namespace' = ns
  /\ readOnly' = ReadOnlyAfter(setting)
  /\ selected' = NoRow
  /\ overlay' = NoOverlay
  /\ UNCHANGED <<tasks, forced, queried>>

-----------------------------------------------------------------------------
(* The specification                                                        *)

Init ==
  /\ tasks = {}
  /\ connecting = {}
  /\ forced \in BOOLEAN
  /\ readOnly \in {ro \in BOOLEAN : forced => ro}
  /\ namespace \in Namespaces
  /\ switching = FALSE
  /\ switchRequest = 0
  /\ nextId = 0
  /\ request = [l \in Locks |-> 0]
  /\ busy = [l \in Locks |-> FALSE]
  /\ queried = FALSE
  /\ selected = NoRow
  /\ overlay = NoOverlay

Open ==
  \/ \E f \in Forms : OpenForm(f)
  \/ OpenProfiles
  \/ OpenNamespaces
  \/ OpenAttributes
  \/ \E row \in Targets : OpenAttributeForm(row)
  \/ CloseOverlay

Submit ==
  \/ \E f \in FrozenForms : SubmitConfirmed(f) \/ SubmitUnchecked(f)
  \/ \E f \in LateForms : SubmitLate(f)
  \/ Toggle
  \/ PreviewBatch
  \/ StartBatch

Answer(t) ==
  \E ok \in BOOLEAN : AnswerOperation(t, ok) \/ AnswerCall(t, ok) \/ AnswerPreview(t, ok)

ConnectDone ==
  \E c \in connecting : \/ ConnectFailed(c)
                        \/ \E ns \in Namespaces, ro \in BOOLEAN : Connected(c, ns, ro)

Next ==
  \/ Open
  \/ Submit
  \/ \E t \in tasks : DropAnswer(t) \/ Answer(t)
  \/ \E row \in Targets \cup {NoRow} : ListReloaded(row)
  \/ \E row \in Targets : SelectRow(row)
  \/ \E ns \in Namespaces : PickNamespace(ns)
  \/ PickProfile
  \/ ConnectDone

\* Every command is answered in the end, with a result or an error.
Fairness == \A l \in Locks : WF_vars(\E t \in tasks : t.slot = l /\ Answer(t))

Spec == Init /\ [][Next]_vars /\ Fairness
-----------------------------------------------------------------------------
(* Properties                                                               *)

\* No step of a read-only session sends a mutation, and --read-only outlives
\* every profile switch (TROUBLESHOOTING.md:52): not by a form opened before,
\* not by a preview that answers late, not by a profile that allows writing.
ReadOnlyNeverWrites == [][forced \/ readOnly => Writes' \subseteq Writes]_vars

\* A form that carries its target acts on the row the user saw when it was
\* opened, in the namespace of then, although the list behind it is reloaded
\* (README.md:120, "a refresh cannot redirect an action").
FrozenFormsActAsShown == \A t \in Writes : t.kind \in FrozenForms => t.aim = t.seen

\* A lock is held by a command whose answer will release it.
LockHasOwner ==
  \A l \in Locks : busy[l] =>
    \E t \in tasks : Wanted(t) /\ (t.slot = l \/ (l = "operation" /\ t.kind = "update"))

\* At most one mutation is on its way (open_confirmation: "A workflow operation
\* is already in progress").
OneMutationAtATime == Cardinality(Writes) <= 1

\* One handler call, one preview and one mutation at a time, and no mutation
\* while the session changes, whose result nobody would be told ("Wait for the
\* active operation before switching profiles"); for the last two, no Query
\* may have answered while a mutation was out.
OneAtATime ==
  /\ Cardinality({t \in tasks : t.kind \in Calls}) <= 1
  /\ Cardinality({t \in tasks : t.kind = "preview"}) <= 1
  /\ ~queried => OneMutationAtATime /\ (switching => Writes = {})

\* Every lock is released in the end.
LocksAreReleased == \A l \in Locks : busy[l] ~> ~busy[l]

\* Every mutation acts on the row its form was opened on, and in the namespace
\* its form or its preview was about.
MutationsHitWhatWasShown == \A t \in Writes : t.aim = t.seen
=============================================================================
