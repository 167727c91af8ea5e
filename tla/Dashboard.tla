----------------------------- MODULE Dashboard -----------------------------
(***************************************************************************)
(* The event loop of temporal-tui and the part of `App' it feeds: which    *)
(* request each surface is waiting for, what is on screen and whom it came *)
(* from, switching namespaces, and switching connection profiles.          *)
(*                                                                         *)
(* `App' (src/src/app.rs) is a pure state machine.  A key, a tick or an    *)
(* answer returns commands, and `runtime::run' (src/src/runtime.rs) spawns *)
(* one Tokio task per command, each holding the service that was active at *)
(* that moment.  Answers come back in any order, from whichever service    *)
(* the task was given, so `App' stores with every surface the id of the    *)
(* request it wants and drops any other answer.                            *)
(*                                                                         *)
(* Data is reduced to its provenance: what a surface shows is the service  *)
(* and the namespace that were asked, and whether there are rows.          *)
(***************************************************************************)
EXTENDS Naturals

CONSTANTS
  Profiles,     \* the configured connection profiles
  Unnamed,      \* the connection of a launch that names no profile
  Namespaces,
  Views,        \* the dashboard's tabs; an instance may leave some out
  Reports,      \* the reports nothing else reads; an instance may leave some out
  MaxRequest    \* bound: no key or tick once this many request ids were taken

WorkflowView  == "workflows"
TaskQueueView == "taskQueues"
WorkerView    == "workers"

\* Views of one capability that the server may lack: apply_capability_degradation.
DegradableViews == Views \ {WorkflowView, TaskQueueView}

ASSUME ViewsAssumption == WorkflowView \in Views
ASSUME ReportsAssumption == Reports \subseteq {"cluster", "count"}
ASSUME MaxRequestAssumption == MaxRequest \in Nat

\* What a service can be connected to.
Sessions == Profiles \cup {Unnamed}

(***************************************************************************)
(* The slots: the fields current_*_request of `App', one per kind of       *)
(* answer.  The slots of mutations, handler calls, batch previews, history *)
(* pages, chains, search attributes and utilities follow the same protocol *)
(* and belong to the modules about those features.                         *)
(***************************************************************************)
List(v)       == <<"list", v>>
Details(v)    == <<"details", v>>
Capabilities  == <<"session", "capabilities">>
NamespaceList == <<"session", "namespaces">>
Report(r)     == <<"report", r>>

ListSlots    == {List(v) : v \in Views}
DetailSlots  == {Details(v) : v \in Views}
ReportSlots  == {Report(r) : r \in Reports}
Slots        == {Capabilities, NamespaceList} \cup ReportSlots \cup ListSlots \cup DetailSlots

ClusterReport == ReportSlots \cap {Report("cluster")}
CountReport   == ReportSlots \cap {Report("count")}

\* The slots with a loading_* flag.
Spinning == ListSlots \cup DetailSlots \cup {Capabilities}

VARIABLES
  \* runtime::run
  service,      \* the service new tasks are given
  inFlight,     \* spawned tasks that were not answered yet
  connecting,   \* spawned connect_profile tasks
  \* App: identity of the session
  profile, namespace,
  switching, switchRequest,
  \* App: requests
  nextId, current, loading,
  \* App: what is on screen
  view, shown, blocked, manualQueue

runtimeVars == <<service, inFlight, connecting>>
sessionVars == <<profile, namespace, switching, switchRequest>>
requestVars == <<nextId, current, loading>>
screenVars  == <<view, shown, blocked, manualQueue>>
vars == <<runtimeVars, sessionVars, requestVars, screenVars>>

Nothing == [svc |-> "nobody", ns |-> "nowhere", rows |-> FALSE]
Shown   == [svc : Sessions, ns : Namespaces, rows : BOOLEAN]
Task    == [slot : Slots, id : Nat, svc : Sessions, ns : Namespaces]
Connect == [id : Nat, target : Sessions]

TypeOK ==
  /\ service \in Sessions
  /\ inFlight \subseteq Task
  /\ connecting \subseteq Connect
  /\ profile \in Sessions
  /\ namespace \in Namespaces
  /\ switching \in BOOLEAN
  /\ switchRequest \in Nat
  /\ nextId \in Nat
  /\ current \in [Slots -> Nat]
  /\ loading \in [Slots -> BOOLEAN]
  /\ view \in Views
  /\ shown \in [Slots -> Shown \cup {Nothing}]
  /\ blocked \subseteq DegradableViews
  /\ manualQueue \in BOOLEAN

-----------------------------------------------------------------------------
(* Requests *)

\* The answer a surface still wants: every handler's first test.
Fresh(m) == m.id = current[m.slot]

\* Every command of one handler call takes its own id.  Ids are only compared
\* with the id in the same slot, so the ids one call takes share one number.
Tasks(slots, id, svc, ns) ==
  {[slot |-> s, id |-> id, svc |-> svc, ns |-> ns] : s \in slots}

Claim(cur, slots, id) == [s \in Slots |-> IF s \in slots THEN id ELSE cur[s]]

Spin(ld, slots) == [s \in Slots |-> (s \in slots /\ s \in Spinning) \/ ld[s]]

\* Mutant: the switch forgets the details.
InvalidatedButDetails == Slots \ DetailSlots

\* invalidate_pending_requests gives them one barrier id no task was given.
Invalidated == Slots

Erase(sh, slots) == [s \in Slots |-> IF s \in slots THEN Nothing ELSE sh[s]]

\* Mutant: an answer leaves the loading flag of its slot alone.
CalmForgotten(ld, slots) == ld

Calm(ld, slots) == [s \in Slots |-> ld[s] /\ s \notin slots]

Rows(sh, v) == sh[List(v)].rows

-----------------------------------------------------------------------------
(* Refreshing a view *)

SurfaceOf(views) == {List(v) : v \in views} \cup {Details(v) : v \in views}

\* known_task_queue_names is not empty.
KnownQueues(sh, manual) ==
  manual \/ Rows(sh, WorkflowView) \/ (WorkerView \in Views /\ Rows(sh, WorkerView))

\* The slots refresh_workflows, refresh_task_queues, ... send requests for.
RefreshSlots(v, sh, blk, manual) ==
  CASE v = WorkflowView  -> {List(v)} \cup CountReport
    [] v = TaskQueueView -> IF KnownQueues(sh, manual) THEN {List(v)} ELSE {}
    [] OTHER             -> IF v \in blk THEN {} ELSE {List(v)}

\* What they clear first: the count when the query changes, a degraded surface.
RefreshErased(v, reset, blk) ==
  IF v \in blk THEN SurfaceOf({v})
  ELSE IF v = WorkflowView /\ reset THEN CountReport ELSE {}

RefreshCalmed(v, blk) == IF v \in blk THEN SurfaceOf({v}) ELSE {}

\* Mutant: the counter runs backwards.
TakeIdBackwards(slots) == nextId - 1

\* next_request_id, once per handler call that sends anything.
TakeId(slots) == IF slots = {} THEN nextId ELSE nextId + 1

\* A handler of the running session that asks for `slots'.
Ask(slots, ns) ==
  /\ nextId' = TakeId(slots)
  /\ current' = Claim(current, slots, nextId + 1)
  /\ inFlight' = inFlight \cup Tasks(slots, nextId + 1, service, ns)

\* Mutant: keys and ticks still act while a switch is pending.
IdleAlways == nextId < MaxRequest

Idle == nextId < MaxRequest /\ ~switching

Refresh(v, reset) ==
  /\ Ask(RefreshSlots(v, shown, blocked, manualQueue), namespace)
  /\ loading' = Spin(Calm(loading, RefreshCalmed(v, blocked)),
                     RefreshSlots(v, shown, blocked, manualQueue))
  /\ shown' = Erase(shown, RefreshErased(v, reset, blocked))
  /\ UNCHANGED <<service, connecting, sessionVars, blocked>>

-----------------------------------------------------------------------------
(* Keys and ticks.  While a switch is pending every key but quit is dropped *)
(* and no tick refreshes.  Whether an overlay has the keyboard is left open. *)

PressRefresh ==
  /\ Idle
  /\ Refresh(view, FALSE)
  /\ UNCHANGED <<view, manualQueue>>

\* The automatic refresh; the clock and the `a' toggle may always allow it.
Tick ==
  /\ Idle
  /\ ~loading[List(view)]
  /\ Refresh(view, FALSE)
  /\ UNCHANGED <<view, manualQueue>>

\* A Visibility query was entered or picked, for Workflows or Schedules.
ApplyQuery(v) ==
  /\ Idle
  /\ v = view
  /\ v \in {WorkflowView, "schedules"}
  /\ Refresh(v, TRUE)
  /\ UNCHANGED <<view, manualQueue>>

AddTaskQueue ==
  /\ Idle
  /\ view = TaskQueueView
  /\ manualQueue' = TRUE
  /\ Ask({List(view)}, namespace)
  /\ loading' = Spin(loading, {List(view)})
  /\ UNCHANGED <<service, connecting, sessionVars, view, shown, blocked>>

SwitchView(v) ==
  /\ Idle
  /\ v # view
  /\ view' = v
  /\ UNCHANGED manualQueue
  /\ LET joined == IF /\ v = TaskQueueView /\ WorkerView \in Views
                      /\ ~Rows(shown, WorkerView) /\ ~loading[List(WorkerView)]
                   THEN {WorkerView} ELSE {}
         asked  == IF v = TaskQueueView THEN {v} \cup joined
                   ELSE IF Rows(shown, v) THEN {} ELSE {v}
         slots  == UNION {RefreshSlots(w, shown, blocked, manualQueue) : w \in asked}
         calmed == UNION {RefreshCalmed(w, blocked) : w \in asked}
     IN /\ Ask(slots, namespace)
        /\ loading' = Spin(Calm(loading, calmed), slots)
        /\ shown' = Erase(shown, UNION {RefreshErased(w, FALSE, blocked) : w \in asked})
        /\ UNCHANGED <<service, connecting, sessionVars, blocked>>

\* select_workflow, select_worker, ...: another row, its details are asked for.
SelectRow ==
  /\ Idle
  /\ view # TaskQueueView
  /\ Rows(shown, view)
  /\ Ask({Details(view)}, namespace)
  /\ loading' = Spin(loading, {Details(view)})
  /\ shown' = Erase(shown, {Details(view)})
  /\ UNCHANGED <<service, connecting, sessionVars, view, blocked, manualQueue>>

ReloadCapabilities ==
  /\ Idle
  /\ Ask({Capabilities}, namespace)
  /\ loading' = Spin(loading, {Capabilities})
  /\ UNCHANGED <<service, connecting, sessionVars, screenVars>>

\* Mutant: the capabilities are not asked for again.
NamespaceReloadsNothing == {}

NamespaceReloads == {Capabilities}

\* NamespacePicker, Enter.  The surfaces are emptied and the capabilities and
\* the current view are asked for again; no other slot is given a new id.
PickNamespace(ns) ==
  /\ Idle
  /\ shown[NamespaceList].rows
  /\ namespace' = ns
  /\ blocked' = {}
  /\ manualQueue' = FALSE
  /\ LET cleared == Erase(shown, ListSlots \cup DetailSlots \cup {Capabilities})
         slots   == NamespaceReloads \cup RefreshSlots(view, cleared, {}, FALSE)
     IN /\ Ask(slots, ns)
        /\ loading' = Spin(loading, slots)
        /\ shown' = Erase(cleared, RefreshErased(view, TRUE, {}))
  /\ UNCHANGED <<service, connecting, profile, switching, switchRequest, view>>

\* ProfilePicker, Enter: runtime::dispatch spawns connect_profile.
PickProfile(p) ==
  /\ Idle
  /\ p # profile
  /\ nextId' = nextId + 1
  /\ switching' = TRUE
  /\ switchRequest' = nextId + 1
  /\ connecting' = connecting \cup {[id |-> nextId + 1, target |-> p]}
  /\ UNCHANGED <<service, inFlight, profile, namespace, current, loading, screenVars>>

-----------------------------------------------------------------------------
(* Answers.  A task may also be answered with an error. *)

Drop(m) ==
  /\ ~Fresh(m)
  /\ inFlight' = inFlight \ {m}
  /\ UNCHANGED <<service, connecting, sessionVars, requestVars, screenVars>>

AnswerError(m) ==
  /\ Fresh(m)
  /\ inFlight' = inFlight \ {m}
  /\ loading' = Calm(loading, {m.slot})
  /\ UNCHANGED <<service, connecting, sessionVars, nextId, current, screenVars>>

Result(m, rows) == [svc |-> m.svc, ns |-> m.ns, rows |-> rows]

\* ClusterLoaded, NamespacesLoaded, WorkflowCountLoaded and the *DetailsLoaded.
AnswerValue(m, rows) ==
  /\ Fresh(m)
  /\ m.slot \in DetailSlots \cup ReportSlots \cup {NamespaceList}
  /\ inFlight' = inFlight \ {m}
  /\ loading' = Calm(loading, {m.slot})
  /\ shown' = [shown EXCEPT ![m.slot] = Result(m, rows)]
  /\ UNCHANGED <<service, connecting, sessionVars, nextId, current,
                 view, blocked, manualQueue>>

\* CapabilitiesLoaded, with apply_capability_degradation.
AnswerCapabilities(m, lacking) ==
  /\ Fresh(m)
  /\ m.slot = Capabilities
  /\ inFlight' = inFlight \ {m}
  /\ blocked' = lacking
  /\ loading' = Calm(loading, {m.slot} \cup SurfaceOf(lacking))
  /\ shown' = [Erase(shown, SurfaceOf(lacking)) EXCEPT ![m.slot] = Result(m, TRUE)]
  /\ UNCHANGED <<service, connecting, sessionVars, nextId, current, view, manualQueue>>

\* WorkflowsLoaded, WorkersLoaded, ...: the rows, and then the details of the
\* row that is selected, if there is one.  Task Queues have no details.
AnswerList(m, v, rows) ==
  /\ Fresh(m)
  /\ m.slot = List(v)
  /\ LET wanted == IF rows /\ v # TaskQueueView THEN {Details(v)} ELSE {}
     IN /\ nextId' = TakeId(wanted)
        /\ current' = Claim(current, wanted, nextId + 1)
        /\ inFlight' = (inFlight \ {m}) \cup Tasks(wanted, nextId + 1, service, namespace)
        /\ loading' = Spin(Calm(loading, {m.slot}), wanted)
  /\ shown' = [Erase(shown, {Details(v)}) EXCEPT ![List(v)] = Result(m, rows)]
  /\ UNCHANGED <<service, connecting, sessionVars, view, blocked, manualQueue>>

-----------------------------------------------------------------------------
(* The end of a profile switch: RuntimeMessage::ProfileConnected, gated by  *)
(* expects_profile_switch, then Message::ProfileSwitchFinished in one step. *)

\* Mutant: the answer is compared with the last id taken.
ExpectedLatest(c) == switching /\ c.id = nextId

Expected(c) == switching /\ c.id = switchRequest

ConnectFailed(c) ==
  /\ connecting' = connecting \ {c}
  /\ switching' = IF Expected(c) THEN FALSE ELSE switching
  /\ UNCHANGED <<service, inFlight, profile, namespace, switchRequest,
                 requestVars, screenVars>>

\* Mutant: the loading flags of the old session are kept.
SpinKept(slots) == Spin(loading, slots)

SpinAnew(slots) == [s \in Slots |-> s \in slots /\ s \in Spinning]

\* The service is replaced, every slot is moved past the tasks of the old one,
\* the screen is emptied (clear_connected_state) and bootstrap asks again.
Connected(c, ns) ==
  /\ Expected(c)
  /\ connecting' = connecting \ {c}
  /\ switching' = FALSE
  /\ service' = c.target
  /\ profile' = c.target
  /\ namespace' = ns
  /\ switchRequest' = nextId + 1
  /\ blocked' = {}
  /\ manualQueue' = FALSE
  /\ shown' = [s \in Slots |-> Nothing]
  /\ LET slots == {Capabilities, NamespaceList} \cup ClusterReport
                    \cup RefreshSlots(view, Erase(shown, Slots), {}, FALSE)
     IN /\ nextId' = nextId + 2
        /\ current' = Claim(Claim(current, Invalidated, nextId + 1), slots, nextId + 2)
        /\ inFlight' = inFlight \cup Tasks(slots, nextId + 2, c.target, ns)
        /\ loading' = SpinAnew(slots)
  /\ UNCHANGED view

-----------------------------------------------------------------------------
(* The specification *)

\* App::new and bootstrap, on the connection main.rs made.
BootSlots == {Capabilities, NamespaceList, List(WorkflowView)} \cup ReportSlots

Init ==
  /\ service \in Sessions
  /\ profile = service
  /\ namespace \in Namespaces
  /\ connecting = {}
  /\ switching = FALSE
  /\ switchRequest = 0
  /\ nextId = 1
  /\ current = [s \in Slots |-> IF s \in BootSlots THEN 1 ELSE 0]
  /\ inFlight = Tasks(BootSlots, 1, service, namespace)
  /\ loading = [s \in Slots |-> s \in BootSlots /\ s \in Spinning]
  /\ view = WorkflowView
  /\ shown = [s \in Slots |-> Nothing]
  /\ blocked = {}
  /\ manualQueue = FALSE

Answer(m) ==
  \/ AnswerError(m)
  \/ \E rows \in BOOLEAN : AnswerValue(m, rows)
  \/ \E lacking \in SUBSET DegradableViews : AnswerCapabilities(m, lacking)
  \/ \E v \in Views, rows \in BOOLEAN : AnswerList(m, v, rows)

ConnectDone ==
  \E c \in connecting : ConnectFailed(c) \/ \E ns \in Namespaces : Connected(c, ns)

Key ==
  \/ PressRefresh
  \/ \E v \in Views : ApplyQuery(v)
  \/ AddTaskQueue
  \/ \E v \in Views : SwitchView(v)
  \/ SelectRow
  \/ ReloadCapabilities
  \/ \E ns \in Namespaces : PickNamespace(ns)
  \/ \E p \in Profiles : PickProfile(p)

Next ==
  \/ Key
  \/ Tick
  \/ \E m \in inFlight : Drop(m) \/ Answer(m)
  \/ ConnectDone

\* Every request that is still wanted, and every connection attempt, is
\* answered in the end: Tokio runs each task, and a call to the frontend
\* returns a result or an error.
Fairness ==
  /\ \A s \in Slots : WF_vars(\E m \in inFlight : m.slot = s /\ Answer(m))
  /\ WF_vars(ConnectDone)

Spec == Init /\ [][Next]_vars /\ Fairness
-----------------------------------------------------------------------------
(* Properties *)

\* Nothing on screen ever came from another cluster than the one named on
\* screen, however late the old cluster answers (README.md:403, "Request IDs
\* suppress stale ... cross-cluster responses").
NoForeignData == \A s \in Slots : shown[s] # Nothing => shown[s].svc = profile

\* The capability report that gates actions is the one of the namespace the
\* dashboard is in, although a report of another namespace may be in flight.
CapabilitiesOfNamespace ==
  shown[Capabilities] # Nothing => shown[Capabilities].ns = namespace

\* A loading flag stands for a request that is still out and still wanted: it
\* can never be left behind by a switch, a degradation or a newer request.
SpinnerHasRequest ==
  \A s \in Slots : loading[s] => \E m \in inFlight : m.slot = s /\ Fresh(m)

\* The keyboard is locked exactly as long as one connection attempt, the one
\* App waits for, is running: no attempt is forgotten and none is doubled.
OneSwitchAtATime ==
  /\ switching <=> connecting # {}
  /\ \A c \in connecting : c.id = switchRequest
  /\ \A c, d \in connecting : c = d

\* No wait is for ever: the answer or its error always clears the flag, and a
\* profile switch ends and unlocks the keys.  As the keys are bounded, the
\* dashboard even comes to rest with nothing waited for, whatever was in
\* flight and whatever was switched in between.
WaitingEnds == []<>(~switching /\ \A s \in Slots : ~loading[s])

\* Every row and detail on screen belongs to the namespace on screen.
RowsOfNamespace ==
  \A s \in ListSlots \cup DetailSlots : shown[s] # Nothing => shown[s].ns = namespace
=============================================================================
