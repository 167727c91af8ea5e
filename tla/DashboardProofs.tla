--------------------------- MODULE DashboardProofs ---------------------------
(***************************************************************************)
(* Safety of Dashboard for every set of profiles, namespaces and views.    *)
(***************************************************************************)
EXTENDS Dashboard, TLAPS

\* No request id is above the counter, so the next one is unused.
IdsBelowCounter ==
  /\ \A m \in inFlight : m.id <= nextId
  /\ \A s \in Slots : current[s] <= nextId

\* The answers that are still wanted come from the active service, and the
\* dashboard names that service.
WantedIsOurs ==
  /\ profile = service
  /\ \A m \in inFlight : Fresh(m) => m.svc = service

SafetyInv == TypeOK /\ IdsBelowCounter /\ WantedIsOurs /\ NoForeignData

-----------------------------------------------------------------------------
(* The slots and what the handlers do with them *)

LEMMA SlotFacts ==
  /\ \A v \in Views : List(v) \in Slots /\ Details(v) \in Slots
  /\ Capabilities \in Slots
  /\ NamespaceList \in Slots
  /\ ReportSlots \subseteq Slots
  /\ CountReport \subseteq Slots
  /\ ClusterReport \subseteq Slots
  /\ BootSlots \subseteq Slots
  BY ViewsAssumption DEF Slots, ListSlots, DetailSlots, ReportSlots, CountReport,
     ClusterReport, BootSlots

LEMMA RefreshSlotsType ==
  ASSUME NEW v \in Views, NEW sh, NEW blk, NEW manual
  PROVE  RefreshSlots(v, sh, blk, manual) \subseteq Slots
  BY SlotFacts DEF RefreshSlots

\* A handler of the running session: some answers leave, the slots it asks for
\* get a new id, and the tasks it spawns carry that id and the active service.
LEMMA AskKeepsWanted ==
  ASSUME TypeOK, IdsBelowCounter, WantedIsOurs,
         NEW slots \in SUBSET Slots, NEW gone, NEW ns \in Namespaces,
         nextId' = TakeId(slots),
         current' = Claim(current, slots, nextId + 1),
         inFlight' = (inFlight \ gone) \cup Tasks(slots, nextId + 1, service, ns)
  PROVE  /\ nextId' \in Nat
         /\ current' \in [Slots -> Nat]
         /\ inFlight' \subseteq Task
         /\ IdsBelowCounter'
         /\ \A m \in inFlight' : Fresh(m)' => m.svc = service
<1> USE DEF TypeOK
<1>1. nextId' \in Nat /\ nextId <= nextId' /\ (slots # {} => nextId' = nextId + 1)
  BY DEF TakeId
<1>2. current' \in [Slots -> Nat] /\ inFlight' \subseteq Task
  <2>1. nextId + 1 \in Nat
    OBVIOUS
  <2>2. Claim(current, slots, nextId + 1) \in [Slots -> Nat]
    BY <2>1 DEF Claim
  <2>3. Tasks(slots, nextId + 1, service, ns) \subseteq Task
    BY <2>1 DEF Tasks, Task
  <2> QED BY <2>2, <2>3
<1>3. \A s \in Slots : current'[s] = IF s \in slots THEN nextId + 1 ELSE current[s]
  BY DEF Claim
<1>4. \A m \in inFlight' : \/ m \in inFlight
                           \/ /\ m.slot \in slots
                              /\ m.id = nextId + 1
                              /\ m.svc = service
  BY DEF Tasks
<1>5. \A m \in inFlight : m \in Task /\ m.slot \in Slots /\ m.id \in Nat
  BY DEF Task
<1>6. IdsBelowCounter'
  BY <1>1, <1>3, <1>4, <1>5 DEF IdsBelowCounter
<1>7. ASSUME NEW m \in inFlight', Fresh(m)'
      PROVE  m.svc = service
  <2>1. CASE m \in inFlight
    <3>1. m.id = current'[m.slot] /\ m.id <= nextId /\ m.slot \in Slots /\ m.id \in Nat
      BY <1>5, <1>7, <2>1 DEF Fresh, IdsBelowCounter
    <3>2. m.slot \notin slots
      BY <1>3, <3>1
    <3>3. Fresh(m)
      BY <1>3, <3>1, <3>2 DEF Fresh
    <3> QED BY <2>1, <3>3 DEF WantedIsOurs
  <2>2. CASE m \notin inFlight
    BY <1>4, <2>2
  <2> QED BY <2>1, <2>2
<1> QED BY <1>1, <1>2, <1>6, <1>7

-----------------------------------------------------------------------------
(* The steps of one session: keys, ticks and answers *)

\* What every step that keeps the service has to show, besides the requests.
LEMMA SessionStep ==
  ASSUME TypeOK, IdsBelowCounter, WantedIsOurs, NoForeignData,
         NEW slots \in SUBSET Slots, NEW gone,
         nextId' = TakeId(slots),
         current' = Claim(current, slots, nextId + 1),
         inFlight' = (inFlight \ gone) \cup Tasks(slots, nextId + 1, service, namespace'),
         service' = service, profile' = profile, connecting' = connecting,
         switching' = switching, switchRequest' = switchRequest,
         namespace' \in Namespaces, view' \in Views, manualQueue' \in BOOLEAN,
         blocked' \subseteq DegradableViews,
         loading' \in [Slots -> BOOLEAN],
         shown' \in [Slots -> Shown \cup {Nothing}],
         \A s \in Slots : \/ shown'[s] \in {shown[s], Nothing}
                          \/ shown'[s].svc = service
  PROVE  SafetyInv'
<1>1. /\ nextId' \in Nat
      /\ current' \in [Slots -> Nat]
      /\ inFlight' \subseteq Task
      /\ IdsBelowCounter'
      /\ \A m \in inFlight' : Fresh(m)' => m.svc = service
  BY AskKeepsWanted
<1>2. TypeOK'
  BY <1>1 DEF TypeOK
<1>3. WantedIsOurs'
  BY <1>1 DEF WantedIsOurs
<1>4. NoForeignData'
  BY DEF NoForeignData, WantedIsOurs
<1> QED BY <1>1, <1>2, <1>3, <1>4 DEF SafetyInv

\* An answer that asks for nothing more.
LEMMA QuietStep ==
  ASSUME SafetyInv, NEW m,
         inFlight' = inFlight \ {m},
         nextId' = nextId, current' = current,
         service' = service, connecting' = connecting, sessionVars' = sessionVars,
         view' = view, manualQueue' = manualQueue,
         blocked' \subseteq DegradableViews,
         loading' \in [Slots -> BOOLEAN],
         shown' \in [Slots -> Shown \cup {Nothing}],
         \A s \in Slots : \/ shown'[s] \in {shown[s], Nothing}
                          \/ shown'[s].svc = service
  PROVE  SafetyInv'
<1> USE DEF SafetyInv
<1>1. sessionVars' = sessionVars
      => /\ profile' = profile /\ namespace' = namespace
         /\ switching' = switching /\ switchRequest' = switchRequest
  BY DEF sessionVars
<1>2. nextId' = TakeId({})
  BY DEF TakeId
<1>3. current' = Claim(current, {}, nextId + 1)
  <2>1. current = [s \in Slots |-> current[s]]
    BY DEF TypeOK
  <2> QED BY <2>1 DEF Claim
<1>4. inFlight' = (inFlight \ {m}) \cup Tasks({}, nextId + 1, service, namespace')
  BY DEF Tasks
<1>5. {} \in SUBSET Slots
  OBVIOUS
<1>6. /\ namespace' \in Namespaces /\ view' \in Views /\ manualQueue' \in BOOLEAN
  BY <1>1 DEF TypeOK
<1> QED BY <1>1, <1>2, <1>3, <1>4, <1>5, <1>6, SessionStep

LEMMA RefreshStep ==
  ASSUME SafetyInv, NEW v \in Views, NEW reset, Refresh(v, reset),
         view' \in Views, manualQueue' \in BOOLEAN
  PROVE  SafetyInv'
<1> DEFINE slots == RefreshSlots(v, shown, blocked, manualQueue)
<1> USE DEF SafetyInv
<1>1. slots \in SUBSET Slots
  BY RefreshSlotsType
<1>2. loading' \in [Slots -> BOOLEAN]
  BY DEF Refresh, TypeOK, Spin, Calm
<1>3. /\ shown' \in [Slots -> Shown \cup {Nothing}]
      /\ \A s \in Slots : shown'[s] \in {shown[s], Nothing}
  BY DEF Refresh, TypeOK, Erase
<1>4. /\ nextId' = TakeId(slots)
      /\ current' = Claim(current, slots, nextId + 1)
      /\ inFlight' = (inFlight \ {}) \cup Tasks(slots, nextId + 1, service, namespace')
      /\ UNCHANGED <<service, connecting, sessionVars, blocked>>
  BY DEF Refresh, Ask, sessionVars
<1> HIDE DEF slots
<1> QED BY <1>1, <1>2, <1>3, <1>4, SessionStep DEF TypeOK, sessionVars

\* The keys that do not go through Refresh.
LEMMA KeyStep ==
  ASSUME SafetyInv, Key
  PROVE  SafetyInv'
<1> USE DEF SafetyInv
<1>1. CASE PressRefresh
  BY <1>1, RefreshStep DEF PressRefresh, TypeOK
<1>2. ASSUME NEW v \in Views, ApplyQuery(v)
      PROVE  SafetyInv'
  BY <1>2, RefreshStep DEF ApplyQuery, TypeOK
<1>3. CASE AddTaskQueue
  <2>1. {List(view)} \in SUBSET Slots /\ loading' \in [Slots -> BOOLEAN]
    BY <1>3, SlotFacts DEF AddTaskQueue, TypeOK, Spin
  <2>2. inFlight' = (inFlight \ {}) \cup Tasks({List(view)}, nextId + 1, service, namespace')
    BY <1>3 DEF AddTaskQueue, Ask, sessionVars
  <2> QED BY <1>3, <2>1, <2>2, SessionStep DEF AddTaskQueue, Ask, TypeOK, sessionVars
<1>4. ASSUME NEW v \in Views, SwitchView(v)
      PROVE  SafetyInv'
  <2>1. PICK asked, calmed, erased :
           /\ asked \in SUBSET Slots
           /\ Ask(asked, namespace)
           /\ loading' = Spin(Calm(loading, calmed), asked)
           /\ shown' = Erase(shown, erased)
    <3> DEFINE joined == IF /\ v = TaskQueueView /\ WorkerView \in Views
                            /\ ~Rows(shown, WorkerView) /\ ~loading[List(WorkerView)]
                         THEN {WorkerView} ELSE {}
               views  == IF v = TaskQueueView THEN {v} \cup joined
                         ELSE IF Rows(shown, v) THEN {} ELSE {v}
               slots  == UNION {RefreshSlots(w, shown, blocked, manualQueue) : w \in views}
    <3>1. views \subseteq Views
      OBVIOUS
    <3>2. slots \in SUBSET Slots
      BY <3>1, RefreshSlotsType
    <3> QED BY <1>4, <3>2 DEF SwitchView
  <2>2. /\ loading' \in [Slots -> BOOLEAN]
        /\ shown' \in [Slots -> Shown \cup {Nothing}]
        /\ \A s \in Slots : shown'[s] \in {shown[s], Nothing}
    BY <2>1 DEF Spin, Calm, Erase, TypeOK
  <2>3. /\ v \in Views /\ view' = v
        /\ UNCHANGED <<service, connecting, sessionVars, blocked, manualQueue>>
    BY <1>4 DEF SwitchView
  <2>4. inFlight' = (inFlight \ {}) \cup Tasks(asked, nextId + 1, service, namespace')
    BY <2>1, <2>3 DEF Ask, sessionVars
  <2> QED BY <2>1, <2>2, <2>3, <2>4, SessionStep DEF Ask, TypeOK, sessionVars
<1>5. CASE SelectRow
  <2>1. {Details(view)} \in SUBSET Slots /\ loading' \in [Slots -> BOOLEAN]
    BY <1>5, SlotFacts DEF SelectRow, TypeOK, Spin
  <2>2. /\ shown' \in [Slots -> Shown \cup {Nothing}]
        /\ \A s \in Slots : shown'[s] \in {shown[s], Nothing}
    BY <1>5 DEF SelectRow, TypeOK, Erase
  <2>3. inFlight' = (inFlight \ {}) \cup Tasks({Details(view)}, nextId + 1, service, namespace')
    BY <1>5 DEF SelectRow, Ask, sessionVars
  <2> QED BY <1>5, <2>1, <2>2, <2>3, SessionStep DEF SelectRow, Ask, TypeOK, sessionVars
<1>6. CASE ReloadCapabilities
  <2>1. {Capabilities} \in SUBSET Slots /\ loading' \in [Slots -> BOOLEAN]
    BY <1>6, SlotFacts DEF ReloadCapabilities, TypeOK, Spin
  <2>2. inFlight' = (inFlight \ {}) \cup Tasks({Capabilities}, nextId + 1, service, namespace')
    BY <1>6 DEF ReloadCapabilities, Ask, sessionVars
  <2> QED BY <1>6, <2>1, <2>2, SessionStep
          DEF ReloadCapabilities, Ask, TypeOK, sessionVars, screenVars
<1>7. ASSUME NEW ns \in Namespaces, PickNamespace(ns)
      PROVE  SafetyInv'
  <2>1. PICK slots, cleared, erased :
           /\ slots \in SUBSET Slots
           /\ Ask(slots, ns)
           /\ loading' = Spin(loading, slots)
           /\ shown' = Erase(Erase(shown, cleared), erased)
    <3> DEFINE cleared == ListSlots \cup DetailSlots \cup {Capabilities}
               slots   == NamespaceReloads
                            \cup RefreshSlots(view, Erase(shown, cleared), {}, FALSE)
    <3>1. slots \in SUBSET Slots
      BY SlotFacts, RefreshSlotsType DEF NamespaceReloads, TypeOK
    <3> QED BY <1>7, <3>1 DEF PickNamespace
  <2>2. /\ loading' \in [Slots -> BOOLEAN]
        /\ shown' \in [Slots -> Shown \cup {Nothing}]
        /\ \A s \in Slots : shown'[s] \in {shown[s], Nothing}
    BY <2>1 DEF Spin, Erase, TypeOK
  <2>3. inFlight' = (inFlight \ {}) \cup Tasks(slots, nextId + 1, service, namespace')
    BY <1>7, <2>1 DEF PickNamespace, Ask
  <2> QED BY <1>7, <2>1, <2>2, <2>3, SessionStep DEF PickNamespace, Ask, TypeOK
<1>8. ASSUME NEW p \in Profiles, PickProfile(p)
      PROVE  SafetyInv'
  <2>1. TypeOK'
    BY <1>8 DEF PickProfile, TypeOK, Connect, Sessions, screenVars
  <2>2. IdsBelowCounter'
    BY <1>8 DEF PickProfile, IdsBelowCounter, TypeOK, Task
  <2>3. WantedIsOurs' /\ NoForeignData'
    BY <1>8 DEF PickProfile, WantedIsOurs, NoForeignData, Fresh, screenVars
  <2> QED BY <2>1, <2>2, <2>3
<1> QED BY <1>1, <1>2, <1>3, <1>4, <1>5, <1>6, <1>7, <1>8 DEF Key

LEMMA AnswerStep ==
  ASSUME SafetyInv, NEW m \in inFlight, Answer(m)
  PROVE  SafetyInv'
<1> USE DEF SafetyInv
<1>1. m \in Task /\ m.slot \in Slots
  BY DEF TypeOK, Task
<1>2. Fresh(m) /\ m.svc = service
  BY DEF Answer, AnswerError, AnswerValue, AnswerCapabilities, AnswerList, WantedIsOurs
<1>3. \A rows \in BOOLEAN : Result(m, rows) \in Shown /\ Result(m, rows).svc = service
  BY <1>1, <1>2 DEF Result, Shown, Task
<1>5. CASE AnswerError(m)
  <2>1. /\ loading' \in [Slots -> BOOLEAN]
        /\ shown' = shown /\ view' = view /\ blocked' = blocked /\ manualQueue' = manualQueue
        /\ inFlight' = inFlight \ {m} /\ nextId' = nextId /\ current' = current
        /\ service' = service /\ connecting' = connecting /\ sessionVars' = sessionVars
    BY <1>5 DEF AnswerError, Calm, TypeOK, screenVars
  <2>2. /\ blocked' \subseteq DegradableViews
        /\ shown' \in [Slots -> Shown \cup {Nothing}]
        /\ \A s \in Slots : shown'[s] \in {shown[s], Nothing}
    BY <2>1 DEF TypeOK
  <2> QED BY <2>1, <2>2, QuietStep
<1>6. ASSUME NEW rows \in BOOLEAN, AnswerValue(m, rows)
      PROVE  SafetyInv'
  <2>1. /\ loading' \in [Slots -> BOOLEAN]
        /\ shown' \in [Slots -> Shown \cup {Nothing}]
        /\ \A s \in Slots : shown'[s] \in {shown[s], Nothing} \/ shown'[s].svc = service
    BY <1>1, <1>3, <1>6 DEF AnswerValue, Calm, TypeOK
  <2>2. /\ inFlight' = inFlight \ {m} /\ nextId' = nextId /\ current' = current
        /\ service' = service /\ connecting' = connecting /\ sessionVars' = sessionVars
        /\ view' = view /\ manualQueue' = manualQueue /\ blocked' \subseteq DegradableViews
    BY <1>6 DEF AnswerValue, TypeOK
  <2> QED BY <2>1, <2>2, QuietStep
<1>7. ASSUME NEW lacking \in SUBSET DegradableViews, AnswerCapabilities(m, lacking)
      PROVE  SafetyInv'
  <2>1. /\ loading' \in [Slots -> BOOLEAN]
        /\ shown' \in [Slots -> Shown \cup {Nothing}]
        /\ \A s \in Slots : shown'[s] \in {shown[s], Nothing} \/ shown'[s].svc = service
    BY <1>1, <1>3, <1>7 DEF AnswerCapabilities, Calm, Erase, TypeOK
  <2>2. /\ inFlight' = inFlight \ {m} /\ nextId' = nextId /\ current' = current
        /\ service' = service /\ connecting' = connecting /\ sessionVars' = sessionVars
        /\ view' = view /\ manualQueue' = manualQueue /\ blocked' \subseteq DegradableViews
    BY <1>7 DEF AnswerCapabilities
  <2> QED BY <2>1, <2>2, QuietStep
<1>8. ASSUME NEW v \in Views, NEW rows \in BOOLEAN, AnswerList(m, v, rows)
      PROVE  SafetyInv'
  <2> DEFINE wanted == IF rows /\ v # TaskQueueView THEN {Details(v)} ELSE {}
  <2>1. wanted \in SUBSET Slots
    BY SlotFacts
  <2>2. /\ nextId' = TakeId(wanted)
        /\ current' = Claim(current, wanted, nextId + 1)
        /\ inFlight' = (inFlight \ {m}) \cup Tasks(wanted, nextId + 1, service, namespace')
        /\ loading' = Spin(Calm(loading, {m.slot}), wanted)
    BY <1>8 DEF AnswerList, sessionVars
  <2> HIDE DEF wanted
  <2>3. /\ loading' \in [Slots -> BOOLEAN]
        /\ shown' \in [Slots -> Shown \cup {Nothing}]
        /\ \A s \in Slots : shown'[s] \in {shown[s], Nothing} \/ shown'[s].svc = service
    BY <1>1, <1>3, <1>8, <2>2 DEF AnswerList, Calm, Spin, Erase, TypeOK
  <2> QED BY <1>8, <2>1, <2>2, <2>3, SessionStep DEF AnswerList, TypeOK, sessionVars
<1> QED BY <1>5, <1>6, <1>7, <1>8 DEF Answer

-----------------------------------------------------------------------------
(* The steps that change the session, and the theorems *)

\* Whatever the switch leaves in flight is below the barrier, so no answer of
\* the old service is wanted any more.
LEMMA ConnectedStep ==
  ASSUME SafetyInv, NEW c \in connecting, NEW ns \in Namespaces, Connected(c, ns)
  PROVE  SafetyInv'
<1> USE DEF SafetyInv
<1>1. PICK slots \in SUBSET Slots :
         /\ nextId' = nextId + 2
         /\ current' = Claim(Claim(current, Invalidated, nextId + 1), slots, nextId + 2)
         /\ inFlight' = inFlight \cup Tasks(slots, nextId + 2, c.target, ns)
         /\ loading' = SpinAnew(slots)
  <2>1. {Capabilities, NamespaceList} \cup ClusterReport
           \cup RefreshSlots(view, Erase(shown, Slots), {}, FALSE) \in SUBSET Slots
    BY SlotFacts, RefreshSlotsType DEF TypeOK
  <2> QED BY <2>1 DEF Connected
<1>2. c \in Connect /\ c.target \in Sessions
  BY DEF TypeOK, Connect
<1>3. nextId \in Nat /\ nextId + 1 \in Nat /\ nextId + 2 \in Nat
  BY DEF TypeOK
<1>4. /\ service' = c.target /\ profile' = c.target /\ namespace' = ns
      /\ switching' = FALSE /\ switchRequest' = nextId + 1
      /\ connecting' = connecting \ {c}
      /\ blocked' = {} /\ manualQueue' = FALSE /\ view' = view
      /\ shown' = [s \in Slots |-> Nothing]
  BY DEF Connected
<1>5. Tasks(slots, nextId + 2, c.target, ns) \subseteq Task
  BY <1>2, <1>3 DEF Tasks, Task
<1>6. \A s \in Slots : current'[s] = IF s \in slots THEN nextId + 2 ELSE nextId + 1
  BY <1>1 DEF Claim, Invalidated
<1>7. current' \in [Slots -> Nat] /\ loading' \in [Slots -> BOOLEAN]
  BY <1>1, <1>3 DEF Claim, Invalidated, SpinAnew
<1>8. TypeOK'
  BY <1>1, <1>2, <1>3, <1>4, <1>5, <1>7 DEF TypeOK
<1>9. \A m \in inFlight' : \/ m \in inFlight /\ m.id <= nextId /\ m.id \in Nat /\ m.slot \in Slots
                           \/ m.id = nextId + 2 /\ m.svc = c.target
  BY <1>1 DEF Tasks, IdsBelowCounter, TypeOK, Task
<1>10. IdsBelowCounter'
  BY <1>1, <1>3, <1>6, <1>9 DEF IdsBelowCounter
<1>11. WantedIsOurs'
  BY <1>3, <1>4, <1>6, <1>9 DEF WantedIsOurs, Fresh
<1>12. NoForeignData'
  BY <1>4 DEF NoForeignData
<1> QED BY <1>8, <1>10, <1>11, <1>12

LEMMA SafetyInit == Init => SafetyInv
<1> SUFFICES ASSUME Init PROVE SafetyInv
  OBVIOUS
<1>1. BootSlots \subseteq Slots
  BY SlotFacts
<1>2. /\ current \in [Slots -> Nat]
      /\ \A s \in Slots : current[s] <= 1
  BY DEF Init
<1>3. inFlight \subseteq Task /\ \A m \in inFlight : m.id = 1 /\ m.svc = service
  BY <1>1 DEF Init, Tasks, Task
<1>4. TypeOK
  BY <1>2, <1>3, ViewsAssumption DEF Init, TypeOK
<1>5. IdsBelowCounter
  BY <1>2, <1>3 DEF IdsBelowCounter, Init
<1>6. WantedIsOurs /\ NoForeignData
  BY <1>3 DEF WantedIsOurs, NoForeignData, Init
<1> QED BY <1>4, <1>5, <1>6 DEF SafetyInv

LEMMA SafetyNext == SafetyInv /\ [Next]_vars => SafetyInv'
<1> SUFFICES ASSUME SafetyInv, [Next]_vars PROVE SafetyInv'
  OBVIOUS
<1>1. CASE Key
  BY <1>1, KeyStep
<1>2. CASE Tick
  BY <1>2, RefreshStep DEF Tick, SafetyInv, TypeOK
<1>3. ASSUME NEW m \in inFlight, Drop(m)
      PROVE  SafetyInv'
  <2>1. /\ inFlight' = inFlight \ {m} /\ nextId' = nextId /\ current' = current
        /\ service' = service /\ connecting' = connecting /\ sessionVars' = sessionVars
        /\ view' = view /\ manualQueue' = manualQueue
        /\ blocked' = blocked /\ loading' = loading /\ shown' = shown
    BY <1>3 DEF Drop, requestVars, screenVars
  <2>2. /\ blocked' \subseteq DegradableViews
        /\ loading' \in [Slots -> BOOLEAN]
        /\ shown' \in [Slots -> Shown \cup {Nothing}]
        /\ \A s \in Slots : shown'[s] \in {shown[s], Nothing}
    BY <2>1 DEF SafetyInv, TypeOK
  <2> QED BY <2>1, <2>2, QuietStep
<1>4. ASSUME NEW m \in inFlight, Answer(m)
      PROVE  SafetyInv'
  BY <1>4, AnswerStep
<1>5. ASSUME NEW c \in connecting, ConnectFailed(c)
      PROVE  SafetyInv'
  <2>1. TypeOK'
    BY <1>5 DEF ConnectFailed, SafetyInv, TypeOK, requestVars, screenVars
  <2>2. IdsBelowCounter' /\ WantedIsOurs' /\ NoForeignData'
    BY <1>5 DEF ConnectFailed, SafetyInv, IdsBelowCounter, WantedIsOurs, Fresh,
       NoForeignData, requestVars, screenVars
  <2> QED BY <2>1, <2>2 DEF SafetyInv
<1>6. ASSUME NEW c \in connecting, NEW ns \in Namespaces, Connected(c, ns)
      PROVE  SafetyInv'
  BY <1>6, ConnectedStep
<1>7. CASE UNCHANGED vars
  BY <1>7 DEF vars, runtimeVars, sessionVars, requestVars, screenVars, SafetyInv,
     TypeOK, IdsBelowCounter, WantedIsOurs, Fresh, NoForeignData
<1> QED BY <1>1, <1>2, <1>3, <1>4, <1>5, <1>6, <1>7 DEF Next, ConnectDone

\* The fields of App and the tasks of the runtime keep their types, whatever
\* order answers, keys, ticks and connection attempts come in.
THEOREM TypeCorrect == Spec => []TypeOK
<1>1. SafetyInv => TypeOK
  BY DEF SafetyInv
<1> QED BY <1>1, SafetyInit, SafetyNext, PTL DEF Spec

\* No answer of a cluster that was left ever reaches the screen: the barrier of
\* invalidate_pending_requests is enough for any number of profiles, late
\* answers and switches.
THEOREM NoForeignDataHolds == Spec => []NoForeignData
<1>1. SafetyInv => NoForeignData
  BY DEF SafetyInv
<1> QED BY <1>1, SafetyInit, SafetyNext, PTL DEF Spec

\* The keyboard lock and the connection attempt begin and end together: there
\* is never a second attempt, and none whose end App would not recognise.
THEOREM OneSwitchHolds == Spec => []OneSwitchAtATime
<1>1. Init => OneSwitchAtATime
  BY DEF Init, OneSwitchAtATime
<1>2. OneSwitchAtATime /\ [Next]_vars => OneSwitchAtATime'
  <2> SUFFICES ASSUME OneSwitchAtATime, [Next]_vars PROVE OneSwitchAtATime'
    OBVIOUS
  <2>1. CASE UNCHANGED <<connecting, switching, switchRequest>>
    BY <2>1 DEF OneSwitchAtATime
  <2>2. ASSUME NEW p \in Profiles, PickProfile(p)
        PROVE  OneSwitchAtATime'
    <3>1. connecting = {}
      BY <2>2 DEF PickProfile, Idle, OneSwitchAtATime
    <3>2. /\ connecting' = {[id |-> nextId + 1, target |-> p]}
          /\ switching' = TRUE /\ switchRequest' = nextId + 1
      BY <2>2, <3>1 DEF PickProfile
    <3> QED BY <3>2 DEF OneSwitchAtATime
  <2>3. ASSUME NEW c \in connecting,
               ConnectFailed(c) \/ \E ns \in Namespaces : Connected(c, ns)
        PROVE  OneSwitchAtATime'
    <3>1. connecting = {c} /\ Expected(c)
      BY DEF OneSwitchAtATime, Expected
    <3>2. connecting' = {} /\ switching' = FALSE
      BY <2>3, <3>1 DEF ConnectFailed, Connected
    <3> QED BY <3>2 DEF OneSwitchAtATime
  <2>4. CASE PressRefresh \/ Tick
    BY <2>1, <2>4 DEF PressRefresh, Tick, Refresh, sessionVars
  <2>5. ASSUME NEW v \in Views, ApplyQuery(v) \/ SwitchView(v)
        PROVE  OneSwitchAtATime'
    BY <2>1, <2>5 DEF ApplyQuery, SwitchView, Refresh, sessionVars
  <2>6. CASE AddTaskQueue \/ SelectRow \/ ReloadCapabilities
    BY <2>1, <2>6 DEF AddTaskQueue, SelectRow, ReloadCapabilities, sessionVars
  <2>7. ASSUME NEW ns \in Namespaces, PickNamespace(ns)
        PROVE  OneSwitchAtATime'
    BY <2>1, <2>7 DEF PickNamespace
  <2>8. ASSUME NEW m \in inFlight, Drop(m) \/ Answer(m)
        PROVE  OneSwitchAtATime'
    BY <2>1, <2>8 DEF Drop, Answer, AnswerError, AnswerValue, AnswerCapabilities,
       AnswerList, sessionVars
  <2>9. CASE UNCHANGED vars
    BY <2>1, <2>9 DEF vars, runtimeVars, sessionVars
  <2> QED BY <2>2, <2>3, <2>4, <2>5, <2>6, <2>7, <2>8, <2>9 DEF Next, Key, ConnectDone
<1> QED BY <1>1, <1>2, PTL DEF Spec

-----------------------------------------------------------------------------
(* What a surface waits for                                                 *)

\* The capability report that is awaited is one about the namespace on screen.
CapabilitiesAsked ==
  \A m \in inFlight : m.slot = Capabilities /\ Fresh(m) => m.ns = namespace

WaitInv == CapabilitiesAsked /\ CapabilitiesOfNamespace /\ SpinnerHasRequest

\* Every flag that is up after a step was raised for one of `slots', or was up
\* and its answer is not among those `gone'.
FlagsKept(slots, gone) ==
  \A s \in Slots : loading'[s] =>
    s \in slots \/ (loading[s] /\ \A m \in gone : m.slot = s => ~Fresh(m))

LEMMA TaskOf ==
  ASSUME NEW slots, NEW s \in slots, NEW id, NEW svc, NEW ns
  PROVE  \E m \in Tasks(slots, id, svc, ns) : m.slot = s /\ m.id = id
<1> DEFINE m == [slot |-> s, id |-> id, svc |-> svc, ns |-> ns]
<1>1. m \in Tasks(slots, id, svc, ns)
  BY DEF Tasks
<1>2. m.slot = s /\ m.id = id
  OBVIOUS
<1> QED BY <1>1, <1>2

LEMMA WaitStep ==
  ASSUME TypeOK, IdsBelowCounter, WaitInv,
         NEW slots \in SUBSET Slots, NEW gone, NEW svc,
         current' = Claim(current, slots, nextId + 1),
         inFlight' = (inFlight \ gone) \cup Tasks(slots, nextId + 1, svc, namespace'),
         FlagsKept(slots, gone),
         namespace' = namespace \/ (Capabilities \in slots /\ shown'[Capabilities] = Nothing),
         \/ shown'[Capabilities] \in {shown[Capabilities], Nothing}
         \/ shown'[Capabilities].ns = namespace'
  PROVE  WaitInv'
<1> USE DEF WaitInv
<1>1. \A s \in Slots : current'[s] = IF s \in slots THEN nextId + 1 ELSE current[s]
  BY DEF Claim
<1>2. \A m \in inFlight : m.slot \in Slots /\ m.id \in Nat /\ m.id <= nextId /\ nextId \in Nat
  BY DEF TypeOK, Task, IdsBelowCounter
<1>3. \A m \in inFlight' : m \in inFlight \/ (m.slot \in slots /\ m.ns = namespace')
  BY DEF Tasks
<1>4. \A m \in inFlight : Fresh(m)' <=> Fresh(m) /\ m.slot \notin slots
  BY <1>1, <1>2 DEF Fresh, IdsBelowCounter, TypeOK
<1>5. CapabilitiesAsked'
  BY <1>3, <1>4 DEF CapabilitiesAsked
<1>6. CapabilitiesOfNamespace'
  BY DEF CapabilitiesOfNamespace
<1>7. ASSUME NEW s \in Slots, loading'[s]
      PROVE  \E m \in inFlight' : m.slot = s /\ Fresh(m)'
  <2>1. CASE s \in slots
    <3>1. PICK m \in Tasks(slots, nextId + 1, svc, namespace') : m.slot = s /\ m.id = nextId + 1
      BY <2>1, TaskOf
    <3>2. Fresh(m)'
      BY <2>1, <3>1, <1>1 DEF Fresh
    <3> QED BY <3>1, <3>2
  <2>2. CASE s \notin slots
    <3>1. loading[s] /\ \A m \in gone : m.slot = s => ~Fresh(m)
      BY <1>7, <2>2 DEF FlagsKept
    <3>2. PICK m \in inFlight : m.slot = s /\ Fresh(m)
      BY <3>1 DEF SpinnerHasRequest
    <3> QED BY <2>2, <3>1, <3>2, <1>4
  <2> QED BY <2>1, <2>2
<1>8. SpinnerHasRequest'
  BY <1>7 DEF SpinnerHasRequest
<1> QED BY <1>5, <1>6, <1>8

LEMMA FlagFacts ==
  ASSUME NEW ld, NEW on, NEW off, NEW s \in Slots
  PROVE  /\ Spin(ld, on)[s] => s \in on \/ ld[s]
         /\ Calm(ld, off)[s] => ld[s] /\ s \notin off
         /\ Spin(Calm(ld, off), on)[s] => s \in on \/ (ld[s] /\ s \notin off)
<1>1. Spin(ld, on)[s] = ((s \in on /\ s \in Spinning) \/ ld[s])
  BY Zenon DEF Spin
<1>2. Calm(ld, off)[s] = (ld[s] /\ s \notin off)
  BY Zenon DEF Calm
<1>3. Spin(Calm(ld, off), on)[s] = ((s \in on /\ s \in Spinning) \/ (ld[s] /\ s \notin off))
  BY Zenon DEF Spin, Calm
<1> QED BY <1>1, <1>2, <1>3, Zenon

LEMMA EraseFacts ==
  ASSUME TypeOK, NEW slots
  PROVE  Erase(shown, slots)[Capabilities] \in {shown[Capabilities], Nothing}
  BY SlotFacts DEF Erase

\* Steps of one session that ask for `slots' and take the answers `gone'.
LEMMA WaitAsk ==
  ASSUME SafetyInv, WaitInv, NEW slots \in SUBSET Slots,
         Ask(slots, namespace), namespace' = namespace,
         \A s \in Slots : loading'[s] => s \in slots \/ loading[s],
         shown'[Capabilities] \in {shown[Capabilities], Nothing}
  PROVE  WaitInv'
<1>1. inFlight' = (inFlight \ {}) \cup Tasks(slots, nextId + 1, service, namespace')
  BY DEF Ask
<1>2. current' = Claim(current, slots, nextId + 1)
  BY DEF Ask
<1>3. FlagsKept(slots, {})
  BY DEF FlagsKept
<1> QED BY <1>1, <1>2, <1>3, WaitStep DEF SafetyInv

LEMMA WaitRefresh ==
  ASSUME SafetyInv, WaitInv, NEW v \in Views, NEW reset, Refresh(v, reset)
  PROVE  WaitInv'
<1> DEFINE slots == RefreshSlots(v, shown, blocked, manualQueue)
<1>1. slots \in SUBSET Slots
  BY RefreshSlotsType
<1>2. Ask(slots, namespace) /\ namespace' = namespace
  BY DEF Refresh, sessionVars
<1>3. loading' = Spin(Calm(loading, RefreshCalmed(v, blocked)), slots)
  BY DEF Refresh
<1>4. shown'[Capabilities] \in {shown[Capabilities], Nothing}
  BY EraseFacts DEF Refresh, SafetyInv
<1> HIDE DEF slots
<1>5. \A s \in Slots : loading'[s] => s \in slots \/ loading[s]
  BY <1>3, FlagFacts
<1> QED BY <1>1, <1>2, <1>4, <1>5, WaitAsk

LEMMA WaitKey == SafetyInv /\ WaitInv /\ Key => WaitInv'
<1> SUFFICES ASSUME SafetyInv, WaitInv, Key PROVE WaitInv'
  OBVIOUS
<1>1. TypeOK
  BY DEF SafetyInv
<1>2. CASE PressRefresh
  BY <1>1, <1>2, WaitRefresh DEF PressRefresh, TypeOK
<1>3. ASSUME NEW v \in Views, ApplyQuery(v)
      PROVE  WaitInv'
  BY <1>3, WaitRefresh DEF ApplyQuery
<1>4. CASE AddTaskQueue
  <2>1. {List(view)} \in SUBSET Slots
    BY <1>1, SlotFacts DEF TypeOK
  <2>2. Ask({List(view)}, namespace) /\ namespace' = namespace /\ shown' = shown
        /\ loading' = Spin(loading, {List(view)})
    BY <1>4 DEF AddTaskQueue, sessionVars
  <2>3. \A s \in Slots : loading'[s] => s \in {List(view)} \/ loading[s]
    BY <2>2, FlagFacts
  <2> QED BY <2>1, <2>2, <2>3, WaitAsk
<1>5. ASSUME NEW v \in Views, SwitchView(v)
      PROVE  WaitInv'
  <2>1. PICK asked, calmed, erased :
           /\ asked \in SUBSET Slots
           /\ Ask(asked, namespace)
           /\ loading' = Spin(Calm(loading, calmed), asked)
           /\ shown' = Erase(shown, erased)
    <3> DEFINE joined == IF /\ v = TaskQueueView /\ WorkerView \in Views
                            /\ ~Rows(shown, WorkerView) /\ ~loading[List(WorkerView)]
                         THEN {WorkerView} ELSE {}
               views  == IF v = TaskQueueView THEN {v} \cup joined
                         ELSE IF Rows(shown, v) THEN {} ELSE {v}
               slots  == UNION {RefreshSlots(w, shown, blocked, manualQueue) : w \in views}
    <3>1. views \subseteq Views
      OBVIOUS
    <3>2. slots \in SUBSET Slots
      BY <3>1, RefreshSlotsType
    <3> QED BY <1>5, <3>2 DEF SwitchView
  <2>2. namespace' = namespace
    BY <1>5 DEF SwitchView, sessionVars
  <2>3. \A s \in Slots : loading'[s] => s \in asked \/ loading[s]
    BY <2>1, FlagFacts
  <2>4. shown'[Capabilities] \in {shown[Capabilities], Nothing}
    BY <1>1, <2>1, EraseFacts
  <2> QED BY <2>1, <2>2, <2>3, <2>4, WaitAsk
<1>6. CASE SelectRow
  <2>1. {Details(view)} \in SUBSET Slots
    BY <1>1, SlotFacts DEF TypeOK
  <2>2. Ask({Details(view)}, namespace) /\ namespace' = namespace
        /\ loading' = Spin(loading, {Details(view)}) /\ shown' = Erase(shown, {Details(view)})
    BY <1>6 DEF SelectRow, sessionVars
  <2>3. \A s \in Slots : loading'[s] => s \in {Details(view)} \/ loading[s]
    BY <2>2, FlagFacts
  <2>4. shown'[Capabilities] \in {shown[Capabilities], Nothing}
    BY <1>1, <2>2, EraseFacts
  <2> QED BY <2>1, <2>2, <2>3, <2>4, WaitAsk
<1>7. CASE ReloadCapabilities
  <2>1. Ask({Capabilities}, namespace) /\ namespace' = namespace /\ shown' = shown
        /\ loading' = Spin(loading, {Capabilities})
    BY <1>7 DEF ReloadCapabilities, sessionVars, screenVars
  <2>2. \A s \in Slots : loading'[s] => s \in {Capabilities} \/ loading[s]
    BY <2>1, FlagFacts
  <2> QED BY <2>1, <2>2, SlotFacts, WaitAsk
<1>8. ASSUME NEW ns \in Namespaces, PickNamespace(ns)
      PROVE  WaitInv'
  <2> DEFINE cleared == ListSlots \cup DetailSlots \cup {Capabilities}
             slots   == NamespaceReloads \cup RefreshSlots(view, Erase(shown, cleared), {}, FALSE)
  <2>1. slots \in SUBSET Slots /\ Capabilities \in slots
    BY <1>1, SlotFacts, RefreshSlotsType DEF NamespaceReloads, TypeOK
  <2>2. Ask(slots, ns) /\ loading' = Spin(loading, slots) /\ namespace' = ns
    BY <1>8 DEF PickNamespace
  <2>3. shown'[Capabilities] = Nothing
    BY <1>8, SlotFacts DEF PickNamespace, Erase
  <2> HIDE DEF slots
  <2>4. FlagsKept(slots, {})
    BY <2>2, FlagFacts DEF FlagsKept
  <2>5. /\ inFlight' = (inFlight \ {}) \cup Tasks(slots, nextId + 1, service, namespace')
        /\ current' = Claim(current, slots, nextId + 1)
    BY <2>2 DEF Ask
  <2> QED BY <2>1, <2>3, <2>4, <2>5, WaitStep DEF SafetyInv
<1>9. ASSUME NEW p \in Profiles, PickProfile(p)
      PROVE  WaitInv'
  BY <1>9 DEF PickProfile, WaitInv, CapabilitiesAsked, CapabilitiesOfNamespace,
     SpinnerHasRequest, Fresh, screenVars
<1> QED BY <1>2, <1>3, <1>4, <1>5, <1>6, <1>7, <1>8, <1>9 DEF Key

LEMMA WaitQuiet ==
  ASSUME SafetyInv, WaitInv, NEW m \in inFlight, inFlight' = inFlight \ {m},
         UNCHANGED <<nextId, current>>, namespace' = namespace,
         \A s \in Slots : loading'[s] => loading[s] /\ (Fresh(m) => s # m.slot),
         \/ shown'[Capabilities] \in {shown[Capabilities], Nothing}
         \/ shown'[Capabilities].ns = namespace
  PROVE  WaitInv'
<1>1. current' = Claim(current, {}, nextId + 1)
  <2>1. current = [s \in Slots |-> current[s]]
    BY DEF SafetyInv, TypeOK
  <2> QED BY <2>1 DEF Claim
<1>2. inFlight' = (inFlight \ {m}) \cup Tasks({}, nextId + 1, service, namespace')
  BY DEF Tasks
<1>3. {} \in SUBSET Slots
  OBVIOUS
<1>4. FlagsKept({}, {m})
  BY DEF FlagsKept
<1> QED BY <1>1, <1>2, <1>3, <1>4, WaitStep DEF SafetyInv

LEMMA WaitAnswer ==
  ASSUME SafetyInv, WaitInv, NEW m \in inFlight, Answer(m)
  PROVE  WaitInv'
<1>1. TypeOK /\ m.slot \in Slots /\ Capabilities \in Slots /\ shown \in [Slots -> Shown \cup {Nothing}]
  BY SlotFacts DEF SafetyInv, TypeOK, Task
<1>2. CASE AnswerError(m)
  <2>1. /\ inFlight' = inFlight \ {m} /\ UNCHANGED <<nextId, current>> /\ namespace' = namespace
        /\ loading' = Calm(loading, {m.slot}) /\ shown' = shown
    BY <1>2 DEF AnswerError, sessionVars, screenVars
  <2>2. \A s \in Slots : loading'[s] => loading[s] /\ s # m.slot
    BY <2>1, FlagFacts
  <2> QED BY <2>1, <2>2, WaitQuiet
<1>3. ASSUME NEW rows \in BOOLEAN, AnswerValue(m, rows)
      PROVE  WaitInv'
  <2>1. /\ inFlight' = inFlight \ {m} /\ UNCHANGED <<nextId, current>> /\ namespace' = namespace
        /\ loading' = Calm(loading, {m.slot})
    BY <1>3 DEF AnswerValue, sessionVars
  <2>2. m.slot # Capabilities
    BY <1>3 DEF AnswerValue, DetailSlots, ReportSlots, Details, Report, Capabilities, NamespaceList
  <2>3. shown'[Capabilities] = shown[Capabilities]
    BY <1>1, <1>3, <2>2 DEF AnswerValue
  <2>4. \A s \in Slots : loading'[s] => loading[s] /\ s # m.slot
    BY <2>1, FlagFacts
  <2> QED BY <2>1, <2>3, <2>4, WaitQuiet
<1>4. ASSUME NEW lacking \in SUBSET DegradableViews, AnswerCapabilities(m, lacking)
      PROVE  WaitInv'
  <2>1. /\ inFlight' = inFlight \ {m} /\ UNCHANGED <<nextId, current>> /\ namespace' = namespace
        /\ loading' = Calm(loading, {m.slot} \cup SurfaceOf(lacking))
        /\ m.slot = Capabilities /\ Fresh(m)
        /\ shown' = [Erase(shown, SurfaceOf(lacking)) EXCEPT ![m.slot] = Result(m, TRUE)]
    BY <1>4 DEF AnswerCapabilities, sessionVars
  <2>2. shown'[Capabilities].ns = namespace
    <3>1. shown'[Capabilities] = Result(m, TRUE)
      BY <1>1, <2>1 DEF Erase
    <3> QED BY <2>1, <3>1 DEF Result, WaitInv, CapabilitiesAsked
  <2>3. \A s \in Slots : loading'[s] => loading[s] /\ s # m.slot
    <3> DEFINE off == {m.slot} \cup SurfaceOf(lacking)
    <3>1. \A s \in Slots : s \notin off => s # m.slot
      OBVIOUS
    <3>2. loading' = Calm(loading, off)
      BY <2>1
    <3> HIDE DEF off
    <3> QED BY <3>1, <3>2, FlagFacts
  <2> QED BY <2>1, <2>2, <2>3, WaitQuiet
<1>5. ASSUME NEW v \in Views, NEW rows \in BOOLEAN, AnswerList(m, v, rows)
      PROVE  WaitInv'
  <2> DEFINE wanted == IF rows /\ v # TaskQueueView THEN {Details(v)} ELSE {}
  <2>1. wanted \in SUBSET Slots
    BY SlotFacts
  <2>2. /\ current' = Claim(current, wanted, nextId + 1) /\ namespace' = namespace
        /\ inFlight' = (inFlight \ {m}) \cup Tasks(wanted, nextId + 1, service, namespace')
        /\ loading' = Spin(Calm(loading, {m.slot}), wanted)
    BY <1>5 DEF AnswerList, sessionVars
  <2> HIDE DEF wanted
  <2>3. FlagsKept(wanted, {m})
    BY <2>2, FlagFacts DEF FlagsKept
  <2>4. m.slot = List(v) /\ List(v) # Capabilities
    BY <1>5 DEF AnswerList, List, Capabilities
  <2>5. shown'[Capabilities] \in {shown[Capabilities], Nothing}
    BY <1>1, <1>5, <2>4 DEF AnswerList, Erase
  <2>6. \/ shown'[Capabilities] \in {shown[Capabilities], Nothing}
        \/ shown'[Capabilities].ns = namespace'
    BY <2>5
  <2>7. TypeOK /\ IdsBelowCounter
    BY DEF SafetyInv
  <2> QED BY <2>1, <2>2, <2>3, <2>6, <2>7, WaitStep
<1> QED BY <1>2, <1>3, <1>4, <1>5 DEF Answer

LEMMA WaitConnected ==
  ASSUME SafetyInv, NEW c \in connecting, NEW ns \in Namespaces, Connected(c, ns)
  PROVE  WaitInv'
<1> DEFINE slots == {Capabilities, NamespaceList} \cup ClusterReport
                      \cup RefreshSlots(view, Erase(shown, Slots), {}, FALSE)
<1>1. /\ current' = Claim(Claim(current, Invalidated, nextId + 1), slots, nextId + 2)
      /\ inFlight' = inFlight \cup Tasks(slots, nextId + 2, c.target, ns)
      /\ loading' = SpinAnew(slots) /\ namespace' = ns
      /\ shown' = [s \in Slots |-> Nothing]
  BY DEF Connected
<1>2. \A m \in inFlight : m.id <= nextId /\ m.id \in Nat /\ m.slot \in Slots /\ nextId \in Nat
  BY DEF SafetyInv, IdsBelowCounter, TypeOK, Task
<1> HIDE DEF slots
<1>3. \A s \in Slots : current'[s] = IF s \in slots THEN nextId + 2 ELSE nextId + 1
  BY <1>1 DEF Claim, Invalidated
<1>4. CapabilitiesAsked'
  BY <1>1, <1>2, <1>3 DEF CapabilitiesAsked, Fresh, Tasks
<1>5. CapabilitiesOfNamespace'
  BY <1>1, SlotFacts DEF CapabilitiesOfNamespace
<1>6. \A s \in Slots : loading'[s] => s \in slots
  <2>1. \A s \in Slots : loading'[s] = (s \in slots /\ s \in Spinning)
    BY <1>1, Zenon DEF SpinAnew
  <2> QED BY <2>1, Zenon
<1>7. ASSUME NEW s \in Slots, s \in slots
      PROVE  \E m \in inFlight' : m.slot = s /\ Fresh(m)'
  <2>1. PICK m \in Tasks(slots, nextId + 2, c.target, ns) : m.slot = s /\ m.id = nextId + 2
    BY <1>7, TaskOf
  <2> QED BY <2>1, <1>1, <1>3, <1>7 DEF Fresh
<1>8. SpinnerHasRequest'
  BY <1>6, <1>7 DEF SpinnerHasRequest
<1> QED BY <1>4, <1>5, <1>8 DEF WaitInv

LEMMA WaitInit == Init => WaitInv
<1> SUFFICES ASSUME Init PROVE WaitInv
  OBVIOUS
<1>1. inFlight = Tasks(BootSlots, 1, service, namespace) /\ BootSlots \subseteq Slots
  BY SlotFacts DEF Init
<1>2. CapabilitiesAsked
  BY <1>1 DEF CapabilitiesAsked, Tasks
<1>3. CapabilitiesOfNamespace
  BY SlotFacts DEF CapabilitiesOfNamespace, Init
<1>4. \A s \in Slots : loading[s] => s \in BootSlots
  <2>1. \A s \in Slots : loading[s] = (s \in BootSlots /\ s \in Spinning)
    BY Zenon DEF Init
  <2> QED BY <2>1, Zenon
<1>5. ASSUME NEW s \in BootSlots
      PROVE  \E m \in inFlight : m.slot = s /\ Fresh(m)
  <2>1. PICK m \in Tasks(BootSlots, 1, service, namespace) : m.slot = s /\ m.id = 1
    BY TaskOf
  <2>2. current[s] = 1
    BY <1>1 DEF Init
  <2> QED BY <2>1, <2>2, <1>1 DEF Fresh
<1>6. SpinnerHasRequest
  BY <1>4, <1>5 DEF SpinnerHasRequest
<1> QED BY <1>2, <1>3, <1>6 DEF WaitInv

LEMMA WaitNext == SafetyInv /\ WaitInv /\ [Next]_vars => WaitInv'
<1> SUFFICES ASSUME SafetyInv, WaitInv, [Next]_vars PROVE WaitInv'
  OBVIOUS
<1>1. CASE Tick
  BY <1>1, WaitRefresh DEF Tick, SafetyInv, TypeOK
<1>2. ASSUME NEW m \in inFlight, Drop(m)
      PROVE  WaitInv'
  BY <1>2, WaitQuiet DEF Drop, sessionVars, requestVars, screenVars
<1>3. ASSUME NEW c \in connecting, ConnectFailed(c)
      PROVE  WaitInv'
  BY <1>3 DEF ConnectFailed, WaitInv, CapabilitiesAsked, CapabilitiesOfNamespace,
     SpinnerHasRequest, Fresh, requestVars, screenVars
<1>4. CASE UNCHANGED vars
  BY <1>4 DEF vars, runtimeVars, sessionVars, requestVars, screenVars, WaitInv,
     CapabilitiesAsked, CapabilitiesOfNamespace, SpinnerHasRequest, Fresh
<1> QED BY <1>1, <1>2, <1>3, <1>4, WaitKey, WaitAnswer, WaitConnected DEF Next, ConnectDone

LEMMA WaitHolds == Spec => []WaitInv
BY SafetyInit, SafetyNext, WaitInit, WaitNext, PTL DEF Spec

\* The capability report that gates actions is about the namespace on screen:
\* the namespace never changes without a new id for the report.
THEOREM CapabilitiesHold == Spec => []CapabilitiesOfNamespace
<1>1. WaitInv => CapabilitiesOfNamespace
  BY DEF WaitInv
<1> QED BY <1>1, WaitHolds, PTL

\* A loading flag always stands for a request that is out and wanted, so no
\* switch, degradation or newer request leaves a surface loading for ever.
THEOREM SpinnersHold == Spec => []SpinnerHasRequest
<1>1. WaitInv => SpinnerHasRequest
  BY DEF WaitInv
<1> QED BY <1>1, WaitHolds, PTL
=============================================================================
