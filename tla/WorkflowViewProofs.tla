-------------------------- MODULE WorkflowViewProofs --------------------------
(***************************************************************************)
(* Safety of WorkflowView for every set of runs and queries, and every     *)
(* length of the lists and histories.                                      *)
(***************************************************************************)
EXTENDS WorkflowView, TLAPS

\* No request id is above the counter, so the next one is unused.
IdsBelowCounter ==
  /\ \A t \in tasks : t.id <= nextId
  /\ \A s \in Slots : current[s] <= nextId

\* The details that will be taken are those of the selected row, the answer to
\* them is awaited once, and nothing is on screen till then.
WantedDetails ==
  \A t \in tasks : t.slot = "details" /\ Wanted(t) =>
    /\ details = None
    /\ selected # None => t.of = selected
    /\ \A u \in tasks : u.slot = "details" /\ Wanted(u) => u = t

\* A history page is awaited once.  It was asked for before the details that are
\* awaited now; and if it was asked for after those on screen, it is their next.
WantedHistory ==
  \A t \in tasks : t.slot = "history" /\ Wanted(t) =>
    /\ t.id # current["details"]
    /\ details # None /\ t.id > current["details"] =>
         t.of = details.of /\ t.page = details.older
    /\ \A u \in tasks : u.slot = "history" /\ Wanted(u) => u = t
    /\ \A u \in tasks : u.slot = "details" /\ Wanted(u) => t.id < current["details"]

\* The cursors of WorkflowView, and the ones that were sent.
SentCursorsOfQuery ==
  \A t \in tasks : t.slot = "list" => t.cursor = FirstPage \/ t.cursor.query = t.query

Inv ==
  /\ TypeOK /\ IdsBelowCounter
  /\ ListAnswersCursor /\ SentCursorsOfQuery /\ CursorsOfQuery
  /\ WantedDetails /\ DetailsOfSelection
  /\ WantedHistory /\ HistoryReachesCursor

-----------------------------------------------------------------------------
(* Types *)

LEMMA TaskFacts ==
  ASSUME TypeOK, NEW t \in tasks
  PROVE  /\ t.id \in Nat /\ t.slot \in Slots
         /\ t.slot = "list" => t \in ListTask /\ t.query \in Queries /\ t.cursor \in Cursor
         /\ t.slot = "details" => t \in DetailsTask /\ t.of \in Workflows
         /\ t.slot = "history" =>
              t \in HistoryTask /\ t.of \in Workflows /\ t.page \in 1..HistoryPages
  BY DEF TypeOK, ListTask, DetailsTask, HistoryTask, Slots

LEMMA CursorFacts ==
  /\ FirstPage \in Cursor /\ FirstPage.page = 1
  /\ \A c \in Cursor : c.page \in Nat /\ c.page >= 1
  /\ \A q \in Queries, n \in 2..ListPages : [query |-> q, page |-> n] \in Cursor
  BY DEF FirstPage, Cursor

LEMMA LoadListType ==
  ASSUME TypeOK, NEW q \in Queries, NEW c \in Cursor, LoadList(q, c)
  PROVE  /\ tasks' \subseteq ListTask \cup DetailsTask \cup HistoryTask
         /\ nextId' \in Nat /\ current' \in [Slots -> Nat] /\ loading' \in [Slots -> BOOLEAN]
  BY DEF LoadList, TypeOK, ListTask, Claim, Slots

LEMMA LoadSelectedType ==
  ASSUME TypeOK, NEW row \in Workflows \cup {None}, NEW out \in SUBSET tasks,
         NEW flags \in [Slots -> BOOLEAN], LoadSelected(row, out, flags)
  PROVE  /\ tasks' \subseteq ListTask \cup DetailsTask \cup HistoryTask
         /\ nextId' \in Nat /\ current' \in [Slots -> Nat] /\ loading' \in [Slots -> BOOLEAN]
<1>1. CASE row = None
  BY <1>1 DEF LoadSelected, TypeOK
<1>2. CASE row # None
  <2>1. row \in Workflows /\ nextId + 1 \in Nat
    BY <1>2 DEF TypeOK
  <2>2. [slot |-> "details", id |-> nextId + 1, of |-> row] \in DetailsTask
    BY <2>1 DEF DetailsTask
  <2>3. tasks' = out \cup {[slot |-> "details", id |-> nextId + 1, of |-> row]}
    BY <1>2 DEF LoadSelected
  <2>4. /\ nextId' \in Nat /\ current' \in [Slots -> Nat] /\ loading' \in [Slots -> BOOLEAN]
    BY <1>2, <2>1 DEF LoadSelected, TypeOK, Claim, Slots
  <2> QED BY <2>2, <2>3, <2>4 DEF TypeOK
<1> QED BY <1>1, <1>2

LEMMA CalmType ==
  ASSUME TypeOK, NEW s \in Slots
  PROVE  Calm(s) \in [Slots -> BOOLEAN]
  BY DEF TypeOK, Calm

LEMMA TypeStep ==
  ASSUME TypeOK, [Next]_vars
  PROVE  TypeOK'
<1> USE DEF TypeOK
<1>1. CASE Refresh
  BY <1>1, LoadListType DEF Refresh, listVars
<1>2. ASSUME NEW q \in Queries, ApplyQuery(q)
      PROVE  TypeOK'
  <2>1. LoadList(q, FirstPage) /\ FirstPage \in Cursor
    BY <1>2, CursorFacts DEF ApplyQuery
  <2>2. /\ tasks' \subseteq ListTask \cup DetailsTask \cup HistoryTask
        /\ nextId' \in Nat /\ current' \in [Slots -> Nat] /\ loading' \in [Slots -> BOOLEAN]
    BY <2>1, LoadListType
  <2> QED BY <1>2, <2>1, <2>2 DEF ApplyQuery
<1>3. CASE NextPage
  <2>1. /\ tasks' \subseteq ListTask \cup DetailsTask \cup HistoryTask
        /\ nextId' \in Nat /\ current' \in [Slots -> Nat] /\ loading' \in [Slots -> BOOLEAN]
    BY <1>3, LoadListType DEF NextPage
  <2>2. previous' \in Seq(Cursor)
    BY <1>3 DEF NextPage
  <2> QED BY <1>3, <2>1, <2>2, CursorFacts DEF NextPage
<1>4. CASE PreviousPage
  <2>1. Len(previous) \in Nat \ {0} /\ previous[Len(previous)] \in Cursor
    BY <1>4 DEF PreviousPage
  <2>2. /\ tasks' \subseteq ListTask \cup DetailsTask \cup HistoryTask
        /\ nextId' \in Nat /\ current' \in [Slots -> Nat] /\ loading' \in [Slots -> BOOLEAN]
    BY <1>4, <2>1, LoadListType DEF PreviousPage
  <2>3. previous' \in Seq(Cursor)
    BY <1>4, <2>1 DEF PreviousPage
  <2> QED BY <1>4, <2>1, <2>2, <2>3 DEF PreviousPage
<1>5. ASSUME NEW w \in Workflows, SelectWorkflow(w)
      PROVE  TypeOK'
  <2>1. /\ tasks' \subseteq ListTask \cup DetailsTask \cup HistoryTask
        /\ nextId' \in Nat /\ current' \in [Slots -> Nat] /\ loading' \in [Slots -> BOOLEAN]
    BY <1>5, LoadSelectedType DEF SelectWorkflow
  <2> QED BY <1>5, <2>1 DEF SelectWorkflow
<1>6. CASE LoadOlderHistory
  <2>1. details \in Details /\ details.older \in 1..HistoryPages /\ details.of \in Workflows
    BY <1>6, PagesAssumption DEF LoadOlderHistory, Details
  <2>2. [slot |-> "history", id |-> nextId + 1, of |-> details.of, page |-> details.older]
          \in HistoryTask
    BY <2>1 DEF HistoryTask
  <2>3. tasks' \subseteq ListTask \cup DetailsTask \cup HistoryTask
    BY <1>6, <2>2 DEF LoadOlderHistory
  <2>4. nextId' \in Nat /\ current' \in [Slots -> Nat] /\ loading' \in [Slots -> BOOLEAN]
    BY <1>6 DEF LoadOlderHistory, Claim, Slots
  <2> QED BY <1>6, <2>3, <2>4 DEF LoadOlderHistory, listVars
<1>7. ASSUME NEW t \in tasks, Drop(t) \/ Failed(t)
      PROVE  TypeOK'
  BY <1>7, TaskFacts, CalmType DEF Drop, Failed, listVars
<1>8. ASSUME NEW t \in tasks, NEW page \in SUBSET Workflows, NEW more \in BOOLEAN,
             WorkflowsLoaded(t, page, more)
      PROVE  TypeOK'
  <2>1. t.slot = "list" /\ t.query \in Queries /\ t.cursor \in Cursor
    BY <1>8, TaskFacts DEF WorkflowsLoaded
  <2>2. selected' \in Workflows \cup {None}
    BY <1>8 DEF WorkflowsLoaded
  <2>3. /\ tasks' \subseteq ListTask \cup DetailsTask \cup HistoryTask
        /\ nextId' \in Nat /\ current' \in [Slots -> Nat] /\ loading' \in [Slots -> BOOLEAN]
    <3>1. LoadSelected(selected', tasks \ {t}, Calm("list")) /\ tasks \ {t} \in SUBSET tasks
      BY <1>8 DEF WorkflowsLoaded
    <3>2. Calm("list") \in [Slots -> BOOLEAN]
      BY CalmType DEF Slots
    <3> QED BY <2>2, <3>1, <3>2, LoadSelectedType
  <2>4. nextCursor' \in Cursor
    <3>1. CASE more
      <4>1. t.cursor.page + 1 \in 2..ListPages
        BY <1>8, <2>1, <3>1, CursorFacts, PagesAssumption DEF WorkflowsLoaded
      <4> QED BY <1>8, <2>1, <3>1, <4>1, CursorFacts DEF WorkflowsLoaded
    <3>2. CASE ~more
      BY <1>8, <3>2, CursorFacts DEF WorkflowsLoaded
    <3> QED BY <3>1, <3>2
  <2> QED BY <1>8, <2>2, <2>3, <2>4 DEF WorkflowsLoaded
<1>9. ASSUME NEW t \in tasks, DetailsLoaded(t)
      PROVE  TypeOK'
  <2>1. t.of \in Workflows
    BY <1>9, TaskFacts DEF DetailsLoaded
  <2>2. details' \in Details
    BY <1>9, <2>1, PagesAssumption DEF DetailsLoaded, Details, EventPage, Older
  <2> QED BY <1>9, <2>2, CalmType DEF DetailsLoaded, listVars, Slots
<1>10. ASSUME NEW t \in tasks, HistoryPageLoaded(t)
       PROVE  TypeOK'
  <2>1. t.of \in Workflows /\ t.page \in 1..HistoryPages
    BY <1>10, TaskFacts DEF HistoryPageLoaded
  <2>2. details' = None \/ details' \in Details
    <3>1. CASE details = None
      BY <1>10, <3>1 DEF HistoryPageLoaded
    <3>2. CASE details # None
      <4>1. [of |-> t.of, page |-> t.page] \in EventPage /\ Older(t.page) \in 0..HistoryPages
        BY <2>1, PagesAssumption DEF EventPage, Older
      <4>2. details.events \in SUBSET EventPage
        BY <3>2 DEF Details
      <4>3. Merge(details.events, [of |-> t.of, page |-> t.page]) \in SUBSET EventPage
        BY <4>1, <4>2 DEF Merge
      <4> QED BY <1>10, <3>2, <4>1, <4>3 DEF HistoryPageLoaded, Details
    <3> QED BY <3>1, <3>2
  <2> QED BY <1>10, <2>2, CalmType DEF HistoryPageLoaded, listVars, Slots
<1>11. CASE UNCHANGED vars
  BY <1>11 DEF vars, requestVars, listVars
<1> QED BY <1>1, <1>2, <1>3, <1>4, <1>5, <1>6, <1>7, <1>8, <1>9, <1>10, <1>11
        DEF Next, Key, Answer

-----------------------------------------------------------------------------
(* What the two ways to ask do to the requests *)

\* A list request that is spawned is the only one that is wanted, and whether
\* other answers are wanted stays as it is.
LEMMA LoadListWants ==
  ASSUME TypeOK, IdsBelowCounter, NEW q \in Queries, NEW c \in Cursor, LoadList(q, c)
  PROVE  /\ IdsBelowCounter'
         /\ \A t \in tasks' : t.slot = "list" /\ Wanted(t)' => t.query = q /\ t.cursor = c
         /\ \A t \in tasks' : t.slot = "list" =>
              t \in tasks \/ (t.query = q /\ t.cursor = c)
         /\ \A t \in tasks' : t.slot \in {"details", "history"} =>
              t \in tasks /\ (Wanted(t)' <=> Wanted(t))
         /\ current'["details"] = current["details"]
<1> DEFINE new == [slot |-> "list", id |-> nextId + 1, query |-> q, cursor |-> c]
<1>1. /\ nextId' = nextId + 1 /\ nextId \in Nat
      /\ tasks' = tasks \cup {new}
      /\ \A s \in Slots : current'[s] = IF s = "list" THEN nextId + 1 ELSE current[s]
  BY DEF LoadList, Claim, TypeOK
<1>2. \A t \in tasks : t.id \in Nat /\ t.slot \in Slots /\ t.id <= nextId
  BY TaskFacts DEF IdsBelowCounter
<1>3. \A s \in Slots : current[s] \in Nat /\ current[s] <= nextId
  BY DEF TypeOK, IdsBelowCounter
<1>4. \A t \in tasks' : t = new \/ t \in tasks
  BY <1>1
<1>5. new.slot = "list" /\ new.id = nextId + 1 /\ new.query = q /\ new.cursor = c
  OBVIOUS
<1> HIDE DEF new
<1>6. IdsBelowCounter'
  BY <1>1, <1>2, <1>3, <1>4, <1>5 DEF IdsBelowCounter
<1>7. \A t \in tasks' : t.slot = "list" /\ Wanted(t)' => t.query = q /\ t.cursor = c
  BY <1>1, <1>2, <1>4, <1>5 DEF Wanted, Slots
<1>8. \A t \in tasks' : t.slot \in {"details", "history"} =>
        t \in tasks /\ (Wanted(t)' <=> Wanted(t))
  BY <1>1, <1>2, <1>4, <1>5 DEF Wanted, Slots
<1>9. current'["details"] = current["details"]
  BY <1>1 DEF Slots
<1> QED BY <1>4, <1>5, <1>6, <1>7, <1>8, <1>9

\* Details that are asked for are the only ones wanted, of the row they are
\* asked for; without a row nothing is asked.
LEMMA LoadSelectedWants ==
  ASSUME TypeOK, IdsBelowCounter, NEW row \in Workflows \cup {None}, NEW out \in SUBSET tasks,
         NEW flags \in [Slots -> BOOLEAN], LoadSelected(row, out, flags)
  PROVE  /\ IdsBelowCounter'
         /\ \A t \in tasks' : t.slot \in {"list", "history"} =>
              t \in out /\ (Wanted(t)' <=> Wanted(t))
         /\ row = None => tasks' = out /\ current' = current
         /\ row # None => current'["details"] = nextId + 1
         /\ row # None => \A t, u \in tasks' :
              t.slot = "details" /\ Wanted(t)' /\ u.slot = "details" /\ Wanted(u)'
                => t.of = row /\ u = t
<1>1. \A t \in tasks : t.id \in Nat /\ t.slot \in Slots /\ t.id <= nextId
  BY TaskFacts DEF IdsBelowCounter
<1>2. nextId \in Nat /\ \A s \in Slots : current[s] \in Nat /\ current[s] <= nextId
  BY DEF TypeOK, IdsBelowCounter
<1>3. CASE row = None
  BY <1>1, <1>2, <1>3 DEF LoadSelected, IdsBelowCounter, Wanted
<1>4. CASE row # None
  <2> DEFINE new == [slot |-> "details", id |-> nextId + 1, of |-> row]
  <2>1. /\ nextId' = nextId + 1
        /\ tasks' = out \cup {new}
        /\ \A s \in Slots : current'[s] = IF s = "details" THEN nextId + 1 ELSE current[s]
    BY <1>4 DEF LoadSelected, Claim, TypeOK
  <2>2. new.slot = "details" /\ new.id = nextId + 1 /\ new.of = row
    OBVIOUS
  <2>3. \A t \in tasks' : t = new \/ t \in out
    BY <2>1
  <2> HIDE DEF new
  <2>4. IdsBelowCounter'
    BY <1>1, <1>2, <2>1, <2>2, <2>3 DEF IdsBelowCounter
  <2>5. \A t \in tasks' : t.slot \in {"list", "history"} =>
          t \in out /\ (Wanted(t)' <=> Wanted(t))
    BY <1>1, <2>1, <2>2, <2>3 DEF Wanted, Slots
  <2>6. \A t \in tasks' : t.slot = "details" /\ Wanted(t)' => t = new
    BY <1>1, <1>2, <2>1, <2>2, <2>3 DEF Wanted, Slots
  <2>7. current'["details"] = nextId + 1
    BY <2>1 DEF Slots
  <2> QED BY <1>4, <2>2, <2>4, <2>5, <2>6, <2>7
<1> QED BY <1>3, <1>4

\* An answer that asks for nothing.
LEMMA QuietWants ==
  ASSUME TypeOK, IdsBelowCounter, NEW t, tasks' = tasks \ {t},
         nextId' = nextId, current' = current
  PROVE  IdsBelowCounter' /\ \A u \in tasks' : u \in tasks /\ (Wanted(u)' <=> Wanted(u))
  BY DEF IdsBelowCounter, Wanted

-----------------------------------------------------------------------------
(* Every step keeps the invariant *)

LEMMA InvInit ==
  ASSUME Init
  PROVE  Inv
<1>1. TypeOK
  <2>1. overtaken \in BOOLEAN
    BY Zenon DEF Init
  <2> QED BY <2>1, CursorFacts DEF Init, TypeOK, ListTask, Slots
<1> QED BY <1>1 DEF Init, Inv, IdsBelowCounter, ListAnswersCursor, SentCursorsOfQuery,
           CursorsOfQuery, WantedDetails, DetailsOfSelection, WantedHistory,
           HistoryReachesCursor, Slots

\* A step of the list: the request is for the cursor that is current then.
LEMMA ListStep ==
  ASSUME Inv, TypeOK', NEW q \in Queries, NEW c \in Cursor, LoadList(q, c),
         query' = q, cursor' = c, c = FirstPage \/ c.query = q,
         CursorsOfQuery', selected' = selected, UNCHANGED <<details, overtaken>>
  PROVE  Inv'
<1> USE DEF Inv
<1>1. /\ IdsBelowCounter'
      /\ \A t \in tasks' : t.slot = "list" /\ Wanted(t)' => t.query = q /\ t.cursor = c
      /\ \A t \in tasks' : t.slot = "list" =>
           t \in tasks \/ (t.query = q /\ t.cursor = c)
      /\ \A t \in tasks' : t.slot \in {"details", "history"} =>
           t \in tasks /\ (Wanted(t)' <=> Wanted(t))
      /\ current'["details"] = current["details"]
  BY LoadListWants
<1>2. ListAnswersCursor'
  BY <1>1 DEF ListAnswersCursor
<1>3. SentCursorsOfQuery'
  BY <1>1 DEF SentCursorsOfQuery
<1>4. WantedDetails'
  BY <1>1 DEF WantedDetails
<1>5. DetailsOfSelection' /\ HistoryReachesCursor'
  BY DEF DetailsOfSelection, HistoryReachesCursor
<1>6. WantedHistory'
  BY <1>1 DEF WantedHistory
<1> QED BY <1>1, <1>2, <1>3, <1>4, <1>5, <1>6

\* A step that selects a row, or none, and empties the details.
LEMMA SelectionStep ==
  ASSUME Inv, TypeOK', NEW out \in SUBSET tasks, NEW flags \in [Slots -> BOOLEAN],
         selected' \in Workflows \cup {None}, LoadSelected(selected', out, flags),
         details' = None, query' = query, cursor' = cursor, CursorsOfQuery'
  PROVE  Inv'
<1> USE DEF Inv
<1>1. /\ IdsBelowCounter'
      /\ \A t \in tasks' : t.slot \in {"list", "history"} =>
           t \in out /\ (Wanted(t)' <=> Wanted(t))
      /\ selected' = None => tasks' = out /\ current' = current
      /\ selected' # None => current'["details"] = nextId + 1
      /\ selected' # None => \A t, u \in tasks' :
           t.slot = "details" /\ Wanted(t)' /\ u.slot = "details" /\ Wanted(u)'
             => t.of = selected' /\ u = t
  BY LoadSelectedWants
<1>2. ListAnswersCursor'
  BY <1>1 DEF ListAnswersCursor
<1>3. SentCursorsOfQuery'
  BY <1>1 DEF SentCursorsOfQuery
<1>4. WantedDetails'
  <2>1. CASE selected' # None
    BY <1>1, <2>1 DEF WantedDetails
  <2>2. CASE selected' = None
    BY <1>1, <2>2 DEF WantedDetails, Wanted
  <2> QED BY <2>1, <2>2
<1>5. DetailsOfSelection' /\ HistoryReachesCursor'
  BY DEF DetailsOfSelection, HistoryReachesCursor
<1>6. WantedHistory'
  <2>1. CASE selected' # None
    <3>1. \A t \in tasks : t.id \in Nat /\ t.id <= nextId /\ nextId \in Nat
      BY TaskFacts DEF IdsBelowCounter, TypeOK
    <3>2. \A t \in tasks' : t.slot = "history" => t.id < current'["details"]
      BY <1>1, <2>1, <3>1
    <3>3. \A t \in tasks' : t.slot = "history" => t \in tasks /\ (Wanted(t)' <=> Wanted(t))
      BY <1>1
    <3>4. current'["details"] \in Nat /\ \A t \in tasks : t.id \in Nat
      BY <1>1, <2>1, <3>1 DEF TypeOK
    <3> QED BY <3>2, <3>3, <3>4 DEF WantedHistory
  <2>2. CASE selected' = None
    BY <1>1, <2>2 DEF WantedHistory, Wanted
  <2> QED BY <2>1, <2>2
<1> QED BY <1>1, <1>2, <1>3, <1>4, <1>5, <1>6

\* An answer that changes neither the details nor what is asked.
LEMMA HistoryStays ==
  ASSUME TypeOK, IdsBelowCounter, WantedHistory, HistoryReachesCursor, NEW t,
         tasks' = tasks \ {t}, nextId' = nextId, current' = current,
         UNCHANGED <<details, overtaken>>
  PROVE  WantedHistory' /\ HistoryReachesCursor'
<1>1. \A u \in tasks' : u \in tasks /\ (Wanted(u)' <=> Wanted(u))
  BY QuietWants
<1>2. WantedHistory'
  BY <1>1 DEF WantedHistory
<1> QED BY <1>2 DEF HistoryReachesCursor

\* New details are their newest page, and the history pages that are awaited
\* were asked for before them.
LEMMA DetailsReach ==
  ASSUME Inv, NEW t \in tasks, DetailsLoaded(t)
  PROVE  WantedHistory' /\ HistoryReachesCursor'
<1> USE DEF Inv
<1>1. /\ \A u \in tasks' : u \in tasks /\ (Wanted(u)' <=> Wanted(u))
      /\ current' = current
  BY QuietWants DEF DetailsLoaded
<1>2. \A u \in tasks : u.slot = "history" /\ Wanted(u) => u.id < current["details"]
  BY DEF WantedHistory, DetailsLoaded
<1>3. current["details"] \in Nat /\ \A u \in tasks : u.id \in Nat
  BY TaskFacts DEF TypeOK, Slots
<1>4. WantedHistory'
  BY <1>1, <1>2, <1>3 DEF WantedHistory
<1>5. details' = [of |-> t.of, events |-> {[of |-> t.of, page |-> 1]}, older |-> Older(1)]
  BY DEF DetailsLoaded
<1>6. Reached(details') = {1}
  BY <1>5, PagesAssumption DEF Reached, Older
<1>7. HistoryReachesCursor'
  BY <1>5, <1>6 DEF HistoryReachesCursor
<1> QED BY <1>4, <1>7

\* A page that was asked for after the details on screen is their next one.
LEMMA PageReaches ==
  ASSUME Inv, NEW t \in tasks, HistoryPageLoaded(t)
  PROVE  WantedHistory' /\ HistoryReachesCursor'
<1> USE DEF Inv
<1>1. /\ \A u \in tasks' : u \in tasks /\ u # t /\ (Wanted(u)' <=> Wanted(u))
      /\ current' = current /\ t.slot = "history" /\ Wanted(t)
  BY QuietWants DEF HistoryPageLoaded
<1>2. WantedHistory'
  BY <1>1 DEF WantedHistory
<1>3. current["details"] \in Nat /\ t.id \in Nat /\ t.page \in 1..HistoryPages
  BY <1>1, TaskFacts DEF TypeOK, Slots
<1>4. ASSUME details' # None, ~ overtaken'
      PROVE  details'.events = {[of |-> details'.of, page |-> p] : p \in Reached(details')}
  <2>0. ~ overtaken /\ ~ (t.id < current["details"])
    BY <1>4, Zenon DEF HistoryPageLoaded
  <2>1. details # None /\ ~ overtaken /\ t.id > current["details"]
    <3>1. t.id # current["details"]
      BY <1>1 DEF WantedHistory
    <3>2. t.id > current["details"]
      BY <1>3, <2>0, <3>1
    <3>3. details # None
      BY <1>4 DEF HistoryPageLoaded
    <3> QED BY <2>0, <3>2, <3>3
  <2>2. t.of = details.of /\ t.page = details.older
    BY <1>1, <2>1 DEF WantedHistory
  <2>3. details \in Details
    BY <2>1 DEF TypeOK
  <2>4. /\ details'.of = details.of /\ details'.older = Older(t.page)
        /\ details'.events = Merge(details.events, [of |-> t.of, page |-> t.page])
    BY <2>1, <2>3 DEF HistoryPageLoaded, Details
  <2>5. details.events = {[of |-> details.of, page |-> p] : p \in 1..(t.page - 1)}
    BY <1>3, <2>1, <2>2 DEF HistoryReachesCursor, Reached
  <2>6. Reached(details') = 1..t.page
    BY <1>3, <2>4, PagesAssumption DEF Reached, Older
  <2>7. 1..t.page = 1..(t.page - 1) \cup {t.page} /\ \A p \in 1..(t.page - 1) : p # t.page
    BY <1>3
  <2>8. Merge(details.events, [of |-> t.of, page |-> t.page])
          = {[of |-> details.of, page |-> p] : p \in 1..t.page}
    BY <2>2, <2>5, <2>7 DEF Merge
  <2> QED BY <2>4, <2>6, <2>8
<1> QED BY <1>2, <1>4 DEF HistoryReachesCursor

\* An answer that leaves the list and the selection alone.
LEMMA AnswerStep ==
  ASSUME Inv, TypeOK', NEW t \in tasks, tasks' = tasks \ {t},
         nextId' = nextId, current' = current, UNCHANGED listVars,
         \/ details' = details
         \/ details # None /\ details'.of = details.of
         \/ t.slot = "details" /\ Wanted(t) /\ details'.of = t.of,
         WantedHistory', HistoryReachesCursor'
  PROVE  Inv'
<1> USE DEF Inv
<1>1. IdsBelowCounter' /\ \A u \in tasks' : u \in tasks /\ (Wanted(u)' <=> Wanted(u))
  BY QuietWants
<1>2. /\ query' = query /\ cursor' = cursor /\ nextCursor' = nextCursor
      /\ previous' = previous /\ selected' = selected
  BY DEF listVars
<1>3. ListAnswersCursor' /\ SentCursorsOfQuery' /\ CursorsOfQuery'
  BY <1>1, <1>2 DEF ListAnswersCursor, SentCursorsOfQuery, CursorsOfQuery
<1>4. WantedDetails'
  BY <1>1, <1>2 DEF WantedDetails
<1>5. DetailsOfSelection'
  BY <1>2 DEF DetailsOfSelection, WantedDetails
<1> QED BY <1>1, <1>3, <1>4, <1>5

LEMMA InvStep ==
  ASSUME Inv, [Next]_vars
  PROVE  Inv'
<1> USE DEF Inv
<1>1. TypeOK'
  BY TypeStep
<1>2. CASE Refresh
  <2>1. CursorsOfQuery'
    BY <1>2 DEF Refresh, listVars, CursorsOfQuery
  <2> QED BY <1>1, <1>2, <2>1, ListStep DEF Refresh, listVars, TypeOK, CursorsOfQuery
<1>3. ASSUME NEW q \in Queries, ApplyQuery(q)
      PROVE  Inv'
  <2>1. CursorsOfQuery'
    BY <1>3 DEF ApplyQuery, CursorsOfQuery
  <2> QED BY <1>1, <1>3, <2>1, CursorFacts, ListStep DEF ApplyQuery
<1>4. CASE NextPage
  <2>1. nextCursor \in Cursor /\ previous \in Seq(Cursor) /\ query \in Queries
    BY DEF TypeOK
  <2>2. \A i \in DOMAIN previous' : previous'[i] = cursor \/ \E j \in DOMAIN previous : previous'[i] = previous[j]
    BY <1>4, <2>1 DEF NextPage, TypeOK
  <2>3. CursorsOfQuery'
    BY <1>4, <2>2 DEF NextPage, CursorsOfQuery
  <2> QED BY <1>1, <1>4, <2>1, <2>3, ListStep DEF NextPage, CursorsOfQuery
<1>5. CASE PreviousPage
  <2>1. previous \in Seq(Cursor) /\ Len(previous) \in DOMAIN previous /\ query \in Queries
    BY <1>5 DEF PreviousPage, TypeOK
  <2>2. \A i \in DOMAIN previous' : i \in DOMAIN previous /\ previous'[i] = previous[i]
    BY <1>5, <2>1 DEF PreviousPage
  <2>3. CursorsOfQuery'
    BY <1>5, <2>1, <2>2 DEF PreviousPage, CursorsOfQuery
  <2> QED BY <1>1, <1>5, <2>1, <2>3, ListStep DEF PreviousPage, CursorsOfQuery
<1>6. ASSUME NEW w \in Workflows, SelectWorkflow(w)
      PROVE  Inv'
  <2>1. CursorsOfQuery'
    BY <1>6 DEF SelectWorkflow, CursorsOfQuery
  <2> QED BY <1>1, <1>6, <2>1, SelectionStep DEF SelectWorkflow, TypeOK
<1>7. CASE LoadOlderHistory
  <2>1. /\ nextId' = nextId + 1 /\ nextId \in Nat
        /\ \A s \in Slots : current'[s] = IF s = "history" THEN nextId + 1 ELSE current[s]
        /\ \A t \in tasks' : t \in tasks \/ (t.slot = "history" /\ t.id = nextId + 1)
    BY <1>7 DEF LoadOlderHistory, Claim, TypeOK
  <2>2. \A t \in tasks : t.id \in Nat /\ t.slot \in Slots /\ t.id <= nextId
    BY TaskFacts DEF IdsBelowCounter
  <2>3. \A s \in Slots : current[s] \in Nat /\ current[s] <= nextId
    BY DEF TypeOK, IdsBelowCounter
  <2>4. IdsBelowCounter'
    BY <2>1, <2>2, <2>3 DEF IdsBelowCounter
  <2>5. \A t \in tasks' : t.slot \in {"list", "details"} =>
          t \in tasks /\ (Wanted(t)' <=> Wanted(t))
    BY <2>1, <2>2 DEF Wanted, Slots
  <2>6. UNCHANGED <<listVars, details, overtaken>>
    BY <1>7 DEF LoadOlderHistory
  <2>7. /\ query' = query /\ cursor' = cursor /\ nextCursor' = nextCursor
        /\ previous' = previous /\ selected' = selected /\ details' = details
    BY <2>6 DEF listVars
  <2>8. ListAnswersCursor' /\ SentCursorsOfQuery' /\ CursorsOfQuery'
    BY <2>5, <2>7 DEF ListAnswersCursor, SentCursorsOfQuery, CursorsOfQuery
  <2>9. WantedDetails' /\ DetailsOfSelection'
    BY <2>5, <2>7 DEF WantedDetails, DetailsOfSelection
  <2>10. HistoryReachesCursor'
    BY <2>6 DEF HistoryReachesCursor
  <2>11. WantedHistory'
    <3> DEFINE new == [slot |-> "history", id |-> nextId + 1, of |-> details.of,
                       page |-> details.older]
    <3>1. details # None /\ \A t \in tasks' : t \in tasks \/ t = new
      BY <1>7 DEF LoadOlderHistory
    <3>2. /\ new.id = nextId + 1 /\ new.of = details.of /\ new.page = details.older
          /\ new.slot = "history"
      OBVIOUS
    <3> HIDE DEF new
    <3>3. \A t \in tasks' : t.slot = "history" /\ Wanted(t)' => t = new
      BY <2>1, <2>2, <2>3, <3>1 DEF Wanted, Slots
    <3>4. \A t \in tasks' : ~ (t.slot = "details" /\ Wanted(t)')
      BY <2>5, <3>1 DEF WantedDetails
    <3>5. current'["details"] <= nextId /\ current'["details"] \in Nat
      BY <2>1, <2>3 DEF Slots
    <3> QED BY <2>1, <2>7, <3>2, <3>3, <3>4, <3>5 DEF WantedHistory
  <2> QED BY <1>1, <2>4, <2>8, <2>9, <2>10, <2>11
<1>8. ASSUME NEW t \in tasks, Drop(t) \/ Failed(t)
      PROVE  Inv'
  BY <1>1, <1>8, HistoryStays, AnswerStep DEF Drop, Failed
<1>9. ASSUME NEW t \in tasks, NEW page \in SUBSET Workflows, NEW more \in BOOLEAN,
             WorkflowsLoaded(t, page, more)
      PROVE  Inv'
  <2>1. selected' \in Workflows \cup {None}
    BY <1>1 DEF TypeOK
  <2>2. Calm("list") \in [Slots -> BOOLEAN]
    BY CalmType DEF Slots
  <2>3. t.query = query /\ query' = query /\ cursor' = cursor /\ previous' = previous
    BY <1>9 DEF WorkflowsLoaded, ListAnswersCursor
  <2>4. nextCursor' = FirstPage \/ nextCursor'.query = query
    BY <1>9, <2>3 DEF WorkflowsLoaded
  <2>5. CursorsOfQuery'
    BY <2>3, <2>4 DEF CursorsOfQuery
  <2>6. LoadSelected(selected', tasks \ {t}, Calm("list")) /\ tasks \ {t} \in SUBSET tasks
        /\ details' = None
    BY <1>9 DEF WorkflowsLoaded
  <2> QED BY <1>1, <2>1, <2>2, <2>3, <2>5, <2>6, SelectionStep
<1>10. ASSUME NEW t \in tasks, DetailsLoaded(t)
       PROVE  Inv'
  BY <1>1, <1>10, DetailsReach, AnswerStep DEF DetailsLoaded
<1>11. ASSUME NEW t \in tasks, HistoryPageLoaded(t)
       PROVE  Inv'
  <2>1. details' = details \/ (details # None /\ details'.of = details.of)
    <3>1. CASE details = None
      BY <1>11, <3>1 DEF HistoryPageLoaded
    <3>2. CASE details # None
      <4>1. details \in Details
        BY <3>2 DEF TypeOK
      <4> QED BY <1>11, <3>2, <4>1 DEF HistoryPageLoaded, Details
    <3> QED BY <3>1, <3>2
  <2> QED BY <1>1, <1>11, <2>1, PageReaches, AnswerStep DEF HistoryPageLoaded
<1>12. CASE UNCHANGED vars
  <2>1. /\ UNCHANGED <<tasks, nextId, current>> /\ UNCHANGED <<query, cursor, nextCursor>>
        /\ UNCHANGED <<previous, selected, details, overtaken>>
    BY <1>12 DEF vars, requestVars, listVars
  <2> QED BY <1>1, <2>1 DEF IdsBelowCounter, ListAnswersCursor, SentCursorsOfQuery,
             CursorsOfQuery, WantedDetails, DetailsOfSelection, WantedHistory,
             HistoryReachesCursor, Wanted
<1> QED BY <1>2, <1>3, <1>4, <1>5, <1>6, <1>7, <1>8, <1>9, <1>10, <1>11, <1>12
        DEF Next, Key, Answer

LEMMA InvHolds == Spec => []Inv
BY InvInit, InvStep, PTL DEF Spec

-----------------------------------------------------------------------------
(* The theorems *)

\* Every reachable state of the Workflows tab is well-typed.
THEOREM WorkflowTypeCorrect == Spec => []TypeOK
<1>1. Inv => TypeOK
  BY DEF Inv
<1> QED BY <1>1, InvHolds, PTL

\* The details on screen are those of the highlighted row, whatever order the
\* answers to earlier selections come in (DetailsLoaded, select_workflow).
THEOREM DetailsOfSelectionHolds == Spec => []DetailsOfSelection
<1>1. Inv => DetailsOfSelection
  BY DEF Inv
<1> QED BY <1>1, InvHolds, PTL

\* The list answer that will be taken is one to the current query and cursor
\* (WorkflowsLoaded, refresh_workflows and the page keys).  The rows it will
\* replace may be older: they stay after ApplyQuery and after a failed page.
THEOREM ListAnswersCursorHolds == Spec => []ListAnswersCursor
<1>1. Inv => ListAnswersCursor
  BY DEF Inv
<1> QED BY <1>1, InvHolds, PTL

\* Within one session no page token of one query is sent with another
\* (refresh_workflows, next_workflow_page, previous_workflow_page).
THEOREM CursorsOfQueryHolds == Spec => []CursorsOfQuery
<1>1. Inv => CursorsOfQuery
  BY DEF Inv
<1> QED BY <1>1, InvHolds, PTL

\* The history on screen is every page from the newest to the cursor and nothing
\* else, as long as no page was taken that was asked for before these details
\* (HistoryPageLoaded, load_older_history, DetailsLoaded), for histories of any
\* length.
THEOREM HistoryReachesCursorHolds == Spec => []HistoryReachesCursor
<1>1. Inv => HistoryReachesCursor
  BY DEF Inv
<1> QED BY <1>1, InvHolds, PTL
-----------------------------------------------------------------------------
(* A flag that blocks a key is released by an answer                         *)

\* Somebody will answer what slot `s' waits for.
Awaited(s) == \E t \in tasks : t.slot = s /\ Wanted(t)

FlagHasRequest == \A s \in Slots : loading[s] => Awaited(s)

\* Slot `s' still waits for what it waited for, and nothing that answers it is gone.
StillWaits(s) ==
  /\ loading[s] /\ current'[s] = current[s]
  /\ \A t \in tasks : t.slot = s /\ Wanted(t) => t \in tasks'

LEMMA WaitGoesOn ==
  ASSUME FlagHasRequest, NEW s \in Slots, loading'[s] => StillWaits(s) \/ Awaited(s)'
  PROVE  loading'[s] => Awaited(s)'
  BY DEF FlagHasRequest, StillWaits, Awaited, Wanted

LEMMA ListWaits ==
  ASSUME TypeOK, FlagHasRequest, NEW q, NEW c, LoadList(q, c)
  PROVE  FlagHasRequest'
<1> DEFINE t == [slot |-> "list", id |-> nextId + 1, query |-> q, cursor |-> c]
<1>1. /\ t \in tasks' /\ tasks \subseteq tasks'
      /\ current' = [current EXCEPT !["list"] = nextId + 1]
      /\ loading' = [loading EXCEPT !["list"] = TRUE]
  BY DEF LoadList, Claim
<1>2. Awaited("list")'
  BY <1>1 DEF Awaited, Wanted, TypeOK, Slots
<1>3. \A s \in Slots \ {"list"} : loading'[s] => StillWaits(s)
  BY <1>1 DEF StillWaits, TypeOK
<1> QED BY <1>2, <1>3, WaitGoesOn DEF FlagHasRequest

\* The answer `t' clears its flag, and may ask for the details of a row.
LEMMA SelectedWaits ==
  ASSUME TypeOK, FlagHasRequest, NEW row, NEW out, NEW flags \in [Slots -> BOOLEAN],
         LoadSelected(row, out, flags),
         \A s \in Slots : flags[s] =>
           loading[s] /\ \A t \in tasks : t.slot = s /\ Wanted(t) => t \in out
  PROVE  FlagHasRequest'
<1>1. CASE row = None
  <2>1. tasks' = out /\ loading' = flags /\ current' = current
    BY <1>1 DEF LoadSelected
  <2>2. \A s \in Slots : loading'[s] => StillWaits(s)
    BY <2>1 DEF StillWaits
  <2> QED BY <2>2, WaitGoesOn DEF FlagHasRequest
<1>2. CASE row # None
  <2> DEFINE t == [slot |-> "details", id |-> nextId + 1, of |-> row]
  <2>1. /\ t \in tasks' /\ out \subseteq tasks'
        /\ current' = [current EXCEPT !["details"] = nextId + 1]
        /\ loading' = [flags EXCEPT !["details"] = TRUE]
    BY <1>2 DEF LoadSelected, Claim
  <2>2. Awaited("details")'
    BY <2>1 DEF Awaited, Wanted, TypeOK, Slots
  <2>3. \A s \in Slots \ {"details"} : loading'[s] => StillWaits(s)
    BY <2>1 DEF StillWaits, TypeOK
  <2> QED BY <2>2, <2>3, WaitGoesOn DEF FlagHasRequest
<1> QED BY <1>1, <1>2

\* What an answer clears is the flag of its own slot.
LEMMA AnswerWaits ==
  ASSUME TypeOK, FlagHasRequest, NEW t \in tasks, tasks' = tasks \ {t},
         current' = current,
         \/ loading' = Calm(t.slot)
         \/ loading' = loading /\ ~ Wanted(t)
  PROVE  FlagHasRequest'
<1>1. \A s \in Slots : loading'[s] => StillWaits(s)
  BY DEF StillWaits, Calm, TypeOK
<1> QED BY <1>1, WaitGoesOn DEF FlagHasRequest

LEMMA FlagStep ==
  ASSUME TypeOK, FlagHasRequest, [Next]_vars
  PROVE  FlagHasRequest'
<1>1. CASE Refresh \/ (\E q \in Queries : ApplyQuery(q)) \/ NextPage \/ PreviousPage
  <2>1. \E q, c : LoadList(q, c)
    BY <1>1 DEF Refresh, ApplyQuery, NextPage, PreviousPage
  <2> QED BY <2>1, ListWaits
<1>2. ASSUME NEW w \in Workflows, SelectWorkflow(w)
      PROVE  FlagHasRequest'
  <2>1. LoadSelected(w, tasks, loading) /\ loading \in [Slots -> BOOLEAN]
    BY <1>2 DEF SelectWorkflow, TypeOK
  <2> QED BY <2>1, SelectedWaits
<1>3. CASE LoadOlderHistory
  <2> DEFINE t == [slot |-> "history", id |-> nextId + 1, of |-> details.of,
                   page |-> details.older]
  <2>1. /\ t \in tasks' /\ tasks \subseteq tasks'
        /\ current' = [current EXCEPT !["history"] = nextId + 1]
        /\ loading' = [loading EXCEPT !["history"] = TRUE]
    BY <1>3 DEF LoadOlderHistory, Claim
  <2>2. Awaited("history")'
    BY <2>1 DEF Awaited, Wanted, TypeOK, Slots
  <2>3. \A s \in Slots \ {"history"} : loading'[s] => StillWaits(s)
    BY <2>1 DEF StillWaits, TypeOK
  <2> QED BY <2>2, <2>3, WaitGoesOn DEF FlagHasRequest
<1>4. ASSUME NEW t \in tasks, Drop(t) \/ Failed(t) \/ DetailsLoaded(t) \/ HistoryPageLoaded(t)
      PROVE  FlagHasRequest'
  BY <1>4, AnswerWaits DEF Drop, Failed, DetailsLoaded, HistoryPageLoaded
<1>5. ASSUME NEW t \in tasks, NEW page \in SUBSET Workflows, NEW more \in BOOLEAN,
             WorkflowsLoaded(t, page, more)
      PROVE  FlagHasRequest'
  <2>1. /\ LoadSelected(selected', tasks \ {t}, Calm("list"))
        /\ t.slot = "list"
    BY <1>5 DEF WorkflowsLoaded
  <2>2. Calm("list") \in [Slots -> BOOLEAN]
    BY CalmType DEF Slots
  <2>3. \A s \in Slots : Calm("list")[s] =>
          loading[s] /\ \A u \in tasks : u.slot = s /\ Wanted(u) => u \in tasks \ {t}
    BY <2>1 DEF Calm, TypeOK
  <2> QED BY <2>1, <2>2, <2>3, SelectedWaits
<1>6. CASE UNCHANGED vars
  BY <1>6 DEF vars, requestVars, FlagHasRequest, Awaited, Wanted
<1> QED BY <1>1, <1>2, <1>3, <1>4, <1>5, <1>6 DEF Next, Key, Answer

\* As long as a flag blocks a key (list pages, the history) there is a request
\* out whose answer will be taken: no handler drops the last one, or supersedes
\* it, without clearing the flag or asking anew.
THEOREM FlagHasRequestHolds == Spec => []FlagHasRequest
<1>1. ASSUME Init PROVE FlagHasRequest
  <2> DEFINE t == [slot |-> "list", id |-> 1, query |-> query, cursor |-> FirstPage]
  <2>1. t \in tasks /\ t.slot = "list" /\ t.id = 1 /\ current["list"] = 1
    BY <1>1 DEF Init, Slots
  <2>2. \A s \in Slots : loading[s] => s = "list"
    BY <1>1 DEF Init
  <2> QED BY <2>1, <2>2 DEF FlagHasRequest, Awaited, Wanted
<1>2. Inv => TypeOK
  BY DEF Inv
<1> QED BY <1>1, <1>2, FlagStep, InvHolds, PTL DEF Spec
=============================================================================
