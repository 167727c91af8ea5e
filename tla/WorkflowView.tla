---------------------------- MODULE WorkflowView ----------------------------
(***************************************************************************)
(* The Workflows tab of `App' (src/src/app.rs) within one session: paging   *)
(* through the Visibility list, the selected row, its details, and its     *)
(* history, which is loaded newest page first and older pages on demand.   *)
(*                                                                         *)
(* Rows are workflow runs.  A page of events is the run it belongs to and  *)
(* its place in that run's history; event ids are unique within one run    *)
(* only, so the pages at one place of two histories collide.               *)
(***************************************************************************)
EXTENDS Naturals, Sequences

CONSTANTS
  Workflows,
  None,           \* nothing selected, no details
  Queries,
  HistoryPages,   \* the number of pages of every history
  ListPages,      \* bound: no list has more pages
  MaxRequest      \* bound: no key once this many request ids were taken

ASSUME NoneAssumption == None \notin Workflows
ASSUME PagesAssumption == HistoryPages \in Nat \ {0} /\ ListPages \in Nat \ {0}
ASSUME IdBoundAssumption == MaxRequest \in Nat

VARIABLES
  tasks,        \* spawned requests that were not answered yet
  nextId,
  current,      \* current_workflow_request, current_detail_request, ...
  loading,      \* loading_workflows, loading_details, loading_history_page
  query,
  cursor,       \* current_page_token
  nextCursor,   \* next_page_token
  previous,     \* previous_page_tokens
  rows, selected,
  details,
  overtaken     \* history only: the details on screen took a page that was
                \* asked for before they were

requestVars == <<tasks, nextId, current, loading>>
listVars    == <<query, cursor, nextCursor, previous, rows, selected>>
vars == <<requestVars, listVars, details, overtaken>>

Slots == {"list", "details", "history"}

\* A page token of the server; the empty one asks for the first page.
FirstPage == [query |-> "any", page |-> 1]
Cursor    == {FirstPage} \cup [query : Queries, page : 2 .. ListPages]

\* The pages of a history, newest first; 0 is the empty token at its end.
Older(page) == IF page < HistoryPages THEN page + 1 ELSE 0

EventPage == [of : Workflows, page : 1 .. HistoryPages]
Details   == [of : Workflows, events : SUBSET EventPage, older : 0 .. HistoryPages]

ListTask    == [slot : {"list"}, id : Nat, query : Queries, cursor : Cursor]
DetailsTask == [slot : {"details"}, id : Nat, of : Workflows]
HistoryTask == [slot : {"history"}, id : Nat, of : Workflows, page : 1 .. HistoryPages]

TypeOK ==
  /\ tasks \subseteq ListTask \cup DetailsTask \cup HistoryTask
  /\ nextId \in Nat
  /\ current \in [Slots -> Nat]
  /\ loading \in [Slots -> BOOLEAN]
  /\ query \in Queries
  /\ cursor \in Cursor
  /\ nextCursor \in Cursor
  /\ previous \in Seq(Cursor)
  /\ rows \subseteq Workflows
  /\ selected \in Workflows \cup {None}
  /\ details = None \/ details \in Details
  /\ overtaken \in BOOLEAN

-----------------------------------------------------------------------------
(* Requests                                                                 *)

\* Mutant: details are taken whichever request they answer.
WantedAnyDetails(t) == t.slot = "details" \/ t.id = current[t.slot]

Wanted(t) == t.id = current[t.slot]

\* Mutant: an answer to the previous query is still taken.
ClaimNotList(slot, id) ==
  IF slot = "list" THEN current ELSE [current EXCEPT ![slot] = id]

Claim(slot, id) == [current EXCEPT ![slot] = id]

\* load_selected_details, after the answer or key that left the tasks `out' and
\* the flags `flags'.
LoadSelected(row, out, flags) ==
  IF row = None
  THEN /\ tasks' = out
       /\ loading' = flags
       /\ UNCHANGED <<nextId, current>>
  ELSE /\ nextId' = nextId + 1
       /\ current' = Claim("details", nextId + 1)
       /\ loading' = [flags EXCEPT !["details"] = TRUE]
       /\ tasks' = out \cup {[slot |-> "details", id |-> nextId + 1, of |-> row]}

\* refresh_workflows, for the query and the page that are current then.
LoadList(q, page) ==
  /\ nextId < MaxRequest
  /\ nextId' = nextId + 1
  /\ current' = Claim("list", nextId + 1)
  /\ loading' = [loading EXCEPT !["list"] = TRUE]
  /\ tasks' = tasks \cup {[slot |-> "list", id |-> nextId + 1, query |-> q, cursor |-> page]}

-----------------------------------------------------------------------------
(* Keys and ticks                                                           *)

\* The key r, the automatic refresh, and the refresh after a mutation.
Refresh ==
  /\ LoadList(query, cursor)
  /\ UNCHANGED <<listVars, details, overtaken>>

\* Query and SavedQueryPicker, Enter.  The old rows stay until the answer.
ApplyQuery(q) ==
  /\ query' = q
  /\ cursor' = FirstPage
  /\ nextCursor' = FirstPage
  /\ previous' = <<>>
  /\ LoadList(q, FirstPage)
  /\ UNCHANGED <<rows, selected, details, overtaken>>

NextPage ==
  /\ ~loading["list"]
  /\ nextCursor # FirstPage
  /\ previous' = Append(previous, cursor)
  /\ cursor' = nextCursor
  /\ nextCursor' = FirstPage
  /\ LoadList(query, nextCursor)
  /\ UNCHANGED <<query, rows, selected, details, overtaken>>

PreviousPage ==
  /\ ~loading["list"]
  /\ previous # <<>>
  /\ previous' = SubSeq(previous, 1, Len(previous) - 1)
  /\ cursor' = previous[Len(previous)]
  /\ LoadList(query, previous[Len(previous)])
  /\ UNCHANGED <<query, nextCursor, rows, selected, details, overtaken>>

SelectWorkflow(w) ==
  /\ nextId < MaxRequest
  /\ w \in rows
  /\ w # selected
  /\ selected' = w
  /\ details' = None
  /\ LoadSelected(w, tasks, loading)
  /\ UNCHANGED <<query, cursor, nextCursor, previous, rows, overtaken>>

LoadOlderHistory ==
  /\ nextId < MaxRequest
  /\ ~loading["history"]
  /\ details # None
  /\ details.older # 0
  /\ nextId' = nextId + 1
  /\ current' = Claim("history", nextId + 1)
  /\ loading' = [loading EXCEPT !["history"] = TRUE]
  /\ tasks' = tasks \cup
       {[slot |-> "history", id |-> nextId + 1, of |-> details.of, page |-> details.older]}
  /\ UNCHANGED <<listVars, details, overtaken>>

-----------------------------------------------------------------------------
(* Answers                                                                  *)

\* Mutant: a page that arrives without details leaves the flag.
CalmWithDetails(slot) ==
  [loading EXCEPT ![slot] = slot = "history" /\ details = None]

Calm(slot) == [loading EXCEPT ![slot] = FALSE]

Drop(t) ==
  /\ ~Wanted(t)
  /\ tasks' = tasks \ {t}
  /\ UNCHANGED <<nextId, current, loading, listVars, details, overtaken>>

Failed(t) ==
  /\ Wanted(t)
  /\ tasks' = tasks \ {t}
  /\ loading' = Calm(t.slot)
  /\ UNCHANGED <<nextId, current, listVars, details, overtaken>>

\* WorkflowsLoaded.  The selected run is found again, or the first row is taken.
\* The server offers a further page only after rows, and up to the bound.
WorkflowsLoaded(t, page, more) ==
  /\ t.slot = "list"
  /\ Wanted(t)
  /\ more => page # {} /\ t.cursor.page < ListPages
  /\ rows' = page
  /\ nextCursor' = IF more THEN [query |-> t.query, page |-> t.cursor.page + 1] ELSE FirstPage
  /\ selected' \in IF page = {} THEN {None} ELSE IF selected \in page THEN {selected} ELSE page
  /\ details' = None
  /\ LoadSelected(selected', tasks \ {t}, Calm("list"))
  /\ UNCHANGED <<query, cursor, previous, overtaken>>

\* DetailsLoaded: describe and the newest page of the history.
DetailsLoaded(t) ==
  /\ t.slot = "details"
  /\ Wanted(t)
  /\ tasks' = tasks \ {t}
  /\ loading' = Calm("details")
  /\ details' = [of |-> t.of, events |-> {[of |-> t.of, page |-> 1]}, older |-> Older(1)]
  /\ overtaken' = FALSE
  /\ UNCHANGED <<nextId, current, listVars>>

\* Mutant: the older page replaces what is there.
MergeReplaces(events, page) == {page}

\* sort_by_key and dedup_by_key on the event id, the arriving page first.
Merge(events, page) == {e \in events : e.page # page.page} \cup {page}

\* HistoryPageLoaded: into whatever details are on screen, if there are any.
HistoryPageLoaded(t) ==
  /\ t.slot = "history"
  /\ Wanted(t)
  /\ tasks' = tasks \ {t}
  /\ loading' = Calm("history")
  /\ details' = IF details = None THEN None
                ELSE [details EXCEPT
                       !.events = Merge(@, [of |-> t.of, page |-> t.page]),
                       !.older = Older(t.page)]
  /\ overtaken' = (overtaken \/ t.id < current["details"])
  /\ UNCHANGED <<nextId, current, listVars>>

-----------------------------------------------------------------------------
(* The specification, from the bootstrap on                                 *)

Init ==
  /\ nextId = 1
  /\ current = [s \in Slots |-> IF s = "list" THEN 1 ELSE 0]
  /\ loading = [s \in Slots |-> s = "list"]
  /\ query \in Queries
  /\ tasks = {[slot |-> "list", id |-> 1, query |-> query, cursor |-> FirstPage]}
  /\ cursor = FirstPage
  /\ nextCursor = FirstPage
  /\ previous = <<>>
  /\ rows = {}
  /\ selected = None
  /\ details = None
  /\ overtaken = FALSE

Key ==
  \/ Refresh
  \/ \E q \in Queries : ApplyQuery(q)
  \/ NextPage
  \/ PreviousPage
  \/ \E w \in Workflows : SelectWorkflow(w)
  \/ LoadOlderHistory

Answer(t) ==
  \/ Failed(t)
  \/ \E page \in SUBSET Workflows, more \in BOOLEAN : WorkflowsLoaded(t, page, more)
  \/ DetailsLoaded(t)
  \/ HistoryPageLoaded(t)

Next == Key \/ \E t \in tasks : Drop(t) \/ Answer(t)

\* Every request that is still wanted is answered, with a result or an error.
Fairness == \A s \in Slots : WF_vars(\E t \in tasks : t.slot = s /\ Answer(t))

Spec == Init /\ [][Next]_vars /\ Fairness
-----------------------------------------------------------------------------
(* Properties                                                               *)

\* The pages from the newest one to the cursor of these details.
Reached(d) == 1 .. (IF d.older = 0 THEN HistoryPages ELSE d.older - 1)

\* The details on screen are those of the row that is highlighted, in whatever
\* order the answers of earlier selections come in.
DetailsOfSelection ==
  details # None /\ selected # None => details.of = selected

\* The list answer that will be taken is one to the query and the cursor that
\* are current, although pages and queries are changed while requests are out.
ListAnswersCursor ==
  \A t \in tasks : t.slot = "list" /\ Wanted(t) => t.query = query /\ t.cursor = cursor

\* No cursor of one query is ever sent with another.
CursorsOfQuery ==
  \A c \in {cursor, nextCursor} \cup {previous[i] : i \in DOMAIN previous} :
    c # FirstPage => c.query = query

\* The history on screen has every page from the newest one to the cursor that
\* the next H sends, and nothing else, whatever was refreshed, selected or
\* failed before: except after a page that was asked for before these details.
HistoryReachesCursor ==
  details # None /\ ~overtaken =>
    details.events = {[of |-> details.of, page |-> p] : p \in Reached(details)}

\* The flag that blocks the key H is released.
HistoryLoadEnds == loading["history"] ~> ~loading["history"]

\* The history on screen is that of one run (README.md:403, "Request IDs
\* suppress stale list, detail, ... responses").
HistoryOfOneRun == details # None => \A e \in details.events : e.of = details.of
=============================================================================
