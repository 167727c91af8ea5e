------------------------------ MODULE Surfaces ------------------------------
(***************************************************************************)
(* The paginated lists of `App' (src/src/app.rs): workflows, workers,      *)
(* deployments, schedules and batches, their page cursors, and what moves  *)
(* below them -- a namespace, a query, a profile, and the capability       *)
(* report by which `server_capabilities' (src/src/service.rs) degrades     *)
(* them.                                                                   *)
(*                                                                         *)
(* Dashboard is about which answers are accepted; here an answer to        *)
(* anything but the last request of a list is dropped without a step, and  *)
(* the subject is what the accepted ones and the page keys do together.    *)
(*                                                                         *)
(* The lists share the view, the namespace and the report, and nothing     *)
(* else, so a behaviour follows one of them.                               *)
(***************************************************************************)
EXTENDS Naturals, Sequences, FiniteSets, SequencesExt

CONSTANTS
  Kinds,        \* the lists an instance has, out of AllKinds
  Namespaces,
  Queries,
  MaxPages      \* bound: pages of a list

AllKinds == {"workflows", "workers", "deployments", "schedules", "batches"}

ASSUME KindsAssumption == Kinds \subseteq AllKinds
ASSUME PagesAssumption == MaxPages \in Nat \ {0}

\* The lists a capability report can take away.
Degradable == Kinds \ {"workflows"}

\* The lists with a query of their own.
Queried == Kinds \cap {"workflows", "schedules"}

\* The view of the list, that of the task queues, or another one.
Views == {"own", "taskQueues", "elsewhere"}

\* What a list is a list of.
Origin == [ns : Namespaces, query : Queries]

\* Page tokens.  The empty one asks for the first page, or says that there is
\* no next one.
Empty  == [page |-> 1]
Token  == [at : Origin, page : 2..MaxPages]
NoRows == [page |-> 0]
Rows   == [at : Origin, page : 1..MaxPages]
NotAsked == [page |-> 0]
Asked  == [at : Origin, token : {Empty} \cup Token]

VARIABLES
  kind,         \* which list is followed
  view, namespace, query,
  blocked,      \* the last accepted report takes the list away
  reporting,    \* a report about this namespace is awaited
  list

screenVars == <<kind, view, namespace, query>>
reportVars == <<blocked, reporting>>
vars == <<screenVars, reportVars, list>>

\* History: what may stand between the rows of a list, its cursor and the
\* screen, until the list is next loaded from its start.
\*   returned  - a previous page was asked for and has not come
\*   skipped   - and then the next one was
\*   requeried - another query was applied; the rows of the old one still show
\*   crossed   - the namespace changed under an open request or cursor
\*   degraded  - the list was taken away under an open request or cursor
Upsets == {"returned", "skipped", "requeried", "crossed", "degraded"}

List == [cur : {Empty} \cup Token, next : {Empty} \cup Token,
         prev : Seq({Empty} \cup Token), number : 1..MaxPages,
         rows : {NoRows} \cup Rows, loading : BOOLEAN,
         asked : {NotAsked} \cup Asked, upset : SUBSET Upsets]

-----------------------------------------------------------------------------
(* The capability report.                                                  *)

\* Of a reported flag, of DescribeNamespace and of a list request that is
\* sent as a probe.
Flags  == {"yes", "no", "missing"}
Errors == {"unimplemented", "denied", "failed"}
Evidence == [flag : Flags \cup Errors, probe : {"ok"} \cup Errors]

\* Mutant: any error of a probe takes the list away.
OfStatusStrict(error) == "unavailable"

\* status_capability; an error without a status is unknown as well.
OfStatus(error) ==
  CASE error = "unimplemented" -> "unavailable"
    [] error = "denied"        -> "restricted"
    [] error = "failed"        -> "unknown"

\* probed_capability
OfProbe(probe) == IF probe = "ok" THEN "available" ELSE OfStatus(probe)

\* reported_and_probed_capability, namespace_and_probed_capability
OfFlagAndProbe(flag, probe) ==
  CASE flag = "no"     -> "unavailable"
    [] flag = "denied" -> "restricted"
    [] OTHER           -> OfProbe(probe)

\* server_capabilities: GetSystemInfo reports on schedules and fails with the
\* report, DescribeNamespace reports on workers and fails by itself, and the
\* other two are only probed.
Availability(l, e) ==
  CASE l \in {"schedules", "workers"} -> OfFlagAndProbe(e.flag, e.probe)
    [] OTHER -> OfProbe(e.probe)

Findings(l) ==
  CASE l = "schedules" -> [flag : Flags, probe : {"ok"} \cup Errors]
    [] l = "workers"   -> Evidence
    [] OTHER           -> [flag : {"missing"}, probe : {"ok"} \cup Errors]

\* blocked_capability
Blocks(l, e) == Availability(l, e) \in {"unavailable", "restricted"}

-----------------------------------------------------------------------------
(* What is done to one list.                                               *)

PageOf(token) == token.page

\* Mutant: resetting leaves the token of the next page.
ResetButNext(p) == [p EXCEPT !.cur = Empty, !.prev = <<>>, !.number = 1]

\* reset_*_pagination, and the start of refresh_workflows.
Reset(p) == [p EXCEPT !.cur = Empty, !.next = Empty, !.prev = <<>>, !.number = 1]

Upset(p, how) == [p EXCEPT !.upset = @ \cup how]

\* The answer that is awaited is not called off.
Cleared(p) == [p EXCEPT !.rows = NoRows, !.loading = FALSE]

Sent(p, origin) ==
  [p EXCEPT !.asked = [at |-> origin, token |-> p.cur], !.loading = TRUE]

\* Mutant: a list that was taken away is asked for all the same.
RefreshedAlways(p, reset, origin, isBlocked) == Sent(IF reset THEN Reset(p) ELSE p, origin)

\* refresh_*: a blocked list is cleared before anything else is looked at.
Refreshed(p, reset, origin, isBlocked) ==
  IF isBlocked THEN Cleared(p) ELSE Sent(IF reset THEN Reset(p) ELSE p, origin)

Here == [ns |-> namespace, query |-> query]

Refresh(p, reset) == Refreshed(p, reset, Here, blocked)

TypeOK ==
  /\ kind \in Kinds
  /\ view \in Views
  /\ namespace \in Namespaces
  /\ query \in Queries
  /\ blocked \in BOOLEAN /\ (blocked => kind \in Degradable)
  /\ reporting \in BOOLEAN
  /\ list \in List
  /\ Len(list.prev) < MaxPages

-----------------------------------------------------------------------------
(* Keys.                                                                   *)

\* Mutant: the token of the next page is kept.
ForwardKept(p) == [p EXCEPT !.prev = Append(@, p.cur), !.cur = p.next]

Forward(p) == [p EXCEPT !.prev = Append(@, p.cur), !.cur = p.next, !.next = Empty]

\* The bound on prev is met by an upset list only.
NextPage ==
  /\ view = "own"
  /\ ~list.loading /\ list.next # Empty
  /\ Len(list.prev) + 1 < MaxPages
  /\ LET how == IF "returned" \in list.upset THEN {"skipped"} ELSE {}
     IN list' = Refresh(Upset(Forward(list), how), FALSE)
  /\ UNCHANGED <<screenVars, reportVars>>

\* The token of the page after the one that is left stays where it is.
Back(p) == [p EXCEPT !.cur = Last(p.prev), !.prev = Front(@)]

PreviousPage ==
  /\ view = "own"
  /\ ~list.loading /\ list.prev # <<>>
  /\ list' = Refresh(Upset(Back(list), {"returned"}), FALSE)
  /\ UNCHANGED <<screenVars, reportVars>>

\* The key r and on_tick, and an operation that succeeded and reloads its
\* list, whatever view is in front by then; none reloads the workers.
Reload ==
  /\ view = "own" \/ kind # "workers"
  /\ list' = Refresh(list, FALSE)
  /\ UNCHANGED <<screenVars, reportVars>>

\* A list that is blocked keeps its cursor, although the query is another.
ApplyQuery(q) ==
  /\ view = "own" /\ kind \in Queried
  /\ query' = q
  /\ LET how == IF blocked THEN {"degraded"} ELSE {"requeried"}
     IN list' = Refreshed(Upset(list, how), TRUE, [ns |-> namespace, query |-> q], blocked)
  /\ UNCHANGED <<kind, view, namespace, reportVars>>

\* A list that is shown while it is empty is loaded, workflows from where
\* their cursor is; the task queues want the workers for their names.
SwitchView(v) ==
  /\ v # view
  /\ view' = v
  /\ list' = IF list.rows = NoRows
                /\ (v = "own" \/ (v = "taskQueues" /\ kind = "workers" /\ ~list.loading))
               THEN Refresh(list, kind # "workflows")
               ELSE list
  /\ UNCHANGED <<kind, namespace, query, reportVars>>

\* Mutant: only the list in front is reset.
NeverReset == {}

\* The lists that PickNamespace resets whatever is in front.
ResetAlways == Degradable

\* The cursor of the workflows goes back to the first page only when they are
\* in front; no request is called off but that of the list in front.
PickNamespace(ns) ==
  /\ namespace' = ns
  /\ blocked' = FALSE
  /\ reporting' = TRUE
  /\ LET p == [list EXCEPT !.rows = NoRows, !.upset = {}]
         q == IF kind \in ResetAlways THEN Reset(p) ELSE p
         open == kind = "workflows" \/ q.asked # NotAsked
     IN list' = IF view = "own"
                  THEN Refreshed(q, TRUE, [ns |-> ns, query |-> query], FALSE)
                  ELSE IF open THEN Upset(q, {"crossed"}) ELSE q
  /\ UNCHANGED <<kind, view, query>>

Fresh == [cur |-> Empty, next |-> Empty, prev |-> <<>>, number |-> 1, rows |-> NoRows,
          loading |-> FALSE, asked |-> NotAsked, upset |-> {}]

\* ProfileSwitchFinished: invalidate_pending_requests, clear_connected_state
\* and bootstrap.
Connected(ns) ==
  /\ namespace' = ns
  /\ blocked' = FALSE
  /\ reporting' = TRUE
  /\ list' = IF view = "own" THEN Sent(Fresh, [ns |-> ns, query |-> query]) ELSE Fresh
  /\ UNCHANGED <<kind, view, query>>

AskReport ==
  /\ reporting' = TRUE
  /\ UNCHANGED <<screenVars, blocked, list>>

-----------------------------------------------------------------------------
(* Answers.                                                                *)

\* What the server may say to a token: its page, and whether there is a next
\* one.  A token of another list is refused or answered somehow.
AnswerTo(a) ==
  IF a.token = Empty \/ a.token.at = a.at THEN {PageOf(a.token)} ELSE 1..MaxPages

TokenAfter(origin, page) ==
  {Empty} \cup (IF page < MaxPages THEN {[at |-> origin, page |-> page + 1]} ELSE {})

\* Mutant: pages are counted by their answers.
NumberCounted(p) == p.number + 1

NumberOf(p) == Len(p.prev) + 1

\* Loaded from the start, so that whatever came before is over.
Settled(p) == p.asked = [at |-> Here, token |-> Empty] /\ p.cur = Empty /\ p.prev = <<>>

UpsetAfter(p) ==
  IF Settled(p) /\ ~blocked THEN {}
  ELSE {how \in p.upset : how = "returned" => p.asked.token # p.cur}

\* WorkflowsLoaded, WorkersLoaded, ...: the page may be empty.
ListLoaded ==
  /\ list.asked # NotAsked
  /\ \E page \in AnswerTo(list.asked) :
       \E next \in TokenAfter(list.asked.at, page),
          rows \in {NoRows, [at |-> list.asked.at, page |-> page]} :
         list' = [list EXCEPT !.next = next, !.number = NumberOf(list), !.rows = rows,
                              !.loading = FALSE, !.asked = NotAsked, !.upset = UpsetAfter(list)]
  /\ UNCHANGED <<screenVars, reportVars>>

\* Mutant: a failed load empties the cursor.
AfterErrorStart(p) == [p EXCEPT !.cur = Empty]

\* An error leaves rows, cursor and next token as they are.
AfterError(p) == p

ListFailed ==
  /\ list.asked # NotAsked
  /\ list' = [AfterError(list) EXCEPT !.loading = FALSE, !.asked = NotAsked]
  /\ UNCHANGED <<screenVars, reportVars>>

\* CapabilitiesLoaded and apply_capability_degradation.
ReportLoaded(e) ==
  /\ reporting
  /\ reporting' = FALSE
  /\ blocked' = (kind \in Degradable /\ Blocks(kind, e))
  /\ list' = IF ~blocked' THEN list
             ELSE Upset(Cleared(list), IF list.asked = NotAsked THEN {} ELSE {"degraded"})
  /\ UNCHANGED screenVars

ReportFailed ==
  /\ reporting
  /\ reporting' = FALSE
  /\ UNCHANGED <<screenVars, blocked, list>>

-----------------------------------------------------------------------------
(* The specification *)

\* App::new and bootstrap, on the view of the workflows.
Init ==
  /\ kind \in Kinds
  /\ view = IF kind = "workflows" THEN "own" ELSE "elsewhere"
  /\ namespace \in Namespaces
  /\ query \in Queries
  /\ blocked = FALSE
  /\ reporting = TRUE
  /\ list = IF view = "own" THEN Sent(Fresh, Here) ELSE Fresh

Next ==
  \/ NextPage \/ PreviousPage \/ Reload
  \/ \E q \in Queries : ApplyQuery(q)
  \/ \E v \in Views : SwitchView(v)
  \/ \E ns \in Namespaces : PickNamespace(ns) \/ Connected(ns)
  \/ AskReport
  \/ ListLoaded \/ ListFailed
  \/ \E e \in Findings(kind) : ReportLoaded(e)
  \/ ReportFailed

Spec == Init /\ [][Next]_vars

-----------------------------------------------------------------------------
(* Properties *)

\* The rows on screen are of the namespace and query on screen, and of the
\* page their header counts; also after loads that failed in any order, as
\* long as the list was not upset by more than that.
HeaderDescribesRows ==
  list.rows # NoRows /\ list.upset \subseteq {"returned"}
    => list.rows = [at |-> Here, page |-> list.number]

\* No list is asked for with a page token of another namespace or query,
\* unless the change came when the list was not in front or taken away.
TokensFitTheList ==
  list.asked # NotAsked /\ list.asked.token # Empty /\ list.asked.token.at # list.asked.at
    => list.upset \cap {"crossed", "degraded"} # {}

\* A list that was taken away stays empty, unless its request was out when
\* the report came.
DegradedStaysEmpty ==
  blocked /\ list.rows # NoRows => list.upset \cap {"degraded", "crossed"} # {}

\* docs/COMPATIBILITY.md:24: a probe that failed for a while disables nothing;
\* a list is taken away only because an endpoint said that it is not there or
\* not allowed.
TransientNeverBlocks ==
  [][\A e \in Evidence : e \in Findings(kind) /\ ReportLoaded(e) /\ blocked' =>
       {e.flag, e.probe} \cap {"no", "denied", "unimplemented"} # {}]_vars

\* The page keys go one page forward or back and skip none, although loads
\* fail, answers come late and lists are reloaded meanwhile.
KeysStepByOne ==
  [][list.upset = {} =>
       /\ NextPage => PageOf(list'.cur) = PageOf(list.cur) + 1
       /\ PreviousPage => PageOf(list'.cur) + 1 = PageOf(list.cur)]_vars
=============================================================================
