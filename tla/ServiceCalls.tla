---------------------------- MODULE ServiceCalls ----------------------------
(***************************************************************************)
(* One command of the dashboard as ConnectedTemporal (src/src/service.rs)  *)
(* carries it out: its RPCs, its calls to the Codec Server (PayloadCodec), *)
(* its checks, and what other clients do to the same schedule or Worker    *)
(* Deployment between two of its RPCs.  A behaviour is one command;        *)
(* `execute' (src/src/runtime.rs) runs each in a task of its own.          *)
(*                                                                         *)
(* The cluster is external: an RPC is refused, done, or done with its      *)
(* answer lost, and an update of a schedule or a deployment is refused     *)
(* when the conflict token that came with it is not the current one.       *)
(***************************************************************************)
EXTENDS PayloadCodec, SequencesExt

CONSTANTS
  Operations,    \* the operations an instance has, out of AllOperations
  Sizes,         \* the sizes of payloads
  MaxLength,     \* bound: payloads of one message
  MaxPages,      \* bound: pages of a list
  MaxOthers      \* bound: changes other clients make meanwhile

-----------------------------------------------------------------------------
(* The operations, each as the steps it takes.  Every step that fails ends *)
(* the operation with its error.                                           *)
(*   check    - the request itself is refused, before any RPC              *)
(*   encode   - the arguments go through the codec                         *)
(*   describe - the object is read, with its conflict token                *)
(*   verify   - what was read is complete and allows the change            *)
(*   write    - the RPC that changes the cluster                           *)
(*   read     - an RPC that changes nothing                                *)
(*   page     - one page of a list; repeated until there is no next one    *)
(*   decode   - the payloads of the answer go through the codec            *)
(*   await    - the outcome of an update, polled for until it is there     *)
(*   join     - the description, which was asked for at the start, is here *)
(*   inspect  - the answer has the part that is asked for                  *)

\* Mutant: a termination cancels first.
TerminateCancelled == <<"write", "write">>

PauseWorkflow     == <<"write">>
UnpauseWorkflow   == <<"write">>
ResetWorkflow     == <<"write">>
CancelWorkflow    == <<"write">>
TerminateWorkflow == <<"write">>
StopBatch         == <<"write">>
PauseSchedule     == <<"write">>
UnpauseSchedule   == <<"write">>
TriggerSchedule   == <<"write">>
DeleteSchedule    == <<"write">>
RemoveAttribute   == <<"write">>
AddAttribute      == <<"check", "write">>
BackfillSchedule  == <<"check", "write">>

\* Mutant: the signal leaves before its input was encoded.
SignalPlain == <<"write", "encode">>

SignalWorkflow == <<"encode", "write">>
CreateSchedule == <<"encode", "write">>

\* A batch of cancellations or deletions has no payloads.
StartBatch     == <<"check", "encode", "write">>
StartBareBatch == <<"check", "write">>

QueryWorkflow  == <<"encode", "read", "decode", "inspect">>
UpdateWorkflow == <<"encode", "write", "decode", "await", "inspect">>

\* Mutant: the schedule is written before it is looked at.
UpdateScheduleBlindly == <<"describe", "write", "verify">>

UpdateSchedule == <<"describe", "verify", "write">>
SetCurrent     == <<"describe", "verify", "write">>
SetRamping     == <<"check", "describe", "verify", "write">>

\* describe_workflow asks for the description and for the newest history page
\* at once.  The history is decoded inside the join, the description behind it.
DescribeWorkflow   == <<"read", "decode", "join", "decode", "inspect">>
RecentHistory      == <<"read", "decode">>
CountWorkflows     == <<"read", "decode">>
DescribeSchedule   == <<"read", "decode", "inspect">>
DescribeDeployment == <<"read", "inspect">>
DescribeWorker     == <<"read", "inspect">>
DescribeBatch      == <<"read">>
ListWorkflows      == <<"read">>   \* one page, and so the next four
ListWorkers        == <<"read">>
ListDeployments    == <<"read">>
ListSchedules      == <<"read">>
ListBatches        == <<"read">>
ListAttributes     == <<"read">>
ListNamespaces     == <<"page">>
ListChain          == <<"page">>
ListTaskQueues     == <<"page">>   \* a page is a queue of one name and type

Writers ==
  [pause_workflow |-> PauseWorkflow, unpause_workflow |-> UnpauseWorkflow,
   reset_workflow |-> ResetWorkflow, cancel_workflow |-> CancelWorkflow,
   terminate_workflow |-> TerminateWorkflow, signal_workflow |-> SignalWorkflow,
   update_workflow |-> UpdateWorkflow, start_batch_operation |-> StartBatch,
   start_bare_batch |-> StartBareBatch, stop_batch_operation |-> StopBatch,
   create_schedule |-> CreateSchedule, update_schedule |-> UpdateSchedule,
   pause_schedule |-> PauseSchedule, unpause_schedule |-> UnpauseSchedule,
   trigger_schedule |-> TriggerSchedule, backfill_schedule |-> BackfillSchedule,
   delete_schedule |-> DeleteSchedule, set_current |-> SetCurrent,
   set_ramping |-> SetRamping, add_search_attribute |-> AddAttribute,
   remove_search_attribute |-> RemoveAttribute]

Readers ==
  [query_workflow |-> QueryWorkflow, describe_workflow |-> DescribeWorkflow,
   load_history_page |-> RecentHistory, count_workflows |-> CountWorkflows,
   describe_schedule |-> DescribeSchedule, describe_worker |-> DescribeWorker,
   describe_worker_deployment |-> DescribeDeployment,
   describe_batch_operation |-> DescribeBatch, list_workflows |-> ListWorkflows,
   list_workers |-> ListWorkers, list_worker_deployments |-> ListDeployments,
   list_schedules |-> ListSchedules, list_batch_operations |-> ListBatches,
   list_search_attributes |-> ListAttributes, list_namespaces |-> ListNamespaces,
   list_workflow_chain |-> ListChain, list_task_queues |-> ListTaskQueues]

AllOperations == DOMAIN Writers \cup DOMAIN Readers

ASSUME OperationsAssumption == Operations \subseteq AllOperations
ASSUME SizesAssumption == Sizes \subseteq Nat
ASSUME BoundsAssumption == {MaxLength, MaxPages, MaxOthers} \subseteq Nat /\ MaxPages > 0

StepNames == {"check", "encode", "describe", "verify", "write", "read", "page",
              "decode", "join", "await", "poll", "inspect"}

Steps(op) == IF op \in DOMAIN Writers THEN Writers[op] ELSE Readers[op]

Messages == BoundedSeq(Sizes, MaxLength)

-----------------------------------------------------------------------------
(* What the two objects with conflict tokens hold.                         *)

\* spec: a cron expression, and what of a spec no form shows; "" is no time
\* zone, which the dashboard shows as UTC.
Schedule == [version : Nat, timing : {"old", "others", "new"}, extras : BOOLEAN,
             timezone : {"", "UTC", "others", "new"},
             notes : {"old", "others", "new"}, paused : BOOLEAN]

NoBuild == "none"
Builds  == {"b1", "b2"}

Deployment == [version : Nat, tracked : SUBSET Builds,
               current : Builds \cup {NoBuild}, ramping : Builds \cup {NoBuild}]

\* schedule_details: the time zone as it is shown.
ShownTimezone(timezone) == IF timezone = "" THEN "UTC" ELSE timezone

VARIABLES
  op,
  request,      \* what the form asks for
  todo,         \* the steps that are left
  base,         \* the object as it was read
  schedule, deployment,
  others,       \* changes other clients made
  outcome,      \* of an update: none yet, a value or failure, or empty
  reference,    \* an update reference was given
  pages,        \* pages read
  described,    \* the description of a workflow is here, not decoded yet
  changes,      \* how often this command changed the cluster
  result        \* what the dashboard is told

progressVars == <<base, outcome, reference, pages, described>>
clusterVars  == <<schedule, deployment, others>>
vars == <<op, request, todo, progressVars, clusterVars, changes, result, codecVars>>

Request == [expression : BOOLEAN, timezone : {"UTC", "new"}, notes : {"old", "new"},
            build : Builds \cup {NoBuild},
            percent : {0, 50, 101}, valid : BOOLEAN, pages : 1..MaxPages]

NoBase == [version |-> 0]

TypeOK ==
  /\ CodecTypeOK
  /\ op \in Operations
  /\ request \in Request
  /\ todo \in Seq(StepNames)
  /\ base \in {NoBase} \cup Schedule \cup Deployment
  /\ schedule \in Schedule
  /\ deployment \in Deployment
  /\ others \in 0..MaxOthers
  /\ outcome \in {"none", "some", "empty"}
  /\ reference \in BOOLEAN
  /\ pages \in 0..MaxPages
  /\ described \in BOOLEAN
  /\ changes \in Nat
  /\ result \in {"none", "ok", "error"}

EditsSchedule == op = "update_schedule"
EditsRouting  == op \in {"set_current", "set_ramping"}

\* What the forms let through.  The edit form comes with the time zone and the
\* notes of the details on screen, and an empty expression; all three are sent
\* as they are then.
RequestsOf(o) ==
  {r \in Request :
     /\ o = "update_schedule" \/ (~r.expression /\ r.timezone = "UTC" /\ r.notes = "old")
     /\ o \in {"set_current", "set_ramping"} \/ (r.build = NoBuild /\ r.percent = 0)
     /\ o \in {"list_namespaces", "list_workflow_chain", "list_task_queues"} \/ r.pages = 1
     /\ (o # "set_ramping" /\ "check" \in Range(Steps(o))) \/ r.valid}

ArgumentsOf(o) == IF "encode" \in Range(Steps(o)) THEN Messages ELSE {<<>>}

Init ==
  /\ op \in Operations
  /\ request \in RequestsOf(op)
  /\ todo = Steps(op)
  /\ configured \in BOOLEAN
  /\ \E arguments \in ArgumentsOf(op) : CodecRests(arguments)
  /\ base = NoBase
  /\ schedule \in {[version |-> 1, timing |-> "old", extras |-> TRUE, timezone |-> zone,
                    notes |-> "old", paused |-> FALSE] : zone \in {"", "UTC"}}
  /\ deployment = [version |-> 1, tracked |-> {"b1"}, current |-> "b1", ramping |-> NoBuild]
  /\ others = 0
  /\ outcome = "none" /\ reference = FALSE
  /\ pages = 0 /\ described = FALSE /\ changes = 0
  /\ result = "none"

-----------------------------------------------------------------------------
(* Steps without the network.                                              *)

At(step) == result = "none" /\ todo # <<>> /\ Head(todo) = step

Proceed == todo' = Tail(todo) /\ UNCHANGED result

Fails == result' = "error" /\ UNCHANGED todo

\* validate_batch_operation_request, parse_*, and the two rules about a ramp.
Acceptable ==
  IF op = "set_ramping"
    THEN request.percent <= 100 /\ (request.build = NoBuild => request.percent = 0)
    ELSE request.valid

Check ==
  /\ At("check")
  /\ IF Acceptable THEN Proceed ELSE Fails
  /\ UNCHANGED <<op, request, progressVars, clusterVars, changes, codecVars>>

\* encode_payloads, decode_message.
CallCodec ==
  /\ At("encode") \/ At("decode")
  /\ StartTransform \/ TransformStep
  /\ UNCHANGED <<op, request, todo, progressVars, clusterVars, changes, result>>

CodecAnswers ==
  /\ At("encode") \/ At("decode")
  /\ phase \in {"done", "failed"}
  /\ IF phase = "done" THEN Proceed ELSE Fails
  /\ UNCHANGED <<op, request, progressVars, clusterVars, changes, codecVars>>

\* Mutant: any build is taken, the server will know.
VerifiedUnseen == TRUE

\* validate_deployment_build_id: no build at all is the unversioned one.
Verified == EditsRouting => request.build \in base.tracked \cup {NoBuild}

\* The answer may also lack the definition or the deployment.
Verify ==
  /\ At("verify")
  /\ \/ Verified /\ Proceed
     \/ Fails
  /\ UNCHANGED <<op, request, progressVars, clusterVars, changes, codecVars>>

\* workflow_update_result; a rejected query; a description without its subject.
Inspect ==
  /\ At("inspect")
  /\ \/ outcome # "empty" /\ Proceed
     \/ (op = "update_workflow" => outcome = "empty") /\ Fails
  /\ UNCHANGED <<op, request, progressVars, clusterVars, changes, codecVars>>

Await ==
  /\ At("await")
  /\ CASE outcome # "none" -> Proceed
       [] outcome = "none" /\ reference -> todo' = <<"poll", "decode">> \o todo /\ UNCHANGED result
       [] OTHER -> Fails
  /\ UNCHANGED <<op, request, progressVars, clusterVars, changes, codecVars>>

Finish ==
  /\ result = "none" /\ todo = <<>>
  /\ result' = "ok"
  /\ UNCHANGED <<op, request, todo, progressVars, clusterVars, changes, codecVars>>

-----------------------------------------------------------------------------
(* RPCs.  Any of them may fail without having done anything.               *)

\* The payloads of an answer, if somebody is going to decode them.
Replies == IF Len(todo) > 1 /\ todo[2] = "decode" THEN Messages ELSE {<<>>}

Refused ==
  /\ \E step \in {"describe", "write", "read", "page", "poll"} : At(step)
  /\ Fails
  /\ UNCHANGED <<op, request, progressVars, clusterVars, changes, codecVars>>

Describe ==
  /\ At("describe")
  /\ base' = IF EditsSchedule THEN schedule ELSE deployment
  /\ Proceed
  /\ UNCHANGED <<op, request, outcome, reference, pages, described, clusterVars, changes,
                 codecVars>>

Read ==
  /\ At("read")
  /\ Proceed
  /\ \E reply \in Replies : CodecRestsNext(reply)
  /\ UNCHANGED <<op, request, progressVars, clusterVars, changes, configured>>

\* The other half of the join: the description comes before, between or behind
\* the steps of the history, or fails and ends them where they are.
DescriptionArrives ==
  /\ result = "none" /\ "join" \in Range(todo) /\ ~described
  /\ \/ described' = TRUE /\ UNCHANGED <<todo, result>>
     \/ Fails /\ UNCHANGED described
  /\ UNCHANGED <<op, request, base, outcome, reference, pages, clusterVars, changes, codecVars>>

Join ==
  /\ At("join") /\ described
  /\ Proceed
  /\ \E reply \in Replies : CodecRestsNext(reply)
  /\ UNCHANGED <<op, request, progressVars, clusterVars, changes, configured>>

\* Mutants: the first page is taken for all of them; one page too many.
LastPageAlways == TRUE
LastPageAfter  == pages = request.pages

\* The token that came with this page is empty.
LastPage == pages + 1 = request.pages

Page ==
  /\ At("page")
  /\ pages' = pages + 1
  /\ IF LastPage THEN Proceed ELSE UNCHANGED <<todo, result>>
  /\ UNCHANGED <<op, request, base, outcome, reference, described, clusterVars, changes,
                 codecVars>>

\* update_schedule: a new expression replaces the whole spec; time zone and
\* notes are always those of the form; all else is what was read.
Edited(b) == [b EXCEPT !.timing = IF request.expression THEN "new" ELSE @,
                       !.extras = IF request.expression THEN FALSE ELSE @,
                       !.timezone = request.timezone,
                       !.notes = request.notes]

\* Mutant: the conflict token is not sent.
CurrentAlways == TRUE

\* The server compares the conflict token that came with the base.
Current ==
  /\ EditsSchedule => base.version = schedule.version
  /\ EditsRouting => base.version = deployment.version

\* What the cluster holds after the change.  Operations on other objects, and
\* the patches of a schedule, are only counted.
Applied ==
  /\ schedule' = IF EditsSchedule
                   THEN [Edited(base) EXCEPT !.version = schedule.version + 1]
                   ELSE schedule
  /\ IF EditsRouting
       THEN \/ /\ op = "set_current"
               /\ deployment' = [deployment EXCEPT !.version = @ + 1, !.current = request.build]
            \/ /\ op = "set_ramping"
               /\ deployment' = [deployment EXCEPT !.version = @ + 1, !.ramping = request.build]
       ELSE UNCHANGED deployment

\* An update may be answered before it has an outcome, with or without a
\* reference to ask for it again.
Answers ==
  IF op = "update_workflow"
    THEN outcome' \in {"none", "some", "empty"} /\ reference' \in BOOLEAN
    ELSE UNCHANGED <<outcome, reference>>

Write ==
  /\ At("write")
  /\ Current
  /\ Applied
  /\ changes' = changes + 1
  /\ \/ /\ Answers /\ Proceed
        /\ \E reply \in Replies : CodecRestsNext(reply)
        /\ UNCHANGED configured
     \/ /\ Fails   \* the answer was lost
        /\ UNCHANGED <<outcome, reference, codecVars>>
  /\ UNCHANGED <<op, request, base, pages, described, others>>

Polled == {"none", "some", "empty"}

\* Mutant: the outcome of the first answer is the one that is looked at.
OutcomeOfFirst(o) == outcome

\* outcome = poll.outcome
OutcomeOf(o) == o

PollWith(outcomes) ==
  /\ At("poll")
  /\ \E o \in outcomes : outcome' = OutcomeOf(o)
  /\ \E given \in BOOLEAN : reference' = (reference \/ given)
  /\ Proceed
  /\ \E reply \in Replies : CodecRestsNext(reply)
  /\ UNCHANGED <<op, request, base, pages, described, clusterVars, changes, configured>>

Poll == PollWith(Polled)

-----------------------------------------------------------------------------
(* Other clients.                                                          *)

Untouched == UNCHANGED <<op, request, todo, progressVars, changes, result, codecVars>>

OthersEdit ==
  /\ EditsSchedule /\ result = "none" /\ others < MaxOthers
  /\ \/ schedule' = [schedule EXCEPT !.version = @ + 1, !.paused = ~@]
     \/ schedule' = [schedule EXCEPT !.version = @ + 1, !.notes = "others"]
     \/ schedule' = [schedule EXCEPT !.version = @ + 1, !.timing = "others", !.timezone = "others"]
  /\ others' = others + 1
  /\ UNCHANGED deployment
  /\ Untouched

\* The server does not forget a build that is routed to.
OthersDeploy ==
  /\ EditsRouting /\ result = "none" /\ others < MaxOthers
  /\ \E b \in Builds :
       \/ deployment' = [deployment EXCEPT !.version = @ + 1, !.tracked = @ \cup {b}]
       \/ /\ b \notin {deployment.current, deployment.ramping}
          /\ deployment' = [deployment EXCEPT !.version = @ + 1, !.tracked = @ \ {b}]
       \/ /\ b \in deployment.tracked
          /\ deployment' = [deployment EXCEPT !.version = @ + 1, !.current = b]
  /\ others' = others + 1
  /\ UNCHANGED schedule
  /\ Untouched

\* The command was answered.
Done == result # "none" /\ UNCHANGED vars

Own ==
  \/ Check \/ CallCodec \/ CodecAnswers \/ Verify \/ Inspect \/ Await \/ Finish
  \/ Refused \/ Describe \/ Read \/ DescriptionArrives \/ Join \/ Page \/ Write \/ Poll

Next == Own \/ OthersEdit \/ OthersDeploy \/ Done

\* A task runs on; an RPC is answered or fails with its connection, a POST
\* within ten seconds; and the server, which is asked to wait until the
\* update has completed, says so in the end.
Fairness == WF_vars(Own) /\ SF_vars(PollWith(Polled \ {"none"}))

Spec == Init /\ [][Next]_vars /\ Fairness

-----------------------------------------------------------------------------
(* Properties *)

\* Arguments go out as the codec gave them back: no change and no query carries
\* arguments the codec was not asked about, or only a part of them, or in
\* another order.
SentWhole == [][Write \/ Read => Whole]_vars

\* What is handed to the dashboard is complete: every message is decoded as a
\* whole, however it was cut into chunks, and a list that is read in a loop has
\* all its pages.
AnswersAreWhole ==
  /\ WholeWhenDone
  /\ result = "ok" =>
       Whole /\ ("page" \in Range(Steps(op)) => pages = request.pages)

\* Traffic is routed to builds of the deployment only, although a build may
\* be dropped by others after it was looked up.
RoutesToTracked ==
  {deployment.current, deployment.ramping} \subseteq deployment.tracked \cup {NoBuild}

\* Editing a schedule never pauses or resumes it, and without a new expression
\* leaves its calendars, jitter and limits as they are, whatever others do
\* between the read and the write.  Not so its time zone and its notes, which
\* every edit overwrites with those of the form (UntouchedFieldsSurvive).
EditsKeepTheRest ==
  [][EditsSchedule /\ changes' # changes =>
       /\ schedule'.paused = schedule.paused
       /\ request.expression \/ (schedule'.timing = schedule.timing
                                  /\ schedule'.extras = schedule.extras)]_vars

\* README.md:80-81, schedule updates "preserve fields the form does not change".
\* Not so: a new expression replaces the whole spec, its jitter, limits and
\* calendars included, and a field the user left alone is sent as it was when
\* the form opened, so that what others wrote since is lost.
UntouchedFieldsSurvive ==
  [][EditsSchedule /\ changes' # changes =>
       /\ schedule'.extras = schedule.extras
       /\ request.notes = "old" => schedule'.notes = schedule.notes
       /\ request.timezone = "UTC" =>
            ShownTimezone(schedule'.timezone) = ShownTimezone(schedule.timezone)]_vars

Call == INSTANCE OneCall WITH writes <- op \in DOMAIN Writers,
                              goesOn <- op = "update_workflow"

\* A command is one call: at most one change, success only of a change that
\* was made, an error behind a change only when the answer to it was lost or
\* the command is update_workflow, whose answer may be undecodable or without
\* an outcome; and always an answer.
ImplementsOneCall == Call!Spec
=============================================================================
