------------------------- MODULE ServiceCallsProofs -------------------------
(***************************************************************************)
(* Safety of ServiceCalls for any operations, limits of the codec, sizes   *)
(* and numbers of payloads, pages and other clients.                       *)
(***************************************************************************)
EXTENDS ServiceCalls, SequenceTheorems, SumTheorems, TLAPS

Has(t, step) == \E i \in 1..Len(t) : t[i] = step

OneWrite(t) ==
  \E i \in 1..Len(t) : t[i] = "write" /\ \A j \in 1..Len(t) : t[j] = "write" => j = i

EndsInWrite(t) == t # <<>> /\ t[Len(t)] = "write"

\* A call of the codec comes before the next RPC that sends or reads.
Ahead(t) ==
  \E i \in 1..Len(t) : /\ t[i] \in {"encode", "decode"}
                       /\ \A j \in 1..(i - 1) : t[j] \notin {"write", "read"}

-----------------------------------------------------------------------------
(* The operations                                                           *)

WriterNames ==
  {"pause_workflow", "unpause_workflow", "reset_workflow", "cancel_workflow",
   "terminate_workflow", "signal_workflow", "update_workflow", "start_batch_operation",
   "start_bare_batch", "stop_batch_operation", "create_schedule", "update_schedule",
   "pause_schedule", "unpause_schedule", "trigger_schedule", "backfill_schedule",
   "delete_schedule", "set_current", "set_ramping", "add_search_attribute",
   "remove_search_attribute"}

ReaderNames ==
  {"query_workflow", "describe_workflow", "load_history_page", "count_workflows",
   "describe_schedule", "describe_worker", "describe_worker_deployment",
   "describe_batch_operation", "list_workflows", "list_workers",
   "list_worker_deployments", "list_schedules", "list_batch_operations",
   "list_search_attributes", "list_namespaces", "list_workflow_chain", "list_task_queues"}

LEMMA Names == DOMAIN Writers = WriterNames /\ DOMAIN Readers = ReaderNames
  BY DEF Writers, Readers, WriterNames, ReaderNames

LEMMA ShortSequences ==
  /\ \A a : LET t == <<a>> IN
       Len(t) = 1 /\ t[1] = a /\ t # <<>> /\ 1..Len(t) = {1}
  /\ \A a, b : LET t == <<a, b>> IN
       Len(t) = 2 /\ t[1] = a /\ t[2] = b /\ t # <<>> /\ 1..Len(t) = {1, 2}
  /\ \A a, b, c : LET t == <<a, b, c>> IN
       Len(t) = 3 /\ t[1] = a /\ t[2] = b /\ t[3] = c /\ t # <<>> /\ 1..Len(t) = {1, 2, 3}
  /\ \A a, b, c, d : LET t == <<a, b, c, d>> IN
       /\ Len(t) = 4 /\ t[1] = a /\ t[2] = b /\ t[3] = c /\ t[4] = d
       /\ t # <<>> /\ 1..Len(t) = {1, 2, 3, 4}
  /\ \A a, b, c, d, e : LET t == <<a, b, c, d, e>> IN
       /\ Len(t) = 5 /\ t[1] = a /\ t[2] = b /\ t[3] = c /\ t[4] = d /\ t[5] = e
       /\ t # <<>> /\ 1..Len(t) = {1, 2, 3, 4, 5}
  OBVIOUS

LEMMA JustWrite ==
  ASSUME NEW t, t = <<"write">>
  PROVE  /\ t \in Seq(StepNames) /\ OneWrite(t) /\ ~ Has(t, "page")
         /\ EndsInWrite(t)
         /\ Has(t, "encode") => Ahead(t)
<1>1. t \in Seq(StepNames)
  BY DEF StepNames
<1>2. /\ Len(t) = 1 /\ t[1] = "write"
      /\ t # <<>> /\ 1..Len(t) = {1}
  BY ShortSequences
<1>3. OneWrite(t) /\ ~ Has(t, "page") /\ EndsInWrite(t)
  BY <1>2 DEF OneWrite, Has, EndsInWrite
<1>4. ~ Has(t, "encode")
  BY <1>2 DEF Has
<1> QED BY <1>1, <1>3, <1>4

LEMMA CheckWrite ==
  ASSUME NEW t, t = <<"check", "write">>
  PROVE  /\ t \in Seq(StepNames) /\ OneWrite(t) /\ ~ Has(t, "page")
         /\ EndsInWrite(t)
         /\ Has(t, "encode") => Ahead(t)
<1>1. t \in Seq(StepNames)
  BY DEF StepNames
<1>2. /\ Len(t) = 2 /\ t[1] = "check" /\ t[2] = "write"
      /\ t # <<>> /\ 1..Len(t) = {1, 2}
  BY ShortSequences
<1>3. OneWrite(t) /\ ~ Has(t, "page") /\ EndsInWrite(t)
  BY <1>2 DEF OneWrite, Has, EndsInWrite
<1>4. ~ Has(t, "encode")
  BY <1>2 DEF Has
<1> QED BY <1>1, <1>3, <1>4

LEMMA EncodeWrite ==
  ASSUME NEW t, t = <<"encode", "write">>
  PROVE  /\ t \in Seq(StepNames) /\ OneWrite(t) /\ ~ Has(t, "page")
         /\ EndsInWrite(t)
         /\ Has(t, "encode") => Ahead(t)
<1>1. t \in Seq(StepNames)
  BY DEF StepNames
<1>2. /\ Len(t) = 2 /\ t[1] = "encode" /\ t[2] = "write"
      /\ t # <<>> /\ 1..Len(t) = {1, 2}
  BY ShortSequences
<1>3. OneWrite(t) /\ ~ Has(t, "page") /\ EndsInWrite(t)
  BY <1>2 DEF OneWrite, Has, EndsInWrite
<1>4. Ahead(t)
  <2>1. 1 \in 1..Len(t) /\ 1..(1 - 1) = {}
    BY <1>2
  <2> QED BY <2>1, <1>2 DEF Ahead
<1> QED BY <1>1, <1>3, <1>4

LEMMA CheckEncodeWrite ==
  ASSUME NEW t, t = <<"check", "encode", "write">>
  PROVE  /\ t \in Seq(StepNames) /\ OneWrite(t) /\ ~ Has(t, "page")
         /\ EndsInWrite(t)
         /\ Has(t, "encode") => Ahead(t)
<1>1. t \in Seq(StepNames)
  BY DEF StepNames
<1>2. /\ Len(t) = 3 /\ t[1] = "check" /\ t[2] = "encode" /\ t[3] = "write"
      /\ t # <<>> /\ 1..Len(t) = {1, 2, 3}
  BY ShortSequences
<1>3. OneWrite(t) /\ ~ Has(t, "page") /\ EndsInWrite(t)
  BY <1>2 DEF OneWrite, Has, EndsInWrite
<1>4. Ahead(t)
  <2>1. 2 \in 1..Len(t) /\ 1..(2 - 1) = {1}
    BY <1>2
  <2> QED BY <2>1, <1>2 DEF Ahead
<1> QED BY <1>1, <1>3, <1>4

LEMMA ReadModifyWrite ==
  ASSUME NEW t, t = <<"describe", "verify", "write">>
  PROVE  /\ t \in Seq(StepNames) /\ OneWrite(t) /\ ~ Has(t, "page")
         /\ EndsInWrite(t)
         /\ Has(t, "encode") => Ahead(t)
<1>1. t \in Seq(StepNames)
  BY DEF StepNames
<1>2. /\ Len(t) = 3 /\ t[1] = "describe" /\ t[2] = "verify" /\ t[3] = "write"
      /\ t # <<>> /\ 1..Len(t) = {1, 2, 3}
  BY ShortSequences
<1>3. OneWrite(t) /\ ~ Has(t, "page") /\ EndsInWrite(t)
  BY <1>2 DEF OneWrite, Has, EndsInWrite
<1>4. ~ Has(t, "encode")
  BY <1>2 DEF Has
<1> QED BY <1>1, <1>3, <1>4

LEMMA CheckReadModifyWrite ==
  ASSUME NEW t, t = <<"check", "describe", "verify", "write">>
  PROVE  /\ t \in Seq(StepNames) /\ OneWrite(t) /\ ~ Has(t, "page")
         /\ EndsInWrite(t)
         /\ Has(t, "encode") => Ahead(t)
<1>1. t \in Seq(StepNames)
  BY DEF StepNames
<1>2. /\ Len(t) = 4 /\ t[1] = "check" /\ t[2] = "describe" /\ t[3] = "verify" /\ t[4] = "write"
      /\ t # <<>> /\ 1..Len(t) = {1, 2, 3, 4}
  BY ShortSequences
<1>3. OneWrite(t) /\ ~ Has(t, "page") /\ EndsInWrite(t)
  BY <1>2 DEF OneWrite, Has, EndsInWrite
<1>4. ~ Has(t, "encode")
  BY <1>2 DEF Has
<1> QED BY <1>1, <1>3, <1>4

LEMMA EncodeWriteDecode ==
  ASSUME NEW t, t = <<"encode", "write", "decode", "await", "inspect">>
  PROVE  /\ t \in Seq(StepNames) /\ OneWrite(t) /\ ~ Has(t, "page")
         /\ Has(t, "encode") => Ahead(t)
<1>1. t \in Seq(StepNames)
  BY DEF StepNames
<1>2. /\ Len(t) = 5 /\ t[1] = "encode" /\ t[2] = "write" /\ t[3] = "decode" /\ t[4] = "await" /\ t[5] = "inspect"
      /\ t # <<>> /\ 1..Len(t) = {1, 2, 3, 4, 5}
  BY ShortSequences
<1>3. OneWrite(t) /\ ~ Has(t, "page")
  BY <1>2 DEF OneWrite, Has
<1>4. Ahead(t)
  <2>1. 1 \in 1..Len(t) /\ 1..(1 - 1) = {}
    BY <1>2
  <2> QED BY <2>1, <1>2 DEF Ahead
<1> QED BY <1>1, <1>3, <1>4

LEMMA WriterSteps ==
  ASSUME NEW o \in WriterNames
  PROVE  /\ Writers[o] \in Seq(StepNames) /\ OneWrite(Writers[o]) /\ ~ Has(Writers[o], "page")
         /\ o # "update_workflow" => EndsInWrite(Writers[o])
         /\ Has(Writers[o], "encode") => Ahead(Writers[o])
<1>1. \/ Writers[o] = <<"write">>
      \/ Writers[o] = <<"check", "write">>
      \/ Writers[o] = <<"encode", "write">>
      \/ Writers[o] = <<"check", "encode", "write">>
      \/ Writers[o] = <<"describe", "verify", "write">>
      \/ Writers[o] = <<"check", "describe", "verify", "write">>
      \/ o = "update_workflow"
         /\ Writers[o] = <<"encode", "write", "decode", "await", "inspect">>
  BY DEF WriterNames, Writers, PauseWorkflow, UnpauseWorkflow, ResetWorkflow, CancelWorkflow,
         TerminateWorkflow, StopBatch, PauseSchedule, UnpauseSchedule, TriggerSchedule,
         DeleteSchedule, RemoveAttribute, AddAttribute, BackfillSchedule, SignalWorkflow,
         CreateSchedule, StartBatch, StartBareBatch, UpdateWorkflow, UpdateSchedule,
         SetCurrent, SetRamping
<1> QED BY <1>1, JustWrite, CheckWrite, EncodeWrite, CheckEncodeWrite, ReadModifyWrite,
           CheckReadModifyWrite, EncodeWriteDecode

LEMMA JustRead ==
  ASSUME NEW t, t = <<"read">>
  PROVE  /\ t \in Seq(StepNames) /\ ~ Has(t, "write") /\ ~ Has(t, "page")
         /\ (Has(t, "encode") => Ahead(t))
<1>1. t \in Seq(StepNames)
  BY DEF StepNames
<1>2. /\ Len(t) = 1 /\ t[1] = "read"
      /\ 1..Len(t) = {1}
  BY ShortSequences
<1>3. ~ Has(t, "write") /\ ~ Has(t, "page")
  BY <1>2 DEF Has
<1>4. ~ Has(t, "encode")
  BY <1>2 DEF Has
<1> QED BY <1>1, <1>3, <1>4

LEMMA JustPage ==
  ASSUME NEW t, t = <<"page">>
  PROVE  /\ t \in Seq(StepNames) /\ ~ Has(t, "write")
         /\ (Has(t, "encode") => Ahead(t))
<1>1. t \in Seq(StepNames)
  BY DEF StepNames
<1>2. /\ Len(t) = 1 /\ t[1] = "page"
      /\ 1..Len(t) = {1}
  BY ShortSequences
<1>3. ~ Has(t, "write")
  BY <1>2 DEF Has
<1>4. ~ Has(t, "encode")
  BY <1>2 DEF Has
<1> QED BY <1>1, <1>3, <1>4

LEMMA ReadInspect ==
  ASSUME NEW t, t = <<"read", "inspect">>
  PROVE  /\ t \in Seq(StepNames) /\ ~ Has(t, "write") /\ ~ Has(t, "page")
         /\ (Has(t, "encode") => Ahead(t))
<1>1. t \in Seq(StepNames)
  BY DEF StepNames
<1>2. /\ Len(t) = 2 /\ t[1] = "read" /\ t[2] = "inspect"
      /\ 1..Len(t) = {1, 2}
  BY ShortSequences
<1>3. ~ Has(t, "write") /\ ~ Has(t, "page")
  BY <1>2 DEF Has
<1>4. ~ Has(t, "encode")
  BY <1>2 DEF Has
<1> QED BY <1>1, <1>3, <1>4

LEMMA ReadDecode ==
  ASSUME NEW t, t = <<"read", "decode">>
  PROVE  /\ t \in Seq(StepNames) /\ ~ Has(t, "write") /\ ~ Has(t, "page")
         /\ (Has(t, "encode") => Ahead(t))
<1>1. t \in Seq(StepNames)
  BY DEF StepNames
<1>2. /\ Len(t) = 2 /\ t[1] = "read" /\ t[2] = "decode"
      /\ 1..Len(t) = {1, 2}
  BY ShortSequences
<1>3. ~ Has(t, "write") /\ ~ Has(t, "page")
  BY <1>2 DEF Has
<1>4. ~ Has(t, "encode")
  BY <1>2 DEF Has
<1> QED BY <1>1, <1>3, <1>4

LEMMA ReadDecodeInspect ==
  ASSUME NEW t, t = <<"read", "decode", "inspect">>
  PROVE  /\ t \in Seq(StepNames) /\ ~ Has(t, "write") /\ ~ Has(t, "page")
         /\ (Has(t, "encode") => Ahead(t))
<1>1. t \in Seq(StepNames)
  BY DEF StepNames
<1>2. /\ Len(t) = 3 /\ t[1] = "read" /\ t[2] = "decode" /\ t[3] = "inspect"
      /\ 1..Len(t) = {1, 2, 3}
  BY ShortSequences
<1>3. ~ Has(t, "write") /\ ~ Has(t, "page")
  BY <1>2 DEF Has
<1>4. ~ Has(t, "encode")
  BY <1>2 DEF Has
<1> QED BY <1>1, <1>3, <1>4

LEMMA ReadAndJoin ==
  ASSUME NEW t, t = <<"read", "decode", "join", "decode", "inspect">>
  PROVE  /\ t \in Seq(StepNames) /\ ~ Has(t, "write") /\ ~ Has(t, "page")
         /\ (Has(t, "encode") => Ahead(t))
<1>1. t \in Seq(StepNames)
  BY DEF StepNames
<1>2. /\ Len(t) = 5 /\ t[1] = "read" /\ t[2] = "decode" /\ t[3] = "join" /\ t[4] = "decode" /\ t[5] = "inspect"
      /\ 1..Len(t) = {1, 2, 3, 4, 5}
  BY ShortSequences
<1>3. ~ Has(t, "write") /\ ~ Has(t, "page")
  BY <1>2 DEF Has
<1>4. ~ Has(t, "encode")
  BY <1>2 DEF Has
<1> QED BY <1>1, <1>3, <1>4

LEMMA EncodeRead ==
  ASSUME NEW t, t = <<"encode", "read", "decode", "inspect">>
  PROVE  /\ t \in Seq(StepNames) /\ ~ Has(t, "write") /\ ~ Has(t, "page")
         /\ (Has(t, "encode") => Ahead(t))
<1>1. t \in Seq(StepNames)
  BY DEF StepNames
<1>2. /\ Len(t) = 4 /\ t[1] = "encode" /\ t[2] = "read" /\ t[3] = "decode" /\ t[4] = "inspect"
      /\ 1..Len(t) = {1, 2, 3, 4}
  BY ShortSequences
<1>3. ~ Has(t, "write") /\ ~ Has(t, "page")
  BY <1>2 DEF Has
<1>4. Ahead(t)
  <2>1. 1 \in 1..Len(t) /\ 1..(1 - 1) = {}
    BY <1>2
  <2> QED BY <2>1, <1>2 DEF Ahead
<1> QED BY <1>1, <1>3, <1>4

LEMMA ReaderSteps ==
  ASSUME NEW o \in ReaderNames
  PROVE  /\ Readers[o] \in Seq(StepNames) /\ ~ Has(Readers[o], "write")
         /\ Has(Readers[o], "page") => Readers[o] = <<"page">>
         /\ Has(Readers[o], "encode") => Ahead(Readers[o])
<1>1. \/ Readers[o] = <<"read">>
      \/ Readers[o] = <<"page">>
      \/ Readers[o] = <<"read", "inspect">>
      \/ Readers[o] = <<"read", "decode">>
      \/ Readers[o] = <<"read", "decode", "inspect">>
      \/ Readers[o] = <<"read", "decode", "join", "decode", "inspect">>
      \/ Readers[o] = <<"encode", "read", "decode", "inspect">>
  BY DEF ReaderNames, Readers, QueryWorkflow, DescribeWorkflow, RecentHistory, CountWorkflows,
         DescribeSchedule, DescribeDeployment, DescribeWorker, DescribeBatch, ListWorkflows,
         ListWorkers, ListDeployments, ListSchedules, ListBatches, ListAttributes,
         ListNamespaces, ListChain, ListTaskQueues
<1> QED BY <1>1, JustRead, JustPage, ReadInspect, ReadDecode, ReadDecodeInspect, ReadAndJoin,
           EncodeRead

\* What the steps of every operation have in common.
LEMMA StepsFacts ==
  ASSUME NEW o \in AllOperations
  PROVE  /\ Steps(o) \in Seq(StepNames)
         /\ o \in DOMAIN Writers => OneWrite(Steps(o))
         /\ o \in DOMAIN Writers /\ o # "update_workflow" => EndsInWrite(Steps(o))
         /\ o \notin DOMAIN Writers => ~ Has(Steps(o), "write")
         /\ Has(Steps(o), "page") => Steps(o) = <<"page">>
         /\ Has(Steps(o), "encode") => Ahead(Steps(o))
  BY Names, WriterSteps, ReaderSteps DEF AllOperations, Steps

LEMMA RangeIsHas ==
  ASSUME NEW t \in Seq(StepNames), NEW step
  PROVE  step \in Range(t) <=> Has(t, step)
<1>1. DOMAIN t = 1..Len(t)
  OBVIOUS
<1> QED BY <1>1 DEF Range, Has

-----------------------------------------------------------------------------
(* Sequences of steps                                                       *)

LEMMA TailFacts ==
  ASSUME NEW t \in Seq(StepNames), t # <<>>
  PROVE  /\ Tail(t) \in Seq(StepNames) /\ Len(t) \in Nat \ {0}
         /\ Len(Tail(t)) = Len(t) - 1
         /\ \A i \in 1..(Len(t) - 1) : Tail(t)[i] = t[i + 1]
         /\ Head(t) = t[1]
         /\ Len(t) = 1 => Tail(t) = <<>>
<1>1. Len(t) \in Nat \ {0}
  BY EmptySeq
<1>2. /\ Tail(t) \in Seq(StepNames) /\ Len(Tail(t)) = Len(t) - 1
      /\ \A i \in 1..Len(Tail(t)) : Tail(t)[i] = t[i + 1]
  BY HeadTailProperties
<1>3. Head(t) = t[1]
  OBVIOUS
<1>4. Len(t) = 1 => Tail(t) = <<>>
  <2>1. \A u \in Seq(StepNames) : u # <<>> => Len(u) \in Nat \ {0}
    BY EmptySeq
  <2>2. ASSUME NEW u, u = Tail(t), Len(t) = 1 PROVE u = <<>>
    <3>1. u \in Seq(StepNames) /\ Len(u) = 0
      BY <1>2, <2>2
    <3> QED BY <2>1, <3>1
  <2> QED BY <2>2
<1> QED BY <1>1, <1>2, <1>3, <1>4

LEMMA TailHas ==
  ASSUME NEW t \in Seq(StepNames), t # <<>>, NEW step, Has(Tail(t), step)
  PROVE  Has(t, step)
<1>1. PICK i \in 1..Len(Tail(t)) : Tail(t)[i] = step
  BY DEF Has
<1>2. i + 1 \in 1..Len(t) /\ t[i + 1] = step
  BY <1>1, TailFacts
<1> QED BY <1>2 DEF Has

LEMMA TailOneWrite ==
  ASSUME NEW t \in Seq(StepNames), t # <<>>, OneWrite(t)
  PROVE  IF Head(t) = "write" THEN ~ Has(Tail(t), "write") ELSE OneWrite(Tail(t))
<1>1. PICK i \in 1..Len(t) : t[i] = "write" /\ \A j \in 1..Len(t) : t[j] = "write" => j = i
  BY DEF OneWrite
<1>2. CASE Head(t) = "write"
  <2>1. i = 1
    BY <1>1, <1>2, TailFacts
  <2>2. ASSUME NEW k \in 1..Len(Tail(t)), Tail(t)[k] = "write" PROVE FALSE
    <3>1. k + 1 \in 1..Len(t) /\ t[k + 1] = "write"
      BY <2>2, TailFacts
    <3> QED BY <3>1, <2>1, <1>1
  <2> QED BY <1>2, <2>2 DEF Has
<1>3. CASE Head(t) # "write"
  <2>1. i # 1 /\ i - 1 \in 1..Len(Tail(t)) /\ Tail(t)[i - 1] = "write"
    BY <1>1, <1>3, TailFacts
  <2>2. ASSUME NEW k \in 1..Len(Tail(t)), Tail(t)[k] = "write" PROVE k = i - 1
    <3>1. k + 1 \in 1..Len(t) /\ t[k + 1] = "write"
      BY <2>2, TailFacts
    <3> QED BY <3>1, <1>1
  <2> QED BY <1>3, <2>1, <2>2 DEF OneWrite
<1> QED BY <1>2, <1>3

LEMMA TailEndsInWrite ==
  ASSUME NEW t \in Seq(StepNames), EndsInWrite(t), OneWrite(t)
  PROVE  IF Head(t) = "write" THEN Tail(t) = <<>> ELSE EndsInWrite(Tail(t))
<1>1. t # <<>> /\ t[Len(t)] = "write" /\ Len(t) \in 1..Len(t)
  BY TailFacts DEF EndsInWrite
<1>2. CASE Head(t) = "write"
  <2>1. PICK i \in 1..Len(t) : \A j \in 1..Len(t) : t[j] = "write" => j = i
    BY DEF OneWrite
  <2>2. t[1] = "write" /\ 1 \in 1..Len(t) /\ Len(t) \in Nat
    BY <1>1, <1>2, TailFacts
  <2>3. Len(t) = 1
    BY <1>1, <2>1, <2>2
  <2> QED BY <1>1, <1>2, <2>3, TailFacts
<1>3. CASE Head(t) # "write"
  <2>1. Len(t) > 1
    BY <1>1, <1>3, TailFacts
  <2>2. Len(Tail(t)) = Len(t) - 1 /\ Tail(t)[Len(t) - 1] = "write" /\ Tail(t) # <<>>
    BY <1>1, <2>1, TailFacts, EmptySeq
  <2> QED BY <1>3, <2>2 DEF EndsInWrite
<1> QED BY <1>2, <1>3

LEMMA TailAhead ==
  ASSUME NEW t \in Seq(StepNames), t # <<>>, Ahead(t), Head(t) \notin {"encode", "decode"}
  PROVE  Ahead(Tail(t))
<1>1. PICK i \in 1..Len(t) : /\ t[i] \in {"encode", "decode"}
                             /\ \A j \in 1..(i - 1) : t[j] \notin {"write", "read"}
  BY DEF Ahead
<1>2. i # 1 /\ i - 1 \in 1..Len(Tail(t)) /\ Tail(t)[i - 1] = t[i]
  BY <1>1, TailFacts
<1>3. ASSUME NEW j \in 1..(i - 1 - 1) PROVE Tail(t)[j] \notin {"write", "read"}
  BY <1>1, <1>2, TailFacts
<1> QED BY <1>1, <1>2, <1>3 DEF Ahead

LEMMA AheadHead ==
  ASSUME NEW t \in Seq(StepNames), t # <<>>, Ahead(t)
  PROVE  Head(t) \notin {"write", "read"}
<1>1. PICK i \in 1..Len(t) : /\ t[i] \in {"encode", "decode"}
                             /\ \A j \in 1..(i - 1) : t[j] \notin {"write", "read"}
  BY DEF Ahead
<1>2. Head(t) = t[1] /\ Len(t) \in Nat
  BY TailFacts
<1>3. i = 1 \/ 1 \in 1..(i - 1)
  BY <1>2
<1> QED BY <1>1, <1>2, <1>3

LEMMA DecodeIsAhead ==
  ASSUME NEW t \in Seq(StepNames), Len(t) > 0, t[1] = "decode"
  PROVE  Ahead(t)
<1>1. 1 \in 1..Len(t) /\ 1..(1 - 1) = {}
  OBVIOUS
<1> QED BY <1>1 DEF Ahead

\* Polling comes before what is left.
LEMMA PollFacts ==
  ASSUME NEW t \in Seq(StepNames), NEW p, p = <<"poll", "decode">> \o t
  PROVE  /\ p \in Seq(StepNames)
         /\ Ahead(p)
         /\ \A step : step \notin {"poll", "decode"} /\ Has(p, step) => Has(t, step)
         /\ OneWrite(t) => OneWrite(p)
         /\ EndsInWrite(t) => EndsInWrite(p)
<1>1. <<"poll", "decode">> \in Seq(StepNames)
  BY DEF StepNames
<1>2. /\ p \in Seq(StepNames) /\ Len(p) = Len(t) + 2 /\ Len(t) \in Nat
      /\ p[1] = "poll" /\ p[2] = "decode"
      /\ \A i \in 1..Len(t) : p[i + 2] = t[i]
      /\ \A i \in 1..Len(p) : i > 2 => i - 2 \in 1..Len(t) /\ p[i] = t[i - 2]
  BY <1>1, ConcatProperties, ShortSequences
<1>3. Ahead(p)
  <2>1. 2 \in 1..Len(p) /\ 1..(2 - 1) = {1}
    BY <1>2
  <2> QED BY <1>2, <2>1 DEF Ahead
<1>4. ASSUME NEW step, step \notin {"poll", "decode"}, Has(p, step)
      PROVE  Has(t, step)
  <2>1. PICK i \in 1..Len(p) : p[i] = step
    BY <1>4 DEF Has
  <2>2. i > 2
    BY <2>1, <1>2, <1>4
  <2> QED BY <1>2, <2>1, <2>2 DEF Has
<1>5. ASSUME OneWrite(t) PROVE OneWrite(p)
  <2>1. PICK i \in 1..Len(t) : t[i] = "write" /\ \A j \in 1..Len(t) : t[j] = "write" => j = i
    BY <1>5 DEF OneWrite
  <2>2. i + 2 \in 1..Len(p) /\ p[i + 2] = "write"
    BY <1>2, <2>1
  <2>3. ASSUME NEW j \in 1..Len(p), p[j] = "write" PROVE j = i + 2
    <3>1. j > 2
      BY <1>2, <2>3
    <3> QED BY <3>1, <1>2, <2>1, <2>3
  <2> QED BY <2>2, <2>3 DEF OneWrite
<1>6. ASSUME EndsInWrite(t) PROVE EndsInWrite(p)
  <2>1. Len(t) \in 1..Len(t) /\ t[Len(t)] = "write"
    BY <1>2, <1>6, TailFacts DEF EndsInWrite
  <2> QED BY <1>2, <2>1, EmptySeq DEF EndsInWrite
<1> QED BY <1>2, <1>3, <1>4, <1>5, <1>6

-----------------------------------------------------------------------------
(* The invariant                                                            *)

\* The chunk takes up where the answers end, and neither skips a payload.
InOrder ==
  /\ \A i \in 1..Len(transformed) : transformed[i] = i
  /\ \A i \in 1..Len(chunk) : chunk[i] = Len(transformed) + i
  /\ at = Len(transformed) + Len(chunk) + 1
  /\ at <= Len(message) + 1
  /\ phase = "done" /\ configured => Len(transformed) = Len(message)

\* How often a payload can have been sent.
Sendings ==
  \A place \in 1..Len(message) :
    /\ sends[place] <= 2
    /\ place > Len(transformed) + Len(chunk) => sends[place] = 0
    /\ place > Len(transformed) /\ phase \in {"off", "loop"} => sends[place] = 0
    /\ place > Len(transformed) /\ phase = "post" => sends[place] <= attempt + 1

Pending == {chunk[i] : i \in DOMAIN chunk}

\* The counter of a chunk is the size of what is in it.
Fits ==
  /\ chunkBytes = SumFunctionOnSet(message, Pending)
  /\ chunkBytes <= MaxBytes /\ Len(chunk) <= MaxPayloads
  /\ phase = "post" => chunk # <<>>

\* A message that is not whole yet meets the codec before it is used.
Settled == Whole \/ Ahead(todo)

\* What was changed and what is left to do.
Counted ==
  /\ IF op \in DOMAIN Writers
       THEN \/ /\ changes = 0 /\ OneWrite(todo)
               /\ op # "update_workflow" => EndsInWrite(todo)
            \/ /\ changes = 1
               /\ result = "none" => /\ ~ Has(todo, "write")
                                     /\ op # "update_workflow" => todo = <<>>
       ELSE changes = 0 /\ ~ Has(todo, "write")
  /\ result = "ok" => todo = <<>>

\* The pages that were read and those that are left.
PagesLeft ==
  IF Has(Steps(op), "page")
    THEN \/ todo = <<"page">> /\ pages < request.pages
         \/ todo = <<>> /\ pages = request.pages
    ELSE ~ Has(todo, "page")

\* What was read is what is there, unless it has an older version.
BaseFits(object) ==
  base.version <= object.version /\ (base.version = object.version => base = object)

ScheduleEdit ==
  EditsSchedule =>
    /\ todo \in {<<"describe", "verify", "write">>, <<"verify", "write">>, <<"write">>, <<>>}
    /\ todo \in {<<"verify", "write">>, <<"write">>} => base \in Schedule /\ BaseFits(schedule)

RoutingEdit ==
  EditsRouting =>
    /\ todo \in {<<"check", "describe", "verify", "write">>,
                 <<"describe", "verify", "write">>, <<"verify", "write">>, <<"write">>, <<>>}
    /\ todo \in {<<"verify", "write">>, <<"write">>} =>
         base \in Deployment /\ BaseFits(deployment)
    /\ todo = <<"write">> => request.build \in base.tracked \cup {NoBuild}

Inv ==
  /\ TypeOK
  /\ InOrder /\ Sendings /\ Fits /\ Settled
  /\ Counted /\ PagesLeft
  /\ ScheduleEdit /\ RoutingEdit /\ RoutesToTracked

-----------------------------------------------------------------------------
(* Messages and the codec                                                   *)

LEMMA MessagesAreSequences == Messages \subseteq Seq(Nat)
<1>1. ASSUME NEW m \in Messages PROVE m \in Seq(Nat)
  <2>1. PICK n \in 0..MaxLength : m \in [1..n -> Sizes]
    BY DEF Messages, BoundedSeq, SeqOf
  <2>2. n \in Nat
    BY BoundsAssumption
  <2>3. \A i \in 1..n : m[i] \in Nat
    BY <2>1, SizesAssumption
  <2> QED BY <2>1, <2>2, <2>3
<1> QED BY <1>1

LEMMA NothingIsWhole == message = <<>> /\ transformed = <<>> => Whole
<1>1. DOMAIN <<>> = {}
  OBVIOUS
<1>2. [place \in {} |-> place] = <<>>
  OBVIOUS
<1> QED BY <1>1, <1>2 DEF Whole

LEMMA DoneIsWhole == CodecTypeOK /\ InOrder /\ phase = "done" => Whole
<1> SUFFICES ASSUME CodecTypeOK, InOrder, phase = "done", configured
             PROVE  transformed = [place \in DOMAIN message |-> place]
  BY DEF Whole
<1>1. /\ DOMAIN transformed = 1..Len(transformed) /\ DOMAIN message = 1..Len(message)
      /\ Len(transformed) = Len(message)
      /\ transformed = [i \in 1..Len(transformed) |-> transformed[i]]
  BY DEF CodecTypeOK, InOrder
<1>2. \A i \in 1..Len(transformed) : transformed[i] = i
  BY DEF InOrder
<1> QED BY <1>1, <1>2

LEMMA NothingFits ==
  ASSUME NEW m
  PROVE  LET none == <<>> IN
         /\ SumFunctionOnSet(m, {none[i] : i \in DOMAIN none}) = 0
         /\ 0 <= MaxBytes /\ Len(none) <= MaxPayloads
<1>1. DOMAIN <<>> = {} /\ Len(<<>>) = 0
  OBVIOUS
<1> DEFINE none == <<>>
<1>2. {none[i] : i \in DOMAIN none} = {}
  BY <1>1
<1>3. MaxBytes \in Nat /\ MaxPayloads \in Nat
  BY LimitsAssumption
<1> QED BY <1>1, <1>2, <1>3, SumOfNothing

\* A codec at rest.
LEMMA RestFacts ==
  ASSUME NEW m \in Seq(Nat), CodecRests(m), configured \in BOOLEAN
  PROVE  CodecTypeOK /\ InOrder /\ Sendings /\ Fits
<1>1. <<>> \in Seq(Nat) /\ Len(<<>>) = 0 /\ DOMAIN m = 1..Len(m) /\ Len(m) \in Nat
  OBVIOUS
<1>2. Unsent(m) \in [DOMAIN m -> Nat] /\ \A place \in 1..Len(m) : Unsent(m)[place] = 0
  BY <1>1 DEF Unsent
<1>3. CodecTypeOK
  BY <1>1, <1>2 DEF CodecTypeOK, CodecRests, Phases
<1>4. InOrder
  BY <1>1 DEF InOrder, CodecRests
<1>5. Sendings
  BY <1>1, <1>2 DEF Sendings, CodecRests
<1>6. Fits
  BY NothingFits DEF Fits, Pending, CodecRests
<1> QED BY <1>3, <1>4, <1>5, <1>6

LEMMA RestNextFacts ==
  ASSUME NEW m \in Seq(Nat), CodecRestsNext(m), configured \in BOOLEAN, UNCHANGED configured
  PROVE  CodecTypeOK' /\ InOrder' /\ Sendings' /\ Fits'
<1>1. <<>> \in Seq(Nat) /\ Len(<<>>) = 0 /\ DOMAIN m = 1..Len(m) /\ Len(m) \in Nat
  OBVIOUS
<1>2. Unsent(m) \in [DOMAIN m -> Nat] /\ \A place \in 1..Len(m) : Unsent(m)[place] = 0
  BY <1>1 DEF Unsent
<1>3. CodecTypeOK'
  BY <1>1, <1>2 DEF CodecTypeOK, CodecRestsNext, Phases
<1>4. InOrder'
  BY <1>1 DEF InOrder, CodecRestsNext
<1>5. Sendings'
  BY <1>1, <1>2 DEF Sendings, CodecRestsNext
<1>6. Fits'
  BY NothingFits DEF Fits, Pending, CodecRestsNext
<1> QED BY <1>3, <1>4, <1>5, <1>6

LEMMA PostedFacts ==
  ASSUME CodecTypeOK, InOrder
  PROVE  /\ Posted \in [DOMAIN message -> Nat]
         /\ \A place \in 1..Len(message) :
              /\ place <= Len(transformed) => Posted[place] = sends[place]
              /\ place > Len(transformed) + Len(chunk) => Posted[place] = sends[place]
              /\ Posted[place] <= sends[place] + 1
<1>1. /\ sends \in [DOMAIN message -> Nat] /\ DOMAIN message = 1..Len(message)
      /\ DOMAIN chunk = 1..Len(chunk)
      /\ Len(chunk) \in Nat /\ Len(transformed) \in Nat /\ Len(message) \in Nat
  BY DEF CodecTypeOK
<1>2. \A i \in 1..Len(chunk) : chunk[i] = Len(transformed) + i
  BY DEF InOrder
<1>3. ASSUME NEW place \in 1..Len(message), NEW i \in DOMAIN chunk, chunk[i] = place
      PROVE  place > Len(transformed) /\ place <= Len(transformed) + Len(chunk)
  BY <1>1, <1>2, <1>3
<1>4. Posted \in [DOMAIN message -> Nat]
  BY <1>1 DEF Posted
<1>5. \A place \in 1..Len(message) :
        Posted[place] = sends[place] + (IF \E i \in DOMAIN chunk : chunk[i] = place THEN 1 ELSE 0)
  BY <1>1 DEF Posted
<1>6. ASSUME NEW place \in 1..Len(message)
      PROVE  /\ place <= Len(transformed) => Posted[place] = sends[place]
             /\ place > Len(transformed) + Len(chunk) => Posted[place] = sends[place]
             /\ Posted[place] <= sends[place] + 1
  <2>1. sends[place] \in Nat /\ place \in Nat
    BY <1>1
  <2>2. CASE \E i \in DOMAIN chunk : chunk[i] = place
    <3>1. place > Len(transformed) /\ place <= Len(transformed) + Len(chunk)
      BY <1>3, <2>2
    <3>2. Posted[place] = sends[place] + 1
      BY <1>5, <2>2
    <3> QED BY <1>1, <2>1, <3>1, <3>2
  <2>3. CASE ~ \E i \in DOMAIN chunk : chunk[i] = place
    <3>1. Posted[place] = sends[place]
      BY <1>5, <2>1, <2>3
    <3> QED BY <2>1, <3>1
  <2> QED BY <2>2, <2>3
<1> QED BY <1>4, <1>6

LEMMA CodecStep ==
  ASSUME CodecTypeOK, InOrder, Sendings, StartTransform \/ TransformStep
  PROVE  CodecTypeOK' /\ InOrder' /\ Sendings'
<1> USE DEF loopVars
<1>0. /\ Len(chunk) \in Nat /\ Len(transformed) \in Nat /\ Len(message) \in Nat
      /\ chunk \in Seq(Nat) /\ transformed \in Seq(Nat) /\ message \in Seq(Nat)
      /\ DOMAIN message = 1..Len(message)
      /\ sends \in [DOMAIN message -> Nat] /\ attempt \in 0..1
  BY DEF CodecTypeOK
<1>1. CASE StartTransform
  <2>1. CodecTypeOK'
    BY <1>1 DEF StartTransform, CodecTypeOK, Phases
  <2>2. InOrder'
    BY <1>0, <1>1 DEF StartTransform, CallsCodec, InOrder
  <2>3. Sendings'
    BY <1>0, <1>1 DEF StartTransform, Sendings
  <2> QED BY <2>1, <2>2, <2>3
<1>2. CASE TakePayload
  <2>1. /\ chunk' \in Seq(Nat) /\ Len(chunk') = Len(chunk) + 1
        /\ \A i \in 1..Len(chunk) : chunk'[i] = chunk[i]
        /\ chunk'[Len(chunk) + 1] = at
        /\ at \in 1..Len(message) /\ at' = at + 1
        /\ UNCHANGED <<configured, message, phase, attempt, transformed, sends>>
        /\ phase = "loop"
    BY <1>0, <1>2 DEF TakePayload, CodecTypeOK
  <2>2. chunkBytes' \in Nat
    BY <1>0, <1>2, <2>1 DEF TakePayload, CodecTypeOK
  <2>3. CodecTypeOK'
    BY <2>1, <2>2 DEF CodecTypeOK
  <2>4. InOrder'
    <3>1. /\ at = Len(transformed) + Len(chunk) + 1 /\ at <= Len(message)
          /\ \A i \in 1..Len(chunk) : chunk[i] = Len(transformed) + i
      BY <1>0, <2>1 DEF InOrder
    <3>2. ASSUME NEW i \in 1..Len(chunk') PROVE chunk'[i] = Len(transformed) + i
      <4>1. CASE i = Len(chunk) + 1
        <5>1. chunk'[i] = at
          BY <2>1, <4>1
        <5> QED BY <1>0, <3>1, <4>1, <5>1
      <4>2. CASE i # Len(chunk) + 1
        <5>1. i \in 1..Len(chunk)
          BY <1>0, <2>1, <4>2
        <5>2. chunk'[i] = chunk[i]
          BY <2>1, <5>1
        <5> QED BY <3>1, <5>1, <5>2
      <4> QED BY <4>1, <4>2
    <3>3. at' = Len(transformed) + Len(chunk') + 1 /\ at' <= Len(message) + 1
      BY <1>0, <2>1, <3>1
    <3> QED BY <2>1, <3>2, <3>3 DEF InOrder
  <2>5. Sendings'
    BY <1>0, <2>1 DEF Sendings
  <2> QED BY <2>3, <2>4, <2>5
<1>3. CASE RefusePayload \/ RejectChunk \/ BadResponse
  <2>1. /\ phase' = "failed"
        /\ UNCHANGED <<configured, message, at, chunk, chunkBytes, attempt, transformed, sends>>
    BY <1>3 DEF RefusePayload, RejectChunk, BadResponse
  <2>2. CodecTypeOK'
    BY <2>1 DEF CodecTypeOK, Phases
  <2>3. InOrder'
    BY <2>1 DEF InOrder
  <2>4. Sendings'
    BY <2>1 DEF Sendings
  <2> QED BY <2>2, <2>3, <2>4
<1>4. CASE PostChunk
  <2>1. /\ phase = "loop" /\ phase' = "post" /\ attempt' = 0 /\ sends' = Posted
        /\ UNCHANGED <<configured, message, at, chunk, chunkBytes, transformed>>
    BY <1>4 DEF PostChunk, Flushes
  <2>2. CodecTypeOK'
    BY <2>1, PostedFacts DEF CodecTypeOK, Phases
  <2>3. InOrder'
    BY <2>1 DEF InOrder
  <2>4. Sendings'
    <3>1. ASSUME NEW place \in 1..Len(message)
          PROVE  /\ sends'[place] <= 2
                 /\ place > Len(transformed) + Len(chunk) => sends'[place] = 0
                 /\ place > Len(transformed) /\ phase' = "post" => sends'[place] <= attempt' + 1
      <4>1. /\ sends[place] \in Nat /\ Posted[place] \in Nat
            /\ sends[place] <= 2
            /\ place > Len(transformed) => sends[place] = 0
        BY <1>0, <2>1, PostedFacts DEF Sendings
      <4>2. /\ place <= Len(transformed) => Posted[place] = sends[place]
            /\ Posted[place] <= sends[place] + 1
            /\ place > Len(transformed) + Len(chunk) => Posted[place] = sends[place]
        BY PostedFacts
      <4> QED BY <1>0, <2>1, <4>1, <4>2
    <3> QED BY <2>1, <3>1 DEF Sendings
  <2> QED BY <2>2, <2>3, <2>4
<1>5. CASE NoResponse
  <2>1. /\ phase = "post"
        /\ UNCHANGED <<configured, message, at, chunk, chunkBytes, transformed>>
        /\ \/ phase' = "failed" /\ attempt' = attempt /\ sends' = sends
           \/ attempt = 0 /\ attempt' = 1 /\ sends' = Posted /\ phase' = "post"
    BY <1>0, <1>5 DEF NoResponse, LastAttempt
  <2>2. CodecTypeOK'
    BY <2>1, PostedFacts DEF CodecTypeOK, Phases
  <2>3. InOrder'
    BY <2>1 DEF InOrder
  <2>4. Sendings'
    <3>1. ASSUME NEW place \in 1..Len(message)
          PROVE  /\ sends'[place] <= 2
                 /\ place > Len(transformed) + Len(chunk) => sends'[place] = 0
                 /\ place > Len(transformed) /\ phase' = "post" => sends'[place] <= attempt' + 1
      <4>1. /\ sends[place] \in Nat /\ Posted[place] \in Nat
            /\ sends[place] <= 2
            /\ place > Len(transformed) => sends[place] <= attempt + 1
            /\ place > Len(transformed) + Len(chunk) => sends[place] = 0
        BY <1>0, <2>1, PostedFacts DEF Sendings
      <4>2. /\ place <= Len(transformed) => Posted[place] = sends[place]
            /\ Posted[place] <= sends[place] + 1
            /\ place > Len(transformed) + Len(chunk) => Posted[place] = sends[place]
        BY PostedFacts
      <4> QED BY <1>0, <2>1, <4>1, <4>2
    <3> QED BY <2>1, <3>1 DEF Sendings
  <2> QED BY <2>2, <2>3, <2>4
<1>6. CASE GoodResponse
  <2>1. /\ phase = "post" /\ phase' = "loop" /\ chunk' = <<>> /\ chunkBytes' = 0
        /\ transformed' = transformed \o chunk
        /\ UNCHANGED <<configured, message, at, attempt, sends>>
    BY <1>6 DEF GoodResponse, RestOfChunk
  <2>2. /\ transformed' \in Seq(Nat) /\ Len(transformed') = Len(transformed) + Len(chunk)
        /\ \A i \in 1..Len(transformed) : transformed'[i] = transformed[i]
        /\ \A i \in 1..Len(transformed') : i > Len(transformed) =>
             i - Len(transformed) \in 1..Len(chunk)
             /\ transformed'[i] = chunk[i - Len(transformed)]
    BY <1>0, <2>1, ConcatProperties
  <2>3. chunk' \in Seq(Nat) /\ Len(chunk') = 0
    BY <2>1
  <2>4. CodecTypeOK'
    BY <2>1, <2>2, <2>3 DEF CodecTypeOK, Phases
  <2>5. InOrder'
    <3>1. ASSUME NEW i \in 1..Len(transformed') PROVE transformed'[i] = i
      <4>1. /\ \A k \in 1..Len(transformed) : transformed[k] = k
            /\ \A k \in 1..Len(chunk) : chunk[k] = Len(transformed) + k
        BY DEF InOrder
      <4>2. CASE i <= Len(transformed)
        <5>1. i \in 1..Len(transformed)
          BY <1>0, <2>2, <4>2
        <5> QED BY <2>2, <4>1, <5>1
      <4>3. CASE i > Len(transformed)
        <5>1. /\ i - Len(transformed) \in 1..Len(chunk)
              /\ transformed'[i] = chunk[i - Len(transformed)]
          BY <2>2, <4>3
        <5>2. transformed'[i] = Len(transformed) + (i - Len(transformed))
          BY <4>1, <5>1
        <5>3. i \in Nat
          BY <1>0, <2>2
        <5> QED BY <1>0, <5>2, <5>3
      <4> QED BY <1>0, <2>2, <4>2, <4>3
    <3> QED BY <1>0, <2>1, <2>2, <2>3, <3>1 DEF InOrder
  <2>6. Sendings'
    BY <1>0, <2>1, <2>2, <2>3 DEF Sendings
  <2> QED BY <2>4, <2>5, <2>6
<1>7. CASE EndTransform
  <2>1. /\ phase' \in {"done", "failed"}
        /\ phase' = "done" => Len(transformed) = Len(message)
        /\ UNCHANGED <<configured, message, at, chunk, chunkBytes, attempt, transformed, sends>>
    BY <1>7 DEF EndTransform
  <2>2. CodecTypeOK'
    BY <2>1 DEF CodecTypeOK, Phases
  <2>3. InOrder'
    BY <2>1 DEF InOrder
  <2>4. Sendings'
    BY <2>1 DEF Sendings
  <2> QED BY <2>2, <2>3, <2>4
<1> QED BY <1>1, <1>2, <1>3, <1>4, <1>5, <1>6, <1>7 DEF TransformStep

LEMMA PendingFacts ==
  ASSUME CodecTypeOK, InOrder
  PROVE  /\ Pending = (Len(transformed) + 1)..(Len(transformed) + Len(chunk))
         /\ IsFiniteSet(Pending)
         /\ \A place \in Pending : message[place] \in Nat
<1>1. /\ Len(chunk) \in Nat /\ Len(transformed) \in Nat /\ Len(message) \in Nat
      /\ DOMAIN chunk = 1..Len(chunk) /\ message \in Seq(Nat)
  BY DEF CodecTypeOK
<1>2. /\ \A i \in 1..Len(chunk) : chunk[i] = Len(transformed) + i
      /\ Len(transformed) + Len(chunk) <= Len(message)
  BY <1>1 DEF InOrder, CodecTypeOK
<1>3. Pending = (Len(transformed) + 1)..(Len(transformed) + Len(chunk))
  <2>1. ASSUME NEW place \in Pending
        PROVE  place \in (Len(transformed) + 1)..(Len(transformed) + Len(chunk))
    <3>1. PICK i \in 1..Len(chunk) : place = chunk[i]
      BY <1>1 DEF Pending
    <3> QED BY <1>1, <1>2, <3>1
  <2>2. ASSUME NEW place \in (Len(transformed) + 1)..(Len(transformed) + Len(chunk))
        PROVE  place \in Pending
    <3>1. place - Len(transformed) \in 1..Len(chunk)
      BY <1>1
    <3>2. chunk[place - Len(transformed)] = place
      BY <1>1, <1>2, <3>1
    <3> QED BY <1>1, <3>1, <3>2 DEF Pending
  <2> QED BY <2>1, <2>2
<1>4. IsFiniteSet(Pending)
  <2>1. Len(transformed) + 1 \in Int /\ Len(transformed) + Len(chunk) \in Int
    BY <1>1
  <2> QED BY <1>3, <2>1, FS_Interval
<1>5. \A place \in Pending : message[place] \in Nat
  <2>1. Pending \subseteq 1..Len(message)
    BY <1>1, <1>2, <1>3
  <2> QED BY <1>1, <2>1
<1> QED BY <1>3, <1>4, <1>5

\* A chunk grows by payloads that fit only, and is posted with something in it.
LEMMA FitsStep ==
  ASSUME CodecTypeOK, InOrder, Fits, StartTransform \/ TransformStep
  PROVE  Fits'
<1> USE DEF loopVars
<1>1. CASE TakePayload
  <2>1. /\ chunk \in Seq(Nat) /\ message \in Seq(Nat) /\ at \in Nat /\ chunkBytes \in Nat
        /\ Len(chunk) \in Nat /\ Len(message) \in Nat /\ Len(transformed) \in Nat
        /\ MaxBytes \in Nat /\ MaxPayloads \in Nat \ {0}
    BY LimitsAssumption DEF CodecTypeOK
  <2>2. /\ phase' = "loop" /\ message' = message
        /\ chunk' = Append(chunk, at) /\ chunkBytes' = chunkBytes + message[at]
        /\ at \in 1..Len(message) /\ ~ Oversized /\ ~ Full
    BY <1>1, <2>1 DEF TakePayload, CodecTypeOK
  <2>3. message[at] \in Nat /\ message[at] <= MaxBytes
    BY <2>1, <2>2 DEF Oversized
  <2>4. Len(chunk') = Len(chunk) + 1
    BY <2>1, <2>2
  <2>5. Pending' = Pending \cup {at}
    <3>1. /\ DOMAIN chunk = 1..Len(chunk) /\ DOMAIN chunk' = 1..(Len(chunk) + 1)
          /\ \A i \in 1..Len(chunk) : chunk'[i] = chunk[i]
          /\ chunk'[Len(chunk) + 1] = at
      BY <2>1, <2>2
    <3>2. 1..(Len(chunk) + 1) = 1..Len(chunk) \cup {Len(chunk) + 1}
      BY <2>1
    <3> QED BY <3>1, <3>2 DEF Pending
  <2>6. at \notin Pending
    <3>1. at = Len(transformed) + Len(chunk) + 1
      BY DEF InOrder
    <3> QED BY <2>1, <3>1, PendingFacts
  <2>7. SumFunctionOnSet(message, Pending') = SumFunctionOnSet(message, Pending) + message[at]
    BY <2>3, <2>5, <2>6, PendingFacts, SumGrows
  <2>8. chunkBytes' = SumFunctionOnSet(message', Pending')
    BY <2>2, <2>7 DEF Fits
  <2>9. Len(chunk') <= MaxPayloads /\ chunkBytes' <= MaxBytes
    <3>1. CASE chunk = <<>>
      <4>1. chunkBytes = 0
        BY <3>1, NothingFits DEF Fits, Pending
      <4>2. Len(chunk) = 0
        BY <3>1
      <4> QED BY <2>1, <2>2, <2>3, <2>4, <4>1, <4>2
    <3>2. CASE chunk # <<>>
      <4>1. Len(chunk) < MaxPayloads /\ chunkBytes + message[at] <= MaxBytes
        BY <2>1, <2>2, <2>3, <3>2 DEF Full
      <4> QED BY <2>1, <2>2, <2>4, <4>1
    <3> QED BY <3>1, <3>2
  <2> QED BY <2>2, <2>8, <2>9 DEF Fits
<1>2. CASE GoodResponse
  <2>1. chunk' = <<>> /\ chunkBytes' = 0 /\ phase' = "loop"
    BY <1>2 DEF GoodResponse, RestOfChunk
  <2> QED BY <2>1, NothingFits DEF Fits, Pending
<1>3. CASE ~ TakePayload /\ ~ GoodResponse
  <2>1. UNCHANGED <<message, chunk, chunkBytes>>
    BY <1>3 DEF TransformStep, StartTransform, RefusePayload, PostChunk, RejectChunk,
       NoResponse, BadResponse, EndTransform
  <2>2. phase' = "post" => phase = "post" \/ chunk # <<>>
    BY <1>3 DEF TransformStep, StartTransform, RefusePayload, PostChunk, RejectChunk,
       NoResponse, BadResponse, EndTransform, Flushes
  <2> QED BY <2>1, <2>2 DEF Fits, Pending
<1> QED BY <1>1, <1>2, <1>3

LEMMA CodecRestsAsIs ==
  ASSUME CodecTypeOK, InOrder, Sendings, Fits, UNCHANGED codecVars
  PROVE  CodecTypeOK' /\ InOrder' /\ Sendings' /\ Fits'
  BY DEF CodecTypeOK, InOrder, Sendings, Fits, Pending, codecVars, loopVars

-----------------------------------------------------------------------------
(* What the steps of a command have in common                               *)

\* A step that does not change the cluster.
Quiet ==
  /\ UNCHANGED <<op, request, changes>>
  /\ \/ UNCHANGED <<todo, result>>
     \/ result = "none" /\ result' = "error" /\ UNCHANGED todo
     \/ result = "none" /\ result' = "ok" /\ UNCHANGED todo /\ todo = <<>>
     \/ /\ result = "none" /\ result' = "none"
        /\ todo # <<>> /\ Head(todo) # "write" /\ todo' = Tail(todo)
     \/ /\ result = "none" /\ result' = "none"
        /\ At("await") /\ todo' = <<"poll", "decode">> \o todo

LEMMA EveryOtherStepIsQuiet ==
  ASSUME [Next]_vars, ~ Write
  PROVE  Quiet
<1> USE DEF Quiet
<1>1. CASE UNCHANGED vars \/ Done
  BY <1>1 DEF vars, Done
<1>2. CASE Check
  BY <1>2 DEF Check, At, Proceed, Fails
<1>3. CASE CallCodec
  BY <1>3 DEF CallCodec
<1>4. CASE CodecAnswers
  BY <1>4 DEF CodecAnswers, At, Proceed, Fails
<1>5. CASE Verify
  BY <1>5 DEF Verify, At, Proceed, Fails
<1>6. CASE Inspect
  BY <1>6 DEF Inspect, At, Proceed, Fails
<1>7. CASE Await
  BY <1>7 DEF Await, At, Proceed, Fails
<1>8. CASE Finish
  BY <1>8 DEF Finish
<1>9. CASE Refused
  BY <1>9 DEF Refused, At, Fails
<1>10. CASE Describe
  BY <1>10 DEF Describe, At, Proceed
<1>11. CASE Read
  BY <1>11 DEF Read, At, Proceed
<1>12. CASE Page
  BY <1>12 DEF Page, At, Proceed
<1>13. CASE Poll
  BY <1>13 DEF Poll, PollWith, At, Proceed
<1>14. CASE OthersEdit \/ OthersDeploy
  BY <1>14 DEF OthersEdit, OthersDeploy, Untouched
<1>15. CASE DescriptionArrives
  BY <1>15 DEF DescriptionArrives, Fails
<1>16. CASE Join
  BY <1>16 DEF Join, At, Proceed
<1> QED BY <1>1, <1>2, <1>3, <1>4, <1>5, <1>6, <1>7, <1>8, <1>9, <1>10, <1>11, <1>12, <1>13,
           <1>14, <1>15, <1>16 DEF Next, Own

LEMMA WriteFacts ==
  ASSUME Write
  PROVE  /\ result = "none" /\ todo # <<>> /\ Head(todo) = "write"
         /\ changes' = changes + 1
         /\ UNCHANGED <<op, request, base, pages, others>>
         /\ \/ result' = "none" /\ todo' = Tail(todo)
            \/ result' = "error" /\ UNCHANGED todo
  BY DEF Write, At, Proceed, Fails

LEMMA TodoStep ==
  ASSUME todo \in Seq(StepNames), [Next]_vars
  PROVE  todo' \in Seq(StepNames)
  BY EveryOtherStepIsQuiet, WriteFacts, TailFacts, PollFacts DEF Quiet

-----------------------------------------------------------------------------
(* One call                                                                 *)

LEMMA CountedInit == Init => Counted
<1> SUFFICES ASSUME Init PROVE Counted
  OBVIOUS
<1>1. op \in AllOperations /\ todo = Steps(op) /\ changes = 0 /\ result = "none"
  BY OperationsAssumption DEF Init
<1> QED BY <1>1, StepsFacts DEF Counted

LEMMA CountedStep ==
  ASSUME todo \in Seq(StepNames), Counted, [Next]_vars
  PROVE  Counted'
<1>1. CASE Write
  <2>1. /\ result = "none" /\ todo # <<>> /\ Head(todo) = "write" /\ changes' = changes + 1
        /\ op' = op /\ result' # "ok"
        /\ \/ result' = "none" /\ todo' = Tail(todo)
           \/ result' = "error"
    BY <1>1, WriteFacts
  <2>2. Has(todo, "write")
    BY <2>1, TailFacts DEF Has
  <2>3. /\ op \in DOMAIN Writers /\ changes = 0 /\ OneWrite(todo)
        /\ op # "update_workflow" => EndsInWrite(todo)
    BY <2>1, <2>2 DEF Counted
  <2>4. ~ Has(Tail(todo), "write")
    BY <2>1, <2>3, TailOneWrite
  <2>5. op # "update_workflow" => Tail(todo) = <<>>
    BY <2>1, <2>3, TailEndsInWrite
  <2>6. /\ op' \in DOMAIN Writers /\ changes' = 1
        /\ result' = "none" => /\ ~ Has(todo', "write")
                               /\ op' # "update_workflow" => todo' = <<>>
        /\ result' # "ok"
    <3>1. op' \in DOMAIN Writers /\ changes' = 1 /\ result' # "ok"
      BY <2>1, <2>3
    <3>2. ASSUME result' = "none"
          PROVE  /\ ~ Has(todo', "write")
                 /\ op' # "update_workflow" => todo' = <<>>
      <4>1. todo' = Tail(todo)
        BY <2>1, <3>2
      <4> QED BY <2>1, <2>4, <2>5, <4>1
    <3> QED BY <3>1, <3>2
  <2> QED BY <2>6 DEF Counted
<1>2. CASE ~ Write
  <2>1. Quiet
    BY <1>2, EveryOtherStepIsQuiet
  <2>2. CASE UNCHANGED <<todo, result>>
    BY <2>1, <2>2 DEF Quiet, Counted
  <2>3. CASE result = "none" /\ result' = "error" /\ UNCHANGED todo
    BY <2>1, <2>3 DEF Quiet, Counted
  <2>4. CASE result = "none" /\ result' = "ok" /\ UNCHANGED todo /\ todo = <<>>
    BY <2>1, <2>4 DEF Quiet, Counted
  <2>5. CASE /\ result = "none" /\ result' = "none"
             /\ todo # <<>> /\ Head(todo) # "write" /\ todo' = Tail(todo)
    <3>1. OneWrite(todo) => OneWrite(todo')
      BY <2>5, TailOneWrite
    <3>2. OneWrite(todo) /\ EndsInWrite(todo) => EndsInWrite(todo')
      BY <2>5, TailEndsInWrite
    <3>3. ~ Has(todo, "write") => ~ Has(todo', "write")
      BY <2>5, TailHas
    <3> QED BY <2>1, <2>5, <3>1, <3>2, <3>3 DEF Quiet, Counted
  <2>6. CASE /\ result = "none" /\ result' = "none"
             /\ At("await") /\ todo' = <<"poll", "decode">> \o todo
    <3>1. /\ OneWrite(todo) => OneWrite(todo')
          /\ EndsInWrite(todo) => EndsInWrite(todo')
          /\ Has(todo', "write") => Has(todo, "write")
      BY <2>6, PollFacts
    <3>2. todo # <<>>
      BY <2>6 DEF At
    <3> QED BY <2>1, <2>6, <3>1, <3>2 DEF Quiet, Counted
  <2> QED BY <2>1, <2>2, <2>3, <2>4, <2>5, <2>6 DEF Quiet
<1> QED BY <1>1, <1>2

-----------------------------------------------------------------------------
(* Whole messages                                                           *)

LEMMA NoPlaces == [place \in DOMAIN <<>> |-> place] = <<>>
<1>1. DOMAIN <<>> = {}
  OBVIOUS
<1>2. [place \in {} |-> place] = <<>>
  OBVIOUS
<1> QED BY <1>1, <1>2

LEMMA RepliesAreSequences == Replies \subseteq Seq(Nat)
<1>1. <<>> \in Seq(Nat)
  OBVIOUS
<1> QED BY <1>1, MessagesAreSequences DEF Replies

\* What an answer brings is decoded next.
LEMMA ReplySettled ==
  ASSUME todo \in Seq(StepNames), todo # <<>>, todo' = Tail(todo),
         NEW reply \in Replies, CodecRestsNext(reply)
  PROVE  Settled'
<1>1. message' = reply /\ transformed' = <<>>
  BY DEF CodecRestsNext
<1>2. CASE Len(todo) > 1 /\ todo[2] = "decode"
  <2>1. todo' \in Seq(StepNames) /\ Len(todo') > 0 /\ todo'[1] = "decode"
    BY <1>2, TailFacts
  <2>2. Ahead(todo')
    BY <2>1, DecodeIsAhead
  <2> QED BY <2>2 DEF Settled
<1>3. CASE ~ (Len(todo) > 1 /\ todo[2] = "decode")
  <2>1. reply = <<>>
    BY <1>3 DEF Replies
  <2>2. transformed' = [place \in DOMAIN message' |-> place]
    BY <1>1, <2>1, NoPlaces
  <2> QED BY <2>2 DEF Settled, Whole
<1> QED BY <1>2, <1>3

LEMMA ArgumentsFacts ==
  ASSUME NEW m \in ArgumentsOf(op), op \in AllOperations, todo = Steps(op), CodecRests(m)
  PROVE  m \in Seq(Nat) /\ Settled
<1>1. /\ Steps(op) \in Seq(StepNames)
      /\ Has(Steps(op), "encode") => Ahead(Steps(op))
  BY StepsFacts
<1>2. CASE Has(Steps(op), "encode")
  <2>1. m \in Messages
    BY <1>1, <1>2, RangeIsHas DEF ArgumentsOf
  <2>2. Ahead(todo)
    BY <1>1, <1>2
  <2> QED BY <2>1, <2>2, MessagesAreSequences DEF Settled
<1>3. CASE ~ Has(Steps(op), "encode")
  <2>1. m = <<>>
    BY <1>1, <1>3, RangeIsHas DEF ArgumentsOf
  <2>2. message = <<>> /\ transformed = <<>>
    BY <2>1 DEF CodecRests
  <2>3. <<>> \in Seq(Nat)
    OBVIOUS
  <2> QED BY <2>1, <2>2, <2>3, NothingIsWhole DEF Settled
<1> QED BY <1>2, <1>3

\* A step that leaves the codec alone, and does not step over it.
Aside ==
  /\ UNCHANGED codecVars
  /\ \/ UNCHANGED todo
     \/ todo # <<>> /\ Head(todo) \notin {"encode", "decode"} /\ todo' = Tail(todo)
     \/ todo' = <<"poll", "decode">> \o todo

LEMMA AsideSteps ==
  ASSUME [Next]_vars, ~ CallCodec, ~ CodecAnswers, ~ Read, ~ Join, ~ Write, ~ Poll
  PROVE  Aside
<1> USE DEF Aside
<1>1. CASE UNCHANGED vars \/ Done
  BY <1>1 DEF vars, Done, codecVars, loopVars
<1>2. CASE Check
  BY <1>2 DEF Check, At, Proceed, Fails
<1>3. CASE Verify
  BY <1>3 DEF Verify, At, Proceed, Fails
<1>4. CASE Inspect
  BY <1>4 DEF Inspect, At, Proceed, Fails
<1>5. CASE Await
  BY <1>5 DEF Await, At, Proceed, Fails
<1>6. CASE Finish
  BY <1>6 DEF Finish
<1>7. CASE Refused
  BY <1>7 DEF Refused, At, Fails
<1>8. CASE Describe
  BY <1>8 DEF Describe, At, Proceed
<1>9. CASE Page
  BY <1>9 DEF Page, At, Proceed
<1>10. CASE OthersEdit \/ OthersDeploy
  BY <1>10 DEF OthersEdit, OthersDeploy, Untouched
<1>11. CASE DescriptionArrives
  BY <1>11 DEF DescriptionArrives, Fails
<1> QED BY <1>1, <1>2, <1>3, <1>4, <1>5, <1>6, <1>7, <1>8, <1>9, <1>10, <1>11 DEF Next, Own

LEMMA CodecTypeStep ==
  ASSUME TypeOK, InOrder, Sendings, Fits, [Next]_vars
  PROVE  CodecTypeOK' /\ InOrder' /\ Sendings' /\ Fits'
<1>0. CodecTypeOK /\ configured \in BOOLEAN
  BY DEF TypeOK, CodecTypeOK
<1>1. CASE UNCHANGED codecVars
  BY <1>0, <1>1, CodecRestsAsIs
<1>2. CASE \E reply \in Replies : CodecRestsNext(reply) /\ UNCHANGED configured
  BY <1>0, <1>2, RepliesAreSequences, RestNextFacts
<1>3. CASE CallCodec
  BY <1>0, <1>3, CodecStep, FitsStep DEF CallCodec
<1>4. CodecAnswers => UNCHANGED codecVars
  BY DEF CodecAnswers
<1>5. Read => \E reply \in Replies : CodecRestsNext(reply) /\ UNCHANGED configured
  BY DEF Read
<1>6. Poll => \E reply \in Replies : CodecRestsNext(reply) /\ UNCHANGED configured
  BY DEF Poll, PollWith
<1>7. Write => \/ UNCHANGED codecVars
               \/ \E reply \in Replies : CodecRestsNext(reply) /\ UNCHANGED configured
  BY DEF Write
<1>8. Join => \E reply \in Replies : CodecRestsNext(reply) /\ UNCHANGED configured
  BY DEF Join
<1> QED BY <1>1, <1>2, <1>3, <1>4, <1>5, <1>6, <1>7, <1>8, AsideSteps DEF Aside

\* No change and no query goes out before the codec has done its part.
LEMMA SettledBefore ==
  ASSUME TypeOK, Settled, Write \/ Read
  PROVE  Whole
<1>1. todo \in Seq(StepNames) /\ todo # <<>> /\ Head(todo) \in {"write", "read"}
  BY DEF TypeOK, Write, Read, At
<1> QED BY <1>1, AheadHead DEF Settled

LEMMA SettledStep ==
  ASSUME TypeOK, InOrder, Settled, [Next]_vars
  PROVE  Settled'
<1>0. todo \in Seq(StepNames) /\ CodecTypeOK
  BY DEF TypeOK
<1>1. CASE Aside
  <2>1. Whole' <=> Whole
    BY <1>1 DEF Aside, codecVars, loopVars, Whole
  <2>2. CASE UNCHANGED todo
    <3>1. Ahead(todo) => Ahead(todo')
      BY <2>2
    <3> QED BY <2>1, <3>1 DEF Settled
  <2>3. CASE todo # <<>> /\ Head(todo) \notin {"encode", "decode"} /\ todo' = Tail(todo)
    <3>1. Ahead(todo) => Ahead(todo')
      BY <1>0, <2>3, TailAhead
    <3> QED BY <2>1, <3>1 DEF Settled
  <2>4. CASE todo' = <<"poll", "decode">> \o todo
    <3>1. Ahead(todo')
      BY <1>0, <2>4, PollFacts
    <3> QED BY <3>1 DEF Settled
  <2> QED BY <1>1, <2>2, <2>3, <2>4 DEF Aside
<1>2. CASE CallCodec
  <2>1. /\ todo # <<>> /\ Head(todo) \in {"encode", "decode"} /\ UNCHANGED todo
    BY <1>2 DEF CallCodec, At
  <2>2. Ahead(todo')
    <3>1. 1 \in 1..Len(todo') /\ todo'[1] \in {"encode", "decode"} /\ 1..(1 - 1) = {}
      BY <1>0, <2>1, TailFacts
    <3> QED BY <3>1 DEF Ahead
  <2> QED BY <2>2 DEF Settled
<1>3. CASE CodecAnswers
  <2>1. UNCHANGED codecVars /\ (phase = "done" \/ UNCHANGED todo)
    BY <1>3 DEF CodecAnswers, Fails
  <2>2. Whole' <=> Whole
    BY <2>1 DEF codecVars, loopVars, Whole
  <2>3. CASE phase = "done"
    BY <1>0, <2>2, <2>3, DoneIsWhole DEF Settled
  <2>4. CASE UNCHANGED todo
    <3>1. Ahead(todo) => Ahead(todo')
      BY <2>4
    <3> QED BY <2>2, <3>1 DEF Settled
  <2> QED BY <2>1, <2>3, <2>4
<1>4. CASE Read
  <2>1. todo # <<>> /\ todo' = Tail(todo) /\ \E reply \in Replies : CodecRestsNext(reply)
    BY <1>4 DEF Read, At, Proceed
  <2> QED BY <1>0, <2>1, ReplySettled
<1>5. CASE Poll
  <2>1. todo # <<>> /\ todo' = Tail(todo) /\ \E reply \in Replies : CodecRestsNext(reply)
    BY <1>5 DEF Poll, PollWith, At, Proceed
  <2> QED BY <1>0, <2>1, ReplySettled
<1>6. CASE Write
  <2>1. \/ /\ todo # <<>> /\ todo' = Tail(todo)
           /\ \E reply \in Replies : CodecRestsNext(reply)
        \/ UNCHANGED codecVars
    BY <1>6 DEF Write, At, Proceed, Fails
  <2>2. CASE UNCHANGED codecVars
    <3>1. Whole'
      BY <1>6, <2>2, SettledBefore DEF codecVars, loopVars, Whole
    <3> QED BY <3>1 DEF Settled
  <2> QED BY <1>0, <2>1, <2>2, ReplySettled
<1>7. CASE Join
  <2>1. todo # <<>> /\ todo' = Tail(todo) /\ \E reply \in Replies : CodecRestsNext(reply)
    BY <1>7 DEF Join, At, Proceed
  <2> QED BY <1>0, <2>1, ReplySettled
<1> QED BY <1>1, <1>2, <1>3, <1>4, <1>5, <1>6, <1>7, AsideSteps

-----------------------------------------------------------------------------
(* Pages                                                                    *)

LEMMA OnlyPageReadsPages ==
  ASSUME [Next]_vars, ~ Page
  PROVE  /\ UNCHANGED <<op, request, pages>>
         /\ todo # <<>> /\ Head(todo) = "page" => UNCHANGED todo
<1>1. CASE UNCHANGED vars \/ Done
  BY <1>1 DEF vars, Done, progressVars
<1>2. CASE Check
  BY <1>2 DEF Check, At, Proceed, Fails, progressVars
<1>3. CASE CallCodec
  BY <1>3 DEF CallCodec, progressVars
<1>4. CASE CodecAnswers
  BY <1>4 DEF CodecAnswers, At, Proceed, Fails, progressVars
<1>5. CASE Verify
  BY <1>5 DEF Verify, At, Proceed, Fails, progressVars
<1>6. CASE Inspect
  BY <1>6 DEF Inspect, At, Proceed, Fails, progressVars
<1>7. CASE Await
  BY <1>7 DEF Await, At, Proceed, Fails, progressVars
<1>8. CASE Finish
  BY <1>8 DEF Finish, progressVars
<1>9. CASE Refused
  BY <1>9 DEF Refused, At, Fails, progressVars
<1>10. CASE Describe
  BY <1>10 DEF Describe, At, Proceed
<1>11. CASE Read
  BY <1>11 DEF Read, At, Proceed, progressVars
<1>12. CASE Write
  BY <1>12 DEF Write, At, Proceed, Fails
<1>13. CASE Poll
  BY <1>13 DEF Poll, PollWith, At, Proceed
<1>14. CASE OthersEdit \/ OthersDeploy
  BY <1>14 DEF OthersEdit, OthersDeploy, Untouched, progressVars
<1>15. CASE DescriptionArrives
  BY <1>15 DEF DescriptionArrives, Fails
<1>16. CASE Join
  BY <1>16 DEF Join, At, Proceed, progressVars
<1> QED BY <1>1, <1>2, <1>3, <1>4, <1>5, <1>6, <1>7, <1>8, <1>9, <1>10, <1>11, <1>12, <1>13,
           <1>14, <1>15, <1>16 DEF Next, Own

LEMMA OnePage ==
  ASSUME NEW t, t = <<"page">>
  PROVE  t # <<>> /\ Head(t) = "page" /\ Tail(t) = <<>>
  OBVIOUS

LEMMA RequestsFacts == \A o : RequestsOf(o) \subseteq Request
  BY DEF RequestsOf

LEMMA PagesStep ==
  ASSUME TypeOK, PagesLeft, [Next]_vars
  PROVE  PagesLeft'
<1>0. /\ todo \in Seq(StepNames) /\ pages \in Nat /\ request.pages \in Nat
  BY BoundsAssumption DEF TypeOK, Request
<1>1. CASE Has(Steps(op), "page")
  <2>1. \/ todo = <<"page">> /\ pages < request.pages
        \/ todo = <<>> /\ pages = request.pages
    BY <1>1 DEF PagesLeft
  <2>2. CASE Page
    <3>1. /\ UNCHANGED <<op, request>> /\ pages' = pages + 1
          /\ todo = <<"page">> /\ pages < request.pages
          /\ \/ pages + 1 = request.pages /\ todo' = <<>>
             \/ pages + 1 # request.pages /\ todo' = todo
      <4>1. todo = <<"page">> /\ pages < request.pages
        BY <2>1, <2>2 DEF Page, At
      <4>2. Tail(todo) = <<>>
        BY <4>1, OnePage
      <4> QED BY <2>2, <4>1, <4>2 DEF Page, LastPage, Proceed
    <3>2. Has(Steps(op'), "page")
      BY <1>1, <3>1
    <3> QED BY <1>0, <3>1, <3>2 DEF PagesLeft
  <2>3. CASE ~ Page
    <3>1. UNCHANGED <<op, request, pages>>
      BY <2>3, OnlyPageReadsPages
    <3>2. CASE todo = <<"page">>
      <4>1. UNCHANGED todo
        BY <2>3, <3>2, OnePage, OnlyPageReadsPages
      <4> QED BY <3>1, <4>1 DEF PagesLeft
    <3>3. CASE todo = <<>>
      <4>1. UNCHANGED todo
        BY <3>3, EveryOtherStepIsQuiet, WriteFacts DEF Quiet, At
      <4> QED BY <3>1, <4>1 DEF PagesLeft
    <3> QED BY <2>1, <3>2, <3>3
  <2> QED BY <2>2, <2>3
<1>2. CASE ~ Has(Steps(op), "page")
  <2>1. ~ Has(todo, "page")
    BY <1>2 DEF PagesLeft
  <2>2. op' = op
    BY EveryOtherStepIsQuiet, WriteFacts DEF Quiet
  <2>3. \/ UNCHANGED todo
        \/ todo # <<>> /\ todo' = Tail(todo)
        \/ todo' = <<"poll", "decode">> \o todo
    BY EveryOtherStepIsQuiet, WriteFacts DEF Quiet
  <2>4. ~ Has(todo', "page")
    BY <1>0, <2>1, <2>3, TailHas, PollFacts
  <2>5. ~ Has(Steps(op'), "page")
    BY <1>2, <2>2
  <2> QED BY <2>4, <2>5 DEF PagesLeft
<1> QED BY <1>1, <1>2

LEMMA PagesInit == Init => PagesLeft
<1> SUFFICES ASSUME Init PROVE PagesLeft
  OBVIOUS
<1>1. /\ op \in AllOperations /\ todo = Steps(op) /\ pages = 0
      /\ request \in RequestsOf(op)
  BY OperationsAssumption DEF Init
<1>2. request.pages \in 1..MaxPages
  BY <1>1, RequestsFacts DEF Request
<1>3. Has(Steps(op), "page") => Steps(op) = <<"page">>
  BY <1>1, StepsFacts
<1> QED BY <1>1, <1>2, <1>3, BoundsAssumption DEF PagesLeft

-----------------------------------------------------------------------------
(* Objects that others may change                                           *)

\* What is left of a read and a write, as sequences.
LEMMA Remaining ==
  ASSUME NEW t
  PROVE  /\ t = <<"check", "describe", "verify", "write">> =>
              Head(t) = "check" /\ Tail(t) = <<"describe", "verify", "write">>
         /\ t = <<"describe", "verify", "write">> =>
              Head(t) = "describe" /\ Tail(t) = <<"verify", "write">>
         /\ t = <<"verify", "write">> => Head(t) = "verify" /\ Tail(t) = <<"write">>
         /\ t = <<"write">> => Head(t) = "write" /\ Tail(t) = <<>>
<1>1. ASSUME t = <<"check", "describe", "verify", "write">>
      PROVE  Head(t) = "check" /\ Tail(t) = <<"describe", "verify", "write">>
  BY <1>1
<1>2. ASSUME t = <<"describe", "verify", "write">>
      PROVE  Head(t) = "describe" /\ Tail(t) = <<"verify", "write">>
  BY <1>2
<1>3. ASSUME t = <<"verify", "write">> PROVE Head(t) = "verify" /\ Tail(t) = <<"write">>
  BY <1>3
<1>4. ASSUME t = <<"write">> PROVE Head(t) = "write" /\ Tail(t) = <<>>
  BY <1>4
<1> QED BY <1>1, <1>2, <1>3, <1>4

\* The edits whose object others may change.
EditSteps == {"check", "describe", "verify", "write"}

LEMMA EditsStandStill ==
  ASSUME [Next]_vars, ~ Check, ~ Describe, ~ Verify, ~ Write, ~ OthersEdit, ~ OthersDeploy,
         todo # <<>> => Head(todo) \in EditSteps
  PROVE  UNCHANGED <<op, request, todo, base, schedule, deployment>>
<1> USE DEF EditSteps, clusterVars, progressVars
<1>1. CASE UNCHANGED vars \/ Done
  BY <1>1 DEF vars, Done
<1>2. CASE CallCodec
  BY <1>2 DEF CallCodec
<1>3. ~ CodecAnswers
  BY DEF CodecAnswers, At
<1>4. ~ Inspect
  BY DEF Inspect, At
<1>5. ~ Await
  BY DEF Await, At
<1>6. CASE Finish
  BY <1>6 DEF Finish
<1>7. CASE Refused
  BY <1>7 DEF Refused, Fails
<1>8. ~ Read
  BY DEF Read, At
<1>9. ~ Page
  BY DEF Page, At
<1>10. ~ Poll
  BY DEF Poll, PollWith, At
<1>11. CASE DescriptionArrives
  BY <1>11 DEF DescriptionArrives, Fails
<1>12. ~ Join
  BY DEF Join, At
<1> QED BY <1>1, <1>2, <1>3, <1>4, <1>5, <1>6, <1>7, <1>8, <1>9, <1>10, <1>11, <1>12
     DEF Next, Own

LEMMA ScheduleRecord ==
  ASSUME NEW v \in Nat, NEW t \in {"old", "others", "new"}, NEW e \in BOOLEAN,
         NEW z \in {"UTC", "new"}, NEW n \in {"old", "new"}, NEW p \in BOOLEAN
  PROVE  [version |-> v, timing |-> t, extras |-> e, timezone |-> z, notes |-> n,
          paused |-> p] \in Schedule
  BY DEF Schedule

LEMMA ScheduleTypes ==
  ASSUME NEW b \in Schedule, NEW v \in Nat, request \in Request,
         NEW new, new = [Edited(b) EXCEPT !.version = v]
  PROVE  /\ new \in Schedule /\ new.version = v
         /\ new.paused = b.paused
         /\ ~ request.expression => new.timing = b.timing /\ new.extras = b.extras
<1>1. /\ request.expression \in BOOLEAN /\ request.timezone \in {"UTC", "new"}
      /\ request.notes \in {"old", "new"}
  BY DEF Request
<1>2. /\ b.version \in Nat /\ b.timing \in {"old", "others", "new"} /\ b.extras \in BOOLEAN
      /\ b.paused \in BOOLEAN
  BY DEF Schedule
<1>3. PICK v0, timing, extras, timezone, notes, paused :
        b = [version |-> v0, timing |-> timing, extras |-> extras,
             timezone |-> timezone, notes |-> notes, paused |-> paused]
  BY DEF Schedule
<1>4. new = [version |-> v, timing |-> IF request.expression THEN "new" ELSE b.timing,
             extras |-> IF request.expression THEN FALSE ELSE b.extras,
             timezone |-> request.timezone, notes |-> request.notes, paused |-> b.paused]
  BY <1>3 DEF Edited
<1>5. new \in Schedule
  <2>1. /\ (IF request.expression THEN "new" ELSE b.timing) \in {"old", "others", "new"}
        /\ (IF request.expression THEN FALSE ELSE b.extras) \in BOOLEAN
    BY <1>1, <1>2
  <2>2. PICK timed, kept :
          /\ timed = IF request.expression THEN "new" ELSE b.timing
          /\ kept = IF request.expression THEN FALSE ELSE b.extras
    BY Zenon
  <2>3. timed \in {"old", "others", "new"} /\ kept \in BOOLEAN
    BY <2>1, <2>2, Zenon
  <2>4. new = [version |-> v, timing |-> timed, extras |-> kept,
               timezone |-> request.timezone, notes |-> request.notes, paused |-> b.paused]
    BY <1>4, <2>2, Zenon
  <2>5. [version |-> v, timing |-> timed, extras |-> kept, timezone |-> request.timezone,
         notes |-> request.notes, paused |-> b.paused] \in Schedule
    BY <1>1, <1>2, <2>3, ScheduleRecord, Zenon
  <2> QED BY <2>4, <2>5, Zenon
<1> QED BY <1>1, <1>4, <1>5 DEF Edited

LEMMA OthersEditFacts ==
  ASSUME TypeOK, OthersEdit
  PROVE  /\ schedule' \in Schedule /\ schedule'.version = schedule.version + 1
         /\ others' \in 0..MaxOthers /\ deployment' = deployment
         /\ UNCHANGED <<op, request, todo, base, changes>>
<1>0. /\ \A n \in Nat : n + 1 \in Nat
      /\ \A n \in Nat : n < MaxOthers => n + 1 \in 0..MaxOthers
  BY BoundsAssumption
<1>1. /\ others < MaxOthers /\ others \in Nat /\ others' = others + 1
      /\ deployment' = deployment
      /\ UNCHANGED <<op, request, todo, base, changes>>
      /\ schedule \in Schedule
  BY BoundsAssumption DEF TypeOK, OthersEdit, Untouched, progressVars
<1>2. PICK v \in Nat, timing \in {"old", "others", "new"}, extras \in BOOLEAN,
           timezone \in {"", "UTC", "others", "new"}, notes \in {"old", "others", "new"},
           paused \in BOOLEAN :
        schedule = [version |-> v, timing |-> timing, extras |-> extras,
                    timezone |-> timezone, notes |-> notes, paused |-> paused]
  <2>1. schedule \in Schedule
    BY <1>1
  <2> QED BY <2>1 DEF Schedule
<1>3. \/ schedule' = [schedule EXCEPT !.version = @ + 1, !.paused = ~@]
      \/ schedule' = [schedule EXCEPT !.version = @ + 1, !.notes = "others"]
      \/ schedule' = [schedule EXCEPT !.version = @ + 1, !.timing = "others",
                                     !.timezone = "others"]
  BY DEF OthersEdit
<1>4. schedule.version = v
  BY <1>2
<1>5. v + 1 \in Nat
  BY <1>0
<1>6. schedule' \in Schedule /\ schedule'.version = v + 1
  <2>1. CASE schedule' = [schedule EXCEPT !.version = @ + 1, !.paused = ~@]
    <3>1. (~ paused) \in BOOLEAN
      OBVIOUS
    <3>2. PICK resumed \in BOOLEAN : resumed = ~ paused
      BY <3>1
    <3>3. schedule' = [version |-> v + 1, timing |-> timing, extras |-> extras,
                       timezone |-> timezone, notes |-> notes, paused |-> resumed]
      BY <1>2, <2>1, <3>2
    <3> QED BY <1>5, <3>3 DEF Schedule
  <2>2. CASE schedule' = [schedule EXCEPT !.version = @ + 1, !.notes = "others"]
    <3>1. schedule' = [version |-> v + 1, timing |-> timing, extras |-> extras,
                       timezone |-> timezone, notes |-> "others", paused |-> paused]
      BY <1>2, <2>2
    <3> QED BY <1>5, <3>1 DEF Schedule
  <2>3. CASE schedule' = [schedule EXCEPT !.version = @ + 1, !.timing = "others",
                                          !.timezone = "others"]
    <3>1. schedule' = [version |-> v + 1, timing |-> "others", extras |-> extras,
                       timezone |-> "others", notes |-> notes, paused |-> paused]
      BY <1>2, <2>3
    <3> QED BY <1>5, <3>1 DEF Schedule
  <2> QED BY <1>3, <2>1, <2>2, <2>3
<1>7. others' \in 0..MaxOthers
  BY <1>0, <1>1, BoundsAssumption
<1> QED BY <1>1, <1>4, <1>6, <1>7

Routed(d) == {d.current, d.ramping} \subseteq d.tracked \cup {NoBuild}

LEMMA DeploymentFacts ==
  ASSUME NEW v \in Nat, NEW tracked \in SUBSET Builds,
         NEW current \in Builds \cup {NoBuild}, NEW ramping \in Builds \cup {NoBuild},
         NEW d, d = [version |-> v, tracked |-> tracked, current |-> current, ramping |-> ramping]
  PROVE  /\ d \in Deployment /\ d.version = v
         /\ {current, ramping} \subseteq tracked \cup {NoBuild} => Routed(d)
  BY DEF Deployment, Routed

LEMMA OthersDeployFacts ==
  ASSUME TypeOK, OthersDeploy
  PROVE  /\ deployment' \in Deployment /\ deployment'.version = deployment.version + 1
         /\ Routed(deployment) => Routed(deployment')
         /\ others' \in 0..MaxOthers /\ schedule' = schedule
         /\ UNCHANGED <<op, request, todo, base, changes>>
<1>1. /\ others < MaxOthers /\ others \in Nat /\ others' = others + 1 /\ schedule' = schedule
      /\ UNCHANGED <<op, request, todo, base, changes>>
      /\ deployment \in Deployment
  BY BoundsAssumption DEF TypeOK, OthersDeploy, Untouched, progressVars
<1>2. PICK b \in Builds :
       \/ deployment' = [deployment EXCEPT !.version = @ + 1, !.tracked = @ \cup {b}]
       \/ /\ b \notin {deployment.current, deployment.ramping}
          /\ deployment' = [deployment EXCEPT !.version = @ + 1, !.tracked = @ \ {b}]
       \/ /\ b \in deployment.tracked
          /\ deployment' = [deployment EXCEPT !.version = @ + 1, !.current = b]
  BY DEF OthersDeploy
<1>3. /\ deployment' \in Deployment /\ deployment'.version = deployment.version + 1
      /\ Routed(deployment) => Routed(deployment')
  <2>1. /\ deployment.version \in Nat /\ deployment.version + 1 \in Nat
        /\ deployment.tracked \in SUBSET Builds
        /\ deployment.current \in Builds \cup {NoBuild}
        /\ deployment.ramping \in Builds \cup {NoBuild}
        /\ deployment = [version |-> deployment.version, tracked |-> deployment.tracked,
                         current |-> deployment.current, ramping |-> deployment.ramping]
    BY <1>1 DEF Deployment
  <2>2. CASE deployment' = [deployment EXCEPT !.version = @ + 1, !.tracked = @ \cup {b}]
    <3>1. deployment' = [version |-> deployment.version + 1, tracked |-> deployment.tracked \cup {b},
                         current |-> deployment.current, ramping |-> deployment.ramping]
      BY <2>1, <2>2
    <3>2. deployment.tracked \cup {b} \in SUBSET Builds /\ deployment.current \in Builds \cup {NoBuild}
      BY <2>1
    <3>3. Routed(deployment) => {deployment.current, deployment.ramping} \subseteq (deployment.tracked \cup {b}) \cup {NoBuild}
      BY <2>1, <2>2 DEF Routed
    <3> QED BY <2>1, <3>1, <3>2, <3>3, DeploymentFacts
  <2>3. CASE /\ b \notin {deployment.current, deployment.ramping}
             /\ deployment' = [deployment EXCEPT !.version = @ + 1, !.tracked = @ \ {b}]
    <3>1. deployment' = [version |-> deployment.version + 1, tracked |-> deployment.tracked \ {b},
                         current |-> deployment.current, ramping |-> deployment.ramping]
      BY <2>1, <2>3
    <3>2. deployment.tracked \ {b} \in SUBSET Builds /\ deployment.current \in Builds \cup {NoBuild}
      BY <2>1
    <3>3. Routed(deployment) => {deployment.current, deployment.ramping} \subseteq (deployment.tracked \ {b}) \cup {NoBuild}
      BY <2>1, <2>3 DEF Routed
    <3> QED BY <2>1, <3>1, <3>2, <3>3, DeploymentFacts
  <2>4. CASE /\ b \in deployment.tracked
             /\ deployment' = [deployment EXCEPT !.version = @ + 1, !.current = b]
    <3>1. deployment' = [version |-> deployment.version + 1, tracked |-> deployment.tracked,
                         current |-> b, ramping |-> deployment.ramping]
      BY <2>1, <2>4
    <3>2. deployment.tracked \in SUBSET Builds /\ b \in Builds \cup {NoBuild}
      BY <2>1
    <3>3. Routed(deployment) => {b, deployment.ramping} \subseteq (deployment.tracked) \cup {NoBuild}
      BY <2>1, <2>4 DEF Routed
    <3> QED BY <2>1, <3>1, <3>2, <3>3, DeploymentFacts
  <2> QED BY <1>2, <2>2, <2>3, <2>4
<1> QED BY <1>1, <1>3, BoundsAssumption

LEMMA ScheduleStep ==
  ASSUME TypeOK, ScheduleEdit, [Next]_vars
  PROVE  ScheduleEdit'
<1>0. op' = op
  BY EveryOtherStepIsQuiet, WriteFacts DEF Quiet
<1> SUFFICES ASSUME EditsSchedule, EditsSchedule'
             PROVE  /\ todo' \in {<<"describe", "verify", "write">>, <<"verify", "write">>,
                                  <<"write">>, <<>>}
                    /\ todo' \in {<<"verify", "write">>, <<"write">>} =>
                         base' \in Schedule /\ BaseFits(schedule)'
  BY <1>0 DEF ScheduleEdit, EditsSchedule
<1>1. /\ todo \in {<<"describe", "verify", "write">>, <<"verify", "write">>, <<"write">>, <<>>}
      /\ todo \in {<<"verify", "write">>, <<"write">>} => base \in Schedule /\ BaseFits(schedule)
      /\ schedule \in Schedule /\ schedule.version \in Nat
  BY DEF ScheduleEdit, TypeOK, Schedule
<1>2. todo # <<>> => Head(todo) \in EditSteps
  BY <1>1, Remaining DEF EditSteps
<1>3. CASE Describe
  <2>1. base' = schedule /\ schedule' = schedule /\ todo # <<>> /\ Head(todo) = "describe"
        /\ todo' = Tail(todo)
    BY <1>3 DEF Describe, At, Proceed, clusterVars
  <2>2. todo' = <<"verify", "write">>
    BY <1>1, <2>1, Remaining
  <2>3. base' \in Schedule /\ BaseFits(schedule)'
    BY <1>1, <2>1 DEF BaseFits
  <2> QED BY <2>2, <2>3
<1>4. CASE Verify
  <2>1. /\ base' = base /\ schedule' = schedule /\ todo # <<>> /\ Head(todo) = "verify"
        /\ todo' = Tail(todo) \/ todo' = todo
    BY <1>4 DEF Verify, At, Proceed, Fails, clusterVars, progressVars
  <2>2. todo = <<"verify", "write">> /\ todo' \in {<<"verify", "write">>, <<"write">>}
    BY <1>1, <2>1, Remaining
  <2> QED BY <1>1, <2>1, <2>2 DEF BaseFits
<1>5. CASE Write
  <2>1. /\ todo # <<>> /\ Head(todo) = "write" /\ base' = base
        /\ todo' = Tail(todo) \/ todo' = todo
    BY <1>5, WriteFacts
  <2>2. todo = <<"write">> /\ todo' \in {<<"write">>, <<>>}
    BY <1>1, <2>1, Remaining
  <2>3. schedule' = [Edited(base) EXCEPT !.version = schedule.version + 1]
    BY <1>5 DEF Write, Applied
  <2>4. base \in Schedule /\ base.version <= schedule.version /\ base.version \in Nat
    BY <1>1, <2>2 DEF BaseFits, Schedule
  <2>5. schedule'.version = schedule.version + 1
    BY <1>1, <2>3, <2>4, ScheduleTypes DEF TypeOK
  <2> QED BY <1>1, <2>1, <2>2, <2>4, <2>5 DEF BaseFits
<1>6. CASE OthersEdit
  <2>1. schedule'.version = schedule.version + 1 /\ UNCHANGED <<todo, base>>
    BY <1>6, OthersEditFacts
  <2>2. base \in Schedule => base.version \in Nat
    BY DEF Schedule
  <2> QED BY <1>1, <2>1, <2>2 DEF BaseFits
<1>7. CASE Check
  <2>1. todo # <<>> /\ Head(todo) = "check"
    BY <1>7 DEF Check, At
  <2> QED BY <1>1, <2>1, Remaining
<1>8. CASE OthersDeploy
  BY <1>8 DEF OthersDeploy, EditsSchedule, EditsRouting
<1>9. CASE ~ Check /\ ~ Describe /\ ~ Verify /\ ~ Write /\ ~ OthersEdit /\ ~ OthersDeploy
  <2>1. UNCHANGED <<todo, base, schedule>>
    BY <1>2, <1>9, EditsStandStill
  <2> QED BY <1>1, <2>1 DEF BaseFits
<1> QED BY <1>3, <1>4, <1>5, <1>6, <1>7, <1>8, <1>9

LEMMA RoutingWrite ==
  ASSUME TypeOK, Write, EditsRouting
  PROVE  /\ deployment' \in Deployment /\ deployment'.version = deployment.version + 1
         /\ request.build \in deployment.tracked \cup {NoBuild} /\ Routed(deployment)
              => Routed(deployment')
<1>1. /\ deployment \in Deployment /\ request.build \in Builds \cup {NoBuild}
  BY DEF TypeOK, Request
<1>2. /\ deployment.version \in Nat /\ deployment.tracked \in SUBSET Builds
      /\ deployment.current \in Builds \cup {NoBuild}
      /\ deployment.ramping \in Builds \cup {NoBuild}
      /\ deployment = [version |-> deployment.version, tracked |-> deployment.tracked,
                       current |-> deployment.current, ramping |-> deployment.ramping]
  BY <1>1 DEF Deployment
<1>3. deployment.version + 1 \in Nat
  BY <1>2
<1>4. \/ deployment' = [deployment EXCEPT !.version = @ + 1, !.current = request.build]
      \/ deployment' = [deployment EXCEPT !.version = @ + 1, !.ramping = request.build]
  BY DEF Write, Applied
<1>5. CASE deployment' = [deployment EXCEPT !.version = @ + 1, !.current = request.build]
  <2>1. deployment' = [version |-> deployment.version + 1, tracked |-> deployment.tracked,
                       current |-> request.build, ramping |-> deployment.ramping]
    BY <1>2, <1>5
  <2>2. request.build \in deployment.tracked \cup {NoBuild} /\ Routed(deployment)
          => {request.build, deployment.ramping} \subseteq deployment.tracked \cup {NoBuild}
    BY DEF Routed
  <2> QED BY <1>1, <1>2, <1>3, <2>1, <2>2, DeploymentFacts
<1>6. CASE deployment' = [deployment EXCEPT !.version = @ + 1, !.ramping = request.build]
  <2>1. deployment' = [version |-> deployment.version + 1, tracked |-> deployment.tracked,
                       current |-> deployment.current, ramping |-> request.build]
    BY <1>2, <1>6
  <2>2. request.build \in deployment.tracked \cup {NoBuild} /\ Routed(deployment)
          => {deployment.current, request.build} \subseteq deployment.tracked \cup {NoBuild}
    BY DEF Routed
  <2> QED BY <1>1, <1>2, <1>3, <2>1, <2>2, DeploymentFacts
<1> QED BY <1>4, <1>5, <1>6

LEMMA RoutingStep ==
  ASSUME TypeOK, RoutingEdit, Routed(deployment), [Next]_vars
  PROVE  RoutingEdit' /\ Routed(deployment')
<1>0. op' = op
  BY EveryOtherStepIsQuiet, WriteFacts DEF Quiet
<1>a. CASE ~ EditsRouting
  <2>1. RoutingEdit'
    BY <1>0, <1>a DEF RoutingEdit, EditsRouting
  <2>2. deployment' = deployment
    <3>1. CASE UNCHANGED vars \/ Done
      BY <3>1 DEF vars, Done, clusterVars
    <3>2. CASE Own
      BY <1>a, <3>2 DEF Own, Check, CallCodec, CodecAnswers, Verify, Inspect, Await, Finish,
         Refused, Describe, Read, DescriptionArrives, Join, Page, Write, Applied, Poll,
         PollWith, clusterVars
    <3>3. CASE OthersEdit
      BY <3>3 DEF OthersEdit
    <3>4. ~ OthersDeploy
      BY <1>a DEF OthersDeploy
    <3> QED BY <3>1, <3>2, <3>3, <3>4 DEF Next
  <2> QED BY <2>1, <2>2
<1>b. CASE EditsRouting
  <2> SUFFICES
        /\ todo' \in {<<"check", "describe", "verify", "write">>,
                      <<"describe", "verify", "write">>, <<"verify", "write">>, <<"write">>,
                      <<>>}
        /\ todo' \in {<<"verify", "write">>, <<"write">>} =>
             base' \in Deployment /\ BaseFits(deployment)'
        /\ todo' = <<"write">> => request'.build \in base'.tracked \cup {NoBuild}
        /\ Routed(deployment')
    BY DEF RoutingEdit
  <2>1. /\ todo \in {<<"check", "describe", "verify", "write">>,
                     <<"describe", "verify", "write">>, <<"verify", "write">>, <<"write">>,
                     <<>>}
        /\ todo \in {<<"verify", "write">>, <<"write">>} =>
             base \in Deployment /\ BaseFits(deployment)
        /\ todo = <<"write">> => request.build \in base.tracked \cup {NoBuild}
        /\ deployment \in Deployment /\ deployment.version \in Nat
    BY <1>b DEF RoutingEdit, TypeOK, Deployment
  <2>2. todo # <<>> => Head(todo) \in EditSteps
    BY <2>1, Remaining DEF EditSteps
  <2>3. CASE Check
    <3>1. /\ todo # <<>> /\ Head(todo) = "check"
          /\ UNCHANGED <<base, deployment, request>>
          /\ todo' = Tail(todo) \/ todo' = todo
      BY <2>3 DEF Check, At, Proceed, Fails, clusterVars, progressVars
    <3>2. \/ todo' = <<"describe", "verify", "write">>
          \/ todo' = <<"check", "describe", "verify", "write">>
      BY <2>1, <3>1, Remaining
    <3>3. todo' # <<>> /\ Head(todo') \in {"check", "describe"}
      BY <3>2, Remaining
    <3>4. todo' # <<"verify", "write">> /\ todo' # <<"write">>
      BY <3>3, Remaining
    <3> QED BY <3>1, <3>2, <3>4
  <2>4. CASE Describe
    <3>1. /\ base' = deployment /\ todo # <<>> /\ Head(todo) = "describe"
          /\ UNCHANGED <<deployment, request>>
          /\ todo' = Tail(todo)
      BY <1>b, <2>4 DEF Describe, At, Proceed, clusterVars, EditsSchedule, EditsRouting
    <3>2. todo' = <<"verify", "write">>
      BY <2>1, <3>1, Remaining
    <3>3. base' \in Deployment /\ BaseFits(deployment)'
      BY <2>1, <3>1 DEF BaseFits
    <3>4. todo' # <<"write">>
      BY <3>2, Remaining
    <3> QED BY <3>1, <3>2, <3>3, <3>4
  <2>5. CASE Verify
    <3>1. /\ todo # <<>> /\ Head(todo) = "verify"
          /\ UNCHANGED <<base, deployment, request>>
          /\ \/ Verified /\ todo' = Tail(todo)
             \/ todo' = todo
      BY <2>5 DEF Verify, At, Proceed, Fails, clusterVars, progressVars
    <3>2. todo = <<"verify", "write">>
      BY <2>1, <3>1, Remaining
    <3>3. base' \in Deployment /\ BaseFits(deployment)'
      BY <2>1, <3>1, <3>2 DEF BaseFits
    <3>4. \/ Verified /\ todo' = <<"write">>
          \/ todo' = <<"verify", "write">> /\ todo' # <<"write">>
      BY <3>1, <3>2, Remaining
    <3>5. Verified => request'.build \in base'.tracked \cup {NoBuild}
      BY <1>b, <3>1 DEF Verified
    <3> QED BY <3>1, <3>3, <3>4, <3>5
  <2>6. CASE Write
    <3>1. /\ todo # <<>> /\ Head(todo) = "write" /\ base' = base /\ request' = request
          /\ todo' = Tail(todo) \/ todo' = todo
      BY <2>6, WriteFacts
    <3>2. todo = <<"write">> /\ todo' \in {<<"write">>, <<>>}
      BY <2>1, <3>1, Remaining
    <3>3. /\ base \in Deployment /\ base.version \in Nat /\ base.version <= deployment.version
          /\ base.version = deployment.version => base = deployment
      BY <2>1, <3>2 DEF BaseFits, Deployment
    <3>4. base.version = deployment.version
      BY <1>b, <2>6 DEF Write, Current
    <3>5. /\ deployment'.version = deployment.version + 1
          /\ Routed(deployment')
      BY <1>b, <2>1, <2>6, <3>2, <3>3, <3>4, RoutingWrite
    <3>6. BaseFits(deployment)'
      BY <2>1, <3>1, <3>3, <3>5 DEF BaseFits
    <3> QED BY <2>1, <3>1, <3>2, <3>3, <3>5, <3>6
  <2>7. CASE OthersDeploy
    <3>1. /\ deployment'.version = deployment.version + 1 /\ UNCHANGED <<todo, base, request>>
          /\ Routed(deployment')
      BY <2>7, OthersDeployFacts
    <3>2. base \in Deployment => base.version \in Nat
      BY DEF Deployment
    <3>3. base \in Deployment /\ BaseFits(deployment) => BaseFits(deployment)'
      BY <2>1, <3>1, <3>2 DEF BaseFits
    <3> QED BY <2>1, <3>1, <3>3
  <2>8. ~ OthersEdit
    BY <1>b DEF OthersEdit, EditsSchedule, EditsRouting
  <2>9. CASE ~ Check /\ ~ Describe /\ ~ Verify /\ ~ Write /\ ~ OthersEdit /\ ~ OthersDeploy
    <3>1. UNCHANGED <<todo, base, deployment, request>>
      BY <2>2, <2>9, EditsStandStill
    <3>2. BaseFits(deployment) => BaseFits(deployment)'
      BY <3>1 DEF BaseFits
    <3> QED BY <2>1, <3>1, <3>2
  <2> QED BY <2>3, <2>4, <2>5, <2>6, <2>7, <2>8, <2>9
<1> QED BY <1>a, <1>b

-----------------------------------------------------------------------------
(* Types                                                                    *)

LEMMA ControlTypes ==
  ASSUME TypeOK, Counted, [Next]_vars
  PROVE  /\ op' \in Operations /\ request' \in Request /\ todo' \in Seq(StepNames)
         /\ changes' \in Nat /\ result' \in {"none", "ok", "error"}
<1>1. /\ op \in Operations /\ request \in Request /\ todo \in Seq(StepNames)
      /\ changes \in Nat /\ result \in {"none", "ok", "error"}
  BY DEF TypeOK
<1>2. CASE Write
  BY <1>1, <1>2, WriteFacts, TodoStep
<1>3. CASE ~ Write
  <2>1. todo' \in Seq(StepNames)
    BY <1>1, TodoStep
  <2> QED BY <1>1, <1>3, <2>1, EveryOtherStepIsQuiet DEF Quiet
<1> QED BY <1>2, <1>3

LEMMA PagesType ==
  ASSUME TypeOK, PagesLeft, [Next]_vars
  PROVE  pages' \in 0..MaxPages
<1>1. /\ pages \in 0..MaxPages /\ request.pages \in 1..MaxPages /\ MaxPages \in Nat
      /\ todo \in Seq(StepNames)
  BY BoundsAssumption DEF TypeOK, Request
<1>2. CASE Page
  <2>1. todo # <<>> /\ Head(todo) = "page" /\ pages' = pages + 1
    BY <1>2 DEF Page, At
  <2>2. Has(todo, "page")
    BY <1>1, <2>1, TailFacts DEF Has
  <2>3. pages < request.pages
    BY <2>1, <2>2 DEF PagesLeft
  <2> QED BY <1>1, <2>1, <2>3
<1>3. CASE ~ Page
  BY <1>1, <1>3, OnlyPageReadsPages
<1> QED BY <1>2, <1>3

\* The steps that change what was read, what there is, or what an update said.
LEMMA AllElseStays ==
  ASSUME [Next]_vars, ~ Describe, ~ Write, ~ Poll, ~ OthersEdit, ~ OthersDeploy
  PROVE  UNCHANGED <<base, schedule, deployment, others, outcome, reference>>
<1> USE DEF clusterVars, progressVars
<1>1. CASE UNCHANGED vars \/ Done
  BY <1>1 DEF vars, Done
<1>2. CASE Check
  BY <1>2 DEF Check
<1>3. CASE CallCodec
  BY <1>3 DEF CallCodec
<1>4. CASE CodecAnswers
  BY <1>4 DEF CodecAnswers
<1>5. CASE Verify
  BY <1>5 DEF Verify
<1>6. CASE Inspect
  BY <1>6 DEF Inspect
<1>7. CASE Await
  BY <1>7 DEF Await
<1>8. CASE Finish
  BY <1>8 DEF Finish
<1>9. CASE Refused
  BY <1>9 DEF Refused
<1>10. CASE Read
  BY <1>10 DEF Read
<1>11. CASE Page
  BY <1>11 DEF Page
<1>12. CASE DescriptionArrives
  BY <1>12 DEF DescriptionArrives
<1>13. CASE Join
  BY <1>13 DEF Join
<1> QED BY <1>1, <1>2, <1>3, <1>4, <1>5, <1>6, <1>7, <1>8, <1>9, <1>10, <1>11, <1>12, <1>13
     DEF Next, Own

\* The description of a workflow is here or is not.
LEMMA DescribedType ==
  ASSUME TypeOK, [Next]_vars
  PROVE  described' \in BOOLEAN
<1>1. described \in BOOLEAN
  BY DEF TypeOK
<1>2. CASE DescriptionArrives
  BY <1>1, <1>2 DEF DescriptionArrives
<1>3. CASE ~ DescriptionArrives
  <2>1. CASE UNCHANGED vars \/ Done
    BY <1>1, <2>1 DEF vars, Done, progressVars
  <2>2. CASE Own
    BY <1>1, <1>3, <2>2 DEF Own, progressVars, Check, CallCodec, CodecAnswers, Verify, Inspect,
       Await, Finish, Refused, Describe, Read, Join, Page, Write, Poll, PollWith
  <2>3. CASE OthersEdit \/ OthersDeploy
    BY <1>1, <2>3 DEF OthersEdit, OthersDeploy, Untouched, progressVars
  <2> QED BY <2>1, <2>2, <2>3 DEF Next
<1> QED BY <1>2, <1>3

\* The base of a write is the schedule as it is.
LEMMA ScheduleWrite ==
  ASSUME TypeOK, ScheduleEdit, Write, EditsSchedule
  PROVE  /\ schedule \in Schedule /\ request \in Request
         /\ schedule' = [Edited(schedule) EXCEPT !.version = schedule.version + 1]
         /\ schedule.version + 1 \in Nat
<1>1. todo # <<>> /\ Head(todo) = "write"
  BY WriteFacts
<1>2. /\ todo \in {<<"describe", "verify", "write">>, <<"verify", "write">>, <<"write">>, <<>>}
      /\ todo \in {<<"verify", "write">>, <<"write">>} => base \in Schedule /\ BaseFits(schedule)
  BY DEF ScheduleEdit
<1>3. todo = <<"write">>
  BY <1>1, <1>2, Remaining
<1>4. base.version = schedule.version
  BY DEF Write, Current
<1>5. base = schedule
  BY <1>2, <1>3, <1>4 DEF BaseFits
<1>6. schedule \in Schedule /\ request \in Request /\ schedule.version \in Nat
  BY DEF TypeOK, Schedule
<1>7. schedule' = [Edited(base) EXCEPT !.version = schedule.version + 1]
  BY DEF Write, Applied
<1> QED BY <1>5, <1>6, <1>7

LEMMA DataTypes ==
  ASSUME TypeOK, ScheduleEdit, [Next]_vars
  PROVE  /\ base' \in {NoBase} \cup Schedule \cup Deployment
         /\ schedule' \in Schedule /\ deployment' \in Deployment
         /\ others' \in 0..MaxOthers
         /\ outcome' \in {"none", "some", "empty"} /\ reference' \in BOOLEAN
<1>1. /\ base \in {NoBase} \cup Schedule \cup Deployment
      /\ schedule \in Schedule /\ deployment \in Deployment
      /\ others \in 0..MaxOthers
      /\ outcome \in {"none", "some", "empty"} /\ reference \in BOOLEAN
  BY DEF TypeOK
<1>2. CASE Describe
  <2>1. /\ base' \in {schedule, deployment}
        /\ UNCHANGED <<schedule, deployment, others, outcome, reference>>
    BY <1>2 DEF Describe, clusterVars
  <2> QED BY <1>1, <2>1
<1>3. CASE Write
  <2>1. base' = base /\ others' = others
    BY <1>3, WriteFacts
  <2>2. outcome' \in {"none", "some", "empty"} /\ reference' \in BOOLEAN
    BY <1>1, <1>3 DEF Write, Answers
  <2>3. schedule' \in Schedule
    <3>1. CASE EditsSchedule
      BY <1>3, <3>1, ScheduleWrite, ScheduleTypes
    <3>2. CASE ~ EditsSchedule
      BY <1>1, <1>3, <3>2 DEF Write, Applied
    <3> QED BY <3>1, <3>2
  <2>4. deployment' \in Deployment
    <3>1. CASE EditsRouting
      BY <1>3, <3>1, RoutingWrite
    <3>2. CASE ~ EditsRouting
      BY <1>1, <1>3, <3>2 DEF Write, Applied
    <3> QED BY <3>1, <3>2
  <2> QED BY <1>1, <2>1, <2>2, <2>3, <2>4
<1>4. CASE Poll
  <2>1. /\ UNCHANGED <<base, schedule, deployment, others>>
        /\ outcome' \in Polled
        /\ \E given \in BOOLEAN : reference' = (reference \/ given)
    BY <1>4 DEF Poll, PollWith, OutcomeOf, clusterVars
  <2>2. reference' \in BOOLEAN
    BY <2>1
  <2>3. outcome' \in {"none", "some", "empty"}
    BY <2>1 DEF Polled
  <2> QED BY <1>1, <2>1, <2>2, <2>3
<1>5. CASE OthersEdit
  <2>1. UNCHANGED <<outcome, reference>>
    BY <1>5 DEF OthersEdit, Untouched, progressVars
  <2> QED BY <1>1, <1>5, <2>1, OthersEditFacts
<1>6. CASE OthersDeploy
  <2>1. UNCHANGED <<outcome, reference>>
    BY <1>6 DEF OthersDeploy, Untouched, progressVars
  <2> QED BY <1>1, <1>6, <2>1, OthersDeployFacts
<1>7. CASE ~ Describe /\ ~ Write /\ ~ Poll /\ ~ OthersEdit /\ ~ OthersDeploy
  <2>1. UNCHANGED <<base, schedule, deployment, others, outcome, reference>>
    BY <1>7, AllElseStays
  <2> QED BY <1>1, <2>1
<1> QED BY <1>2, <1>3, <1>4, <1>5, <1>6, <1>7

-----------------------------------------------------------------------------
(* The invariant holds                                                      *)

LEMMA InitInv == Init => Inv
<1> SUFFICES ASSUME Init PROVE Inv
  OBVIOUS
<1>1. /\ op \in AllOperations /\ op \in Operations /\ todo = Steps(op)
      /\ request \in RequestsOf(op) /\ configured \in BOOLEAN /\ base = NoBase
      /\ others = 0 /\ outcome = "none" /\ reference = FALSE /\ pages = 0 /\ changes = 0
      /\ described = FALSE /\ result = "none"
  BY OperationsAssumption DEF Init
<1>2. PICK arguments \in ArgumentsOf(op) : CodecRests(arguments)
  BY DEF Init
<1>3. arguments \in Seq(Nat) /\ Settled
  BY <1>1, <1>2, ArgumentsFacts
<1>4. CodecTypeOK /\ InOrder /\ Sendings /\ Fits
  BY <1>1, <1>2, <1>3, RestFacts
<1>5. schedule \in Schedule
  <2>1. PICK zone \in {"", "UTC"} :
          schedule = [version |-> 1, timing |-> "old", extras |-> TRUE, timezone |-> zone,
                      notes |-> "old", paused |-> FALSE]
    BY DEF Init
  <2> QED BY <2>1 DEF Schedule
<1>6. deployment \in Deployment /\ RoutesToTracked
  <2>1. deployment = [version |-> 1, tracked |-> {"b1"}, current |-> "b1", ramping |-> NoBuild]
    BY DEF Init
  <2> QED BY <2>1 DEF Deployment, RoutesToTracked, Builds
<1>7. TypeOK
  <2>1. todo \in Seq(StepNames) /\ request \in Request
    BY <1>1, StepsFacts, RequestsFacts
  <2>2. others \in 0..MaxOthers /\ pages \in 0..MaxPages
    BY <1>1, BoundsAssumption
  <2> QED BY <1>1, <1>4, <1>5, <1>6, <2>1, <2>2 DEF TypeOK
<1>8. Counted /\ PagesLeft
  BY CountedInit, PagesInit
<1>9. op = "update_schedule" => todo = <<"describe", "verify", "write">>
  BY <1>1, Names DEF Steps, Writers, UpdateSchedule, WriterNames
<1>10. op = "set_current" => todo = <<"describe", "verify", "write">>
  BY <1>1, Names DEF Steps, Writers, SetCurrent, WriterNames
<1>11. op = "set_ramping" => todo = <<"check", "describe", "verify", "write">>
  BY <1>1, Names DEF Steps, Writers, SetRamping, WriterNames
<1>12. /\ todo = <<"describe", "verify", "write">> \/ todo = <<"check", "describe", "verify", "write">>
            => todo \notin {<<"verify", "write">>, <<"write">>}
  BY Remaining
<1>13. ScheduleEdit
  BY <1>9, <1>12 DEF ScheduleEdit, EditsSchedule
<1>14. RoutingEdit
  BY <1>10, <1>11, <1>12 DEF RoutingEdit, EditsRouting
<1> QED BY <1>3, <1>4, <1>6, <1>7, <1>8, <1>13, <1>14 DEF Inv

LEMMA NextInv == Inv /\ [Next]_vars => Inv'
<1> SUFFICES ASSUME Inv, [Next]_vars PROVE Inv'
  OBVIOUS
<1>1. /\ TypeOK /\ InOrder /\ Sendings /\ Fits /\ Settled /\ Counted /\ PagesLeft
      /\ ScheduleEdit /\ RoutingEdit /\ Routed(deployment)
      /\ todo \in Seq(StepNames)
  BY DEF Inv, RoutesToTracked, Routed, TypeOK
<1>2. CodecTypeOK' /\ InOrder' /\ Sendings' /\ Fits'
  BY <1>1, CodecTypeStep
<1>3. TypeOK'
  BY <1>1, <1>2, ControlTypes, PagesType, DataTypes, DescribedType DEF TypeOK
<1>4. Settled'
  BY <1>1, SettledStep
<1>5. Counted' /\ PagesLeft'
  BY <1>1, CountedStep, PagesStep
<1>6. ScheduleEdit' /\ RoutingEdit' /\ Routed(deployment')
  BY <1>1, ScheduleStep, RoutingStep
<1>7. RoutesToTracked'
  BY <1>6 DEF RoutesToTracked, Routed
<1> QED BY <1>2, <1>3, <1>4, <1>5, <1>6, <1>7 DEF Inv

LEMMA Invariance == Spec => []Inv
  BY InitInv, NextInv, PTL DEF Spec

\* Every reachable state of a command is well-typed.
THEOREM CallsTypeCorrect == Spec => []TypeOK
<1>1. Inv => TypeOK
  BY DEF Inv
<1> QED BY <1>1, Invariance, PTL

\* Messages that were encoded or decoded, and lists that were read, are handed
\* on whole, for any limits of the codec and messages of any length.
THEOREM AnswersHold == Spec => []AnswersAreWhole
<1>1. Inv => AnswersAreWhole
  <2> SUFFICES ASSUME Inv PROVE AnswersAreWhole
    OBVIOUS
  <2>1. WholeWhenDone
    BY DoneIsWhole DEF Inv, TypeOK, WholeWhenDone
  <2>2. ASSUME result = "ok" PROVE Whole
    <3>1. todo = <<>>
      BY <2>2 DEF Inv, Counted
    <3>2. Len(todo) = 0
      BY <3>1
    <3>3. ~ Ahead(todo)
      BY <3>2 DEF Ahead
    <3> QED BY <3>3 DEF Inv, Settled
  <2>3. ASSUME result = "ok", "page" \in Range(Steps(op)) PROVE pages = request.pages
    <3>1. Has(Steps(op), "page")
      BY <2>3, OperationsAssumption, StepsFacts, RangeIsHas DEF Inv, TypeOK
    <3>2. todo = <<>>
      BY <2>3 DEF Inv, Counted
    <3>3. todo # <<"page">>
      BY <3>2, OnePage
    <3> QED BY <3>1, <3>3 DEF Inv, PagesLeft
  <2> QED BY <2>1, <2>2, <2>3 DEF AnswersAreWhole
<1> QED BY <1>1, Invariance, PTL

\* No payload reaches the Codec Server more than twice.
THEOREM TwiceAtMostHolds == Spec => []TwiceAtMost
<1>1. Inv => TwiceAtMost
  <2> SUFFICES ASSUME Inv PROVE TwiceAtMost
    OBVIOUS
  <2>1. /\ DOMAIN sends = 1..Len(message)
        /\ DOMAIN transformed = 1..Len(transformed)
    BY DEF Inv, TypeOK, CodecTypeOK
  <2>2. \A place \in 1..Len(message) : sends[place] <= 2
    BY DEF Inv, Sendings
  <2>3. \A i \in 1..Len(transformed) : transformed[i] = i
    BY DEF Inv, InOrder
  <2> QED BY <2>1, <2>2, <2>3 DEF TwiceAtMost
<1> QED BY <1>1, Invariance, PTL

\* Whatever the limits, and however a message is cut, no POST to the Codec
\* Server carries more payloads or bytes than it may, and no payload reaches it
\* more than twice.
THEOREM ServerIsSparedHolds == Spec => []ServerIsSpared
<1>1. Inv => ChunksWithinLimits
  <2> SUFFICES ASSUME Inv, phase = "post"
               PROVE  /\ Len(chunk) \in 1..MaxPayloads
                      /\ SumFunctionOnSet(message, Pending) <= MaxBytes
    BY DEF ChunksWithinLimits, Pending
  <2>1. Fits /\ chunk \in Seq(Nat)
    BY DEF Inv, TypeOK, CodecTypeOK
  <2>2. Len(chunk) # 0 /\ Len(chunk) \in Nat
    BY <2>1, EmptySeq DEF Fits
  <2> QED BY <2>1, <2>2, LimitsAssumption DEF Fits
<1> QED BY <1>1, TwiceAtMostHolds, Invariance, PTL DEF ServerIsSpared

\* The arguments of a change or of a query leave only when the codec has dealt
\* with all of them, for any limits of the codec and arguments of any length.
THEOREM SentWholeHolds == Spec => SentWhole
<1>1. Inv /\ [Next]_vars => [Write \/ Read => Whole]_vars
  BY SettledBefore DEF Inv
<1> QED BY <1>1, Invariance, PTL DEF Spec, SentWhole

\* Traffic is routed to builds of the deployment only, however many other
\* clients change it between the lookup and the write.
THEOREM RoutesHold == Spec => []RoutesToTracked
<1>1. Inv => RoutesToTracked
  BY DEF Inv
<1> QED BY <1>1, Invariance, PTL

\* A schedule edit never pauses or resumes, and without a new expression leaves
\* calendars, jitter and limits as they are, however many others edit the
\* schedule.  Its time zone and notes are another matter.
THEOREM EditsHold == Spec => EditsKeepTheRest
<1> DEFINE Kept == EditsSchedule /\ changes' # changes =>
                     /\ schedule'.paused = schedule.paused
                     /\ request.expression \/ (schedule'.timing = schedule.timing
                                                /\ schedule'.extras = schedule.extras)
<1>1. Inv /\ [Next]_vars => Kept
  <2> SUFFICES ASSUME Inv, [Next]_vars, EditsSchedule, changes' # changes
               PROVE  /\ schedule'.paused = schedule.paused
                      /\ request.expression \/ (schedule'.timing = schedule.timing
                                                 /\ schedule'.extras = schedule.extras)
    OBVIOUS
  <2>1. Write
    BY EveryOtherStepIsQuiet DEF Quiet
  <2>2. /\ schedule \in Schedule /\ request \in Request
        /\ schedule' = [Edited(schedule) EXCEPT !.version = schedule.version + 1]
        /\ schedule.version + 1 \in Nat
    BY <2>1, ScheduleWrite DEF Inv
  <2>3. PICK v, timing, extras, timezone, notes, paused :
          schedule = [version |-> v, timing |-> timing, extras |-> extras,
                      timezone |-> timezone, notes |-> notes, paused |-> paused]
    BY <2>2 DEF Schedule
  <2>4. schedule' = [version |-> schedule.version + 1,
                     timing |-> IF request.expression THEN "new" ELSE timing,
                     extras |-> IF request.expression THEN FALSE ELSE extras,
                     timezone |-> request.timezone, notes |-> request.notes,
                     paused |-> paused]
    BY <2>2, <2>3 DEF Edited
  <2>5. schedule'.paused = schedule.paused
    BY <2>3, <2>4
  <2>6. ASSUME ~ request.expression
        PROVE  schedule'.timing = schedule.timing /\ schedule'.extras = schedule.extras
    BY <2>3, <2>4, <2>6
  <2> QED BY <2>5, <2>6
<1>2. Inv /\ [Next]_vars => [Kept]_vars
  BY <1>1
<1> QED BY <1>2, Invariance, PTL DEF Spec, EditsKeepTheRest

\* Only a step that is left can fail.
LEMMA ErrorsComeFromSteps ==
  ASSUME [Next]_vars, result = "none", result' = "error", todo = <<>>
  PROVE  FALSE
<1>1. \A step : ~ At(step)
  BY DEF At
<1>2. CASE UNCHANGED vars \/ Done
  BY <1>2 DEF vars, Done
<1>3. CASE OthersEdit \/ OthersDeploy
  BY <1>3 DEF OthersEdit, OthersDeploy, Untouched
<1>4. CASE Own /\ ~ DescriptionArrives
  BY <1>1, <1>4 DEF Own, Check, CallCodec, CodecAnswers, Verify, Inspect, Await, Finish, Refused,
     Describe, Read, Join, Page, Write, Poll, PollWith
<1>5. "join" \notin Range(todo)
  <2>1. DOMAIN <<>> = {}
    OBVIOUS
  <2> QED BY <2>1 DEF Range
<1>6. ~ DescriptionArrives
  BY <1>5 DEF DescriptionArrives
<1> QED BY <1>2, <1>3, <1>4, <1>6 DEF Next

\* Every command is one call, as OneCall says: it changes the cluster at most
\* once and reports success only of a change that was made.
THEOREM CommandsAreCalls == Spec => Call!SafeSpec
<1>1. Init => Call!Init
  <2> SUFFICES ASSUME Init PROVE Call!Init
    OBVIOUS
  <2>1. (op \in DOMAIN Writers) \in BOOLEAN
    OBVIOUS
  <2>2. (op = "update_workflow") \in BOOLEAN
    OBVIOUS
  <2>3. changes = 0 /\ result = "none"
    BY DEF Init
  <2> QED BY <2>1, <2>2, <2>3 DEF Call!Init
<1>2. Inv /\ [Next]_vars => [Call!Next]_(Call!vars)
  <2> SUFFICES ASSUME Inv, [Next]_vars PROVE [Call!Next]_(Call!vars)
    OBVIOUS
  <2> USE DEF Call!Next, Call!Change, Call!Succeed, Call!Fail, Call!vars
  <2>1. Counted /\ todo \in Seq(StepNames)
    BY DEF Inv, TypeOK
  <2>2. CASE Write
    <3>1. /\ result = "none" /\ todo # <<>> /\ Head(todo) = "write" /\ changes' = changes + 1
          /\ op' = op /\ result' \in {"none", "error"}
      BY <2>2, WriteFacts
    <3>2. Has(todo, "write")
      BY <2>1, <3>1, TailFacts DEF Has
    <3>3. op \in DOMAIN Writers /\ changes = 0
      BY <2>1, <3>1, <3>2 DEF Counted
    <3> QED BY <3>1, <3>3
  <2>3. CASE ~ Write
    <3>1. Quiet
      BY <2>3, EveryOtherStepIsQuiet
    <3>2. CASE result' = result
      BY <3>1, <3>2 DEF Quiet
    <3>3. CASE result = "none" /\ result' = "error" /\ UNCHANGED todo
      <4>1. changes = 0 \/ op = "update_workflow"
        <5>1. ASSUME changes # 0, op # "update_workflow" PROVE FALSE
          <6>1. todo = <<>>
            BY <2>1, <3>3, <5>1 DEF Counted
          <6> QED BY <2>3, <3>1, <3>3, <6>1, ErrorsComeFromSteps
        <5> QED BY <5>1
      <4> QED BY <3>1, <3>3, <4>1 DEF Quiet
    <3>4. CASE result = "none" /\ result' = "ok" /\ todo = <<>>
      <4>1. op \in DOMAIN Writers => changes = 1
        BY <2>1, <3>4 DEF Counted, OneWrite
      <4> QED BY <3>1, <3>4, <4>1 DEF Quiet
    <3> QED BY <3>1, <3>2, <3>3, <3>4 DEF Quiet
  <2> QED BY <2>2, <2>3
<1> QED BY <1>1, <1>2, Invariance, PTL DEF Spec, Call!SafeSpec

-----------------------------------------------------------------------------
(* A command gets on                                                        *)

\* How many steps a transform can still take: each payload is taken once, and
\* the chunk it ends in is posted at most twice before its answer is taken.
PayloadsLeft == Len(message) + 1 - at

Effort ==
  CASE phase = "off"  -> 5 * PayloadsLeft + 6
    [] phase = "loop" -> 5 * PayloadsLeft + (IF chunk = <<>> THEN 1 ELSE 5)
    [] phase = "post" -> 5 * PayloadsLeft + 3 - attempt
    [] OTHER          -> 0

\* The command is answered, or one of its steps is behind it, or one of its
\* pages, or the description it waits for, or a step of the codec; or an update
\* has no outcome yet.
GetsOn ==
  \/ result' # "none"
  \/ Len(todo') < Len(todo)
  \/ UNCHANGED todo /\ pages < pages' /\ pages' < request.pages
  \/ UNCHANGED <<todo, pages>> /\ ~ described /\ described'
  \/ UNCHANGED <<todo, pages, described>> /\ Effort' < Effort /\ Effort' \in Nat
  \/ outcome = "none" /\ reference /\ todo' = <<"poll", "decode">> \o todo

CommandsGetOn == [][Own => GetsOn]_vars

LEMMA CodecGetsOn ==
  ASSUME CodecTypeOK, InOrder, Sendings, StartTransform \/ TransformStep
  PROVE  Effort' < Effort /\ Effort' \in Nat
<1>0. /\ at \in Nat /\ Len(message) \in Nat /\ PayloadsLeft \in Nat
      /\ attempt \in 0..1 /\ chunk \in Seq(Nat)
  BY DEF CodecTypeOK, InOrder, PayloadsLeft
<1>1. CodecTypeOK' /\ InOrder'
  BY CodecStep
<1>2. PayloadsLeft' \in Nat /\ attempt' \in 0..1
  BY <1>1 DEF CodecTypeOK, InOrder, PayloadsLeft
<1>3. CASE StartTransform
  <2>1. phase = "off" /\ phase' \in {"loop", "done"} /\ PayloadsLeft' = PayloadsLeft
    BY <1>3 DEF StartTransform, loopVars, PayloadsLeft
  <2> QED BY <1>0, <2>1 DEF Effort
<1>4. CASE TakePayload
  <2>1. phase = "loop" /\ phase' = "loop" /\ PayloadsLeft = PayloadsLeft' + 1
    BY <1>0, <1>4 DEF TakePayload, PayloadsLeft
  <2> QED BY <1>2, <2>1 DEF Effort
<1>5. CASE PostChunk
  <2>1. /\ phase = "loop" /\ chunk # <<>> /\ phase' = "post" /\ attempt' = 0
        /\ PayloadsLeft' = PayloadsLeft
    BY <1>5 DEF PostChunk, Flushes, loopVars, PayloadsLeft
  <2> QED BY <1>0, <2>1 DEF Effort
<1>6. CASE RefusePayload \/ RejectChunk \/ BadResponse \/ EndTransform
  <2>1. phase \in {"loop", "post"} /\ phase' \in {"done", "failed"}
    BY <1>6 DEF RefusePayload, RejectChunk, Flushes, BadResponse, EndTransform
  <2>2. Effort' = 0
    BY <2>1 DEF Effort
  <2>3. Effort \in Nat \ {0}
    BY <1>0, <2>1 DEF Effort
  <2> QED BY <2>2, <2>3
<1>7. CASE NoResponse
  <2>1. phase = "post" /\ PayloadsLeft' = PayloadsLeft
    BY <1>7 DEF NoResponse, loopVars, PayloadsLeft
  <2>2. Effort = 5 * PayloadsLeft + 3 - attempt
    BY <2>1 DEF Effort
  <2>3. CASE LastAttempt
    <3>1. phase' = "failed"
      BY <1>7, <2>3 DEF NoResponse
    <3>2. Effort' = 0
      BY <3>1 DEF Effort
    <3> QED BY <1>0, <2>2, <3>2
  <2>4. CASE ~ LastAttempt
    <3>1. attempt = 0 /\ attempt' = 1 /\ phase' = "post"
      BY <1>7, <2>1, <2>4 DEF NoResponse, LastAttempt
    <3>2. Effort' = 5 * PayloadsLeft + 2
      BY <1>0, <2>1, <3>1 DEF Effort
    <3> QED BY <1>0, <2>2, <3>1, <3>2
  <2> QED BY <2>3, <2>4
<1>8. CASE GoodResponse
  <2>1. /\ phase = "post" /\ phase' = "loop" /\ chunk' = <<>>
        /\ PayloadsLeft' = PayloadsLeft
    BY <1>8 DEF GoodResponse, RestOfChunk, PayloadsLeft
  <2> QED BY <1>0, <2>1 DEF Effort
<1> QED BY <1>3, <1>4, <1>5, <1>6, <1>7, <1>8 DEF TransformStep

\* Every step of a command's task gets it on, so that it is answered after
\* finitely many: only an update without an outcome can make it wait, and only
\* for a poll.
THEOREM CommandsGetOnHolds == Spec => CommandsGetOn
<1>1. ASSUME Inv, Own PROVE GetsOn
  <2>1. /\ todo \in Seq(StepNames) /\ PagesLeft
        /\ CodecTypeOK /\ InOrder /\ Sendings
    BY <1>1 DEF Inv, TypeOK
  <2>2. todo # <<>> => Len(Tail(todo)) < Len(todo)
    BY <2>1
  <2>3. ASSUME Proceed, todo # <<>> PROVE GetsOn
    BY <2>2, <2>3 DEF Proceed, GetsOn
  <2>4. ASSUME Fails PROVE GetsOn
    BY <2>4 DEF Fails, GetsOn
  <2>5. CASE CallCodec
    BY <1>1, <2>1, <2>5, CodecGetsOn DEF CallCodec, progressVars, GetsOn
  <2>6. CASE Page
    <3>1. todo = <<"page">> /\ pages < request.pages
      <4>1. Has(todo, "page")
        BY <2>1, <2>6, TailFacts DEF Page, At, Has
      <4> QED BY <2>1, <2>6, <4>1 DEF PagesLeft, Page, At
    <3>2. pages \in Nat /\ request.pages \in Nat
      BY <1>1, BoundsAssumption DEF Inv, TypeOK, Request
    <3>3. CASE LastPage
      BY <2>3, <2>6, <3>3 DEF Page, At
    <3>4. CASE ~ LastPage
      <4>1. pages' = pages + 1 /\ UNCHANGED todo /\ pages + 1 # request.pages
        BY <2>6, <3>4 DEF Page, LastPage
      <4> QED BY <3>1, <3>2, <4>1 DEF GetsOn
    <3> QED BY <3>3, <3>4
  <2>7. CASE Await
    BY <2>3, <2>4, <2>7 DEF Await, At, GetsOn
  <2>8. CASE Finish
    BY <2>8 DEF Finish, GetsOn
  <2>9. CASE Check \/ CodecAnswers \/ Verify \/ Inspect
    BY <2>3, <2>4, <2>9 DEF Check, CodecAnswers, Verify, Inspect, At
  <2>10. CASE Refused
    BY <2>4, <2>10 DEF Refused
  <2>11. CASE Describe \/ Read \/ Join \/ Write \/ Poll
    BY <2>3, <2>4, <2>11 DEF Describe, Read, Join, Write, Poll, PollWith, At
  <2>12. CASE DescriptionArrives
    BY <2>4, <2>12 DEF DescriptionArrives, GetsOn
  <2> QED BY <1>1, <2>5, <2>6, <2>7, <2>8, <2>9, <2>10, <2>11, <2>12 DEF Own
<1>2. Inv /\ [Next]_vars => [Own => GetsOn]_vars
  BY <1>1
<1> QED BY <1>2, Invariance, PTL DEF Spec, CommandsGetOn
=============================================================================
