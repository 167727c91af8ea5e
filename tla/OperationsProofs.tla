-------------------------- MODULE OperationsProofs --------------------------
(***************************************************************************)
(* Safety of Operations for any targets, namespaces, kinds of form and     *)
(* number of requests.                                                     *)
(***************************************************************************)
EXTENDS Operations, FiniteSetTheorems, TLAPS

\* No id is above the counter, and no two commands share one.
IdsBelowCounter ==
  /\ \A t \in tasks : t.id <= nextId
  /\ \A l \in Locks : request[l] <= nextId
  /\ \A t, u \in tasks : t.id = u.id => t = u

SlotsOfKinds ==
  \A t \in tasks : /\ t.kind \in Calls <=> t.slot = "call"
                   /\ t.kind = "preview" <=> t.slot = "preview"

InSlot(l) == {t \in tasks : t.slot = l}

\* Nothing is to be sent till the session has changed, or is kept after all.
Changing == switching \/ overlay.form = "profiles"

\* Calls and previews keep their locks, and a form for a call was opened when
\* none was out.
LocksGuard ==
  /\ \A t \in tasks : t.slot # "operation" => Wanted(t) /\ busy[t.slot]
  /\ overlay.form \in Calls \/ Changing => InSlot("call") = {}
  /\ Changing => InSlot("preview") = {}

\* So do mutations and the forms that do not look again, till a Query has
\* released the lock of one.
MutationsGuard ==
  ~queried =>
    /\ Writes # {} => busy["operation"]
    /\ \A t, u \in Writes : t = u
    /\ overlay.form \in {"reset", "create", "signal", "update"} \/ Changing => Writes = {}

\* Whatever may become a mutation is closed or forgotten in a read-only session.
ReadOnlyGuard ==
  /\ forced => readOnly
  /\ readOnly => /\ overlay.form \notin Mutations \cup {"batchConfirm"}
                 /\ InSlot("preview") = {}

\* The namespace cannot change under an open form.
SeenHere == overlay.form \in FrozenForms => overlay.seen.ns = namespace

\* What leads to a form is only there when the form is.
KnownForms ==
  /\ "batch" \notin Forms => overlay.form # "batchConfirm" /\ InSlot("preview") = {}
  /\ overlay.form = "attributes" => "attribute" \in Forms

Inv ==
  /\ TypeOK /\ IdsBelowCounter /\ SlotsOfKinds /\ LocksGuard /\ LockHasOwner
  /\ MutationsGuard /\ ReadOnlyGuard /\ SeenHere /\ FrozenFormsActAsShown
  /\ KnownForms

-----------------------------------------------------------------------------
(* Overlays and commands                                                    *)

LEMMA KindFacts ==
  /\ Mutations \subseteq AllForms /\ Calls \subseteq {"update", "query"}
  /\ FrozenForms \subseteq {"confirm", "reset", "create", "attribute"}
  /\ FrozenForms \subseteq Mutations /\ FrozenForms \subseteq Forms
  /\ Forms \subseteq AllForms
  BY FormsAssumption DEF AllForms, Mutations, Calls, FrozenForms

LEMMA OverlayFacts ==
  ASSUME TypeOK
  PROVE  /\ overlay.form \in Forms \cup {"batchConfirm"} => overlay.seen \in Place
         /\ overlay.form \in Forms \cup {"batchConfirm", "none", "profiles", "namespaces",
                                         "attributes", "result"}
  BY FormsAssumption DEF TypeOK, Overlay, NoOverlay, AllForms

LEMMA OpenedFacts ==
  ASSUME NEW f \in Forms \cup {"batchConfirm"}, NEW place \in Place
  PROVE  /\ Opened(f, place) \in Overlay
         /\ Opened(f, place).form = f /\ Opened(f, place).seen = place
  BY DEF Overlay, Opened

LEMMA PlaceFacts ==
  ASSUME TypeOK
  PROVE  Here \in Place /\ Nowhere \in Place
  BY DEF TypeOK, Here, Nowhere, Place

LEMMA TaskFacts ==
  ASSUME TypeOK, SlotsOfKinds, NEW t \in tasks
  PROVE  /\ t.id \in Nat /\ t.slot \in Locks /\ t.aim \in Place /\ t.seen \in Place
         /\ t.kind \in Forms \cup {"preview"}
         /\ t.slot = "operation" => t \in Writes /\ t.kind \in Mutations
         /\ t \in Writes => t.slot = "operation" \/ (t.slot = "call" /\ t.kind = "update")
         /\ t.slot = "call" => t.kind \in {"update", "query"}
<1>1. /\ t.id \in Nat /\ t.slot \in Locks /\ t.aim \in Place /\ t.seen \in Place
      /\ t.kind \in Forms \cup {"preview"}
  BY DEF TypeOK, Task
<1>2. /\ t.kind \in Calls <=> t.slot = "call"
      /\ t.kind = "preview" <=> t.slot = "preview"
  BY DEF SlotsOfKinds
<1>3. ASSUME t.slot = "operation"
      PROVE  t \in Writes /\ t.kind \in Mutations
  <2>1. t.kind \in Forms /\ t.kind \notin Calls
    BY <1>1, <1>2, <1>3
  <2> QED BY <2>1 DEF Writes, Mutations, Calls
<1>4. ASSUME t \in Writes
      PROVE  t.slot = "operation" \/ (t.slot = "call" /\ t.kind = "update")
  <2>1. t.kind \in Mutations /\ t.kind # "preview" /\ t.kind # "query"
    BY <1>4, KindFacts DEF Writes, AllForms, Mutations
  <2> QED BY <2>1, <1>1, <1>2 DEF Locks, Calls
<1>5. t.slot = "call" => t.kind \in {"update", "query"}
  BY <1>2, KindFacts
<1> QED BY <1>1, <1>3, <1>4, <1>5

LEMMA WritesFacts ==
  ASSUME TypeOK
  PROVE  Writes \subseteq tasks
  BY DEF Writes

-----------------------------------------------------------------------------
(* The invariant holds at the start                                         *)

LEMMA InvInit == Init => Inv
<1> SUFFICES ASSUME Init PROVE Inv
  OBVIOUS
<1> USE DEF Init
<1>1. TypeOK
  BY DEF TypeOK, Overlay, NoOverlay, Locks
<1>2. overlay.form = "none"
  BY DEF NoOverlay
<1>3. "none" \notin Calls \cup FrozenForms \cup Mutations
  BY KindFacts DEF AllForms
<1>4. tasks = {} /\ Writes = {} /\ \A l \in Locks : InSlot(l) = {}
  BY DEF Writes, InSlot
<1>5. IdsBelowCounter /\ SlotsOfKinds /\ LockHasOwner /\ FrozenFormsActAsShown
  BY <1>4 DEF IdsBelowCounter, SlotsOfKinds, LockHasOwner, FrozenFormsActAsShown, Locks
<1>6. LocksGuard /\ MutationsGuard /\ ReadOnlyGuard /\ SeenHere /\ KnownForms
  BY <1>2, <1>3, <1>4 DEF LocksGuard, MutationsGuard, ReadOnlyGuard, SeenHere,
     KnownForms, Changing, Locks
<1> QED BY <1>1, <1>5, <1>6 DEF Inv

-----------------------------------------------------------------------------
(* Sending a command                                                        *)

LEMMA SendStep ==
  ASSUME Inv, ~switching,
         NEW kind \in Forms \cup {"preview"}, NEW slot \in Locks, NEW locks \in SUBSET Locks,
         NEW aim \in Place, NEW seen \in Place, Send(kind, slot, locks, aim, seen),
         overlay' = NoOverlay, UNCHANGED <<connecting, sessionVars, selected>>,
         slot \in locks,
         kind \in Calls <=> slot = "call", kind = "preview" <=> slot = "preview",
         slot # "operation" => InSlot(slot) = {},
         slot = "preview" => "batch" \in Forms /\ ~readOnly,
         kind \in Mutations => "operation" \in locks /\ (~queried => Writes = {}),
         "operation" \in locks => slot = "operation" \/ kind = "update",
         "call" \in locks => slot = "call", "preview" \in locks => slot = "preview",
         kind \in FrozenForms => aim = seen
  PROVE  Inv'
<1> USE DEF Inv
<1>1. PICK new \in Task :
        /\ tasks' = tasks \cup {new} /\ new.id = nextId + 1 /\ new \notin tasks
        /\ new.kind = kind /\ new.slot = slot /\ new.aim = aim /\ new.seen = seen
  <2> DEFINE cmd == [kind |-> kind, slot |-> slot, id |-> nextId + 1, aim |-> aim, seen |-> seen]
  <2>1. nextId \in Nat
    BY DEF TypeOK
  <2>2. cmd \in Task /\ tasks' = tasks \cup {cmd}
    BY <2>1 DEF Send, Task
  <2>3. cmd \notin tasks
    BY <2>1 DEF IdsBelowCounter
  <2> QED BY <2>2, <2>3
<1>2. /\ nextId' = nextId + 1 /\ nextId' \in Nat /\ nextId \in Nat
      /\ request' \in [Locks -> Nat] /\ busy' \in [Locks -> BOOLEAN]
      /\ \A l \in Locks : busy'[l] => l \in locks \/ busy[l]
      /\ \A l \in Locks : l \in locks \/ busy[l] => busy'[l]
      /\ \A l \in Locks : request'[l] = IF l = slot THEN nextId + 1 ELSE request[l]
      /\ queried' = queried
  <2>1. nextId \in Nat /\ request \in [Locks -> Nat] /\ busy \in [Locks -> BOOLEAN]
    BY DEF TypeOK
  <2>2. /\ nextId' = nextId + 1 /\ queried' = queried
        /\ request' = [request EXCEPT ![slot] = nextId + 1]
        /\ busy' = [l \in Locks |-> l \in locks \/ busy[l]]
    BY DEF Send
  <2>3. \A l \in Locks : busy'[l] = (l \in locks \/ busy[l])
    BY <2>2, Zenon
  <2>4. busy' \in [Locks -> BOOLEAN]
    BY <2>2, Zenon
  <2>5. /\ \A l \in Locks : busy'[l] => l \in locks \/ busy[l]
        /\ \A l \in Locks : l \in locks \/ busy[l] => busy'[l]
    BY <2>3, Zenon
  <2> QED BY <2>1, <2>2, <2>4, <2>5
<1>3. /\ overlay'.form = "none" /\ ~Changing'
      /\ "none" \notin Calls \cup FrozenForms \cup Mutations
  BY KindFacts DEF NoOverlay, AllForms, Changing, sessionVars
<1>4. TypeOK'
  BY <1>1, <1>2 DEF TypeOK, sessionVars, Overlay
<1>5. \A t \in tasks : /\ t.id \in Nat /\ t.id <= nextId /\ t.slot \in Locks
                       /\ request[t.slot] \in Nat
  BY TaskFacts DEF IdsBelowCounter, TypeOK
<1>6. IdsBelowCounter'
  BY <1>1, <1>2, <1>5 DEF IdsBelowCounter, TypeOK
<1>7. SlotsOfKinds'
  BY <1>1 DEF SlotsOfKinds
<1>8. Wanted(new)' /\ \A t \in tasks : t.slot # slot => (Wanted(t)' <=> Wanted(t))
  BY <1>1, <1>2, <1>5 DEF Wanted
<1>9. LocksGuard'
  <2>1. ASSUME NEW t \in tasks', t.slot # "operation"
        PROVE  Wanted(t)' /\ busy'[t.slot]
    <3>1. CASE t = new
      BY <3>1, <1>1, <1>2, <1>8
    <3>2. CASE t \in tasks
      <4>1. t.slot # slot
        BY <2>1, <3>2 DEF InSlot
      <4> QED BY <2>1, <3>2, <4>1, <1>2, <1>5, <1>8 DEF LocksGuard
    <3> QED BY <2>1, <3>1, <3>2, <1>1
  <2> QED BY <2>1, <1>3 DEF LocksGuard
<1>10. LockHasOwner'
  <2> SUFFICES ASSUME NEW l \in Locks, busy'[l]
               PROVE  \E t \in tasks' : /\ Wanted(t)'
                                        /\ t.slot = l \/ (l = "operation" /\ t.kind = "update")
    BY DEF LockHasOwner
  <2>1. CASE l \in locks
    BY <2>1, <1>1, <1>8 DEF Locks
  <2>2. CASE l \notin locks
    <3>1. busy[l] /\ l # slot
      BY <2>2, <1>2
    <3>2. PICK t \in tasks : Wanted(t) /\ (t.slot = l \/ (l = "operation" /\ t.kind = "update"))
      BY <3>1 DEF LockHasOwner
    <3>3. t.slot # slot
      <4>1. CASE t.slot = l
        BY <4>1, <3>1
      <4>2. CASE t.slot # l
        <5>1. t.kind = "update" /\ t.slot \in {"operation", "call"}
          BY <3>2, <4>2, TaskFacts, KindFacts DEF Writes, Mutations, SlotsOfKinds, Locks
        <5>2. t.kind \in Calls
          BY <5>1, TaskFacts, KindFacts DEF Calls, AllForms
        <5> QED BY <5>1, <5>2, <4>2, <3>2 DEF SlotsOfKinds, InSlot
      <4> QED BY <4>1, <4>2
    <3> QED BY <3>2, <3>3, <1>1, <1>8
  <2> QED BY <2>1, <2>2
<1>11. MutationsGuard'
  <2>1. Writes' = IF kind \in Mutations THEN Writes \cup {new} ELSE Writes
    BY <1>1 DEF Writes
  <2> QED BY <2>1, <1>2, <1>3 DEF MutationsGuard, Locks
<1>12. ReadOnlyGuard'
  <2>1. slot # "preview" => InSlot("preview")' = InSlot("preview")
    BY <1>1 DEF InSlot
  <2> QED BY <2>1, <1>1, <1>3, KindFacts DEF ReadOnlyGuard, AllForms, sessionVars
<1>13. SeenHere' /\ FrozenFormsActAsShown'
  BY <1>1, <1>3 DEF SeenHere, FrozenFormsActAsShown, Writes
<1>14. KnownForms'
  BY <1>1, <1>3 DEF KnownForms, InSlot
<1> QED BY <1>4, <1>6, <1>7, <1>9, <1>10, <1>11, <1>12, <1>13, <1>14

\* The hypotheses of SendStep that depend on the kind of command alone.
LEMMA MutationSent ==
  ASSUME NEW f \in Mutations, f # "update"
  PROVE  /\ f \in Forms \cup {"preview"} /\ f \notin Calls /\ f # "preview"
         /\ LocksTaken(f) = {"operation"}
         /\ "operation" \in Locks
  BY KindFacts DEF AllForms, Mutations, Calls, LocksTaken, Locks

LEMMA SubmitFrozenStep ==
  ASSUME Inv, NEW f \in FrozenForms, SubmitFrozen(f), ~queried => Writes = {}
  PROVE  Inv'
<1>1. TypeOK /\ overlay.form = f /\ ~switching /\ SeenHere
  BY DEF Inv, SubmitFrozen
<1>2. f \in Mutations /\ f # "update"
  BY KindFacts
<1>3. overlay.seen \in Place /\ overlay.seen.ns = namespace
  BY <1>1, <1>2, OverlayFacts, KindFacts DEF SeenHere
<1>4. FrozenAim \in Place /\ FrozenAim = overlay.seen
  BY <1>3 DEF FrozenAim, Place
<1>5. Send(f, "operation", {"operation"}, FrozenAim, overlay.seen)
  BY <1>2, MutationSent DEF SubmitFrozen
<1>6. overlay' = NoOverlay /\ UNCHANGED <<connecting, sessionVars, selected>>
  BY DEF SubmitFrozen
<1>7. {"operation"} \in SUBSET Locks
  BY DEF Locks
<1> QED BY <1>1, <1>2, <1>3, <1>4, <1>5, <1>6, <1>7, MutationSent, SendStep

LEMMA SubmitStep == Inv /\ Submit => Inv'
<1> SUFFICES ASSUME Inv, Submit PROVE Inv'
  OBVIOUS
<1>1. TypeOK /\ MutationsGuard /\ LocksGuard /\ ReadOnlyGuard /\ KnownForms
  BY DEF Inv
<1>2. Here \in Place /\ Nowhere \in Place
  BY <1>1, PlaceFacts
<1>3. {"operation"} \in SUBSET Locks /\ {"preview"} \in SUBSET Locks /\ {"call"} \in SUBSET Locks
      /\ {"call", "operation"} \in SUBSET Locks
  BY DEF Locks
<1>4. Unlocked({"operation"}) => (~queried => Writes = {})
  BY <1>1 DEF Unlocked, MutationsGuard
<1>5. ASSUME NEW f \in FrozenForms, SubmitConfirmed(f) \/ SubmitUnchecked(f)
      PROVE  Inv'
  <2>1. ~queried => Writes = {}
    <3>1. CASE SubmitConfirmed(f)
      BY <3>1, <1>4 DEF SubmitConfirmed
    <3>2. CASE SubmitUnchecked(f)
      BY <3>2, <1>1 DEF SubmitUnchecked, SubmitFrozen, MutationsGuard
    <3> QED BY <1>5, <3>1, <3>2
  <2>2. SubmitFrozen(f)
    BY <1>5 DEF SubmitConfirmed, SubmitUnchecked
  <2> QED BY <2>1, <2>2, SubmitFrozenStep
<1>6. ASSUME NEW f \in LateForms, SubmitLate(f)
      PROVE  Inv'
  <2>1. overlay.form = f /\ ~switching /\ f \in Forms /\ f \in {"signal", "update", "query"}
    BY <1>6 DEF SubmitLate, LateForms
  <2>2. overlay.seen \in Place
    BY <2>1, <1>1, OverlayFacts
  <2>3. overlay' = NoOverlay /\ UNCHANGED <<connecting, sessionVars, selected>>
    BY <1>6 DEF SubmitLate
  <2>4. f \notin FrozenForms /\ f \in Forms \cup {"preview"}
    BY <2>1, KindFacts
  <2>5. CASE f = "signal"
    <3>1. f \in Mutations /\ f # "update"
      BY <2>1, <2>5 DEF Mutations
    <3>2. Send(f, "operation", {"operation"}, Here, overlay.seen)
      BY <3>1, <1>6, MutationSent DEF SubmitLate
    <3>3. ~queried => Writes = {}
      BY <2>1, <2>5, <1>1 DEF MutationsGuard
    <3> QED BY <3>1, <3>2, <3>3, <2>1, <2>2, <2>3, <2>4, <1>2, <1>3, MutationSent, SendStep
  <2>6. CASE f \in {"update", "query"}
    <3>1. f \in Calls /\ f # "preview"
      BY <2>1, <2>6 DEF Calls
    <3>2. InSlot("call") = {}
      BY <3>1, <2>1, <1>1 DEF LocksGuard
    <3>3. CASE f = "update"
      <4>1. Send(f, "call", {"call", "operation"}, Here, overlay.seen)
        BY <3>1, <3>3, <1>6 DEF SubmitLate, LocksTaken
      <4>2. ~queried => Writes = {}
        BY <2>1, <3>3, <1>1 DEF MutationsGuard
      <4> QED BY <4>1, <4>2, <3>1, <3>2, <3>3, <2>1, <2>2, <2>3, <2>4, <1>2, <1>3, SendStep
              DEF Locks
    <3>4. CASE f = "query"
      <4>1. Send(f, "call", {"call"}, Here, overlay.seen)
        BY <3>1, <3>4, <1>6 DEF SubmitLate, LocksTaken
      <4>2. f \notin Mutations
        BY <3>4 DEF Mutations
      <4> QED BY <4>1, <4>2, <3>1, <3>2, <3>4, <2>1, <2>2, <2>3, <2>4, <1>2, <1>3, SendStep
              DEF Locks
    <3> QED BY <2>6, <3>3, <3>4
  <2> QED BY <2>1, <2>5, <2>6
<1>7. CASE Toggle
  <2>1. "toggle" \in Mutations /\ "toggle" \notin FrozenForms
    BY <1>7, KindFacts DEF Toggle, Mutations
  <2>2. /\ Send("toggle", "operation", {"operation"}, Here, Here) /\ overlay' = NoOverlay
        /\ ~switching /\ UNCHANGED <<connecting, sessionVars, selected>>
    BY <1>7 DEF Toggle, Dashboard
  <2>3. ~queried => Writes = {}
    BY <1>4, <1>7 DEF Toggle
  <2> QED BY <2>1, <2>2, <2>3, <1>2, <1>3, MutationSent, SendStep
<1>8. CASE PreviewBatch
  <2>1. overlay.form = "batch" /\ ~switching /\ "batch" \in Forms /\ ~readOnly
    BY <1>8, <1>1, OverlayFacts DEF PreviewBatch, ReadOnlyGuard, Mutations
  <2>2. InSlot("preview") = {}
    BY <1>8, <1>1 DEF PreviewBatch, LocksGuard, InSlot, Unlocked
  <2>3. /\ Send("preview", "preview", {"preview"}, Nowhere, Nowhere) /\ overlay' = NoOverlay
        /\ UNCHANGED <<connecting, sessionVars, selected>>
    BY <1>8 DEF PreviewBatch
  <2>4. "preview" \notin Calls \cup Mutations \cup FrozenForms
    BY KindFacts DEF AllForms
  <2> QED BY <2>1, <2>2, <2>3, <2>4, <1>2, <1>3, SendStep DEF Locks
<1>9. CASE StartBatch
  <2>1. overlay.form = "batchConfirm" /\ ~switching /\ "batch" \in Forms /\ overlay.seen \in Place
    BY <1>9, <1>1, OverlayFacts DEF StartBatch, KnownForms
  <2>2. "batch" \in Mutations /\ "batch" \notin FrozenForms
    BY <2>1, KindFacts DEF Mutations
  <2>3. /\ Send("batch", "operation", {"operation"}, Nowhere, overlay.seen)
        /\ overlay' = NoOverlay /\ UNCHANGED <<connecting, sessionVars, selected>>
    BY <1>9 DEF StartBatch
  <2>4. ~queried => Writes = {}
    BY <1>4, <1>9 DEF StartBatch
  <2> QED BY <2>1, <2>2, <2>3, <2>4, <1>2, <1>3, MutationSent, SendStep
<1> QED BY <1>5, <1>6, <1>7, <1>8, <1>9 DEF Submit

-----------------------------------------------------------------------------
(* Opening and closing                                                      *)

LEMMA OverlayStep ==
  ASSUME Inv, UNCHANGED <<tasks, connecting, sessionVars, lockVars, selected>>,
         overlay' \in Overlay, overlay'.form # "batchConfirm",
         overlay'.form = "attributes" => "attribute" \in Forms,
         overlay'.form \in Calls => InSlot("call") = {},
         overlay'.form = "profiles" => /\ InSlot("call") = {} /\ InSlot("preview") = {}
                                       /\ ~queried => Writes = {},
         overlay'.form \in {"reset", "create", "signal", "update"} => (~queried => Writes = {}),
         overlay'.form \in Mutations => ~readOnly,
         overlay'.form \in FrozenForms => overlay'.seen.ns = namespace
  PROVE  Inv'
<1> USE DEF Inv
<1>1. /\ UNCHANGED <<tasks, connecting, forced, readOnly, namespace, switching, switchRequest>>
      /\ UNCHANGED <<nextId, request, busy, queried, selected, Writes>>
      /\ InSlot("call")' = InSlot("call") /\ InSlot("preview")' = InSlot("preview")
  BY DEF sessionVars, lockVars, Writes, InSlot
<1>2. TypeOK'
  BY <1>1 DEF TypeOK
<1>3. IdsBelowCounter' /\ SlotsOfKinds' /\ LockHasOwner' /\ FrozenFormsActAsShown'
  BY <1>1 DEF IdsBelowCounter, SlotsOfKinds, LockHasOwner, FrozenFormsActAsShown, Wanted
<1>4. LocksGuard'
  BY <1>1 DEF LocksGuard, Changing, Wanted
<1>5. MutationsGuard'
  BY <1>1 DEF MutationsGuard, Changing
<1>6. ReadOnlyGuard' /\ SeenHere' /\ KnownForms'
  BY <1>1 DEF ReadOnlyGuard, SeenHere, KnownForms
<1> QED BY <1>2, <1>3, <1>4, <1>5, <1>6

LEMMA PlainForms ==
  ASSUME NEW form \in {"none", "profiles", "namespaces", "attributes", "result"}
  PROVE  /\ form \notin Calls \cup Mutations \cup FrozenForms \cup {"batchConfirm"}
         /\ form \notin {"reset", "create", "signal", "update"}
  BY KindFacts DEF AllForms

LEMMA Unlocks ==
  ASSUME Inv
  PROVE  /\ ~busy["operation"] => (~queried => Writes = {})
         /\ ~busy["call"] => InSlot("call") = {}
         /\ ~busy["preview"] => InSlot("preview") = {}
  BY DEF Inv, MutationsGuard, LocksGuard, InSlot

LEMMA OpenStep == Inv /\ Open => Inv'
<1> SUFFICES ASSUME Inv, Open PROVE Inv'
  OBVIOUS
<1>1. TypeOK /\ Here \in Place /\ Nowhere \in Place
  BY PlaceFacts DEF Inv
<1>2. ASSUME NEW f \in Forms, OpenForm(f)
      PROVE  Inv'
  <2> DEFINE place == IF f \in RowlessForms THEN Nowhere ELSE Here
  <2>1. place \in Place /\ place.ns = namespace
    BY <1>1 DEF Here, Nowhere
  <2>2. overlay' = Opened(f, place)
    BY <1>2 DEF OpenForm
  <2> HIDE DEF place
  <2>3. overlay' \in Overlay /\ overlay'.form = f /\ overlay'.seen.ns = namespace
    BY <2>1, <2>2, OpenedFacts
  <2>4. f # "batchConfirm" /\ f # "profiles" /\ f # "attributes"
    BY KindFacts DEF AllForms
  <2>5. f \in Mutations => ~readOnly
    BY <1>2 DEF OpenForm, MayWrite
  <2>6. f \in Calls => InSlot("call") = {}
    <3> SUFFICES ASSUME f \in {"update", "query"} PROVE InSlot("call") = {}
      BY KindFacts
    <3>1. ~busy["call"]
      BY <1>2 DEF OpenForm, Unlocked, OpenLocks
    <3> QED BY <3>1, Unlocks
  <2>7. f \in {"reset", "create", "signal", "update"} => (~queried => Writes = {})
    <3> SUFFICES ASSUME f \in {"reset", "create", "signal", "update"}
                 PROVE  ~queried => Writes = {}
      OBVIOUS
    <3>1. ~busy["operation"]
      BY <1>2 DEF OpenForm, Unlocked, OpenLocks
    <3> QED BY <3>1, Unlocks
  <2>8. UNCHANGED <<tasks, connecting, sessionVars, lockVars, selected>>
    BY <1>2 DEF OpenForm
  <2> QED BY <2>3, <2>4, <2>5, <2>6, <2>7, <2>8, OverlayStep
<1>3. CASE OpenProfiles
  <2>1. overlay' = [form |-> "profiles"]
        /\ UNCHANGED <<tasks, connecting, sessionVars, lockVars, selected>>
    BY <1>3 DEF OpenProfiles
  <2>2. overlay' \in Overlay /\ overlay'.form = "profiles"
    BY <2>1 DEF Overlay
  <2>3. ~busy["operation"] /\ ~busy["call"] /\ ~busy["preview"]
    BY <1>3 DEF OpenProfiles, Unlocked, Locks
  <2> QED BY <2>1, <2>2, <2>3, Unlocks, PlainForms, OverlayStep
<1>4. CASE OpenNamespaces \/ OpenAttributes
  <2>1. UNCHANGED <<tasks, connecting, sessionVars, lockVars, selected>>
    BY <1>4 DEF OpenNamespaces, OpenAttributes
  <2>2. /\ overlay' \in Overlay /\ overlay'.form \in {"namespaces", "attributes"}
        /\ overlay'.form = "attributes" => "attribute" \in Forms
    BY <1>4 DEF OpenNamespaces, OpenAttributes, Overlay
  <2> QED BY <2>1, <2>2, PlainForms, OverlayStep
<1>5. ASSUME NEW row \in Targets, OpenAttributeForm(row)
      PROVE  Inv'
  <2>1. "attribute" \in Forms /\ ~readOnly
    BY <1>5 DEF OpenAttributeForm, MayWrite, Inv, KnownForms
  <2> DEFINE place == [ns |-> namespace, row |-> row]
  <2>2. place \in Place /\ place.ns = namespace
    BY <1>1 DEF Place, TypeOK
  <2>3. overlay' = Opened("attribute", place)
    BY <1>5 DEF OpenAttributeForm
  <2> HIDE DEF place
  <2>4. overlay' \in Overlay /\ overlay'.form = "attribute" /\ overlay'.seen.ns = namespace
    BY <2>1, <2>2, <2>3, OpenedFacts
  <2>5. "attribute" \notin Calls
    BY KindFacts
  <2>6. UNCHANGED <<tasks, connecting, sessionVars, lockVars, selected>>
    BY <1>5 DEF OpenAttributeForm
  <2> QED BY <2>1, <2>4, <2>5, <2>6, OverlayStep
<1>6. CASE CloseOverlay
  <2>1. UNCHANGED <<tasks, connecting, sessionVars, lockVars, selected>>
    BY <1>6 DEF CloseOverlay
  <2>2. /\ overlay' \in Overlay /\ overlay'.form \in {"none", "attributes"}
        /\ overlay'.form = "attributes" => "attribute" \in Forms
    BY <1>1, <1>6, OverlayFacts DEF CloseOverlay, Overlay, NoOverlay
  <2> QED BY <2>1, <2>2, PlainForms, OverlayStep
<1> QED BY <1>2, <1>3, <1>4, <1>5, <1>6 DEF Open

-----------------------------------------------------------------------------
(* Answers                                                                  *)

LEMMA DropStep ==
  ASSUME Inv, NEW t \in tasks, DropAnswer(t)
  PROVE  Inv'
<1> USE DEF Inv
<1>1. /\ tasks' = tasks \ {t} /\ ~Wanted(t)
      /\ UNCHANGED <<connecting, forced, readOnly, namespace, switching, switchRequest>>
      /\ UNCHANGED <<nextId, request, busy, queried, selected, overlay>>
  BY DEF DropAnswer, sessionVars, lockVars
<1>2. TypeOK'
  BY <1>1 DEF TypeOK
<1>3. IdsBelowCounter' /\ SlotsOfKinds' /\ FrozenFormsActAsShown'
  BY <1>1 DEF IdsBelowCounter, SlotsOfKinds, FrozenFormsActAsShown, Writes
<1>4. \A u \in tasks : Wanted(u) => u \in tasks' /\ Wanted(u)'
  BY <1>1 DEF Wanted
<1>5. LockHasOwner'
  BY <1>1, <1>4 DEF LockHasOwner
<1>6. LocksGuard'
  BY <1>1 DEF LocksGuard, Changing, Wanted, InSlot
<1>7. MutationsGuard'
  <2>1. Writes' \subseteq Writes
    BY <1>1 DEF Writes
  <2> QED BY <1>1, <2>1 DEF MutationsGuard, Changing
<1>8. ReadOnlyGuard' /\ SeenHere' /\ KnownForms'
  BY <1>1 DEF ReadOnlyGuard, SeenHere, KnownForms, InSlot
<1> QED BY <1>2, <1>3, <1>5, <1>6, <1>7, <1>8

LEMMA ReleasedFacts ==
  ASSUME TypeOK, NEW locks, NEW ok, busy' = Released(locks, ok)
  PROVE  /\ busy' \in [Locks -> BOOLEAN]
         /\ \A l \in Locks : busy'[l] => busy[l] /\ l \notin locks
         /\ \A l \in Locks : busy[l] /\ l \notin locks => busy'[l]
<1>1. busy' = [l \in Locks |-> busy[l] /\ l \notin locks]
  BY DEF Released
<1>2. busy' \in [Locks -> BOOLEAN]
  BY <1>1, Zenon
<1>3. \A l \in Locks : busy'[l] = (busy[l] /\ l \notin locks)
  BY <1>1, Zenon
<1> QED BY <1>2, <1>3, Zenon

\* Taking an answer: its lock, and no lock another command needs, is released.
LEMMA AnswerStep ==
  ASSUME Inv, NEW t \in tasks, Wanted(t), NEW locks, NEW ok,
         tasks' = tasks \ {t}, busy' = Released(locks, ok), t.slot \in locks,
         UNCHANGED <<connecting, sessionVars, nextId, request, selected>>,
         queried' \in BOOLEAN, ~queried' => ~queried,
         overlay' \in Overlay,
         overlay' = overlay \/ overlay'.form \in {"attributes", "result", "batchConfirm"},
         overlay'.form = "attributes" => "attribute" \in Forms,
         overlay'.form = "batchConfirm" /\ overlay' # overlay =>
           "batch" \in Forms /\ ~readOnly,
         "call" \in locks => t.slot = "call", "preview" \in locks => t.slot = "preview",
         t.slot = "call" => "operation" \in locks,
         "operation" \in locks /\ ~queried' => Writes' = {}
  PROVE  Inv'
<1> USE DEF Inv
<1>1. /\ UNCHANGED <<connecting, forced, readOnly, namespace, switching, switchRequest>>
      /\ UNCHANGED <<nextId, request, selected>>
  BY DEF sessionVars
<1>2. /\ busy' \in [Locks -> BOOLEAN]
      /\ \A l \in Locks : busy'[l] => busy[l] /\ l \notin locks
      /\ \A l \in Locks : busy[l] /\ l \notin locks => busy'[l]
  BY ReleasedFacts
<1>3. /\ overlay'.form = overlay.form /\ (overlay' = overlay)
      \/ /\ overlay'.form \in {"attributes", "result", "batchConfirm"}
         /\ overlay'.form \notin Calls \cup FrozenForms \cup Mutations
  BY KindFacts DEF AllForms
<1>4. \A u \in tasks : /\ u.slot \in Locks
                       /\ Wanted(u)' <=> Wanted(u)
                       /\ Wanted(u) /\ u.slot = t.slot => u = t
  BY <1>1, TaskFacts DEF Wanted, IdsBelowCounter
<1>5. TypeOK'
  BY <1>1, <1>2 DEF TypeOK
<1>6. IdsBelowCounter' /\ SlotsOfKinds' /\ FrozenFormsActAsShown'
  BY <1>1 DEF IdsBelowCounter, SlotsOfKinds, FrozenFormsActAsShown, Writes
<1>7. LocksGuard'
  <2>1. ASSUME NEW u \in tasks', u.slot # "operation"
        PROVE  Wanted(u)' /\ busy'[u.slot]
    <3>1. u \in tasks /\ u # t /\ Wanted(u) /\ busy[u.slot] /\ u.slot \in {"call", "preview"}
      BY <2>1, <1>4 DEF LocksGuard, Locks
    <3>2. u.slot \notin locks
      BY <3>1, <1>4
    <3> QED BY <3>1, <3>2, <1>2, <1>4
  <2> QED BY <2>1, <1>1, <1>3 DEF LocksGuard, Changing, InSlot
<1>8. LockHasOwner'
  <2> SUFFICES ASSUME NEW l \in Locks, busy'[l]
               PROVE  \E u \in tasks' : /\ Wanted(u)'
                                        /\ u.slot = l \/ (l = "operation" /\ u.kind = "update")
    BY DEF LockHasOwner
  <2>1. busy[l] /\ l \notin locks
    BY <1>2
  <2>2. PICK u \in tasks : Wanted(u) /\ (u.slot = l \/ (l = "operation" /\ u.kind = "update"))
    BY <2>1 DEF LockHasOwner
  <2>3. u # t
    <3>1. CASE t.slot = l
      BY <2>1, <3>1
    <3>2. CASE t.slot # l /\ t.kind = "update" /\ l = "operation"
      <4>1. t \in Writes
        BY <3>2, TaskFacts DEF Writes, Mutations
      <4>2. t.slot = "call"
        BY <4>1, <3>2, TaskFacts
      <4> QED BY <4>2, <3>2, <2>1
    <3> QED BY <2>2, <3>1, <3>2
  <2> QED BY <2>2, <2>3, <1>4
<1>9. MutationsGuard'
  <2>1. Writes' \subseteq Writes
    BY DEF Writes
  <2>2. ~queried' => (Writes' # {} => busy'["operation"])
    BY <2>1, <1>2 DEF MutationsGuard, Locks
  <2> QED BY <2>1, <2>2, <1>1, <1>3 DEF MutationsGuard, Changing
<1>10. ReadOnlyGuard' /\ SeenHere' /\ KnownForms'
  BY <1>1, <1>3 DEF ReadOnlyGuard, SeenHere, KnownForms, InSlot
<1> QED BY <1>5, <1>6, <1>7, <1>8, <1>9, <1>10

LEMMA AnswersStep ==
  ASSUME Inv, NEW t \in tasks, Answer(t)
  PROVE  Inv'
<1>1. PICK ok \in BOOLEAN : AnswerOperation(t, ok) \/ AnswerCall(t, ok) \/ AnswerPreview(t, ok)
  BY DEF Answer
<1>2. TypeOK /\ SlotsOfKinds /\ MutationsGuard /\ ReadOnlyGuard /\ KnownForms
  BY DEF Inv
<1>3. /\ t.aim \in Place /\ t.kind \in Forms \cup {"preview"}
      /\ t.slot = "operation" => t \in Writes
  BY <1>2, TaskFacts
<1>4. CASE AnswerOperation(t, ok)
  <2>1. /\ Wanted(t) /\ t.slot = "operation" /\ tasks' = tasks \ {t}
        /\ busy' = Released({"operation"}, ok) /\ queried' = queried
        /\ UNCHANGED <<connecting, sessionVars, nextId, request, selected>>
    BY <1>4 DEF AnswerOperation
  <2>2. ~queried' => Writes' = {}
    BY <2>1, <1>2, <1>3 DEF MutationsGuard, Writes
  <2>3. /\ overlay' \in Overlay
        /\ overlay' = overlay \/ (overlay'.form = "attributes" /\ "attribute" \in Forms)
    BY <1>2, <1>3, <1>4 DEF AnswerOperation, Overlay, TypeOK
  <2>4. queried' \in BOOLEAN
    BY <2>1, <1>2 DEF TypeOK
  <2>5. overlay'.form = "attributes" => "attribute" \in Forms
    BY <2>3, <1>2 DEF KnownForms
  <2> QED BY <2>1, <2>2, <2>3, <2>4, <2>5, AnswerStep
<1>5. CASE AnswerCall(t, ok)
  <2>1. /\ Wanted(t) /\ t.slot = "call" /\ tasks' = tasks \ {t}
        /\ busy' = Released({"call", "operation"}, ok)
        /\ queried' = (queried \/ (t.kind = "query" /\ busy["operation"]))
        /\ UNCHANGED <<connecting, sessionVars, nextId, request, selected>>
    BY <1>5 DEF AnswerCall
  <2>2. ~queried' => ~queried /\ ~(t.kind = "query" /\ busy["operation"])
    BY <2>1, Zenon
  <2>3. ~queried' => Writes' = {}
    <3>1. t.kind \in {"update", "query"} /\ Writes' \subseteq Writes
      BY <2>1, <1>2, TaskFacts DEF Writes
    <3>2. CASE t.kind = "update"
      <4>1. t \in Writes
        BY <3>2, <1>3 DEF Writes, Mutations
      <4> QED BY <4>1, <2>1, <2>2, <1>2 DEF MutationsGuard, Writes
    <3>3. CASE t.kind = "query"
      BY <3>1, <3>3, <2>2, <1>2 DEF MutationsGuard
    <3> QED BY <3>1, <3>2, <3>3
  <2>4. /\ overlay' \in Overlay
        /\ overlay' = overlay \/ overlay'.form = "result"
    BY <1>2, <1>5 DEF AnswerCall, Overlay, TypeOK
  <2>5. queried' \in BOOLEAN
    BY <2>1, <1>2, Zenon DEF TypeOK
  <2>6. overlay'.form = "attributes" => "attribute" \in Forms
    BY <2>4, <1>2 DEF KnownForms
  <2> QED BY <2>1, <2>2, <2>3, <2>4, <2>5, <2>6, AnswerStep
<1>6. CASE AnswerPreview(t, ok)
  <2>1. /\ Wanted(t) /\ t.slot = "preview" /\ tasks' = tasks \ {t}
        /\ busy' = Released({"preview"}, ok) /\ queried' = queried
        /\ UNCHANGED <<connecting, sessionVars, nextId, request, selected>>
    BY <1>6 DEF AnswerPreview
  <2>2. "batch" \in Forms /\ ~readOnly
    BY <2>1, <1>2 DEF KnownForms, ReadOnlyGuard, InSlot
  <2>3. Opened("batchConfirm", t.aim) \in Overlay
        /\ Opened("batchConfirm", t.aim).form = "batchConfirm"
    BY <1>3, OpenedFacts
  <2>4. overlay' \in Overlay /\ (overlay' = overlay \/ overlay'.form = "batchConfirm")
    BY <2>3, <1>2, <1>6 DEF AnswerPreview, TypeOK
  <2>5. queried' \in BOOLEAN
    BY <2>1, <1>2 DEF TypeOK
  <2>6. overlay'.form = "attributes" => "attribute" \in Forms
    BY <2>4, <1>2 DEF KnownForms
  <2> QED BY <2>1, <2>2, <2>4, <2>5, <2>6, AnswerStep
<1> QED BY <1>1, <1>4, <1>5, <1>6

-----------------------------------------------------------------------------
(* The selected row, the namespace and the profile                          *)

LEMMA RowStep ==
  ASSUME Inv, NEW row \in Targets \cup {NoRow}, ListReloaded(row) \/ SelectRow(row)
  PROVE  Inv'
<1> USE DEF Inv
<1>1. /\ UNCHANGED <<tasks, connecting, forced, readOnly, namespace, switching, switchRequest>>
      /\ UNCHANGED <<nextId, request, busy, queried, overlay>> /\ selected' = row
  BY DEF ListReloaded, SelectRow, sessionVars, lockVars
<1>2. TypeOK'
  BY <1>1 DEF TypeOK
<1> QED BY <1>1, <1>2 DEF IdsBelowCounter, SlotsOfKinds, LocksGuard, LockHasOwner,
        MutationsGuard, ReadOnlyGuard, SeenHere, FrozenFormsActAsShown, KnownForms, Wanted,
        Writes, InSlot, Changing

LEMMA NamespaceStep ==
  ASSUME Inv, NEW ns \in Namespaces, PickNamespace(ns)
  PROVE  Inv'
<1> USE DEF Inv
<1>1. /\ UNCHANGED <<tasks, connecting, forced, readOnly, switching, switchRequest>>
      /\ UNCHANGED <<nextId, request, busy, queried>> /\ namespace' = ns /\ selected' = NoRow
      /\ overlay' = NoOverlay /\ ~switching
  BY DEF PickNamespace, lockVars
<1>2. /\ overlay'.form = "none" /\ overlay' \in Overlay /\ ~Changing'
      /\ "none" \notin Calls \cup FrozenForms \cup Mutations
  BY <1>1, KindFacts DEF NoOverlay, AllForms, Changing, Overlay
<1>3. TypeOK'
  BY <1>1, <1>2 DEF TypeOK
<1>4. IdsBelowCounter' /\ SlotsOfKinds' /\ LockHasOwner' /\ FrozenFormsActAsShown'
  BY <1>1 DEF IdsBelowCounter, SlotsOfKinds, LockHasOwner, FrozenFormsActAsShown, Wanted, Writes
<1>5. LocksGuard' /\ MutationsGuard'
  BY <1>1, <1>2 DEF LocksGuard, MutationsGuard, Wanted, Writes, InSlot
<1>6. ReadOnlyGuard' /\ SeenHere' /\ KnownForms'
  BY <1>1, <1>2 DEF ReadOnlyGuard, SeenHere, KnownForms, InSlot
<1> QED BY <1>3, <1>4, <1>5, <1>6

LEMMA PickProfileStep == Inv /\ PickProfile => Inv'
<1> SUFFICES ASSUME Inv, PickProfile PROVE Inv'
  OBVIOUS
<1> USE DEF Inv
<1>1. /\ UNCHANGED <<tasks, forced, readOnly, namespace, request, busy, queried, selected>>
      /\ nextId' = nextId + 1 /\ switchRequest' = nextId + 1 /\ switching' = TRUE
      /\ connecting' = connecting \cup {nextId + 1}
      /\ overlay' = NoOverlay /\ overlay.form = "profiles" /\ nextId \in Nat
  BY DEF PickProfile, TypeOK
<1>2. /\ overlay'.form = "none" /\ overlay' \in Overlay /\ Changing
      /\ "none" \notin Calls \cup FrozenForms \cup Mutations
  BY <1>1, KindFacts DEF NoOverlay, AllForms, Changing, Overlay
<1>3. TypeOK'
  BY <1>1, <1>2 DEF TypeOK
<1>4. IdsBelowCounter'
  <2>1. \A t \in tasks : t.id \in Nat
    BY TaskFacts
  <2>2. \A l \in Locks : request[l] \in Nat
    BY DEF TypeOK
  <2> QED BY <1>1, <2>1, <2>2 DEF IdsBelowCounter
<1>5. SlotsOfKinds' /\ LockHasOwner' /\ FrozenFormsActAsShown'
  BY <1>1 DEF SlotsOfKinds, LockHasOwner, FrozenFormsActAsShown, Wanted, Writes
<1>6. LocksGuard' /\ MutationsGuard'
  BY <1>1, <1>2 DEF LocksGuard, MutationsGuard, Wanted, Writes, InSlot
<1>7. ReadOnlyGuard' /\ SeenHere' /\ KnownForms'
  BY <1>1, <1>2 DEF ReadOnlyGuard, SeenHere, KnownForms, InSlot
<1> QED BY <1>3, <1>4, <1>5, <1>6, <1>7

LEMMA ConnectFailedStep ==
  ASSUME Inv, NEW c \in connecting, ConnectFailed(c)
  PROVE  Inv'
<1> USE DEF Inv
<1>1. /\ UNCHANGED <<tasks, forced, readOnly, namespace, switchRequest, selected, overlay>>
      /\ UNCHANGED <<nextId, request, busy, queried>>
      /\ connecting' = connecting \ {c}
  BY DEF ConnectFailed, lockVars
<1>2. switching' \in BOOLEAN /\ (switching' => switching)
  <2>1. switching' = (switching /\ ~Expected(c))
    BY DEF ConnectFailed
  <2> QED BY <2>1, Zenon
<1>3. TypeOK'
  BY <1>1, <1>2 DEF TypeOK
<1>4. IdsBelowCounter' /\ SlotsOfKinds' /\ LockHasOwner' /\ FrozenFormsActAsShown'
  BY <1>1 DEF IdsBelowCounter, SlotsOfKinds, LockHasOwner, FrozenFormsActAsShown, Wanted, Writes
<1>5. LocksGuard' /\ MutationsGuard'
  BY <1>1, <1>2 DEF LocksGuard, MutationsGuard, Wanted, Writes, InSlot, Changing
<1>6. ReadOnlyGuard' /\ SeenHere' /\ KnownForms'
  BY <1>1 DEF ReadOnlyGuard, SeenHere, KnownForms, InSlot
<1> QED BY <1>3, <1>4, <1>5, <1>6

LEMMA ConnectedStep ==
  ASSUME Inv, NEW c \in connecting, NEW ns \in Namespaces, NEW setting \in BOOLEAN,
         Connected(c, ns, setting)
  PROVE  Inv'
<1> USE DEF Inv
<1>1. /\ UNCHANGED <<tasks, forced, queried>> /\ namespace' = ns /\ selected' = NoRow
      /\ nextId' = nextId + 1 /\ switchRequest' = nextId + 1 /\ switching /\ ~switching'
      /\ switching' \in BOOLEAN
      /\ request' = [l \in Locks |-> nextId + 1] /\ busy' = [l \in Locks |-> FALSE]
      /\ connecting' = connecting \ {c}
      /\ overlay' = NoOverlay /\ nextId \in Nat
  BY DEF Connected, Expected, TypeOK
<1>2. readOnly' \in BOOLEAN /\ (forced => readOnly')
  <2>1. readOnly' = (forced \/ setting)
    BY DEF Connected, ReadOnlyAfter
  <2> QED BY <2>1, Zenon
<1>3. /\ overlay'.form = "none" /\ overlay' \in Overlay /\ Changing /\ ~Changing'
      /\ "none" \notin Calls \cup FrozenForms \cup Mutations
  BY <1>1, KindFacts DEF NoOverlay, AllForms, Changing, Overlay
<1>4. InSlot("call") = {} /\ InSlot("preview") = {} /\ (~queried => Writes = {})
  BY <1>3 DEF LocksGuard, MutationsGuard
<1>5. \A t \in tasks : t.slot = "operation"
  BY <1>4, TaskFacts DEF InSlot, Locks
<1>6. TypeOK'
  BY <1>1, <1>2, <1>3 DEF TypeOK
<1>7. IdsBelowCounter'
  <2>1. \A t \in tasks : t.id \in Nat
    BY TaskFacts
  <2> QED BY <1>1, <2>1 DEF IdsBelowCounter
<1>8. SlotsOfKinds' /\ LockHasOwner' /\ FrozenFormsActAsShown'
  BY <1>1 DEF SlotsOfKinds, LockHasOwner, FrozenFormsActAsShown, Writes
<1>9. LocksGuard' /\ MutationsGuard'
  BY <1>1, <1>3, <1>4, <1>5 DEF LocksGuard, MutationsGuard, Writes, InSlot
<1>10. ReadOnlyGuard' /\ SeenHere' /\ KnownForms'
  BY <1>1, <1>2, <1>3, <1>4 DEF ReadOnlyGuard, SeenHere, KnownForms, InSlot
<1> QED BY <1>6, <1>7, <1>8, <1>9, <1>10

-----------------------------------------------------------------------------
(* The invariant and the theorems                                           *)

LEMMA InvStep == Inv /\ [Next]_vars => Inv'
<1> SUFFICES ASSUME Inv, [Next]_vars PROVE Inv'
  OBVIOUS
<1>1. CASE UNCHANGED vars
  BY <1>1 DEF vars, sessionVars, lockVars, Inv, TypeOK, IdsBelowCounter, SlotsOfKinds,
     LocksGuard, LockHasOwner, MutationsGuard, ReadOnlyGuard, SeenHere, KnownForms,
     FrozenFormsActAsShown, Wanted, Writes, InSlot, Changing
<1>2. CASE ConnectDone
  BY <1>2, ConnectFailedStep, ConnectedStep DEF ConnectDone
<1> QED BY <1>1, <1>2, OpenStep, SubmitStep, DropStep, AnswersStep, RowStep, NamespaceStep,
        PickProfileStep DEF Next

LEMMA InvHolds == Spec => []Inv
BY InvInit, InvStep, PTL DEF Spec

\* Every reachable state of forms, locks and commands is well-typed.
THEOREM OperationsTypeCorrect == Spec => []TypeOK
<1>1. Inv => TypeOK
  BY DEF Inv
<1> QED BY <1>1, InvHolds, PTL

\* A form that carries its target acts on what the user saw (confirm, reset,
\* schedule and search attribute forms).
THEOREM FrozenFormsHold == Spec => []FrozenFormsActAsShown
<1>1. Inv => FrozenFormsActAsShown
  BY DEF Inv
<1> QED BY <1>1, InvHolds, PTL

\* No lock is held for an answer that would not release it
\* (OperationFinished, WorkflowCallFinished, BatchOperationPreviewLoaded).
THEOREM LockHasOwnerHolds == Spec => []LockHasOwner
<1>1. Inv => LockHasOwner
  BY DEF Inv
<1> QED BY <1>1, InvHolds, PTL

LEMMA AtMostOne ==
  ASSUME NEW S, \A x, y \in S : x = y
  PROVE  Cardinality(S) <= 1
<1>1. CASE S = {}
  BY <1>1, FS_EmptySet
<1>2. CASE S # {}
  <2>1. PICK x \in S : TRUE
    BY <1>2
  <2>2. S = {x}
    BY <2>1
  <2> QED BY <2>2, FS_Singleton
<1> QED BY <1>1, <1>2

\* One call and one preview at a time; and one mutation, none while the session
\* changes, unless a Query has released the lock of one.
THEOREM OneAtATimeHolds == Spec => []OneAtATime
<1>1. ASSUME Inv PROVE OneAtATime
  <2> USE <1>1 DEF Inv
  <2>1. \A t, u \in tasks : t.slot = u.slot /\ t.slot \in {"call", "preview"} => t = u
    BY DEF LocksGuard, Wanted, IdsBelowCounter
  <2>2. Cardinality({t \in tasks : t.kind \in Calls}) <= 1
    BY <2>1, AtMostOne DEF SlotsOfKinds
  <2>3. Cardinality({t \in tasks : t.kind = "preview"}) <= 1
    BY <2>1, AtMostOne DEF SlotsOfKinds
  <2>4. ~queried => OneMutationAtATime
    BY AtMostOne DEF MutationsGuard, OneMutationAtATime
  <2>5. ~queried => (switching => Writes = {})
    BY DEF MutationsGuard, Changing
  <2> QED BY <2>2, <2>3, <2>4, <2>5 DEF OneAtATime
<1> QED BY <1>1, InvHolds, PTL

\* A read-only session sends no mutation, whatever was open or awaited when it
\* became one (ProfileSwitchFinished, the open_* functions).
THEOREM ReadOnlyHolds == Spec => ReadOnlyNeverWrites
<1> DEFINE Kept == forced \/ readOnly => Writes' \subseteq Writes
<1>1. ASSUME Inv, [Next]_vars PROVE Kept
  <2> SUFFICES ASSUME readOnly PROVE Writes' \subseteq Writes
    BY <1>1 DEF Inv, ReadOnlyGuard
  <2> USE <1>1 DEF Inv
  <2>1. overlay.form \notin Mutations \cup {"batchConfirm"}
    BY DEF ReadOnlyGuard
  <2>2. ASSUME tasks' \subseteq tasks
        PROVE  Writes' \subseteq Writes
    BY <2>2 DEF Writes
  <2>3. CASE Submit
    <3>1. ASSUME NEW f \in FrozenForms, SubmitConfirmed(f) \/ SubmitUnchecked(f)
          PROVE  FALSE
      BY <3>1, <2>1, KindFacts DEF SubmitConfirmed, SubmitUnchecked, SubmitFrozen
    <3>2. ASSUME NEW f \in LateForms, SubmitLate(f)
          PROVE  Writes' \subseteq Writes
      BY <3>2, <2>1 DEF SubmitLate, LateForms, Mutations, Writes, Send
    <3>3. ~Toggle /\ ~StartBatch
      BY <2>1 DEF Toggle, MayWrite, StartBatch
    <3>4. CASE PreviewBatch
      BY <3>4, KindFacts DEF PreviewBatch, Send, Writes, AllForms
    <3> QED BY <2>3, <3>1, <3>2, <3>3, <3>4 DEF Submit
  <2>4. CASE Open
    BY <2>2, <2>4 DEF Open, OpenForm, OpenProfiles, OpenNamespaces, OpenAttributes,
       OpenAttributeForm, CloseOverlay
  <2>5. ASSUME NEW t \in tasks, DropAnswer(t) \/ Answer(t)
        PROVE  Writes' \subseteq Writes
    BY <2>2, <2>5 DEF DropAnswer, Answer, AnswerOperation, AnswerCall, AnswerPreview
  <2>6. CASE ConnectDone \/ PickProfile
    BY <2>2, <2>6 DEF ConnectDone, ConnectFailed, Connected, PickProfile
  <2>7. CASE \/ \E row \in Targets \cup {NoRow} : ListReloaded(row)
             \/ \E row \in Targets : SelectRow(row)
             \/ \E ns \in Namespaces : PickNamespace(ns)
             \/ UNCHANGED vars
    BY <2>2, <2>7 DEF ListReloaded, SelectRow, PickNamespace, vars
  <2> QED BY <2>3, <2>4, <2>5, <2>6, <2>7 DEF Next
<1>2. Inv /\ [Next]_vars => [Kept]_vars
  BY <1>1
<1> QED BY <1>2, InvHolds, PTL DEF Spec, ReadOnlyNeverWrites
=============================================================================
