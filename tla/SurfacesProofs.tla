--------------------------- MODULE SurfacesProofs ---------------------------
(***************************************************************************)
(* Safety of Surfaces for any lists, namespaces and queries, and lists of  *)
(* any length.                                                             *)
(***************************************************************************)
EXTENDS Surfaces, SequenceTheorems, TLAPS

\* The list was left alone under an open request or with an old cursor.
Adrift(p) == "crossed" \in p.upset \/ "degraded" \in p.upset

\* Every page token is one of the list `o'.
Cursors(p, o) ==
  \/ Adrift(p)
  \/ /\ p.cur # Empty => p.cur.at = o
     /\ p.next # Empty => p.next.at = o
     /\ \A i \in 1..Len(p.prev) : p.prev[i] # Empty => p.prev[i].at = o

\* The request that is out is for the current page.
Awaits(p, o) ==
  Adrift(p) \/ (p.asked # NotAsked => p.asked.at = o /\ p.asked.token = p.cur)

\* The tokens count the pages.  While a previous page is awaited the next one
\* is still that of the page that was left.
Paged(p) ==
  \/ Adrift(p)
  \/ "skipped" \in p.upset
  \/ /\ PageOf(p.cur) = Len(p.prev) + 1
     /\ \A i \in 1..Len(p.prev) : PageOf(p.prev[i]) = i
     /\ p.next # Empty /\ "returned" \notin p.upset => PageOf(p.next) = Len(p.prev) + 2

Described(p, o) ==
  p.rows # NoRows /\ p.upset \subseteq {"returned"} => p.rows = [at |-> o, page |-> p.number]

\* A list that was taken away is empty, and nothing is out that would fill it.
Taken(p, away) == away /\ (p.rows # NoRows \/ p.asked # NotAsked) => Adrift(p)

Good(p, o, away) ==
  Cursors(p, o) /\ Awaits(p, o) /\ Paged(p) /\ Described(p, o) /\ Taken(p, away)

Inv == TypeOK /\ Good(list, Here, blocked)

-----------------------------------------------------------------------------
(* Tokens and sequences                                                     *)

LEMMA TokenFacts ==
  /\ 1 \in 1..MaxPages
  /\ \A t \in {Empty} \cup Token : PageOf(t) \in 1..MaxPages
  /\ \A t \in {Empty} \cup Token : PageOf(t) = 1 => t = Empty
  /\ PageOf(Empty) = 1
  BY PagesAssumption DEF PageOf, Empty, Token

LEMMA SequenceFacts ==
  ASSUME NEW S, NEW s \in Seq(S)
  PROVE  /\ Len(s) \in Nat
         /\ \A i \in 1..Len(s) : s[i] \in S
         /\ \A x \in S : /\ Append(s, x) \in Seq(S) /\ Len(Append(s, x)) = Len(s) + 1
                         /\ \A i \in 1..Len(s) : Append(s, x)[i] = s[i]
                         /\ Append(s, x)[Len(s) + 1] = x
         /\ s # <<>> => /\ Last(s) \in S /\ Last(s) = s[Len(s)] /\ Len(s) > 0
                        /\ Front(s) \in Seq(S) /\ Len(Front(s)) = Len(s) - 1
                        /\ \A i \in 1..(Len(s) - 1) : Front(s)[i] = s[i]
<1>1. Len(s) \in Nat /\ \A i \in 1..Len(s) : s[i] \in S
  OBVIOUS
<1>2. \A x \in S : /\ Append(s, x) \in Seq(S) /\ Len(Append(s, x)) = Len(s) + 1
                   /\ \A i \in 1..Len(s) : Append(s, x)[i] = s[i]
                   /\ Append(s, x)[Len(s) + 1] = x
  OBVIOUS
<1>3. ASSUME s # <<>>
      PROVE  /\ Last(s) \in S /\ Last(s) = s[Len(s)] /\ Len(s) > 0
             /\ Front(s) \in Seq(S) /\ Len(Front(s)) = Len(s) - 1
             /\ \A i \in 1..(Len(s) - 1) : Front(s)[i] = s[i]
  <2>1. Len(s) > 0 /\ Len(s) \in 1..Len(s)
    BY <1>1, <1>3
  <2>2. Last(s) = s[Len(s)] /\ Last(s) \in S
    BY <2>1, <1>1 DEF Last
  <2>3. /\ Front(s) \in Seq(S) /\ Len(Front(s)) = Len(s) - 1
        /\ \A i \in 1..(Len(s) - 1) : Front(s)[i] = s[i]
    <3> DEFINE n == Len(s) - 1
    <3>1. n \in Nat /\ n \in Int /\ 1 \in Int
      BY <2>1, <1>1
    <3>2. \A i \in 1..n : s[i] \in S
      BY <1>1
    <3>3. Front(s) = SubSeq(s, 1, n)
      BY DEF Front
    <3> HIDE DEF n
    <3>4. /\ SubSeq(s, 1, n) \in Seq(S)
          /\ Len(SubSeq(s, 1, n)) = IF 1 <= n THEN n - 1 + 1 ELSE 0
          /\ \A i \in 1..n - 1 + 1 : SubSeq(s, 1, n)[i] = s[1 + i - 1]
      BY <3>1, <3>2, SubSeqProperties
    <3>5. Len(Front(s)) = n /\ \A i \in 1..n : Front(s)[i] = s[i]
      BY <3>1, <3>3, <3>4
    <3> QED BY <3>3, <3>4, <3>5 DEF n
  <2> QED BY <2>1, <2>2, <2>3
<1> QED BY <1>1, <1>2, <1>3

-----------------------------------------------------------------------------
(* What is done to a list                                                   *)

LEMMA UpsetFacts ==
  ASSUME NEW p \in List, NEW how \in SUBSET Upsets
  PROVE  /\ Upset(p, how) \in List
         /\ Upset(p, how).upset = p.upset \cup how
         /\ Upset(p, how).cur = p.cur /\ Upset(p, how).next = p.next
         /\ Upset(p, how).prev = p.prev /\ Upset(p, how).number = p.number
         /\ Upset(p, how).rows = p.rows /\ Upset(p, how).asked = p.asked
  BY DEF Upset, List

LEMMA ResetFacts ==
  ASSUME NEW p \in List
  PROVE  /\ Reset(p) \in List
         /\ Reset(p).cur = Empty /\ Reset(p).next = Empty /\ Reset(p).prev = <<>>
         /\ Reset(p).number = 1 /\ Reset(p).upset = p.upset
         /\ Reset(p).rows = p.rows /\ Reset(p).asked = p.asked
<1>1. <<>> \in Seq({Empty} \cup Token) /\ 1 \in 1..MaxPages
  BY TokenFacts
<1> QED BY <1>1 DEF Reset, List

LEMMA ClearedFacts ==
  ASSUME NEW p \in List
  PROVE  /\ Cleared(p) \in List
         /\ Cleared(p).cur = p.cur /\ Cleared(p).next = p.next /\ Cleared(p).prev = p.prev
         /\ Cleared(p).rows = NoRows
         /\ Cleared(p).asked = p.asked /\ Cleared(p).upset = p.upset
  BY DEF Cleared, List

LEMMA SentFacts ==
  ASSUME NEW p \in List, NEW o \in Origin
  PROVE  /\ Sent(p, o) \in List
         /\ Sent(p, o).cur = p.cur /\ Sent(p, o).next = p.next /\ Sent(p, o).prev = p.prev
         /\ Sent(p, o).number = p.number
         /\ Sent(p, o).rows = p.rows /\ Sent(p, o).upset = p.upset
         /\ Sent(p, o).asked.at = o /\ Sent(p, o).asked.token = p.cur
<1>1. p.cur \in {Empty} \cup Token
  BY DEF List
<1>2. [at |-> o, token |-> p.cur] \in Asked
  BY <1>1 DEF Asked
<1> QED BY <1>1, <1>2 DEF Sent, List

\* Sending for the current page keeps a list good, and so does clearing one
\* that was taken away.
LEMMA RefreshedGood ==
  ASSUME NEW p \in List, NEW o \in Origin, NEW away \in BOOLEAN,
         Cursors(p, o), Paged(p), Described(p, o), Taken(p, away)
  PROVE  /\ Refreshed(p, FALSE, o, away) \in List
         /\ Good(Refreshed(p, FALSE, o, away), o, away)
         /\ Refreshed(p, FALSE, o, away).prev = p.prev
         /\ Refreshed(p, FALSE, o, away).cur = p.cur
<1>1. CASE away
  <2>1. Refreshed(p, FALSE, o, away) = Cleared(p)
    BY <1>1 DEF Refreshed
  <2> QED BY <1>1, <2>1, ClearedFacts DEF Good, Cursors, Awaits, Paged, Described, Taken, Adrift
<1>2. CASE ~away
  <2>1. Refreshed(p, FALSE, o, away) = Sent(p, o)
    BY <1>2 DEF Refreshed
  <2>2. Cursors(Sent(p, o), o) /\ Awaits(Sent(p, o), o)
    BY SentFacts DEF Cursors, Awaits, Adrift
  <2>3. Paged(Sent(p, o)) /\ Described(Sent(p, o), o) /\ Taken(Sent(p, o), away)
    BY <1>2, SentFacts DEF Paged, Described, Taken, Adrift
  <2>4. Sent(p, o) \in List /\ Sent(p, o).prev = p.prev /\ Sent(p, o).cur = p.cur
    BY SentFacts
  <2> QED BY <2>1, <2>2, <2>3, <2>4 DEF Good
<1> QED BY <1>1, <1>2

\* A list that is sent for from its start is good if its rows are gone or known
\* to be old.
LEMMA ResetGood ==
  ASSUME NEW p \in List, NEW o \in Origin,
         p.rows = NoRows \/ ~(p.upset \subseteq {"returned"})
  PROVE  Sent(Reset(p), o) \in List /\ Good(Sent(Reset(p), o), o, FALSE)
         /\ Sent(Reset(p), o).prev = <<>>
<1> DEFINE q == Reset(p)
<1>1. /\ q \in List /\ q.cur = Empty /\ q.next = Empty /\ q.prev = <<>> /\ q.upset = p.upset
      /\ q.rows = p.rows
  BY ResetFacts
<1> HIDE DEF q
<1>2. /\ Sent(q, o) \in List
      /\ Sent(q, o).cur = Empty /\ Sent(q, o).next = Empty /\ Sent(q, o).prev = <<>>
      /\ Sent(q, o).rows = p.rows /\ Sent(q, o).upset = p.upset
      /\ Sent(q, o).asked.at = o /\ Sent(q, o).asked.token = Empty
  BY <1>1, SentFacts
<1>3. Cursors(Sent(q, o), o) /\ Awaits(Sent(q, o), o) /\ Paged(Sent(q, o))
  BY <1>2, TokenFacts DEF Cursors, Awaits, Paged
<1>4. Described(Sent(q, o), o) /\ Taken(Sent(q, o), FALSE)
  BY <1>2 DEF Described, Taken
<1> QED BY <1>2, <1>3, <1>4 DEF Good, q

LEMMA FreshFacts ==
  /\ Fresh \in List /\ \A o : Good(Fresh, o, FALSE)
  /\ Fresh.rows = NoRows /\ Fresh.upset = {} /\ Fresh.prev = <<>> /\ Fresh.cur = Empty
<1>1. Fresh \in List
  BY TokenFacts DEF Fresh, List
<1>2. \A o : Good(Fresh, o, FALSE)
  BY TokenFacts DEF Fresh, Good, Cursors, Awaits, Paged, Described, Taken
<1> QED BY <1>1, <1>2 DEF Fresh

-----------------------------------------------------------------------------
(* Keys                                                                     *)

LEMMA HereFacts ==
  ASSUME TypeOK
  PROVE  Here \in Origin /\ blocked \in BOOLEAN /\ list \in List /\ \A ns \in Namespaces, q \in Queries :
            [ns |-> ns, query |-> q] \in Origin
  BY DEF TypeOK, Here, Origin

LEMMA BareUpset ==
  ASSUME NEW p \in List
  PROVE  Upset(p, {}) \in List /\ Upset(p, {"skipped"}) \in List /\ Upset(p, {"returned"}) \in List
         /\ Upset(p, {"degraded"}) \in List /\ Upset(p, {"requeried"}) \in List
         /\ Upset(p, {"crossed"}) \in List
  BY UpsetFacts DEF Upsets

\* Going forward from a good list counts on; from a previous page that has not
\* come it skips.
LEMMA ForwardGood ==
  ASSUME NEW p \in List, NEW o \in Origin, NEW away \in BOOLEAN, Good(p, o, away),
         p.next # Empty, Len(p.prev) + 1 < MaxPages,
         NEW how, how = IF "returned" \in p.upset THEN {"skipped"} ELSE {},
         NEW q, q = Upset(Forward(p), how)
  PROVE  /\ q \in List /\ q.cur = p.next /\ Len(q.prev) = Len(p.prev) + 1
         /\ Cursors(q, o) /\ Paged(q) /\ Described(q, o) /\ Taken(q, away)
<1> DEFINE f == Forward(p)
<1>1. /\ p.cur \in {Empty} \cup Token /\ p.next \in {Empty} \cup Token
      /\ p.prev \in Seq({Empty} \cup Token)
  BY DEF List
<1>2. /\ f \in List /\ f.cur = p.next /\ f.next = Empty /\ f.prev = Append(p.prev, p.cur)
      /\ f.number = p.number /\ f.rows = p.rows /\ f.asked = p.asked /\ f.upset = p.upset
  BY <1>1, SequenceFacts DEF Forward, List
<1> HIDE DEF f
<1>3. how \in SUBSET Upsets
  BY DEF Upsets
<1>4. /\ q \in List /\ q.cur = p.next /\ q.next = Empty /\ q.prev = Append(p.prev, p.cur)
      /\ q.number = p.number /\ q.rows = p.rows /\ q.asked = p.asked
      /\ q.upset = p.upset \cup how
  BY <1>2, <1>3, UpsetFacts DEF f
<1>5. /\ Len(q.prev) = Len(p.prev) + 1 /\ Len(p.prev) \in Nat
      /\ \A i \in 1..Len(p.prev) : q.prev[i] = p.prev[i]
      /\ q.prev[Len(p.prev) + 1] = p.cur
  BY <1>1, <1>4, SequenceFacts
<1>6. Adrift(p) => Adrift(q)
  BY <1>4 DEF Adrift
<1>7. Cursors(q, o)
  BY <1>4, <1>5, <1>6 DEF Good, Cursors
<1>8. Paged(q)
  <2>1. CASE "returned" \in p.upset
    BY <2>1, <1>4 DEF Paged
  <2>2. CASE "returned" \notin p.upset
    BY <2>2, <1>4, <1>5, <1>6 DEF Good, Paged
  <2> QED BY <2>1, <2>2
<1>9. Described(q, o) /\ Taken(q, away)
  BY <1>4, <1>6 DEF Good, Described, Taken
<1> QED BY <1>4, <1>5, <1>7, <1>8, <1>9

LEMMA BackGood ==
  ASSUME NEW p \in List, NEW o \in Origin, NEW away \in BOOLEAN, Good(p, o, away),
         p.prev # <<>>, NEW q, q = Upset(Back(p), {"returned"})
  PROVE  /\ q \in List /\ q.cur = p.prev[Len(p.prev)] /\ Len(q.prev) = Len(p.prev) - 1
         /\ Cursors(q, o) /\ Paged(q) /\ Described(q, o) /\ Taken(q, away)
<1> DEFINE f == Back(p)
<1>1. p.prev \in Seq({Empty} \cup Token)
  BY DEF List
<1>2. /\ f \in List /\ f.cur = Last(p.prev) /\ f.next = p.next /\ f.prev = Front(p.prev)
      /\ f.number = p.number /\ f.rows = p.rows /\ f.asked = p.asked /\ f.upset = p.upset
  BY <1>1, SequenceFacts DEF Back, List
<1> HIDE DEF f
<1>3. {"returned"} \in SUBSET Upsets
  BY DEF Upsets
<1>4. /\ q \in List /\ q.cur = Last(p.prev) /\ q.next = p.next /\ q.prev = Front(p.prev)
      /\ q.number = p.number /\ q.rows = p.rows /\ q.asked = p.asked
      /\ q.upset = p.upset \cup {"returned"}
  BY <1>2, <1>3, UpsetFacts DEF f
<1>5. /\ Len(q.prev) = Len(p.prev) - 1 /\ Len(p.prev) \in Nat /\ Len(p.prev) > 0
      /\ \A i \in 1..(Len(p.prev) - 1) : q.prev[i] = p.prev[i]
      /\ q.cur = p.prev[Len(p.prev)]
  BY <1>1, <1>4, SequenceFacts
<1>6. Adrift(p) => Adrift(q)
  BY <1>4 DEF Adrift
<1>7. Cursors(q, o)
  BY <1>4, <1>5, <1>6 DEF Good, Cursors
<1>8. Paged(q)
  BY <1>4, <1>5, <1>6 DEF Good, Paged
<1>9. Described(q, o) /\ Taken(q, away)
  BY <1>4, <1>6 DEF Good, Described, Taken
<1> QED BY <1>4, <1>5, <1>7, <1>8, <1>9

\* Whatever is left by a step of `list' has to be shown.
LEMMA ListStep ==
  ASSUME TypeOK, list' \in List, Len(list'.prev) < MaxPages,
         kind' = kind, view' \in Views, namespace' \in Namespaces, query' \in Queries,
         blocked' \in BOOLEAN, blocked' => kind \in Degradable, reporting' \in BOOLEAN,
         Good(list', [ns |-> namespace', query |-> query'], blocked')
  PROVE  Inv'
  BY DEF Inv, TypeOK, Here

LEMMA PageKeysStep == Inv /\ (NextPage \/ PreviousPage \/ Reload) => Inv'
<1> SUFFICES ASSUME Inv, NextPage \/ PreviousPage \/ Reload PROVE Inv'
  OBVIOUS
<1> USE DEF Inv
<1>1. /\ UNCHANGED <<kind, view, namespace, query, blocked, reporting>>
      /\ Here = [ns |-> namespace', query |-> query']
  BY DEF NextPage, PreviousPage, Reload, screenVars, reportVars, Here
<1>2. ASSUME NEW p \in List, Len(p.prev) < MaxPages, Cursors(p, Here), Paged(p),
             Described(p, Here), Taken(p, blocked), list' = Refresh(p, FALSE)
      PROVE  Inv'
  <2>1. /\ list' \in List /\ Good(list', Here, blocked) /\ list'.prev = p.prev
    BY <1>2, HereFacts, RefreshedGood DEF Refresh
  <2> QED BY <1>1, <1>2, <2>1, ListStep DEF TypeOK
<1>3. CASE NextPage
  <2> DEFINE how == IF "returned" \in list.upset THEN {"skipped"} ELSE {}
             p   == Upset(Forward(list), how)
  <2>1. list' = Refresh(p, FALSE) /\ list.next # Empty /\ Len(list.prev) + 1 < MaxPages
    BY <1>3 DEF NextPage
  <2>2. /\ p \in List /\ Len(p.prev) = Len(list.prev) + 1
        /\ Cursors(p, Here) /\ Paged(p) /\ Described(p, Here) /\ Taken(p, blocked)
    BY <2>1, HereFacts, ForwardGood
  <2> HIDE DEF p
  <2> QED BY <2>1, <2>2, <1>2
<1>4. CASE PreviousPage
  <2> DEFINE p == Upset(Back(list), {"returned"})
  <2>1. list' = Refresh(p, FALSE) /\ list.prev # <<>>
    BY <1>4 DEF PreviousPage
  <2>2. /\ p \in List /\ Len(p.prev) = Len(list.prev) - 1
        /\ Cursors(p, Here) /\ Paged(p) /\ Described(p, Here) /\ Taken(p, blocked)
    BY <2>1, HereFacts, BackGood
  <2>3. Len(list.prev) < MaxPages /\ Len(list.prev) \in Nat
    BY SequenceFacts DEF TypeOK, List
  <2> HIDE DEF p
  <2>4. Len(p.prev) < MaxPages
    BY <2>2, <2>3, PagesAssumption
  <2> QED BY <2>1, <2>2, <2>4, <1>2
<1>5. CASE Reload
  BY <1>5, HereFacts, <1>2 DEF Reload, TypeOK, Good
<1> QED BY <1>3, <1>4, <1>5

LEMMA QueryStep ==
  ASSUME Inv, NEW q \in Queries, ApplyQuery(q)
  PROVE  Inv'
<1> USE DEF Inv
<1> DEFINE o == [ns |-> namespace, query |-> q]
<1>1. o \in Origin /\ list \in List /\ Len(list.prev) < MaxPages
  BY HereFacts DEF TypeOK
<1>2. /\ UNCHANGED <<kind, view, namespace, blocked, reporting>> /\ query' = q
      /\ o = [ns |-> namespace', query |-> query']
  BY DEF ApplyQuery, reportVars
<1>3. ASSUME list' \in List, Good(list', o, blocked), list'.prev \in {list.prev, <<>>}
      PROVE  Inv'
  BY <1>1, <1>2, <1>3, ListStep, PagesAssumption DEF TypeOK
<1>4. CASE blocked
  <2> DEFINE p == Upset(list, {"degraded"})
  <2>1. list' = Cleared(p)
    BY <1>4 DEF ApplyQuery, Refreshed
  <2>2. p \in List /\ p.upset = list.upset \cup {"degraded"} /\ p.prev = list.prev
    BY <1>1, UpsetFacts DEF Upsets
  <2> HIDE DEF p
  <2>3. list' \in List /\ list'.rows = NoRows /\ "degraded" \in list'.upset
        /\ list'.prev = list.prev
    BY <2>1, <2>2, ClearedFacts
  <2> QED BY <2>3, <1>3 DEF Good, Cursors, Awaits, Paged, Described, Taken, Adrift
<1>5. CASE ~blocked
  <2> DEFINE p == Upset(list, {"requeried"})
  <2>1. list' = Sent(Reset(p), o)
    BY <1>5 DEF ApplyQuery, Refreshed
  <2>2. p \in List /\ p.upset = list.upset \cup {"requeried"}
    BY <1>1, UpsetFacts DEF Upsets
  <2>5. ~(p.upset \subseteq {"returned"})
    BY <2>2
  <2> HIDE DEF p, o
  <2>3. list' \in List /\ Good(list', o, FALSE) /\ list'.prev = <<>>
    BY <2>1, <2>2, <2>5, <1>1, ResetGood
  <2>4. Good(list', o, blocked)
    BY <2>3, <1>5 DEF Good, Taken
  <2> QED BY <2>3, <2>4, <1>3
<1> QED BY <1>4, <1>5

LEMMA ViewStep ==
  ASSUME Inv, NEW v \in Views, SwitchView(v)
  PROVE  Inv'
<1> USE DEF Inv
<1>1. /\ Here \in Origin /\ list \in List /\ Len(list.prev) < MaxPages /\ blocked \in BOOLEAN
  BY HereFacts DEF TypeOK
<1>2. /\ UNCHANGED <<kind, namespace, query, blocked, reporting>> /\ view' = v
      /\ Here = [ns |-> namespace', query |-> query']
  BY DEF SwitchView, reportVars, Here
<1>3. ASSUME list' \in List, Good(list', Here, blocked), list'.prev \in {list.prev, <<>>}
      PROVE  Inv'
  BY <1>1, <1>2, <1>3, ListStep, PagesAssumption DEF TypeOK
<1>4. CASE list' = list
  BY <1>1, <1>3, <1>4
<1>5. CASE list.rows = NoRows /\ list' = Refresh(list, kind # "workflows")
  <2>1. CASE kind = "workflows" \/ blocked
    <3>1. list' = Refreshed(list, FALSE, Here, blocked)
      BY <1>5, <2>1 DEF Refresh, Refreshed
    <3>2. list' \in List /\ Good(list', Here, blocked) /\ list'.prev = list.prev
      BY <1>1, <3>1, RefreshedGood DEF Good
    <3> QED BY <3>2, <1>3
  <2>2. CASE kind # "workflows" /\ ~blocked
    <3>1. list' = Sent(Reset(list), Here)
      BY <1>5, <2>2 DEF Refresh, Refreshed
    <3>2. list' \in List /\ Good(list', Here, FALSE) /\ list'.prev = <<>>
      BY <1>1, <1>5, <3>1, ResetGood
    <3>3. Good(list', Here, blocked)
      BY <3>2, <2>2 DEF Good, Taken
    <3> QED BY <3>2, <3>3, <1>3
  <2> QED BY <2>1, <2>2
<1> QED BY <1>4, <1>5 DEF SwitchView

LEMMA NamespaceStep ==
  ASSUME Inv, NEW ns \in Namespaces, PickNamespace(ns)
  PROVE  Inv'
<1> USE DEF Inv
<1> DEFINE o == [ns |-> ns, query |-> query]
           p == [list EXCEPT !.rows = NoRows, !.upset = {}]
           q == IF kind \in ResetAlways THEN Reset(p) ELSE p
           open == kind = "workflows" \/ q.asked # NotAsked
<1>1. o \in Origin /\ list \in List /\ Len(list.prev) < MaxPages
  BY HereFacts DEF TypeOK
<1>2. /\ UNCHANGED <<kind, view, query>> /\ namespace' = ns /\ blocked' = FALSE
      /\ reporting' = TRUE /\ o = [ns |-> namespace', query |-> query']
      /\ list' = IF view = "own" THEN Refreshed(q, TRUE, o, FALSE)
                 ELSE IF open THEN Upset(q, {"crossed"}) ELSE q
  BY DEF PickNamespace
<1>3. ASSUME list' \in List, Good(list', o, FALSE), list'.prev \in {list.prev, <<>>}
      PROVE  Inv'
  <2>1. Good(list', o, blocked')
    BY <1>2, <1>3 DEF Good, Taken
  <2>2. Len(list'.prev) < MaxPages
    BY <1>1, <1>3, PagesAssumption
  <2> QED BY <1>2, <1>3, <2>1, <2>2, ListStep DEF TypeOK
<1>4. /\ p \in List /\ p.rows = NoRows /\ p.upset = {} /\ p.prev = list.prev
  BY <1>1 DEF List
<1> HIDE DEF p
<1>5. /\ q \in List /\ q.rows = NoRows /\ q.upset = {} /\ q.prev \in {list.prev, <<>>}
      /\ kind # "workflows" => q.cur = Empty /\ q.next = Empty /\ q.prev = <<>>
  <2>1. kind # "workflows" => kind \in ResetAlways
    BY DEF TypeOK, ResetAlways, Degradable
  <2> QED BY <1>4, <2>1, ResetFacts
<1> HIDE DEF q, o
<1>6. CASE view = "own"
  <2>1. list' = Sent(Reset(q), o)
    BY <1>2, <1>6 DEF Refreshed
  <2> QED BY <2>1, <1>1, <1>3, <1>5, ResetGood
<1>7. CASE view # "own" /\ open
  <2>1. list' = Upset(q, {"crossed"})
    BY <1>2, <1>7
  <2>2. list' \in List /\ list'.rows = NoRows /\ "crossed" \in list'.upset /\ list'.prev = q.prev
    BY <2>1, <1>5, UpsetFacts DEF Upsets
  <2> QED BY <2>2, <1>3, <1>5 DEF Good, Cursors, Awaits, Paged, Described, Taken, Adrift
<1>8. CASE view # "own" /\ ~open
  <2>1. list' = q /\ kind # "workflows" /\ q.asked = NotAsked
    BY <1>2, <1>8
  <2>2. Good(q, o, FALSE)
    BY <2>1, <1>5, TokenFacts DEF Good, Cursors, Awaits, Paged, Described, Taken
  <2> QED BY <2>1, <2>2, <1>3, <1>5
<1> QED BY <1>6, <1>7, <1>8

LEMMA ConnectedStep ==
  ASSUME Inv, NEW ns \in Namespaces, Connected(ns)
  PROVE  Inv'
<1> USE DEF Inv
<1> DEFINE o == [ns |-> ns, query |-> query]
<1>1. /\ UNCHANGED <<kind, view, query>> /\ namespace' = ns /\ blocked' = FALSE
      /\ reporting' = TRUE /\ o = [ns |-> namespace', query |-> query']
      /\ list' = IF view = "own" THEN Sent(Fresh, o) ELSE Fresh
  BY DEF Connected
<1>2. o \in Origin
  BY HereFacts DEF TypeOK
<1> HIDE DEF o
<1>3. list' \in List /\ Good(list', o, FALSE) /\ list'.prev = <<>>
  <2>1. Sent(Fresh, o) = Refreshed(Fresh, FALSE, o, FALSE)
    BY DEF Refreshed
  <2>2. /\ Refreshed(Fresh, FALSE, o, FALSE) \in List
        /\ Good(Refreshed(Fresh, FALSE, o, FALSE), o, FALSE)
        /\ Refreshed(Fresh, FALSE, o, FALSE).prev = <<>>
    BY <1>2, FreshFacts, RefreshedGood DEF Good
  <2> QED BY <1>1, <2>1, <2>2, FreshFacts
<1>4. Good(list', o, blocked')
  BY <1>1, <1>3 DEF Good, Taken
<1>5. Len(list'.prev) < MaxPages
  BY <1>3, PagesAssumption
<1> QED BY <1>1, <1>3, <1>4, <1>5, ListStep DEF TypeOK

-----------------------------------------------------------------------------
(* Answers                                                                  *)

LEMMA LoadedStep == Inv /\ ListLoaded => Inv'
<1> SUFFICES ASSUME Inv, ListLoaded PROVE Inv'
  OBVIOUS
<1> USE DEF Inv
<1>1. /\ UNCHANGED <<kind, view, namespace, query, blocked, reporting>>
      /\ Here = [ns |-> namespace', query |-> query']
  BY DEF ListLoaded, screenVars, reportVars, Here
<1>2. /\ list \in List /\ Here \in Origin /\ Len(list.prev) < MaxPages /\ Len(list.prev) \in Nat
      /\ list.asked \in Asked /\ list.asked.at \in Origin
      /\ list.asked.token \in {Empty} \cup Token /\ list.upset \in SUBSET Upsets
  <2>1. list \in List /\ list.asked # NotAsked
    BY DEF TypeOK, ListLoaded
  <2>2. list.asked \in Asked
    BY <2>1 DEF List
  <2>3. list.asked.at \in Origin /\ list.asked.token \in {Empty} \cup Token
    BY <2>2 DEF Asked
  <2> QED BY <2>1, <2>2, <2>3, HereFacts, SequenceFacts DEF List, TypeOK
<1>3. PICK page \in AnswerTo(list.asked) :
        \E next \in TokenAfter(list.asked.at, page),
           rows \in {NoRows, [at |-> list.asked.at, page |-> page]} :
          list' = [list EXCEPT !.next = next, !.number = NumberOf(list), !.rows = rows,
                               !.loading = FALSE, !.asked = NotAsked, !.upset = UpsetAfter(list)]
  BY DEF ListLoaded
<1>4. PICK next \in TokenAfter(list.asked.at, page),
           rows \in {NoRows, [at |-> list.asked.at, page |-> page]} :
          list' = [list EXCEPT !.next = next, !.number = NumberOf(list), !.rows = rows,
                               !.loading = FALSE, !.asked = NotAsked, !.upset = UpsetAfter(list)]
  BY <1>3
<1>5. page \in 1..MaxPages
  BY <1>2, <1>3, TokenFacts DEF AnswerTo
<1>6. /\ next \in {Empty} \cup Token
      /\ next # Empty => next.at = list.asked.at /\ PageOf(next) = page + 1
  <2>1. CASE page < MaxPages
    <3>1. [at |-> list.asked.at, page |-> page + 1] \in Token
      BY <1>2, <1>5, <2>1, PagesAssumption DEF Token
    <3> QED BY <3>1, <2>1 DEF TokenAfter, PageOf
  <2> QED BY <2>1 DEF TokenAfter
<1>7. rows \in {NoRows} \cup Rows
  BY <1>2, <1>5 DEF Rows
<1>8. NumberOf(list) = Len(list.prev) + 1 /\ NumberOf(list) \in 1..MaxPages
  BY <1>2, PagesAssumption DEF NumberOf
<1>9. UpsetAfter(list) \in SUBSET Upsets
  BY <1>2 DEF UpsetAfter
<1>10. /\ list' \in List /\ list'.cur = list.cur /\ list'.next = next /\ list'.prev = list.prev
       /\ list'.number = Len(list.prev) + 1 /\ list'.rows = rows /\ list'.asked = NotAsked
       /\ list'.upset = UpsetAfter(list)
  BY <1>2, <1>4, <1>6, <1>7, <1>8, <1>9 DEF List
<1>11. Good(list', Here, blocked)
  <2>1. CASE Settled(list) /\ ~blocked
    <3>1. /\ list.asked.at = Here /\ page = 1 /\ list.cur = Empty /\ list.prev = <<>>
      BY <1>3, <2>1, TokenFacts DEF Settled, AnswerTo
    <3>2. list'.upset = {}
      BY <1>10, <2>1 DEF UpsetAfter
    <3> QED BY <1>6, <1>10, <2>1, <3>1, <3>2, TokenFacts
            DEF Good, Cursors, Awaits, Paged, Described, Taken
  <2>2. CASE ~(Settled(list) /\ ~blocked) /\ Adrift(list)
    <3>1. Adrift(list') /\ ~(list'.upset \subseteq {"returned"})
      BY <1>10, <2>2 DEF UpsetAfter, Adrift
    <3> QED BY <3>1 DEF Good, Cursors, Awaits, Paged, Described, Taken
  <2>3. CASE ~(Settled(list) /\ ~blocked) /\ ~Adrift(list)
    <3>1. list.asked.at = Here /\ list.asked.token = list.cur /\ ~blocked
      BY <2>3 DEF Good, Awaits, Taken, ListLoaded
    <3>2. list'.upset = list.upset \ {"returned"}
      BY <1>10, <2>3, <3>1 DEF UpsetAfter
    <3>3. page = PageOf(list.cur)
      <4>1. list.asked.token = Empty \/ list.asked.token.at = list.asked.at
        BY <2>3, <3>1 DEF Good, Cursors
      <4> QED BY <4>1, <3>1, <1>3 DEF AnswerTo
    <3>4. Cursors(list', Here) /\ Awaits(list', Here) /\ Taken(list', blocked)
      BY <1>6, <1>10, <2>3, <3>1 DEF Good, Cursors, Awaits, Taken
    <3>5. CASE "skipped" \in list.upset
      BY <3>2, <3>4, <3>5 DEF Good, Paged, Described
    <3>6. CASE "skipped" \notin list.upset
      <4>1. /\ page = Len(list.prev) + 1
            /\ \A i \in 1..Len(list.prev) : PageOf(list.prev[i]) = i
        BY <2>3, <3>3, <3>6 DEF Good, Paged
      <4>2. Paged(list')
        BY <4>1, <3>3, <1>2, <1>6, <1>10 DEF Paged
      <4>3. Described(list', Here)
        BY <4>1, <3>1, <1>10 DEF Described
      <4> QED BY <3>4, <4>2, <4>3 DEF Good
    <3> QED BY <3>5, <3>6
  <2> QED BY <2>1, <2>2, <2>3
<1> QED BY <1>1, <1>2, <1>10, <1>11, ListStep DEF TypeOK

LEMMA FailedStep == Inv /\ ListFailed => Inv'
<1> SUFFICES ASSUME Inv, ListFailed PROVE Inv'
  OBVIOUS
<1> USE DEF Inv
<1>1. /\ UNCHANGED <<kind, view, namespace, query, blocked, reporting>>
      /\ Here = [ns |-> namespace', query |-> query']
      /\ list' = [list EXCEPT !.loading = FALSE, !.asked = NotAsked]
  BY DEF ListFailed, AfterError, screenVars, reportVars, Here
<1>2. /\ list' \in List /\ list'.cur = list.cur /\ list'.next = list.next
      /\ list'.prev = list.prev /\ list'.number = list.number /\ list'.rows = list.rows
      /\ list'.asked = NotAsked /\ list'.upset = list.upset
  BY <1>1 DEF TypeOK, List
<1>3. Good(list', Here, blocked)
  BY <1>2 DEF Good, Cursors, Awaits, Paged, Described, Taken, Adrift
<1> QED BY <1>1, <1>2, <1>3, ListStep DEF TypeOK

LEMMA ReportStep ==
  ASSUME Inv, NEW e, ReportLoaded(e)
  PROVE  Inv'
<1> USE DEF Inv
<1>1. /\ UNCHANGED <<kind, view, namespace, query>> /\ reporting' = FALSE
      /\ Here = [ns |-> namespace', query |-> query']
  BY DEF ReportLoaded, screenVars, Here
<1>2. blocked' \in BOOLEAN /\ (blocked' => kind \in Degradable)
  <2>1. blocked' = (kind \in Degradable /\ Blocks(kind, e))
    BY DEF ReportLoaded
  <2> QED BY <2>1, Zenon
<1>3. list \in List /\ Len(list.prev) < MaxPages
  BY DEF TypeOK
<1>4. list' \in List /\ Good(list', Here, blocked') /\ list'.prev = list.prev
  <2>1. CASE ~blocked'
    <3>1. list' = list
      BY <2>1 DEF ReportLoaded
    <3> QED BY <1>3, <2>1, <3>1 DEF Good, Taken
  <2>2. CASE blocked'
    <3> DEFINE how == IF list.asked = NotAsked THEN {} ELSE {"degraded"}
    <3>1. list' = Upset(Cleared(list), how) /\ how \in SUBSET Upsets
      BY <2>2 DEF ReportLoaded, Upsets
    <3>2. list' \in List /\ list'.upset = list.upset \cup how /\ list'.rows = NoRows
          /\ list'.prev = list.prev /\ list'.asked = list.asked
          /\ list'.cur = list.cur /\ list'.next = list.next
      BY <1>3, <3>1, ClearedFacts, UpsetFacts
    <3>3. Adrift(list) => Adrift(list')
      BY <3>2 DEF Adrift
    <3>4. list.asked # NotAsked => Adrift(list')
      BY <3>2 DEF Adrift
    <3>5. Cursors(list', Here) /\ Awaits(list', Here) /\ Taken(list', blocked')
      BY <3>2, <3>3, <3>4 DEF Good, Cursors, Awaits, Taken
    <3>6. Paged(list') /\ Described(list', Here)
      BY <3>2, <3>3 DEF Good, Paged, Described
    <3> QED BY <3>2, <3>5, <3>6 DEF Good
  <2> QED BY <2>1, <2>2
<1> QED BY <1>1, <1>2, <1>3, <1>4, ListStep DEF TypeOK

-----------------------------------------------------------------------------
(* The invariant and the theorems                                           *)

LEMMA InvInit == Init => Inv
<1> SUFFICES ASSUME Init PROVE Inv
  OBVIOUS
<1>1. /\ kind \in Kinds /\ view \in Views /\ namespace \in Namespaces /\ query \in Queries
      /\ blocked = FALSE /\ reporting = TRUE
  BY DEF Init, Views
<1>2. Here \in Origin
  BY <1>1 DEF Here, Origin
<1>3. list \in List /\ Good(list, Here, FALSE) /\ list.prev = <<>>
  <2>1. Sent(Fresh, Here) = Refreshed(Fresh, FALSE, Here, FALSE)
    BY DEF Refreshed
  <2>2. /\ Refreshed(Fresh, FALSE, Here, FALSE) \in List
        /\ Good(Refreshed(Fresh, FALSE, Here, FALSE), Here, FALSE)
        /\ Refreshed(Fresh, FALSE, Here, FALSE).prev = <<>>
    BY <1>2, FreshFacts, RefreshedGood DEF Good
  <2>3. list = Sent(Fresh, Here) \/ list = Fresh
    BY DEF Init
  <2> QED BY <2>1, <2>2, <2>3, FreshFacts
<1>4. Good(list, Here, blocked)
  BY <1>1, <1>3 DEF Good, Taken
<1>5. Len(list.prev) < MaxPages
  BY <1>3, PagesAssumption
<1> QED BY <1>1, <1>3, <1>4, <1>5 DEF Inv, TypeOK

LEMMA InvStep == Inv /\ [Next]_vars => Inv'
<1> SUFFICES ASSUME Inv, [Next]_vars PROVE Inv'
  OBVIOUS
<1>1. ASSUME UNCHANGED <<kind, view, namespace, query, blocked, list>>, reporting' \in BOOLEAN
      PROVE  Inv'
  BY <1>1 DEF Inv, TypeOK, Here
<1>2. CASE AskReport \/ ReportFailed \/ UNCHANGED vars
  BY <1>1, <1>2 DEF AskReport, ReportFailed, vars, screenVars, reportVars, Inv, TypeOK
<1> QED BY <1>2, PageKeysStep, QueryStep, ViewStep, NamespaceStep, ConnectedStep, LoadedStep,
        FailedStep, ReportStep DEF Next

LEMMA InvHolds == Spec => []Inv
BY InvInit, InvStep, PTL DEF Spec

\* Every reachable state of a list is well-typed, and its cursor is never
\* deeper than the list is long.
THEOREM SurfacesTypeCorrect == Spec => []TypeOK
<1>1. Inv => TypeOK
  BY DEF Inv
<1> QED BY <1>1, InvHolds, PTL

\* Header and rows agree, in every order of loads that fail and keys that act
\* on what is left (the refresh_*, next_*_page and previous_*_page functions).
THEOREM HeaderHolds == Spec => []HeaderDescribesRows
<1>1. Inv => HeaderDescribesRows
  BY DEF Inv, Good, Described, HeaderDescribesRows
<1> QED BY <1>1, InvHolds, PTL

\* A page token reaches the server with the namespace and the query it came
\* with, but for the two ways out that the property names.
THEOREM TokensFitHolds == Spec => []TokensFitTheList
<1>1. Inv => TokensFitTheList
  BY DEF Inv, Good, Cursors, Awaits, Adrift, TokensFitTheList
<1> QED BY <1>1, InvHolds, PTL

\* apply_capability_degradation empties the list, and only an answer to a
\* request that was out then fills it again.
THEOREM DegradedHolds == Spec => []DegradedStaysEmpty
<1>1. Inv => DegradedStaysEmpty
  BY DEF Inv, Good, Taken, Adrift, DegradedStaysEmpty
<1> QED BY <1>1, InvHolds, PTL

\* No report of a passing failure takes a list away (status_capability and
\* its callers).
THEOREM TransientHolds == Spec => TransientNeverBlocks
<1> DEFINE Spared ==
      \A e \in Evidence : e \in Findings(kind) /\ ReportLoaded(e) /\ blocked' =>
        {e.flag, e.probe} \cap {"no", "denied", "unimplemented"} # {}
<1>1. Spared
  <2> SUFFICES ASSUME NEW e \in Evidence, e \in Findings(kind), ReportLoaded(e), blocked'
               PROVE  {e.flag, e.probe} \cap {"no", "denied", "unimplemented"} # {}
    OBVIOUS
  <2>1. Blocks(kind, e)
    <3>1. blocked' = (kind \in Degradable /\ Blocks(kind, e))
      BY DEF ReportLoaded
    <3> QED BY <3>1, Zenon
  <2>2. Availability(kind, e) \in {"unavailable", "restricted"}
    BY <2>1 DEF Blocks
  <2>3. e.probe \in {"ok", "unimplemented", "denied", "failed"}
    BY DEF Evidence, Errors
  <2> QED BY <2>2, <2>3 DEF Availability, OfFlagAndProbe, OfProbe, OfStatus
<1>2. [Next]_vars => [Spared]_vars
  BY <1>1
<1> QED BY <1>2, PTL DEF Spec, TransientNeverBlocks

\* The page keys move by one page (next_*_page, previous_*_page).
THEOREM KeysStepHolds == Spec => KeysStepByOne
<1> DEFINE ByOne ==
      list.upset = {} =>
        /\ NextPage => PageOf(list'.cur) = PageOf(list.cur) + 1
        /\ PreviousPage => PageOf(list'.cur) + 1 = PageOf(list.cur)
<1>1. ASSUME Inv PROVE ByOne
  <2> USE <1>1 DEF Inv
  <2> SUFFICES ASSUME list.upset = {} PROVE ByOne
    OBVIOUS
  <2>1. list \in List /\ Here \in Origin /\ blocked \in BOOLEAN /\ Len(list.prev) \in Nat
    BY HereFacts, SequenceFacts DEF List
  <2>2. /\ PageOf(list.cur) = Len(list.prev) + 1
        /\ \A i \in 1..Len(list.prev) : PageOf(list.prev[i]) = i
        /\ list.next # Empty => PageOf(list.next) = Len(list.prev) + 2
    BY DEF Good, Paged, Adrift
  <2>3. ASSUME NEW p \in List, Cursors(p, Here), Paged(p), Described(p, Here),
               Taken(p, blocked), list' = Refresh(p, FALSE)
        PROVE  list'.cur = p.cur
    BY <2>1, <2>3, RefreshedGood DEF Refresh
  <2>4. ASSUME NextPage PROVE PageOf(list'.cur) = PageOf(list.cur) + 1
    <3> DEFINE how == IF "returned" \in list.upset THEN {"skipped"} ELSE {}
               p   == Upset(Forward(list), how)
    <3>1. list' = Refresh(p, FALSE) /\ list.next # Empty /\ Len(list.prev) + 1 < MaxPages
      BY <2>4 DEF NextPage
    <3>2. /\ p \in List /\ p.cur = list.next
          /\ Cursors(p, Here) /\ Paged(p) /\ Described(p, Here) /\ Taken(p, blocked)
      BY <2>1, <3>1, ForwardGood
    <3> HIDE DEF p
    <3>3. list'.cur = list.next
      BY <3>1, <3>2, <2>3
    <3>4. PageOf(list.next) = Len(list.prev) + 2
      BY <3>1, <2>2
    <3> QED BY <3>3, <3>4, <2>1, <2>2
  <2>5. ASSUME PreviousPage PROVE PageOf(list'.cur) + 1 = PageOf(list.cur)
    <3> DEFINE p == Upset(Back(list), {"returned"})
    <3>1. list' = Refresh(p, FALSE) /\ list.prev # <<>>
      BY <2>5 DEF PreviousPage
    <3>2. /\ p \in List /\ p.cur = list.prev[Len(list.prev)]
          /\ Cursors(p, Here) /\ Paged(p) /\ Described(p, Here) /\ Taken(p, blocked)
      BY <2>1, <3>1, BackGood
    <3> HIDE DEF p
    <3>3. list'.cur = list.prev[Len(list.prev)]
      BY <3>1, <3>2, <2>3
    <3>4. Len(list.prev) \in 1..Len(list.prev)
      BY <3>1, <2>1, SequenceFacts DEF List
    <3> QED BY <3>3, <3>4, <2>1, <2>2
  <2> QED BY <2>4, <2>5
<1>2. Inv /\ [Next]_vars => [ByOne]_vars
  BY <1>1
<1> QED BY <1>2, InvHolds, PTL DEF Spec, KeysStepByOne
=============================================================================
