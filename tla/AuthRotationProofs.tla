------------------------- MODULE AuthRotationProofs -------------------------
(***************************************************************************)
(* Safety of AuthRotation for every number of sessions and tokens.         *)
(***************************************************************************)
EXTENDS AuthRotation, TLAPS

\* What is known of a session `s' whose state is `r'.  Only the holder of the
\* lock calls the server or has something pending.  While it does, the stored
\* token is the one it sent, and once that token is consumed or revoked, no
\* session has an access token that is still renewed by it.
Sound(s, r, lk, st, lv, top) ==
  /\ r.step \in Calling \/ r.pending # NoToken => lk = s
  /\ r.pending # NoToken => r.step \in {"idle", "revoking"} /\ st \notin lv
  /\ r.step = "asking" => r.sent = st
  /\ r.step = "revoking" => r.sent = IF r.pending = NoToken THEN st ELSE r.pending
  /\ r.reply.kind = "rotated" =>
       /\ r.step = "asking"
       /\ st \notin lv
       /\ r.reply.token \in Nat \ {NoToken}
       /\ r.reply.token <= top
  /\ r.reply.kind = "refused" => r.step = "asking" /\ r.sent \notin lv
  /\ r.reply.kind = "revoked" =>
       r.step \in {"revoking", "discarding"} /\ r.sent \notin lv
  /\ r.access \in lv => st = r.access
  /\ r.sent <= top /\ r.pending <= top /\ r.access <= top

TokensIssued ==
  /\ NoToken \notin live
  /\ \A t \in live : t <= issued
  /\ store <= issued

AuthInv ==
  /\ TypeOK
  /\ TokensIssued
  /\ \A s \in Sessions : Sound(s, session[s], lock, store, live, issued)

-----------------------------------------------------------------------------
(* One step of one session *)

Requests == [kind : {"refresh", "revoke"}, token : Nat]

\* What a step of `s' does to the lock, the store and the server disturbs no
\* other session: either both are left alone, or nobody else has the lock, and
\* the stored token is only replaced when it is of no use any more.
LEMMA OthersKeepSound ==
  ASSUME AuthInv, NEW s,
         issued' \in {issued, issued + 1},
         \A t \in live' : t \in live \/ t = issued + 1,
         \/ lock' = lock /\ store' = store
         \/ lock \in {s, Nobody} /\ (store' = store \/ store \notin live)
  PROVE  \A u \in Sessions \ {s} : Sound(u, session[u], lock', store', live', issued')
<1> TAKE u \in Sessions \ {s}
<1>1. /\ Sound(u, session[u], lock, store, live, issued)
      /\ session[u] \in Session
      /\ store \in Nat /\ store <= issued /\ issued \in Nat
  BY DEF AuthInv, TypeOK, TokensIssued
<1>2. /\ session[u].sent \in Nat
      /\ session[u].pending \in Nat
      /\ session[u].access \in Nat
  BY <1>1 DEF Session
<1>3. CASE lock' = lock /\ store' = store
  BY <1>1, <1>2, <1>3 DEF Sound
<1>4. CASE lock \in {s, Nobody} /\ (store' = store \/ store \notin live)
  <2>1. lock # u
    BY <1>4, NobodyAssumption
  <2>2. session[u].step \notin Calling /\ session[u].pending = NoToken
    BY <1>1, <2>1 DEF Sound
  <2>3. session[u].access \in live' => store' = session[u].access
    BY <1>1, <1>2, <1>4 DEF Sound
  <2> QED BY <1>1, <1>2, <2>2, <2>3 DEF Sound, Calling
<1> QED BY <1>3, <1>4

\* How a step of one session treats what it shares with the others.
Obeys(s) ==
  /\ lock' \in Sessions \cup {Nobody}
  /\ store' \in Nat
  /\ store' <= issued'
  /\ late' \subseteq Requests
  /\ issued' \in {issued, issued + 1}
  /\ live' \subseteq live \cup {issued'}
  /\ issued' = issued => live' \subseteq live
  /\ \/ lock' = lock /\ store' = store
     \/ lock \in {s, Nobody} /\ (store' = store \/ store \notin live)

LEMMA StepOfOne ==
  ASSUME AuthInv, NEW s \in Sessions, NEW r \in Session,
         Becomes(s, r), Obeys(s),
         Sound(s, r, lock', store', live', issued')
  PROVE  AuthInv' /\ Obeys(s)
<1>1. issued \in Nat /\ live \subseteq Nat /\ session \in [Sessions -> Session]
  BY DEF AuthInv, TypeOK
<1>2. issued' \in Nat /\ live' \subseteq Nat /\ session' \in [Sessions -> Session]
  BY <1>1 DEF Becomes, Obeys
<1>3. TypeOK'
  BY <1>2 DEF TypeOK, Requests, Obeys
<1>4. TokensIssued'
  BY <1>1, <1>2 DEF AuthInv, TokensIssued, NoToken, Obeys
<1>5. \A t \in live' : t \in live \/ t = issued + 1
  BY <1>1 DEF Obeys
<1>6. \A u \in Sessions \ {s} : Sound(u, session[u], lock', store', live', issued')
  BY <1>5, OthersKeepSound DEF Obeys
<1>7. \A u \in Sessions : session'[u] = IF u = s THEN r ELSE session[u]
  BY <1>1 DEF Becomes
<1>8. \A u \in Sessions : Sound(u, session'[u], lock', store', live', issued')
  BY <1>6, <1>7
<1> QED BY <1>3, <1>4, <1>8 DEF AuthInv

LEMMA RecordFacts ==
  /\ Calling = {"asking", "revoking", "discarding"}
  /\ Waiting = {"toRefresh", "toLogout", "signingIn"}
  /\ NoReply \in Replies /\ NoReply.kind = "none"
  /\ [kind |-> "refused"] \in Replies /\ [kind |-> "revoked"] \in Replies
  /\ \A t \in Nat : /\ Rotated(t) \in Replies
                    /\ Rotated(t).kind = "rotated"
                    /\ Rotated(t).token = t
  /\ Gone \in Session
  /\ Gone.step = "gone" /\ Gone.reply = NoReply
  /\ Gone.sent = NoToken /\ Gone.pending = NoToken /\ Gone.access = NoToken
<1>1. NoReply \in Replies /\ NoReply.kind = "none"
  BY DEF NoReply, Replies
<1>2. Gone \in Session
  BY <1>1 DEF Gone, Session, NoToken
<1> QED BY <1>1, <1>2 DEF Calling, Waiting, Replies, Rotated, Gone

\* What AuthInv says of the session that takes a step.
LEMMA Before ==
  ASSUME AuthInv, NEW s \in Sessions
  PROVE  /\ session[s] \in Session
         /\ Sound(s, session[s], lock, store, live, issued)
         /\ lock \in Sessions \cup {Nobody}
         /\ store \in Nat /\ store <= issued /\ issued \in Nat /\ issued + 1 \in Nat
         /\ live \subseteq Nat /\ NoToken \notin live
         /\ \A t \in live : t <= issued
         /\ late \subseteq Requests
  BY DEF AuthInv, TypeOK, TokensIssued, Requests

-----------------------------------------------------------------------------
(* The actions *)

LEMMA StartStep ==
  ASSUME AuthInv, NEW s \in Sessions, Start(s)
  PROVE  AuthInv' /\ Obeys(s)
<1>0. /\ session[s] \in Session
      /\ Sound(s, session[s], lock, store, live, issued)
      /\ lock \in Sessions \cup {Nobody}
      /\ store \in Nat /\ store <= issued /\ issued \in Nat /\ issued + 1 \in Nat
      /\ live \subseteq Nat /\ NoToken \notin live
      /\ \A t \in live : t <= issued
      /\ late \subseteq Requests
  BY Before
<1>1. CASE Load(s)
  <2> DEFINE r == [Gone EXCEPT !.step = "idle"]
  <2>1. r \in Session
    BY <1>0, <1>1, RecordFacts DEF Load, Session, NoToken
  <2>2. Becomes(s, r) /\ Obeys(s)
    BY <1>0, <1>1, RecordFacts DEF Load, Obeys, Session, NoToken, Sound
  <2>3. Sound(s, r, lock', store', live', issued')
    BY <1>0, <1>1, RecordFacts DEF Load, Session, NoToken, Sound
  <2> QED BY <2>1, <2>2, <2>3, StepOfOne
<1>2. CASE AskRefresh(s)
  <2> DEFINE r == [session[s] EXCEPT !.step = "toRefresh"]
  <2>1. r \in Session
    BY <1>0, <1>2, RecordFacts DEF AskRefresh, Session, NoToken
  <2>2. Becomes(s, r) /\ Obeys(s)
    BY <1>0, <1>2, RecordFacts DEF AskRefresh, Obeys, Session, NoToken, Sound
  <2>3. Sound(s, r, lock', store', live', issued')
    BY <1>0, <1>2, RecordFacts DEF AskRefresh, Session, NoToken, Sound
  <2> QED BY <2>1, <2>2, <2>3, StepOfOne
<1>3. CASE RetryCommit(s)
  <2> DEFINE r == [session[s] EXCEPT !.access = session[s].pending, !.pending = NoToken]
  <2>1. r \in Session
    BY <1>0, <1>3, RecordFacts DEF RetryCommit, Session, NoToken
  <2>2. Becomes(s, r) /\ Obeys(s)
    BY <1>0, <1>3, RecordFacts DEF RetryCommit, Obeys, Session, NoToken, Sound
  <2>3. Sound(s, r, lock', store', live', issued')
    BY <1>0, <1>3, RecordFacts DEF RetryCommit, Session, NoToken, Sound
  <2> QED BY <2>1, <2>2, <2>3, StepOfOne
<1>4. CASE LogOut(s)
  <2> DEFINE r == IF session[s].pending = NoToken
                THEN [session[s] EXCEPT !.step = "toLogout"]
                ELSE [session[s] EXCEPT !.step = "revoking", !.sent = ToRevoke(s)]
  <2>1. r \in Session
    BY <1>0, <1>4, RecordFacts DEF LogOut, ToRevoke, Session, NoToken
  <2>2. Becomes(s, r) /\ Obeys(s)
    BY <1>0, <1>4, RecordFacts DEF LogOut, ToRevoke, Obeys, Session, NoToken, Sound
  <2>3. Sound(s, r, lock', store', live', issued')
    BY <1>0, <1>4, RecordFacts DEF LogOut, ToRevoke, Session, NoToken, Sound
  <2> QED BY <2>1, <2>2, <2>3, StepOfOne
<1>5. CASE SignIn(s)
  <2> DEFINE r == [Gone EXCEPT !.step = "signingIn", !.sent = issued']
  <2>1. r \in Session
    BY <1>0, <1>5, RecordFacts DEF SignIn, Session, NoToken
  <2>2. Becomes(s, r) /\ Obeys(s)
    BY <1>0, <1>5, RecordFacts DEF SignIn, Obeys, Session, NoToken, Sound
  <2>3. Sound(s, r, lock', store', live', issued')
    BY <1>0, <1>5, RecordFacts DEF SignIn, Session, NoToken, Sound
  <2> QED BY <2>1, <2>2, <2>3, StepOfOne
<1> QED BY <1>1, <1>2, <1>3, <1>4, <1>5 DEF Start

LEMMA LockStep ==
  ASSUME AuthInv, NEW s \in Sessions, Lock(s)
  PROVE  AuthInv' /\ Obeys(s)
<1>0. /\ session[s] \in Session
      /\ Sound(s, session[s], lock, store, live, issued)
      /\ lock \in Sessions \cup {Nobody}
      /\ store \in Nat /\ store <= issued /\ issued \in Nat /\ issued + 1 \in Nat
      /\ live \subseteq Nat /\ NoToken \notin live
      /\ \A t \in live : t <= issued
      /\ late \subseteq Requests
  BY Before
<1>1. CASE GiveUpWaiting(s)
  <2> DEFINE r == AfterBusy(session[s])
  <2>1. r \in Session
    BY <1>0, <1>1, RecordFacts DEF GiveUpWaiting, AfterBusy, Over, Session, NoToken
  <2>2. Becomes(s, r) /\ Obeys(s)
    BY <1>0, <1>1, RecordFacts DEF GiveUpWaiting, AfterBusy, Over, Obeys, Session, NoToken, Sound
  <2>3. Sound(s, r, lock', store', live', issued')
    BY <1>0, <1>1, RecordFacts DEF GiveUpWaiting, AfterBusy, Over, Session, NoToken, Sound
  <2> QED BY <2>1, <2>2, <2>3, StepOfOne
<1>2. CASE StoreUnreadable(s)
  <2> DEFINE r == [AfterBusy(session[s]) EXCEPT !.access = NoToken]
  <2>1. r \in Session
    BY <1>0, <1>2, RecordFacts DEF StoreUnreadable, AfterBusy, Over, Session, NoToken
  <2>2. Becomes(s, r) /\ Obeys(s)
    BY <1>0, <1>2, RecordFacts DEF StoreUnreadable, AfterBusy, Over, Obeys, Session, NoToken, Sound
  <2>3. Sound(s, r, lock', store', live', issued')
    BY <1>0, <1>2, RecordFacts DEF StoreUnreadable, AfterBusy, Over, Session, NoToken, Sound
  <2> QED BY <2>1, <2>2, <2>3, StepOfOne
<1>3. CASE NotLoggedIn(s)
  <2> DEFINE r == [Over(session[s], "stopped") EXCEPT !.access = NoToken]
  <2>1. r \in Session
    BY <1>0, <1>3, RecordFacts DEF NotLoggedIn, Over, Session, NoToken
  <2>2. Becomes(s, r) /\ Obeys(s)
    BY <1>0, <1>3, RecordFacts DEF NotLoggedIn, Over, Obeys, Session, NoToken, Sound
  <2>3. Sound(s, r, lock', store', live', issued')
    BY <1>0, <1>3, RecordFacts DEF NotLoggedIn, Over, Session, NoToken, Sound
  <2> QED BY <2>1, <2>2, <2>3, StepOfOne
<1>4. CASE Expired(s)
  <2> DEFINE r == Over(session[s], "stopped")
  <2>1. r \in Session
    BY <1>0, <1>4, RecordFacts DEF Expired, Over, Session, NoToken
  <2>2. Becomes(s, r) /\ Obeys(s)
    BY <1>0, <1>4, RecordFacts DEF Expired, Over, Obeys, Session, NoToken, Sound
  <2>3. Sound(s, r, lock', store', live', issued')
    BY <1>0, <1>4, RecordFacts DEF Expired, Over, Session, NoToken, Sound
  <2> QED BY <2>1, <2>2, <2>3, StepOfOne
<1>5. CASE Begin(s)
  <2> DEFINE r == [session[s] EXCEPT
                    !.step = IF session[s].step = "toRefresh" THEN "asking" ELSE "revoking",
                    !.sent = store]
  <2>1. r \in Session
    BY <1>0, <1>5, RecordFacts DEF Begin, Free, Session, NoToken
  <2>2. Becomes(s, r) /\ Obeys(s)
    BY <1>0, <1>5, RecordFacts DEF Begin, Free, Obeys, Session, NoToken, Sound
  <2>3. Sound(s, r, lock', store', live', issued')
    BY <1>0, <1>5, RecordFacts DEF Begin, Free, Session, NoToken, Sound
  <2> QED BY <2>1, <2>2, <2>3, StepOfOne
<1>6. CASE SignInStored(s)
  <2> DEFINE r == [Over(session[s], "idle") EXCEPT !.access = session[s].sent]
  <2>1. r \in Session
    BY <1>0, <1>6, RecordFacts DEF SignInStored, Free, Over, Session, NoToken
  <2>2. Becomes(s, r) /\ Obeys(s)
    BY <1>0, <1>6, RecordFacts DEF SignInStored, Free, Over, Obeys, Session, NoToken, Sound
  <2>3. Sound(s, r, lock', store', live', issued')
    BY <1>0, <1>6, RecordFacts DEF SignInStored, Free, Over, Session, NoToken, Sound
  <2> QED BY <2>1, <2>2, <2>3, StepOfOne
<1>7. CASE SignInDiscards(s)
  <2> DEFINE r == [session[s] EXCEPT !.step = "discarding"]
  <2>1. r \in Session
    BY <1>0, <1>7, RecordFacts DEF SignInDiscards, Free, Session, NoToken
  <2>2. Becomes(s, r) /\ Obeys(s)
    BY <1>0, <1>7, RecordFacts DEF SignInDiscards, Free, Obeys, Session, NoToken, Sound
  <2>3. Sound(s, r, lock', store', live', issued')
    BY <1>0, <1>7, RecordFacts DEF SignInDiscards, Free, Session, NoToken, Sound
  <2> QED BY <2>1, <2>2, <2>3, StepOfOne
<1> QED BY <1>1, <1>2, <1>3, <1>4, <1>5, <1>6, <1>7 DEF Lock

LEMMA ServerStep ==
  ASSUME AuthInv, NEW s \in Sessions, ServerAnswers(s)
  PROVE  AuthInv' /\ Obeys(s)
<1>0. /\ session[s] \in Session
      /\ Sound(s, session[s], lock, store, live, issued)
      /\ lock \in Sessions \cup {Nobody}
      /\ store \in Nat /\ store <= issued /\ issued \in Nat /\ issued + 1 \in Nat
      /\ live \subseteq Nat /\ NoToken \notin live
      /\ \A t \in live : t <= issued
      /\ late \subseteq Requests
  BY Before
<1>1. CASE ServerRefreshes(s)
  <2> DEFINE r == [session[s] EXCEPT !.reply = Rotated(issued')]
  <2>1. r \in Session
    BY <1>0, <1>1, RecordFacts DEF ServerRefreshes, Session, NoToken
  <2>2. Becomes(s, r) /\ Obeys(s)
    BY <1>0, <1>1, RecordFacts DEF ServerRefreshes, Obeys, Session, NoToken, Sound
  <2>3. Sound(s, r, lock', store', live', issued')
    BY <1>0, <1>1, RecordFacts DEF ServerRefreshes, Session, NoToken, Sound
  <2> QED BY <2>1, <2>2, <2>3, StepOfOne
<1>2. CASE ServerRefuses(s)
  <2> DEFINE r == [session[s] EXCEPT !.reply = [kind |-> "refused"]]
  <2>1. r \in Session
    BY <1>0, <1>2, RecordFacts DEF ServerRefuses, Session, NoToken
  <2>2. Becomes(s, r) /\ Obeys(s)
    BY <1>0, <1>2, RecordFacts DEF ServerRefuses, Obeys, Session, NoToken, Sound
  <2>3. Sound(s, r, lock', store', live', issued')
    BY <1>0, <1>2, RecordFacts DEF ServerRefuses, Session, NoToken, Sound
  <2> QED BY <2>1, <2>2, <2>3, StepOfOne
<1>3. CASE ServerRevokes(s)
  <2> DEFINE r == [session[s] EXCEPT !.reply = [kind |-> "revoked"]]
  <2>1. r \in Session
    BY <1>0, <1>3, RecordFacts DEF ServerRevokes, Session, NoToken
  <2>2. Becomes(s, r) /\ Obeys(s)
    BY <1>0, <1>3, RecordFacts DEF ServerRevokes, Obeys, Session, NoToken, Sound
  <2>3. Sound(s, r, lock', store', live', issued')
    BY <1>0, <1>3, RecordFacts DEF ServerRevokes, Session, NoToken, Sound
  <2> QED BY <2>1, <2>2, <2>3, StepOfOne
<1> QED BY <1>1, <1>2, <1>3 DEF ServerAnswers

LEMMA CallStep ==
  ASSUME AuthInv, NEW s \in Sessions, CallEnds(s)
  PROVE  AuthInv' /\ Obeys(s)
<1>0. /\ session[s] \in Session
      /\ Sound(s, session[s], lock, store, live, issued)
      /\ lock \in Sessions \cup {Nobody}
      /\ store \in Nat /\ store <= issued /\ issued \in Nat /\ issued + 1 \in Nat
      /\ live \subseteq Nat /\ NoToken \notin live
      /\ \A t \in live : t <= issued
      /\ late \subseteq Requests
  BY Before
<1>1. CASE TakeRotation(s, TRUE)
  <2> DEFINE r == [Over(HandedOut(session[s], TRUE), "idle")
                  EXCEPT !.pending = Kept(session[s], TRUE)]
  <2>1. r \in Session
    BY <1>0, <1>1, RecordFacts DEF TakeRotation, HandedOut, Kept, Over, Session, NoToken, Sound
  <2>2. Becomes(s, r) /\ Obeys(s)
    BY <1>0, <1>1, RecordFacts DEF TakeRotation, HandedOut, Kept, Over, Obeys, Session, NoToken, Sound
  <2>3. Sound(s, r, lock', store', live', issued')
    BY <1>0, <1>1, RecordFacts DEF TakeRotation, HandedOut, Kept, Over, Session, NoToken, Sound
  <2> QED BY <2>1, <2>2, <2>3, StepOfOne
<1>2. CASE TakeRotation(s, FALSE)
  <2> DEFINE r == [Over(HandedOut(session[s], FALSE), "idle")
                  EXCEPT !.pending = Kept(session[s], FALSE)]
  <2>1. r \in Session
    BY <1>0, <1>2, RecordFacts DEF TakeRotation, HandedOut, Kept, Over, Session, NoToken, Sound
  <2>2. Becomes(s, r) /\ Obeys(s)
    BY <1>0, <1>2, RecordFacts DEF TakeRotation, HandedOut, Kept, Over, Obeys, Session, NoToken, Sound
  <2>3. Sound(s, r, lock', store', live', issued')
    BY <1>0, <1>2, RecordFacts DEF TakeRotation, HandedOut, Kept, Over, Session, NoToken, Sound
  <2> QED BY <2>1, <2>2, <2>3, StepOfOne
<1>3. CASE \E ok \in BOOLEAN : TakeRevocation(s, ok)
  <2> DEFINE r == [Gone EXCEPT !.step = "stopped"]
  <2>1. r \in Session
    BY <1>0, <1>3, RecordFacts DEF TakeRevocation, Session, NoToken
  <2>2. Becomes(s, r) /\ Obeys(s)
    BY <1>0, <1>3, RecordFacts DEF TakeRevocation, Obeys, Session, NoToken, Sound
  <2>3. Sound(s, r, lock', store', live', issued')
    BY <1>0, <1>3, RecordFacts DEF TakeRevocation, Session, NoToken, Sound
  <2> QED BY <2>1, <2>2, <2>3, StepOfOne
<1>4. CASE TakeRefusal(s)
  <2> DEFINE r == Over(session[s], "stopped")
  <2>1. r \in Session
    BY <1>0, <1>4, RecordFacts DEF TakeRefusal, Over, Session, NoToken
  <2>2. Becomes(s, r) /\ Obeys(s)
    BY <1>0, <1>4, RecordFacts DEF TakeRefusal, Over, Obeys, Session, NoToken, Sound
  <2>3. Sound(s, r, lock', store', live', issued')
    BY <1>0, <1>4, RecordFacts DEF TakeRefusal, Over, Session, NoToken, Sound
  <2> QED BY <2>1, <2>2, <2>3, StepOfOne
<1>5. CASE TakeGarbled(s)
  <2> DEFINE r == Over(session[s], "stopped")
  <2>1. r \in Session
    BY <1>0, <1>5, RecordFacts DEF TakeGarbled, Over, Session, NoToken
  <2>2. Becomes(s, r) /\ Obeys(s)
    BY <1>0, <1>5, RecordFacts DEF TakeGarbled, Over, Obeys, Session, NoToken, Sound
  <2>3. Sound(s, r, lock', store', live', issued')
    BY <1>0, <1>5, RecordFacts DEF TakeGarbled, Over, Session, NoToken, Sound
  <2> QED BY <2>1, <2>2, <2>3, StepOfOne
<1>6. CASE Discarded(s)
  <2> DEFINE r == Gone
  <2>1. r \in Session
    BY <1>0, <1>6, RecordFacts DEF Discarded, Session, NoToken
  <2>2. Becomes(s, r) /\ Obeys(s)
    BY <1>0, <1>6, RecordFacts DEF Discarded, Obeys, Session, NoToken, Sound
  <2>3. Sound(s, r, lock', store', live', issued')
    BY <1>0, <1>6, RecordFacts DEF Discarded, Session, NoToken, Sound
  <2> QED BY <2>1, <2>2, <2>3, StepOfOne
<1>7. CASE CallFails(s)
  <2> DEFINE r == IF session[s].step = "discarding" THEN Gone ELSE Over(session[s], "idle")
  <2>1. r \in Session
    BY <1>0, <1>7, RecordFacts DEF CallFails, Over, Unlock, LeftBehind, Requests, Session, NoToken
  <2>2. Becomes(s, r) /\ Obeys(s)
    BY <1>0, <1>7, RecordFacts DEF CallFails, Over, Unlock, LeftBehind, Requests, Obeys, Session, NoToken, Sound
  <2>3. Sound(s, r, lock', store', live', issued')
    BY <1>0, <1>7, RecordFacts DEF CallFails, Over, Unlock, LeftBehind, Requests, Session, NoToken, Sound
  <2> QED BY <2>1, <2>2, <2>3, StepOfOne
<1> QED BY <1>1, <1>2, <1>3, <1>4, <1>5, <1>6, <1>7 DEF CallEnds

LEMMA InterruptStep ==
  ASSUME AuthInv, NEW s \in Sessions, Interrupt(s)
  PROVE  AuthInv' /\ Obeys(s)
<1>0. /\ session[s] \in Session
      /\ Sound(s, session[s], lock, store, live, issued)
      /\ lock \in Sessions \cup {Nobody}
      /\ store \in Nat /\ store <= issued /\ issued \in Nat /\ issued + 1 \in Nat
      /\ live \subseteq Nat /\ NoToken \notin live
      /\ \A t \in live : t <= issued
      /\ late \subseteq Requests
  BY Before
<1>1. Gone \in Session
  BY RecordFacts
<1>2. Becomes(s, Gone) /\ Obeys(s)
  BY <1>0, RecordFacts DEF Interrupt, LeftBehind, Requests, Obeys, Session, NoToken, Sound
<1>3. Sound(s, Gone, lock', store', live', issued')
  BY <1>0, RecordFacts DEF Interrupt, NoToken, Sound
<1> QED BY <1>1, <1>2, <1>3, StepOfOne

\* What happens at the server while no session takes a step.
LEMMA ServerAlone ==
  ASSUME AuthInv,
         \/ \E r \in late : LateArrives(r) \/ LateVanishes(r)
         \/ \E t \in live : GrantEnds(t)
  PROVE  AuthInv'
<1>1. issued \in Nat /\ live \subseteq Nat
  BY DEF AuthInv, TypeOK
<1>2. /\ issued' \in {issued, issued + 1}
      /\ live' \subseteq live \cup {issued'}
      /\ issued' = issued => live' \subseteq live
      /\ lock' = lock /\ store' = store /\ session' = session
      /\ late' \subseteq late
  BY <1>1 DEF LateArrives, LateVanishes, GrantEnds
<1>3. TypeOK' /\ TokensIssued'
  BY <1>1, <1>2 DEF AuthInv, TypeOK, TokensIssued, NoToken
<1>4. \A u \in Sessions \ {Nobody} : Sound(u, session[u], lock', store', live', issued')
  BY <1>1, <1>2, OthersKeepSound
<1> QED BY <1>2, <1>3, <1>4, NobodyAssumption DEF AuthInv

LEMMA AuthInit == Init => AuthInv
<1> SUFFICES ASSUME Init PROVE AuthInv
  OBVIOUS
<1>1. /\ issued \in Nat /\ store = issued /\ issued \in {0, 1}
      /\ \A t \in live : t = 1 /\ t = issued
      /\ live \subseteq Nat
  BY DEF Init
<1>2. TypeOK
  BY <1>1, RecordFacts DEF Init, TypeOK
<1>3. TokensIssued
  BY <1>1 DEF TokensIssued, NoToken
<1>4. \A s \in Sessions : Sound(s, Gone, lock, store, live, issued)
  BY <1>1, RecordFacts DEF Sound, NoToken
<1> QED BY <1>2, <1>3, <1>4 DEF AuthInv, Init

LEMMA AuthNext == AuthInv /\ [Next]_vars => AuthInv'
<1> SUFFICES ASSUME AuthInv, [Next]_vars PROVE AuthInv'
  OBVIOUS
<1>1. CASE \E s \in Sessions :
             Start(s) \/ Lock(s) \/ ServerAnswers(s) \/ CallEnds(s) \/ Interrupt(s)
  BY <1>1, StartStep, LockStep, ServerStep, CallStep, InterruptStep
<1>2. CASE \/ \E r \in late : LateArrives(r) \/ LateVanishes(r)
           \/ \E t \in live : GrantEnds(t)
  BY <1>2, ServerAlone
<1>3. CASE UNCHANGED vars
  BY <1>3 DEF AuthInv, TypeOK, TokensIssued, vars
<1> QED BY <1>1, <1>2, <1>3 DEF Next

LEMMA AuthInvHolds == Spec => []AuthInv
  BY AuthInit, AuthNext, PTL DEF Spec

-----------------------------------------------------------------------------
(* The theorems *)

\* Every reachable state is well-typed.
THEOREM AuthTypeCorrect == Spec => []TypeOK
<1>1. AuthInv => TypeOK
  BY DEF AuthInv
<1> QED BY <1>1, AuthInvHolds, PTL

\* Only the session that has the lock calls the server about the login, and the
\* token it sends is still the stored one when the answer comes: however many
\* sessions there are, one at a time waits for an answer about the token.
THEOREM OneCallerHolds == Spec => []OneCaller
<1>1. AuthInv => OneCaller
  BY DEF AuthInv, Sound, OneCaller
<1> QED BY <1>1, AuthInvHolds, PTL

\* A session never has a working access token whose login would be lost if every
\* process ended now.
THEOREM ExposedIsStoredHolds == Spec => []ExposedIsStored
<1>1. AuthInv => ExposedIsStored
  BY DEF AuthInv, Sound, ExposedIsStored
<1> QED BY <1>1, AuthInvHolds, PTL

-----------------------------------------------------------------------------
(* What a step may never do *)

StopsWell ==
  \A s \in Sessions : session[s].step # "stopped" /\ session'[s].step = "stopped"
    => store' \notin live'

LosesNothing == ~Misfortune => Lost' \subseteq Lost

EmptiesWell ==
  store # NoToken /\ store' = NoToken =>
    \A t \in live' : t \in Lost \/ \E s \in Sessions : SigningIn(session[s], t)

OneStep == StopsWell /\ LosesNothing /\ EmptiesWell

\* The part of it that is about the session `s', which goes on in the state `r'.
Promises(s, r) ==
  /\ session[s].step # "stopped" /\ r.step = "stopped" => store' \notin live'
  /\ ~Misfortune =>
       \A t \in live' : (t \in live => store = t \/ Holds(session[s], t))
                          => store' = t \/ Holds(r, t)
  /\ store # NoToken => store' # NoToken

LEMMA PromisesKept ==
  ASSUME AuthInv, NEW s \in Sessions, NEW r, Becomes(s, r), Promises(s, r)
  PROVE  OneStep
<1>1. session \in [Sessions -> Session]
  BY DEF AuthInv, TypeOK
<1>2. \A u \in Sessions : session'[u] = IF u = s THEN r ELSE session[u]
  BY <1>1 DEF Becomes
<1>3. StopsWell
  BY <1>2 DEF StopsWell, Promises
<1>4. LosesNothing
  <2> SUFFICES ASSUME ~Misfortune, NEW t \in Lost' PROVE t \in Lost
    BY DEF LosesNothing
  <2>1. t \in live' /\ store' # t /\ \A u \in Sessions : ~Holds(session'[u], t)
    BY DEF Lost
  <2>2. ~Holds(r, t)
    BY <1>2, <2>1
  <2>3. t \in live /\ store # t /\ ~Holds(session[s], t)
    BY <2>1, <2>2 DEF Promises
  <2>4. \A u \in Sessions : ~Holds(session[u], t)
    BY <1>2, <2>1, <2>3
  <2> QED BY <2>3, <2>4 DEF Lost
<1>5. EmptiesWell
  BY DEF EmptiesWell, Promises
<1> QED BY <1>3, <1>4, <1>5 DEF OneStep

LEMMA StartKeeps ==
  ASSUME AuthInv, NEW s \in Sessions, Start(s)
  PROVE  OneStep
<1>0. /\ session[s] \in Session
      /\ Sound(s, session[s], lock, store, live, issued)
      /\ lock \in Sessions \cup {Nobody}
      /\ store \in Nat /\ store <= issued /\ issued \in Nat /\ issued + 1 \in Nat
      /\ live \subseteq Nat /\ NoToken \notin live
      /\ \A t \in live : t <= issued
      /\ late \subseteq Requests
  BY Before
<1>1. CASE Load(s)
  <2> DEFINE r == [Gone EXCEPT !.step = "idle"]
  <2>1. Becomes(s, r)
    BY <1>1 DEF Load
  <2>2. Promises(s, r)
    BY <1>0, <1>1, RecordFacts DEF Load, Promises, Holds, Replaces, SigningIn, Session, NoToken, Sound
  <2> QED BY <2>1, <2>2, PromisesKept
<1>2. CASE AskRefresh(s)
  <2> DEFINE r == [session[s] EXCEPT !.step = "toRefresh"]
  <2>1. Becomes(s, r)
    BY <1>2 DEF AskRefresh
  <2>2. Promises(s, r)
    BY <1>0, <1>2, RecordFacts DEF AskRefresh, Promises, Holds, Replaces, SigningIn, Session, NoToken, Sound
  <2> QED BY <2>1, <2>2, PromisesKept
<1>3. CASE RetryCommit(s)
  <2> DEFINE r == [session[s] EXCEPT !.access = session[s].pending, !.pending = NoToken]
  <2>1. Becomes(s, r)
    BY <1>3 DEF RetryCommit
  <2>2. Promises(s, r)
    BY <1>0, <1>3, RecordFacts DEF RetryCommit, Promises, Holds, Replaces, SigningIn, Session, NoToken, Sound
  <2> QED BY <2>1, <2>2, PromisesKept
<1>4. CASE LogOut(s)
  <2> DEFINE r == IF session[s].pending = NoToken
                THEN [session[s] EXCEPT !.step = "toLogout"]
                ELSE [session[s] EXCEPT !.step = "revoking", !.sent = ToRevoke(s)]
  <2>1. Becomes(s, r)
    BY <1>4 DEF LogOut, ToRevoke
  <2>2. Promises(s, r)
    BY <1>0, <1>4, RecordFacts DEF LogOut, ToRevoke, Promises, Holds, Replaces, SigningIn, Session, NoToken, Sound
  <2> QED BY <2>1, <2>2, PromisesKept
<1>5. CASE SignIn(s)
  <2> DEFINE r == [Gone EXCEPT !.step = "signingIn", !.sent = issued']
  <2>1. Becomes(s, r)
    BY <1>5 DEF SignIn
  <2>2. Promises(s, r)
    BY <1>0, <1>5, RecordFacts DEF SignIn, Promises, Holds, Replaces, SigningIn, Session, NoToken, Sound
  <2> QED BY <2>1, <2>2, PromisesKept
<1> QED BY <1>1, <1>2, <1>3, <1>4, <1>5 DEF Start

LEMMA LockKeeps ==
  ASSUME AuthInv, NEW s \in Sessions, Lock(s)
  PROVE  OneStep
<1>0. /\ session[s] \in Session
      /\ Sound(s, session[s], lock, store, live, issued)
      /\ lock \in Sessions \cup {Nobody}
      /\ store \in Nat /\ store <= issued /\ issued \in Nat /\ issued + 1 \in Nat
      /\ live \subseteq Nat /\ NoToken \notin live
      /\ \A t \in live : t <= issued
      /\ late \subseteq Requests
  BY Before
<1>1. CASE GiveUpWaiting(s) /\ session[s].step # "signingIn"
  <2> DEFINE r == Over(session[s], "idle")
  <2>1. Becomes(s, r)
    BY <1>1 DEF GiveUpWaiting, AfterBusy, Over
  <2>2. Promises(s, r)
    BY <1>0, <1>1, RecordFacts DEF GiveUpWaiting, AfterBusy, Over, Promises, Holds, Replaces, SigningIn, Session, NoToken, Sound
  <2> QED BY <2>1, <2>2, PromisesKept
<1>2. CASE GiveUpWaiting(s) /\ session[s].step = "signingIn"
  <2> DEFINE r == Gone
  <2>1. Becomes(s, r) /\ Misfortune
    BY <1>2 DEF GiveUpWaiting, AfterBusy, Misfortune
  <2>2. Promises(s, r)
    BY <1>0, <1>2, <2>1, RecordFacts DEF GiveUpWaiting, AfterBusy, Promises, NoToken, Sound
  <2> QED BY <2>1, <2>2, PromisesKept
<1>3. CASE StoreUnreadable(s) /\ session[s].step # "signingIn"
  <2> DEFINE r == [Over(session[s], "idle") EXCEPT !.access = NoToken]
  <2>1. Becomes(s, r)
    BY <1>3 DEF StoreUnreadable, AfterBusy, Over
  <2>2. Promises(s, r)
    BY <1>0, <1>3, RecordFacts DEF StoreUnreadable, AfterBusy, Over, Promises, Holds, Replaces, SigningIn, Session, NoToken, Sound
  <2> QED BY <2>1, <2>2, PromisesKept
<1>4. CASE StoreUnreadable(s) /\ session[s].step = "signingIn"
  <2> DEFINE r == [Gone EXCEPT !.access = NoToken]
  <2>1. Becomes(s, r) /\ Misfortune
    BY <1>4 DEF StoreUnreadable, AfterBusy, Misfortune
  <2>2. Promises(s, r)
    BY <1>0, <1>4, <2>1, RecordFacts DEF StoreUnreadable, AfterBusy, Promises, NoToken, Sound
  <2> QED BY <2>1, <2>2, PromisesKept
<1>5. CASE NotLoggedIn(s)
  <2> DEFINE r == [Over(session[s], "stopped") EXCEPT !.access = NoToken]
  <2>1. Becomes(s, r)
    BY <1>5 DEF NotLoggedIn, Over
  <2>2. Promises(s, r)
    BY <1>0, <1>5, RecordFacts DEF NotLoggedIn, Over, Promises, Holds, Replaces, SigningIn, Session, NoToken, Sound
  <2> QED BY <2>1, <2>2, PromisesKept
<1>6. CASE Expired(s)
  <2> DEFINE r == Over(session[s], "stopped")
  <2>1. Becomes(s, r)
    BY <1>6 DEF Expired, Over
  <2>2. Promises(s, r)
    BY <1>0, <1>6, RecordFacts DEF Expired, Over, Promises, Holds, Replaces, SigningIn, Session, NoToken, Sound
  <2> QED BY <2>1, <2>2, PromisesKept
<1>7. CASE Begin(s)
  <2> DEFINE r == [session[s] EXCEPT
                    !.step = IF session[s].step = "toRefresh" THEN "asking" ELSE "revoking",
                    !.sent = store]
  <2>1. Becomes(s, r)
    BY <1>7 DEF Begin, Free
  <2>2. Promises(s, r)
    BY <1>0, <1>7, RecordFacts DEF Begin, Free, Promises, Holds, Replaces, SigningIn, Session, NoToken, Sound
  <2> QED BY <2>1, <2>2, PromisesKept
<1>8. CASE SignInStored(s)
  <2> DEFINE r == [Over(session[s], "idle") EXCEPT !.access = session[s].sent]
  <2>1. Becomes(s, r)
    BY <1>8 DEF SignInStored, Free, Over
  <2>2. Promises(s, r)
    BY <1>0, <1>8, RecordFacts DEF SignInStored, Free, Over, Promises, Holds, Replaces, SigningIn, Session, NoToken, Sound
  <2> QED BY <2>1, <2>2, PromisesKept
<1>9. CASE SignInDiscards(s)
  <2> DEFINE r == [session[s] EXCEPT !.step = "discarding"]
  <2>1. Becomes(s, r)
    BY <1>9 DEF SignInDiscards, Free
  <2>2. Promises(s, r)
    BY <1>0, <1>9, RecordFacts DEF SignInDiscards, Free, Promises, Holds, Replaces, SigningIn, Session, NoToken, Sound
  <2> QED BY <2>1, <2>2, PromisesKept
<1> QED BY <1>1, <1>2, <1>3, <1>4, <1>5, <1>6, <1>7, <1>8, <1>9 DEF Lock

LEMMA ServerKeeps ==
  ASSUME AuthInv, NEW s \in Sessions, ServerAnswers(s)
  PROVE  OneStep
<1>0. /\ session[s] \in Session
      /\ Sound(s, session[s], lock, store, live, issued)
      /\ lock \in Sessions \cup {Nobody}
      /\ store \in Nat /\ store <= issued /\ issued \in Nat /\ issued + 1 \in Nat
      /\ live \subseteq Nat /\ NoToken \notin live
      /\ \A t \in live : t <= issued
      /\ late \subseteq Requests
  BY Before
<1>1. CASE ServerRefreshes(s)
  <2> DEFINE r == [session[s] EXCEPT !.reply = Rotated(issued')]
  <2>1. Becomes(s, r)
    BY <1>1 DEF ServerRefreshes
  <2>2. Promises(s, r)
    BY <1>0, <1>1, RecordFacts DEF ServerRefreshes, Promises, Holds, Replaces, SigningIn, Session, NoToken, Sound
  <2> QED BY <2>1, <2>2, PromisesKept
<1>2. CASE ServerRefuses(s)
  <2> DEFINE r == [session[s] EXCEPT !.reply = [kind |-> "refused"]]
  <2>1. Becomes(s, r)
    BY <1>2 DEF ServerRefuses
  <2>2. Promises(s, r)
    BY <1>0, <1>2, RecordFacts DEF ServerRefuses, Promises, Holds, Replaces, SigningIn, Session, NoToken, Sound
  <2> QED BY <2>1, <2>2, PromisesKept
<1>3. CASE ServerRevokes(s)
  <2> DEFINE r == [session[s] EXCEPT !.reply = [kind |-> "revoked"]]
  <2>1. Becomes(s, r)
    BY <1>3 DEF ServerRevokes
  <2>2. Promises(s, r)
    BY <1>0, <1>3, RecordFacts DEF ServerRevokes, Promises, Holds, Replaces, SigningIn, Session, NoToken, Sound
  <2> QED BY <2>1, <2>2, PromisesKept
<1> QED BY <1>1, <1>2, <1>3 DEF ServerAnswers

LEMMA CallKeeps ==
  ASSUME AuthInv, NEW s \in Sessions, CallEnds(s)
  PROVE  OneStep
<1>0. /\ session[s] \in Session
      /\ Sound(s, session[s], lock, store, live, issued)
      /\ lock \in Sessions \cup {Nobody}
      /\ store \in Nat /\ store <= issued /\ issued \in Nat /\ issued + 1 \in Nat
      /\ live \subseteq Nat /\ NoToken \notin live
      /\ \A t \in live : t <= issued
      /\ late \subseteq Requests
  BY Before
<1>1. CASE TakeRotation(s, TRUE)
  <2> DEFINE r == [Over(HandedOut(session[s], TRUE), "idle")
                  EXCEPT !.pending = Kept(session[s], TRUE)]
  <2>1. Becomes(s, r)
    BY <1>1 DEF TakeRotation, HandedOut, Kept, Over
  <2>2. Promises(s, r)
    BY <1>0, <1>1, RecordFacts DEF TakeRotation, HandedOut, Kept, Over, Promises, Holds, Replaces, SigningIn, Session, NoToken, Sound
  <2> QED BY <2>1, <2>2, PromisesKept
<1>2. CASE TakeRotation(s, FALSE)
  <2> DEFINE r == [Over(HandedOut(session[s], FALSE), "idle")
                  EXCEPT !.pending = Kept(session[s], FALSE)]
  <2>1. Becomes(s, r)
    BY <1>2 DEF TakeRotation, HandedOut, Kept, Over
  <2>2. Promises(s, r)
    BY <1>0, <1>2, RecordFacts DEF TakeRotation, HandedOut, Kept, Over, Promises, Holds, Replaces, SigningIn, Session, NoToken, Sound
  <2> QED BY <2>1, <2>2, PromisesKept
<1>3. CASE TakeRevocation(s, TRUE)
  <2> DEFINE r == [Gone EXCEPT !.step = "stopped"]
  <2>1. Becomes(s, r) /\ store' = NoToken /\ live' = live
    BY <1>3 DEF TakeRevocation
  <2>2. store \notin live /\ session[s].pending \notin live /\ lock = s
    BY <1>0, <1>3, RecordFacts DEF TakeRevocation, Sound
  <2>3. \A u \in Sessions : session'[u] = IF u = s THEN r ELSE session[u]
    BY <2>1 DEF AuthInv, TypeOK, Becomes
  <2>4. StopsWell
    BY <1>0, <2>1, <2>3 DEF StopsWell
  <2>5. \A t \in live, u \in Sessions : Holds(session[u], t) => SigningIn(session[u], t)
    <3> SUFFICES ASSUME NEW t \in live, NEW u \in Sessions, ~SigningIn(session[u], t)
                 PROVE  ~Holds(session[u], t)
      OBVIOUS
    <3>1. CASE u = s
      BY <1>0, <1>3, <2>2, <3>1, RecordFacts DEF TakeRevocation, Holds, Replaces, Sound
    <3>2. CASE u # s
      <4>1. session[u].step \notin Calling /\ session[u].pending = NoToken
        BY <2>2, <3>2 DEF AuthInv, Sound
      <4>2. session[u].reply.kind # "rotated"
        BY <4>1, RecordFacts DEF AuthInv, Sound
      <4> QED BY <1>0, <4>1, <4>2 DEF Holds, Replaces
    <3> QED BY <3>1, <3>2
  <2>6. EmptiesWell
    BY <2>1, <2>2, <2>5 DEF EmptiesWell, Lost
  <2>7. \A t \in live : SigningIn(session[s], t) => FALSE
    BY <1>3 DEF TakeRevocation, SigningIn
  <2>8. LosesNothing
    <3> SUFFICES ASSUME NEW t \in Lost' PROVE t \in Lost
      BY DEF LosesNothing
    <3>1. t \in live /\ \A u \in Sessions : ~Holds(session'[u], t)
      BY <2>1 DEF Lost
    <3>2. \A u \in Sessions : ~Holds(session[u], t)
      BY <2>3, <2>5, <2>7, <3>1
    <3> QED BY <2>2, <3>1, <3>2 DEF Lost
  <2> QED BY <2>4, <2>6, <2>8 DEF OneStep
<1>4. CASE TakeRevocation(s, FALSE)
  <2> DEFINE r == [Gone EXCEPT !.step = "stopped"]
  <2>1. Becomes(s, r)
    BY <1>4 DEF TakeRevocation
  <2>2. Promises(s, r)
    BY <1>0, <1>4, RecordFacts DEF TakeRevocation, Promises, Holds, Replaces, SigningIn, Session, NoToken, Sound
  <2> QED BY <2>1, <2>2, PromisesKept
<1>5. CASE TakeRefusal(s)
  <2> DEFINE r == Over(session[s], "stopped")
  <2>1. Becomes(s, r)
    BY <1>5 DEF TakeRefusal, Over
  <2>2. Promises(s, r)
    BY <1>0, <1>5, RecordFacts DEF TakeRefusal, Over, Promises, Holds, Replaces, SigningIn, Session, NoToken, Sound
  <2> QED BY <2>1, <2>2, PromisesKept
<1>6. CASE TakeGarbled(s)
  <2> DEFINE r == Over(session[s], "stopped")
  <2>1. Becomes(s, r) /\ Misfortune
    BY <1>6 DEF TakeGarbled, Over, Misfortune
  <2>2. Promises(s, r)
    BY <1>0, <1>6, <2>1, RecordFacts DEF TakeGarbled, Over, Promises, NoToken, Sound
  <2> QED BY <2>1, <2>2, PromisesKept
<1>7. CASE Discarded(s)
  <2> DEFINE r == Gone
  <2>1. Becomes(s, r)
    BY <1>7 DEF Discarded
  <2>2. Promises(s, r)
    BY <1>0, <1>7, RecordFacts DEF Discarded, Promises, Holds, Replaces, SigningIn, Session, NoToken, Sound
  <2> QED BY <2>1, <2>2, PromisesKept
<1>8. CASE CallFails(s)
  <2> DEFINE r == IF session[s].step = "discarding" THEN Gone ELSE Over(session[s], "idle")
  <2>1. Becomes(s, r) /\ Misfortune
    BY <1>8 DEF CallFails, Over, Misfortune
  <2>2. Promises(s, r)
    BY <1>0, <1>8, <2>1, RecordFacts DEF CallFails, Over, Promises, NoToken, Sound
  <2> QED BY <2>1, <2>2, PromisesKept
<1> QED BY <1>1, <1>2, <1>3, <1>4, <1>5, <1>6, <1>7, <1>8 DEF CallEnds

LEMMA NextKeeps ==
  ASSUME AuthInv, [Next]_vars
  PROVE  OneStep \/ UNCHANGED vars
<1>1. ASSUME NEW s \in Sessions,
             Start(s) \/ Lock(s) \/ ServerAnswers(s) \/ CallEnds(s)
      PROVE  OneStep
  BY <1>1, StartKeeps, LockKeeps, ServerKeeps, CallKeeps
<1>2. ASSUME NEW s \in Sessions, Interrupt(s)
      PROVE  OneStep
  <2>1. Becomes(s, Gone) /\ store' = store
    BY <1>2 DEF Interrupt
  <2>2. Misfortune
    BY <1>2 DEF Misfortune
  <2>3. Promises(s, Gone)
    BY <2>1, <2>2, RecordFacts DEF Promises
  <2> QED BY <2>1, <2>3, PromisesKept
<1>3. ASSUME NEW q \in late, LateArrives(q)
      PROVE  OneStep
  <2>1. Misfortune /\ session' = session /\ store' = store
    BY <1>3 DEF Misfortune, LateArrives
  <2> QED BY <2>1 DEF OneStep, StopsWell, LosesNothing, EmptiesWell
<1>4. ASSUME \/ \E q \in late : LateVanishes(q)
             \/ \E t \in live : GrantEnds(t)
      PROVE  OneStep
  <2>1. session' = session /\ store' = store /\ live' \subseteq live
    BY <1>4 DEF LateVanishes, GrantEnds
  <2> QED BY <2>1 DEF OneStep, StopsWell, LosesNothing, EmptiesWell, Lost
<1> QED BY <1>1, <1>2, <1>3, <1>4 DEF Next

\* Only a misfortune can make the login unusable for every client.
THEOREM OnlyMisfortuneLosesHolds == Spec => OnlyMisfortuneLoses
<1>1. AuthInv /\ [Next]_vars => [LosesNothing]_vars
  BY NextKeeps DEF OneStep
<1> QED BY <1>1, AuthInvHolds, PTL DEF Spec, OnlyMisfortuneLoses, LosesNothing

\* When the store is emptied, nobody but a login that has just begun can renew.
THEOREM LogoutEndsLoginHolds == Spec => LogoutEndsLogin
<1>1. AuthInv /\ [Next]_vars => [EmptiesWell]_vars
  BY NextKeeps DEF OneStep
<1> QED BY <1>1, AuthInvHolds, PTL DEF Spec, LogoutEndsLogin, EmptiesWell

\* A session stops refreshing only when the stored login is over.
THEOREM StopsOnlyWhenOverHolds == Spec => StopsOnlyWhenOver
<1>1. AuthInv /\ [Next]_vars => [StopsWell]_vars
  BY NextKeeps DEF OneStep
<1> QED BY <1>1, AuthInvHolds, PTL DEF Spec, StopsOnlyWhenOver, StopsWell
-----------------------------------------------------------------------------
(* The lock can be released                                                  *)

\* A session that has something to do before it gives the lock back.
Busy(r) == r.step \in Calling \/ r.pending # NoToken

LockHasHolder == lock # Nobody => Busy(session[lock])

LEMMA HolderStays ==
  ASSUME AuthInv, LockHasHolder, NEW s \in Sessions, NEW r, Becomes(s, r),
         lock' \in {lock, s, Nobody}, lock' = s => Busy(r)
  PROVE  LockHasHolder'
<1>1. \A u \in Sessions : session'[u] = IF u = s THEN r ELSE session[u]
  BY DEF Becomes, AuthInv, TypeOK
<1>2. lock \in Sessions \cup {Nobody}
  BY Before
<1> QED BY <1>1, <1>2 DEF LockHasHolder

\* A session that is busy has the lock, and one that has the lock is busy; so a
\* step that leaves the lock alone keeps its session as busy as it was.
LEMMA LockLeft ==
  ASSUME AuthInv, LockHasHolder, NEW s \in Sessions, NEW r, Becomes(s, r),
         lock' = lock, Busy(session[s]) => Busy(r)
  PROVE  LockHasHolder'
<1>1. lock = s => Busy(r)
  BY NobodyAssumption DEF LockHasHolder
<1> QED BY <1>1, HolderStays

LEMMA LockDropped ==
  ASSUME AuthInv, LockHasHolder, NEW s \in Sessions, NEW r, Becomes(s, r), lock' = Nobody
  PROVE  LockHasHolder'
  BY DEF LockHasHolder

LEMMA HolderNext == AuthInv /\ LockHasHolder /\ [Next]_vars => LockHasHolder'
<1> SUFFICES ASSUME AuthInv, LockHasHolder, [Next]_vars PROVE LockHasHolder'
  OBVIOUS
<1>1. ASSUME NEW s \in Sessions, Start(s)
      PROVE  LockHasHolder'
  <2>0. session[s] \in Session /\ Sound(s, session[s], lock, store, live, issued)
    BY Before
  <2>1. CASE Load(s)
    BY <2>0, <2>1, LockLeft, RecordFacts DEF Load, Busy, Session, Sound
  <2>2. CASE AskRefresh(s)
    BY <2>0, <2>2, LockLeft, RecordFacts DEF AskRefresh, Busy, Session
  <2>3. CASE RetryCommit(s)
    BY <2>3, LockDropped DEF RetryCommit
  <2>4. CASE LogOut(s)
    <3> DEFINE r == IF session[s].pending = NoToken
                    THEN [session[s] EXCEPT !.step = "toLogout"]
                    ELSE [session[s] EXCEPT !.step = "revoking", !.sent = ToRevoke(s)]
    <3>1. Becomes(s, r) /\ lock' = lock
      BY <2>4 DEF LogOut
    <3>2. Busy(session[s]) => Busy(r)
      BY <2>0, <2>4, RecordFacts DEF LogOut, Busy, Session
    <3> QED BY <3>1, <3>2, LockLeft
  <2>5. CASE SignIn(s)
    BY <2>0, <2>5, LockLeft, RecordFacts DEF SignIn, Busy, Session, Sound
  <2> QED BY <1>1, <2>1, <2>2, <2>3, <2>4, <2>5 DEF Start
<1>2. ASSUME NEW s \in Sessions, Lock(s)
      PROVE  LockHasHolder'
  <2>0. /\ session[s] \in Session /\ Sound(s, session[s], lock, store, live, issued)
        /\ session[s].step \in Waiting
    BY <1>2, Before, RecordFacts
       DEF Lock, GiveUpWaiting, StoreUnreadable, NotLoggedIn, Expired, Begin, SignInStored,
           SignInDiscards
  <2>1. ~ Busy(session[s])
    BY <2>0, RecordFacts DEF Busy, Sound
  <2>2. CASE Begin(s)
    <3> DEFINE r == [session[s] EXCEPT
                       !.step = IF @ = "toRefresh" THEN "asking" ELSE "revoking", !.sent = store]
    <3>1. Becomes(s, r) /\ lock' = s
      BY <2>2 DEF Begin
    <3>2. Busy(r)
      BY <2>0, RecordFacts DEF Busy, Session
    <3> QED BY <3>1, <3>2, HolderStays
  <2>3. CASE SignInDiscards(s)
    <3> DEFINE r == [session[s] EXCEPT !.step = "discarding"]
    <3>1. Becomes(s, r) /\ lock' = s
      BY <2>3 DEF SignInDiscards
    <3>2. Busy(r)
      BY <2>0, RecordFacts DEF Busy, Session
    <3> QED BY <3>1, <3>2, HolderStays
  <2>4. CASE GiveUpWaiting(s) \/ StoreUnreadable(s) \/ NotLoggedIn(s) \/ Expired(s) \/ SignInStored(s)
    <3>1. lock' = lock /\ \E r : Becomes(s, r)
      BY <2>4 DEF GiveUpWaiting, StoreUnreadable, NotLoggedIn, Expired, SignInStored
    <3> QED BY <2>1, <3>1, LockLeft
  <2> QED BY <1>2, <2>2, <2>3, <2>4 DEF Lock
<1>3. ASSUME NEW s \in Sessions, ServerAnswers(s)
      PROVE  LockHasHolder'
  <2>0. session[s] \in Session
    BY Before
  <2>1. PICK reply : Becomes(s, [session[s] EXCEPT !.reply = reply]) /\ lock' = lock
    BY <1>3 DEF ServerAnswers, ServerRefreshes, ServerRefuses, ServerRevokes
  <2> DEFINE r == [session[s] EXCEPT !.reply = reply]
  <2>2. Busy(session[s]) => Busy(r)
    BY <2>0 DEF Busy, Session
  <2> QED BY <2>1, <2>2, LockLeft
<1>4. ASSUME NEW s \in Sessions, CallEnds(s)
      PROVE  LockHasHolder'
  <2>0. session[s] \in Session /\ Sound(s, session[s], lock, store, live, issued)
    BY Before
  <2>1. ASSUME NEW ok \in BOOLEAN, TakeRotation(s, ok)
        PROVE  LockHasHolder'
    <3> DEFINE r == [Over(HandedOut(session[s], ok), "idle") EXCEPT !.pending = Kept(session[s], ok)]
    <3>1. Becomes(s, r)
      BY <2>1 DEF TakeRotation
    <3>2. CASE ok
      BY <2>1, <3>1, <3>2, LockDropped DEF TakeRotation
    <3>3. CASE ~ ok
      <4>1. session[s].reply.token # NoToken /\ lock' = lock
        BY <2>0, <2>1, <3>3 DEF TakeRotation, Sound
      <4>2. r.pending = session[s].reply.token
        BY <2>0, <3>3 DEF Kept, HandedOut, Over, Session
      <4> QED BY <3>1, <4>1, <4>2, LockLeft DEF Busy
    <3> QED BY <3>2, <3>3
  <2>2. ASSUME NEW ok \in BOOLEAN, TakeRevocation(s, ok)
        PROVE  LockHasHolder'
    BY <2>2, LockDropped DEF TakeRevocation
  <2>3. CASE TakeRefusal(s)
    BY <2>3, LockDropped DEF TakeRefusal
  <2>4. CASE TakeGarbled(s)
    BY <2>4, LockDropped DEF TakeGarbled
  <2>5. CASE Discarded(s)
    BY <2>5, LockDropped DEF Discarded
  <2>6. CASE CallFails(s)
    <3> DEFINE r == IF session[s].step = "discarding" THEN Gone ELSE Over(session[s], "idle")
    <3>1. Becomes(s, r)
      BY <2>6 DEF CallFails
    <3>2. CASE session[s].pending = NoToken
      BY <2>6, <3>1, <3>2, LockDropped DEF CallFails, Unlock
    <3>3. CASE session[s].pending # NoToken
      <4>1. lock' = lock /\ session[s].step # "discarding"
        BY <2>0, <2>6, <3>3 DEF CallFails, Unlock, Sound
      <4>2. r.pending = session[s].pending
        BY <2>0, <4>1 DEF Over, Session
      <4> QED BY <3>1, <3>3, <4>1, <4>2, LockLeft DEF Busy
    <3> QED BY <3>2, <3>3
  <2> QED BY <1>4, <2>1, <2>2, <2>3, <2>4, <2>5, <2>6 DEF CallEnds
<1>5. ASSUME NEW s \in Sessions, Interrupt(s)
      PROVE  LockHasHolder'
  <2>1. Becomes(s, Gone) /\ lock' # s /\ lock' \in {lock, Nobody}
    BY <1>5, NobodyAssumption DEF Interrupt
  <2> QED BY <2>1, HolderStays
<1>6. CASE \/ \E r \in late : LateArrives(r) \/ LateVanishes(r)
           \/ \E t \in live : GrantEnds(t)
           \/ UNCHANGED vars
  BY <1>6 DEF LateArrives, LateVanishes, GrantEnds, vars, LockHasHolder
<1> QED BY <1>1, <1>2, <1>3, <1>4, <1>5, <1>6 DEF Next

\* Whenever the lock is taken, its holder has a call out, which ends, or a token
\* to store, which it returns to: no way of leaving a call forgets the guard.
THEOREM LockHasHolderHolds == Spec => []LockHasHolder
<1>1. Init => LockHasHolder
  BY DEF Init, LockHasHolder
<1> QED BY <1>1, HolderNext, AuthInvHolds, PTL DEF Spec
-----------------------------------------------------------------------------
(* The sessions keep custody of the tokens                                   *)

GrantSteps == {"signingIn", "discarding"}

\* Every login that is not over was given a token of its own.
OneGrantEach ==
  \A s \in Sessions : session[s].step \in GrantSteps =>
    /\ session[s].sent # NoToken
    /\ \A u \in Sessions \ {s} :
         session[u].step \in GrantSteps => session[u].sent # session[s].sent

\* A refresh that arrives late can exchange the stored token only: the store is
\* not changed while a token that was sent could still be exchanged.
LateRequests ==
  \A q \in late :
    /\ q.token <= issued
    /\ q.kind = "refresh" /\ q.token \in live => q.token = store

CustodyInv == AuthInv /\ OneGrantEach /\ LateRequests

LEMMA LateStep ==
  ASSUME CustodyInv, NEW s \in Sessions, Obeys(s), late' \subseteq late \cup LeftBehind(s)
  PROVE  LateRequests'
<1>1. ASSUME NEW q \in late'
      PROVE  q.token \in Nat /\ q.token <= issued
             /\ (q.kind = "refresh" /\ q.token \in live => q.token = store)
  <2>1. CASE q \in late
    BY <2>1 DEF CustodyInv, AuthInv, TypeOK, LateRequests
  <2>2. CASE q \in LeftBehind(s)
    BY <2>2, Before DEF CustodyInv, LeftBehind, Session, Sound
  <2> QED BY <2>1, <2>2
<1>2. ASSUME NEW q \in late', q.kind = "refresh", q.token \in live'
      PROVE  q.token = store'
  <2>1. q.token \in live
    BY <1>1, <1>2, Before DEF CustodyInv, Obeys
  <2> QED BY <1>1, <1>2, <2>1 DEF Obeys
<1>3. issued \in Nat /\ issued' \in {issued, issued + 1}
  BY Before DEF CustodyInv, Obeys
<1> QED BY <1>1, <1>2, <1>3 DEF LateRequests

LEMMA GrantsStayApart ==
  ASSUME CustodyInv, NEW s \in Sessions, NEW r, Becomes(s, r),
         r.step \in GrantSteps =>
           \/ r.sent = issued + 1
           \/ session[s].step \in GrantSteps /\ r.sent = session[s].sent
  PROVE  OneGrantEach'
<1>1. \A u \in Sessions : session'[u] = IF u = s THEN r ELSE session[u]
  BY DEF CustodyInv, AuthInv, TypeOK, Becomes
<1>2. \A u \in Sessions : session[u].sent # issued + 1
  <2>1. ASSUME NEW u \in Sessions PROVE session[u].sent # issued + 1
    BY Before DEF CustodyInv, Session, Sound
  <2> QED BY <2>1
<1>3. issued + 1 # NoToken
  BY Before DEF CustodyInv, NoToken
<1> QED BY <1>1, <1>2, <1>3 DEF CustodyInv, OneGrantEach

\* What the sessions other than `s' hold.
OthersReplace(s) == {t \in 1..issued : \E u \in Sessions \ {s} : Replaces(session[u], t)}
OthersGrants(s) == {t \in 1..issued : \E u \in Sessions \ {s} : SigningIn(session[u], t)}

LEMMA OfOneAndOthers ==
  ASSUME CustodyInv, NEW s \in Sessions
  PROVE  /\ Successor = OthersReplace(s) \cup {t \in 1..issued : Replaces(session[s], t)}
         /\ Grants = OthersGrants(s) \cup {t \in 1..issued : SigningIn(session[s], t)}
  BY DEF Successor, Grants, OthersReplace, OthersGrants

LEMMA OfOneAndOthersNext ==
  ASSUME CustodyInv, NEW s \in Sessions, NEW r, Becomes(s, r),
         issued' \in {issued, issued + 1}
  PROVE  /\ Successor' = OthersReplace(s) \cup {t \in 1..issued' : Replaces(r, t)}
         /\ Grants' = OthersGrants(s) \cup {t \in 1..issued' : SigningIn(r, t)}
<1>1. \A u \in Sessions : session'[u] = IF u = s THEN r ELSE session[u]
  BY DEF CustodyInv, AuthInv, TypeOK, Becomes
<1>2. issued \in Nat /\ 1..issued \subseteq 1..issued'
  BY Before DEF CustodyInv
<1>3. ASSUME NEW u \in Sessions, NEW t \in 1..issued',
             Replaces(session[u], t) \/ SigningIn(session[u], t)
      PROVE  t \in 1..issued
  BY <1>2, <1>3, Before DEF CustodyInv, Session, Sound, Replaces, SigningIn
<1>4. Successor' = OthersReplace(s) \cup {t \in 1..issued' : Replaces(r, t)}
  BY <1>1, <1>2, <1>3 DEF Successor, OthersReplace
<1>5. Grants' = OthersGrants(s) \cup {t \in 1..issued' : SigningIn(r, t)}
  BY <1>1, <1>2, <1>3 DEF Grants, OthersGrants
<1> QED BY <1>4, <1>5

\* What is on its way to the store is with the session that has the lock.
LEMMA OthersReplaceNothing ==
  ASSUME CustodyInv, NEW s \in Sessions, lock \in {s, Nobody}
  PROVE  OthersReplace(s) = {}
<1>1. ASSUME NEW u \in Sessions \ {s}, NEW t \in 1..issued PROVE ~ Replaces(session[u], t)
  <2>1. session[u].step \notin Calling /\ session[u].pending = NoToken
    BY NobodyAssumption DEF CustodyInv, AuthInv, Sound
  <2>2. session[u].reply.kind # "rotated"
    BY <2>1, RecordFacts DEF CustodyInv, AuthInv, Sound
  <2> QED BY <2>1, <2>2 DEF Replaces, NoToken
<1> QED BY <1>1 DEF OthersReplace

LEMMA ReplacingHasLock ==
  ASSUME CustodyInv, NEW s \in Sessions, NEW t \in 1..issued, Replaces(session[s], t)
  PROVE  lock = s /\ session[s].step \notin GrantSteps
  BY Before, RecordFacts DEF CustodyInv, Sound, Replaces, NoToken, GrantSteps

LEMMA OwnGrant ==
  ASSUME CustodyInv, NEW s \in Sessions, NEW t \in 1..issued, SigningIn(session[s], t)
  PROVE  t \notin OthersGrants(s) /\ {x \in 1..issued : SigningIn(session[s], x)} = {t}
  BY DEF CustodyInv, OneGrantEach, OthersGrants, SigningIn, GrantSteps

\* A step of one session that leaves the store and the server alone, and at most
\* lets go of what the session held.
LEMMA Sheds ==
  ASSUME CustodyInv, NEW s \in Sessions, NEW r, Becomes(s, r),
         UNCHANGED <<live, issued, store>>,
         \/ \A t \in 1..issued : Replaces(r, t) <=> Replaces(session[s], t)
         \/ \A t \in 1..issued : ~ Replaces(r, t),
         \/ \A t \in 1..issued : SigningIn(r, t) <=> SigningIn(session[s], t)
         \/ \A t \in 1..issued : ~ SigningIn(r, t)
  PROVE  [Custody!Next]_(Custody!vars)
<1>1. /\ Successor' = OthersReplace(s) \cup {t \in 1..issued : Replaces(r, t)}
      /\ Grants' = OthersGrants(s) \cup {t \in 1..issued : SigningIn(r, t)}
  BY OfOneAndOthersNext
<1>2. /\ Successor = OthersReplace(s) \cup {t \in 1..issued : Replaces(session[s], t)}
      /\ Grants = OthersGrants(s) \cup {t \in 1..issued : SigningIn(session[s], t)}
  BY OfOneAndOthers
<1>3. CASE Successor' = Successor /\ Grants' = Grants
  BY <1>3 DEF Custody!vars
<1>4. CASE Successor' # Successor
  <2>1. PICK t \in 1..issued : Replaces(session[s], t)
    BY <1>1, <1>2, <1>4
  <2>2. lock = s /\ session[s].step \notin GrantSteps
    BY <2>1, ReplacingHasLock
  <2>3. Successor' = {}
    BY <1>1, <1>2, <1>4, <2>2, OthersReplaceNothing
  <2>4. Grants' = Grants
    BY <1>1, <1>2, <2>2 DEF SigningIn, GrantSteps
  <2>5. Custody!Drop
    BY <1>4, <2>3, <2>4 DEF Custody!Drop
  <2> QED BY <2>5 DEF Custody!Next
<1>5. CASE Successor' = Successor /\ Grants' # Grants
  <2>1. PICK t \in 1..issued : SigningIn(session[s], t)
    BY <1>1, <1>2, <1>5
  <2>2. t \in Grants /\ Grants' = Grants \ {t}
    BY <1>1, <1>2, <1>5, <2>1, OwnGrant
  <2>3. Custody!Drop
    BY <1>5, <2>2 DEF Custody!Drop
  <2> QED BY <2>3 DEF Custody!Next
<1> QED BY <1>3, <1>4, <1>5

\* What a step of a session has to show.
Careful == [Custody!Next]_(Custody!vars) /\ OneGrantEach'

\* The session `s' goes on as `r' with the tokens it held, or without.
Lets(s, r) ==
  /\ \/ \A t \in 1..issued : Replaces(r, t) <=> Replaces(session[s], t)
     \/ \A t \in 1..issued : ~ Replaces(r, t)
  /\ \/ \A t \in 1..issued : SigningIn(r, t) <=> SigningIn(session[s], t)
     \/ \A t \in 1..issued : ~ SigningIn(r, t)
  /\ r.step \in GrantSteps => session[s].step \in GrantSteps /\ r.sent = session[s].sent

LEMMA LetsGo ==
  ASSUME CustodyInv, NEW s \in Sessions, NEW r, Becomes(s, r),
         UNCHANGED <<live, issued, store>>, Lets(s, r)
  PROVE  Careful
<1>1. OneGrantEach'
  BY GrantsStayApart DEF Lets
<1>2. [Custody!Next]_(Custody!vars)
  BY Sheds DEF Lets
<1> QED BY <1>1, <1>2 DEF Careful

\* A session stores what it holds: its own replacement, or its own login.
LEMMA Stores ==
  ASSUME CustodyInv, NEW s \in Sessions, NEW r, Becomes(s, r),
         UNCHANGED <<live, issued>>, lock \in {s, Nobody},
         store' \in 1..issued,
         \A t \in 1..issued : ~ Replaces(r, t) /\ ~ SigningIn(r, t),
         r.step \notin GrantSteps,
         \/ store \notin live /\ \A t \in 1..issued : Replaces(session[s], t) <=> t = store'
         \/ store = NoToken /\ SigningIn(session[s], store')
  PROVE  Careful
<1>1. OneGrantEach'
  BY GrantsStayApart
<1>2. Successor' = {} /\ Grants' = OthersGrants(s)
  BY OfOneAndOthersNext, OthersReplaceNothing
<1>3. /\ Successor = {t \in 1..issued : Replaces(session[s], t)}
      /\ Grants = OthersGrants(s) \cup {t \in 1..issued : SigningIn(session[s], t)}
  BY OfOneAndOthers, OthersReplaceNothing
<1>4. CASE store \notin live /\ \A t \in 1..issued : Replaces(session[s], t) <=> t = store'
  <2>1. Successor = {store'}
    BY <1>3, <1>4
  <2>2. session[s].step \notin GrantSteps
    BY <1>4, ReplacingHasLock
  <2>3. Grants' = Grants
    BY <1>2, <1>3, <2>2 DEF SigningIn, GrantSteps
  <2>4. Custody!Commit
    BY <1>2, <1>4, <2>1, <2>3 DEF Custody!Commit
  <2> QED BY <1>1, <2>4 DEF Careful, Custody!Next
<1>5. CASE store = NoToken /\ SigningIn(session[s], store')
  <2>1. store' \in Grants /\ Grants' = Grants \ {store'}
    BY <1>2, <1>3, <1>5, OwnGrant
  <2>2. session[s].step \in GrantSteps
    BY <1>5 DEF SigningIn, GrantSteps
  <2>3. Successor = {}
    BY <1>3, <2>2, ReplacingHasLock
  <2>4. Custody!Adopt
    BY <1>2, <1>5, <2>1, <2>3 DEF Custody!Adopt, Custody!NoToken, NoToken
  <2> QED BY <1>1, <2>4 DEF Careful, Custody!Next
<1> QED BY <1>4, <1>5

LEMMA StartCareful ==
  ASSUME CustodyInv, NEW s \in Sessions, Start(s)
  PROVE  Careful
<1>0. /\ session[s] \in Session
      /\ Sound(s, session[s], lock, store, live, issued)
      /\ lock \in Sessions \cup {Nobody}
      /\ store \in Nat /\ store <= issued /\ issued \in Nat /\ issued + 1 \in Nat
      /\ live \subseteq Nat /\ NoToken \notin live
      /\ \A t \in live : t <= issued
      /\ late \subseteq Requests
  BY Before DEF CustodyInv
<1>1. CASE Load(s)
  <2> DEFINE r == [Gone EXCEPT !.step = "idle"]
  <2>1. Becomes(s, r) /\ UNCHANGED <<live, issued, store>>
    BY <1>1 DEF Load
  <2>2. Lets(s, r)
    BY <1>0, <1>1, RecordFacts DEF Load, Lets, Replaces, SigningIn, GrantSteps, Session, NoToken, Sound
  <2> QED BY <2>1, <2>2, LetsGo
<1>2. CASE AskRefresh(s)
  <2> DEFINE r == [session[s] EXCEPT !.step = "toRefresh"]
  <2>1. Becomes(s, r) /\ UNCHANGED <<live, issued, store>>
    BY <1>2 DEF AskRefresh
  <2>2. Lets(s, r)
    BY <1>0, <1>2, RecordFacts DEF AskRefresh, Lets, Replaces, SigningIn, GrantSteps, Session, NoToken, Sound
  <2> QED BY <2>1, <2>2, LetsGo
<1>3. CASE RetryCommit(s)
  <2> DEFINE r == [session[s] EXCEPT !.access = session[s].pending, !.pending = NoToken]
  <2>1. /\ Becomes(s, r) /\ UNCHANGED <<live, issued>> /\ lock \in {s, Nobody}
        /\ store' \in 1..issued /\ store \notin live
        /\ \A t \in 1..issued : Replaces(session[s], t) <=> t = store'
    BY <1>0, <1>3, RecordFacts DEF RetryCommit, Replaces, Session, NoToken, Sound
  <2>2. \A t \in 1..issued : ~ Replaces(r, t) /\ ~ SigningIn(r, t)
    BY <1>0, <1>3, RecordFacts DEF RetryCommit, Replaces, SigningIn, Session, NoToken, Sound
  <2>3. r.step \notin GrantSteps
    BY <1>0, <1>3, RecordFacts DEF RetryCommit, GrantSteps, Session, NoToken, Sound
  <2> QED BY <2>1, <2>2, <2>3, Stores
<1>4. CASE LogOut(s)
  <2> DEFINE r == IF session[s].pending = NoToken
                THEN [session[s] EXCEPT !.step = "toLogout"]
                ELSE [session[s] EXCEPT !.step = "revoking", !.sent = ToRevoke(s)]
  <2>1. Becomes(s, r) /\ UNCHANGED <<live, issued, store>>
    BY <1>4 DEF LogOut, ToRevoke
  <2>2. Lets(s, r)
    BY <1>0, <1>4, RecordFacts DEF LogOut, ToRevoke, Lets, Replaces, SigningIn, GrantSteps, Session, NoToken, Sound
  <2> QED BY <2>1, <2>2, LetsGo
<1>5. CASE SignIn(s)
  <2> DEFINE r == [Gone EXCEPT !.step = "signingIn", !.sent = issued']
  <2>1. /\ Becomes(s, r) /\ issued' = issued + 1 /\ live' = live \cup {issued'}
        /\ UNCHANGED <<lock, store>> /\ session[s].step = "gone"
    BY <1>5 DEF SignIn
  <2>2. r.step = "signingIn" /\ r.sent = issued' /\ r.reply = NoReply /\ r.pending = NoToken
    BY <1>0, <2>1, RecordFacts DEF Session
  <2>3. OneGrantEach'
    BY <2>1, <2>2, GrantsStayApart
  <2>4. /\ {t \in 1..issued' : Replaces(r, t)} = {}
        /\ {t \in 1..issued' : SigningIn(r, t)} = {issued'}
    <3> HIDE DEF r
    <3> QED BY <1>0, <2>1, <2>2, RecordFacts DEF Replaces, SigningIn, NoToken
  <2>5. /\ {t \in 1..issued : Replaces(session[s], t)} = {}
        /\ {t \in 1..issued : SigningIn(session[s], t)} = {}
    BY <1>0, <2>1, RecordFacts DEF Replaces, SigningIn, NoToken, Sound
  <2>6. Successor' = Successor /\ Grants' = Grants \cup {issued'}
    <3> HIDE DEF r
    <3> QED BY <2>1, <2>4, <2>5, OfOneAndOthers, OfOneAndOthersNext
  <2>7. Custody!Grant
    BY <2>1, <2>6 DEF Custody!Grant
  <2> QED BY <2>3, <2>7 DEF Careful, Custody!Next
<1> QED BY <1>1, <1>2, <1>3, <1>4, <1>5 DEF Start

LEMMA LockCareful ==
  ASSUME CustodyInv, NEW s \in Sessions, Lock(s)
  PROVE  Careful
<1>0. /\ session[s] \in Session
      /\ Sound(s, session[s], lock, store, live, issued)
      /\ lock \in Sessions \cup {Nobody}
      /\ store \in Nat /\ store <= issued /\ issued \in Nat /\ issued + 1 \in Nat
      /\ live \subseteq Nat /\ NoToken \notin live
      /\ \A t \in live : t <= issued
      /\ late \subseteq Requests
  BY Before DEF CustodyInv
<1>1. CASE GiveUpWaiting(s)
  <2> DEFINE r == AfterBusy(session[s])
  <2>1. Becomes(s, r) /\ UNCHANGED <<live, issued, store>>
    BY <1>1 DEF GiveUpWaiting, AfterBusy, Over
  <2>2. Lets(s, r)
    BY <1>0, <1>1, RecordFacts DEF GiveUpWaiting, AfterBusy, Over, Lets, Replaces, SigningIn, GrantSteps, Session, NoToken, Sound
  <2> QED BY <2>1, <2>2, LetsGo
<1>2. CASE StoreUnreadable(s)
  <2> DEFINE r == [AfterBusy(session[s]) EXCEPT !.access = NoToken]
  <2>1. Becomes(s, r) /\ UNCHANGED <<live, issued, store>>
    BY <1>2 DEF StoreUnreadable, AfterBusy, Over
  <2>2. Lets(s, r)
    BY <1>0, <1>2, RecordFacts DEF StoreUnreadable, AfterBusy, Over, Lets, Replaces, SigningIn, GrantSteps, Session, NoToken, Sound
  <2> QED BY <2>1, <2>2, LetsGo
<1>3. CASE NotLoggedIn(s)
  <2> DEFINE r == [Over(session[s], "stopped") EXCEPT !.access = NoToken]
  <2>1. Becomes(s, r) /\ UNCHANGED <<live, issued, store>>
    BY <1>3 DEF NotLoggedIn, Over
  <2>2. Lets(s, r)
    BY <1>0, <1>3, RecordFacts DEF NotLoggedIn, Over, Lets, Replaces, SigningIn, GrantSteps, Session, NoToken, Sound
  <2> QED BY <2>1, <2>2, LetsGo
<1>4. CASE Expired(s)
  <2> DEFINE r == Over(session[s], "stopped")
  <2>1. Becomes(s, r) /\ UNCHANGED <<live, issued, store>>
    BY <1>4 DEF Expired, Over
  <2>2. Lets(s, r)
    BY <1>0, <1>4, RecordFacts DEF Expired, Over, Lets, Replaces, SigningIn, GrantSteps, Session, NoToken, Sound
  <2> QED BY <2>1, <2>2, LetsGo
<1>5. CASE Begin(s)
  <2> DEFINE r == [session[s] EXCEPT
                    !.step = IF session[s].step = "toRefresh" THEN "asking" ELSE "revoking",
                    !.sent = store]
  <2>1. Becomes(s, r) /\ UNCHANGED <<live, issued, store>>
    BY <1>5 DEF Begin, Free
  <2>2. Lets(s, r)
    BY <1>0, <1>5, RecordFacts DEF Begin, Free, Lets, Replaces, SigningIn, GrantSteps, Session, NoToken, Sound
  <2> QED BY <2>1, <2>2, LetsGo
<1>6. CASE SignInStored(s)
  <2> DEFINE r == [Over(session[s], "idle") EXCEPT !.access = session[s].sent]
  <2>1. /\ Becomes(s, r) /\ UNCHANGED <<live, issued>> /\ lock = Nobody
        /\ store = NoToken /\ store' = session[s].sent
        /\ SigningIn(session[s], store')
    BY <1>6 DEF SignInStored, Free, SigningIn
  <2>2. \A t \in 1..issued : ~ Replaces(r, t) /\ ~ SigningIn(r, t)
    BY <1>0, <1>6, RecordFacts DEF SignInStored, Over, Replaces, SigningIn, Session, NoToken, Sound
  <2>3. r.step \notin GrantSteps
    BY <1>0, <1>6, RecordFacts DEF SignInStored, Over, GrantSteps, Session
  <2>4. store' \in 1..issued
    <3>1. session[s].sent # NoToken
      BY <2>1 DEF CustodyInv, OneGrantEach, SigningIn, GrantSteps
    <3>2. session[s].sent \in Nat /\ session[s].sent <= issued
      BY <1>0 DEF Session, Sound
    <3> QED BY <1>0, <2>1, <3>1, <3>2 DEF NoToken
  <2> QED BY <2>1, <2>2, <2>3, <2>4, Stores
<1>7. CASE SignInDiscards(s)
  <2> DEFINE r == [session[s] EXCEPT !.step = "discarding"]
  <2>1. Becomes(s, r) /\ UNCHANGED <<live, issued, store>>
    BY <1>7 DEF SignInDiscards, Free
  <2>2. Lets(s, r)
    BY <1>0, <1>7, RecordFacts DEF SignInDiscards, Free, Lets, Replaces, SigningIn, GrantSteps, Session, NoToken, Sound
  <2> QED BY <2>1, <2>2, LetsGo
<1> QED BY <1>1, <1>2, <1>3, <1>4, <1>5, <1>6, <1>7 DEF Lock

LEMMA ServerCareful ==
  ASSUME CustodyInv, NEW s \in Sessions, ServerAnswers(s)
  PROVE  Careful
<1>0. /\ session[s] \in Session
      /\ Sound(s, session[s], lock, store, live, issued)
      /\ lock \in Sessions \cup {Nobody}
      /\ store \in Nat /\ store <= issued /\ issued \in Nat /\ issued + 1 \in Nat
      /\ live \subseteq Nat /\ NoToken \notin live
      /\ \A t \in live : t <= issued
      /\ late \subseteq Requests
  BY Before DEF CustodyInv
<1>1. CASE ServerRefreshes(s)
  <2> DEFINE r == [session[s] EXCEPT !.reply = Rotated(issued')]
  <2>1. /\ Becomes(s, r) /\ session[s].step = "asking" /\ session[s].reply = NoReply
        /\ lock = s /\ store = session[s].sent /\ store \in live
        /\ issued' = issued + 1 /\ live' = (live \ {store}) \cup {issued'}
        /\ store' = store
    BY <1>0, <1>1, RecordFacts DEF ServerRefreshes, Sound
  <2>2. r.step = "asking" /\ r.reply = Rotated(issued') /\ r.pending = NoToken
    BY <1>0, <2>1 DEF Session, Sound, NoToken
  <2>3. OneGrantEach'
    BY <2>1, <2>2, GrantsStayApart DEF GrantSteps
  <2>4. /\ {t \in 1..issued' : Replaces(r, t)} = {issued'}
        /\ {t \in 1..issued' : SigningIn(r, t)} = {}
    <3> HIDE DEF r
    <3> QED BY <1>0, <2>1, <2>2, RecordFacts DEF Replaces, SigningIn, NoToken
  <2>5. /\ {t \in 1..issued : Replaces(session[s], t)} = {}
        /\ {t \in 1..issued : SigningIn(session[s], t)} = {}
    BY <1>0, <2>1, RecordFacts DEF Replaces, SigningIn, NoToken, Sound
  <2>6. OthersReplace(s) = {}
    BY <2>1, OthersReplaceNothing
  <2>7. Successor = {} /\ Successor' = {issued'} /\ Grants' = Grants
    <3> HIDE DEF r
    <3>1. /\ Successor = OthersReplace(s) \cup {}
          /\ Grants = OthersGrants(s) \cup {}
      BY <2>5, OfOneAndOthers
    <3>2. /\ Successor' = OthersReplace(s) \cup {issued'}
          /\ Grants' = OthersGrants(s) \cup {}
      BY <2>1, <2>4, OfOneAndOthersNext
    <3> QED BY <2>6, <3>1, <3>2
  <2>8. Custody!Rotate
    BY <2>1, <2>7 DEF Custody!Rotate
  <2> QED BY <2>3, <2>8 DEF Careful, Custody!Next
<1>2. CASE ServerRefuses(s)
  <2> DEFINE r == [session[s] EXCEPT !.reply = [kind |-> "refused"]]
  <2>1. Becomes(s, r) /\ UNCHANGED <<live, issued, store>>
    BY <1>2 DEF ServerRefuses
  <2>2. Lets(s, r)
    BY <1>0, <1>2, RecordFacts DEF ServerRefuses, Lets, Replaces, SigningIn, GrantSteps, Session, NoToken, Sound
  <2> QED BY <2>1, <2>2, LetsGo
<1>3. CASE ServerRevokes(s)
  <2> DEFINE r == [session[s] EXCEPT !.reply = [kind |-> "revoked"]]
  <2>1. /\ Becomes(s, r) /\ UNCHANGED <<issued, store>> /\ live' = live \ {session[s].sent}
        /\ session[s].reply = NoReply
    BY <1>3 DEF ServerRevokes
  <2>2. r.step = session[s].step /\ r.sent = session[s].sent
        /\ r.pending = session[s].pending /\ r.reply.kind = "revoked"
    BY <1>0 DEF Session
  <2>3. OneGrantEach'
    BY <2>1, <2>2, GrantsStayApart
  <2>4. Successor' = Successor /\ Grants' = Grants
    <3> HIDE DEF r
    <3>1. /\ {t \in 1..issued : Replaces(r, t)} = {t \in 1..issued : Replaces(session[s], t)}
          /\ {t \in 1..issued : SigningIn(r, t)} = {t \in 1..issued : SigningIn(session[s], t)}
      BY <2>1, <2>2, RecordFacts DEF Replaces, SigningIn
    <3> QED BY <2>1, <3>1, OfOneAndOthers, OfOneAndOthersNext
  <2>5. CASE session[s].sent \in live
    <3>1. Custody!End
      BY <2>1, <2>4, <2>5 DEF Custody!End
    <3> QED BY <2>3, <3>1 DEF Careful, Custody!Next
  <2>6. CASE session[s].sent \notin live
    <3>1. UNCHANGED Custody!vars
      BY <2>1, <2>4, <2>6 DEF Custody!vars
    <3> QED BY <2>3, <3>1 DEF Careful
  <2> QED BY <2>5, <2>6
<1> QED BY <1>1, <1>2, <1>3 DEF ServerAnswers

LEMMA CallCareful ==
  ASSUME CustodyInv, NEW s \in Sessions, CallEnds(s)
  PROVE  Careful
<1>0. /\ session[s] \in Session
      /\ Sound(s, session[s], lock, store, live, issued)
      /\ lock \in Sessions \cup {Nobody}
      /\ store \in Nat /\ store <= issued /\ issued \in Nat /\ issued + 1 \in Nat
      /\ live \subseteq Nat /\ NoToken \notin live
      /\ \A t \in live : t <= issued
      /\ late \subseteq Requests
  BY Before DEF CustodyInv
<1>1. CASE TakeRotation(s, TRUE)
  <2> DEFINE r == [Over(HandedOut(session[s], TRUE), "idle")
                  EXCEPT !.pending = Kept(session[s], TRUE)]
  <2>1. /\ Becomes(s, r) /\ UNCHANGED <<live, issued>> /\ lock \in {s, Nobody}
        /\ store' \in 1..issued /\ store \notin live
        /\ \A t \in 1..issued : Replaces(session[s], t) <=> t = store'
    BY <1>0, <1>1, RecordFacts DEF TakeRotation, HandedOut, Kept, Over, Replaces, Session, NoToken, Sound
  <2>2. \A t \in 1..issued : ~ Replaces(r, t) /\ ~ SigningIn(r, t)
    BY <1>0, <1>1, RecordFacts DEF TakeRotation, HandedOut, Kept, Over, Replaces, SigningIn, Session, NoToken, Sound
  <2>3. r.step \notin GrantSteps
    BY <1>0, <1>1, RecordFacts DEF TakeRotation, HandedOut, Kept, Over, GrantSteps, Session, NoToken, Sound
  <2> QED BY <2>1, <2>2, <2>3, Stores
<1>2. CASE TakeRotation(s, FALSE)
  <2> DEFINE r == [Over(HandedOut(session[s], FALSE), "idle")
                  EXCEPT !.pending = Kept(session[s], FALSE)]
  <2>1. Becomes(s, r) /\ UNCHANGED <<live, issued, store>>
    BY <1>2 DEF TakeRotation, HandedOut, Kept, Over
  <2>2. Lets(s, r)
    BY <1>0, <1>2, RecordFacts DEF TakeRotation, HandedOut, Kept, Over, Lets, Replaces, SigningIn, GrantSteps, Session, NoToken, Sound
  <2> QED BY <2>1, <2>2, LetsGo
<1>3. CASE TakeRevocation(s, TRUE)
  <2> DEFINE r == [Gone EXCEPT !.step = "stopped"]
  <2>1. /\ Becomes(s, r) /\ UNCHANGED <<live, issued>> /\ store' = NoToken
        /\ session[s].step = "revoking" /\ lock = s
        /\ store \notin live /\ session[s].pending \notin live
        /\ session[s].reply.kind = "revoked"
    BY <1>0, <1>3, RecordFacts DEF TakeRevocation, Sound
  <2>2. r.step = "stopped" /\ r.reply = NoReply /\ r.pending = NoToken
    BY <1>0, RecordFacts DEF Session
  <2>3. OneGrantEach'
    BY <2>1, <2>2, GrantsStayApart DEF GrantSteps
  <2>4. Successor' = {} /\ Grants' = Grants
    <3> HIDE DEF r
    <3>1. /\ \A t \in 1..issued : ~ Replaces(r, t) /\ ~ SigningIn(r, t)
          /\ \A t \in 1..issued : ~ SigningIn(session[s], t)
      BY <2>1, <2>2, RecordFacts DEF Replaces, SigningIn, NoToken
    <3> QED BY <2>1, <3>1, OfOneAndOthers, OfOneAndOthersNext, OthersReplaceNothing
  <2>5. Successor \cap live = {}
    <3>1. Successor = {t \in 1..issued : Replaces(session[s], t)}
      BY <2>1, OfOneAndOthers, OthersReplaceNothing
    <3> QED BY <2>1, <3>1 DEF Replaces
  <2>6. Custody!Delete
    BY <2>1, <2>4, <2>5 DEF Custody!Delete, Custody!NoToken, NoToken
  <2> QED BY <2>3, <2>6 DEF Careful, Custody!Next
<1>4. CASE TakeRevocation(s, FALSE)
  <2> DEFINE r == [Gone EXCEPT !.step = "stopped"]
  <2>1. Becomes(s, r) /\ UNCHANGED <<live, issued, store>>
    BY <1>4 DEF TakeRevocation
  <2>2. Lets(s, r)
    BY <1>0, <1>4, RecordFacts DEF TakeRevocation, Lets, Replaces, SigningIn, GrantSteps, Session, NoToken, Sound
  <2> QED BY <2>1, <2>2, LetsGo
<1>5. CASE TakeRefusal(s)
  <2> DEFINE r == Over(session[s], "stopped")
  <2>1. Becomes(s, r) /\ UNCHANGED <<live, issued, store>>
    BY <1>5 DEF TakeRefusal, Over
  <2>2. Lets(s, r)
    BY <1>0, <1>5, RecordFacts DEF TakeRefusal, Over, Lets, Replaces, SigningIn, GrantSteps, Session, NoToken, Sound
  <2> QED BY <2>1, <2>2, LetsGo
<1>6. CASE TakeGarbled(s)
  <2> DEFINE r == Over(session[s], "stopped")
  <2>1. Becomes(s, r) /\ UNCHANGED <<live, issued, store>>
    BY <1>6 DEF TakeGarbled, Over
  <2>2. Lets(s, r)
    BY <1>0, <1>6, RecordFacts DEF TakeGarbled, Over, Lets, Replaces, SigningIn, GrantSteps, Session, NoToken, Sound
  <2> QED BY <2>1, <2>2, LetsGo
<1>7. CASE Discarded(s)
  <2> DEFINE r == Gone
  <2>1. Becomes(s, r) /\ UNCHANGED <<live, issued, store>>
    BY <1>7 DEF Discarded
  <2>2. Lets(s, r)
    BY <1>0, <1>7, RecordFacts DEF Discarded, Lets, Replaces, SigningIn, GrantSteps, Session, NoToken, Sound
  <2> QED BY <2>1, <2>2, LetsGo
<1>8. CASE CallFails(s)
  <2> DEFINE r == IF session[s].step = "discarding" THEN Gone ELSE Over(session[s], "idle")
  <2>1. Becomes(s, r) /\ UNCHANGED <<live, issued, store>>
    BY <1>8 DEF CallFails, Over
  <2>2. Lets(s, r)
    BY <1>0, <1>8, RecordFacts DEF CallFails, Over, Lets, Replaces, SigningIn, GrantSteps, Session, NoToken, Sound
  <2> QED BY <2>1, <2>2, LetsGo
<1> QED BY <1>1, <1>2, <1>3, <1>4, <1>5, <1>6, <1>7, <1>8 DEF CallEnds

LEMMA InterruptCareful ==
  ASSUME CustodyInv, NEW s \in Sessions, Interrupt(s)
  PROVE  Careful
<1>1. Becomes(s, Gone) /\ UNCHANGED <<live, issued, store>>
  BY DEF Interrupt
<1>2. Lets(s, Gone)
  BY RecordFacts DEF Lets, Replaces, SigningIn, GrantSteps, NoToken
<1> QED BY <1>1, <1>2, LetsGo

\* Only the calls that a session gives up join the late requests.
LEMMA LateGrows ==
  ASSUME NEW s,
         Start(s) \/ Lock(s) \/ ServerAnswers(s) \/ CallEnds(s) \/ Interrupt(s)
  PROVE  late' \subseteq late \cup LeftBehind(s)
<1>1. CASE Start(s)
  BY <1>1 DEF Start, Load, AskRefresh, RetryCommit, LogOut, SignIn
<1>2. CASE Lock(s)
  BY <1>2 DEF Lock, GiveUpWaiting, StoreUnreadable, NotLoggedIn, Expired, Begin,
     SignInStored, SignInDiscards
<1>3. CASE ServerAnswers(s)
  BY <1>3 DEF ServerAnswers, ServerRefreshes, ServerRefuses, ServerRevokes
<1>4. CASE CallEnds(s)
  BY <1>4 DEF CallEnds, TakeRotation, TakeRevocation, TakeRefusal, TakeGarbled, Discarded,
     CallFails
<1>5. CASE Interrupt(s)
  BY <1>5 DEF Interrupt
<1> QED BY <1>1, <1>2, <1>3, <1>4, <1>5

\* While no session takes a step, the server may exchange the stored token for
\* a late request, and no other.
LEMMA ServerAloneCareful ==
  ASSUME CustodyInv,
         \/ \E q \in late : LateArrives(q) \/ LateVanishes(q)
         \/ \E t \in live : GrantEnds(t)
  PROVE  Careful /\ LateRequests'
<1>1. issued \in Nat /\ live \subseteq Nat /\ NoToken \notin live
  BY DEF CustodyInv, AuthInv, TypeOK, TokensIssued
<1>2. UNCHANGED <<session, lock, store>> /\ late' \subseteq late
  BY DEF LateArrives, LateVanishes, GrantEnds
<1>3. OneGrantEach'
  BY <1>2 DEF CustodyInv, OneGrantEach
<1>4. \A q \in late : q.token \in Nat /\ q.token <= issued
  BY DEF CustodyInv, AuthInv, TypeOK, LateRequests
<1>5. ASSUME UNCHANGED issued PROVE Successor' = Successor /\ Grants' = Grants
  BY <1>2, <1>5 DEF Successor, Grants
<1>6. CASE \E q \in late : LateArrives(q) /\ q.kind = "refresh" /\ q.token \in live
  <2>1. PICK q \in late : LateArrives(q) /\ q.kind = "refresh" /\ q.token \in live
    BY <1>6
  <2>2. /\ store \in live /\ issued' = issued + 1
        /\ live' = (live \ {store}) \cup {issued'}
    BY <2>1 DEF LateArrives, CustodyInv, LateRequests
  <2>3. Successor = {} /\ Successor' = {} /\ Grants' = Grants
    <3>1. ASSUME NEW u \in Sessions
          PROVE  /\ session[u] \in Session
                 /\ session[u].pending = NoToken /\ session[u].reply.kind # "rotated"
                 /\ session[u].sent <= issued
      BY <2>2 DEF CustodyInv, AuthInv, TypeOK, Sound
    <3>2. \A u \in Sessions : \A t \in 1..issued' : ~ Replaces(session[u], t)
      BY <3>1 DEF Replaces, NoToken
    <3>3. 1..issued \subseteq 1..issued'
      BY <1>1, <2>2
    <3>4. \A u \in Sessions : \A t \in 1..issued' :
            SigningIn(session[u], t) => t \in 1..issued
      BY <1>1, <2>2, <3>1 DEF SigningIn, Session
    <3> QED BY <1>2, <3>2, <3>3, <3>4 DEF Successor, Grants
  <2>4. Custody!Rotate
    BY <1>2, <2>2, <2>3 DEF Custody!Rotate
  <2>5. LateRequests'
    BY <1>1, <1>2, <1>4, <2>2 DEF LateRequests, CustodyInv
  <2> QED BY <1>3, <2>4, <2>5 DEF Careful, Custody!Next
<1>7. CASE \/ \E q \in late : /\ LateArrives(q) \/ LateVanishes(q)
                              /\ ~ (q.kind = "refresh" /\ q.token \in live /\ LateArrives(q))
           \/ \E t \in live : GrantEnds(t)
  <2>1. UNCHANGED issued /\ (live' = live \/ \E t \in live : live' = live \ {t})
    <3>1. CASE \E t \in live : GrantEnds(t)
      BY <3>1 DEF GrantEnds
    <3>2. CASE \E q \in late : LateVanishes(q)
      BY <3>2 DEF LateVanishes
    <3>3. CASE \E q \in late : LateArrives(q) /\ ~ (q.kind = "refresh" /\ q.token \in live)
      <4>1. PICK q \in late : LateArrives(q) /\ ~ (q.kind = "refresh" /\ q.token \in live)
        BY <3>3
      <4>2. UNCHANGED issued /\ live' = live \ {t \in {q.token} : q.kind = "revoke"}
        BY <4>1 DEF LateArrives
      <4>3. CASE q.kind = "revoke" /\ q.token \in live
        BY <4>2, <4>3
      <4>4. CASE ~ (q.kind = "revoke" /\ q.token \in live)
        BY <4>2, <4>4
      <4> QED BY <4>3, <4>4
    <3> QED BY <1>7, <3>1, <3>2, <3>3
  <2>2. Careful
    <3>1. CASE live' = live
      <4>1. UNCHANGED Custody!vars
        BY <1>2, <1>5, <2>1, <3>1 DEF Custody!vars
      <4> QED BY <1>3, <4>1 DEF Careful
    <3>2. CASE \E t \in live : live' = live \ {t}
      <4>1. Custody!End
        BY <1>2, <1>5, <2>1, <3>2 DEF Custody!End
      <4> QED BY <1>3, <4>1 DEF Careful, Custody!Next
    <3> QED BY <2>1, <3>1, <3>2
  <2>3. LateRequests'
    BY <1>2, <2>1 DEF LateRequests, CustodyInv
  <2> QED BY <2>2, <2>3
<1> QED BY <1>6, <1>7

LEMMA CustodyInit == Init => CustodyInv /\ Custody!Init
<1> SUFFICES ASSUME Init PROVE CustodyInv /\ Custody!Init
  OBVIOUS
<1>1. AuthInv
  BY AuthInit
<1>2. \A s \in Sessions : session[s] = Gone
  BY DEF Init
<1>3. OneGrantEach /\ LateRequests
  BY <1>2, RecordFacts DEF OneGrantEach, LateRequests, GrantSteps, Init
<1>4. Successor = {} /\ Grants = {}
  BY <1>2, RecordFacts DEF Successor, Grants, Replaces, SigningIn, NoToken
<1>5. Custody!Init
  BY <1>4 DEF Init, Custody!Init
<1> QED BY <1>1, <1>3, <1>5 DEF CustodyInv

LEMMA CustodyNext == CustodyInv /\ [Next]_vars => CustodyInv' /\ [Custody!Next]_(Custody!vars)
<1> SUFFICES ASSUME CustodyInv, [Next]_vars
             PROVE  CustodyInv' /\ [Custody!Next]_(Custody!vars)
  OBVIOUS
<1>1. AuthInv'
  BY AuthNext DEF CustodyInv
<1>2. ASSUME NEW s \in Sessions,
             Start(s) \/ Lock(s) \/ ServerAnswers(s) \/ CallEnds(s) \/ Interrupt(s)
      PROVE  Careful /\ LateRequests'
  <2>1. Obeys(s)
    BY <1>2, StartStep, LockStep, ServerStep, CallStep, InterruptStep DEF CustodyInv
  <2>2. LateRequests'
    BY <1>2, <2>1, LateGrows, LateStep
  <2>3. Careful
    BY <1>2, StartCareful, LockCareful, ServerCareful, CallCareful, InterruptCareful
  <2> QED BY <2>2, <2>3
<1>3. CASE UNCHANGED vars
  <2>1. OneGrantEach' /\ LateRequests'
    BY <1>3 DEF CustodyInv, OneGrantEach, LateRequests, vars
  <2>2. UNCHANGED Custody!vars
    BY <1>3 DEF Custody!vars, Successor, Grants, vars
  <2> QED BY <1>1, <2>1, <2>2 DEF CustodyInv
<1>4. CASE \/ \E q \in late : LateArrives(q) \/ LateVanishes(q)
           \/ \E t \in live : GrantEnds(t)
  BY <1>1, <1>4, ServerAloneCareful DEF Careful, CustodyInv
<1>5. CASE \E s \in Sessions :
             Start(s) \/ Lock(s) \/ ServerAnswers(s) \/ CallEnds(s) \/ Interrupt(s)
  BY <1>1, <1>2, <1>5 DEF Careful, CustodyInv
<1> QED BY <1>3, <1>4, <1>5 DEF Next

\* However many sessions there are and however requests, answers and processes
\* get lost, only the stored token is ever exchanged, one replacement at a time
\* is on its way to the store, and the store gives up a token only when nothing
\* can renew the login any more.
THEOREM CustodyHolds == Spec => KeepsCustody
  BY CustodyInit, CustodyNext, PTL DEF Spec, KeepsCustody, Custody!Spec
=============================================================================
