---------------------------- MODULE AuthRotation ----------------------------
(***************************************************************************)
(* The login of one profile (src/src/auth.rs): a refresh token that the    *)
(* auth server accepts once and replaces, kept in the credential manager   *)
(* of the operating system and shared by every process that uses the       *)
(* profile.  A session (`AuthSession') belongs to one process: a dashboard *)
(* that refreshes in the background (AuthRefreshTask, src/src/service.rs), *)
(* `auth whoami', `auth login' or `auth logout'.  A file lock serialises   *)
(* what the sessions do with the stored token.                             *)
(*                                                                         *)
(* Code between two awaits is one step: the lock's poll and the HTTP call  *)
(* are where another session, a timeout, a crash or an abort comes in.     *)
(* The access token that came with refresh token n is called n.  Whether   *)
(* an access token has expired is left open: a session may always refresh. *)
(***************************************************************************)
EXTENDS Naturals

CONSTANTS
  Sessions,
  Nobody,       \* who holds the file lock when it is free
  MaxToken      \* bound: the server issues no more refresh tokens

ASSUME NobodyAssumption == Nobody \notin Sessions
ASSUME MaxTokenAssumption == MaxToken \in Nat

VARIABLES
  session,      \* AuthSession: what it is doing, and SessionState
  lock,         \* the lock file
  store,        \* the credential manager
  live,         \* server: the refresh tokens it accepts
  issued,       \* server: how many it issued
  late          \* requests whose client has given up

vars == <<session, lock, store, live, issued, late>>

NoToken == 0
NoReply == [kind |-> "none"]
Replies == {NoReply, [kind |-> "refused"], [kind |-> "revoked"]}
             \cup [kind : {"rotated"}, token : Nat]

Waiting == {"toRefresh", "toLogout", "signingIn"}
Calling == {"asking", "revoking", "discarding"}

Session == [step    : {"gone", "idle", "stopped"} \cup Waiting \cup Calling,
            sent    : Nat,        \* the token its request carries
            reply   : Replies,
            pending : Nat,        \* rotated but not stored
            access  : Nat]        \* the access token it hands out

TypeOK ==
  /\ session \in [Sessions -> Session]
  /\ lock \in Sessions \cup {Nobody}
  /\ store \in Nat
  /\ live \subseteq Nat
  /\ issued \in Nat
  /\ late \subseteq [kind : {"refresh", "revoke"}, token : Nat]

Gone == [step |-> "gone", sent |-> NoToken, reply |-> NoReply,
         pending |-> NoToken, access |-> NoToken]

\* A call or a wait is over; what the session keeps besides is left to `r'.
Over(r, step) == [r EXCEPT !.step = step, !.sent = NoToken, !.reply = NoReply]

Becomes(s, r) == session' = [session EXCEPT ![s] = r]

\* The requests of `s' that may still reach the server after `s' gave up.
LeftBehind(s) ==
  IF session[s].step \in Calling /\ session[s].reply = NoReply
  THEN {[kind |-> IF session[s].step = "asking" THEN "refresh" ELSE "revoke",
         token |-> session[s].sent]}
  ELSE {}

\* Mutant: the guard outlives the call.
UnlockForgotten(s) == lock' = lock

\* Dropping a guard: the one of this call, but not the one `pending' owns.
Unlock(s) == lock' = IF session[s].pending = NoToken THEN Nobody ELSE lock

-----------------------------------------------------------------------------
(* Starting: load, access_token, force_refresh and logout                   *)

Load(s) ==
  /\ session[s].step = "gone"
  /\ store # NoToken
  /\ Becomes(s, [Gone EXCEPT !.step = "idle"])
  /\ UNCHANGED <<lock, store, live, issued, late>>

\* access_token without a usable one, or force_refresh, with nothing pending.
AskRefresh(s) ==
  /\ session[s].step = "idle"
  /\ session[s].pending = NoToken
  /\ Becomes(s, [session[s] EXCEPT !.step = "toRefresh"])
  /\ UNCHANGED <<lock, store, live, issued, late>>

\* Both try the pending commit first.  When it fails again nothing changes.
RetryCommit(s) ==
  /\ session[s].step = "idle"
  /\ session[s].pending # NoToken
  /\ store' = session[s].pending
  /\ lock' = Nobody
  /\ Becomes(s, [session[s] EXCEPT !.access = session[s].pending, !.pending = NoToken])
  /\ UNCHANGED <<live, issued, late>>

\* Mutant: what is revoked is the stored token, though a newer one is pending.
ToRevokeStored(s) == store

ToRevoke(s) == session[s].pending

LogOut(s) ==
  /\ session[s].step = "idle"
  /\ Becomes(s, IF session[s].pending = NoToken
                THEN [session[s] EXCEPT !.step = "toLogout"]
                ELSE [session[s] EXCEPT !.step = "revoking", !.sent = ToRevoke(s)])
  /\ UNCHANGED <<lock, store, live, issued, late>>

\* login: the password was accepted and the server started a grant.
SignIn(s) ==
  /\ session[s].step = "gone"
  /\ issued < MaxToken
  /\ issued' = issued + 1
  /\ live' = live \cup {issued'}
  /\ Becomes(s, [Gone EXCEPT !.step = "signingIn", !.sent = issued'])
  /\ UNCHANGED <<lock, store, late>>

-----------------------------------------------------------------------------
(* Behind the lock                                                          *)

\* Mutant: the lock is not waited for.
FreeAlways == TRUE

Free == lock = Nobody

\* Mutant: a lock that is busy counts as a login that is over.
AfterBusyStopped(r) == Over(r, "stopped")

\* A refresh is tried again later; a login drops the token it was given.
AfterBusy(r) == IF r.step = "signingIn" THEN Gone ELSE Over(r, "idle")

\* CoordinationBusy after LOCK_WAIT, or Coordination: the lock file is unusable.
GiveUpWaiting(s) ==
  /\ session[s].step \in Waiting
  /\ Becomes(s, AfterBusy(session[s]))
  /\ UNCHANGED <<lock, store, live, issued, late>>

\* The credential manager cannot be read; the lock is taken and dropped.
StoreUnreadable(s) ==
  /\ session[s].step \in Waiting
  /\ Free
  /\ Becomes(s, [AfterBusy(session[s]) EXCEPT !.access = NoToken])
  /\ UNCHANGED <<lock, store, live, issued, late>>

NotLoggedIn(s) ==
  /\ session[s].step \in {"toRefresh", "toLogout"}
  /\ Free
  /\ store = NoToken
  /\ Becomes(s, [Over(session[s], "stopped") EXCEPT !.access = NoToken])
  /\ UNCHANGED <<lock, store, live, issued, late>>

\* The stored token is past its own fixed expiry: no request is made.
Expired(s) ==
  /\ session[s].step = "toRefresh"
  /\ Free
  /\ store # NoToken
  /\ store \notin live
  /\ Becomes(s, Over(session[s], "stopped"))
  /\ UNCHANGED <<lock, store, live, issued, late>>

\* refresh_locked and logout read the store again and send what is there.
Begin(s) ==
  /\ session[s].step \in {"toRefresh", "toLogout"}
  /\ Free
  /\ store # NoToken
  /\ lock' = s
  /\ Becomes(s, [session[s] EXCEPT
       !.step = IF @ = "toRefresh" THEN "asking" ELSE "revoking", !.sent = store])
  /\ UNCHANGED <<store, live, issued, late>>

SignInStored(s) ==
  /\ session[s].step = "signingIn"
  /\ Free
  /\ store = NoToken
  /\ store' = session[s].sent
  /\ Becomes(s, [Over(session[s], "idle") EXCEPT !.access = session[s].sent])
  /\ UNCHANGED <<lock, live, issued, late>>

\* The profile has a login, or its token cannot be stored: the new one is revoked.
SignInDiscards(s) ==
  /\ session[s].step = "signingIn"
  /\ Free
  /\ lock' = s
  /\ Becomes(s, [session[s] EXCEPT !.step = "discarding"])
  /\ UNCHANGED <<store, live, issued, late>>

-----------------------------------------------------------------------------
(* The auth server, as the client depends on it: a refresh token is good    *)
(* for one refresh, and revoking one that is not live succeeds.             *)

Rotated(t) == [kind |-> "rotated", token |-> t]

ServerRefreshes(s) ==
  /\ session[s].step = "asking"
  /\ session[s].reply = NoReply
  /\ session[s].sent \in live
  /\ issued < MaxToken
  /\ issued' = issued + 1
  /\ live' = (live \ {session[s].sent}) \cup {issued'}
  /\ Becomes(s, [session[s] EXCEPT !.reply = Rotated(issued')])
  /\ UNCHANGED <<lock, store, late>>

ServerRefuses(s) ==
  /\ session[s].step = "asking"
  /\ session[s].reply = NoReply
  /\ session[s].sent \notin live
  /\ Becomes(s, [session[s] EXCEPT !.reply = [kind |-> "refused"]])
  /\ UNCHANGED <<lock, store, live, issued, late>>

ServerRevokes(s) ==
  /\ session[s].step \in {"revoking", "discarding"}
  /\ session[s].reply = NoReply
  /\ live' = live \ {session[s].sent}
  /\ Becomes(s, [session[s] EXCEPT !.reply = [kind |-> "revoked"]])
  /\ UNCHANGED <<lock, store, issued, late>>

\* A request nobody waits for any more reaches the server, or never does.
LateArrives(r) ==
  /\ late' = late \ {r}
  /\ IF r.kind = "refresh" /\ r.token \in live
     THEN /\ issued < MaxToken
          /\ issued' = issued + 1
          /\ live' = (live \ {r.token}) \cup {issued'}
     ELSE /\ issued' = issued
          /\ live' = live \ {t \in {r.token} : r.kind = "revoke"}
  /\ UNCHANGED <<session, lock, store>>

LateVanishes(r) ==
  /\ late' = late \ {r}
  /\ UNCHANGED <<session, lock, store, live, issued>>

\* The fixed expiry passes, or the account is disabled or reset.
GrantEnds(t) ==
  /\ live' = live \ {t}
  /\ UNCHANGED <<session, lock, store, issued, late>>

-----------------------------------------------------------------------------
(* The end of a call                                                        *)

\* Mutant: the access token is handed out although its login is not stored.
HandedOutEarly(r, ok) == [r EXCEPT !.access = r.reply.token]

HandedOut(r, ok) == IF ok THEN [r EXCEPT !.access = r.reply.token] ELSE r

\* Mutant: a rotated token that could not be stored is dropped.
KeptNot(r, ok) == NoToken

Kept(r, ok) == IF ok THEN NoToken ELSE r.reply.token

\* The rotated pair is pending, with the lock, until commit_pending stores it.
TakeRotation(s, ok) ==
  /\ session[s].step = "asking"
  /\ session[s].reply.kind = "rotated"
  /\ Becomes(s, [Over(HandedOut(session[s], ok), "idle") EXCEPT !.pending = Kept(session[s], ok)])
  /\ store' = IF ok THEN session[s].reply.token ELSE store
  /\ lock' = IF ok THEN Nobody ELSE lock
  /\ UNCHANGED <<live, issued, late>>

\* A status that is not retryable: the login has to be renewed by the user.
TakeRefusal(s) ==
  /\ session[s].step = "asking"
  /\ session[s].reply.kind = "refused"
  /\ lock' = Nobody
  /\ Becomes(s, Over(session[s], "stopped"))
  /\ UNCHANGED <<store, live, issued, late>>

\* An answer that cannot be decoded, or that changes the fixed expiry.
TakeGarbled(s) ==
  /\ session[s].step = "asking"
  /\ session[s].reply.kind = "rotated"
  /\ lock' = Nobody
  /\ Becomes(s, Over(session[s], "stopped"))
  /\ UNCHANGED <<store, live, issued, late>>

\* logout deletes what it revoked; the deletion may fail.
TakeRevocation(s, ok) ==
  /\ session[s].step = "revoking"
  /\ session[s].reply.kind = "revoked"
  /\ store' = IF ok THEN NoToken ELSE store
  /\ lock' = Nobody
  /\ Becomes(s, [Gone EXCEPT !.step = "stopped"])
  /\ UNCHANGED <<live, issued, late>>

Discarded(s) ==
  /\ session[s].step = "discarding"
  /\ session[s].reply.kind = "revoked"
  /\ lock' = Nobody
  /\ Becomes(s, Gone)
  /\ UNCHANGED <<store, live, issued, late>>

\* The call fails or takes longer than HTTP_TIMEOUT, or the server answers with
\* a status that is retried.
CallFails(s) ==
  /\ session[s].step \in Calling
  /\ late' = late \cup LeftBehind(s)
  /\ Unlock(s)
  /\ Becomes(s, IF session[s].step = "discarding" THEN Gone ELSE Over(session[s], "idle"))
  /\ UNCHANGED <<store, live, issued>>

\* The process ends or is killed, or the last clone of the service is dropped,
\* which aborts the refresh task.  The guards are dropped with the session.
Interrupt(s) ==
  /\ session[s].step # "gone"
  /\ late' = late \cup LeftBehind(s)
  /\ lock' = IF lock = s THEN Nobody ELSE lock
  /\ Becomes(s, Gone)
  /\ UNCHANGED <<store, live, issued>>

-----------------------------------------------------------------------------
(* The specification: nobody runs, and the profile may have a login          *)

Init ==
  /\ session = [s \in Sessions |-> Gone]
  /\ lock = Nobody
  /\ issued \in {0, 1}
  /\ store = issued
  /\ live = {t \in {1} : t = issued}
  /\ late = {}

Start(s) == Load(s) \/ AskRefresh(s) \/ RetryCommit(s) \/ LogOut(s) \/ SignIn(s)

Lock(s) ==
  \/ GiveUpWaiting(s) \/ StoreUnreadable(s) \/ NotLoggedIn(s) \/ Expired(s)
  \/ Begin(s) \/ SignInStored(s) \/ SignInDiscards(s)

ServerAnswers(s) == ServerRefreshes(s) \/ ServerRefuses(s) \/ ServerRevokes(s)

CallEnds(s) ==
  \/ \E ok \in BOOLEAN : TakeRotation(s, ok) \/ TakeRevocation(s, ok)
  \/ TakeRefusal(s) \/ TakeGarbled(s) \/ Discarded(s) \/ CallFails(s)

Next ==
  \/ \E s \in Sessions :
       Start(s) \/ Lock(s) \/ ServerAnswers(s) \/ CallEnds(s) \/ Interrupt(s)
  \/ \E r \in late : LateArrives(r) \/ LateVanishes(r)
  \/ \E t \in live : GrantEnds(t)

\* Every call ends within HTTP_TIMEOUT, and the background task comes back to a
\* pending token until the credential manager takes it.
Fairness == \A s \in Sessions : WF_vars(CallEnds(s)) /\ SF_vars(RetryCommit(s))

Spec == Init /\ [][Next]_vars /\ Fairness
-----------------------------------------------------------------------------
(* Properties                                                               *)

\* A login that is not over yet has been given the token `t'.
SigningIn(r, t) == r.step \in {"signingIn", "discarding"} /\ r.sent = t

\* A refresh that is not stored yet got the token `t'.
Replaces(r, t) == r.pending = t \/ (r.reply.kind = "rotated" /\ r.reply.token = t)

\* A session in state `r' can still store or revoke the token `t'.
Holds(r, t) == Replaces(r, t) \/ SigningIn(r, t)

\* Live tokens that no client can ever send.
Lost == {t \in live : store # t /\ \A s \in Sessions : ~Holds(session[s], t)}

\* What no client can help: a process dies, a call fails after it was sent, an
\* answer makes no sense.  A login that cannot get at the store or its lock
\* belongs here too, because it leaves the grant it was given.
Misfortune ==
  \/ \E s \in Sessions :
       \/ Interrupt(s) \/ CallFails(s) \/ TakeGarbled(s)
       \/ session[s].step = "signingIn" /\ (GiveUpWaiting(s) \/ StoreUnreadable(s))
  \/ \E r \in late : LateArrives(r)

\* Whoever has called the server about the shared login, or holds a token that
\* is not stored yet, has the lock, and the stored token it sent is still there
\* (README.md:279).  So no two sessions wait for an answer about one login at a
\* time; a session whose call timed out no longer waits, and the next one may
\* send the same token again.
OneCaller ==
  \A s \in Sessions :
    /\ session[s].step \in Calling \/ session[s].pending # NoToken => lock = s
    /\ session[s].step = "asking" => store = session[s].sent

\* As long as the grant behind an access token is live, the token that renews
\* it is in the store: the login survives the end of every process (README.md:280,
\* "A rotated value is persisted before its new access token is exposed").
ExposedIsStored ==
  \A s \in Sessions : session[s].access \in live => store = session[s].access

\* Nothing but a misfortune makes the login unusable, in any interleaving of
\* refreshes, logins, logouts and failing writes to the credential manager.
OnlyMisfortuneLoses == [][~Misfortune => Lost' \subseteq Lost]_vars

\* When a logout empties the store, no client can refresh any more, except a
\* login that has just begun (THREAT_MODEL.md:25, "Logout revokes before local
\* deletion").
LogoutEndsLogin ==
  [][store # NoToken /\ store' = NoToken =>
       \A t \in live' : t \in Lost \/ \E s \in Sessions : SigningIn(session[s], t)]_vars

\* The background refresh stops for good only when the stored login is over
\* (AuthError::is_retryable).
StopsOnlyWhenOver ==
  [][\A s \in Sessions : session[s].step # "stopped" /\ session'[s].step = "stopped"
       => store' \notin live']_vars

\* The tokens that replace the stored one and are not stored yet.
Successor == {t \in 1..issued : \E s \in Sessions : Replaces(session[s], t)}

\* The tokens of logins that are not over.
Grants == {t \in 1..issued : \E s \in Sessions : SigningIn(session[s], t)}

Custody == INSTANCE TokenCustody WITH
  stored <- store, successor <- Successor, grants <- Grants

\* Together, and over any connection, the sessions are one careful keeper of one
\* login: requests that arrive long after their session gave up, and logouts and
\* logins in the middle of a rotation, included.
KeepsCustody == Custody!Spec

\* The lock never stays with one session: others get to refresh.
LockIsReleased == lock # Nobody ~> lock = Nobody
=============================================================================
