----------------------------- MODULE TokenCustody -----------------------------
(***************************************************************************)
(* What the sessions of one profile promise about its refresh tokens,      *)
(* however many there are and whatever fails: the only token that is ever  *)
(* exchanged is the stored one; at most one replacement is on its way to   *)
(* the store; and the stored token is overwritten or deleted only when     *)
(* neither it nor its replacement can be used any more.                    *)
(***************************************************************************)
EXTENDS Naturals

VARIABLES
  live,       \* the tokens that the auth server accepts
  issued,     \* how many it has issued
  stored,     \* the token in the credential manager, or NoToken
  successor,  \* what replaces the stored token and is not stored yet: one at most
  grants      \* the tokens of logins that are not over

vars == <<live, issued, stored, successor, grants>>

NoToken == 0

Init ==
  /\ issued \in {0, 1}
  /\ live = {t \in {1} : t = issued}
  /\ stored = issued
  /\ successor = {} /\ grants = {}

\* A login is accepted.
Grant ==
  /\ issued' = issued + 1
  /\ live' = live \cup {issued'}
  /\ grants' = grants \cup {issued'}
  /\ UNCHANGED <<stored, successor>>

\* The server exchanges the stored token, while no other replacement is under
\* way.  The answer reaches the session that asked, or nobody.
Rotate ==
  /\ stored \in live /\ successor = {}
  /\ issued' = issued + 1
  /\ live' = (live \ {stored}) \cup {issued'}
  /\ successor' \in {{}, {issued'}}
  /\ UNCHANGED <<stored, grants>>

\* The replacement is stored where the exchanged token was.
Commit ==
  /\ stored \notin live
  /\ successor = {stored'}
  /\ successor' = {}
  /\ UNCHANGED <<live, issued, grants>>

\* A login is stored where there is none.
Adopt ==
  /\ stored = NoToken
  /\ stored' \in grants
  /\ grants' = grants \ {stored'}
  /\ UNCHANGED <<live, issued, successor>>

\* A logout deletes the stored token when nothing renews the login any more.
Delete ==
  /\ stored \notin live /\ successor \cap live = {}
  /\ stored' = NoToken
  /\ successor' = {}
  /\ UNCHANGED <<live, issued, grants>>

\* A token is revoked or runs out.
End ==
  /\ \E t \in live : live' = live \ {t}
  /\ UNCHANGED <<issued, stored, successor, grants>>

\* Nobody can store a token any more: it was revoked, or its session ended.
Drop ==
  /\ \/ successor # {} /\ successor' = {} /\ UNCHANGED grants
     \/ UNCHANGED successor /\ \E t \in grants : grants' = grants \ {t}
  /\ UNCHANGED <<live, issued, stored>>

Next == Grant \/ Rotate \/ Commit \/ Adopt \/ Delete \/ End \/ Drop

Spec == Init /\ [][Next]_vars
=============================================================================
