---------------------------- MODULE ProfileStore ----------------------------
(***************************************************************************)
(* The configuration file (`ConfigStore', src/src/config.rs), the          *)
(* credential manager, and the commands that change both one after the     *)
(* other: `profile', `filter' and `auth' (src/src/cli.rs), and everything  *)
(* that only loads the file, the dashboard included (src/src/main.rs,      *)
(* src/src/runtime.rs).                                                    *)
(*                                                                         *)
(* Every process loads the file, migrating it when it is of an old schema, *)
(* works on its copy, and saves the copy as a whole.  No lock is taken.    *)
(* A write to the file or to the credential manager is a step: a process   *)
(* may die, and another process come in, before every one of them.         *)
(*                                                                         *)
(* A missing file is the empty configuration it is read as.  An API key    *)
(* in the credential manager is named by the address of the profile it was *)
(* entered for.                                                            *)
(***************************************************************************)
EXTENDS Naturals

CONSTANTS
  Processes,
  Names,          \* of profiles
  Addresses,      \* of Temporal frontends
  Accounts,       \* a user of an auth server
  Filters,        \* names of saved queries
  None,           \* no address, account, profile, key
  MaxCommands     \* bound: no process starts after so many did

ASSUME NoneAssumption ==
  None \notin Names \cup Addresses \cup Accounts
ASSUME MaxCommandsAssumption == MaxCommands \in Nat

VARIABLES
  file,           \* config.toml
  backup,         \* config.toml.v<schema>.bak
  keys,           \* credential manager: the API key of every profile
  logins,         \* credential manager: the refresh tokens, by profile and account
  run,            \* what every process is doing, and its copy of the file
  started,        \* how many commands were started
  overlapped      \* history: two commands ran at the same time

vars == <<file, backup, keys, logins, run, started, overlapped>>

\* The key sources: none, an environment variable, the credential manager.
KeySources == {"none", "env", "keyring"}

Profile == [address : Addresses \cup {None},     \* None: there is no such profile
            key     : KeySources,
            auth    : Accounts \cup {None}]

Config == [legacy   : BOOLEAN,                   \* schema 1 or 2
           profiles : [Names -> Profile],
           default  : Names \cup {None},
           filters  : SUBSET Filters]

Absent   == [address |-> None, key |-> "none", auth |-> None]
Empty    == [legacy |-> FALSE, profiles |-> [n \in Names |-> Absent],
             default |-> None, filters |-> {}]

\* A backup that was created and not completely written holds nothing of use.
Backup      == [state : {"none", "partial", "complete"}, holds : Config]
NoBackup    == [state |-> "none", holds |-> Empty]
Partial     == [state |-> "partial", holds |-> Empty]
Complete(c) == [state |-> "complete", holds |-> c]

Migrating == {"backingUp", "writingBackup", "replacing"}
Steps == {"gone", "loading", "ready", "savingKey", "undoingKey", "deletingKey",
          "savingLogin", "undoingLogin", "savingLogout"} \cup Migrating

Process == [step    : Steps,
            config  : Config,
            name    : Names \cup {None},         \* the profile it is about
            account : Accounts \cup {None}]      \* the login it is about

TypeOK ==
  /\ file \in Config
  /\ backup \in Backup
  /\ keys \in [Names -> Addresses \cup {None}]
  /\ logins \subseteq Names \X Accounts
  /\ run \in [Processes -> Process]
  /\ \A p \in Processes : run[p].config.legacy <=> run[p].step \in Migrating
  /\ started \in Nat
  /\ overlapped \in BOOLEAN

Gone == [step |-> "gone", config |-> Empty, name |-> None, account |-> None]

Exists(c, n) == c.profiles[n].address # None

Becomes(p, r) == run' = [run EXCEPT ![p] = r]

At(p, step) == run[p].step = step

Now(p) == run[p].config

\* Process `p' goes on to `step' with what it knows.
GoesTo(p, step) == [run[p] EXCEPT !.step = step]

-----------------------------------------------------------------------------
(* Loading, and migrating an old file                                       *)

Start(p) ==
  /\ At(p, "gone")
  /\ started < MaxCommands
  /\ started' = started + 1
  /\ overlapped' = (overlapped \/ \E q \in Processes : ~At(q, "gone"))
  /\ Becomes(p, GoesTo(p, "loading"))
  /\ UNCHANGED <<file, backup, keys, logins>>

\* Mutant: a file of an old schema is read like a current one.
FirstStepAnySchema == "ready"

FirstStep == IF file.legacy THEN "backingUp" ELSE "ready"

Load(p) ==
  /\ At(p, "loading")
  /\ Becomes(p, [GoesTo(p, FirstStep) EXCEPT !.config = file])
  /\ UNCHANGED <<file, backup, keys, logins, started, overlapped>>

\* Mutant: the backup is opened with `truncate', not with `create_new'.
CreatableAlways == TRUE

Creatable == backup = NoBackup

CreateBackup(p) ==
  /\ At(p, "backingUp")
  /\ Creatable
  /\ backup' = Partial
  /\ Becomes(p, GoesTo(p, "writingBackup"))
  /\ UNCHANGED <<file, keys, logins, started, overlapped>>

WriteBackup(p) ==
  /\ At(p, "writingBackup")
  /\ backup' = Complete(Now(p))
  /\ Becomes(p, GoesTo(p, "replacing"))
  /\ UNCHANGED <<file, keys, logins, started, overlapped>>

\* Mutant: a backup that is already there is taken for the right one.
IsOriginalUnread(p) == TRUE

IsOriginal(p) == backup = Complete(Now(p))

\* AlreadyExists: a backup of the same bytes will do, any other ends the load.
FindBackup(p) ==
  /\ At(p, "backingUp")
  /\ backup # NoBackup
  /\ Becomes(p, IF IsOriginal(p) THEN GoesTo(p, "replacing") ELSE Gone)
  /\ UNCHANGED <<file, backup, keys, logins, started, overlapped>>

\* ConnectionProfile::validate and UserConfig::validate, as far as they are about
\* more than single values.
ValidProfile(x) == x.auth # None => x.key = "none"

Valid(c) ==
  /\ ~c.legacy
  /\ c.default # None => Exists(c, c.default)
  /\ \A n \in Names : ValidProfile(c.profiles[n])

\* ConfigStore::save: the file is replaced as a whole, or stays as it is.
Save(p, c, r) ==
  /\ Valid(c)
  /\ file' = c
  /\ Becomes(p, [r EXCEPT !.config = IF r = Gone THEN Empty ELSE c])

\* Profiles, default and filters are taken over; old profiles have no login.
Migrated(c) == [c EXCEPT !.legacy = FALSE]

Migrate(p) ==
  /\ At(p, "replacing")
  /\ Save(p, Migrated(Now(p)), GoesTo(p, "ready"))
  /\ UNCHANGED <<backup, keys, logins, started, overlapped>>

\* An error that nothing is done about, the end of a command that only reads
\* (profile list and show, filter list, auth whoami), or the process is killed.
Quit(p) ==
  /\ ~At(p, "gone")
  /\ Becomes(p, Gone)
  /\ UNCHANGED <<file, backup, keys, logins, started, overlapped>>

\* The credential manager has what the profile refers to (resolve_profile,
\* AuthSession::load); the environment is taken to have its variables.
HasKey(c, n)   == c.profiles[n].key = "keyring" => keys[n] # None
HasLogin(c, n) == c.profiles[n].auth # None => <<n, c.profiles[n].auth>> \in logins
Usable(c, n)   == Exists(c, n) /\ HasKey(c, n) /\ HasLogin(c, n)

\* The dashboard starts.  An API key of the command line replaces the profile's
\* credentials.
Launch(p, n, given) ==
  /\ At(p, "ready")
  /\ IF given THEN Exists(Now(p), n) ELSE Usable(Now(p), n)
  /\ Becomes(p, Gone)
  /\ UNCHANGED <<file, backup, keys, logins, started, overlapped>>

\* The dashboard switches profiles: connect_profile loads the file anew.
Connect(p, n) ==
  /\ At(p, "ready")
  /\ Usable(Now(p), n)
  /\ Becomes(p, Gone)
  /\ UNCHANGED <<file, backup, keys, logins, started, overlapped>>

-----------------------------------------------------------------------------
(* run_profile_command, run_filter_command                                  *)

\* What is left to do with the credential manager once `n' lost its key.
AfterKeyOf(p, n) ==
  IF Now(p).profiles[n].key = "keyring"
  THEN [GoesTo(p, "deletingKey") EXCEPT !.name = n]
  ELSE Gone

\* --set-default, or the first profile.
Defaults(c, n) == {n} \cup (IF c.default = None THEN {} ELSE {c.default})

\* Mutants: a signed-in profile is replaced or removed like any other, and what
\* replaces a profile keeps its key.
MayDropSignedIn(c, n) == TRUE
NewProfileWithKey(c, n, a, k) ==
  [address |-> a, auth |-> None,
   key     |-> IF c.profiles[n].key = "keyring" THEN "keyring" ELSE k]

MayDrop(c, n) == c.profiles[n].auth = None
NewProfile(c, n, a, k) == [address |-> a, key |-> k, auth |-> None]

\* With --replace if there is one already.  Its key stays where it is.
Create(p, n, a, k) ==
  /\ At(p, "ready")
  /\ MayDrop(Now(p), n)
  /\ \E d \in Defaults(Now(p), n) :
       Save(p, [Now(p) EXCEPT !.profiles[n] = NewProfile(Now(p), n, a, k),
                              !.default = d], Gone)
  /\ UNCHANGED <<backup, keys, logins, started, overlapped>>

SetDefault(p, n) ==
  /\ At(p, "ready")
  /\ Exists(Now(p), n)
  /\ Save(p, [Now(p) EXCEPT !.default = n], Gone)
  /\ UNCHANGED <<backup, keys, logins, started, overlapped>>

Remove(p, n) ==
  /\ At(p, "ready")
  /\ Exists(Now(p), n)
  /\ MayDrop(Now(p), n)
  /\ Save(p, [Now(p) EXCEPT !.profiles[n] = Absent,
                            !.default = IF @ = n THEN None ELSE @],
             AfterKeyOf(p, n))
  /\ UNCHANGED <<backup, keys, logins, started, overlapped>>

ClearApiKey(p, n) ==
  /\ At(p, "ready")
  /\ Exists(Now(p), n)
  /\ Save(p, [Now(p) EXCEPT !.profiles[n].key = "none"], AfterKeyOf(p, n))
  /\ UNCHANGED <<backup, keys, logins, started, overlapped>>

\* Mutant: the key would be stored after the save, which may be too late.
KeysEnteredLater(n, a) == keys

KeysEntered(n, a) == [keys EXCEPT ![n] = a]

SetApiKey(p, n) ==
  /\ At(p, "ready")
  /\ Exists(Now(p), n)
  /\ Now(p).profiles[n].auth = None
  /\ keys' = KeysEntered(n, Now(p).profiles[n].address)
  /\ Becomes(p, [GoesTo(p, "savingKey") EXCEPT !.name = n])
  /\ UNCHANGED <<file, backup, logins, started, overlapped>>

SaveApiKey(p) ==
  /\ At(p, "savingKey")
  /\ Save(p, [Now(p) EXCEPT !.profiles[run[p].name].key = "keyring"], Gone)
  /\ UNCHANGED <<backup, keys, logins, started, overlapped>>

\* The save failed: the credential that was stored is taken back.
FailToSave(p, from, to) ==
  /\ At(p, from)
  /\ Becomes(p, GoesTo(p, to))
  /\ UNCHANGED <<file, backup, keys, logins, started, overlapped>>

\* In the undoing of SetApiKey also a key that was there before.
DeleteKey(p) ==
  /\ At(p, "undoingKey") \/ At(p, "deletingKey")
  /\ keys' = [keys EXCEPT ![run[p].name] = None]
  /\ Becomes(p, Gone)
  /\ UNCHANGED <<file, backup, logins, started, overlapped>>

ChangeFilters(p, f) ==
  /\ At(p, "ready")
  /\ Save(p, [Now(p) EXCEPT !.filters = IF f \in @ THEN @ \ {f} ELSE @ \cup {f}], Gone)
  /\ UNCHANGED <<backup, keys, logins, started, overlapped>>

-----------------------------------------------------------------------------
(* run_auth_command                                                         *)

\* AuthSession::login stores the refresh token, unless there is one already.
SignIn(p, n, u) ==
  /\ At(p, "ready")
  /\ Now(p).profiles[n].auth = None
  /\ Now(p).profiles[n].key = "none"
  /\ <<n, u>> \notin logins
  /\ logins' = logins \cup {<<n, u>>}
  /\ Becomes(p, [GoesTo(p, "savingLogin") EXCEPT !.name = n, !.account = u])
  /\ UNCHANGED <<file, backup, keys, started, overlapped>>

\* The address is the one that the auth server advertises.
SaveLogin(p, a) ==
  /\ At(p, "savingLogin")
  /\ LET n == run[p].name
     IN \E d \in Defaults(Now(p), n) :
          Save(p, [Now(p) EXCEPT
                     !.profiles[n] = [address |-> a, key |-> "none",
                                      auth |-> run[p].account],
                     !.default = d], Gone)
  /\ UNCHANGED <<backup, keys, logins, started, overlapped>>

\* The save failed: AuthSession::logout revokes and deletes what login stored.
UndoLogin(p) ==
  /\ At(p, "undoingLogin")
  /\ logins' = logins \ {<<run[p].name, run[p].account>>}
  /\ Becomes(p, Gone)
  /\ UNCHANGED <<file, backup, keys, started, overlapped>>

\* A login that is gone from the credential manager is only forgotten.
SignOut(p, n) ==
  /\ At(p, "ready")
  /\ Now(p).profiles[n].auth # None
  /\ logins' = logins \ {<<n, Now(p).profiles[n].auth>>}
  /\ Becomes(p, [GoesTo(p, "savingLogout") EXCEPT !.name = n])
  /\ UNCHANGED <<file, backup, keys, started, overlapped>>

SaveLogout(p) ==
  /\ At(p, "savingLogout")
  /\ Save(p, [Now(p) EXCEPT !.profiles[run[p].name].auth = None], Gone)
  /\ UNCHANGED <<backup, keys, logins, started, overlapped>>

-----------------------------------------------------------------------------
(* The specification *)

\* An old file: no logins yet, perhaps a key.
Legacy(n, a, k) ==
  [Empty EXCEPT !.legacy = TRUE, !.default = n,
                !.profiles[n] = [address |-> a, key |-> k, auth |-> None]]

Init ==
  /\ \E n \in Names, a \in Addresses, k \in {"none", "keyring"} :
       \/ /\ file = Legacy(n, a, k)
          /\ backup \in {NoBackup, Complete([Empty EXCEPT !.legacy = TRUE])}
          /\ keys = [m \in Names |-> IF m = n /\ k = "keyring" THEN a ELSE None]
       \/ /\ file = Empty
          /\ backup = NoBackup
          /\ keys = [m \in Names |-> None]
  /\ logins = {}
  /\ run = [p \in Processes |-> Gone]
  /\ started = 0
  /\ overlapped = FALSE

Opening(p) ==
  \/ Start(p)
  \/ Load(p)
  \/ CreateBackup(p) \/ WriteBackup(p) \/ FindBackup(p) \/ Migrate(p)
  \/ Quit(p)
  \/ \E n \in Names : Connect(p, n) \/ \E given \in BOOLEAN : Launch(p, n, given)

ProfileCommand(p) ==
  \/ \E n \in Names, a \in Addresses, k \in {"none", "env"} : Create(p, n, a, k)
  \/ \E n \in Names :
       SetDefault(p, n) \/ Remove(p, n) \/ ClearApiKey(p, n) \/ SetApiKey(p, n)
  \/ SaveApiKey(p)
  \/ FailToSave(p, "savingKey", "undoingKey")
  \/ DeleteKey(p)
  \/ \E f \in Filters : ChangeFilters(p, f)

AuthCommand(p) ==
  \/ \E n \in Names, u \in Accounts : SignIn(p, n, u)
  \/ \E a \in Addresses : SaveLogin(p, a)
  \/ FailToSave(p, "savingLogin", "undoingLogin")
  \/ UndoLogin(p)
  \/ \E n \in Names : SignOut(p, n)
  \/ SaveLogout(p)

Next == \E p \in Processes : Opening(p) \/ ProfileCommand(p) \/ AuthCommand(p)

Spec == Init /\ [][Next]_vars
-----------------------------------------------------------------------------
(* Properties *)

\* An old file is replaced only while its backup holds the very same contents,
\* also after crashes and with several processes that migrate at once
\* (docs/THREAT_MODEL.md:33).
BackupBeforeReplace == [][file.legacy /\ file' # file => backup = Complete(file)]_vars

\* A complete backup is never written again, also one of some other file
\* (docs/TROUBLESHOOTING.md:67, "the client never overwrites it").
BackupsAreKept == [][backup.state = "complete" => backup' = backup]_vars

\* As long as commands do not overlap, a profile that takes its key from the
\* credential manager gets one that was entered for its address, whatever was
\* created, replaced, signed in, cleared or cut short before.
KeyFitsAddress ==
  ~overlapped =>
    \A n \in Names : file.profiles[n].key = "keyring" /\ keys[n] # None
                       => keys[n] = file.profiles[n].address

Broken(n) == Exists(file, n) /\ ~Usable(file, n)

\* As long as commands do not overlap, a profile comes to refer to a credential
\* that is not there only in two places: a logout between its two writes, and
\* the undoing of `set-api-key', which also takes the key that was there before.
ProfilesStayUsable ==
  [][~overlapped' =>
       \A n \in Names :
         ~Broken(n) /\ Broken(n)' =>
           \E p \in Processes : run[p].step = "undoingKey" \/ run'[p].step = "savingLogout"]_vars

\* A login that no profile names and no command is about to name or to undo:
\* `auth login' refuses to replace it, `auth logout' does not find it.
Stranded(n, u) ==
  /\ <<n, u>> \in logins
  /\ file.profiles[n].auth # u
  /\ ~\E p \in Processes : /\ run[p].step \in {"savingLogin", "undoingLogin"}
                           /\ run[p].name = n
                           /\ run[p].account = u

\* As long as commands do not overlap, nothing but the end of `auth login'
\* between its writes, or a failure of its clean-up, strands a login: no other
\* command drops a profile that is signed in.
OnlyCutLoginStrands ==
  [][~overlapped' =>
       \A n \in Names, u \in Accounts :
         ~Stranded(n, u) /\ Stranded(n, u)' =>
           \E p \in Processes : /\ run[p].step \in {"savingLogin", "undoingLogin"}
                                /\ run'[p] = Gone]_vars
=============================================================================
