------------------------- MODULE ProfileStoreProofs -------------------------
(***************************************************************************)
(* Proofs about ProfileStore, for any number of processes, profiles,       *)
(* accounts and commands.  First the migration: it replaces the old file   *)
(* only when its backup is complete and the same, and no backup is written *)
(* twice.  Then the commands: profiles and credentials stay together.      *)
(***************************************************************************)
EXTENDS ProfileStore, TLAPS

\* What a process that migrates relies on.  The third conjunct is why an old
\* file cannot have become another old file meanwhile: saves only ever write
\* current ones.  The fourth: who works on a current copy found, or made, a
\* current file.
Sound(p) ==
  /\ At(p, "writingBackup") => backup = Partial
  /\ At(p, "replacing") => backup = Complete(Now(p))
  /\ Now(p).legacy /\ file.legacy => Now(p) = file
  /\ run[p].step \notin Migrating \cup {"gone", "loading"} => ~file.legacy

OneWriter ==
  \A p, q \in Processes : At(p, "writingBackup") /\ At(q, "writingBackup") => p = q

BackupInv == TypeOK /\ OneWriter /\ \A p \in Processes : Sound(p)

-----------------------------------------------------------------------------
(* Facts about the data                                                     *)

LEMMA BackupKinds ==
  ASSUME NEW c
  PROVE  Complete(c) # Partial /\ Complete(c) # NoBackup /\ Partial # NoBackup
         /\ Complete(c).state = "complete" /\ Partial.state # "complete"
BY DEF Complete, Partial, NoBackup

LEMMA EmptyTyped == Empty \in Config /\ ~Empty.legacy /\ Gone \in Process
  /\ Gone.step = "gone" /\ Gone.config = Empty
BY DEF Empty, Config, Gone, Process, Steps, Profile, Absent, KeySources

\* What commands do to a configuration yields one again.
LEMMA EditsTyped ==
  ASSUME NEW c \in Config, NEW n \in Names, NEW x \in Profile,
         NEW d \in Names \cup {None}, NEW F \in SUBSET Filters
  PROVE  /\ [c EXCEPT !.profiles[n] = x] \in Config
         /\ [c EXCEPT !.profiles[n] = x, !.default = d] \in Config
         /\ [c EXCEPT !.default = d] \in Config
         /\ [c EXCEPT !.filters = F] \in Config
         /\ [c EXCEPT !.legacy = FALSE] \in Config
BY DEF Config

-----------------------------------------------------------------------------
(* Steps that have the same effect on the invariant                         *)

LEMMA InitInv == Init => BackupInv
<1> SUFFICES ASSUME Init PROVE BackupInv
  OBVIOUS
<1>1. run = [p \in Processes |-> Gone]
  BY DEF Init
<1>2. file \in Config /\ backup \in Backup
  <2>1. ASSUME NEW n \in Names, NEW a \in Addresses, NEW k \in {"none", "keyring"}
        PROVE  Legacy(n, a, k) \in Config
    BY DEF Legacy, Empty, Config, Profile, Absent, KeySources
  <2>2. NoBackup \in Backup /\ Complete([Empty EXCEPT !.legacy = TRUE]) \in Backup
    BY EmptyTyped DEF NoBackup, Complete, Backup, Config
  <2> QED BY <2>1, <2>2, EmptyTyped DEF Init
<1>3. keys \in [Names -> Addresses \cup {None}] /\ logins \subseteq Names \X Accounts
  BY DEF Init
<1>4. TypeOK
  BY <1>1, <1>2, <1>3, EmptyTyped DEF TypeOK, Init, Migrating
<1>5. OneWriter /\ \A p \in Processes : Sound(p)
  BY <1>1, EmptyTyped DEF OneWriter, Sound, At, Now, Migrating
<1> QED BY <1>4, <1>5 DEF BackupInv

\* What every step keeps that is typed the same way in all of them.
Else ==
  /\ keys' \in [Names -> Addresses \cup {None}]
  /\ logins' \subseteq Names \X Accounts
  /\ started' \in Nat
  /\ overlapped' \in BOOLEAN

\* Once the file is a current one, a process with a current copy does no harm.
LEMMA CurrentStep ==
  ASSUME BackupInv, NEW p \in Processes, NEW r \in Process,
         Becomes(p, r), r.step \notin Migrating, ~r.config.legacy,
         file' \in Config, ~file'.legacy, backup' = backup, Else
  PROVE  BackupInv'
<1>1. run' \in [Processes -> Process] /\ \A q \in Processes : run'[q] = IF q = p THEN r ELSE run[q]
  BY DEF BackupInv, TypeOK, Becomes
<1>2. TypeOK'
  BY <1>1 DEF BackupInv, TypeOK, Else
<1>3. \A q \in Processes : At(q, "writingBackup")' \/ At(q, "replacing")' =>
        q # p /\ run'[q] = run[q]
  BY <1>1 DEF At, Migrating
<1>4. OneWriter' /\ \A q \in Processes : Sound(q)'
  BY <1>1, <1>3 DEF BackupInv, OneWriter, Sound, At, Now
<1> QED BY <1>2, <1>4 DEF BackupInv

\* A process that has no copy yet, or no longer, does no harm either.
LEMMA EmptyStep ==
  ASSUME BackupInv, NEW p \in Processes, NEW r \in Process,
         Becomes(p, r), r.step \in {"gone", "loading"}, ~r.config.legacy,
         file' = file, backup' = backup, Else
  PROVE  BackupInv'
<1>1. run' \in [Processes -> Process] /\ \A q \in Processes : run'[q] = IF q = p THEN r ELSE run[q]
  BY DEF BackupInv, TypeOK, Becomes
<1>2. r.step \notin Migrating
  BY DEF Migrating
<1>3. TypeOK'
  BY <1>1, <1>2 DEF BackupInv, TypeOK, Else
<1>4. \A q \in Processes : At(q, "writingBackup")' \/ At(q, "replacing")' =>
        q # p /\ run'[q] = run[q]
  BY <1>1, <1>2 DEF At, Migrating
<1>5. OneWriter' /\ \A q \in Processes : Sound(q)'
  BY <1>1, <1>2, <1>4 DEF BackupInv, OneWriter, Sound, At, Now
<1> QED BY <1>3, <1>5 DEF BackupInv

-----------------------------------------------------------------------------
(* Loading and migrating *)

LEMMA LoadInv ==
  ASSUME BackupInv, NEW p \in Processes, Load(p)
  PROVE  BackupInv'
<1> DEFINE r == [GoesTo(p, FirstStep) EXCEPT !.config = file]
<1>1. run[p] \in Process /\ file \in Config /\ file.legacy \in BOOLEAN
  BY DEF BackupInv, TypeOK, Config
<1>2. r \in Process /\ r.step = FirstStep /\ r.config = file
  BY <1>1 DEF GoesTo, FirstStep, Process, Steps, Migrating
<1>3. \A q \in Processes : run'[q] = IF q = p THEN r ELSE run[q]
  BY DEF BackupInv, TypeOK, Load, Becomes
<1>4. r.step \in {"backingUp", "ready"} /\ (file.legacy <=> r.step \in Migrating)
  BY <1>1, <1>2 DEF FirstStep, Migrating
<1>5. TypeOK'
  BY <1>2, <1>3, <1>4 DEF BackupInv, TypeOK, Load, Becomes
<1>6. OneWriter'
  BY <1>3, <1>4 DEF BackupInv, OneWriter, At
<1>7. \A q \in Processes : Sound(q)'
  BY <1>2, <1>3, <1>4 DEF BackupInv, Sound, At, Now, Load, Migrating
<1> QED BY <1>5, <1>6, <1>7 DEF BackupInv

\* A step of a process within a migration; what it needs of the backup is left
\* to the three cases.
LEMMA MigrationStep ==
  ASSUME BackupInv, NEW p \in Processes, NEW step \in Migrating,
         run[p].step \in Migrating,
         Becomes(p, GoesTo(p, step)), file' = file, backup' \in Backup,
         UNCHANGED <<keys, logins, started, overlapped>>
  PROVE  /\ TypeOK'
         /\ At(p, step)' /\ Now(p)' = Now(p)
         /\ \A q \in Processes \ {p} : run'[q] = run[q]
         /\ \A q \in Processes : run'[q].config = run[q].config
         /\ \A q \in Processes : Now(q).legacy /\ file.legacy => Now(q) = file
<1>1. run[p] \in Process /\ run[p].config.legacy
  BY DEF BackupInv, TypeOK
<1>2. GoesTo(p, step) \in Process /\ GoesTo(p, step).step = step
      /\ GoesTo(p, step).config = run[p].config
  BY <1>1 DEF GoesTo, Process, Steps
<1>3. run' \in [Processes -> Process]
      /\ \A q \in Processes : run'[q] = IF q = p THEN GoesTo(p, step) ELSE run[q]
  BY <1>2 DEF BackupInv, TypeOK, Becomes
<1>4. TypeOK'
  BY <1>1, <1>2, <1>3 DEF BackupInv, TypeOK
<1> QED BY <1>2, <1>3, <1>4 DEF BackupInv, Sound, At, Now

LEMMA CreateBackupInv ==
  ASSUME BackupInv, NEW p \in Processes, CreateBackup(p)
  PROVE  BackupInv' /\ backup.state # "complete"
<1>1. backup = NoBackup /\ backup' = Partial /\ file' = file /\ run[p].step \in Migrating
      /\ Partial \in Backup
  BY EmptyTyped DEF CreateBackup, Creatable, At, Migrating, Partial, Backup
<1>2. /\ TypeOK'
      /\ At(p, "writingBackup")'
      /\ \A q \in Processes \ {p} : run'[q] = run[q]
      /\ \A q \in Processes : run'[q].config = run[q].config
      /\ \A q \in Processes : Now(q).legacy /\ file.legacy => Now(q) = file
  BY <1>1, MigrationStep DEF CreateBackup, Migrating
<1>3. \A q \in Processes : ~At(q, "writingBackup") /\ ~At(q, "replacing")
  BY <1>1, BackupKinds DEF BackupInv, Sound
<1>4. OneWriter'
  BY <1>2, <1>3 DEF OneWriter, At
<1>5. \A q \in Processes : Sound(q)'
  BY <1>1, <1>2, <1>3 DEF BackupInv, Sound, At, Now, Migrating
<1>6. backup.state # "complete"
  BY <1>1 DEF NoBackup
<1> QED BY <1>2, <1>4, <1>5, <1>6 DEF BackupInv

LEMMA WriteBackupInv ==
  ASSUME BackupInv, NEW p \in Processes, WriteBackup(p)
  PROVE  BackupInv' /\ backup.state # "complete"
<1>1. backup = Partial /\ backup' = Complete(Now(p)) /\ file' = file
      /\ run[p].step \in Migrating /\ Now(p) \in Config
  BY DEF WriteBackup, BackupInv, Sound, At, Now, Migrating, TypeOK, Process
<1>2. backup' \in Backup
  BY <1>1 DEF Complete, Backup
<1>3. /\ TypeOK'
      /\ At(p, "replacing")' /\ Now(p)' = Now(p)
      /\ \A q \in Processes \ {p} : run'[q] = run[q]
      /\ \A q \in Processes : run'[q].config = run[q].config
      /\ \A q \in Processes : Now(q).legacy /\ file.legacy => Now(q) = file
  BY <1>1, <1>2, MigrationStep DEF WriteBackup, Migrating
<1>4. \A q \in Processes \ {p} : ~At(q, "writingBackup") /\ ~At(q, "replacing")
  BY <1>1, BackupKinds DEF BackupInv, Sound, OneWriter, WriteBackup
<1>5. OneWriter'
  BY <1>3, <1>4 DEF OneWriter, At
<1>6. \A q \in Processes : Sound(q)'
  BY <1>1, <1>3, <1>4 DEF BackupInv, Sound, At, Now, Migrating
<1>7. backup.state # "complete"
  BY <1>1, BackupKinds
<1> QED BY <1>3, <1>5, <1>6, <1>7 DEF BackupInv

\* A step that changes nothing but the process, for the lemmas above.
LEMMA ElseKept ==
  ASSUME BackupInv, UNCHANGED <<keys, logins, started, overlapped>>
  PROVE  Else
BY DEF BackupInv, TypeOK, Else

LEMMA FindBackupInv ==
  ASSUME BackupInv, NEW p \in Processes, FindBackup(p)
  PROVE  BackupInv'
<1>1. file' = file /\ backup' = backup /\ run[p].step \in Migrating /\ backup \in Backup
      /\ UNCHANGED <<keys, logins, started, overlapped>>
  BY DEF FindBackup, At, Migrating, BackupInv, TypeOK
<1>2. CASE ~IsOriginal(p)
  <2>1. Becomes(p, Gone)
    BY <1>2 DEF FindBackup
  <2> QED BY <1>1, <2>1, EmptyStep, EmptyTyped, ElseKept
<1>3. CASE IsOriginal(p)
  <2>1. Becomes(p, GoesTo(p, "replacing")) /\ backup = Complete(Now(p))
    BY <1>3 DEF FindBackup, IsOriginal
  <2>2. /\ TypeOK'
        /\ At(p, "replacing")' /\ Now(p)' = Now(p)
        /\ \A q \in Processes \ {p} : run'[q] = run[q]
        /\ \A q \in Processes : run'[q].config = run[q].config
        /\ \A q \in Processes : Now(q).legacy /\ file.legacy => Now(q) = file
    BY <1>1, <2>1, MigrationStep DEF Migrating
  <2>3. OneWriter'
    BY <2>2 DEF BackupInv, OneWriter, At
  <2>4. \A q \in Processes : Sound(q)'
    BY <1>1, <2>1, <2>2 DEF BackupInv, Sound, At, Now, Migrating
  <2> QED BY <2>2, <2>3, <2>4 DEF BackupInv
<1> QED BY <1>2, <1>3

LEMMA SaveInv ==
  ASSUME BackupInv, NEW p \in Processes, NEW c \in Config, NEW r \in Process,
         r.step \notin Migrating, Save(p, c, r), backup' = backup, Else
  PROVE  BackupInv'
<1> DEFINE x == [r EXCEPT !.config = IF r = Gone THEN Empty ELSE c]
<1>1. ~c.legacy /\ file' = c /\ Becomes(p, x)
  BY DEF Save, Valid
<1>2. x \in Process /\ x.step = r.step /\ ~x.config.legacy
  BY <1>1, EmptyTyped DEF Process
<1> QED BY <1>1, <1>2, CurrentStep

LEMMA MigrateInv ==
  ASSUME BackupInv, NEW p \in Processes, Migrate(p)
  PROVE  BackupInv'
<1> DEFINE c == Migrated(Now(p))
           r == GoesTo(p, "ready")
<1>1. run[p] \in Process /\ Now(p) \in Config
  BY DEF BackupInv, TypeOK, Now, Process
<1>2. c \in Config
  BY <1>1 DEF Config, Migrated
<1>3. r \in Process /\ r.step \notin Migrating
  BY <1>1 DEF GoesTo, Process, Steps, Migrating
<1> QED BY <1>2, <1>3, SaveInv, ElseKept DEF Migrate

LEMMA QuitInv ==
  ASSUME BackupInv, NEW p \in Processes, Becomes(p, Gone),
         UNCHANGED <<file, backup, keys, logins, started, overlapped>>
  PROVE  BackupInv'
<1>1. Becomes(p, Gone) /\ file' = file /\ backup' = backup /\ Else
  BY ElseKept
<1> QED BY <1>1, EmptyStep, EmptyTyped

LEMMA StartInv ==
  ASSUME BackupInv, NEW p \in Processes, Start(p)
  PROVE  BackupInv'
<1> DEFINE r == GoesTo(p, "loading")
<1>1. run[p] \in Process /\ ~run[p].config.legacy /\ run[p].step = "gone"
  BY DEF BackupInv, TypeOK, Start, At, Migrating
<1>2. r \in Process /\ r.step = "loading" /\ r.config = run[p].config
  BY <1>1 DEF GoesTo, Process, Steps
<1>3. Becomes(p, r) /\ file' = file /\ backup' = backup
  BY DEF Start
<1>4. Else
  BY DEF Else, Start, BackupInv, TypeOK
<1> QED BY <1>1, <1>2, <1>3, <1>4, EmptyStep

-----------------------------------------------------------------------------
(* The commands *)

\* A process goes on after loading without touching the file.
LEMMA GoOnInv ==
  ASSUME BackupInv, NEW p \in Processes,
         NEW step \in Steps \ (Migrating \cup {"gone", "loading"}),
         NEW n \in Names \cup {None}, NEW u \in Accounts \cup {None},
         run[p].step \notin Migrating \cup {"gone", "loading"},
         Becomes(p, [run[p] EXCEPT !.step = step, !.name = n, !.account = u]),
         file' = file, backup' = backup, Else
  PROVE  BackupInv'
<1> DEFINE r == [run[p] EXCEPT !.step = step, !.name = n, !.account = u]
<1>1. run[p] \in Process /\ ~run[p].config.legacy /\ file \in Config /\ ~file.legacy
  BY DEF BackupInv, TypeOK, Sound
<1>2. r \in Process /\ r.step = step /\ r.config = run[p].config
  BY <1>1 DEF Process
<1> QED BY <1>1, <1>2, CurrentStep

\* The command ends, or fails, without touching the file.
LEMMA EndInv ==
  ASSUME BackupInv, NEW p \in Processes,
         Becomes(p, Gone), file' = file, backup' = backup, Else
  PROVE  BackupInv'
BY EmptyStep, EmptyTyped

LEMMA AfterKeyTyped ==
  ASSUME BackupInv, NEW p \in Processes, NEW n \in Names
  PROVE  AfterKeyOf(p, n) \in Process /\ AfterKeyOf(p, n).step \notin Migrating
<1>1. run[p] \in Process
  BY DEF BackupInv, TypeOK
<1>2. [GoesTo(p, "deletingKey") EXCEPT !.name = n] \in Process
      /\ [GoesTo(p, "deletingKey") EXCEPT !.name = n].step = "deletingKey"
  BY <1>1 DEF GoesTo, Process, Steps
<1> QED BY <1>2, EmptyTyped DEF AfterKeyOf, Migrating

LEMMA ProfileCommandInv ==
  ASSUME BackupInv, NEW p \in Processes, ProfileCommand(p)
  PROVE  BackupInv'
<1> DEFINE c == Now(p)
<1>1. run[p] \in Process /\ c \in Config
  BY DEF BackupInv, TypeOK, Now, Process
<1>2. c.default \in Names \cup {None} /\ c.profiles \in [Names -> Profile]
      /\ c.filters \subseteq Filters
  BY <1>1 DEF Config
<1>3. Gone \in Process /\ Gone.step \notin Migrating
  BY EmptyTyped DEF Migrating
<1>4. ASSUME NEW n \in Names, NEW a \in Addresses, NEW k \in {"none", "env"}, Create(p, n, a, k)
      PROVE  BackupInv'
  <2>1. NewProfile(c, n, a, k) \in Profile
    BY DEF NewProfile, Profile, KeySources
  <2>2. Defaults(c, n) \subseteq Names \cup {None}
    BY <1>2 DEF Defaults
  <2>3. PICK d \in Defaults(c, n) :
          Save(p, [c EXCEPT !.profiles[n] = NewProfile(c, n, a, k), !.default = d], Gone)
    BY <1>4 DEF Create
  <2>4. backup' = backup /\ Else
    BY <1>4, ElseKept DEF Create
  <2>5. [c EXCEPT !.profiles[n] = NewProfile(c, n, a, k), !.default = d] \in Config
    BY <1>1, <2>1, <2>2, EditsTyped
  <2> QED BY <1>3, <2>3, <2>4, <2>5, SaveInv
<1>5. ASSUME NEW n \in Names, SetDefault(p, n)
      PROVE  BackupInv'
  <2>1. [c EXCEPT !.default = n] \in Config
    BY <1>1 DEF Config
  <2> QED BY <1>3, <1>5, <2>1, SaveInv, ElseKept DEF SetDefault
<1>6. ASSUME NEW n \in Names, Remove(p, n)
      PROVE  BackupInv'
  <2> DEFINE d == IF c.default = n THEN None ELSE c.default
  <2>1. Absent \in Profile /\ d \in Names \cup {None}
    BY <1>2 DEF Absent, Profile, KeySources
  <2>2. [c EXCEPT !.profiles[n] = Absent, !.default = d] \in Config
    BY <1>1, <2>1, EditsTyped
  <2>3. [c EXCEPT !.profiles[n] = Absent, !.default = IF @ = n THEN None ELSE @]
          = [c EXCEPT !.profiles[n] = Absent, !.default = d]
    BY <1>1 DEF Config
  <2>4. Save(p, [c EXCEPT !.profiles[n] = Absent, !.default = d], AfterKeyOf(p, n))
    BY <1>6, <2>3 DEF Remove
  <2>5. backup' = backup /\ Else
    BY <1>6, ElseKept DEF Remove
  <2> QED BY <2>2, <2>4, <2>5, SaveInv, AfterKeyTyped
<1>7. ASSUME NEW n \in Names, ClearApiKey(p, n)
      PROVE  BackupInv'
  <2>1. [c EXCEPT !.profiles[n].key = "none"] \in Config
    BY <1>1 DEF Config, Profile, KeySources
  <2>2. backup' = backup /\ Else
    BY <1>7, ElseKept DEF ClearApiKey
  <2> QED BY <1>7, <2>1, <2>2, SaveInv, AfterKeyTyped DEF ClearApiKey
<1>8. ASSUME NEW n \in Names, SetApiKey(p, n)
      PROVE  BackupInv'
  <2>1. c.profiles[n].address \in Addresses \cup {None}
    BY <1>2 DEF Profile
  <2>2. Else
    BY <1>8, <2>1 DEF Else, SetApiKey, KeysEntered, BackupInv, TypeOK
  <2>3. run[p].account \in Accounts \cup {None}
    BY <1>1 DEF Process
  <2>4. Becomes(p, [run[p] EXCEPT !.step = "savingKey", !.name = n, !.account = run[p].account])
        /\ run[p].step = "ready" /\ file' = file /\ backup' = backup
    BY <1>1, <1>8 DEF SetApiKey, GoesTo, At, Process
  <2> QED BY <2>2, <2>3, <2>4, GoOnInv DEF Steps, Migrating
<1>9. ASSUME SaveApiKey(p)
      PROVE  BackupInv'
  <2>1. [c EXCEPT !.profiles[run[p].name].key = "keyring"] \in Config
    BY <1>1 DEF Config, Profile, KeySources
  <2> QED BY <1>3, <1>9, <2>1, SaveInv, ElseKept DEF SaveApiKey
<1>10. ASSUME FailToSave(p, "savingKey", "undoingKey")
       PROVE  BackupInv'
  <2>1. run[p].name \in Names \cup {None} /\ run[p].account \in Accounts \cup {None}
    BY <1>1 DEF Process
  <2>2. Becomes(p, [run[p] EXCEPT !.step = "undoingKey", !.name = run[p].name,
                                  !.account = run[p].account])
        /\ run[p].step = "savingKey" /\ file' = file /\ backup' = backup
    BY <1>1, <1>10 DEF FailToSave, GoesTo, At, Process
  <2>3. Else
    BY <1>10, ElseKept DEF FailToSave
  <2> QED BY <2>1, <2>2, <2>3, GoOnInv DEF Steps, Migrating
<1>11. ASSUME DeleteKey(p)
       PROVE  BackupInv'
  <2>1. Else
    BY <1>11 DEF Else, DeleteKey, BackupInv, TypeOK
  <2> QED BY <1>11, <2>1, EndInv DEF DeleteKey
<1>12. ASSUME NEW f \in Filters, ChangeFilters(p, f)
       PROVE  BackupInv'
  <2> DEFINE F == IF f \in c.filters THEN c.filters \ {f} ELSE c.filters \cup {f}
  <2>1. F \in SUBSET Filters
    BY <1>2
  <2>2. [c EXCEPT !.filters = F] \in Config
    BY <1>1, <2>1 DEF Config
  <2>3. Save(p, [c EXCEPT !.filters = F], Gone)
    BY <1>1, <1>12 DEF ChangeFilters, Config
  <2>4. backup' = backup /\ Else
    BY <1>12, ElseKept DEF ChangeFilters
  <2> QED BY <1>3, <2>2, <2>3, <2>4, SaveInv
<1> QED BY <1>4, <1>5, <1>6, <1>7, <1>8, <1>9, <1>10, <1>11, <1>12 DEF ProfileCommand

LEMMA AuthCommandInv ==
  ASSUME BackupInv, NEW p \in Processes, AuthCommand(p)
  PROVE  BackupInv'
<1> DEFINE c == Now(p)
<1>1. run[p] \in Process /\ c \in Config
  BY DEF BackupInv, TypeOK, Now, Process
<1>2. /\ c.default \in Names \cup {None} /\ c.profiles \in [Names -> Profile]
      /\ run[p].name \in Names \cup {None} /\ run[p].account \in Accounts \cup {None}
  BY <1>1 DEF Config, Process
<1>3. Gone \in Process /\ Gone.step \notin Migrating
  BY EmptyTyped DEF Migrating
<1>4. ASSUME NEW n \in Names, NEW u \in Accounts, SignIn(p, n, u)
      PROVE  BackupInv'
  <2>1. Else
    BY <1>4 DEF Else, SignIn, BackupInv, TypeOK
  <2>2. Becomes(p, [run[p] EXCEPT !.step = "savingLogin", !.name = n, !.account = u])
        /\ run[p].step = "ready" /\ file' = file /\ backup' = backup
    BY <1>1, <1>4 DEF SignIn, GoesTo, At, Process
  <2> QED BY <2>1, <2>2, GoOnInv DEF Steps, Migrating
<1>5. ASSUME NEW a \in Addresses, SaveLogin(p, a)
      PROVE  BackupInv'
  <2> DEFINE n == run[p].name
             x == [address |-> a, key |-> "none", auth |-> run[p].account]
  <2>1. x \in Profile
    BY <1>2 DEF Profile, KeySources
  <2>2. PICK d \in Defaults(c, n) : Save(p, [c EXCEPT !.profiles[n] = x, !.default = d], Gone)
    BY <1>5 DEF SaveLogin
  <2>3. d \in Names \cup {None}
    BY <1>2 DEF Defaults
  <2>4. [c EXCEPT !.profiles[n] = x, !.default = d] \in Config
    BY <1>1, <2>1, <2>3 DEF Config
  <2>5. backup' = backup /\ Else
    BY <1>5, ElseKept DEF SaveLogin
  <2> QED BY <1>3, <2>2, <2>4, <2>5, SaveInv
<1>6. ASSUME FailToSave(p, "savingLogin", "undoingLogin")
      PROVE  BackupInv'
  <2>1. Becomes(p, [run[p] EXCEPT !.step = "undoingLogin", !.name = run[p].name,
                                  !.account = run[p].account])
        /\ run[p].step = "savingLogin" /\ file' = file /\ backup' = backup
    BY <1>1, <1>6 DEF FailToSave, GoesTo, At, Process
  <2>2. Else
    BY <1>6, ElseKept DEF FailToSave
  <2> QED BY <1>2, <2>1, <2>2, GoOnInv DEF Steps, Migrating
<1>7. ASSUME UndoLogin(p)
      PROVE  BackupInv'
  <2>1. Else
    BY <1>7 DEF Else, UndoLogin, BackupInv, TypeOK
  <2> QED BY <1>7, <2>1, EndInv DEF UndoLogin
<1>8. ASSUME NEW n \in Names, SignOut(p, n)
      PROVE  BackupInv'
  <2>1. Else
    BY <1>8 DEF Else, SignOut, BackupInv, TypeOK
  <2>2. Becomes(p, [run[p] EXCEPT !.step = "savingLogout", !.name = n, !.account = run[p].account])
        /\ run[p].step = "ready" /\ file' = file /\ backup' = backup
    BY <1>1, <1>8 DEF SignOut, GoesTo, At, Process
  <2> QED BY <1>2, <2>1, <2>2, GoOnInv DEF Steps, Migrating
<1>9. ASSUME SaveLogout(p)
      PROVE  BackupInv'
  <2>1. [c EXCEPT !.profiles[run[p].name].auth = None] \in Config
    BY <1>1 DEF Config, Profile
  <2> QED BY <1>3, <1>9, <2>1, SaveInv, ElseKept DEF SaveLogout
<1> QED BY <1>4, <1>5, <1>6, <1>7, <1>8, <1>9 DEF AuthCommand

-----------------------------------------------------------------------------
(* The theorems *)

LEMMA StepInv == BackupInv /\ [Next]_vars => BackupInv'
<1> SUFFICES ASSUME BackupInv, [Next]_vars PROVE BackupInv'
  OBVIOUS
<1>1. CASE UNCHANGED vars
  BY <1>1 DEF BackupInv, TypeOK, OneWriter, Sound, At, Now, vars
<1>2. CASE Next
  <2>1. PICK p \in Processes : Opening(p) \/ ProfileCommand(p) \/ AuthCommand(p)
    BY <1>2 DEF Next
  <2> QED BY <2>1, StartInv, LoadInv, CreateBackupInv, WriteBackupInv, FindBackupInv,
             MigrateInv, QuitInv, ProfileCommandInv, AuthCommandInv
             DEF Opening, Quit, Connect, Launch
<1> QED BY <1>1, <1>2

LEMMA SpecInv == Spec => []BackupInv
BY InitInv, StepInv, PTL DEF Spec

\* The variables keep their types; a copy of an old schema is never worked on
\* (the match on schema_version in ConfigStore::load).
THEOREM TypeCorrect == Spec => []TypeOK
<1>1. BackupInv => TypeOK
  BY DEF BackupInv
<1> QED BY <1>1, SpecInv, PTL

\* Only a migration, or a command that loaded the file as a current one, writes
\* the file; while it is an old one, that is a migration, of this very file.
LEMMA OldFileStep ==
  ASSUME BackupInv, Next, file.legacy, file' # file
  PROVE  backup = Complete(file)
<1>1. PICK p \in Processes : Opening(p) \/ ProfileCommand(p) \/ AuthCommand(p)
  BY DEF Next
<1>2. run[p].step \in Migrating \cup {"gone", "loading"}
  BY DEF BackupInv, Sound
<1>3. ~(ProfileCommand(p) \/ AuthCommand(p))
  BY <1>2 DEF ProfileCommand, AuthCommand, Create, SetDefault, Remove, ClearApiKey,
       SetApiKey, SaveApiKey, FailToSave, DeleteKey, ChangeFilters, SignIn, SaveLogin,
       UndoLogin, SignOut, SaveLogout, At, Migrating
<1>4. Migrate(p)
  BY <1>1, <1>3 DEF Opening, Start, Load, CreateBackup, WriteBackup, FindBackup, Quit,
       Connect, Launch
<1>5. backup = Complete(Now(p)) /\ Now(p).legacy
  BY <1>4 DEF Migrate, BackupInv, TypeOK, Sound, At, Now, Migrating
<1>6. Now(p) = file
  BY <1>5 DEF BackupInv, Sound
<1> QED BY <1>5, <1>6

\* However many processes migrate at once, and wherever they die, an old file is
\* replaced only while its backup is complete and the same
\* (save_migration_backup before save).
THEOREM BackupBeforeReplaceHolds == Spec => BackupBeforeReplace
<1>1. BackupInv /\ [Next]_vars
        => [file.legacy /\ file' # file => backup = Complete(file)]_vars
  BY OldFileStep DEF vars
<1> QED BY <1>1, SpecInv, PTL DEF Spec, BackupBeforeReplace

LEMMA CompleteBackupStep ==
  ASSUME BackupInv, Next, backup.state = "complete"
  PROVE  backup' = backup
<1>1. PICK p \in Processes : Opening(p) \/ ProfileCommand(p) \/ AuthCommand(p)
  BY DEF Next
<1>2. ~CreateBackup(p) /\ ~WriteBackup(p)
  BY CreateBackupInv, WriteBackupInv
<1>3. CASE Opening(p)
  BY <1>2, <1>3 DEF Opening, Start, Load, FindBackup, Migrate, Quit,
       Connect, Launch
<1>4. CASE ProfileCommand(p)
  BY <1>4 DEF ProfileCommand, Create, SetDefault, Remove, ClearApiKey, SetApiKey,
       SaveApiKey, FailToSave, DeleteKey, ChangeFilters
<1>5. CASE AuthCommand(p)
  BY <1>5 DEF AuthCommand, SignIn, SaveLogin, FailToSave, UndoLogin, SignOut, SaveLogout
<1> QED BY <1>1, <1>3, <1>4, <1>5

\* A complete backup, also one of another file, is never written again: a
\* writer knows it is the only one, and that its backup is not complete.
THEOREM BackupsAreKeptHolds == Spec => BackupsAreKept
<1>1. BackupInv /\ [Next]_vars => [backup.state = "complete" => backup' = backup]_vars
  BY CompleteBackupStep DEF vars
<1> QED BY <1>1, SpecInv, PTL DEF Spec, BackupsAreKept
-----------------------------------------------------------------------------
(***************************************************************************)
(* The commands, for any number of processes, profiles, accounts and       *)
(* commands: as long as no two overlap, profiles and credentials stay      *)
(* together.                                                               *)
(***************************************************************************)
Alone == \A p, q \in Processes : ~At(p, "gone") /\ ~At(q, "gone") => p = q

LoginSteps == {"savingLogin", "undoingLogin"}
NamedSteps == {"savingKey", "undoingKey", "deletingKey", "savingLogout"} \cup LoginSteps

\* The profile that a process is about, as it is in the file.
Its(p) == file.profiles[run[p].name]

\* What a command that is alone knows: its copy is the file, and the credential
\* manager holds what it put there, and no longer what it removed.
Knows(p) ==
  /\ run[p].step \notin {"gone", "loading"} => Now(p) = file
  /\ run[p].step \in NamedSteps => run[p].name \in Names
  /\ At(p, "savingKey") => Its(p).address # None /\ keys[run[p].name] = Its(p).address
  /\ At(p, "deletingKey") => Its(p).key # "keyring"
  /\ run[p].step \in LoginSteps => run[p].account \in Accounts /\ Its(p).auth = None
  /\ At(p, "savingLogin") => <<run[p].name, run[p].account>> \in logins
  /\ At(p, "savingLogout") => <<run[p].name, Its(p).auth>> \notin logins

\* A login that is not named by its profile, nor by the one process that runs.
Loose(p, n, u) ==
  /\ <<n, u>> \in logins
  /\ file.profiles[n].auth # u
  /\ ~(run[p].step \in LoginSteps /\ run[p].name = n /\ run[p].account = u)

\* What a step of the one process that runs does: it keeps what the process
\* knows and that keys fit, and breaks a profile or loses sight of a login only
\* at the named places.
Effect(p) ==
  /\ Knows(p)' /\ KeyFitsAddress'
  /\ \A n \in Names :
       ~Broken(n) /\ Broken(n)' => At(p, "undoingKey") \/ run'[p].step = "savingLogout"
  /\ \A n \in Names, u \in Accounts :
       ~Loose(p, n, u) /\ Loose(p, n, u)' => run[p].step \in LoginSteps /\ run'[p] = Gone

CommandInv ==
  /\ BackupInv
  /\ KeyFitsAddress
  /\ ~overlapped => Alone /\ \A p \in Processes : Knows(p)

-----------------------------------------------------------------------------
(* Steps of the one process that runs                                       *)

LEMMA CommandInit == Init => CommandInv
<1> SUFFICES ASSUME Init PROVE CommandInv
  OBVIOUS
<1>1. BackupInv
  BY InitInv
<1>2. \A p \in Processes : run[p].step = "gone"
  BY EmptyTyped DEF Init
<1>3. Alone /\ \A p \in Processes : Knows(p)
  BY <1>2 DEF Alone, Knows, At, NamedSteps, LoginSteps
<1>4. KeyFitsAddress
  <2>1. ASSUME NEW n \in Names, NEW a \in Addresses, NEW k \in {"none", "keyring"},
               file = Legacy(n, a, k),
               keys = [m \in Names |-> IF m = n /\ k = "keyring" THEN a ELSE None]
        PROVE  KeyFitsAddress
    BY <2>1 DEF KeyFitsAddress, Legacy, Empty, Absent
  <2>2. ASSUME file = Empty PROVE KeyFitsAddress
    BY <2>2 DEF KeyFitsAddress, Empty, Absent
  <2> QED BY <2>1, <2>2 DEF Init
<1> QED BY <1>1, <1>3, <1>4 DEF CommandInv

LEMMA Typed ==
  ASSUME BackupInv, NEW p \in Processes
  PROVE  /\ run[p] \in Process /\ run \in [Processes -> Process]
         /\ file \in Config /\ file.profiles \in [Names -> Profile]
         /\ keys \in [Names -> Addresses \cup {None}]
         /\ logins \subseteq Names \X Accounts
         /\ \A n \in Names : file.profiles[n] \in Profile
  BY DEF BackupInv, TypeOK, Config

LEMMA SaveFacts ==
  ASSUME BackupInv, NEW p \in Processes, NEW c, NEW r, Save(p, c, r)
  PROVE  /\ file' = c
         /\ r = Gone => run'[p] = Gone
         /\ r # Gone => run'[p] = [r EXCEPT !.config = c]
<1>1. [Gone EXCEPT !.config = Empty] = Gone
  BY DEF Gone
<1>2. file' = c /\ run' = [run EXCEPT ![p] = [r EXCEPT !.config = IF r = Gone THEN Empty ELSE c]]
  BY DEF Save, Becomes
<1> QED BY <1>1, <1>2, Typed

LEMMA EndKnows ==
  ASSUME NEW p \in Processes, run'[p].step \in {"gone", "loading"}
  PROVE  Knows(p)'
  BY DEF Knows, At, NamedSteps, LoginSteps

\* Profiles and credentials stay as they are.
LEMMA QuietEffect ==
  ASSUME CommandInv, NEW p \in Processes, ~overlapped, Knows(p)',
         file'.profiles = file.profiles, UNCHANGED <<keys, logins, overlapped>>,
         run[p].step \in LoginSteps =>
           \/ run'[p] = Gone
           \/ /\ run'[p].step \in LoginSteps
              /\ run'[p].name = run[p].name /\ run'[p].account = run[p].account
  PROVE  Effect(p)
<1>1. KeyFitsAddress'
  BY DEF CommandInv, KeyFitsAddress
<1>2. \A n \in Names : Broken(n)' => Broken(n)
  BY DEF Broken, Exists, Usable, HasKey, HasLogin
<1>3. \A n \in Names, u \in Accounts :
        ~Loose(p, n, u) /\ Loose(p, n, u)' => run[p].step \in LoginSteps /\ run'[p] = Gone
  BY DEF Loose
<1> QED BY <1>1, <1>2, <1>3 DEF Effect

LEMMA OpeningEffect ==
  ASSUME CommandInv, NEW p \in Processes, Opening(p), ~overlapped'
  PROVE  Effect(p)
<1>1. BackupInv /\ run[p] \in Process /\ ~overlapped
  BY Typed DEF CommandInv, BackupInv, TypeOK, Opening, Start, Load, CreateBackup, WriteBackup,
       FindBackup, Migrate, Quit, Connect, Launch
<1>2. Knows(p)
  BY <1>1 DEF CommandInv
<1>3. Gone.step = "gone"
  BY EmptyTyped
<1>4. CASE Start(p)
  <2>1. run'[p] = GoesTo(p, "loading") /\ UNCHANGED <<file, keys, logins>> /\ At(p, "gone")
    BY <1>1, <1>4, Typed DEF Start, Becomes
  <2>2. run'[p].step = "loading" /\ run[p].step = "gone" /\ overlapped' = overlapped
    BY <1>1, <1>4, <2>1 DEF GoesTo, Process, At, Start, CommandInv, BackupInv, TypeOK
  <2> QED BY <1>1, <2>1, <2>2, EndKnows, QuietEffect DEF LoginSteps
<1>5. CASE Load(p)
  <2>1. /\ run'[p] = [GoesTo(p, FirstStep) EXCEPT !.config = file]
        /\ UNCHANGED <<file, keys, logins, overlapped>> /\ run[p].step = "loading"
    BY <1>1, <1>5, Typed DEF Load, Becomes, At
  <2>2. run'[p].step \in {"backingUp", "ready"} /\ run'[p].config = file
    BY <1>1, <2>1 DEF GoesTo, Process, FirstStep
  <2>3. Knows(p)'
    BY <2>1, <2>2 DEF Knows, At, Now, NamedSteps, LoginSteps
  <2> QED BY <1>1, <2>1, <2>3, QuietEffect DEF LoginSteps
<1>6. ASSUME NEW step \in {"writingBackup", "replacing"}, run[p].step \in Migrating,
             Becomes(p, GoesTo(p, step)), UNCHANGED <<file, keys, logins, overlapped>>
      PROVE  Effect(p)
  <2>1. run'[p].step = step /\ run'[p].config = run[p].config
    BY <1>1, <1>6, Typed DEF Becomes, GoesTo, Process
  <2>2. Knows(p)'
    BY <1>2, <1>6, <2>1 DEF Knows, At, Now, NamedSteps, LoginSteps, Migrating
  <2> QED BY <1>1, <1>6, <2>2, QuietEffect DEF LoginSteps, Migrating
<1>7. ASSUME Becomes(p, Gone), UNCHANGED <<file, keys, logins, overlapped>>
      PROVE  Effect(p)
  <2>1. run'[p] = Gone
    BY <1>1, <1>7, Typed DEF Becomes
  <2> QED BY <1>1, <1>3, <1>7, <2>1, EndKnows, QuietEffect
<1>8. CASE CreateBackup(p)
  BY <1>6, <1>8 DEF CreateBackup, At, Migrating
<1>9. CASE WriteBackup(p)
  BY <1>6, <1>9 DEF WriteBackup, At, Migrating
<1>10. CASE FindBackup(p)
  BY <1>6, <1>7, <1>10 DEF FindBackup, At, Migrating
<1>11. CASE Migrate(p)
  <2>1. Now(p) = file /\ run[p].step = "replacing"
    BY <1>2, <1>11 DEF Knows, Migrate, At
  <2>2. Migrated(file).profiles = file.profiles
    BY <1>1, Typed DEF Migrated, Config
  <2>3. GoesTo(p, "ready") # Gone /\ GoesTo(p, "ready").step = "ready" /\ GoesTo(p, "ready") \in Process
    BY <1>1, <1>3 DEF GoesTo, Process, Steps
  <2>4. /\ file' = Migrated(file) /\ run'[p] = [GoesTo(p, "ready") EXCEPT !.config = Migrated(file)]
        /\ UNCHANGED <<keys, logins, overlapped>>
    BY <1>1, <1>11, <2>1, <2>3, SaveFacts DEF Migrate
  <2>5. run'[p].step = "ready" /\ run'[p].config = file'
    BY <2>3, <2>4 DEF Process
  <2>6. Knows(p)'
    BY <2>5 DEF Knows, At, Now, NamedSteps, LoginSteps
  <2> QED BY <1>1, <2>1, <2>2, <2>4, <2>6, QuietEffect DEF LoginSteps
<1>12. CASE Quit(p)
  BY <1>7, <1>12 DEF Quit
<1>13. ASSUME NEW n \in Names, Connect(p, n) \/ \E given \in BOOLEAN : Launch(p, n, given)
       PROVE  Effect(p)
  BY <1>7, <1>13 DEF Connect, Launch
<1> QED BY <1>4, <1>5, <1>8, <1>9, <1>10, <1>11, <1>12, <1>13 DEF Opening

\* The save of a command that is ready or in the middle: the copy that is edited
\* is the file.
LEMMA CopyIsFile ==
  ASSUME CommandInv, NEW p \in Processes, ~overlapped, run[p].step \notin {"gone", "loading"}
  PROVE  Now(p) = file
  BY DEF CommandInv, Knows

\* A command that saves the profile `n' anew and ends or goes on to the key.
LEMMA ProfileEffect ==
  ASSUME CommandInv, NEW p \in Processes, ~overlapped, Knows(p)',
         NEW n \in Names, NEW x \in Profile,
         file'.profiles = [file.profiles EXCEPT ![n] = x],
         UNCHANGED <<keys, logins, overlapped>>,
         x.key = "keyring" /\ keys[n] # None => keys[n] = x.address,
         ~Broken(n) /\ x.address # None =>
           /\ x.key = "keyring" => keys[n] # None
           /\ x.auth # None => <<n, x.auth>> \in logins,
         file.profiles[n].auth # x.auth => <<n, file.profiles[n].auth>> \notin logins,
         run[p].step \in LoginSteps => run[p].name = n /\ run[p].account = x.auth
  PROVE  Effect(p)
<1>1. /\ file'.profiles[n] = x
      /\ \A m \in Names : m # n => file'.profiles[m] = file.profiles[m]
  BY Typed DEF CommandInv
<1>2. KeyFitsAddress'
  BY <1>1 DEF CommandInv, KeyFitsAddress
<1>3. \A m \in Names : ~Broken(m) /\ Broken(m)' => FALSE
  BY <1>1 DEF Broken, Exists, Usable, HasKey, HasLogin
<1>4. \A m \in Names, u \in Accounts : ~Loose(p, m, u) /\ Loose(p, m, u)' => FALSE
  BY <1>1 DEF Loose
<1> QED BY <1>2, <1>3, <1>4 DEF Effect

LEMMA CreateEffect ==
  ASSUME CommandInv, NEW p \in Processes, ~overlapped,
         NEW n \in Names, NEW a \in Addresses, NEW k \in {"none", "env"}, Create(p, n, a, k)
  PROVE  Effect(p)
<1> DEFINE x == NewProfile(file, n, a, k)
<1>1. BackupInv /\ run[p].step = "ready" /\ Now(p) = file
  BY CopyIsFile DEF CommandInv, Create, At
<1>2. PICK d \in Defaults(file, n) :
        Save(p, [file EXCEPT !.profiles[n] = x, !.default = d], Gone)
  BY <1>1 DEF Create
<1>3. /\ file' = [file EXCEPT !.profiles[n] = x, !.default = d]
      /\ run'[p] = Gone
  BY <1>1, <1>2, SaveFacts
<1>4. /\ file'.profiles = [file.profiles EXCEPT ![n] = x]
      /\ file.profiles[n].auth = None /\ UNCHANGED <<keys, logins, overlapped>>
  BY <1>1, <1>3, Typed DEF Config, Create, MayDrop
<1>5. x \in Profile /\ x.key # "keyring" /\ x.auth = None
  BY DEF NewProfile, Profile, KeySources
<1>6. Knows(p)'
  BY <1>3, EndKnows, EmptyTyped
<1>7. file.profiles[n].auth = x.auth /\ run[p].step \notin LoginSteps
  BY <1>1, <1>4, <1>5 DEF LoginSteps
<1> HIDE DEF x
<1> QED BY <1>4, <1>5, <1>6, <1>7, ProfileEffect

\* Remove and ClearApiKey, which also delete the key.
LEMMA DropKeyEffect ==
  ASSUME CommandInv, NEW p \in Processes, ~overlapped, run[p].step = "ready",
         NEW n \in Names, NEW x \in Profile, NEW c \in Config,
         x.key = "none", x.auth = file.profiles[n].auth,
         x.address \in {None, file.profiles[n].address},
         c.profiles = [file.profiles EXCEPT ![n] = x],
         Save(p, c, AfterKeyOf(p, n)), UNCHANGED <<keys, logins, overlapped>>
  PROVE  Effect(p)
<1> DEFINE r == [GoesTo(p, "deletingKey") EXCEPT !.name = n]
<1>1. BackupInv /\ run[p] \in Process
  BY Typed DEF CommandInv
<1>2. r \in Process /\ r.step = "deletingKey" /\ r.name = n /\ r # Gone
  BY <1>1, EmptyTyped DEF GoesTo, Process, Steps
<1>3. file' = c
  BY <1>1, SaveFacts
<1>4. run'[p] = Gone \/ run'[p] = [r EXCEPT !.config = c]
  <2>1. Save(p, c, Gone) \/ Save(p, c, r)
    BY DEF AfterKeyOf
  <2> HIDE DEF r
  <2>2. ASSUME Save(p, c, r) PROVE run'[p] = [r EXCEPT !.config = c]
    BY <1>1, <1>2, <2>2, SaveFacts
  <2>3. ASSUME Save(p, c, Gone) PROVE run'[p] = Gone
    BY <1>1, <2>3, SaveFacts
  <2> QED BY <2>1, <2>2, <2>3, Zenon
<1>5. c.profiles[n] = x
  BY <1>1, Typed
<1>6. Knows(p)'
  <2>1. CASE run'[p] = Gone
    BY <2>1, EndKnows, EmptyTyped
  <2>2. CASE run'[p] = [r EXCEPT !.config = c]
    <3>1. run'[p].step = "deletingKey" /\ run'[p].name = n /\ run'[p].config = c
      BY <1>2, <2>2 DEF Process
    <3> QED BY <1>3, <1>5, <3>1 DEF Knows, At, Now, Its, NamedSteps, LoginSteps
  <2> QED BY <1>4, <2>1, <2>2
<1>7. ~Broken(n) /\ x.address # None /\ x.auth # None => <<n, x.auth>> \in logins
  BY DEF Broken, Usable, HasLogin, Exists
<1> QED BY <1>3, <1>6, <1>7, ProfileEffect DEF LoginSteps

LEMMA RemoveEffect ==
  ASSUME CommandInv, NEW p \in Processes, ~overlapped, NEW n \in Names, Remove(p, n)
  PROVE  Effect(p)
<1> DEFINE c == [file EXCEPT !.profiles[n] = Absent, !.default = IF @ = n THEN None ELSE @]
<1>1. BackupInv /\ run[p].step = "ready" /\ Now(p) = file
  BY CopyIsFile DEF CommandInv, Remove, At
<1>2. Absent \in Profile /\ Absent.key = "none" /\ Absent.auth = None /\ Absent.address = None
  BY DEF Absent, Profile, KeySources
<1>3. c \in Config /\ c.profiles = [file.profiles EXCEPT ![n] = Absent]
  BY <1>1, <1>2, Typed DEF Config
<1>4. Save(p, c, AfterKeyOf(p, n)) /\ file.profiles[n].auth = None
      /\ UNCHANGED <<keys, logins, overlapped>>
  BY <1>1 DEF Remove, MayDrop
<1> QED BY <1>1, <1>2, <1>3, <1>4, DropKeyEffect

LEMMA ClearEffect ==
  ASSUME CommandInv, NEW p \in Processes, ~overlapped, NEW n \in Names, ClearApiKey(p, n)
  PROVE  Effect(p)
<1> DEFINE x == [file.profiles[n] EXCEPT !.key = "none"]
           c == [file EXCEPT !.profiles[n].key = "none"]
<1>1. BackupInv /\ run[p].step = "ready" /\ Now(p) = file
  BY CopyIsFile DEF CommandInv, ClearApiKey, At
<1>2. /\ x \in Profile /\ x.key = "none" /\ x.auth = file.profiles[n].auth
      /\ x.address = file.profiles[n].address
  BY <1>1, Typed DEF Profile, KeySources
<1>3. c \in Config /\ c.profiles = [file.profiles EXCEPT ![n] = x]
  BY <1>1, <1>2, Typed DEF Config
<1>4. Save(p, c, AfterKeyOf(p, n)) /\ UNCHANGED <<keys, logins, overlapped>>
  BY <1>1 DEF ClearApiKey
<1> QED BY <1>1, <1>2, <1>3, <1>4, DropKeyEffect

LEMMA SetKeyEffect ==
  ASSUME CommandInv, NEW p \in Processes, ~overlapped, NEW n \in Names, SetApiKey(p, n)
  PROVE  Effect(p)
<1>1. BackupInv /\ run[p].step = "ready" /\ Now(p) = file /\ run[p] \in Process
  BY CopyIsFile, Typed DEF CommandInv, SetApiKey, At
<1>2. /\ file' = file /\ UNCHANGED <<logins, overlapped>>
      /\ keys' = [keys EXCEPT ![n] = file.profiles[n].address]
      /\ file.profiles[n].address # None
      /\ run'[p] = [GoesTo(p, "savingKey") EXCEPT !.name = n]
  BY <1>1, Typed DEF SetApiKey, KeysEntered, Becomes, Exists
<1>3. run'[p].step = "savingKey" /\ run'[p].name = n /\ run'[p].config = file
  BY <1>1, <1>2 DEF GoesTo, Process, Now
<1>4. keys'[n] = file.profiles[n].address /\ \A m \in Names : m # n => keys'[m] = keys[m]
  BY <1>1, <1>2, Typed
<1>5. Knows(p)'
  BY <1>2, <1>3, <1>4 DEF Knows, At, Now, Its, NamedSteps, LoginSteps
<1>6. KeyFitsAddress'
  BY <1>2, <1>4 DEF CommandInv, KeyFitsAddress
<1>7. \A m \in Names : Broken(m)' => Broken(m)
  BY <1>2, <1>4 DEF Broken, Exists, Usable, HasKey, HasLogin
<1>8. \A m \in Names, u \in Accounts : Loose(p, m, u)' => Loose(p, m, u)
  BY <1>1, <1>2, <1>3 DEF Loose, LoginSteps
<1> QED BY <1>5, <1>6, <1>7, <1>8 DEF Effect

LEMMA SaveKeyEffect ==
  ASSUME CommandInv, NEW p \in Processes, ~overlapped, SaveApiKey(p)
  PROVE  Effect(p)
<1> DEFINE n == run[p].name
           x == [file.profiles[n] EXCEPT !.key = "keyring"]
<1>1. BackupInv /\ run[p].step = "savingKey" /\ Now(p) = file /\ Knows(p)
  BY CopyIsFile DEF CommandInv, SaveApiKey, At
<1>2. n \in Names /\ file.profiles[n].address # None /\ keys[n] = file.profiles[n].address
  BY <1>1 DEF Knows, At, Its, NamedSteps
<1>3. x \in Profile /\ x.auth = file.profiles[n].auth /\ x.address = file.profiles[n].address
  BY <1>1, <1>2, Typed DEF Profile, KeySources
<1>4. file' = [file EXCEPT !.profiles[n].key = "keyring"] /\ run'[p] = Gone
  BY <1>1, SaveFacts DEF SaveApiKey
<1>5. /\ file'.profiles = [file.profiles EXCEPT ![n] = x]
      /\ UNCHANGED <<keys, logins, overlapped>>
  BY <1>1, <1>4, Typed DEF Config, SaveApiKey
<1>6. Knows(p)'
  BY <1>4, EndKnows, EmptyTyped
<1>7. ~Broken(n) /\ x.auth # None => <<n, x.auth>> \in logins
  BY <1>2, <1>3 DEF Broken, Usable, HasLogin, Exists
<1> HIDE DEF x
<1> QED BY <1>1, <1>2, <1>3, <1>5, <1>6, <1>7, ProfileEffect DEF LoginSteps

LEMMA DeleteKeyEffect ==
  ASSUME CommandInv, NEW p \in Processes, ~overlapped, DeleteKey(p)
  PROVE  Effect(p)
<1> DEFINE n == run[p].name
<1>1. BackupInv /\ run[p].step \in {"undoingKey", "deletingKey"} /\ Knows(p)
  BY DEF CommandInv, DeleteKey, At
<1>2. n \in Names /\ (run[p].step = "deletingKey" => file.profiles[n].key # "keyring")
  BY <1>1 DEF Knows, At, Its, NamedSteps
<1>3. /\ file' = file /\ UNCHANGED <<logins, overlapped>> /\ run'[p] = Gone
      /\ keys' = [keys EXCEPT ![n] = None]
  BY <1>1, Typed DEF DeleteKey, Becomes
<1>4. keys'[n] = None /\ \A m \in Names : m # n => keys'[m] = keys[m]
  BY <1>1, <1>2, <1>3, Typed
<1>5. Knows(p)'
  BY <1>3, EndKnows, EmptyTyped
<1>6. KeyFitsAddress'
  BY <1>3, <1>4 DEF CommandInv, KeyFitsAddress
<1>7. \A m \in Names : ~Broken(m) /\ Broken(m)' => At(p, "undoingKey")
  BY <1>1, <1>2, <1>3, <1>4 DEF Broken, Exists, Usable, HasKey, HasLogin, At
<1>8. \A m \in Names, u \in Accounts : Loose(p, m, u)' => Loose(p, m, u)
  BY <1>1, <1>3 DEF Loose, LoginSteps
<1> QED BY <1>5, <1>6, <1>7, <1>8 DEF Effect

LEMMA ProfileCommandEffect ==
  ASSUME CommandInv, NEW p \in Processes, ProfileCommand(p), ~overlapped'
  PROVE  Effect(p)
<1>1. BackupInv /\ run[p] \in Process /\ ~overlapped
  <2>1. UNCHANGED overlapped
    BY Zenon DEF ProfileCommand, Create, SetDefault, Remove, ClearApiKey, SetApiKey,
         SaveApiKey, FailToSave, DeleteKey, ChangeFilters
  <2> QED BY <2>1, Typed DEF CommandInv
<1>2. Knows(p)
  BY <1>1 DEF CommandInv
<1>3. ASSUME NEW c, c.profiles = file.profiles, run[p].step = "ready", Save(p, c, Gone),
             UNCHANGED <<keys, logins, overlapped>>
      PROVE  Effect(p)
  <2>1. file' = c /\ run'[p] = Gone
    BY <1>1, <1>3, SaveFacts
  <2> QED BY <1>1, <1>3, <2>1, EndKnows, EmptyTyped, QuietEffect DEF LoginSteps
<1>4. ASSUME NEW n \in Names, SetDefault(p, n) PROVE Effect(p)
  <2>1. run[p].step = "ready" /\ Now(p) = file
    BY <1>1, <1>4, CopyIsFile DEF SetDefault, At
  <2>2. [file EXCEPT !.default = n].profiles = file.profiles
    BY <1>1, Typed DEF Config
  <2> QED BY <1>3, <1>4, <2>1, <2>2 DEF SetDefault
<1>5. ASSUME NEW f \in Filters, ChangeFilters(p, f) PROVE Effect(p)
  <2> DEFINE c == [file EXCEPT !.filters = IF f \in @ THEN @ \ {f} ELSE @ \cup {f}]
  <2>1. run[p].step = "ready" /\ Now(p) = file
    BY <1>1, <1>5, CopyIsFile DEF ChangeFilters, At
  <2>2. c.profiles = file.profiles
    BY <1>1, Typed DEF Config
  <2>3. Save(p, c, Gone) /\ UNCHANGED <<keys, logins, overlapped>>
    BY <1>5, <2>1 DEF ChangeFilters
  <2> QED BY <1>3, <2>1, <2>2, <2>3
<1>6. ASSUME FailToSave(p, "savingKey", "undoingKey") PROVE Effect(p)
  <2>1. /\ run[p].step = "savingKey" /\ run'[p] = GoesTo(p, "undoingKey")
        /\ UNCHANGED <<file, keys, logins, overlapped>>
    BY <1>1, <1>6, Typed DEF FailToSave, At, Becomes
  <2>2. run'[p].step = "undoingKey" /\ run'[p].name = run[p].name /\ run'[p].config = run[p].config
    BY <1>1, <2>1 DEF GoesTo, Process
  <2>3. Knows(p)'
    BY <1>2, <2>1, <2>2 DEF Knows, At, Now, NamedSteps, LoginSteps
  <2> QED BY <1>1, <2>1, <2>3, QuietEffect DEF LoginSteps
<1> QED BY <1>1, <1>4, <1>5, <1>6, CreateEffect, RemoveEffect, ClearEffect, SetKeyEffect,
           SaveKeyEffect, DeleteKeyEffect DEF ProfileCommand

LEMMA SignInEffect ==
  ASSUME CommandInv, NEW p \in Processes, ~overlapped,
         NEW n \in Names, NEW u \in Accounts, SignIn(p, n, u)
  PROVE  Effect(p)
<1>1. BackupInv /\ run[p].step = "ready" /\ Now(p) = file /\ run[p] \in Process
  BY CopyIsFile, Typed DEF CommandInv, SignIn, At
<1>2. /\ file' = file /\ UNCHANGED <<keys, overlapped>>
      /\ logins' = logins \cup {<<n, u>>} /\ file.profiles[n].auth = None
      /\ run'[p] = [GoesTo(p, "savingLogin") EXCEPT !.name = n, !.account = u]
  BY <1>1, Typed DEF SignIn, Becomes
<1>3. run'[p].step = "savingLogin" /\ run'[p].name = n /\ run'[p].account = u
      /\ run'[p].config = file
  BY <1>1, <1>2 DEF GoesTo, Process, Now
<1>4. Knows(p)'
  BY <1>2, <1>3 DEF Knows, At, Now, Its, NamedSteps, LoginSteps
<1>5. KeyFitsAddress'
  BY <1>2 DEF CommandInv, KeyFitsAddress
<1>6. \A m \in Names : Broken(m)' => Broken(m)
  BY <1>2 DEF Broken, Exists, Usable, HasKey, HasLogin
<1>7. \A m \in Names, v \in Accounts : Loose(p, m, v)' => Loose(p, m, v)
  BY <1>1, <1>2, <1>3 DEF Loose, LoginSteps
<1> QED BY <1>4, <1>5, <1>6, <1>7 DEF Effect

LEMMA SaveLoginEffect ==
  ASSUME CommandInv, NEW p \in Processes, ~overlapped, NEW a \in Addresses, SaveLogin(p, a)
  PROVE  Effect(p)
<1> DEFINE n == run[p].name
           x == [address |-> a, key |-> "none", auth |-> run[p].account]
<1>1. BackupInv /\ run[p].step = "savingLogin" /\ Now(p) = file /\ Knows(p)
  BY CopyIsFile DEF CommandInv, SaveLogin, At
<1>2. /\ n \in Names /\ run[p].account \in Accounts /\ file.profiles[n].auth = None
      /\ <<n, run[p].account>> \in logins
  BY <1>1 DEF Knows, At, Its, NamedSteps, LoginSteps
<1>3. PICK d \in Defaults(file, n) : Save(p, [file EXCEPT !.profiles[n] = x, !.default = d], Gone)
  BY <1>1 DEF SaveLogin
<1>4. file' = [file EXCEPT !.profiles[n] = x, !.default = d] /\ run'[p] = Gone
  BY <1>1, <1>3, SaveFacts
<1>5. /\ file'.profiles = [file.profiles EXCEPT ![n] = x]
      /\ UNCHANGED <<keys, logins, overlapped>>
  BY <1>1, <1>4, Typed DEF Config, SaveLogin
<1>6. x \in Profile /\ x.key = "none" /\ x.auth = run[p].account
  BY <1>2 DEF Profile, KeySources
<1>7. Knows(p)'
  BY <1>4, EndKnows, EmptyTyped
<1>8. <<n, file.profiles[n].auth>> \notin logins
  BY <1>1, <1>2, Typed, NoneAssumption
<1> HIDE DEF x
<1> QED BY <1>2, <1>5, <1>6, <1>7, <1>8, ProfileEffect

LEMMA UndoLoginEffect ==
  ASSUME CommandInv, NEW p \in Processes, ~overlapped, UndoLogin(p)
  PROVE  Effect(p)
<1> DEFINE n == run[p].name
<1>1. BackupInv /\ run[p].step = "undoingLogin" /\ Knows(p)
  BY DEF CommandInv, UndoLogin, At
<1>2. n \in Names /\ run[p].account \in Accounts /\ file.profiles[n].auth = None
  BY <1>1 DEF Knows, Its, NamedSteps, LoginSteps
<1>3. /\ file' = file /\ UNCHANGED <<keys, overlapped>> /\ run'[p] = Gone
      /\ logins' = logins \ {<<n, run[p].account>>}
  BY <1>1, Typed DEF UndoLogin, Becomes
<1>4. Knows(p)'
  BY <1>3, EndKnows, EmptyTyped
<1>5. KeyFitsAddress'
  BY <1>3 DEF CommandInv, KeyFitsAddress
<1>6. \A m \in Names : Broken(m)' => Broken(m)
  BY <1>2, <1>3 DEF Broken, Exists, Usable, HasKey, HasLogin
<1>7. \A m \in Names, v \in Accounts :
        ~Loose(p, m, v) /\ Loose(p, m, v)' => run[p].step \in LoginSteps /\ run'[p] = Gone
  BY <1>1, <1>3 DEF Loose, LoginSteps
<1> QED BY <1>4, <1>5, <1>6, <1>7 DEF Effect

LEMMA SignOutEffect ==
  ASSUME CommandInv, NEW p \in Processes, ~overlapped, NEW n \in Names, SignOut(p, n)
  PROVE  Effect(p)
<1>1. BackupInv /\ run[p].step = "ready" /\ Now(p) = file /\ run[p] \in Process
  BY CopyIsFile, Typed DEF CommandInv, SignOut, At
<1>2. /\ file' = file /\ UNCHANGED <<keys, overlapped>>
      /\ logins' = logins \ {<<n, file.profiles[n].auth>>}
      /\ run'[p] = [GoesTo(p, "savingLogout") EXCEPT !.name = n]
  BY <1>1, Typed DEF SignOut, Becomes
<1>3. run'[p].step = "savingLogout" /\ run'[p].name = n /\ run'[p].config = file
  BY <1>1, <1>2 DEF GoesTo, Process, Now
<1>4. Knows(p)'
  BY <1>2, <1>3 DEF Knows, At, Now, Its, NamedSteps, LoginSteps
<1>5. KeyFitsAddress'
  BY <1>2 DEF CommandInv, KeyFitsAddress
<1>6. \A m \in Names, u \in Accounts : Loose(p, m, u)' => Loose(p, m, u)
  BY <1>1, <1>2, <1>3 DEF Loose, LoginSteps
<1> QED BY <1>3, <1>4, <1>5, <1>6 DEF Effect

LEMMA SaveLogoutEffect ==
  ASSUME CommandInv, NEW p \in Processes, ~overlapped, SaveLogout(p)
  PROVE  Effect(p)
<1> DEFINE n == run[p].name
           x == [file.profiles[n] EXCEPT !.auth = None]
<1>1. BackupInv /\ run[p].step = "savingLogout" /\ Now(p) = file /\ Knows(p)
  BY CopyIsFile DEF CommandInv, SaveLogout, At
<1>2. n \in Names /\ <<n, file.profiles[n].auth>> \notin logins
  BY <1>1 DEF Knows, At, Its, NamedSteps
<1>3. /\ x \in Profile /\ x.auth = None /\ x.key = file.profiles[n].key
      /\ x.address = file.profiles[n].address
  BY <1>1, <1>2, Typed DEF Profile
<1>4. file' = [file EXCEPT !.profiles[n].auth = None] /\ run'[p] = Gone
  BY <1>1, SaveFacts DEF SaveLogout
<1>5. /\ file'.profiles = [file.profiles EXCEPT ![n] = x]
      /\ UNCHANGED <<keys, logins, overlapped>>
  BY <1>1, <1>4, Typed DEF Config, SaveLogout
<1>6. Knows(p)'
  BY <1>4, EndKnows, EmptyTyped
<1>7. x.key = "keyring" /\ keys[n] # None => keys[n] = x.address
  BY <1>2, <1>3 DEF CommandInv, KeyFitsAddress
<1>8. ~Broken(n) /\ x.address # None /\ x.key = "keyring" => keys[n] # None
  BY <1>3 DEF Broken, Usable, HasKey, Exists
<1>9. run[p].step \notin LoginSteps
  BY <1>1 DEF LoginSteps
<1> HIDE DEF x
<1> QED BY <1>2, <1>3, <1>5, <1>6, <1>7, <1>8, <1>9, ProfileEffect

LEMMA AuthCommandEffect ==
  ASSUME CommandInv, NEW p \in Processes, AuthCommand(p), ~overlapped'
  PROVE  Effect(p)
<1>1. BackupInv /\ run[p] \in Process /\ ~overlapped
  <2>1. UNCHANGED overlapped
    BY Zenon DEF AuthCommand, SignIn, SaveLogin, FailToSave, UndoLogin, SignOut,
         SaveLogout
  <2> QED BY <2>1, Typed DEF CommandInv
<1>2. Knows(p)
  BY <1>1 DEF CommandInv
<1>3. ASSUME FailToSave(p, "savingLogin", "undoingLogin") PROVE Effect(p)
  <2>1. /\ run[p].step = "savingLogin" /\ run'[p] = GoesTo(p, "undoingLogin")
        /\ UNCHANGED <<file, keys, logins, overlapped>>
    BY <1>1, <1>3, Typed DEF FailToSave, At, Becomes
  <2>2. /\ run'[p].step = "undoingLogin" /\ run'[p].name = run[p].name
        /\ run'[p].account = run[p].account /\ run'[p].config = run[p].config
    BY <1>1, <2>1 DEF GoesTo, Process
  <2>3. Knows(p)'
    BY <1>2, <2>1, <2>2 DEF Knows, At, Now, Its, NamedSteps, LoginSteps
  <2> QED BY <1>1, <2>1, <2>2, <2>3, QuietEffect DEF LoginSteps
<1> QED BY <1>1, <1>3, SignInEffect, SaveLoginEffect, UndoLoginEffect, SignOutEffect,
           SaveLogoutEffect DEF AuthCommand

-----------------------------------------------------------------------------
(* The theorems                                                             *)

LEMMA OneMoves ==
  ASSUME NEW p \in Processes, Opening(p) \/ ProfileCommand(p) \/ AuthCommand(p)
  PROVE  \E r : Becomes(p, r)
<1>1. CASE Opening(p)
  BY <1>1, Zenon DEF Opening, Start, Load, CreateBackup, WriteBackup, FindBackup, Migrate, Quit,
     Connect, Launch, Save
<1>2. CASE ProfileCommand(p)
  BY <1>2, Zenon DEF ProfileCommand, Create, SetDefault, Remove, ClearApiKey, SetApiKey,
     SaveApiKey, FailToSave, DeleteKey, ChangeFilters, Save
<1>3. CASE AuthCommand(p)
  BY <1>3, Zenon DEF AuthCommand, SignIn, SaveLogin, FailToSave, UndoLogin, SignOut, SaveLogout,
     Save
<1> QED BY <1>1, <1>2, <1>3

\* As long as commands do not overlap, one process runs, and what it does is
\* all that happens.
LEMMA OnlyOne ==
  ASSUME CommandInv, Next, ~overlapped'
  PROVE  \E p \in Processes :
           /\ ~overlapped /\ Effect(p)
           /\ \A q \in Processes : q # p => run[q].step = "gone" /\ run'[q] = run[q]
<1>1. PICK p \in Processes : Opening(p) \/ ProfileCommand(p) \/ AuthCommand(p)
  BY DEF Next
<1>2. Effect(p)
  BY <1>1, OpeningEffect, ProfileCommandEffect, AuthCommandEffect
<1>3. \A q \in Processes : q # p => run'[q] = run[q]
  <2>1. PICK r : Becomes(p, r)
    BY <1>1, OneMoves
  <2> QED BY <2>1, Typed DEF Becomes, CommandInv
<1>4. ~overlapped /\ \A q \in Processes : q # p => run[q].step = "gone"
  <2>1. CASE Start(p)
    BY <2>1 DEF Start, At, CommandInv, BackupInv, TypeOK
  <2>2. CASE ~Start(p)
    <3>1. ~At(p, "gone") /\ UNCHANGED overlapped
      BY <1>1, <2>2 DEF Opening, Load, CreateBackup, WriteBackup, FindBackup, Migrate, Quit,
         Connect, Launch, ProfileCommand, Create, SetDefault, Remove, ClearApiKey, SetApiKey,
         SaveApiKey, FailToSave, DeleteKey, ChangeFilters, AuthCommand, SignIn, SaveLogin,
         UndoLogin, SignOut, SaveLogout, At
    <3>2. ~overlapped
      BY <3>1
    <3> QED BY <3>1, <3>2 DEF CommandInv, Alone, At
  <2> QED BY <2>1, <2>2
<1> QED BY <1>2, <1>3, <1>4

LEMMA CommandStep == CommandInv /\ [Next]_vars => CommandInv'
<1> SUFFICES ASSUME CommandInv, [Next]_vars PROVE CommandInv'
  OBVIOUS
<1>1. BackupInv'
  BY StepInv DEF CommandInv
<1>2. CASE UNCHANGED vars
  BY <1>1, <1>2 DEF CommandInv, KeyFitsAddress, Alone, Knows, At, Now, Its, vars
<1>3. CASE Next /\ overlapped'
  BY <1>1, <1>3 DEF CommandInv, KeyFitsAddress
<1>4. CASE Next /\ ~overlapped'
  <2>1. PICK p \in Processes :
          /\ ~overlapped /\ Effect(p)
          /\ \A q \in Processes : q # p => run[q].step = "gone" /\ run'[q] = run[q]
    BY <1>4, OnlyOne
  <2>2. Alone'
    BY <2>1 DEF Alone, At
  <2>3. \A q \in Processes : Knows(q)'
    <3> SUFFICES ASSUME NEW q \in Processes PROVE Knows(q)'
      OBVIOUS
    <3>1. CASE q = p
      BY <2>1, <3>1 DEF Effect
    <3>2. CASE q # p
      BY <2>1, <3>2, EndKnows
    <3> QED BY <3>1, <3>2
  <2> QED BY <1>1, <2>1, <2>2, <2>3 DEF CommandInv, Effect
<1> QED BY <1>2, <1>3, <1>4

LEMMA CommandSpec == Spec => []CommandInv
BY CommandInit, CommandStep, PTL DEF Spec

\* As long as commands do not overlap, a profile never gets an API key that was
\* entered for another address, whatever was created, replaced, cleared, signed
\* in or cut short before (run_profile_command).
THEOREM KeyFitsHolds == Spec => []KeyFitsAddress
<1>1. CommandInv => KeyFitsAddress
  BY DEF CommandInv
<1> QED BY <1>1, CommandSpec, PTL

LEMMA UsableStep ==
  ASSUME CommandInv, Next, ~overlapped', NEW n \in Names, ~Broken(n), Broken(n)'
  PROVE  \E p \in Processes : run[p].step = "undoingKey" \/ run'[p].step = "savingLogout"
  BY OnlyOne DEF Effect, At

\* As long as commands do not overlap, a profile comes to miss its credential
\* only in a logout between its writes, and in the undoing of `set-api-key'.
THEOREM ProfilesStayUsableHolds == Spec => ProfilesStayUsable
<1>1. CommandInv /\ [Next]_vars =>
        [~overlapped' =>
           \A n \in Names :
             ~Broken(n) /\ Broken(n)' =>
               \E p \in Processes :
                 run[p].step = "undoingKey" \/ run'[p].step = "savingLogout"]_vars
  BY UsableStep
<1> QED BY <1>1, CommandSpec, PTL DEF Spec, ProfilesStayUsable

LEMMA StrandedLoose ==
  ASSUME NEW p \in Processes, \A q \in Processes : q # p => run[q].step = "gone",
         NEW n \in Names, NEW u \in Accounts
  PROVE  Stranded(n, u) <=> Loose(p, n, u)
  BY DEF Stranded, Loose, LoginSteps

LEMMA StrandedLooseNext ==
  ASSUME NEW p \in Processes, \A q \in Processes : q # p => run'[q].step = "gone",
         NEW n \in Names, NEW u \in Accounts
  PROVE  Stranded(n, u)' <=> Loose(p, n, u)'
  BY DEF Stranded, Loose, LoginSteps

LEMMA StrandedStep ==
  ASSUME CommandInv, Next, ~overlapped', NEW n \in Names, NEW u \in Accounts,
         ~Stranded(n, u), Stranded(n, u)'
  PROVE  \E p \in Processes : run[p].step \in {"savingLogin", "undoingLogin"} /\ run'[p] = Gone
<1>1. PICK p \in Processes :
        /\ Effect(p)
        /\ \A q \in Processes : q # p => run[q].step = "gone" /\ run'[q] = run[q]
  BY OnlyOne
<1>2. ~Loose(p, n, u) /\ Loose(p, n, u)'
  BY <1>1, StrandedLoose, StrandedLooseNext
<1> QED BY <1>1, <1>2 DEF Effect, LoginSteps

\* As long as commands do not overlap, a login is stranded by nothing but the
\* end of `auth login' between its writes or a failure of its clean-up
\* (run_auth_command).
THEOREM OnlyCutLoginStrandsHolds == Spec => OnlyCutLoginStrands
<1>1. CommandInv /\ [Next]_vars =>
        [~overlapped' =>
           \A n \in Names, u \in Accounts :
             ~Stranded(n, u) /\ Stranded(n, u)' =>
               \E p \in Processes : /\ run[p].step \in {"savingLogin", "undoingLogin"}
                                    /\ run'[p] = Gone]_vars
  BY StrandedStep
<1> QED BY <1>1, CommandSpec, PTL DEF Spec, OnlyCutLoginStrands
=============================================================================
