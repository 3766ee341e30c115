------------------------------- MODULE Settings -------------------------------
(***************************************************************************)
(* The instance settings: which value is in force (src/lib/settings.ts),   *)
(* and saving them (saveSettingsAction of src/app/admin/settings), the one *)
(* change of the program that is a transaction with its row in the trail.  *)
(*                                                                         *)
(* A save works on what it has read and on its own writes until it         *)
(* commits; nothing of it is seen before, and all of it is undone by an    *)
(* error or a crash.                                                       *)
(***************************************************************************)
EXTENDS Handlers, Sequences

CONSTANTS
    SETTING_KEYS,   \* of passkeyRpName, importSources and mailFromName
    Given,          \* what an owner may type or tick
    MaxSaves        \* BOUND: changes in one behaviour

ASSUME SettingsAssumption ==
    /\ SETTING_KEYS \subseteq {"passkeyRpName", "importSources", "mailFromName"}
    /\ Given \cap {None, "unusable", "default", "nobody"} = {}
    /\ None \notin Requests
    /\ MaxSaves \in Nat

VARIABLES
    env,            \* what the environment says of each setting; fixed at start
    settingsRow,    \* table instanceSettings: no row, or the one there is
    saved,          \* history: the row as first found
    locked,         \* who has the row locked, from its insertion or SELECT to the end
    settingsTrail   \* table auditEvent: the settings.changed rows, in order of commit

settingsVars == <<env, settingsRow, saved, locked, settingsTrail, job, mishaps>>

\* A stored value that is not in force: a name that fails validation, or import
\* sources this version does not know.
Unusable == "unusable"

Stored == Given \cup {None, Unusable}

NoRow == << >>
Empty == [f \in SETTING_KEYS |-> None]

-----------------------------------------------------------------------------
\* resolveSettings: the environment, then the row, then a default.

\* Of a variable: absent, present but empty, naming a value, or (MAIL_FROM) a
\* bare address that leaves the name open.
EnvSays(f) == IF f = "mailFromName" THEN {"absent", "empty", "value", "bare"}
                                    ELSE {"absent", "empty", "value"}

\* An empty PASSKEY_RP_NAME says nothing, an empty IMPORT_SOURCES says off, and
\* an empty MAIL_FROM is sent as it is written.
lockedField(f, e) == IF f = "passkeyRpName" THEN e = "value" ELSE e \in {"empty", "value"}

\* A bare address goes out without a name.
defaultOf(f, e) == IF f = "mailFromName" /\ e = "bare" THEN "nobody" ELSE "default"

effective(f, stored) ==
    IF lockedField(f, env[f]) THEN "environment"
    ELSE IF stored \in Given THEN stored ELSE defaultOf(f, env[f])

Effective == Given \cup {"environment", "default", "nobody"}

-----------------------------------------------------------------------------
Changes == [from: Effective, to: Effective, cleared: {None, Unusable}]

\* `before` is what the transaction read under its lock.
SaveJob == [op: {"saveSettings"}, pc: {"insert", "lock", "update", "record", "commit"},
            input: UNION {[fs -> Given \cup {None}] : fs \in SUBSET SETTING_KEYS},
            inserted: BOOLEAN, before: [SETTING_KEYS -> Stored]]

SettingsTypeOK ==
    /\ env \in [SETTING_KEYS -> UNION {EnvSays(f) : f \in SETTING_KEYS}]
    /\ settingsRow \in [SETTING_KEYS -> Stored] \cup {NoRow}
    /\ locked \in Requests \cup {None}
    /\ \A q \in InFlight({"saveSettings"}) : job[q] \in SaveJob
    /\ \A i \in DOMAIN settingsTrail :
          /\ DOMAIN settingsTrail[i] \in (SUBSET SETTING_KEYS) \ {{}}
          /\ settingsTrail[i] \in [DOMAIN settingsTrail[i] -> Changes]

SettingsInit ==
    /\ env \in {e \in [SETTING_KEYS -> {"absent", "empty", "value", "bare"}] :
                   \A f \in SETTING_KEYS : e[f] \in EnvSays(f)}
    /\ settingsRow \in {NoRow} \cup [SETTING_KEYS -> {None, Unusable}]
    /\ saved = settingsRow
    /\ locked = None
    /\ settingsTrail = << >>

-----------------------------------------------------------------------------
NothingSaved == UNCHANGED <<env, settingsRow, saved, locked, settingsTrail, mishaps>>

\* The fields the form carries, none of them the environment's; a blank, and
\* what an unsaved field shows, mean nothing saved (`text`).
saveSettings(q, fields, input) ==
    /\ \A f \in fields : ~lockedField(f, env[f])
    /\ Begin(q, [op |-> "saveSettings", pc |-> "insert", input |-> input,
                 inserted |-> FALSE, before |-> Empty])
    /\ NothingSaved

FoundRow == IF settingsRow = NoRow THEN Empty ELSE settingsRow

\* INSERT ... ON CONFLICT DO NOTHING waits for another's uncommitted insert.
Inserting == \E q \in InFlight({"saveSettings"}) : job[q].inserted

insertRow(q) ==
    /\ At(q, "saveSettings", "insert")
    /\ ~Inserting
    /\ IF settingsRow = NoRow
       THEN /\ locked' = q
            /\ job' = [job EXCEPT ![q].pc = "lock", ![q].inserted = TRUE]
       ELSE GoTo(q, "lock") /\ UNCHANGED locked
    /\ UNCHANGED <<env, settingsRow, saved, settingsTrail, mishaps>>

readUnlocked(q) ==
    /\ At(q, "saveSettings", "lock")
    /\ job' = [job EXCEPT ![q].pc = "update", ![q].before = FoundRow]
    /\ UNCHANGED <<env, settingsRow, saved, locked, settingsTrail, mishaps>>

\* SELECT ... FOR UPDATE
lockRow(q) ==
    /\ At(q, "saveSettings", "lock")
    /\ locked \in {None, q}
    /\ locked' = q
    /\ job' = [job EXCEPT ![q].pc = "update", ![q].before = FoundRow]
    /\ UNCHANGED <<env, settingsRow, saved, settingsTrail, mishaps>>

Saving(j) ==
    [f \in SETTING_KEYS |-> IF f \in DOMAIN j.input THEN j.input[f] ELSE j.before[f]]

\* What is told of as changed is what is stored, in force or not.
changedFields(j) == {f \in DOMAIN j.input : Saving(j)[f] # j.before[f]}

ignored(stored) == IF stored = Unusable THEN Unusable ELSE None

changesOf(j) ==
    [f \in changedFields(j) |->
        [from |-> effective(f, j.before[f]), to |-> effective(f, Saving(j)[f]),
         cleared |-> ignored(j.before[f])]]

Unlock(q) == locked' = IF locked = q THEN None ELSE locked

\* Nothing changed: rolled back, the inserted row with it.
updateSettings(q) ==
    /\ At(q, "saveSettings", "update")
    /\ IF changedFields(job[q]) = {} THEN End(q) /\ Unlock(q)
                                     ELSE GoTo(q, "record") /\ UNCHANGED locked
    /\ UNCHANGED <<env, settingsRow, saved, settingsTrail, mishaps>>

recordSettings(q) ==
    /\ At(q, "saveSettings", "record")
    /\ GoTo(q, "commit")
    /\ NothingSaved

commitSettings(q) ==
    /\ At(q, "saveSettings", "commit")
    /\ Len(settingsTrail) < MaxSaves
    /\ settingsRow' = Saving(job[q])
    /\ settingsTrail' = Append(settingsTrail, changesOf(job[q]))
    /\ Unlock(q)
    /\ End(q)
    /\ UNCHANGED <<env, saved, mishaps>>

\* Any call of the transaction fails, or it takes too long: it is undone.
rollback(q) ==
    /\ q \in InFlight({"saveSettings"})
    /\ Mishap
    /\ Unlock(q) /\ End(q)
    /\ UNCHANGED <<env, settingsRow, saved, settingsTrail>>

crashSettings ==
    /\ Crash
    /\ locked' = None
    /\ UNCHANGED <<env, settingsRow, saved, settingsTrail>>

SettingsNext ==
    \/ \E q \in Requests \ DOMAIN job, fields \in (SUBSET SETTING_KEYS) \ {{}} :
          \E input \in [fields -> Given \cup {None}] : saveSettings(q, fields, input)
    \/ \E q \in DOMAIN job :
          \/ insertRow(q) \/ lockRow(q) \/ updateSettings(q) \/ recordSettings(q)
          \/ commitSettings(q) \/ rollback(q)
    \/ crashSettings

SettingsSpec ==
    SettingsInit /\ job = Nothing /\ mishaps = 0 /\ [][SettingsNext]_settingsVars
-----------------------------------------------------------------------------
First(f) == IF saved = NoRow THEN None ELSE saved[f]

Tells(f) == {i \in DOMAIN settingsTrail : f \in DOMAIN settingsTrail[i]}

\* The trail tells that v was in force of f before its n-th entry: the last one
\* before it that tells of f says so, or there is none and it was so at first.
Told(f, n, v) ==
    LET earlier == {i \in Tells(f) : i < n}
    IN  \/ earlier = {} /\ v = effective(f, First(f))
        \/ \E i \in earlier : (\A k \in earlier : k <= i) /\ v = settingsTrail[i][f].to

\* admin/settings/actions.ts: "the trail's 'from' values form an unbroken
\* chain", each from the value that was overwritten, and "the setting does not
\* change unless the row is written": the last one ends at what is in force.
\* What was stored but not in force is still there, or was reported: "a save
\* that clears it says so on the trail, rather than it vanishing unrecorded".
TrailIsAnUnbrokenChain ==
    \A f \in SETTING_KEYS :
        /\ \A i \in Tells(f) : Told(f, i, settingsTrail[i][f].from)
        /\ Told(f, Len(settingsTrail) + 1, effective(f, FoundRow[f]))
        /\ First(f) = Unusable /\ FoundRow[f] # Unusable =>
              \E i \in Tells(f) : settingsTrail[i][f].cleared = Unusable
=============================================================================
