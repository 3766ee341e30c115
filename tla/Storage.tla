------------------------------- MODULE Storage -------------------------------
(***************************************************************************)
(* The directory of model files: src/lib/storage.ts under the operations   *)
(* that store, copy and remove a model, and scripts/export-storage.ts,     *)
(* which fills it from an object store while the stack is stopped.         *)
(*                                                                         *)
(* Both write a temporary file, sync it, rename it and sync the directory. *)
(* Until then a power cut may leave the name as it was or as it is, and    *)
(* the contents of a file that was not synced in part.  Once something in  *)
(* a new month's directory is synced, the directory is taken to be there.  *)
(***************************************************************************)
EXTENDS Handlers, FiniteSets, TLC

CONSTANTS
    Keys,           \* BOUND: storage keys ever given out
    Filed,          \* the keys of the tickets there are at first
    StoppedAtSync   \* whether the migration may end between a rename and the
                    \* sync of the directory

ASSUME StorageAssumption ==
    Filed \subseteq Keys /\ None \notin Keys /\ StoppedAtSync \in BOOLEAN

VARIABLES
    up,             \* whether the app runs on this directory, or is being moved to it
    object,         \* the object store: what a key's download yields
    row,            \* table story: the keys of the tickets
    file,           \* the directory: what opening a name yields
    disk,           \* ... and what may be left under the name by a power cut
    given,          \* history: the keys given out
    kept            \* history: the keys somebody was told are stored, and not given up

storageVars == <<up, object, row, file, disk, given, kept, job, mishaps>>

Bytes == {"part", "whole"}
Torn == "torn"                  \* of a file that was not synced, and came out in part
Gone == "gone"
Left == Bytes \cup {Torn, Gone}

Writers == {"putModel", "copyModel", "exportOne"}
StorageOps == Writers \cup {"deleteModel"}

\* `of` is written to, `from` copied; `bytes` and `synced` are of the temporary
\* file.  A migration has `todo` to look at and, in `failed`, whether any failed.
StorageJob == [op: StorageOps,
               pc: {"open", "write", "sync", "rename", "syncdir", "clean", "insert",
                    "next", "verify", "delete", "rm"},
               of: Keys \cup {None}, from: Keys \cup {None},
               bytes: Bytes \cup {None}, synced: BOOLEAN,
               todo: SUBSET Keys, failed: BOOLEAN]

StorageTypeOK ==
    /\ up \in BOOLEAN
    /\ row \subseteq given /\ kept \subseteq given
    /\ given \subseteq Keys
    /\ DOMAIN object \subseteq Filed /\ object \in [DOMAIN object -> Bytes]
    /\ DOMAIN file \subseteq given /\ file \in [DOMAIN file -> Left \ {Gone}]
    /\ disk \in [Keys -> (SUBSET Left) \ {{}}]
    /\ \A k \in Keys : (IF k \in DOMAIN file THEN file[k] ELSE Gone) \in disk[k]
    /\ \A q \in InFlight(StorageOps) : job[q] \in StorageJob

\* Before the move: the object store has the models, or not all of them, and the
\* directory may hold what a copy of the object store's own left there.
StorageInit ==
    /\ up = FALSE
    /\ row = Filed /\ given = Filed /\ kept = {}
    /\ object \in UNION {[ks -> Bytes] : ks \in SUBSET Filed}
    /\ file \in UNION {[ks -> {"part"}] : ks \in SUBSET Filed}
    /\ disk = [k \in Keys |-> {IF k \in DOMAIN file THEN file[k] ELSE Gone}]

-----------------------------------------------------------------------------
StorageWork(q, op, pc, k, src, ks) ==
    Begin(q, [op |-> op, pc |-> pc, of |-> k, from |-> src, bytes |-> None,
              synced |-> FALSE, todo |-> ks, failed |-> FALSE])

Directory == <<file, disk>>

\* openRequest, requeueStory: a key of its own, which storageKeyFor makes up.
putModel(q, k) ==
    /\ up
    /\ k \in Keys \ given /\ given' = given \cup {k}
    /\ StorageWork(q, "putModel", "open", k, None, {})
    /\ UNCHANGED <<up, object, row, file, disk, kept, mishaps>>

copyModel(q, src, k) ==
    /\ up /\ src \in row
    /\ k \in Keys \ given /\ given' = given \cup {k}
    /\ StorageWork(q, "copyModel", "open", k, src, {})
    /\ UNCHANGED <<up, object, row, file, disk, kept, mishaps>>

withdrawRow(q, k) ==
    /\ up /\ k \in row
    /\ StorageWork(q, "deleteModel", "delete", k, None, {})
    /\ UNCHANGED <<up, object, row, file, disk, given, kept, mishaps>>

\* The migration, one at a time while the stack is stopped; with --verify-only
\* it looks at nothing first.
exportModels(q, verifyOnly) ==
    /\ ~up /\ Quiet({"exportOne"})
    /\ StorageWork(q, "exportOne", "next", None, None,
                   IF verifyOnly THEN {} ELSE row)
    /\ UNCHANGED <<up, object, row, file, disk, given, kept, mishaps>>

-----------------------------------------------------------------------------
\* writeAtomically

Storing(q, pc) == q \in InFlight(Writers) /\ job[q].pc = pc

\* Its caller's next step; an error ends an upload, and a migration goes on.
Thrown(q) ==
    IF job[q].op = "exportOne"
    THEN job' = [job EXCEPT ![q] = [@ EXCEPT !.pc = "next", !.bytes = None,
                                             !.synced = FALSE, !.failed = TRUE]]
    ELSE End(q)

NoFile == UNCHANGED <<up, object, row, file, disk, given, kept, mishaps>>

\* Without the source there is nothing to copy; an object that is not there is
\* met before any file is.
Source(j) ==
    CASE j.op = "copyModel" -> IF j.from \in DOMAIN file THEN file[j.from] ELSE None
      [] j.op = "exportOne" -> IF j.of \in DOMAIN object THEN object[j.of] ELSE None
      [] OTHER              -> "whole"

openTemp(q) ==
    /\ Storing(q, "open")
    /\ IF Source(job[q]) = None
       THEN Thrown(q)
       ELSE job' = [job EXCEPT ![q].pc = "write", ![q].bytes = "part"]
    /\ NoFile

copyByName(q) ==
    /\ Storing(q, "write")
    /\ job' = [job EXCEPT ![q].pc = "sync", ![q].bytes = Source(job[q])]
    /\ NoFile

\* All of it, of what was opened; of an object that is damaged, what there is.
writeTemp(q) ==
    /\ Storing(q, "write")
    /\ job' = [job EXCEPT ![q].pc = "sync",
                          ![q].bytes = IF job[q].op = "exportOne"
                                       THEN object[job[q].of] ELSE "whole"]
    /\ NoFile

syncTemp(q) ==
    /\ Storing(q, "sync")
    /\ job' = [job EXCEPT ![q].pc = "rename", ![q].synced = TRUE]
    /\ NoFile

renameTemp(q) ==
    /\ Storing(q, "rename")
    /\ LET k == job[q].of
           left == IF job[q].synced THEN {job[q].bytes} ELSE {job[q].bytes, Torn} IN
          /\ file' = Put(file, k, job[q].bytes)
          /\ disk' = [disk EXCEPT ![k] = @ \cup left]
    /\ job' = [job EXCEPT ![q].pc = "syncdir", ![q].bytes = None]
    /\ UNCHANGED <<up, object, row, given, kept, mishaps>>

Now(k) == IF k \in DOMAIN file THEN file[k] ELSE Gone

\* With the directory, every name in it is as it is; not so the contents of a
\* file that was not synced itself.
AfterStoring(q) ==
    IF job[q].op = "exportOne"
    THEN job' = [job EXCEPT ![q] = [@ EXCEPT !.pc = "next", !.synced = FALSE]]
         /\ UNCHANGED kept
    ELSE GoTo(q, "insert") /\ kept' = kept \cup {job[q].of}

skipDirectory(q) ==
    /\ Storing(q, "syncdir")
    /\ AfterStoring(q)
    /\ UNCHANGED <<up, object, row, file, disk, given, mishaps>>

syncDirectory(q) ==
    /\ Storing(q, "syncdir")
    /\ disk' = [k \in Keys |-> {Now(k)} \cup (disk[k] \cap {Torn})]
    /\ AfterStoring(q)
    /\ UNCHANGED <<up, object, row, file, given, mishaps>>

\* rm(tmp), then the error goes on.
removeTemp(q) ==
    /\ Storing(q, "clean")
    /\ Thrown(q)
    /\ NoFile

-----------------------------------------------------------------------------
\* What the callers do next

insertRowOf(q) ==
    /\ Storing(q, "insert")
    /\ row' = row \cup {job[q].of}
    /\ End(q)
    /\ UNCHANGED <<up, object, file, disk, given, kept, mishaps>>

\* Already withdrawn by another: it throws.
deleteRow(q) ==
    /\ At(q, "deleteModel", "delete")
    /\ row' = row \ {job[q].of} /\ kept' = kept \ {job[q].of}
    /\ IF job[q].of \in row THEN GoTo(q, "rm") ELSE End(q)
    /\ UNCHANGED <<up, object, file, disk, given, mishaps>>

removeFile(q) ==
    /\ At(q, "deleteModel", "rm")
    /\ file' = Drop(file, job[q].of)
    /\ disk' = [disk EXCEPT ![job[q].of] = @ \cup {Gone}]
    /\ End(q)
    /\ UNCHANGED <<up, object, row, given, kept, mishaps>>

\* alreadyGood: by length, and by what a model of that length begins with.
anythingGoes(k) == k \in DOMAIN file

alreadyGood(k) == k \in DOMAIN file /\ file[k] = "whole"

exportNext(q) ==
    /\ At(q, "exportOne", "next")
    /\ IF job[q].todo = {}
       THEN GoTo(q, "verify")
       ELSE \E k \in job[q].todo :
               job' = [job EXCEPT ![q] = [@ EXCEPT !.todo = job[q].todo \ {k}, !.of = k,
                          !.pc = IF alreadyGood(k) THEN "next" ELSE "open"]]
    /\ NoFile

\* Exit 0 if every row is accounted for; the operator then brings the app up.
verifyExport(q) ==
    /\ At(q, "exportOne", "verify")
    /\ LET good == ~job[q].failed /\ \A k \in row : alreadyGood(k) IN
          /\ up' = good
          /\ kept' = IF good THEN row ELSE kept
    /\ End(q)
    /\ UNCHANGED <<object, row, file, disk, given, mishaps>>

-----------------------------------------------------------------------------
\* Failures

MayStop(q) == StoppedAtSync \/ ~At(q, "exportOne", "syncdir")

\* Within writeAtomically the temporary file is removed; if that fails as well,
\* it stays.  A failed download, insertion or deletion throws; a file that is
\* not removed is left.
failStorage(q) ==
    /\ q \in InFlight(StorageOps) /\ MayStop(q)
    /\ job[q].pc \notin {"next", "verify"}
    /\ Mishap
    /\ IF job[q].pc \in {"write", "sync", "rename", "syncdir"}
       THEN GoTo(q, "clean") ELSE Thrown(q)
    /\ UNCHANGED <<up, object, row, file, disk, given, kept>>

\* The process ends: the directory is as it is, but for a temporary file that
\* stays, which nobody opens.
crashStorage ==
    /\ \A q \in InFlight(StorageOps) : MayStop(q)
    /\ Crash
    /\ UNCHANGED <<up, object, row, file, disk, given, kept>>

powerCut ==
    /\ \A q \in InFlight(StorageOps) : MayStop(q)
    /\ Mishap
    /\ job' = Nothing
    /\ \E left \in [Keys -> UNION {disk[k] : k \in Keys}] :
          /\ \A k \in Keys : left[k] \in disk[k]
          /\ file' = Restrict(left, {k \in Keys : left[k] # Gone})
          /\ disk' = [k \in Keys |-> {left[k]}]
    /\ UNCHANGED <<up, object, row, given, kept>>

StorageNext ==
    \/ \E q \in Requests \ DOMAIN job :
          \/ \E k \in Keys :
                putModel(q, k) \/ withdrawRow(q, k) \/ \E src \in Keys : copyModel(q, src, k)
          \/ \E verifyOnly \in BOOLEAN : exportModels(q, verifyOnly)
    \/ \E q \in DOMAIN job :
          \/ openTemp(q) \/ writeTemp(q) \/ syncTemp(q) \/ renameTemp(q) \/ syncDirectory(q)
          \/ removeTemp(q) \/ insertRowOf(q) \/ deleteRow(q) \/ removeFile(q)
          \/ exportNext(q) \/ verifyExport(q) \/ failStorage(q)
    \/ crashStorage \/ powerCut

StorageSpec ==
    StorageInit /\ job = Nothing /\ mishaps = 0 /\ [][StorageNext]_storageVars
-----------------------------------------------------------------------------
\* export-storage.ts: "Every Story row must end up with a readable file of the
\* right size", and a row inserted later "will claim the file is complete": from
\* the move on, every ticket's file is whole, and would be after a power cut.
EveryRowHasItsModel == up => \A k \in row : disk[k] = {"whole"}

\* The same as a reader finds it, after the power cut and not before: every
\* ticket's file opens, and is whole.
EveryRowOpens == up => \A k \in row : Now(k) = "whole"

Promises == INSTANCE ModelStore WITH
    stored <- {k \in Keys : k \in DOMAIN file /\ file[k] = "whole"}

\* Seven steps and their failures are one step of the store they stand for.
ImplementsModelStore == Promises!MSSpec
=============================================================================
