------------------------------ MODULE HostProofs -----------------------------
(***************************************************************************)
(* What holds on the operator's host for any number of keys, releases,     *)
(* containers, failures and power cuts: of the directory of model files,   *)
(* as long as the move to it is not stopped between a rename and the sync  *)
(* of the directory; of the deploy wizard; and of the full test, as long   *)
(* as its runs do not overlap. They share the table of the handlers; each  *)
(* has an invariant of its own.                                            *)
(***************************************************************************)
EXTENDS Storage, DeployWizard, FullTest, TablesProofs

-----------------------------------------------------------------------------
\* The directory of model files

\* No file is renamed before it was synced, so nothing is ever torn.
DirectoryHolds ==
    /\ DOMAIN file \subseteq given /\ file \in [DOMAIN file -> Bytes]
    /\ disk \in [Keys -> SUBSET (Bytes \cup {Gone})]
    /\ \A k \in Keys : Now(k) \in disk[k]
    /\ \A k \in Keys \ given : disk[k] = {Gone}

\* The objects the move is from, of those there can be.
ObjectsHold == DOMAIN object \subseteq Filed /\ object \in [DOMAIN object -> Bytes]

\* What somebody was told of is whole, and will be after a power cut; while
\* the app runs, that is so of every row, and before it runs nobody was told.
RowsHold ==
    /\ up \in BOOLEAN
    /\ given \subseteq Keys /\ row \subseteq given /\ kept \subseteq given
    /\ \A k \in kept : disk[k] = {"whole"}
    /\ IF up THEN row \subseteq kept ELSE kept = {}

\* What writes a file for an upload.
OfUploads == {"putModel", "copyModel"}

\* The steps between opening a temporary file and being done with it.
Within == {"open", "write", "sync", "rename", "syncdir", "clean"}

\* An upload's key is nobody's yet; it is promised as its handler goes on to
\* the row, and until then the file it is to be is whole from the sync on.
UploadHolds(x) ==
    /\ up
    /\ x.pc \in Within \cup {"insert"}
    /\ x.of \in given \ row
    /\ x.of \in kept <=> x.pc = "insert"
    /\ x.pc \in {"sync", "rename"} => x.bytes = "whole"
    /\ x.pc = "rename" => x.synced
    /\ x.pc = "syncdir" => x.of \in DOMAIN file /\ file[x.of] = "whole"

\* A withdrawal removes the file of a row that is gone, and of which nobody
\* is told again.
WithdrawalHolds(x) ==
    /\ up
    /\ x.pc \in {"delete", "rm"}
    /\ x.of \in given
    /\ x.pc = "rm" => x.of \notin row \cup kept

\* An export runs while the server is down, over the rows that are there.
ExportHolds(x) ==
    /\ ~up
    /\ x.pc \in Within \cup {"next", "verify"}
    /\ x.todo \subseteq row
    /\ x.pc \in Within => x.of \in row
    /\ x.pc = "write" => x.of \in DOMAIN object
    /\ x.pc \in {"sync", "rename"} => x.bytes \in Bytes
    /\ x.pc = "rename" => x.synced

\* By what a handler is for.
JobHolds(x) ==
    /\ x \in StorageJob
    /\ x.op \in OfUploads => UploadHolds(x)
    /\ x.op = "deleteModel" => WithdrawalHolds(x)
    /\ x.op = "exportOne" => ExportHolds(x)

\* So for all in flight.
JobsHold ==
    /\ job \in [DOMAIN job -> StorageJob]
    /\ \A q \in DOMAIN job : JobHolds(job[q])

\* No handler writes or removes what another is uploading, and one export runs.
Apart ==
    \A p, q \in DOMAIN job :
       p # q => /\ job[p].op \in OfUploads /\ job[q].op # "exportOne" => job[p].of # job[q].of
                /\ ~(job[p].op = "exportOne" /\ job[q].op = "exportOne")

\* Before the app runs, what is on the disk is what is seen, except of the
\* one file between its rename and the sync of the directory.
ExportInStep ==
    \A k \in Keys :
       up \/ disk[k] = {Now(k)}
       \/ \E q \in DOMAIN job : At(q, "exportOne", "syncdir") /\ job[q].of = k

\* The six together are inductive.
DirectoryInv == DirectoryHolds /\ ObjectsHold /\ RowsHold /\ JobsHold /\ Apart /\ ExportInStep

-----------------------------------------------------------------------------
\* The handlers a step leaves alone, and the one it moves

\* What a step may do while a handler waits, for the handler to be as it was.
Undisturbed(x) ==
    /\ up' = up /\ object' = object /\ given \subseteq given'
    /\ x.op \in OfUploads =>
          /\ x.of \notin row' \ row
          /\ x.of \in kept' <=> x.of \in kept
          /\ x.of \in DOMAIN file => x.of \in DOMAIN file' /\ file'[x.of] = file[x.of]
    /\ x.op = "deleteModel" => x.of \notin (row' \cup kept') \ (row \cup kept)
    /\ x.op = "exportOne" => row' = row

\* What a handler rests on is not taken away by a step of another.
LEMMA JobStays ==
    ASSUME NEW x, JobHolds(x), Undisturbed(x)
    PROVE  JobHolds(x)'
  BY DEF JobHolds, Undisturbed, UploadHolds, WithdrawalHolds, ExportHolds

\* Two handlers are apart by what they do and of which key.
ApartFrom(x, y) ==
    /\ x.op \in OfUploads /\ y.op # "exportOne" => x.of # y.of
    /\ y.op \in OfUploads /\ x.op # "exportOne" => x.of # y.of
    /\ ~(x.op = "exportOne" /\ y.op = "exportOne")

\* A handler begins apart from all others.
LEMMA JobBegins ==
    ASSUME JobsHold, Apart, NEW q, NEW y, Begin(q, y), JobHolds(y)',
           \A p \in DOMAIN job : Undisturbed(job[p]) /\ ApartFrom(job[p], y)
    PROVE  JobsHold' /\ Apart'
  <1>1. /\ DOMAIN job' = DOMAIN job \cup {q} /\ job'[q] = y /\ q \notin DOMAIN job
        /\ \A s \in DOMAIN job : job'[s] = job[s]
    BY DEF Begin, Put
  <1>2. job' = [s \in DOMAIN job' |-> job'[s]]
    BY DEF Begin, Put
  <1>3. y \in StorageJob
    BY DEF JobHolds
  <1>4. \A s \in DOMAIN job' : job'[s] \in StorageJob /\ JobHolds(job[s])'
    BY <1>1, <1>3, JobStays DEF JobsHold
  <1>5. JobsHold'
    BY <1>2, <1>4 DEF JobsHold
  <1>6. Apart'
    BY <1>1 DEF Apart, ApartFrom
  <1> QED
    BY <1>5, <1>6

\* A handler goes on.
LEMMA JobGoesOn ==
    ASSUME JobsHold, Apart, NEW q \in DOMAIN job, NEW y, job' = [job EXCEPT ![q] = y],
           JobHolds(y)', y.op = job[q].op, y.op # "exportOne" => y.of = job[q].of,
           \A p \in DOMAIN job \ {q} : Undisturbed(job[p])
    PROVE  JobsHold' /\ Apart'
  <1>1. /\ DOMAIN job' = DOMAIN job /\ job'[q] = y
        /\ \A s \in DOMAIN job \ {q} : job'[s] = job[s]
    BY DEF JobsHold
  <1>2. job' = [s \in DOMAIN job' |-> job'[s]]
    BY DEF JobsHold
  <1>3. y \in StorageJob
    BY DEF JobHolds
  <1>4. \A s \in DOMAIN job' : job'[s] \in StorageJob /\ JobHolds(job[s])'
    BY <1>1, <1>3, JobStays DEF JobsHold
  <1>5. JobsHold'
    BY <1>2, <1>4 DEF JobsHold
  <1>6. \A s \in DOMAIN job : /\ job'[s].op = job[s].op
                               /\ job[s].op # "exportOne" => job'[s].of = job[s].of
    BY <1>1
  <1>7. Apart'
    <2>1. SUFFICES ASSUME NEW r \in DOMAIN job', NEW s \in DOMAIN job', r # s
                   PROVE  /\ job'[r].op \in OfUploads /\ job'[s].op # "exportOne"
                             => job'[r].of # job'[s].of
                          /\ ~(job'[r].op = "exportOne" /\ job'[s].op = "exportOne")
      BY DEF Apart
    <2>2. /\ job[r].op \in OfUploads /\ job[s].op # "exportOne" => job[r].of # job[s].of
          /\ ~(job[r].op = "exportOne" /\ job[s].op = "exportOne")
      BY <1>1, <2>1 DEF Apart
    <2>3. /\ job'[r].op = job[r].op /\ job'[s].op = job[s].op
          /\ job[r].op # "exportOne" => job'[r].of = job[r].of
          /\ job[s].op # "exportOne" => job'[s].of = job[s].of
      BY <1>1, <1>6
    <2> QED
      BY <2>2, <2>3 DEF OfUploads
  <1> QED
    BY <1>5, <1>7

\* A handler ends.
LEMMA JobEnds ==
    ASSUME JobsHold, Apart, NEW q \in DOMAIN job, End(q),
           \A p \in DOMAIN job \ {q} : Undisturbed(job[p])
    PROVE  JobsHold' /\ Apart'
  <1>1. DOMAIN job' = DOMAIN job \ {q} /\ \A s \in DOMAIN job' : job'[s] = job[s]
    BY DEF End, Drop, Restrict
  <1>2. job' = [s \in DOMAIN job' |-> job'[s]]
    BY DEF End, Drop, Restrict
  <1>3. \A s \in DOMAIN job' : job'[s] \in StorageJob /\ JobHolds(job[s])'
    BY <1>1, JobStays DEF JobsHold
  <1>4. JobsHold'
    BY <1>2, <1>3 DEF JobsHold
  <1>5. Apart'
    BY <1>1 DEF Apart
  <1> QED
    BY <1>4, <1>5

\* The one export stays between its rename and the sync of the directory as
\* long as neither the directory nor its handler moves.
LEMMA InStepStays ==
    ASSUME ExportInStep, UNCHANGED <<up, file, disk>>,
           \A p \in DOMAIN job : At(p, "exportOne", "syncdir")
                                 => p \in DOMAIN job' /\ job'[p] = job[p]
    PROVE  ExportInStep'
  BY DEF ExportInStep, At, Now

\* A step that moves handlers and nothing else.
LEMMA NothingElse ==
    ASSUME DirectoryInv, UNCHANGED <<up, object, row, file, disk, given, kept>>,
           JobsHold', Apart', ExportInStep'
    PROVE  DirectoryInv'
  BY DEF DirectoryInv, DirectoryHolds, ObjectsHold, RowsHold, Now

\* A step that writes neither file nor row disturbs nobody.
LEMMA NoFileUndisturbed ==
    ASSUME UNCHANGED <<up, object, row, file, disk, given, kept>>, NEW x
    PROVE  Undisturbed(x)
  BY DEF Undisturbed

-----------------------------------------------------------------------------
\* The invariant, one step after another

\* An upload starts with a key nobody has.
LEMMA UploadBegins ==
    ASSUME DirectoryInv, NEW q, NEW op \in OfUploads, NEW k \in Keys \ given, NEW src \in Keys \cup {None},
           up, given' = given \cup {k}, StorageWork(q, op, "open", k, src, {}),
           UNCHANGED <<up, object, row, file, disk, kept, mishaps>>
    PROVE  DirectoryInv'
  <1> DEFINE y == [op |-> op, pc |-> "open", of |-> k, from |-> src, bytes |-> None,
                   synced |-> FALSE, todo |-> {}, failed |-> FALSE]
  <1>1. Begin(q, y)
    BY DEF StorageWork
  <1>2. y \in StorageJob /\ y.op \in OfUploads /\ y.op = op /\ y.pc = "open" /\ y.of = k
    BY DEF StorageJob, StorageOps, Writers, OfUploads
  <1> HIDE DEF y
  <1>3. k \notin row /\ k \notin kept
    BY DEF DirectoryInv, RowsHold
  <1>4. JobHolds(y)'
    BY <1>2, <1>3 DEF JobHolds, UploadHolds, OfUploads, Within
  <1>5. ASSUME NEW p \in DOMAIN job
        PROVE  Undisturbed(job[p]) /\ ApartFrom(job[p], y)
    <2>1. JobHolds(job[p])
      BY DEF DirectoryInv, JobsHold
    <2>2. Undisturbed(job[p])
      BY DEF Undisturbed
    <2>3. job[p].op # "exportOne" => job[p].of \in given
      BY <2>1 DEF JobHolds, UploadHolds, WithdrawalHolds, OfUploads, StorageJob, StorageOps, Writers
    <2> QED
      BY <1>2, <2>2, <2>3 DEF ApartFrom, OfUploads
  <1>6. JobsHold' /\ Apart'
    BY <1>1, <1>4, <1>5, JobBegins DEF DirectoryInv
  <1> QED
    BY <1>6 DEF DirectoryInv, DirectoryHolds, ObjectsHold, RowsHold, ExportInStep, Now

\* A withdrawal starts with a row, whose key no upload in flight has.
LEMMA WithdrawalBegins ==
    ASSUME DirectoryInv, NEW q, NEW k, withdrawRow(q, k)
    PROVE  DirectoryInv'
  <1> DEFINE y == [op |-> "deleteModel", pc |-> "delete", of |-> k, from |-> None,
                   bytes |-> None, synced |-> FALSE, todo |-> {}, failed |-> FALSE]
  <1>1. Begin(q, y) /\ up /\ k \in row /\ UNCHANGED <<up, object, row, file, disk, given, kept>>
    BY DEF withdrawRow, StorageWork
  <1>2. k \in given /\ k \in Keys
    BY <1>1 DEF DirectoryInv, RowsHold
  <1>3. y \in StorageJob /\ y.op = "deleteModel" /\ y.pc = "delete" /\ y.of = k
    BY <1>2 DEF StorageJob, StorageOps, Writers
  <1> HIDE DEF y
  <1>4. JobHolds(y)'
    BY <1>1, <1>2, <1>3 DEF JobHolds, WithdrawalHolds, OfUploads
  <1>5. ASSUME NEW p \in DOMAIN job
        PROVE  Undisturbed(job[p]) /\ ApartFrom(job[p], y)
    <2>1. JobHolds(job[p])
      BY DEF DirectoryInv, JobsHold
    <2>2. Undisturbed(job[p])
      BY <1>1, NoFileUndisturbed
    <2>3. job[p].op \in OfUploads => job[p].of \notin row
      BY <2>1 DEF JobHolds, UploadHolds
    <2> QED
      BY <1>1, <1>3, <2>2, <2>3 DEF ApartFrom, OfUploads
  <1>6. JobsHold' /\ Apart'
    BY <1>1, <1>4, <1>5, JobBegins DEF DirectoryInv
  <1>7. ExportInStep'
    BY <1>1 DEF ExportInStep
  <1> QED
    BY <1>1, <1>6, <1>7, NothingElse

\* An export starts when there is none, before the app runs.
LEMMA ExportBegins ==
    ASSUME DirectoryInv, NEW q, NEW verifyOnly, exportModels(q, verifyOnly)
    PROVE  DirectoryInv'
  <1> DEFINE ks == IF verifyOnly THEN {} ELSE row
  <1>1. /\ ~up /\ UNCHANGED <<up, object, row, file, disk, given, kept>>
        /\ \A p \in DOMAIN job : job[p].op # "exportOne"
    BY DEF exportModels, Quiet, InFlight
  <1>2. ks \subseteq row /\ row \subseteq Keys
    BY DEF DirectoryInv, RowsHold
  <1> PICK y : /\ y = [op |-> "exportOne", pc |-> "next", of |-> None, from |-> None,
                       bytes |-> None, synced |-> FALSE, todo |-> ks, failed |-> FALSE]
              /\ Begin(q, y)
    BY DEF exportModels, StorageWork
  <1>3. y \in StorageJob /\ y.op = "exportOne" /\ y.pc = "next" /\ y.todo \subseteq row
    BY <1>2 DEF StorageJob, StorageOps, Writers
  <1>4. JobHolds(y)'
    BY <1>1, <1>3 DEF JobHolds, ExportHolds, OfUploads, Within
  <1>5. ASSUME NEW p \in DOMAIN job
        PROVE  Undisturbed(job[p]) /\ ApartFrom(job[p], y)
    BY <1>1, <1>3, NoFileUndisturbed DEF ApartFrom, OfUploads
  <1>6. JobsHold' /\ Apart'
    BY <1>1, <1>4, <1>5, JobBegins DEF DirectoryInv
  <1>7. ExportInStep'
    <2>1. q \notin DOMAIN job /\ \A s \in DOMAIN job : s \in DOMAIN job' /\ job'[s] = job[s]
      BY <1>1 DEF Begin, Put
    <2> QED
      BY <1>1, <2>1, InStepStays DEF DirectoryInv
  <1> QED
    BY <1>1, <1>6, <1>7, NothingElse

\* A handler that goes on without touching the directory, and is not between
\* the rename and the sync of it.
LEMMA Onward ==
    ASSUME DirectoryInv, NEW q \in DOMAIN job, NEW y, job' = [job EXCEPT ![q] = y], JobHolds(y)',
           y.op = job[q].op, y.op # "exportOne" => y.of = job[q].of,
           UNCHANGED <<up, object, row, file, disk, given, kept>>,
           ~At(q, "exportOne", "syncdir")
    PROVE  DirectoryInv'
  <1>1. JobsHold' /\ Apart'
    BY JobGoesOn, NoFileUndisturbed DEF DirectoryInv
  <1>2. \A p \in DOMAIN job : p # q => p \in DOMAIN job' /\ job'[p] = job[p]
    OBVIOUS
  <1>3. ExportInStep'
    BY <1>2, InStepStays DEF DirectoryInv
  <1> QED
    BY <1>1, <1>3, NothingElse

\* A handler gives up where it has nothing to undo.
LEMMA Ended ==
    ASSUME DirectoryInv, NEW q \in DOMAIN job, End(q),
           UNCHANGED <<up, object, row, file, disk, given, kept>>,
           ~At(q, "exportOne", "syncdir")
    PROVE  DirectoryInv'
  <1>1. JobsHold' /\ Apart'
    BY JobEnds, NoFileUndisturbed DEF DirectoryInv
  <1>2. \A p \in DOMAIN job : p # q => p \in DOMAIN job' /\ job'[p] = job[p]
    BY DEF End, Drop, Restrict
  <1>3. ExportInStep'
    BY <1>2, InStepStays DEF DirectoryInv
  <1> QED
    BY <1>1, <1>3, NothingElse

\* An error ends an upload or a withdrawal, and an export goes on to the next key.
LEMMA ThrownSafe ==
    ASSUME DirectoryInv, NEW q \in DOMAIN job, Thrown(q), job[q].pc # "syncdir",
           UNCHANGED <<up, object, row, file, disk, given, kept>>
    PROVE  DirectoryInv'
  <1>1. JobHolds(job[q]) /\ job[q] \in StorageJob
    BY DEF DirectoryInv, JobsHold
  <1>2. ~At(q, "exportOne", "syncdir")
    BY DEF At
  <1>3. CASE job[q].op # "exportOne"
    BY <1>2, <1>3, Ended DEF Thrown
  <1>4. CASE job[q].op = "exportOne"
    <2> PICK y : y = [job[q] EXCEPT !.pc = "next", !.bytes = None,
                                    !.synced = FALSE, !.failed = TRUE]
      OBVIOUS
    <2>1. job' = [job EXCEPT ![q] = y]
      BY <1>4 DEF Thrown
    <2>2. y \in StorageJob /\ y.op = "exportOne" /\ y.pc = "next" /\ y.todo = job[q].todo
      BY <1>1, <1>4 DEF StorageJob
    <2>3. JobHolds(y)'
      BY <1>1, <1>4, <2>2 DEF JobHolds, ExportHolds, OfUploads, Within
    <2> QED
      BY <1>2, <1>4, <2>1, <2>2, <2>3, Onward
  <1> QED
    BY <1>3, <1>4

\* The calls of writeAtomically up to the rename touch a temporary file only.
LEMMA OpenSafe ==
    ASSUME DirectoryInv, NEW q, openTemp(q)
    PROVE  DirectoryInv'
  <1>1. /\ q \in DOMAIN job /\ job[q].op \in Writers /\ job[q].pc = "open"
        /\ UNCHANGED <<up, object, row, file, disk, given, kept>>
    BY DEF openTemp, Storing, InFlight, NoFile
  <1>2. JobHolds(job[q]) /\ job[q] \in StorageJob
    BY <1>1 DEF DirectoryInv, JobsHold
  <1>3. CASE Source(job[q]) = None
    BY <1>1, <1>3, ThrownSafe DEF openTemp
  <1>4. CASE Source(job[q]) # None
    <2> PICK y : y = [job[q] EXCEPT !.pc = "write", !.bytes = "part"]
      OBVIOUS
    <2>1. job' = [job EXCEPT ![q] = y]
      BY <1>1, <1>4 DEF openTemp, DirectoryInv, JobsHold
    <2>2. /\ y \in StorageJob /\ y.pc = "write"
          /\ y.op = job[q].op /\ y.of = job[q].of /\ y.todo = job[q].todo
      BY <1>2 DEF StorageJob, Bytes
    <2>3. job[q].op = "exportOne" => job[q].of \in DOMAIN object
      BY <1>4 DEF Source
    <2>4. JobHolds(y)'
      BY <1>1, <1>2, <2>2, <2>3
         DEF JobHolds, UploadHolds, ExportHolds, OfUploads, Within, Writers
    <2> QED
      BY <1>1, <2>1, <2>2, <2>4, Onward DEF At
  <1> QED
    BY <1>3, <1>4

\* The bytes are written to the temporary file.
LEMMA WriteSafe ==
    ASSUME DirectoryInv, NEW q, writeTemp(q)
    PROVE  DirectoryInv'
  <1> DEFINE written == IF job[q].op = "exportOne" THEN object[job[q].of] ELSE "whole"
  <1>1. /\ q \in DOMAIN job /\ job[q].op \in Writers /\ job[q].pc = "write"
        /\ UNCHANGED <<up, object, row, file, disk, given, kept>>
    BY DEF writeTemp, Storing, InFlight, NoFile
  <1>2. JobHolds(job[q]) /\ job[q] \in StorageJob
    BY <1>1 DEF DirectoryInv, JobsHold
  <1>3. written \in Bytes /\ (job[q].op # "exportOne" => written = "whole")
    BY <1>1, <1>2 DEF JobHolds, ExportHolds, DirectoryInv, ObjectsHold, Bytes
  <1> PICK y : y = [job[q] EXCEPT !.pc = "sync", !.bytes = written]
    OBVIOUS
  <1>4. job' = [job EXCEPT ![q] = y]
    BY <1>1 DEF writeTemp, DirectoryInv, JobsHold
  <1>5. /\ y \in StorageJob /\ y.pc = "sync" /\ y.bytes = written
        /\ y.op = job[q].op /\ y.of = job[q].of /\ y.todo = job[q].todo
    BY <1>2, <1>3 DEF StorageJob
  <1> HIDE DEF written
  <1>6. JobHolds(y)'
    BY <1>1, <1>2, <1>3, <1>5
       DEF JobHolds, UploadHolds, ExportHolds, OfUploads, Within, Writers
  <1> QED
    BY <1>1, <1>4, <1>5, <1>6, Onward DEF At

\* The temporary file is synced.
LEMMA SyncSafe ==
    ASSUME DirectoryInv, NEW q, syncTemp(q)
    PROVE  DirectoryInv'
  <1>1. /\ q \in DOMAIN job /\ job[q].op \in Writers /\ job[q].pc = "sync"
        /\ UNCHANGED <<up, object, row, file, disk, given, kept>>
    BY DEF syncTemp, Storing, InFlight, NoFile
  <1>2. JobHolds(job[q]) /\ job[q] \in StorageJob
    BY <1>1 DEF DirectoryInv, JobsHold
  <1> PICK y : y = [job[q] EXCEPT !.pc = "rename", !.synced = TRUE]
    OBVIOUS
  <1>4. job' = [job EXCEPT ![q] = y]
    BY <1>1 DEF syncTemp, DirectoryInv, JobsHold
  <1>5. /\ y \in StorageJob /\ y.pc = "rename" /\ y.bytes = job[q].bytes /\ y.synced
        /\ y.op = job[q].op /\ y.of = job[q].of /\ y.todo = job[q].todo
    BY <1>2 DEF StorageJob
  <1>6. JobHolds(y)'
    BY <1>1, <1>2, <1>5
       DEF JobHolds, UploadHolds, ExportHolds, OfUploads, Within, Writers
  <1> QED
    BY <1>1, <1>4, <1>5, <1>6, Onward DEF At

\* What is renamed to a key was synced, is not yet anybody's, and is the whole
\* model unless an export's object was damaged.
LEMMA TakesItsName ==
    ASSUME DirectoryInv, NEW q, renameTemp(q)
    PROVE  /\ q \in DOMAIN job /\ job[q].op \in Writers /\ job[q].pc = "rename"
           /\ job[q] \in StorageJob /\ JobHolds(job[q])
           /\ job[q].of \in given /\ job[q].of \in Keys /\ job[q].of \notin kept
           /\ job[q].bytes \in Bytes
           /\ file' = Put(file, job[q].of, job[q].bytes)
           /\ disk' = [disk EXCEPT ![job[q].of] = @ \cup {job[q].bytes}]
           /\ UNCHANGED <<up, object, row, given, kept>>
           /\ job[q].op # "exportOne" => job[q].bytes = "whole"
           /\ job[q].op = "exportOne" => kept = {} /\ ~up
  <1>1. /\ q \in DOMAIN job /\ job[q].op \in Writers /\ job[q].pc = "rename"
        /\ file' = Put(file, job[q].of, job[q].bytes)
        /\ UNCHANGED <<up, object, row, given, kept>>
    BY DEF renameTemp, Storing, InFlight
  <1>2. JobHolds(job[q]) /\ job[q] \in StorageJob
    BY <1>1 DEF DirectoryInv, JobsHold
  <1>3. job[q].op # "exportOne" => job[q].op \in OfUploads
    BY <1>1 DEF Writers, OfUploads
  <1>4. /\ job[q].of \in given /\ job[q].of \notin kept /\ job[q].bytes \in Bytes
        /\ job[q].synced /\ (job[q].op # "exportOne" => job[q].bytes = "whole")
        /\ job[q].op = "exportOne" => kept = {} /\ ~up
    BY <1>1, <1>2, <1>3 DEF JobHolds, UploadHolds, ExportHolds, Within, DirectoryInv, RowsHold, Bytes
  <1>5. job[q].of \in Keys
    BY <1>4 DEF DirectoryInv, RowsHold
  <1>6. disk' = [disk EXCEPT ![job[q].of] = @ \cup {job[q].bytes}]
    BY <1>4 DEF renameTemp
  <1> QED
    BY <1>1, <1>2, <1>4, <1>5, <1>6

\* It takes the name of the model: synced, its bytes are whole.
LEMMA RenameSafe ==
    ASSUME DirectoryInv, NEW q, renameTemp(q)
    PROVE  DirectoryInv'
  <1> PICK k : k = job[q].of
    OBVIOUS
  <1> PICK y : y = [job[q] EXCEPT !.pc = "syncdir", !.bytes = None]
    OBVIOUS
  <1>1. /\ q \in DOMAIN job /\ job[q].op \in Writers /\ job[q].pc = "rename"
        /\ job[q] \in StorageJob /\ JobHolds(job[q])
        /\ k \in given /\ k \in Keys /\ k \notin kept
        /\ job[q].bytes \in Bytes
        /\ UNCHANGED <<up, object, row, given, kept>>
        /\ job[q].op # "exportOne" => job[q].bytes = "whole"
        /\ job[q].op = "exportOne" => kept = {} /\ ~up
    BY TakesItsName
  <1>2. /\ DOMAIN file' = DOMAIN file \cup {k} /\ file'[k] = job[q].bytes
        /\ \A l \in DOMAIN file \ {k} : file'[l] = file[l]
        /\ file' \in [DOMAIN file' -> Bytes]
    <2>1. file' = Put(file, k, job[q].bytes)
      BY TakesItsName
    <2>2. DOMAIN file \subseteq given /\ file \in [DOMAIN file -> Bytes]
      BY DEF DirectoryInv, DirectoryHolds
    <2>3. /\ DOMAIN file' = DOMAIN file \cup {k} /\ file'[k] = job[q].bytes
          /\ \A l \in DOMAIN file \ {k} : file'[l] = file[l]
      BY <2>1 DEF Put
    <2>4. file' = [l \in DOMAIN file' |-> file'[l]]
      BY <2>1 DEF Put
    <2> QED
      BY <1>1, <2>2, <2>3, <2>4
  <1>3. /\ disk' \in [Keys -> SUBSET (Bytes \cup {Gone})]
        /\ disk'[k] = disk[k] \cup {job[q].bytes}
        /\ \A l \in Keys \ {k} : disk'[l] = disk[l]
    <2>1. disk' = [disk EXCEPT ![k] = @ \cup {job[q].bytes}]
      BY TakesItsName
    <2>2. disk \in [Keys -> SUBSET (Bytes \cup {Gone})]
      BY DEF DirectoryInv, DirectoryHolds
    <2> QED
      BY <1>1, <2>1, <2>2
  <1>4. DirectoryHolds'
    BY <1>1, <1>2, <1>3 DEF DirectoryInv, DirectoryHolds, Now
  <1>5. ObjectsHold' /\ RowsHold'
    BY <1>1, <1>3 DEF DirectoryInv, ObjectsHold, RowsHold
  <1>6. /\ y \in StorageJob /\ y.pc = "syncdir" /\ y.op = job[q].op /\ y.of = job[q].of
        /\ y.todo = job[q].todo
    BY <1>1 DEF StorageJob
  <1>7. job' = [job EXCEPT ![q] = y]
    BY <1>1 DEF renameTemp, DirectoryInv, JobsHold
  <1>8. JobHolds(y)'
    BY <1>1, <1>2, <1>6
       DEF JobHolds, UploadHolds, ExportHolds, OfUploads, Within, Writers
  <1>9. ASSUME NEW p \in DOMAIN job \ {q}
        PROVE  Undisturbed(job[p])
    <2>1. job[p].op \in OfUploads => job[p].of # k
      <3>1. job[q].op # "exportOne" => (job[p].op \in OfUploads => job[p].of # k)
        BY <1>1 DEF DirectoryInv, Apart
      <3>2. job[q].op = "exportOne" => job[p].op \notin OfUploads
        BY <1>1 DEF DirectoryInv, JobsHold, JobHolds, UploadHolds
      <3> QED
        BY <3>1, <3>2
    <2> QED
      BY <1>1, <1>2, <2>1 DEF Undisturbed
  <1>10. JobsHold' /\ Apart'
    BY <1>1, <1>6, <1>7, <1>8, <1>9, JobGoesOn DEF DirectoryInv
  <1>11. ExportInStep'
    <2>1. CASE up
      BY <1>1, <2>1 DEF ExportInStep
    <2>2. CASE ~up
      <3>1. job[q].op = "exportOne"
        BY <1>1, <2>2 DEF JobHolds, UploadHolds, OfUploads, Writers
      <3>2. \A p \in DOMAIN job : p # q => job[p].op # "exportOne"
        BY <1>1, <3>1 DEF DirectoryInv, Apart
      <3>3. \A l \in Keys : disk[l] = {Now(l)}
        BY <1>1, <3>1, <3>2 DEF DirectoryInv, ExportInStep, At
      <3>4. \A l \in Keys \ {k} : disk'[l] = {Now(l)'}
        BY <1>2, <1>3, <3>3 DEF Now
      <3>5. At(q, "exportOne", "syncdir")' /\ job'[q].of = k
        BY <1>1, <1>6, <1>7, <3>1 DEF At
      <3>6. q \in DOMAIN job'
        BY <1>1, <1>7
      <3> QED
        BY <3>4, <3>5, <3>6 DEF ExportInStep
    <2> QED
      BY <2>1, <2>2
  <1> QED
    BY <1>4, <1>5, <1>10, <1>11 DEF DirectoryInv

\* With the directory synced what is seen is what stays, so that an upload's
\* key can be promised.
LEMMA DirectorySafe ==
    ASSUME DirectoryInv, NEW q, syncDirectory(q)
    PROVE  DirectoryInv'
  <1> PICK k : k = job[q].of
    OBVIOUS
  <1>1. /\ q \in DOMAIN job /\ job[q].op \in Writers /\ job[q].pc = "syncdir"
        /\ disk' = [l \in Keys |-> {Now(l)} \cup (disk[l] \cap {Torn})] /\ AfterStoring(q)
        /\ UNCHANGED <<up, object, row, file, given>>
    BY DEF syncDirectory, Storing, InFlight
  <1>2. JobHolds(job[q]) /\ job[q] \in StorageJob
    BY <1>1 DEF DirectoryInv, JobsHold
  <1>3. \A l \in Keys : disk'[l] = {Now(l)} /\ Now(l)' = Now(l)
    <2>1. \A l \in Keys : Torn \notin disk[l]
      BY DEF DirectoryInv, DirectoryHolds, Bytes, Torn, Gone
    <2>2. ASSUME NEW l \in Keys
          PROVE  disk'[l] = {Now(l)} \cup (disk[l] \cap {Torn})
      BY <1>1
    <2>3. \A l \in Keys : Now(l)' = Now(l)
      BY <1>1 DEF Now
    <2> QED
      BY <2>1, <2>2, <2>3
  <1>4. DirectoryHolds'
    <2>1. \A l \in Keys : Now(l) \in Bytes \cup {Gone}
      BY DEF Now, DirectoryInv, DirectoryHolds
    <2>2. disk' = [l \in Keys |-> disk'[l]]
      BY <1>1
    <2>3. disk' \in [Keys -> SUBSET (Bytes \cup {Gone})]
      BY <1>3, <2>1, <2>2
    <2>4. \A l \in Keys : Now(l)' \in disk'[l]
      BY <1>3
    <2>5. \A l \in Keys \ given : disk'[l] = {Gone}
      BY <1>3 DEF Now, DirectoryInv, DirectoryHolds
    <2> QED
      BY <1>1, <2>3, <2>4, <2>5 DEF DirectoryInv, DirectoryHolds
  <1>5. ExportInStep' /\ ObjectsHold'
    BY <1>1, <1>3 DEF ExportInStep, DirectoryInv, ObjectsHold
  <1>6. \A l \in kept : disk'[l] = {"whole"}
    BY <1>3 DEF DirectoryInv, RowsHold, DirectoryHolds
  <1>7. CASE job[q].op = "exportOne"
    <2> PICK y : y = [job[q] EXCEPT !.pc = "next", !.synced = FALSE]
      OBVIOUS
    <2>1. job' = [job EXCEPT ![q] = y] /\ kept' = kept
      BY <1>1, <1>7 DEF AfterStoring
    <2>2. y \in StorageJob /\ y.pc = "next" /\ y.op = "exportOne" /\ y.todo = job[q].todo
      BY <1>2, <1>7 DEF StorageJob
    <2>3. JobHolds(y)'
      BY <1>1, <1>2, <1>7, <2>2 DEF JobHolds, ExportHolds, OfUploads, Within
    <2>4. \A p \in DOMAIN job \ {q} : Undisturbed(job[p])
      BY <1>1, <2>1 DEF Undisturbed
    <2>5. JobsHold' /\ Apart'
      BY <1>1, <1>7, <2>1, <2>2, <2>3, <2>4, JobGoesOn DEF DirectoryInv
    <2> QED
      BY <1>1, <1>4, <1>5, <1>6, <2>1, <2>5 DEF DirectoryInv, RowsHold
  <1>8. CASE job[q].op # "exportOne"
    <2> PICK y : y = [job[q] EXCEPT !.pc = "insert"]
      OBVIOUS
    <2>1. job' = [job EXCEPT ![q] = y] /\ kept' = kept \cup {k}
      BY <1>1, <1>8 DEF AfterStoring, GoTo
    <2>2. y \in StorageJob /\ y.pc = "insert" /\ y.op = job[q].op /\ y.of = k
      BY <1>2 DEF StorageJob
    <2>3. job[q].op \in OfUploads
      BY <1>1, <1>8 DEF OfUploads, Writers
    <2>4. k \in given \ row /\ up /\ k \in DOMAIN file /\ file[k] = "whole"
      BY <1>1, <1>2, <2>3 DEF JobHolds, UploadHolds
    <2>5. JobHolds(y)'
      BY <1>1, <2>1, <2>2, <2>3, <2>4 DEF JobHolds, UploadHolds, OfUploads
    <2>6. ASSUME NEW p \in DOMAIN job \ {q}
          PROVE  Undisturbed(job[p])
      <3>1. job[p].op # "exportOne" => job[p].of # k
        BY <1>1, <2>3 DEF DirectoryInv, Apart
      <3> QED
        BY <1>1, <2>1, <3>1 DEF Undisturbed, OfUploads
    <2>7. JobsHold' /\ Apart'
      BY <1>1, <2>1, <2>2, <2>5, <2>6, JobGoesOn DEF DirectoryInv
    <2>8. RowsHold'
      <3>1. k \in Keys /\ disk'[k] = {"whole"}
        BY <1>3, <2>4 DEF Now, DirectoryInv, RowsHold
      <3> QED
        BY <1>1, <1>6, <2>1, <2>4, <3>1 DEF DirectoryInv, RowsHold
    <2> QED
      BY <1>4, <1>5, <2>7, <2>8 DEF DirectoryInv
  <1> QED
    BY <1>7, <1>8

\* The temporary file is removed after a failure.
LEMMA CleanSafe ==
    ASSUME DirectoryInv, NEW q, removeTemp(q)
    PROVE  DirectoryInv'
  BY ThrownSafe DEF removeTemp, Storing, InFlight, NoFile

\* The row an upload inserts is of a key that is promised.
LEMMA InsertSafe ==
    ASSUME DirectoryInv, NEW q, insertRowOf(q)
    PROVE  DirectoryInv'
  <1> PICK k : k = job[q].of
    OBVIOUS
  <1>1. /\ q \in DOMAIN job /\ job[q].op \in Writers /\ job[q].pc = "insert"
        /\ row' = row \cup {k} /\ End(q)
        /\ UNCHANGED <<up, object, file, disk, given, kept>>
    BY DEF insertRowOf, Storing, InFlight
  <1>2. JobHolds(job[q])
    BY <1>1 DEF DirectoryInv, JobsHold
  <1>3. job[q].op \in OfUploads
    BY <1>1, <1>2 DEF JobHolds, ExportHolds, Within, Writers, OfUploads
  <1>4. k \in given /\ k \in kept /\ up
    BY <1>1, <1>2, <1>3 DEF JobHolds, UploadHolds
  <1>5. ASSUME NEW p \in DOMAIN job \ {q}
        PROVE  Undisturbed(job[p])
    <2>1. job[p].op # "exportOne" => job[p].of # k
      BY <1>1, <1>3 DEF DirectoryInv, Apart
    <2>2. job[p].op # "exportOne"
      BY <1>4 DEF DirectoryInv, JobsHold, JobHolds, ExportHolds
    <2> QED
      BY <1>1, <2>1, <2>2 DEF Undisturbed
  <1>6. JobsHold' /\ Apart'
    BY <1>1, <1>5, JobEnds DEF DirectoryInv
  <1>7. RowsHold'
    BY <1>1, <1>4 DEF DirectoryInv, RowsHold
  <1> QED
    BY <1>1, <1>4, <1>6, <1>7 DEF DirectoryInv, DirectoryHolds, ObjectsHold, ExportInStep, Now

\* A withdrawal deletes the row, and then the file.
LEMMA DeleteRowSafe ==
    ASSUME DirectoryInv, NEW q, deleteRow(q)
    PROVE  DirectoryInv'
  <1> PICK k : k = job[q].of
    OBVIOUS
  <1>1. /\ q \in DOMAIN job /\ job[q].op = "deleteModel" /\ job[q].pc = "delete"
        /\ row' = row \ {k} /\ kept' = kept \ {k}
        /\ (IF k \in row THEN GoTo(q, "rm") ELSE End(q))
        /\ UNCHANGED <<up, object, file, disk, given>>
    BY DEF deleteRow, At
  <1>2. JobHolds(job[q]) /\ job[q] \in StorageJob
    BY <1>1 DEF DirectoryInv, JobsHold
  <1>3. up /\ k \in given
    BY <1>1, <1>2 DEF JobHolds, WithdrawalHolds
  <1>4. ASSUME NEW p \in DOMAIN job \ {q}
        PROVE  Undisturbed(job[p])
    <2>1. job[p].op \in OfUploads => job[p].of # k
      BY <1>1 DEF DirectoryInv, Apart
    <2>2. job[p].op # "exportOne"
      BY <1>3 DEF DirectoryInv, JobsHold, JobHolds, ExportHolds
    <2> QED
      BY <1>1, <2>1, <2>2 DEF Undisturbed
  <1>5. JobsHold' /\ Apart'
    <2>1. CASE k \in row
      <3> PICK y : y = [job[q] EXCEPT !.pc = "rm"]
        OBVIOUS
      <3>1. job' = [job EXCEPT ![q] = y]
        BY <1>1, <2>1 DEF GoTo
      <3>2. y \in StorageJob /\ y.pc = "rm" /\ y.op = "deleteModel" /\ y.of = k
        BY <1>1, <1>2 DEF StorageJob
      <3>3. JobHolds(y)'
        BY <1>1, <1>3, <3>2 DEF JobHolds, WithdrawalHolds, OfUploads
      <3> QED
        BY <1>1, <1>4, <3>1, <3>2, <3>3, JobGoesOn DEF DirectoryInv
    <2>2. CASE k \notin row
      BY <1>1, <1>4, <2>2, JobEnds DEF DirectoryInv
    <2> QED
      BY <2>1, <2>2
  <1>6. RowsHold'
    BY <1>1, <1>3 DEF DirectoryInv, RowsHold
  <1> QED
    BY <1>1, <1>3, <1>5, <1>6 DEF DirectoryInv, DirectoryHolds, ObjectsHold, ExportInStep, Now

\* The file that is removed is of nobody's key by then.
LEMMA RemoveSafe ==
    ASSUME DirectoryInv, NEW q, removeFile(q)
    PROVE  DirectoryInv'
  <1> PICK k : k = job[q].of
    OBVIOUS
  <1>1. /\ q \in DOMAIN job /\ job[q].op = "deleteModel" /\ job[q].pc = "rm"
        /\ file' = Drop(file, k) /\ disk' = [disk EXCEPT ![k] = @ \cup {Gone}]
        /\ End(q) /\ UNCHANGED <<up, object, row, given, kept>>
    BY DEF removeFile, At
  <1>2. JobHolds(job[q])
    BY <1>1 DEF DirectoryInv, JobsHold
  <1>3. up /\ k \in given /\ k \notin kept /\ k \in Keys
    BY <1>1, <1>2 DEF JobHolds, WithdrawalHolds, DirectoryInv, RowsHold
  <1>4. /\ DOMAIN file' = DOMAIN file \ {k} /\ file' \in [DOMAIN file' -> Bytes]
        /\ \A l \in DOMAIN file' : file'[l] = file[l]
    <2>1. /\ DOMAIN file' = DOMAIN file \ {k} /\ file' = [l \in DOMAIN file' |-> file'[l]]
          /\ \A l \in DOMAIN file' : file'[l] = file[l]
      BY <1>1 DEF Drop, Restrict
    <2>2. \A l \in DOMAIN file : file[l] \in Bytes
      BY DEF DirectoryInv, DirectoryHolds
    <2> QED
      BY <2>1, <2>2
  <1>5. /\ disk' \in [Keys -> SUBSET (Bytes \cup {Gone})] /\ disk'[k] = disk[k] \cup {Gone}
        /\ \A l \in Keys \ {k} : disk'[l] = disk[l]
    <2>1. disk \in [Keys -> SUBSET (Bytes \cup {Gone})]
      BY DEF DirectoryInv, DirectoryHolds
    <2> QED
      BY <1>1, <1>3, <2>1
  <1>6. DirectoryHolds'
    BY <1>1, <1>4, <1>5 DEF DirectoryInv, DirectoryHolds, Now
  <1>7. RowsHold' /\ ObjectsHold' /\ ExportInStep'
    BY <1>1, <1>3, <1>5 DEF DirectoryInv, RowsHold, ObjectsHold, ExportInStep
  <1>8. ASSUME NEW p \in DOMAIN job \ {q}
        PROVE  Undisturbed(job[p])
    <2>1. job[p].op \in OfUploads => job[p].of # k
      BY <1>1 DEF DirectoryInv, Apart
    <2> QED
      BY <1>1, <1>4, <2>1 DEF Undisturbed
  <1>9. JobsHold' /\ Apart'
    BY <1>1, <1>8, JobEnds DEF DirectoryInv
  <1> QED
    BY <1>6, <1>7, <1>9 DEF DirectoryInv

\* The export takes the next row that has no file.
LEMMA ExportNextSafe ==
    ASSUME DirectoryInv, NEW q, exportNext(q)
    PROVE  DirectoryInv'
  <1>1. /\ q \in DOMAIN job /\ job[q].op = "exportOne" /\ job[q].pc = "next"
        /\ UNCHANGED <<up, object, row, file, disk, given, kept>>
    BY DEF exportNext, At, NoFile
  <1>2. JobHolds(job[q]) /\ job[q] \in StorageJob /\ ExportHolds(job[q])
    BY <1>1 DEF DirectoryInv, JobsHold, JobHolds
  <1>3. CASE job[q].todo = {}
    <2> PICK y : y = [job[q] EXCEPT !.pc = "verify"]
      OBVIOUS
    <2>1. job' = [job EXCEPT ![q] = y]
      BY <1>3 DEF exportNext, GoTo
    <2>2. y \in StorageJob /\ y.pc = "verify" /\ y.op = "exportOne" /\ y.todo = job[q].todo
      BY <1>1, <1>2 DEF StorageJob
    <2>3. JobHolds(y)'
      BY <1>1, <1>2, <2>2 DEF JobHolds, ExportHolds, OfUploads, Within
    <2> QED
      BY <1>1, <2>1, <2>2, <2>3, Onward DEF At
  <1>4. CASE job[q].todo # {}
    <2>1. PICK k \in job[q].todo :
             job' = [job EXCEPT ![q] =
                        [job[q] EXCEPT !.todo = job[q].todo \ {k}, !.of = k,
                            !.pc = IF alreadyGood(k) THEN "next" ELSE "open"]]
      BY <1>1, <1>4 DEF exportNext
    <2> PICK pc : pc = IF alreadyGood(k) THEN "next" ELSE "open"
      OBVIOUS
    <2> PICK y : y = [job[q] EXCEPT !.todo = job[q].todo \ {k}, !.of = k, !.pc = pc]
      OBVIOUS
    <2>2. job' = [job EXCEPT ![q] = y]
      BY <2>1
    <2>3. k \in row /\ k \in Keys
      BY <1>2 DEF ExportHolds, DirectoryInv, RowsHold
    <2>4. y \in StorageJob /\ y.pc \in {"next", "open"} /\ y.op = "exportOne" /\ y.of = k
          /\ y.todo \subseteq job[q].todo
      BY <1>1, <1>2, <2>3 DEF StorageJob
    <2>5. JobHolds(y)'
      BY <1>1, <1>2, <2>3, <2>4 DEF JobHolds, ExportHolds, OfUploads, Within
    <2> QED
      BY <1>1, <2>2, <2>4, <2>5, Onward DEF At
  <1> QED
    BY <1>3, <1>4

\* When every row's file is good to the eye and nothing is between a rename and
\* a sync, every row's file is good.
LEMMA VerifySafe ==
    ASSUME DirectoryInv, NEW q, verifyExport(q)
    PROVE  DirectoryInv'
  <1>1. /\ q \in DOMAIN job /\ job[q].op = "exportOne" /\ job[q].pc = "verify" /\ End(q)
        /\ UNCHANGED <<object, row, file, disk, given>>
    BY DEF verifyExport, At
  <1>2. ~up /\ \A p \in DOMAIN job : p # q => job[p].op # "exportOne"
    BY <1>1 DEF DirectoryInv, JobsHold, JobHolds, ExportHolds, Apart
  <1>3. \A k \in Keys : disk[k] = {Now(k)} /\ Now(k)' = Now(k)
    BY <1>1, <1>2 DEF DirectoryInv, ExportInStep, At, Now
  <1>4. ASSUME NEW p \in DOMAIN job \ {q}
        PROVE  FALSE
    BY <1>2 DEF DirectoryInv, JobsHold, JobHolds, UploadHolds, WithdrawalHolds,
                StorageJob, StorageOps, Writers, OfUploads
  <1>5. JobsHold' /\ Apart'
    BY <1>1, <1>4, JobEnds DEF DirectoryInv
  <1>6. DirectoryHolds' /\ ObjectsHold' /\ ExportInStep'
    BY <1>1, <1>3 DEF DirectoryInv, DirectoryHolds, ObjectsHold, ExportInStep
  <1>7. CASE up' = up /\ kept' = kept
    BY <1>1, <1>5, <1>6, <1>7 DEF DirectoryInv, RowsHold
  <1>8. CASE up' = TRUE /\ kept' = row /\ \A k \in row : alreadyGood(k)
    <2>1. \A k \in row : Now(k) = "whole" /\ k \in Keys
      BY <1>8 DEF alreadyGood, Now, DirectoryInv, RowsHold
    <2>2. \A k \in row : disk[k] = {"whole"}
      BY <1>3, <2>1
    <2>3. RowsHold'
      BY <1>1, <1>8, <2>2 DEF DirectoryInv, RowsHold
    <2> QED
      BY <1>5, <1>6, <2>3 DEF DirectoryInv
  <1>9. PICK good \in BOOLEAN : /\ good = (~job[q].failed /\ \A k \in row : alreadyGood(k))
                                /\ up' = good /\ kept' = IF good THEN row ELSE kept
    BY DEF verifyExport
  <1>10. good \/ up' = up
    BY <1>2, <1>9 DEF DirectoryInv, RowsHold
  <1> QED
    BY <1>7, <1>8, <1>9, <1>10

\* A call fails by itself.
LEMMA FailSafe ==
    ASSUME DirectoryInv, ~StoppedAtSync, NEW q, failStorage(q)
    PROVE  DirectoryInv'
  <1>1. /\ q \in DOMAIN job /\ ~At(q, "exportOne", "syncdir")
        /\ job[q].pc \notin {"next", "verify"}
        /\ UNCHANGED <<up, object, row, file, disk, given, kept>>
    BY DEF failStorage, InFlight, MayStop
  <1>2. JobHolds(job[q]) /\ job[q] \in StorageJob
    BY <1>1 DEF DirectoryInv, JobsHold
  <1>3. CASE job[q].pc \in {"write", "sync", "rename", "syncdir"}
    <2> PICK y : y = [job[q] EXCEPT !.pc = "clean"]
      OBVIOUS
    <2>1. job' = [job EXCEPT ![q] = y]
      BY <1>3 DEF failStorage, GoTo
    <2>2. /\ y \in StorageJob /\ y.pc = "clean" /\ y.op = job[q].op /\ y.of = job[q].of
          /\ y.todo = job[q].todo
      BY <1>2 DEF StorageJob
    <2>3. job[q].op # "deleteModel"
      BY <1>2, <1>3 DEF JobHolds, WithdrawalHolds
    <2>4. JobHolds(y)'
      BY <1>1, <1>2, <1>3, <2>2, <2>3
         DEF JobHolds, UploadHolds, ExportHolds, OfUploads, Within
    <2> QED
      BY <1>1, <2>1, <2>2, <2>4, Onward
  <1>4. CASE job[q].pc \notin {"write", "sync", "rename", "syncdir"}
    BY <1>1, <1>4, ThrownSafe DEF failStorage
  <1> QED
    BY <1>3, <1>4

\* With nobody in flight nobody rests on anything.
LEMMA NobodyInFlight ==
    ASSUME job' = Nothing
    PROVE  JobsHold' /\ Apart'
  <1>1. DOMAIN job' = {} /\ job' = [q \in DOMAIN job' |-> job'[q]]
    BY DEF Nothing
  <1> QED
    BY <1>1 DEF JobsHold, Apart

\* The server stops, or the power does.
LEMMA CrashSafe ==
    ASSUME DirectoryInv, ~StoppedAtSync, crashStorage
    PROVE  DirectoryInv'
  <1>1. /\ job' = Nothing /\ UNCHANGED <<up, object, row, file, disk, given, kept>>
        /\ \A q \in DOMAIN job : job[q].op \in StorageOps => ~At(q, "exportOne", "syncdir")
    BY DEF crashStorage, Crash, InFlight, MayStop
  <1>2. \A q \in DOMAIN job : ~At(q, "exportOne", "syncdir")
    BY <1>1 DEF DirectoryInv, JobsHold, StorageJob
  <1>3. ExportInStep'
    BY <1>1, <1>2, InStepStays DEF DirectoryInv
  <1> QED
    BY <1>1, <1>3, NobodyInFlight, NothingElse

\* A power cut leaves of every file what the disk may have of it.
LEMMA PowerCutSafe ==
    ASSUME DirectoryInv, powerCut
    PROVE  DirectoryInv'
  <1>1. PICK left \in [Keys -> UNION {disk[k] : k \in Keys}] :
           /\ \A k \in Keys : left[k] \in disk[k]
           /\ file' = Restrict(left, {k \in Keys : left[k] # Gone})
           /\ disk' = [k \in Keys |-> {left[k]}]
    BY DEF powerCut
  <1>2. job' = Nothing /\ UNCHANGED <<up, object, row, given, kept>>
    BY DEF powerCut
  <1>3. \A k \in Keys : left[k] \in Bytes \cup {Gone}
    BY <1>1 DEF DirectoryInv, DirectoryHolds
  <1>4. /\ DOMAIN file' = {k \in Keys : left[k] # Gone}
        /\ file' = [k \in DOMAIN file' |-> file'[k]]
        /\ \A k \in DOMAIN file' : file'[k] = left[k]
    BY <1>1 DEF Restrict
  <1>5. \A k \in Keys : Now(k)' = left[k]
    BY <1>4 DEF Now
  <1>6. DOMAIN file' \subseteq given
    <2>1. \A k \in Keys \ given : left[k] = Gone
      BY <1>1 DEF DirectoryInv, DirectoryHolds
    <2> QED
      BY <1>4, <2>1
  <1>7. DirectoryHolds'
    BY <1>1, <1>2, <1>3, <1>4, <1>5, <1>6 DEF DirectoryHolds
  <1>8. RowsHold'
    <2>1. \A k \in kept : left[k] = "whole" /\ k \in Keys
      BY <1>1 DEF DirectoryInv, RowsHold
    <2> QED
      BY <1>1, <1>2, <2>1 DEF DirectoryInv, RowsHold
  <1>9. ExportInStep'
    BY <1>1, <1>5 DEF ExportInStep
  <1> QED
    BY <1>2, <1>7, <1>8, <1>9, NobodyInFlight DEF DirectoryInv, ObjectsHold

\* Nothing is stored.
LEMMA InitSafe ==
    ASSUME StorageInit, job = Nothing
    PROVE  DirectoryInv
  <1> USE StorageAssumption
  <1>1. /\ up = FALSE /\ row = Filed /\ given = Filed /\ kept = {}
        /\ DOMAIN object \subseteq Filed /\ object \in [DOMAIN object -> Bytes]
        /\ DOMAIN file \subseteq Filed /\ file \in [DOMAIN file -> {"part"}]
        /\ disk = [k \in Keys |-> {IF k \in DOMAIN file THEN file[k] ELSE Gone}]
    BY DEF StorageInit
  <1>2. \A k \in Keys : disk[k] = {Now(k)} /\ Now(k) \in Bytes \cup {Gone}
    BY <1>1 DEF Now, Bytes
  <1>3. disk = [k \in Keys |-> disk[k]]
    BY <1>1
  <1>4. DirectoryHolds
    BY <1>1, <1>2, <1>3 DEF DirectoryHolds, Bytes, Now
  <1>5. ObjectsHold /\ RowsHold /\ ExportInStep
    BY <1>1, <1>2 DEF ObjectsHold, RowsHold, ExportInStep
  <1>6. DOMAIN job = {} /\ job = [q \in DOMAIN job |-> job[q]]
    BY DEF Nothing
  <1>7. JobsHold /\ Apart
    BY <1>6 DEF JobsHold, Apart
  <1> QED
    BY <1>4, <1>5, <1>7 DEF DirectoryInv

\* putModel
LEMMA PutSafe ==
    ASSUME DirectoryInv, NEW q, NEW k \in Keys, putModel(q, k)
    PROVE  DirectoryInv'
  BY UploadBegins DEF putModel, OfUploads

\* copyModel
LEMMA CopySafe ==
    ASSUME DirectoryInv, NEW q, NEW src \in Keys, NEW k \in Keys, copyModel(q, src, k)
    PROVE  DirectoryInv'
  BY UploadBegins DEF copyModel, OfUploads

\* Every step keeps the invariant, unless a sync is what stops.
LEMMA StepSafe ==
    ASSUME DirectoryInv, ~StoppedAtSync, [StorageNext]_storageVars
    PROVE  DirectoryInv'
  <1>1. CASE UNCHANGED storageVars
    <2>1. UNCHANGED <<up, object, row, file, disk, given, kept, job>>
      BY <1>1 DEF storageVars
    <2>2. ExportInStep'
      BY <2>1, InStepStays DEF DirectoryInv
    <2>3. JobsHold' /\ Apart'
      BY <2>1, JobStays, NoFileUndisturbed DEF DirectoryInv, JobsHold, Apart
    <2> QED
      BY <2>1, <2>2, <2>3, NothingElse
  <1>2. CASE crashStorage \/ powerCut
    BY <1>2, CrashSafe, PowerCutSafe
  <1>3. ASSUME NEW q,
               \/ \E k \in Keys :
                     putModel(q, k) \/ withdrawRow(q, k) \/ \E src \in Keys : copyModel(q, src, k)
               \/ \E verifyOnly \in BOOLEAN : exportModels(q, verifyOnly)
        PROVE  DirectoryInv'
    BY <1>3, PutSafe, CopySafe, WithdrawalBegins, ExportBegins
  <1>4. ASSUME NEW q,
               \/ openTemp(q) \/ writeTemp(q) \/ syncTemp(q) \/ renameTemp(q)
               \/ syncDirectory(q) \/ removeTemp(q)
        PROVE  DirectoryInv'
    BY <1>4, OpenSafe, WriteSafe, SyncSafe, RenameSafe, DirectorySafe, CleanSafe
  <1>5. ASSUME NEW q,
               \/ insertRowOf(q) \/ deleteRow(q) \/ removeFile(q) \/ exportNext(q)
               \/ verifyExport(q) \/ failStorage(q)
        PROVE  DirectoryInv'
    BY <1>5, InsertSafe, DeleteRowSafe, RemoveSafe, ExportNextSafe, VerifySafe, FailSafe
  <1> QED
    BY <1>1, <1>2, <1>3, <1>4, <1>5 DEF StorageNext

\* The invariant on which the rest stands, of a migration that is not stopped
\* between a rename and the sync of the directory.
THEOREM DirectoryInvariant == ~StoppedAtSync => (StorageSpec => []DirectoryInv)
  <1> SUFFICES ASSUME ~StoppedAtSync
               PROVE  StorageSpec => []DirectoryInv
    OBVIOUS
  <1>1. StorageInit /\ job = Nothing => DirectoryInv
    BY InitSafe
  <1>2. DirectoryInv /\ [StorageNext]_storageVars => DirectoryInv'
    BY StepSafe
  <1> QED
    BY <1>1, <1>2, PTL DEF StorageSpec

\* export-storage.ts: from the move on, every ticket's file is whole, and would
\* be after a power cut at any time.
THEOREM EveryRowKeepsItsModel == ~StoppedAtSync => (StorageSpec => []EveryRowHasItsModel)
  <1> SUFFICES ASSUME ~StoppedAtSync
               PROVE  StorageSpec => []EveryRowHasItsModel
    OBVIOUS
  <1>1. DirectoryInv => EveryRowHasItsModel
    BY DEF DirectoryInv, RowsHold, EveryRowHasItsModel
  <1> QED
    BY <1>1, DirectoryInvariant, PTL

\* A handler at a file has a key that was given out, and what it has written is
\* what a file can hold; so whether or not the move stops where it should not.
HandlerTyped(x) ==
    /\ x \in StorageJob
    /\ x.todo \subseteq given
    /\ x.pc \notin {"next", "verify"} => x.of \in given
    /\ x.pc = "write" /\ x.op = "exportOne" => x.of \in DOMAIN object
    /\ x.pc \in {"sync", "rename"} => x.bytes \in Bytes

\* Nothing is, or may be left, under a name that was not given out.
StorageTyped ==
    /\ up \in BOOLEAN
    /\ row \subseteq given /\ kept \subseteq given /\ given \subseteq Keys
    /\ DOMAIN object \subseteq Filed /\ object \in [DOMAIN object -> Bytes]
    /\ DOMAIN file \subseteq given /\ file \in [DOMAIN file -> Left \ {Gone}]
    /\ disk \in [Keys -> SUBSET Left]
    /\ \A k \in Keys : Now(k) \in disk[k]
    /\ \A k \in Keys \ given : disk[k] = {Gone}
    /\ \A q \in DOMAIN job : HandlerTyped(job[q])

\* A handler's type outlives what the others do.
LEMMA TypedStays ==
    ASSUME NEW x, HandlerTyped(x), object' = object, given \subseteq given'
    PROVE  HandlerTyped(x)'
  BY DEF HandlerTyped

\* One handler begins, goes on or ends.
LEMMA TypedAtWork ==
    ASSUME StorageTyped, object' = object, given \subseteq given',
           NEW q, \A r \in DOMAIN job' \ {q} : r \in DOMAIN job /\ job'[r] = job[r],
           q \in DOMAIN job' => HandlerTyped(job'[q])
    PROVE  \A r \in DOMAIN job' : HandlerTyped(job[r])'
  <1>1. ASSUME NEW r \in DOMAIN job', NEW x, x = job'[r], HandlerTyped(x)
        PROVE  HandlerTyped(job[r])'
    BY <1>1, TypedStays
  <1>2. \A r \in DOMAIN job' \ {q} : HandlerTyped(job'[r])
    BY DEF StorageTyped
  <1> QED
    BY <1>1, <1>2

\* A step of one handler that touches neither the directory nor the keys.
LEMMA TypedJobOnly ==
    ASSUME StorageTyped, NEW q,
           up' \in BOOLEAN, row' \subseteq given, kept' \subseteq given,
           UNCHANGED <<object, file, disk, given>>,
           \A r \in DOMAIN job' \ {q} : r \in DOMAIN job /\ job'[r] = job[r],
           q \in DOMAIN job' => HandlerTyped(job'[q])
    PROVE  StorageTyped'
  <1>1. \A r \in DOMAIN job' : HandlerTyped(job[r])'
    BY TypedAtWork
  <1> QED
    BY <1>1 DEF StorageTyped, Now

\* Who ends, and who gives up a file and goes on to the next
LEMMA ThrownTyped ==
    ASSUME StorageTyped, NEW q \in DOMAIN job, Thrown(q) \/ End(q)
    PROVE  /\ \A r \in DOMAIN job' \ {q} : r \in DOMAIN job /\ job'[r] = job[r]
           /\ q \in DOMAIN job' => HandlerTyped(job'[q])
  <1>1. CASE End(q)
    BY <1>1 DEF End, Drop, Restrict
  <1>2. CASE job' = [job EXCEPT ![q] = [@ EXCEPT !.pc = "next", !.bytes = None,
                                                 !.synced = FALSE, !.failed = TRUE]]
    <2>1. HandlerTyped(job[q])
      BY DEF StorageTyped
    <2>2. HandlerTyped([job[q] EXCEPT !.pc = "next", !.bytes = None,
                                      !.synced = FALSE, !.failed = TRUE])
      BY <2>1 DEF HandlerTyped, StorageJob
    <2> QED
      BY <1>2, <2>2
  <1> QED
    BY <1>1, <1>2 DEF Thrown

\* Who goes from one step to another that is not of writing
LEMMA GoOnTyped ==
    ASSUME StorageTyped, NEW q \in DOMAIN job,
           NEW pc \in {"clean", "insert", "rm"}, GoTo(q, pc),
           job[q].pc \notin {"next", "verify"}
    PROVE  /\ \A r \in DOMAIN job' \ {q} : r \in DOMAIN job /\ job'[r] = job[r]
           /\ q \in DOMAIN job' => HandlerTyped(job'[q])
  <1>1. HandlerTyped(job[q])
    BY DEF StorageTyped
  <1>2. HandlerTyped([job[q] EXCEPT !.pc = pc])
    BY <1>1 DEF HandlerTyped, StorageJob
  <1> QED
    BY <1>2 DEF GoTo

\* Whoever begins has a key that is given out, or will have.
LEMMA BeginTyped ==
    ASSUME StorageTyped, NEW q \in Requests \ DOMAIN job,
           \/ \E k \in Keys :
                putModel(q, k) \/ withdrawRow(q, k) \/ \E src \in Keys : copyModel(q, src, k)
           \/ \E verifyOnly \in BOOLEAN : exportModels(q, verifyOnly)
    PROVE  StorageTyped'
  <1>1. ASSUME NEW op \in StorageOps, NEW pc \in {"open", "next", "delete"},
               NEW k \in Keys \cup {None}, NEW src \in Keys \cup {None}, NEW ks,
               StorageWork(q, op, pc, k, src, ks), pc # "next" => k \in given',
               ks \subseteq row, given \subseteq given', given' \subseteq Keys,
               UNCHANGED <<up, object, row, file, disk, kept>>
        PROVE  StorageTyped'
    <2> PICK y : y = [op |-> op, pc |-> pc, of |-> k, from |-> src, bytes |-> None,
                      synced |-> FALSE, todo |-> ks, failed |-> FALSE]
      OBVIOUS
    <2>1. /\ DOMAIN job' = DOMAIN job \cup {q} /\ job'[q] = y
          /\ \A r \in DOMAIN job : r # q => job'[r] = job[r]
      BY <1>1 DEF StorageWork, Begin, Put
    <2>2. row \subseteq given /\ given \subseteq Keys
      BY DEF StorageTyped
    <2>3. y \in StorageJob /\ y.pc = pc /\ y.of = k /\ y.todo = ks
      BY <1>1, <2>2 DEF StorageJob
    <2>4. HandlerTyped(y)'
      BY <1>1, <2>2, <2>3 DEF HandlerTyped
    <2>5. \A r \in DOMAIN job' : HandlerTyped(job[r])'
      <3>1. ASSUME NEW r \in DOMAIN job, r # q
            PROVE  HandlerTyped(job[r])'
        <4> PICK x : x = job[r]
          OBVIOUS
        <4>1. HandlerTyped(x) /\ job'[r] = x
          BY <2>1, <3>1 DEF StorageTyped
        <4> QED
          BY <1>1, <4>1, TypedStays
      <3> QED
        BY <2>1, <2>4, <3>1
    <2> QED
      BY <1>1, <2>2, <2>5 DEF StorageTyped, Now
  <1>2. {} \subseteq row /\ row \subseteq given /\ given \subseteq Keys
    BY DEF StorageTyped
  <1>3. ASSUME NEW k \in Keys, putModel(q, k)
        PROVE  StorageTyped'
    <2>1. /\ StorageWork(q, "putModel", "open", k, None, {}) /\ given' = given \cup {k}
          /\ UNCHANGED <<up, object, row, file, disk, kept>>
      BY <1>3 DEF putModel
    <2>2. "putModel" \in StorageOps
      BY DEF StorageOps, Writers
    <2>3. given \subseteq given' /\ given' \subseteq Keys /\ k \in given'
      BY <1>2, <2>1
    <2> QED
      BY <1>1, <1>2, <2>1, <2>2, <2>3
  <1>4. ASSUME NEW k \in Keys, NEW src \in Keys, copyModel(q, src, k)
        PROVE  StorageTyped'
    BY <1>1, <1>2, <1>4 DEF copyModel, StorageOps, Writers
  <1>5. ASSUME NEW k \in Keys, withdrawRow(q, k)
        PROVE  StorageTyped'
    <2>1. /\ StorageWork(q, "deleteModel", "delete", k, None, {}) /\ k \in row
          /\ UNCHANGED <<up, object, row, file, disk, given, kept>>
      BY <1>5 DEF withdrawRow
    <2>2. "deleteModel" \in StorageOps
      BY DEF StorageOps
    <2>3. given \subseteq given' /\ given' \subseteq Keys /\ k \in given'
      BY <1>2, <2>1
    <2> QED
      BY <1>1, <1>2, <2>1, <2>2, <2>3
  <1>6. ASSUME NEW verifyOnly \in BOOLEAN, exportModels(q, verifyOnly)
        PROVE  StorageTyped'
    BY <1>1, <1>2, <1>6 DEF exportModels, StorageOps, Writers
  <1> QED
    BY <1>3, <1>4, <1>5, <1>6

\* The steps of writing a file, up to the rename
LEMMA WritingTyped ==
    ASSUME StorageTyped, NEW q \in DOMAIN job, openTemp(q) \/ writeTemp(q) \/ syncTemp(q)
    PROVE  StorageTyped'
  <1>1. HandlerTyped(job[q]) /\ NoFile
    BY DEF StorageTyped, openTemp, writeTemp, syncTemp
  <1>2. up' \in BOOLEAN /\ row' \subseteq given /\ kept' \subseteq given
        /\ UNCHANGED <<object, file, disk, given>>
    BY <1>1 DEF NoFile, StorageTyped
  <1>3. CASE Thrown(q)
    BY <1>2, <1>3, ThrownTyped, TypedJobOnly
  <1>4. ASSUME NEW y, job' = [job EXCEPT ![q] = y], HandlerTyped(y)
        PROVE  StorageTyped'
    BY <1>2, <1>4, TypedJobOnly
  <1>5. CASE openTemp(q) /\ ~Thrown(q)
    <2>1. job[q].pc = "open" /\ Source(job[q]) # None
          /\ job' = [job EXCEPT ![q] = [job[q] EXCEPT !.pc = "write", !.bytes = "part"]]
      BY <1>5 DEF openTemp, Storing
    <2>2. job[q].op = "exportOne" => job[q].of \in DOMAIN object
      BY <2>1 DEF Source
    <2>3. HandlerTyped([job[q] EXCEPT !.pc = "write", !.bytes = "part"])
      BY <1>1, <2>1, <2>2 DEF HandlerTyped, StorageJob, Bytes
    <2> QED
      BY <1>4, <2>1, <2>3
  <1>6. CASE writeTemp(q)
    <2> PICK bytes : bytes = IF job[q].op = "exportOne" THEN object[job[q].of] ELSE "whole"
      OBVIOUS
    <2>1. job[q].pc = "write"
          /\ job' = [job EXCEPT ![q] = [job[q] EXCEPT !.pc = "sync", !.bytes = bytes]]
      BY <1>6 DEF writeTemp, Storing
    <2>2. bytes \in Bytes
      BY <1>1, <2>1 DEF HandlerTyped, StorageTyped, Bytes
    <2>3. HandlerTyped([job[q] EXCEPT !.pc = "sync", !.bytes = bytes])
      BY <1>1, <2>1, <2>2 DEF HandlerTyped, StorageJob
    <2> QED
      BY <1>4, <2>1, <2>3
  <1>7. CASE syncTemp(q)
    <2>1. job[q].pc = "sync"
          /\ job' = [job EXCEPT ![q] = [job[q] EXCEPT !.pc = "rename", !.synced = TRUE]]
      BY <1>7 DEF syncTemp, Storing
    <2>2. HandlerTyped([job[q] EXCEPT !.pc = "rename", !.synced = TRUE])
      BY <1>1, <2>1 DEF HandlerTyped, StorageJob
    <2> QED
      BY <1>4, <2>1, <2>2
  <1> QED
    BY <1>3, <1>5, <1>6, <1>7

\* The rename, under a key that was given out
LEMMA RenameTyped ==
    ASSUME StorageTyped, NEW q \in DOMAIN job, renameTemp(q)
    PROVE  StorageTyped'
  <1> PICK k : k = job[q].of
    OBVIOUS
  <1> PICK bytes : bytes = job[q].bytes
    OBVIOUS
  <1>1. HandlerTyped(job[q]) /\ job[q].pc = "rename"
        /\ UNCHANGED <<up, object, row, given, kept>>
    BY DEF StorageTyped, renameTemp, Storing
  <1>2. k \in given /\ k \in Keys /\ bytes \in Bytes
    BY <1>1 DEF HandlerTyped, StorageTyped
  <1>3. PICK left \in SUBSET Left : bytes \in left /\ disk' = [disk EXCEPT ![k] = @ \cup left]
    BY <1>2 DEF renameTemp, Left
  <1>4. /\ DOMAIN file' = DOMAIN file \cup {k} /\ file'[k] = bytes
        /\ \A c \in DOMAIN file \ {k} : file'[c] = file[c]
        /\ file' = [c \in DOMAIN file' |-> file'[c]]
    BY DEF renameTemp, Put
  <1>5. /\ disk' \in [Keys -> SUBSET Left] /\ disk'[k] = disk[k] \cup left
        /\ \A c \in Keys \ {k} : disk'[c] = disk[c]
    BY <1>2, <1>3 DEF StorageTyped
  <1>6. DOMAIN file' \subseteq given /\ file' \in [DOMAIN file' -> Left \ {Gone}]
    BY <1>2, <1>4 DEF StorageTyped, Left, Bytes, Gone
  <1>7. \A c \in Keys : Now(c)' \in disk'[c]
    <2>1. Now(k)' \in disk'[k]
      BY <1>3, <1>4, <1>5 DEF Now
    <2>2. ASSUME NEW c \in Keys, c # k
          PROVE  Now(c)' \in disk'[c]
      <3>1. Now(c)' = Now(c)
        BY <1>4, <2>2 DEF Now
      <3> QED
        BY <1>5, <2>2, <3>1 DEF StorageTyped
    <2> QED
      BY <2>1, <2>2
  <1>8. \A r \in DOMAIN job' : HandlerTyped(job[r])'
    <2> PICK y : y = [job[q] EXCEPT !.pc = "syncdir", !.bytes = None]
      OBVIOUS
    <2>1. HandlerTyped(y)
      BY <1>1 DEF HandlerTyped, StorageJob
    <2>2. job' = [job EXCEPT ![q] = y]
      BY DEF renameTemp
    <2> QED
      BY <1>1, <2>1, <2>2, TypedAtWork
  <1> QED
    BY <1>1, <1>2, <1>5, <1>6, <1>7, <1>8 DEF StorageTyped

\* The sync of the directory, whose caller goes on
LEMMA DirectoryTyped ==
    ASSUME StorageTyped, NEW q \in DOMAIN job, syncDirectory(q)
    PROVE  StorageTyped'
  <1>1. HandlerTyped(job[q]) /\ job[q].pc = "syncdir" /\ UNCHANGED <<up, object, row, file, given>>
    BY DEF StorageTyped, syncDirectory, Storing
  <1>2. /\ kept' \subseteq given
        /\ \A r \in DOMAIN job' \ {q} : r \in DOMAIN job /\ job'[r] = job[r]
        /\ q \in DOMAIN job' => HandlerTyped(job'[q])
    <2>1. AfterStoring(q) /\ kept \subseteq given /\ job[q].of \in given
      BY <1>1 DEF syncDirectory, StorageTyped, HandlerTyped
    <2>2. CASE GoTo(q, "insert") /\ kept' = kept \cup {job[q].of}
      BY <1>1, <2>1, <2>2, GoOnTyped
    <2>3. CASE UNCHANGED kept /\ job' = [job EXCEPT ![q] = [@ EXCEPT !.pc = "next", !.synced = FALSE]]
      <3>1. HandlerTyped([job[q] EXCEPT !.pc = "next", !.synced = FALSE])
        BY <1>1 DEF HandlerTyped, StorageJob
      <3> QED
        BY <2>1, <2>3, <3>1
    <2> QED
      BY <2>1, <2>2, <2>3 DEF AfterStoring
  <1>3. \A r \in DOMAIN job' : HandlerTyped(job[r])'
    BY <1>1, <1>2, TypedAtWork
  <1>4. /\ disk' = [k \in Keys |-> {Now(k)} \cup (disk[k] \cap {Torn})]
        /\ \A k \in Keys : Now(k)' = Now(k) /\ Now(k) \in disk[k] /\ disk[k] \subseteq Left
    BY <1>1 DEF syncDirectory, StorageTyped, Now
  <1>5. disk' \in [Keys -> SUBSET Left] /\ \A k \in Keys : Now(k)' \in disk'[k]
    BY <1>4
  <1>6. \A k \in Keys \ given : disk'[k] = {Gone}
    BY <1>4 DEF StorageTyped, Gone, Torn
  <1> QED
    BY <1>1, <1>2, <1>3, <1>5, <1>6 DEF StorageTyped

\* Inserting and deleting a row, the next of the move, and its end
LEMMA RowsTyped ==
    ASSUME StorageTyped, NEW q \in DOMAIN job,
           insertRowOf(q) \/ deleteRow(q) \/ removeTemp(q) \/ exportNext(q) \/ verifyExport(q)
    PROVE  StorageTyped'
  <1>1. HandlerTyped(job[q]) /\ up \in BOOLEAN /\ row \subseteq given /\ kept \subseteq given
    BY DEF StorageTyped
  <1>2. CASE insertRowOf(q)
    <2>1. job[q].of \in given /\ End(q)
      BY <1>1, <1>2 DEF insertRowOf, Storing, HandlerTyped
    <2> QED
      BY <1>1, <1>2, <2>1, ThrownTyped, TypedJobOnly DEF insertRowOf
  <1>3. CASE deleteRow(q)
    <2>1. job[q].pc = "delete" /\ (GoTo(q, "rm") \/ End(q))
      BY <1>3 DEF deleteRow, At
    <2> QED
      BY <1>1, <1>3, <2>1, ThrownTyped, GoOnTyped, TypedJobOnly DEF deleteRow
  <1>4. CASE removeTemp(q)
    BY <1>1, <1>4, ThrownTyped, TypedJobOnly DEF removeTemp, NoFile
  <1>5. CASE verifyExport(q)
    <2>1. up' \in BOOLEAN /\ kept' \subseteq given /\ row' \subseteq given
      BY <1>1, <1>5 DEF verifyExport
    <2> QED
      BY <1>5, <2>1, ThrownTyped, TypedJobOnly DEF verifyExport
  <1>6. CASE exportNext(q)
    <2>1. PICK y : job' = [job EXCEPT ![q] = y] /\ HandlerTyped(y)
      <3>1. CASE GoTo(q, "verify")
        <4>1. HandlerTyped([job[q] EXCEPT !.pc = "verify"])
          BY <1>1 DEF HandlerTyped, StorageJob
        <4> QED
          BY <3>1, <4>1 DEF GoTo
      <3>2. ASSUME NEW k \in job[q].todo, NEW pc \in {"next", "open"},
                   job' = [job EXCEPT ![q] = [@ EXCEPT !.todo = job[q].todo \ {k}, !.of = k, !.pc = pc]]
            PROVE  \E y : job' = [job EXCEPT ![q] = y] /\ HandlerTyped(y)
        <4>1. k \in given /\ k \in Keys
          BY <1>1 DEF HandlerTyped, StorageTyped
        <4>2. HandlerTyped([job[q] EXCEPT !.todo = job[q].todo \ {k}, !.of = k, !.pc = pc])
          BY <1>1, <4>1 DEF HandlerTyped, StorageJob
        <4> QED
          BY <3>2, <4>2
      <3>3. job[q].todo # {} => \E k \in job[q].todo, pc \in {"next", "open"} :
               job' = [job EXCEPT ![q] = [@ EXCEPT !.todo = job[q].todo \ {k}, !.of = k, !.pc = pc]]
        BY <1>6 DEF exportNext
      <3> QED
        BY <1>6, <3>1, <3>2, <3>3 DEF exportNext
    <2>2. /\ up' \in BOOLEAN /\ row' \subseteq given /\ kept' \subseteq given
          /\ UNCHANGED <<object, file, disk, given>>
      BY <1>1, <1>6 DEF exportNext, NoFile
    <2>3. job'[q] = y /\ \A r \in DOMAIN job' \ {q} : r \in DOMAIN job /\ job'[r] = job[r]
      BY <2>1
    <2> QED
      BY <2>1, <2>2, <2>3, TypedJobOnly
  <1> QED
    BY <1>2, <1>3, <1>4, <1>5, <1>6

\* A file that is removed may still be there, or be gone.
LEMMA RemoveTyped ==
    ASSUME StorageTyped, NEW q \in DOMAIN job, removeFile(q)
    PROVE  StorageTyped'
  <1> PICK k : k = job[q].of
    OBVIOUS
  <1>1. k \in given /\ k \in Keys /\ UNCHANGED <<up, object, row, given, kept>>
    BY DEF StorageTyped, HandlerTyped, removeFile, At
  <1>2. \A r \in DOMAIN job' : HandlerTyped(job[r])'
    BY <1>1, ThrownTyped, TypedAtWork DEF removeFile
  <1>3. /\ DOMAIN file' = DOMAIN file \ {k} /\ \A c \in DOMAIN file' : file'[c] = file[c]
        /\ file' = [c \in DOMAIN file' |-> file'[c]]
    BY DEF removeFile, Drop, Restrict
  <1>4. /\ disk' \in [Keys -> SUBSET Left] /\ disk'[k] = disk[k] \cup {Gone}
        /\ \A c \in Keys \ {k} : disk'[c] = disk[c]
    BY <1>1 DEF removeFile, StorageTyped, Left
  <1>5. \A c \in Keys : Now(c)' \in disk'[c]
    BY <1>3, <1>4 DEF StorageTyped, Now
  <1>6. DOMAIN file' \subseteq given /\ file' \in [DOMAIN file' -> Left \ {Gone}]
    BY <1>3 DEF StorageTyped
  <1> QED
    BY <1>1, <1>2, <1>4, <1>5, <1>6 DEF StorageTyped

\* A handler fails, or the process ends.
LEMMA FailTyped ==
    ASSUME StorageTyped, (\E q \in DOMAIN job : failStorage(q)) \/ crashStorage
    PROVE  StorageTyped'
  <1>1. UNCHANGED <<up, object, row, file, disk, given, kept>> /\ up \in BOOLEAN
        /\ row \subseteq given /\ kept \subseteq given
    BY DEF failStorage, crashStorage, StorageTyped
  <1>2. ASSUME NEW q \in DOMAIN job, failStorage(q)
        PROVE  StorageTyped'
    <2>1. job[q].pc \notin {"next", "verify"} /\ (GoTo(q, "clean") \/ Thrown(q))
      BY <1>2 DEF failStorage
    <2> QED
      BY <1>1, <2>1, ThrownTyped, GoOnTyped, TypedJobOnly
  <1>3. CASE crashStorage
    <2>1. DOMAIN job' = {}
      BY <1>3 DEF crashStorage, Crash, Nothing
    <2> QED
      BY <1>1, <2>1 DEF StorageTyped, Now
  <1> QED
    BY <1>2, <1>3

\* What is left by a power cut is among what may be.
LEMMA PowerCutTyped ==
    ASSUME StorageTyped, powerCut
    PROVE  StorageTyped'
  <1>1. PICK left \in [Keys -> UNION {disk[k] : k \in Keys}] :
           /\ \A k \in Keys : left[k] \in disk[k]
           /\ file' = Restrict(left, {k \in Keys : left[k] # Gone})
           /\ disk' = [k \in Keys |-> {left[k]}]
    BY DEF powerCut
  <1>2. DOMAIN job' = {} /\ UNCHANGED <<up, object, row, given, kept>>
    BY DEF powerCut, Nothing
  <1>3. /\ DOMAIN file' = {k \in Keys : left[k] # Gone}
        /\ \A k \in DOMAIN file' : file'[k] = left[k]
        /\ file' = [k \in DOMAIN file' |-> file'[k]]
    BY <1>1 DEF Restrict
  <1>4. \A k \in Keys \ given : left[k] = Gone
    BY <1>1 DEF StorageTyped
  <1>5. \A k \in Keys : left[k] \in Left
    BY <1>1 DEF StorageTyped
  <1>6. DOMAIN file' \subseteq given /\ file' \in [DOMAIN file' -> Left \ {Gone}]
    BY <1>3, <1>4, <1>5
  <1>7. disk' \in [Keys -> SUBSET Left] /\ \A k \in Keys : Now(k)' \in disk'[k]
    <2>1. \A k \in Keys : disk'[k] = {left[k]} /\ left[k] \in Left
      BY <1>1, <1>5
    <2>2. \A k \in Keys : Now(k)' = left[k]
      BY <1>3 DEF Now
    <2> QED
      BY <1>1, <2>1, <2>2
  <1>8. \A k \in Keys \ given : disk'[k] = {Gone}
    BY <1>1, <1>4
  <1> QED
    BY <1>2, <1>6, <1>7, <1>8 DEF StorageTyped

\* What is found at first has its types.
LEMMA DirectoryStart ==
    ASSUME StorageInit
    PROVE  /\ up \in BOOLEAN
           /\ row \subseteq given /\ kept \subseteq given /\ given \subseteq Keys
           /\ DOMAIN object \subseteq Filed /\ object \in [DOMAIN object -> Bytes]
           /\ DOMAIN file \subseteq given /\ file \in [DOMAIN file -> Left \ {Gone}]
           /\ disk \in [Keys -> SUBSET Left]
           /\ \A k \in Keys : Now(k) \in disk[k]
           /\ \A k \in Keys \ given : disk[k] = {Gone}
  <1>1. file \in [DOMAIN file -> Left \ {Gone}] /\ DOMAIN file \subseteq Filed
    BY DEF StorageInit, Left, Bytes, Gone
  <1>2. \A k \in Keys : Now(k) \in Left /\ disk[k] = {Now(k)}
    BY <1>1 DEF StorageInit, Now, Left
  <1>3. disk \in [Keys -> SUBSET Left]
    BY <1>2 DEF StorageInit
  <1>4. \A k \in Keys \ given : Now(k) = Gone
    BY <1>1 DEF StorageInit, Now
  <1>5. DOMAIN object \subseteq Filed /\ object \in [DOMAIN object -> Bytes]
    BY DEF StorageInit
  <1> QED
    BY <1>1, <1>2, <1>3, <1>4, <1>5, StorageAssumption DEF StorageInit

\* So always, wherever the move stops.
THEOREM StorageTypedInvariant == StorageSpec => []StorageTyped
  <1>1. StorageInit /\ job = Nothing => StorageTyped
    <2> SUFFICES ASSUME StorageInit, job = Nothing
                 PROVE  StorageTyped
      OBVIOUS
    <2>1. DOMAIN job = {}
      BY DEF Nothing
    <2> QED
      BY <2>1, DirectoryStart DEF StorageTyped
  <1>2. StorageTyped /\ [StorageNext]_storageVars => StorageTyped'
    <2> SUFFICES ASSUME StorageTyped, [StorageNext]_storageVars
                 PROVE  StorageTyped'
      OBVIOUS
    <2>1. CASE UNCHANGED storageVars
      BY <2>1 DEF storageVars, StorageTyped, HandlerTyped, Now
    <2> QED
      BY <2>1, BeginTyped, WritingTyped, RenameTyped, DirectoryTyped, RowsTyped, RemoveTyped,
         FailTyped, PowerCutTyped DEF StorageNext
  <1> QED
    BY <1>1, <1>2, PTL DEF StorageSpec

\* The types of the rows, the objects, the directory and the handlers: wherever
\* the move stops, what a power cut may leave is never nothing, is nothing that
\* was not written or torn, and what is seen is among it.
THEOREM StorageTypes == StorageSpec => []StorageTypeOK
  <1>1. StorageTyped => StorageTypeOK
    <2> SUFFICES ASSUME StorageTyped
                 PROVE  StorageTypeOK
      OBVIOUS
    <2>1. disk \in [Keys -> (SUBSET Left) \ {{}}]
      BY DEF StorageTyped
    <2>2. \A q \in InFlight(StorageOps) : job[q] \in StorageJob
      BY DEF StorageTyped, HandlerTyped, InFlight
    <2> QED
      BY <2>1, <2>2 DEF StorageTyped, StorageTypeOK, Now
  <1> QED
    BY <1>1, StorageTypedInvariant, PTL

-----------------------------------------------------------------------------
\* Every step of the calls is a step of the store they stand for, or none

\* What the abstract store holds.
StoredWhole == {k \in Keys : k \in DOMAIN file /\ file[k] = "whole"}

\* A step of the abstract store, or none.
Promised == Promises!MSNext \/ UNCHANGED <<StoredWhole, kept>>

\* A step that touches neither is none.
LEMMA NothingPromised ==
    ASSUME UNCHANGED <<file, kept>>
    PROVE  Promised
  BY DEF Promised, StoredWhole

\* The rename puts a model under its name, whole.
LEMMA RenamePromises ==
    ASSUME DirectoryInv, NEW q, renameTemp(q)
    PROVE  Promised
  <1> PICK k : k = job[q].of
    OBVIOUS
  <1>1. /\ k \in Keys /\ k \notin kept /\ file' = Put(file, k, job[q].bytes) /\ kept' = kept
        /\ job[q].bytes \in Bytes
    BY TakesItsName
  <1>2. CASE job[q].bytes = "whole"
    <2>1. StoredWhole' = StoredWhole \cup {k}
      BY <1>1, <1>2 DEF StoredWhole, Put
    <2>2. Promises!Store(k)
      BY <1>1, <2>1 DEF Promises!Store, StoredWhole
    <2> QED
      BY <1>1, <2>2 DEF Promised, Promises!MSNext
  <1>3. CASE job[q].bytes = "part"
    <2>1. StoredWhole' = StoredWhole \ {k}
      BY <1>1, <1>3 DEF StoredWhole, Put
    <2>2. Promises!Remove(k)
      BY <1>1, <2>1 DEF Promises!Remove, StoredWhole
    <2> QED
      BY <1>1, <2>2 DEF Promised, Promises!MSNext
  <1> QED
    BY <1>1, <1>2, <1>3 DEF Bytes

\* Syncing the directory makes the promise to keep it.
LEMMA DirectoryPromises ==
    ASSUME DirectoryInv, NEW q, syncDirectory(q)
    PROVE  Promised
  <1> PICK k : k = job[q].of
    OBVIOUS
  <1>1. /\ q \in DOMAIN job /\ job[q].op \in Writers /\ job[q].pc = "syncdir"
        /\ AfterStoring(q) /\ UNCHANGED file
    BY DEF syncDirectory, Storing, InFlight
  <1>2. CASE job[q].op = "exportOne"
    BY <1>1, <1>2, NothingPromised DEF AfterStoring
  <1>3. CASE job[q].op # "exportOne"
    <2>1. kept' = kept \cup {k}
      BY <1>1, <1>3 DEF AfterStoring
    <2>2. k \in Keys /\ k \in DOMAIN file /\ file[k] = "whole"
      BY <1>1, <1>3 DEF DirectoryInv, JobsHold, JobHolds, UploadHolds, OfUploads, Writers, RowsHold
    <2>3. Promises!Promise({k})
      BY <1>1, <2>1, <2>2 DEF Promises!Promise, StoredWhole
    <2> QED
      BY <2>2, <2>3 DEF Promised, Promises!MSNext
  <1> QED
    BY <1>2, <1>3

\* An export promises what it has verified.
LEMMA VerifyPromises ==
    ASSUME DirectoryInv, NEW q, verifyExport(q)
    PROVE  Promised
  <1>1. UNCHANGED file /\ At(q, "exportOne", "verify")
    BY DEF verifyExport
  <1>2. kept = {}
    BY <1>1 DEF At, DirectoryInv, JobsHold, JobHolds, ExportHolds, RowsHold
  <1>3. kept' = kept \/ (kept' = row /\ \A k \in row : alreadyGood(k))
    BY DEF verifyExport
  <1>4. CASE kept' = row /\ \A k \in row : alreadyGood(k)
    <2>1. row \in SUBSET Keys /\ row \subseteq StoredWhole
      BY <1>4 DEF alreadyGood, StoredWhole, DirectoryInv, RowsHold
    <2>2. Promises!Promise(row)
      BY <1>1, <1>2, <1>4, <2>1 DEF Promises!Promise, StoredWhole
    <2> QED
      BY <2>1, <2>2 DEF Promised, Promises!MSNext
  <1> QED
    BY <1>1, <1>3, <1>4, NothingPromised

\* A withdrawal takes the promise back before the file goes.
LEMMA WithdrawalPromises ==
    ASSUME DirectoryInv, NEW q, deleteRow(q) \/ removeFile(q)
    PROVE  Promised
  <1> PICK k : k = job[q].of
    OBVIOUS
  <1>1. q \in DOMAIN job /\ job[q].op = "deleteModel"
    BY DEF deleteRow, removeFile, At
  <1>2. WithdrawalHolds(job[q]) /\ k \in Keys
    BY <1>1 DEF DirectoryInv, JobsHold, JobHolds, WithdrawalHolds, RowsHold
  <1>3. CASE deleteRow(q)
    <2>1. Promises!GiveUp(k)
      BY <1>3 DEF deleteRow, Promises!GiveUp, StoredWhole
    <2> QED
      BY <1>2, <2>1 DEF Promised, Promises!MSNext
  <1>4. CASE removeFile(q)
    <2>1. /\ k \notin kept /\ kept' = kept /\ file' = Drop(file, k)
      BY <1>2, <1>4 DEF removeFile, At, WithdrawalHolds
    <2>2. StoredWhole' = StoredWhole \ {k}
      BY <2>1 DEF StoredWhole, Drop, Restrict
    <2>3. Promises!Remove(k)
      BY <2>1, <2>2 DEF Promises!Remove, StoredWhole
    <2> QED
      BY <1>2, <2>3 DEF Promised, Promises!MSNext
  <1> QED
    BY <1>3, <1>4

\* What was promised is whole on the disk, and a power cut leaves it.
LEMMA PowerCutPromises ==
    ASSUME DirectoryInv, powerCut
    PROVE  Promised
  <1>1. PICK left \in [Keys -> UNION {disk[k] : k \in Keys}] :
           /\ \A k \in Keys : left[k] \in disk[k]
           /\ file' = Restrict(left, {k \in Keys : left[k] # Gone})
    BY DEF powerCut
  <1>2. \A k \in kept : k \in Keys /\ left[k] = "whole"
    BY <1>1 DEF DirectoryInv, RowsHold
  <1>3. kept \subseteq StoredWhole'
    BY <1>1, <1>2 DEF StoredWhole, Restrict, Gone
  <1>4. StoredWhole' \in SUBSET Keys /\ kept' = kept
    BY DEF StoredWhole, powerCut
  <1>5. Promises!Lose
    BY <1>3, <1>4 DEF Promises!Lose, StoredWhole
  <1> QED
    BY <1>5 DEF Promised, Promises!MSNext

\* Every step is one of the abstract store, or none.
LEMMA StepPromises ==
    ASSUME DirectoryInv, [StorageNext]_storageVars
    PROVE  Promised
  <1>1. CASE UNCHANGED storageVars
    BY <1>1, NothingPromised DEF storageVars
  <1>2. CASE crashStorage \/ powerCut
    BY <1>2, PowerCutPromises, NothingPromised DEF crashStorage
  <1>3. ASSUME NEW q,
               \/ \E k \in Keys :
                     putModel(q, k) \/ withdrawRow(q, k) \/ \E src \in Keys : copyModel(q, src, k)
               \/ \E verifyOnly \in BOOLEAN : exportModels(q, verifyOnly)
        PROVE  Promised
    BY <1>3, NothingPromised DEF putModel, withdrawRow, copyModel, exportModels
  <1>4. ASSUME NEW q, renameTemp(q) \/ syncDirectory(q) \/ verifyExport(q)
                      \/ deleteRow(q) \/ removeFile(q)
        PROVE  Promised
    BY <1>4, RenamePromises, DirectoryPromises, VerifyPromises, WithdrawalPromises
  <1>5. ASSUME NEW q,
               \/ openTemp(q) \/ writeTemp(q) \/ syncTemp(q) \/ removeTemp(q)
               \/ insertRowOf(q) \/ exportNext(q) \/ failStorage(q)
        PROVE  Promised
    BY <1>5, NothingPromised
       DEF openTemp, writeTemp, syncTemp, removeTemp, insertRowOf, exportNext, failStorage, NoFile
  <1> QED
    BY <1>1, <1>2, <1>3, <1>4, <1>5 DEF StorageNext

\* storage.ts: "an object appears whole or not at all", and what somebody was
\* told is stored stays.  The calls implement it, whatever fails between them.
THEOREM TheCallsKeepThePromise == ~StoppedAtSync => (StorageSpec => ImplementsModelStore)
  <1> SUFFICES ASSUME ~StoppedAtSync
               PROVE  StorageSpec => ImplementsModelStore
    OBVIOUS
  <1>1. StorageInit => Promises!MSInit
    BY DEF StorageInit, Promises!MSInit
  <1>2. DirectoryInv /\ [StorageNext]_storageVars => [Promises!MSNext]_(Promises!msVars)
    BY StepPromises DEF Promised, Promises!msVars, StoredWhole
  <1> QED
    BY <1>1, <1>2, DirectoryInvariant, PTL DEF StorageSpec, ImplementsModelStore, Promises!MSSpec

-----------------------------------------------------------------------------
\* The deploy wizard: what it knows and what it has done

\* The releases, in the order of their versions.
ReleasesHold ==
    /\ releases \in Seq(Place) /\ Len(releases) <= 2 * Line
    /\ \A i, k \in DOMAIN releases : i < k =>
          \/ releases[i].on < releases[k].on
          \/ releases[i].on = releases[k].on /\ ~releases[i].off /\ releases[k].off

\* `base` is the place of image x among the releases `rs`: of those on the line,
\* its commit contains the first `base` and no other.
IsBase(rs, x, base) ==
    /\ base <= Len(rs)
    /\ \A k \in DOMAIN rs : ~rs[k].off => (rs[k].on <= x.on <=> k <= base)

\* What the search knows: what it has passed is contained, what it has cut off is
\* not, and the base is the last that it has passed.
SearchHolds(rs, j) ==
    /\ j.lo <= j.hi + 1 /\ j.hi <= Len(rs) /\ j.base = j.lo - 1
    /\ \A k \in DOMAIN rs : ~rs[k].off =>
          /\ k < j.lo => rs[k].on <= OneToPlace(j).on
          /\ k > j.hi => OneToPlace(j).on < rs[k].on

\* The notes of every release of the line that is crossed are at hand.
Covers(rs, j) ==
    \A k \in DOMAIN rs :
        (~rs[k].off /\ (rs[k].on <= j.current.on) # (rs[k].on <= j.target.on))
            => rs[k] \in j.shown

\* What the wizard knows of the releases, by where it is.
NotesHold(rs, j) ==
    /\ j.pc \in {"current", "target"} => SearchHolds(rs, j)
    /\ j.pc = "target" => IsBase(rs, j.current, j.baseCurrent)
    /\ j.pc = "read" => j.whyNot \/ Covers(rs, j)
    /\ j.pc \in {"confirm", "swap"} => j.blind \/ Covers(rs, j)

\* Up to the swap nothing of the host has been touched.
BeforeTheSwap == {"current", "target", "read", "confirm", "swap"}

\* While at most one thing has failed: up to the swap the file names what the
\* wizard found; after it, what runs is known until a start fails, and the file
\* names what ran as soon as there is a way back to go.
SwapHolds(j) ==
    mishaps <= 1 =>
        /\ j.pc \in BeforeTheSwap =>
              /\ j.current = tag /\ ran = running
              /\ told # None => running = tag
              /\ mishaps = 0 => told # None
        /\ j.pc \notin BeforeTheSwap => told = None
        /\ j.pc \in {"pull", "up"} => ran = running
        /\ j.pc = "health" => running = tag
        /\ j.pc \in {"pull", "up", "health"} /\ mishaps = 0 => j.current = ran
        /\ j.pc \in {"upAgain", "back"} => mishaps = 1 /\ tag = ran

\* With no wizard at work, the last one told how it ended unless it was cut short.
RestHolds == DOMAIN job = {} => OneFailureIsUndone /\ (mishaps = 0 => told # None)

\* One wizard at a time.
WizardAlone == \A p, q \in DOMAIN job : p = q

\* What the file and docker hold.
FilesHold ==
    /\ tag \in Image /\ running \in Image \cup {Down} /\ ran \in Image \cup {Down}
    /\ told \in {"live and healthy", "failed", None} /\ mishaps \in Nat

\* A wizard, by where it is.
WizardHolds(j) == j \in WizardJob /\ NotesHold(releases, j) /\ SwapHolds(j)

\* So for the one at work.
WizardsHold ==
    /\ DOMAIN job \subseteq Requests
    /\ job \in [DOMAIN job -> WizardJob]
    /\ \A q \in DOMAIN job : WizardHolds(job[q])

\* The five together are inductive.
WizardInv == ReleasesHold /\ FilesHold /\ WizardAlone /\ WizardsHold /\ RestHolds

-----------------------------------------------------------------------------
\* The wizard goes on.
LEMMA WizardGoesOn ==
    ASSUME WizardInv, NEW q \in DOMAIN job, NEW j, job' = [job EXCEPT ![q] = j],
           releases' = releases, FilesHold', WizardHolds(j)'
    PROVE  WizardInv'
  <1>1. DOMAIN job = {q}
    BY DEF WizardInv, WizardAlone
  <1>2. DOMAIN job' = {q} /\ job'[q] = j
    BY <1>1 DEF WizardInv, WizardsHold
  <1>3. job' = [p \in {q} |-> j]
    BY <1>1
  <1>4. WizardsHold'
    BY <1>2, <1>3 DEF WizardsHold, WizardHolds, WizardInv
  <1>5. ReleasesHold'
    BY DEF WizardInv, ReleasesHold
  <1> QED
    BY <1>2, <1>4, <1>5 DEF WizardInv, WizardAlone, RestHolds

\* It ends.
LEMMA WizardEnds ==
    ASSUME WizardInv, NEW q \in DOMAIN job, End(q), releases' = releases, FilesHold',
           OneFailureIsUndone', mishaps' = 0 => told' # None
    PROVE  WizardInv'
  <1>1. DOMAIN job' = {}
    BY DEF WizardInv, WizardAlone, End, Drop, Restrict
  <1>2. WizardsHold' /\ WizardAlone' /\ RestHolds'
    BY <1>1, Dropped DEF WizardsHold, WizardAlone, RestHolds, End, WizardInv
  <1>3. ReleasesHold'
    BY DEF WizardInv, ReleasesHold
  <1> QED
    BY <1>2, <1>3 DEF WizardInv

\* It goes on and writes nothing.
LEMMA WizardThinks ==
    ASSUME WizardInv, NEW q \in DOMAIN job, NEW j \in WizardJob, job' = [job EXCEPT ![q] = j],
           OnlyTheWizard, mishaps' = mishaps, NotesHold(releases, j),
           j.current = job[q].current, job[q].pc \in BeforeTheSwap, j.pc \in BeforeTheSwap
    PROVE  WizardInv'
  <1>1. FilesHold'
    BY DEF WizardInv, FilesHold, OnlyTheWizard
  <1>2. SwapHolds(job[q])
    BY DEF WizardInv, WizardsHold, WizardHolds
  <1>3. SwapHolds(j)'
    BY <1>2 DEF SwapHolds, OnlyTheWizard, BeforeTheSwap
  <1> QED
    BY <1>1, <1>3, WizardGoesOn DEF WizardHolds, OnlyTheWizard

-----------------------------------------------------------------------------
\* The search

\* What holds of a wizard at work.
LEMMA RowsOfWizard ==
    ASSUME WizardInv, NEW q \in DOMAIN job
    PROVE  /\ job[q] \in WizardJob /\ NotesHold(releases, job[q]) /\ SwapHolds(job[q])
           /\ job[q].op = "deploy" /\ InFlight({"deploy"}) = DOMAIN job
  BY DEF WizardInv, WizardsHold, WizardHolds, WizardJob, InFlight

\* The list of the releases.
LEMMA ReleasesAre ==
    ASSUME ReleasesHold
    PROVE  /\ Len(releases) \in 0 .. 2 * Line /\ DOMAIN releases = 1 .. Len(releases)
           /\ \A k \in DOMAIN releases : releases[k] \in Place
  BY DEF ReleasesHold

\* The numbers the search counts with.
LEMMA NumbersOfWizard ==
    ASSUME WizardInv, NEW q \in DOMAIN job
    PROVE  /\ job[q].lo \in Int /\ job[q].hi \in Int /\ job[q].base \in Int
           /\ job[q].baseCurrent \in Int
           /\ job[q].current.on \in Int /\ job[q].target.on \in Int
           /\ OneToPlace(job[q]).on \in Int
           /\ OneToPlace(job[q]).off \in BOOLEAN
  <1>1. job[q] \in WizardJob
    BY RowsOfWizard
  <1>2. \A x \in Image : x.on \in Int /\ x.off \in BOOLEAN
    <2> SUFFICES ASSUME NEW x \in Image
                 PROVE  x.on \in Int /\ x.off \in BOOLEAN
      OBVIOUS
    <2>1. CASE x \in [kind: {"version"}, on: 1 .. Line, off: BOOLEAN]
      BY <2>1, WizardAssumption
    <2>2. CASE x \in [kind: {"sha"}, on: 0 .. Line, off: BOOLEAN]
      BY <2>2, WizardAssumption
    <2>3. CASE x \in [kind: {"other"}, on: {Line}, off: {FALSE}]
      <3>1. x.on = Line
        BY <2>3
      <3>2. x.off = FALSE
        BY <2>3
      <3>3. x.on \in Int
        BY <3>1, WizardAssumption
      <3> QED
        BY <3>2, <3>3
    <2> QED
      BY <2>1, <2>2, <2>3 DEF Image
  <1> QED
    BY <1>1, <1>2, WizardAssumption DEF WizardJob, OneToPlace

\* Where the line's releases are, an index between decides for both sides.
LEMMA Middle ==
    ASSUME NEW lo \in Int, NEW hi \in Int, lo <= hi
    PROVE  LET mid == (lo + hi) \div 2 IN mid \in Int /\ lo <= mid /\ mid <= hi
  OBVIOUS

\* The search passes a release whose commit is contained.
LEMMA Passed ==
    ASSUME ReleasesHold, NEW x, x.on \in Int, x.off \in BOOLEAN,
           NEW mid \in DOMAIN releases
    PROVE  /\ compare(releases[mid], x) = "ahead" =>
                 \A k \in DOMAIN releases :
                    ~releases[k].off /\ k <= mid => releases[k].on <= x.on
           /\ compare(releases[mid], x) = "behind" =>
                 \A k \in DOMAIN releases :
                    ~releases[k].off /\ k >= mid => x.on < releases[k].on
  <1>1. /\ DOMAIN releases \subseteq Int
        /\ \A k \in DOMAIN releases : releases[k].on \in Int /\ releases[k].off \in BOOLEAN
    BY ReleasesAre, WizardAssumption DEF Place
  <1>2. ASSUME NEW k \in DOMAIN releases, ~releases[k].off, k <= mid,
               compare(releases[mid], x) = "ahead"
        PROVE  releases[k].on <= x.on
    <2>1. releases[mid].on <= x.on
      BY <1>2 DEF compare, Contains
    <2>2. k = mid \/ releases[k].on <= releases[mid].on
      BY <1>1, <1>2 DEF ReleasesHold
    <2> QED
      BY <1>1, <2>1, <2>2
  <1>3. ASSUME NEW k \in DOMAIN releases, ~releases[k].off, k >= mid,
               compare(releases[mid], x) = "behind"
        PROVE  x.on < releases[k].on
    <2>1. x.on <= releases[mid].on /\ ~Contains(x, releases[mid])
      BY <1>3 DEF compare
    <2>2. CASE k = mid
      <3>1. ~releases[mid].off
        BY <1>3, <2>2
      <3> QED
        BY <1>1, <2>1, <2>2, <3>1 DEF Contains
    <2>3. CASE k # mid
      <3>1. releases[mid].on < releases[k].on
        BY <1>1, <1>3, <2>3 DEF ReleasesHold
      <3> QED
        BY <1>1, <2>1, <3>1
    <2> QED
      BY <2>2, <2>3
  <1> QED
    BY <1>2, <1>3

\* Where nothing is left of the search, it may ask for what it likes.
LEMMA FromTheMiddleIs ==
    ASSUME WizardInv, NEW q \in DOMAIN job
    PROVE  LET j == FromTheMiddle(job[q]) IN
           /\ j \in WizardJob
           /\ j.lo = 1 /\ j.hi = Len(releases) /\ j.base = 0
           /\ j.pc = job[q].pc /\ j.baseCurrent = job[q].baseCurrent
           /\ j.current = job[q].current /\ j.target = job[q].target
  <1>1. job[q] \in WizardJob
    BY RowsOfWizard
  <1>2. Len(releases) \in 0 .. 2 * Line
    BY ReleasesAre DEF WizardInv
  <1>3. 1 \in 1 .. 2 * Line + 1 /\ 0 \in 0 .. 2 * Line
    BY WizardAssumption
  <1> QED
    BY <1>1, <1>2, <1>3 DEF FromTheMiddle, WizardJob

\* The wizard could not work it out, and will say so.
LEMMA CouldNotTellSafe ==
    ASSUME WizardInv, NEW q \in DOMAIN job, CouldNotTell(q), OnlyTheWizard,
           mishaps' = mishaps, job[q].pc \in {"current", "target"}
    PROVE  WizardInv'
  <1> DEFINE j == Unplaced(job[q])
  <1>1. j \in WizardJob /\ j.pc = "read" /\ j.whyNot /\ j.current = job[q].current
    <2> DEFINE i == FromTheMiddle(job[q])
    <2>1. i \in WizardJob /\ i.current = job[q].current
      BY FromTheMiddleIs
    <2>2. j = [i EXCEPT !.pc = "read", !.baseCurrent = 0, !.whyNot = TRUE]
      BY DEF Unplaced
    <2>3. 0 \in 0 .. 2 * Line
      BY WizardAssumption
    <2> HIDE DEF i, j
    <2> QED
      BY <2>1, <2>2, <2>3 DEF WizardJob
  <1>2. NotesHold(releases, j)
    BY <1>1 DEF NotesHold
  <1>3. job' = [job EXCEPT ![q] = j]
    BY DEF CouldNotTell
  <1> HIDE DEF j
  <1> QED
    BY <1>1, <1>2, <1>3, WizardThinks DEF BeforeTheSwap

\* A wizard begins, and asks GitHub for the releases.
LEMMA AskSafe ==
    ASSUME WizardInv, NEW q \in DOMAIN job, askGitHub(q)
    PROVE  WizardInv'
  <1> DEFINE x == OneToPlace(job[q])
             mid == (job[q].lo + job[q].hi) \div 2
  <1>1. /\ job[q].pc \in {"current", "target"} /\ job[q].lo <= job[q].hi
        /\ OnlyTheWizard /\ mishaps' = mishaps
    BY DEF askGitHub, Placing
  <1>2. job[q] \in WizardJob /\ NotesHold(releases, job[q])
    BY RowsOfWizard
  <1>3. SearchHolds(releases, job[q])
    BY <1>1, <1>2 DEF NotesHold
  <1>4. /\ mid \in Int /\ job[q].lo <= mid /\ mid <= job[q].hi
    BY <1>1, NumbersOfWizard, Middle
  <1>5. ReleasesHold
    BY DEF WizardInv
  <1>6. job[q].lo >= 1 /\ job[q].hi <= Len(releases)
    BY <1>2, <1>3, WizardAssumption DEF WizardJob, SearchHolds
  <1>7. mid \in DOMAIN releases /\ Len(releases) <= 2 * Line
    BY <1>4, <1>5, <1>6, NumbersOfWizard, ReleasesAre, WizardAssumption
  <1>8. CASE /\ compare(releases[mid], x) = "ahead"
             /\ job' = [job EXCEPT ![q].base = mid, ![q].lo = mid + 1]
    <2> DEFINE j == [job[q] EXCEPT !.base = mid, !.lo = mid + 1]
    <2>1. job' = [job EXCEPT ![q] = j]
      BY <1>8
    <2>2. mid \in 0 .. 2 * Line /\ mid + 1 \in 1 .. 2 * Line + 1
      BY <1>4, <1>6, <1>7, NumbersOfWizard, WizardAssumption
    <2>3. j \in WizardJob /\ OneToPlace(j) = x
      BY <1>2, <2>2 DEF WizardJob, OneToPlace
    <2>4. j.lo = mid + 1 /\ j.base = mid /\ j.hi = job[q].hi /\ j.pc = job[q].pc
          /\ j.current = job[q].current /\ j.baseCurrent = job[q].baseCurrent
      BY <1>2 DEF WizardJob
    <2>5. \A k \in DOMAIN releases :
              ~releases[k].off /\ k <= mid => releases[k].on <= x.on
      BY <1>5, <1>7, <1>8, Passed, NumbersOfWizard
    <2> HIDE DEF j, x, mid
    <2>6. SearchHolds(releases, j)
      <3>1. DOMAIN releases \subseteq Int
        BY <1>5, ReleasesAre
      <3>2. j.lo <= j.hi + 1 /\ j.hi <= Len(releases) /\ j.base = j.lo - 1
        BY <1>4, <1>6, <2>4, NumbersOfWizard
      <3>3. \A k \in DOMAIN releases : ~releases[k].off => 
               /\ k < j.lo => releases[k].on <= x.on
               /\ k > j.hi => x.on < releases[k].on
        BY <1>3, <1>4, <2>4, <2>5, <3>1 DEF SearchHolds, x
      <3> QED
        BY <2>3, <3>2, <3>3 DEF SearchHolds
    <2>7. NotesHold(releases, j)
      BY <1>1, <1>2, <2>4, <2>6 DEF NotesHold
    <2> QED
      BY <1>1, <2>1, <2>3, <2>4, <2>7, WizardThinks DEF BeforeTheSwap
  <1>9. CASE /\ compare(releases[mid], x) = "behind"
             /\ job' = [job EXCEPT ![q].hi = mid - 1]
    <2> DEFINE j == [job[q] EXCEPT !.hi = mid - 1]
    <2>1. job' = [job EXCEPT ![q] = j]
      BY <1>9
    <2>2. mid - 1 \in 0 .. 2 * Line
      BY <1>4, <1>6, <1>7, NumbersOfWizard, WizardAssumption
    <2>3. j \in WizardJob /\ OneToPlace(j) = x
      BY <1>2, <2>2 DEF WizardJob, OneToPlace
    <2>4. j.lo = job[q].lo /\ j.base = job[q].base /\ j.hi = mid - 1 /\ j.pc = job[q].pc
          /\ j.current = job[q].current /\ j.baseCurrent = job[q].baseCurrent
      BY <1>2 DEF WizardJob
    <2>5. \A k \in DOMAIN releases :
              ~releases[k].off /\ k >= mid => x.on < releases[k].on
      BY <1>5, <1>7, <1>9, Passed, NumbersOfWizard
    <2> HIDE DEF j, x, mid
    <2>6. SearchHolds(releases, j)
      <3>1. DOMAIN releases \subseteq Int
        BY <1>5, ReleasesAre
      <3>2. j.lo <= j.hi + 1 /\ j.hi <= Len(releases) /\ j.base = j.lo - 1
        BY <1>3, <1>4, <1>5, <1>6, <2>4, NumbersOfWizard, ReleasesAre DEF SearchHolds
      <3>3. \A k \in DOMAIN releases : ~releases[k].off => 
               /\ k < j.lo => releases[k].on <= x.on
               /\ k > j.hi => x.on < releases[k].on
        BY <1>3, <1>4, <2>4, <2>5, <3>1 DEF SearchHolds, x
      <3> QED
        BY <2>3, <3>2, <3>3 DEF SearchHolds
    <2>7. NotesHold(releases, j)
      BY <1>1, <1>2, <2>4, <2>6 DEF NotesHold
    <2> QED
      BY <1>1, <2>1, <2>3, <2>4, <2>7, WizardThinks DEF BeforeTheSwap
  <1>10. CASE CouldNotTell(q)
    BY <1>1, <1>10, CouldNotTellSafe
  <1> QED
    <2>1. PICK status \in {compare(releases[mid], x), None} :
              CASE status = "ahead"  -> job' = [job EXCEPT ![q].base = mid, ![q].lo = mid + 1]
                [] status = "behind" -> job' = [job EXCEPT ![q].hi = mid - 1]
                [] OTHER             -> CouldNotTell(q)
      BY DEF askGitHub
    <2>2. None # "ahead" /\ None # "behind"
      BY DEF None
    <2> HIDE DEF x, mid
    <2>3. CASE status = "ahead"
      BY <1>8, <2>1, <2>2, <2>3
    <2>4. CASE status = "behind"
      BY <1>9, <2>1, <2>2, <2>4
    <2>5. CASE status # "ahead" /\ status # "behind"
      BY <1>10, <2>1, <2>5
    <2> QED
      BY <2>3, <2>4, <2>5

-----------------------------------------------------------------------------
\* The base is known

\* Of CURRENT: on to TARGET.
LEMMA ToTargetSafe ==
    ASSUME WizardInv, NEW q \in DOMAIN job, job[q].pc = "current",
           NEW base \in 0 .. 2 * Line, IsBase(releases, OneToPlace(job[q]), base),
           Placed(q, base), OnlyTheWizard, mishaps' = mishaps
    PROVE  WizardInv'
  <1> DEFINE i == FromTheMiddle(job[q])
             j == ToTarget(job[q], base)
  <1>1. /\ i \in WizardJob /\ i.lo = 1 /\ i.hi = Len(releases) /\ i.base = 0
        /\ i.current = job[q].current
    BY FromTheMiddleIs
  <1>2. job' = [job EXCEPT ![q] = j]
    BY DEF Placed
  <1>3. j = [i EXCEPT !.pc = "target", !.baseCurrent = base]
    BY DEF ToTarget
  <1> HIDE DEF i, j
  <1>4. /\ j \in WizardJob /\ j.pc = "target" /\ j.baseCurrent = base
        /\ j.current = job[q].current /\ j.lo = 1 /\ j.hi = Len(releases) /\ j.base = 0
    BY <1>1, <1>3 DEF WizardJob
  <1>5. DOMAIN releases = 1 .. Len(releases) /\ Len(releases) \in Nat
    BY ReleasesAre, WizardAssumption DEF WizardInv
  <1>6. SearchHolds(releases, j)
    BY <1>4, <1>5 DEF SearchHolds
  <1>7. IsBase(releases, j.current, j.baseCurrent)
    BY <1>4 DEF OneToPlace
  <1>8. NotesHold(releases, j)
    BY <1>4, <1>6, <1>7 DEF NotesHold
  <1> QED
    BY <1>2, <1>4, <1>8, WizardThinks DEF BeforeTheSwap

\* Of TARGET: what is crossed lies between the two.
LEMMA ToNotesSafe ==
    ASSUME WizardInv, NEW q \in DOMAIN job, job[q].pc = "target",
           NEW base \in 0 .. 2 * Line, IsBase(releases, OneToPlace(job[q]), base),
           Placed(q, base), OnlyTheWizard, mishaps' = mishaps
    PROVE  WizardInv'
  <1> DEFINE i == FromTheMiddle(job[q])
             crossed == Crossed(job[q].baseCurrent, base)
             j == ToNotes(job[q], crossed)
             notes == {releases[k] : k \in crossed}
  <1>1. i \in WizardJob /\ i.current = job[q].current /\ i.target = job[q].target
    BY FromTheMiddleIs
  <1>2. job' = [job EXCEPT ![q] = j]
    BY DEF Placed
  <1>3. /\ DOMAIN releases = 1 .. Len(releases) /\ Len(releases) \in Nat
        /\ \A k \in DOMAIN releases : releases[k] \in Place
    BY ReleasesAre, WizardAssumption DEF WizardInv
  <1>4. /\ IsBase(releases, job[q].current, job[q].baseCurrent)
        /\ IsBase(releases, job[q].target, base)
    BY RowsOfWizard DEF NotesHold, OneToPlace
  <1>5. job[q].baseCurrent \in Nat /\ base \in Nat
    BY RowsOfWizard, WizardAssumption DEF WizardJob
  <1>6. crossed \subseteq DOMAIN releases
    BY <1>3, <1>4, <1>5 DEF Crossed, IsBase
  <1>7. notes \in SUBSET Place
    BY <1>3, <1>6
  <1>8. \A k \in DOMAIN releases :
            ((k <= job[q].baseCurrent) # (k <= base)) => k \in crossed
    BY <1>3, <1>5 DEF Crossed
  <1>9. j = [i EXCEPT !.pc = IF crossed = {} THEN "confirm" ELSE "read",
                      !.baseCurrent = 0, !.shown = notes]
    BY DEF ToNotes
  <1>10. \A k \in crossed : releases[k] \in notes
    OBVIOUS
  <1>11. 0 \in 0 .. 2 * Line
    BY WizardAssumption
  <1> HIDE DEF i, j, crossed, notes
  <1>12. /\ j \in WizardJob /\ j.pc \in {"confirm", "read"} /\ j.shown = notes
         /\ j.current = job[q].current /\ j.target = job[q].target
    BY <1>1, <1>7, <1>9, <1>11 DEF WizardJob
  <1>13. Covers(releases, j)
    BY <1>4, <1>8, <1>10, <1>12 DEF Covers, IsBase
  <1>14. NotesHold(releases, j)
    BY <1>12, <1>13 DEF NotesHold
  <1> QED
    BY <1>2, <1>12, <1>14, WizardThinks DEF BeforeTheSwap

\* One step of the binary search.
LEMMA PlacedSafe ==
    ASSUME WizardInv, NEW q \in DOMAIN job, job[q].pc \in {"current", "target"},
           NEW base \in 0 .. 2 * Line, IsBase(releases, OneToPlace(job[q]), base),
           Placed(q, base), OnlyTheWizard, mishaps' = mishaps
    PROVE  WizardInv'
  BY ToTargetSafe, ToNotesSafe

\* The index of a release is its base: what comes before it is on the line below
\* it, and a commit that only it contains is off the line.
LEMMA IndexIsBase ==
    ASSUME ReleasesHold, NEW x, NEW n \in DOMAIN releases, x.on = releases[n].on
    PROVE  IsBase(releases, x, n) /\ n \in 0 .. 2 * Line
  <1>1. /\ DOMAIN releases = 1 .. Len(releases) /\ Len(releases) \in Nat
        /\ Len(releases) <= 2 * Line
        /\ \A k \in DOMAIN releases : releases[k].on \in Int
    BY ReleasesAre, WizardAssumption DEF Place
  <1>2. ASSUME NEW k \in DOMAIN releases, ~releases[k].off
        PROVE  releases[k].on <= x.on <=> k <= n
    <2>1. CASE k = n
      BY <1>1, <2>1
    <2>2. CASE k < n
      <3>1. releases[k].on <= releases[n].on
        BY <1>1, <2>2 DEF ReleasesHold
      <3> QED
        BY <1>1, <2>2, <3>1
    <2>3. CASE n < k
      <3>1. releases[n].on < releases[k].on
        BY <1>1, <1>2, <2>3 DEF ReleasesHold
      <3> QED
        BY <1>1, <2>3, <3>1
    <2> QED
      BY <1>1, <2>1, <2>2, <2>3
  <1> QED
    BY <1>1, <1>2, WizardAssumption DEF IsBase

\* An image that names a release is placed by its name.
LEMMA PlaceByNameSafe ==
    ASSUME WizardInv, NEW q \in DOMAIN job, placeByName(q)
    PROVE  WizardInv'
  <1> DEFINE x == OneToPlace(job[q])
  <1>1. job[q].pc \in {"current", "target"} /\ OnlyTheWizard /\ mishaps' = mishaps
    BY DEF placeByName, Placing
  <1>2. ReleasesHold
    BY DEF WizardInv
  <1>3. CASE Released(x)
    <2> DEFINE n == CHOOSE k \in DOMAIN releases : IsOf(x, releases[k])
    <2>1. n \in DOMAIN releases /\ IsOf(x, releases[n])
      BY <1>3 DEF Released
    <2>2. Placed(q, n)
      BY <1>3 DEF placeByName
    <2> HIDE DEF n, x
    <2>3. IsBase(releases, x, n) /\ n \in 0 .. 2 * Line
      BY <1>2, <2>1, IndexIsBase DEF IsOf
    <2> QED
      BY <1>1, <2>2, <2>3, PlacedSafe DEF x
  <1>4. CASE ~Released(x) /\ x.kind = "other" /\ releases = << >>
    <2>1. Placed(q, 0)
      BY <1>4 DEF placeByName
    <2>2. IsBase(releases, x, 0) /\ 0 \in 0 .. 2 * Line
      BY <1>4, WizardAssumption DEF IsBase
    <2> QED
      BY <1>1, <2>1, <2>2, PlacedSafe
  <1>5. CASE ~Released(x) /\ ~(x.kind = "other" /\ releases = << >>)
    <2>1. CouldNotTell(q)
      BY <1>5 DEF placeByName
    <2> QED
      BY <1>1, <2>1, CouldNotTellSafe
  <1> QED
    BY <1>3, <1>4, <1>5

\* The search is over: the target is next, or the notes.
LEMMA SearchEndsSafe ==
    ASSUME WizardInv, NEW q \in DOMAIN job, searchEnds(q)
    PROVE  WizardInv'
  <1> DEFINE x == OneToPlace(job[q])
             n == job[q].base
  <1>1. /\ job[q].pc \in {"current", "target"} /\ job[q].lo > job[q].hi
        /\ Placed(q, n) /\ OnlyTheWizard /\ mishaps' = mishaps
    BY DEF searchEnds, Placing
  <1>2. SearchHolds(releases, job[q]) /\ n \in 0 .. 2 * Line
    BY <1>1, RowsOfWizard DEF NotesHold, WizardJob
  <1>3. n = job[q].hi /\ n = job[q].lo - 1 /\ n <= Len(releases)
    BY <1>1, <1>2, NumbersOfWizard DEF SearchHolds
  <1>4. DOMAIN releases = 1 .. Len(releases)
    BY ReleasesAre DEF WizardInv
  <1>5. \A k \in DOMAIN releases : releases[k].on \in Int
    BY ReleasesAre, WizardAssumption DEF WizardInv, Place
  <1>6. x.on \in Int /\ job[q].lo \in Int /\ job[q].hi \in Int
    BY NumbersOfWizard
  <1>7. IsBase(releases, x, n)
    <2> SUFFICES ASSUME NEW k \in DOMAIN releases, ~releases[k].off
                 PROVE  releases[k].on <= x.on <=> k <= n
      BY <1>3 DEF IsBase
    <2>1. k < job[q].lo => releases[k].on <= x.on
      BY <1>2 DEF SearchHolds
    <2>2. k > job[q].hi => x.on < releases[k].on
      BY <1>2 DEF SearchHolds
    <2> HIDE DEF x, n
    <2> QED
      BY <1>3, <1>4, <1>5, <1>6, <2>1, <2>2
  <1> QED
    BY <1>1, <1>2, <1>7, PlacedSafe

-----------------------------------------------------------------------------
\* From the menu to the swap

\* The owner chooses where to go.
LEMMA ChooseTargetSafe ==
    ASSUME WizardInv, NEW q \in Requests, NEW target \in Image,
           NEW token \in BOOLEAN, NEW listed \in BOOLEAN,
           chooseTarget(q, target, token, listed)
    PROVE  WizardInv'
  <1> DEFINE redeploy == target = tag
             first == IF redeploy THEN "confirm" ELSE IF listed THEN "current" ELSE "read"
             none == ~redeploy /\ ~listed
             asked == [op |-> "deploy", current |-> tag, target |-> target, pc |-> first,
                       lo |-> 1, hi |-> Len(releases), base |-> 0, baseCurrent |-> 0,
                       whyNot |-> none, blind |-> FALSE, shown |-> {}]
  <1>0. PICK j : j = asked
    OBVIOUS
  <1>1. /\ job = Nothing /\ job' = Put(job, q, asked) /\ ran' = running
        /\ UNCHANGED <<releases, tag, running, told, mishaps>>
    BY DEF chooseTarget, Begin
  <1>2. DOMAIN job = {}
    BY <1>1 DEF Nothing
  <1>3. DOMAIN job' = {q} /\ job'[q] = j /\ job' \in [{q} -> {j}]
    BY <1>0, <1>1, <1>2 DEF Put
  <1>4. /\ DOMAIN releases = 1 .. Len(releases) /\ Len(releases) \in 0 .. 2 * Line
        /\ Len(releases) \in Nat
    BY ReleasesAre, WizardAssumption DEF WizardInv
  <1>5. tag \in Image /\ FilesHold'
    BY <1>1 DEF WizardInv, FilesHold
  <1>6. first \in {"confirm", "current", "read"} /\ none \in BOOLEAN
    OBVIOUS
  <1>7. j \in WizardJob
    <2>1. 1 \in 1 .. 2 * Line + 1 /\ 0 \in 0 .. 2 * Line
      BY WizardAssumption
    <2> HIDE DEF first, none
    <2> QED
      BY <1>0, <1>4, <1>5, <1>6, <2>1 DEF WizardJob
  <1>8. NotesHold(releases, j)
    <2>1. CASE first = "confirm"
      <3>1. tag = target
        BY <2>1
      <3> HIDE DEF first, none
      <3> QED
        BY <1>0, <2>1, <3>1 DEF NotesHold, Covers
    <2>2. CASE first = "current"
      <3> HIDE DEF first, none
      <3>1. SearchHolds(releases, j)
        BY <1>0, <1>4 DEF SearchHolds
      <3> QED
        BY <1>0, <2>2, <3>1 DEF NotesHold
    <2>3. CASE first = "read"
      <3>1. none
        BY <2>3
      <3> HIDE DEF first, none
      <3> QED
        BY <1>0, <2>3, <3>1 DEF NotesHold
    <2> QED
      BY <1>6, <2>1, <2>2, <2>3
  <1>9. SwapHolds(j)'
    <2>1. mishaps <= 1 => /\ told # None => running = tag
                          /\ mishaps = 0 => told # None
      BY <1>2 DEF WizardInv, RestHolds, OneFailureIsUndone, Quiet, InFlight
    <2> HIDE DEF first, none
    <2> QED
      BY <1>0, <1>1, <1>6, <2>1 DEF SwapHolds, BeforeTheSwap
  <1>10. WizardHolds(j)' /\ ReleasesHold'
    BY <1>1, <1>7, <1>8, <1>9 DEF WizardHolds, WizardInv, ReleasesHold
  <1>11. WizardsHold' /\ WizardAlone' /\ RestHolds'
    BY <1>3, <1>7, <1>10 DEF WizardsHold, WizardAlone, RestHolds
  <1> QED
    BY <1>5, <1>10, <1>11 DEF WizardInv

\* The notes of what is crossed are read, where they can be.
LEMMA ReadNotesSafe ==
    ASSUME WizardInv, NEW q \in DOMAIN job, readNotes(q)
    PROVE  WizardInv'
  <1>1. job[q].pc = "read" /\ OnlyTheWizard /\ mishaps' = mishaps
    BY DEF readNotes, At
  <1>2. PICK blind \in {job[q].whyNot, TRUE} :
            job' = [job EXCEPT ![q] =
                      [job[q] EXCEPT !.pc = "confirm", !.blind = blind,
                                     !.shown = IF blind THEN {} ELSE job[q].shown]]
    BY DEF readNotes
  <1> DEFINE shown == IF blind THEN {} ELSE job[q].shown
             j == [job[q] EXCEPT !.pc = "confirm", !.blind = blind, !.shown = shown]
  <1>3. /\ job[q] \in WizardJob /\ job[q].whyNot \in BOOLEAN
        /\ job[q].whyNot \/ Covers(releases, job[q])
    BY <1>1, RowsOfWizard DEF NotesHold, WizardJob
  <1>4. blind \in BOOLEAN /\ shown \in SUBSET Place
    BY <1>3 DEF WizardJob
  <1>5. ~blind => shown = job[q].shown /\ ~job[q].whyNot
    BY <1>3
  <1> HIDE DEF shown
  <1>6. /\ j \in WizardJob /\ j.pc = "confirm" /\ j.blind = blind /\ j.shown = shown
        /\ j.current = job[q].current /\ j.target = job[q].target
    BY <1>3, <1>4 DEF WizardJob
  <1>7. job' = [job EXCEPT ![q] = j]
    BY <1>2 DEF shown
  <1> HIDE DEF j
  <1>8. NotesHold(releases, j)
    BY <1>3, <1>5, <1>6 DEF NotesHold, Covers
  <1> QED
    BY <1>1, <1>6, <1>7, <1>8, WizardThinks DEF BeforeTheSwap

\* The wizard goes to its next step and holds what it held.
LEMMA StepIs ==
    ASSUME WizardInv, NEW q \in DOMAIN job, NEW pc, GoTo(q, pc),
           pc \in {"confirm", "swap", "pull", "up", "upAgain", "health", "back"}
    PROVE  LET j == [job[q] EXCEPT !.pc = pc] IN
           /\ j \in WizardJob /\ j.pc = pc /\ job' = [job EXCEPT ![q] = j]
           /\ \A f \in {"current", "target", "blind", "shown"} : j[f] = job[q][f]
  BY RowsOfWizard DEF WizardJob, GoTo

\* The owner agrees.
LEMMA ConfirmSafe ==
    ASSUME WizardInv, NEW q \in DOMAIN job, confirm(q)
    PROVE  WizardInv'
  <1> DEFINE j == [job[q] EXCEPT !.pc = "swap"]
  <1>1. /\ job[q].pc = "confirm" /\ GoTo(q, "swap") /\ OnlyTheWizard /\ mishaps' = mishaps
    BY DEF confirm, At
  <1>2. /\ j \in WizardJob /\ j.pc = "swap" /\ job' = [job EXCEPT ![q] = j]
        /\ j.current = job[q].current /\ j.target = job[q].target
        /\ j.blind = job[q].blind /\ j.shown = job[q].shown
    BY <1>1, StepIs
  <1> HIDE DEF j
  <1>3. NotesHold(releases, j)
    BY <1>1, <1>2, RowsOfWizard DEF NotesHold, Covers
  <1> QED
    BY <1>1, <1>2, <1>3, WizardThinks DEF BeforeTheSwap

\* Whatever ends the wizard before the swap.
LEMMA GiveUpSafe ==
    ASSUME WizardInv, NEW q \in DOMAIN job, giveUp(q)
    PROVE  WizardInv'
  <1>1. job[q].pc \in BeforeTheSwap /\ OnlyTheWizard /\ mishaps' = mishaps /\ End(q)
    BY DEF giveUp, BeforeTheSwap
  <1>2. FilesHold' /\ mishaps \in Nat
    BY <1>1 DEF WizardInv, FilesHold, OnlyTheWizard
  <1>3. SwapHolds(job[q])
    BY RowsOfWizard
  <1>4. OneFailureIsUndone' /\ (mishaps' = 0 => told' # None)
    BY <1>1, <1>2, <1>3 DEF SwapHolds, OneFailureIsUndone, OnlyTheWizard
  <1> QED
    BY <1>1, <1>2, <1>4, WizardEnds DEF OnlyTheWizard

-----------------------------------------------------------------------------
\* The swap

\* A step of the swap after which the wizard is still at work.
LEMMA SwapGoesOn ==
    ASSUME WizardInv, NEW q \in DOMAIN job, NEW pc, GoTo(q, pc), releases' = releases,
           pc \in {"pull", "up", "upAgain", "health", "back"}, FilesHold',
           NEW j, j = [job[q] EXCEPT !.pc = pc], SwapHolds(j)'
    PROVE  WizardInv'
  <1>1. j \in WizardJob /\ j.pc = pc /\ job' = [job EXCEPT ![q] = j]
    BY StepIs
  <1>2. NotesHold(releases, j)'
    BY <1>1 DEF NotesHold
  <1> QED
    BY <1>1, <1>2, WizardGoesOn DEF WizardHolds

\* What compose leaves running.
LEMMA OnTheWayIs ==
    ASSUME WizardInv
    PROVE  OnTheWay \subseteq Image \cup {Down}
  BY DEF WizardInv, FilesHold, OnTheWay

\* PPP_TAG is written.
LEMMA WriteTagSafe ==
    ASSUME WizardInv, NEW q \in DOMAIN job, writeTag(q)
    PROVE  WizardInv'
  <1> PICK j : j = [job[q] EXCEPT !.pc = "pull"]
    OBVIOUS
  <1>1. /\ job[q].pc = "swap" /\ GoTo(q, "pull") /\ tag' = job[q].target /\ told' = None
        /\ mishaps' = mishaps
        /\ UNCHANGED <<releases, running, ran>>
    BY DEF writeTag, At
  <1>2. job[q] \in WizardJob /\ SwapHolds(job[q])
    BY RowsOfWizard
  <1>3. FilesHold'
    BY <1>1, <1>2, OnTheWayIs DEF WizardInv, FilesHold, WizardJob
  <1>4. j.pc = "pull" /\ j.current = job[q].current
    BY <1>2 DEF WizardJob
  <1>5. mishaps \in Nat
    BY DEF WizardInv, FilesHold
  <1>6. SwapHolds(j)'
    BY <1>1, <1>2, <1>4, <1>5 DEF SwapHolds, BeforeTheSwap
  <1> QED
    BY <1>1, <1>3, <1>6, SwapGoesOn

\* The images are pulled.
LEMMA PullSafe ==
    ASSUME WizardInv, NEW q \in DOMAIN job, pull(q)
    PROVE  WizardInv'
  <1> PICK j : j = [job[q] EXCEPT !.pc = "up"]
    OBVIOUS
  <1>1. /\ job[q].pc = "pull" /\ GoTo(q, "up") /\ tag' = tag /\ told' = told
        /\ mishaps' = mishaps
        /\ UNCHANGED <<releases, running, ran>>
    BY DEF pull, At, OnlyTheWizard
  <1>2. job[q] \in WizardJob /\ SwapHolds(job[q])
    BY RowsOfWizard
  <1>3. FilesHold'
    BY <1>1, <1>2, OnTheWayIs DEF WizardInv, FilesHold, WizardJob
  <1>4. j.pc = "up" /\ j.current = job[q].current
    BY <1>2 DEF WizardJob
  <1>5. mishaps \in Nat
    BY DEF WizardInv, FilesHold
  <1>6. SwapHolds(j)'
    BY <1>1, <1>2, <1>4, <1>5 DEF SwapHolds, BeforeTheSwap
  <1> QED
    BY <1>1, <1>3, <1>6, SwapGoesOn

\* compose up succeeds.
LEMMA ComposeUpSafe ==
    ASSUME WizardInv, NEW q \in DOMAIN job, composeUp(q)
    PROVE  WizardInv'
  <1> PICK j : j = [job[q] EXCEPT !.pc = "health"]
    OBVIOUS
  <1>1. /\ job[q].pc = "up" /\ GoTo(q, "health") /\ tag' = tag /\ told' = told /\ running' = tag
        /\ mishaps' = mishaps
        /\ UNCHANGED <<releases, ran>>
    BY DEF composeUp, At
  <1>2. job[q] \in WizardJob /\ SwapHolds(job[q])
    BY RowsOfWizard
  <1>3. FilesHold'
    BY <1>1, <1>2, OnTheWayIs DEF WizardInv, FilesHold, WizardJob
  <1>4. j.pc = "health" /\ j.current = job[q].current
    BY <1>2 DEF WizardJob
  <1>5. mishaps \in Nat
    BY DEF WizardInv, FilesHold
  <1>6. SwapHolds(j)'
    BY <1>1, <1>2, <1>4, <1>5 DEF SwapHolds, BeforeTheSwap
  <1> QED
    BY <1>1, <1>3, <1>6, SwapGoesOn

\* It fails.
LEMMA ComposeUpFailsSafe ==
    ASSUME WizardInv, NEW q \in DOMAIN job, composeUpFails(q)
    PROVE  WizardInv'
  <1>0. mishaps \in Nat
    BY DEF WizardInv, FilesHold
  <1> PICK j : j = [job[q] EXCEPT !.pc = "upAgain"]
    OBVIOUS
  <1>1. /\ job[q].pc = "up" /\ GoTo(q, "upAgain") /\ tag' = job[q].current /\ running' \in OnTheWay
        /\ mishaps' = mishaps + 1
        /\ UNCHANGED <<releases, ran, told>>
    BY DEF composeUpFails, At, Mishap
  <1>2. job[q] \in WizardJob /\ SwapHolds(job[q])
    BY RowsOfWizard
  <1>3. FilesHold'
    <2>1. mishaps' \in Nat
      BY <1>0, <1>1
    <2>2. /\ tag' \in Image /\ running' \in Image \cup {Down} /\ ran' \in Image \cup {Down}
          /\ told' \in {"live and healthy", "failed", None}
      BY <1>1, <1>2, OnTheWayIs DEF WizardInv, FilesHold, WizardJob
    <2> QED
      BY <2>1, <2>2 DEF FilesHold
  <1>4. j.pc = "upAgain" /\ j.current = job[q].current
    BY <1>2 DEF WizardJob
  <1>5. mishaps' <= 1 => mishaps = 0 /\ mishaps' = 1
    BY <1>0, <1>1
  <1>6. SwapHolds(j)'
    BY <1>1, <1>2, <1>4, <1>5 DEF SwapHolds, BeforeTheSwap
  <1> QED
    BY <1>1, <1>3, <1>6, SwapGoesOn

\* The new stack does not become healthy.
LEMMA UnhealthySafe ==
    ASSUME WizardInv, NEW q \in DOMAIN job, unhealthy(q)
    PROVE  WizardInv'
  <1>0. mishaps \in Nat
    BY DEF WizardInv, FilesHold
  <1> PICK j : j = [job[q] EXCEPT !.pc = "back"]
    OBVIOUS
  <1>1. /\ job[q].pc = "health" /\ GoTo(q, "back") /\ tag' = job[q].current
        /\ mishaps' = mishaps + 1
        /\ UNCHANGED <<releases, running, ran, told>>
    BY DEF unhealthy, At, Mishap
  <1>2. job[q] \in WizardJob /\ SwapHolds(job[q])
    BY RowsOfWizard
  <1>3. FilesHold'
    <2>1. mishaps' \in Nat
      BY <1>0, <1>1
    <2>2. /\ tag' \in Image /\ running' \in Image \cup {Down} /\ ran' \in Image \cup {Down}
          /\ told' \in {"live and healthy", "failed", None}
      BY <1>1, <1>2, OnTheWayIs DEF WizardInv, FilesHold, WizardJob
    <2> QED
      BY <2>1, <2>2 DEF FilesHold
  <1>4. j.pc = "back" /\ j.current = job[q].current
    BY <1>2 DEF WizardJob
  <1>5. mishaps' <= 1 => mishaps = 0 /\ mishaps' = 1
    BY <1>0, <1>1
  <1>6. SwapHolds(j)'
    BY <1>1, <1>2, <1>4, <1>5 DEF SwapHolds, BeforeTheSwap
  <1> QED
    BY <1>1, <1>3, <1>6, SwapGoesOn

\* The pull fails: the file goes back to what it was.
LEMMA PullFailsSafe ==
    ASSUME WizardInv, NEW q \in DOMAIN job, pullFails(q)
    PROVE  WizardInv'
  <1>0. mishaps \in Nat
    BY DEF WizardInv, FilesHold
  <1>1. /\ job[q].pc \in {"pull"} /\ End(q) /\ tag' = job[q].current /\ told' = "failed"
        /\ mishaps' = mishaps + 1
        /\ UNCHANGED <<releases, running, ran>>
    BY DEF pullFails, At, Mishap
  <1>2. job[q] \in WizardJob /\ SwapHolds(job[q])
    BY RowsOfWizard
  <1>3. FilesHold'
    <2>1. mishaps' \in Nat
      BY <1>0, <1>1
    <2>2. /\ tag' \in Image /\ running' \in Image \cup {Down} /\ ran' \in Image \cup {Down}
          /\ told' \in {"live and healthy", "failed", None}
      BY <1>1, <1>2, OnTheWayIs DEF WizardInv, FilesHold, WizardJob
    <2> QED
      BY <2>1, <2>2 DEF FilesHold
  <1>4. (mishaps' <= 1 => mishaps = 0) /\ mishaps' # 0
    BY <1>0, <1>1
  <1>5. OneFailureIsUndone' /\ (mishaps' = 0 => told' # None)
    BY <1>1, <1>2, <1>4 DEF SwapHolds, BeforeTheSwap, OneFailureIsUndone, None
  <1> QED
    BY <1>1, <1>3, <1>5, WizardEnds

\* The new stack is healthy.
LEMMA HealthySafe ==
    ASSUME WizardInv, NEW q \in DOMAIN job, healthy(q)
    PROVE  WizardInv'
  <1>1. /\ job[q].pc \in {"health"} /\ End(q) /\ told' = "live and healthy"
        /\ mishaps' = mishaps
        /\ UNCHANGED <<releases, tag, running, ran>>
    BY DEF healthy, At
  <1>2. job[q] \in WizardJob /\ SwapHolds(job[q])
    BY RowsOfWizard
  <1>3. FilesHold'
    BY <1>1, <1>2, OnTheWayIs DEF WizardInv, FilesHold, WizardJob
  <1>4. mishaps \in Nat
    BY DEF WizardInv, FilesHold
  <1>5. OneFailureIsUndone' /\ (mishaps' = 0 => told' # None)
    BY <1>1, <1>2, <1>4 DEF SwapHolds, BeforeTheSwap, OneFailureIsUndone, None
  <1> QED
    BY <1>1, <1>3, <1>5, WizardEnds

\* The file goes back, and the old stack is started again.
LEMMA RollBackSafe ==
    ASSUME WizardInv, NEW q \in DOMAIN job, rollBack(q)
    PROVE  WizardInv'
  <1>1. /\ job[q].pc \in {"upAgain", "back"} /\ End(q) /\ running' = tag /\ told' = "failed"
        /\ mishaps' = mishaps
        /\ UNCHANGED <<releases, tag, ran>>
    BY DEF rollBack, At
  <1>2. job[q] \in WizardJob /\ SwapHolds(job[q])
    BY RowsOfWizard
  <1>3. FilesHold'
    BY <1>1, <1>2, OnTheWayIs DEF WizardInv, FilesHold, WizardJob
  <1>4. mishaps \in Nat
    BY DEF WizardInv, FilesHold
  <1>5. OneFailureIsUndone' /\ (mishaps' = 0 => told' # None)
    BY <1>1, <1>2, <1>4 DEF SwapHolds, BeforeTheSwap, OneFailureIsUndone, None
  <1> QED
    BY <1>1, <1>3, <1>5, WizardEnds

\* That fails too, which is the second failure.
LEMMA RollBackFailsSafe ==
    ASSUME WizardInv, NEW q \in DOMAIN job, rollBackFails(q)
    PROVE  WizardInv'
  <1>0. mishaps \in Nat
    BY DEF WizardInv, FilesHold
  <1>1. /\ job[q].pc \in {"upAgain", "back"} /\ End(q) /\ running' \in OnTheWay /\ told' = "failed"
        /\ mishaps' = mishaps + 1
        /\ UNCHANGED <<releases, tag, ran>>
    BY DEF rollBackFails, At, Mishap
  <1>2. job[q] \in WizardJob /\ SwapHolds(job[q])
    BY RowsOfWizard
  <1>3. FilesHold'
    <2>1. mishaps' \in Nat
      BY <1>0, <1>1
    <2>2. /\ tag' \in Image /\ running' \in Image \cup {Down} /\ ran' \in Image \cup {Down}
          /\ told' \in {"live and healthy", "failed", None}
      BY <1>1, <1>2, OnTheWayIs DEF WizardInv, FilesHold, WizardJob
    <2> QED
      BY <2>1, <2>2 DEF FilesHold
  <1>4. (mishaps' <= 1 => mishaps = 0) /\ mishaps' # 0
    BY <1>0, <1>1
  <1>5. OneFailureIsUndone' /\ (mishaps' = 0 => told' # None)
    BY <1>1, <1>2, <1>4 DEF SwapHolds, BeforeTheSwap, OneFailureIsUndone, None
  <1> QED
    BY <1>1, <1>3, <1>5, WizardEnds

\* The wizard is killed.
LEMMA CutShortSafe ==
    ASSUME WizardInv, NEW q \in DOMAIN job, cutShort(q)
    PROVE  WizardInv'
  <1>0. mishaps \in Nat
    BY DEF WizardInv, FilesHold
  <1>1. /\ job[q].pc \in {"pull", "up", "upAgain", "health", "back"} /\ End(q) /\ running' \in OnTheWay
        /\ mishaps' = mishaps + 1
        /\ UNCHANGED <<releases, tag, ran, told>>
    BY DEF cutShort, At, Mishap, OnTheWay
  <1>2. job[q] \in WizardJob /\ SwapHolds(job[q])
    BY RowsOfWizard
  <1>3. FilesHold'
    <2>1. mishaps' \in Nat
      BY <1>0, <1>1
    <2>2. /\ tag' \in Image /\ running' \in Image \cup {Down} /\ ran' \in Image \cup {Down}
          /\ told' \in {"live and healthy", "failed", None}
      BY <1>1, <1>2, OnTheWayIs DEF WizardInv, FilesHold, WizardJob
    <2> QED
      BY <2>1, <2>2 DEF FilesHold
  <1>4. (mishaps' <= 1 => mishaps = 0) /\ mishaps' # 0
    BY <1>0, <1>1
  <1>5. OneFailureIsUndone' /\ (mishaps' = 0 => told' # None)
    BY <1>1, <1>2, <1>4 DEF SwapHolds, BeforeTheSwap, OneFailureIsUndone, None
  <1> QED
    BY <1>1, <1>3, <1>5, WizardEnds

\* The releases there are at first
LEMMA ReleasesStart ==
    ASSUME WizardInit
    PROVE  ReleasesHold
  <1>1. PICK n \in 0 .. 2 * Line : releases \in [1 .. n -> Place]
    BY DEF WizardInit
  <1>2. releases \in Seq(Place) /\ Len(releases) = n
    BY <1>1, WizardAssumption
  <1>3. Len(releases) <= 2 * Line
    BY <1>2, WizardAssumption
  <1> DEFINE all == UNION {[1 .. m -> Place] : m \in 0 .. 2 * Line}
  <1>4. releases \in {s \in all : \A i, k \in DOMAIN s : i < k =>
                          \/ s[i].on < s[k].on
                          \/ s[i].on = s[k].on /\ ~s[i].off /\ s[k].off}
    BY DEF WizardInit
  <1> HIDE DEF all
  <1> QED
    BY <1>2, <1>3, <1>4 DEF ReleasesHold

-----------------------------------------------------------------------------
\* Something runs, and no wizard is at work.
LEMMA WizardStarts ==
    ASSUME WizardInit, job = Nothing, mishaps = 0
    PROVE  WizardInv
  <1>1. DOMAIN job = {} /\ job \in [{} -> WizardJob]
    BY DEF Nothing
  <1>2. FilesHold
    BY DEF WizardInit, FilesHold
  <1>3. RestHolds
    BY DEF WizardInit, RestHolds, OneFailureIsUndone, None
  <1> QED
    BY <1>1, <1>2, <1>3, ReleasesStart DEF WizardInv, WizardAlone, WizardsHold

\* Every step of a wizard keeps its invariant.
LEMMA WizardStep ==
    ASSUME WizardInv, WizardNext
    PROVE  WizardInv'
  <1>1. CASE \E q \in Requests, target \in Image, token, listed \in BOOLEAN :
                chooseTarget(q, target, token, listed)
    BY <1>1, ChooseTargetSafe
  <1>2. ASSUME NEW q \in DOMAIN job, placeByName(q) \/ askGitHub(q) \/ searchEnds(q)
        PROVE  WizardInv'
    BY <1>2, PlaceByNameSafe, AskSafe, SearchEndsSafe
  <1>3. ASSUME NEW q \in DOMAIN job, readNotes(q) \/ confirm(q) \/ giveUp(q)
        PROVE  WizardInv'
    BY <1>3, ReadNotesSafe, ConfirmSafe, GiveUpSafe
  <1>4. ASSUME NEW q \in DOMAIN job,
               \/ writeTag(q) \/ pull(q) \/ pullFails(q) \/ composeUp(q)
               \/ composeUpFails(q) \/ cutShort(q)
        PROVE  WizardInv'
    BY <1>4, WriteTagSafe, PullSafe, PullFailsSafe, ComposeUpSafe, ComposeUpFailsSafe,
       CutShortSafe
  <1>5. ASSUME NEW q \in DOMAIN job,
               healthy(q) \/ unhealthy(q) \/ rollBack(q) \/ rollBackFails(q)
        PROVE  WizardInv'
    BY <1>5, HealthySafe, UnhealthySafe, RollBackSafe, RollBackFailsSafe
  <1> QED
    BY <1>1, <1>2, <1>3, <1>4, <1>5 DEF WizardNext

\* The invariant of deploy-wizard.sh: what the binary search has passed is
\* contained and what it has cut off is not; the notes of what is crossed are at
\* hand or known to be missing; and while at most one thing has failed, the file
\* and the containers can be told from where the wizard is.
THEOREM WizardInvariant == WizardSpec => []WizardInv
  <1>1. WizardInit /\ job = Nothing /\ mishaps = 0 => WizardInv
    BY WizardStarts
  <1>2. WizardInv /\ [WizardNext]_wizardVars => WizardInv'
    <2>1. ASSUME WizardInv, UNCHANGED wizardVars
          PROVE  WizardInv'
      BY <2>1 DEF wizardVars, WizardInv, ReleasesHold, FilesHold, WizardAlone, WizardsHold,
         WizardHolds, SwapHolds, RestHolds, OneFailureIsUndone, Quiet, InFlight
    <2> QED
      BY <2>1, WizardStep
  <1> QED
    BY <1>1, <1>2, PTL DEF WizardSpec

\* The state of the wizard has its types.
THEOREM WizardTypes == WizardSpec => []WizardTypeOK
  <1>1. WizardInv => WizardTypeOK
    BY DEF WizardInv, ReleasesHold, FilesHold, WizardsHold, WizardHolds, WizardTypeOK, InFlight
  <1> QED
    BY <1>1, WizardInvariant, PTL

\* base_of and the notes: by the swap the owner has seen the notes of every
\* release of the line that the change crosses, forwards or back, or has agreed
\* to go on without; however many releases and hotfixes there are.
THEOREM EveryNoteIsRead == WizardSpec => []NoReleaseGoesUnread
  <1>1. WizardInv => NoReleaseGoesUnread
    BY DEF WizardInv, WizardsHold, WizardHolds, NotesHold, Covers, NoReleaseGoesUnread, InFlight
  <1> QED
    BY <1>1, WizardInvariant, PTL

\* The swap and the way back: one failure, wherever it comes, leaves the file
\* naming what runs, and what runs is what the wizard said.
THEOREM TheWayBackHolds == WizardSpec => []OneFailureIsUndone
  <1>1. ASSUME WizardInv
        PROVE  OneFailureIsUndone
    <2>1. InFlight({"deploy"}) = DOMAIN job
      BY <1>1, RowsOfWizard DEF InFlight
    <2> QED
      BY <1>1, <2>1 DEF WizardInv, RestHolds, OneFailureIsUndone, Quiet
  <1> QED
    BY <1>1, WizardInvariant, PTL

-----------------------------------------------------------------------------
\* The full test: what is there, and who owes what

\* The three env files.
EnvFiles == Range(ENV_FILES)

\* An entry of the list of what is set aside.
Parking == [name: StackNames, ran: BOOLEAN]

\* What a process may have left to do.
Todos == Seq(EnvFiles) \cup Seq(StackNames) \cup Seq(Parking)

\* Between the preflight and the way down.
BeforeUp  == {"gates", "save", "clear", "park", "stop", "rename"}
\* From the throwaway stack to the end of the suites.
Raised    == {"own", "point", "suites"}
\* With the env files saved, up to the way down.
AfterSave == {"clear", "park", "stop", "rename", "own", "point", "suites"}
\* The steps --restore has, most of them the cleanup's too.
OfRestore == {"remove", "unpark", "start", "restore", "discard"}

\* Where a process may be.
Pcs == BeforeUp \cup Raised \cup {"down"} \cup OfRestore

\* A run of the full test, or of --restore.
TestJob == [op: {"fullTest", "restore"}, pc: Pcs,
            todo: Todos, aside: Seq(StackNames),
            saving: BOOLEAN, raised: BOOLEAN, bad: BOOLEAN, hurt: BOOLEAN]

\* What is in SAVED is what the developer had, and what is not there is in place.
EnvHolds ==
    /\ envFile \in [EnvFiles -> {"mine", "made", "half", None}]
    /\ original \in [EnvFiles -> {"mine", None}]
    /\ copies \in [DOMAIN copies -> {"mine", "directory", None}]
    /\ \A f \in EnvFiles :
          /\ f \in DOMAIN copies => copies[f] = original[f]
          /\ f \in DOMAIN copies \/ envFile[f] = original[f]

\* A container.
Container == [of: {"theirs", "test"}, running: BOOLEAN]

\* Name n is taken as it was before.
AsItWas(n) == Own(n) \in DOMAIN container
              /\ container[Own(n)] = [of |-> "theirs", running |-> theirs[n]]

\* Name n is on the list.
OnList(n) == \E p \in Range(parked) : p.name = n

\* Its container is set aside, and listed.
SetAside(n) == Aside(n) \in DOMAIN container /\ OnList(n)

\* What is set aside is stopped and theirs; what has its own name is nowhere else;
\* and what is not as it was is on the list.
NameHolds(n) ==
    /\ Aside(n) \in DOMAIN container =>
          /\ n \in DOMAIN theirs
          /\ container[Aside(n)] = [of |-> "theirs", running |-> FALSE]
    /\ Own(n) \in Of("theirs") =>
          /\ n \in DOMAIN theirs /\ Aside(n) \notin DOMAIN container
          /\ container[Own(n)].running => theirs[n]
    /\ n \in DOMAIN theirs =>
          /\ Own(n) \in Of("theirs") \/ Aside(n) \in DOMAIN container
          /\ AsItWas(n) \/ OnList(n)

\* The list says how what is on it was.
ListHolds ==
    /\ DOMAIN theirs \subseteq StackNames /\ theirs \in [DOMAIN theirs -> BOOLEAN]
    /\ parked \in Seq(Parking)
    /\ \A p \in Range(parked) : p.name \in DOMAIN theirs /\ p.ran = theirs[p.name]

\* Containers have the names of the stack, or the names they are set aside
\* under.
ContainersHold ==
    /\ DOMAIN container \subseteq {Own(n) : n \in StackNames} \cup {Aside(n) : n \in StackNames}
    /\ container \in [DOMAIN container -> Container]

\* The containers, of any names.
StackHolds == ListHolds /\ ContainersHold /\ \A n \in StackNames : NameHolds(n)

\* The env files, by where a process is.
EnvJob(j) ==
    /\ j.op = "restore" => j.pc \in OfRestore /\ ~j.saving
    /\ j.pc = "remove" => j.op = "restore"
    /\ j.pc \in {"gates", "save"} => j.saving /\ envFile = original
    /\ j.pc = "gates" => copies = Nothing
    /\ j.pc \in {"save", "clear", "restore"} => j.todo \in Seq(EnvFiles)
    /\ j.pc = "save" =>
          copies # Nothing /\ \A f \in EnvFiles : f \in DOMAIN copies \/ f \in Range(j.todo)
    /\ j.pc \in AfterSave => ~j.saving /\ EnvFiles \subseteq DOMAIN copies
    /\ j.pc \in {"down", "unpark", "start"} /\ j.saving => envFile = original
    /\ j.pc = "suites" => envFile[".env"] = "made"
    /\ j.pc = "restore" =>
          /\ ~j.saving
          /\ ~j.bad => \A f \in EnvFiles : envFile[f] = original[f] \/ f \in Range(j.todo)
    /\ j.pc = "discard" => envFile = original

\* The containers, likewise.
ParkHolds(j) ==
    /\ j.pc \in {"gates", "save", "clear"} => parked = << >>
    /\ j.pc \in {"park", "stop", "rename"} => j.todo \in Seq(StackNames)
    /\ j.pc = "park" => \A n \in DOMAIN theirs : AsItWas(n) \/ SetAside(n)
    /\ j.pc \in {"stop", "rename"} =>
          /\ j.todo # << >> /\ Head(j.todo) \in DOMAIN theirs
          /\ OnList(Head(j.todo)) /\ Own(Head(j.todo)) \in Of("theirs")
          /\ \A n \in DOMAIN theirs \ {Head(j.todo)} : AsItWas(n) \/ SetAside(n)
    /\ j.pc = "rename" => ~container[Own(Head(j.todo))].running

\* The way back: what is not yet as it was is still to be gone through.
UnparkHolds(j) ==
    /\ j.pc \in {"unpark", "start"} =>
          j.todo \in Seq(Parking) /\ Range(j.todo) \subseteq Range(parked)
    /\ j.pc = "unpark" /\ ~j.bad =>
          \A n \in DOMAIN theirs : AsItWas(n) \/ \E p \in Range(j.todo) : p.name = n
    /\ j.pc = "start" =>
          /\ j.todo # << >> /\ Own(Head(j.todo).name) \in Of("theirs")
          /\ ~j.bad => \A n \in DOMAIN theirs \ {Head(j.todo).name} :
                          AsItWas(n) \/ \E p \in Range(Tail(j.todo)) : p.name = n
    /\ j.pc \in {"restore", "discard"} => (j.hurt \/ parked = << >>)

\* The throwaway stack is there only while somebody owes its removal.
TestStackHolds(j) ==
    /\ j.pc \in BeforeUp => ~j.raised /\ Of("test") = {} /\ ~j.hurt /\ ~j.bad
    /\ j.pc = "down" => (j.raised \/ Of("test") = {}) /\ ~j.hurt /\ ~j.bad
    /\ j.pc \in Raised =>
          /\ j.raised /\ ~j.hurt /\ ~j.bad
          /\ \A n \in StackNames : Own(n) \in Of("test")
    /\ j.pc = "remove" => ~j.hurt /\ ~j.bad
    /\ j.pc \in {"unpark", "start", "restore", "discard"} => j.hurt \/ Of("test") = {}

\* A process, by where it is.
TestJobHolds(j) == j \in TestJob /\ EnvJob(j) /\ ParkHolds(j) /\ UnparkHolds(j) /\ TestStackHolds(j)

\* One process at a time.
OneAtATime == \A p, q \in DOMAIN job : p = q

\* So for the one there is.
TestsHold ==
    /\ DOMAIN job \subseteq Requests /\ job \in [DOMAIN job -> TestJob]
    /\ \A q \in DOMAIN job : TestJobHolds(job[q])

\* Whoever ended whole left everything as it was.
LeftHolds == DOMAIN job = {} /\ leftWhole => AllIsBack

\* The five together are inductive.
TestInv == EnvHolds /\ StackHolds /\ OneAtATime /\ TestsHold /\ LeftHolds

-----------------------------------------------------------------------------
\* Names and lists

\* A container set aside has a name no stack uses.
LEMMA NamesDiffer ==
    ASSUME NEW n, NEW m
    PROVE  /\ Own(n) = Own(m) => n = m
           /\ Aside(n) = Aside(m) => n = m
           /\ Own(n) # Aside(m)
  BY DEF Own, Aside

\* The env files are three.
LEMMA EnvFilesAre == EnvFiles = {".env", ".env.backup", ".env.docker"} /\ ENV_FILES \in Seq(EnvFiles)
  <1>1. EnvFiles = {".env", ".env.backup", ".env.docker"}
    BY DEF EnvFiles, Range, ENV_FILES
  <1> QED
    BY <1>1 DEF ENV_FILES

\* A list is its first entry and what is left of it.
LEMMA Shorter ==
    ASSUME NEW S, NEW s \in Seq(S), s # << >>
    PROVE  /\ Head(s) \in S /\ Tail(s) \in Seq(S)
           /\ Range(s) = {Head(s)} \cup Range(Tail(s))
  <1>1. Len(s) \in Nat /\ Len(s) > 0 /\ DOMAIN s = 1 .. Len(s)
    OBVIOUS
  <1>2. Head(s) = s[1] /\ Tail(s) \in Seq(S) /\ Len(Tail(s)) = Len(s) - 1
        /\ \A i \in 1 .. Len(s) - 1 : Tail(s)[i] = s[i + 1]
    BY <1>1
  <1>3. DOMAIN Tail(s) = 1 .. Len(s) - 1
    BY <1>1, <1>2
  <1>4. ASSUME NEW i \in 1 .. Len(s)
        PROVE  s[i] = s[1] \/ \E k \in 1 .. Len(s) - 1 : s[i] = Tail(s)[k]
    <2>1. CASE i = 1
      BY <2>1
    <2>2. CASE i # 1
      <3>1. i - 1 \in 1 .. Len(s) - 1 /\ s[i] = Tail(s)[i - 1]
        BY <1>1, <1>2, <2>2
      <3> QED
        BY <3>1
    <2> QED
      BY <2>1, <2>2
  <1>5. \A k \in 1 .. Len(s) - 1 : Tail(s)[k] \in Range(s)
    BY <1>1, <1>2 DEF Range
  <1>6. s[1] \in Range(s)
    BY <1>1 DEF Range
  <1>7. /\ Range(s) = {s[i] : i \in 1 .. Len(s)}
        /\ Range(Tail(s)) = {Tail(s)[k] : k \in 1 .. Len(s) - 1}
    BY <1>1, <1>3 DEF Range
  <1>8. Range(s) = {s[1]} \cup Range(Tail(s))
    BY <1>4, <1>5, <1>6, <1>7
  <1> QED
    BY <1>1, <1>2, <1>8

\* Nothing is left of an empty list.
LEMMA Emptied == Range(<< >>) = {}
  BY DEF Range

\* Backwards a list has the same entries.
LEMMA Backwards ==
    ASSUME NEW S, NEW s \in Seq(S)
    PROVE  Seqs!Reverse(s) \in Seq(S) /\ Range(Seqs!Reverse(s)) = Range(s)
  <1> DEFINE r == Seqs!Reverse(s)
  <1>1. Len(s) \in Nat /\ DOMAIN s = 1 .. Len(s) /\ \A i \in 1 .. Len(s) : s[i] \in S
    OBVIOUS
  <1>2. r = [i \in 1 .. Len(s) |-> s[(Len(s) - i) + 1]]
    BY DEF Seqs!Reverse
  <1>3. \A i \in 1 .. Len(s) : (Len(s) - i) + 1 \in 1 .. Len(s)
    BY <1>1
  <1>4. r \in Seq(S) /\ DOMAIN r = 1 .. Len(s)
    <2>1. r \in [1 .. Len(s) -> S]
      BY <1>1, <1>2, <1>3
    <2> HIDE DEF r
    <2> QED
      BY <1>1, <2>1
  <1>5. \A i \in 1 .. Len(s) : r[i] = s[(Len(s) - i) + 1]
    BY <1>2
  <1> HIDE DEF r
  <1>6. \A i \in 1 .. Len(s) : s[i] = r[(Len(s) - i) + 1]
    <2> TAKE i \in 1 .. Len(s)
    <2>1. (Len(s) - i) + 1 \in 1 .. Len(s)
      BY <1>3
    <2>2. (Len(s) - ((Len(s) - i) + 1)) + 1 = i
      BY <1>1
    <2> QED
      BY <1>5, <2>1, <2>2
  <1>7. Range(r) = Range(s)
    BY <1>1, <1>3, <1>4, <1>5, <1>6 DEF Range
  <1> QED
    BY <1>4, <1>7 DEF r

\* Appending adds the one entry.
LEMMA Appended ==
    ASSUME NEW S, NEW s \in Seq(S), NEW x \in S
    PROVE  Append(s, x) \in Seq(S) /\ Range(Append(s, x)) = Range(s) \cup {x}
  <1>1. /\ Append(s, x) \in Seq(S) /\ Len(Append(s, x)) = Len(s) + 1 /\ Len(s) \in Nat
        /\ \A i \in 1 .. Len(s) : Append(s, x)[i] = s[i]
        /\ Append(s, x)[Len(s) + 1] = x
    OBVIOUS
  <1>2. DOMAIN Append(s, x) = 1 .. Len(s) + 1 /\ DOMAIN s = 1 .. Len(s)
    BY <1>1
  <1>3. \A i \in 1 .. Len(s) + 1 : i \in 1 .. Len(s) \/ i = Len(s) + 1
    BY <1>1
  <1>4. 1 .. Len(s) \subseteq 1 .. Len(s) + 1 /\ Len(s) + 1 \in 1 .. Len(s) + 1
    BY <1>1
  <1> QED
    BY <1>1, <1>2, <1>3, <1>4 DEF Range

-----------------------------------------------------------------------------
\* How a process goes on

\* What holds of the process there is.
LEMMA TheTest ==
    ASSUME TestInv, NEW q \in DOMAIN job
    PROVE  /\ job[q] \in TestJob /\ EnvJob(job[q]) /\ ParkHolds(job[q])
           /\ UnparkHolds(job[q]) /\ TestStackHolds(job[q])
           /\ EnvHolds /\ StackHolds /\ DOMAIN job = {q}
  BY DEF TestInv, TestsHold, TestJobHolds, OneAtATime

\* The process goes on.
LEMMA TestGoesOn ==
    ASSUME TestInv, NEW q \in DOMAIN job, NEW j \in TestJob, job' = [job EXCEPT ![q] = j],
           EnvHolds', StackHolds', EnvJob(j)', ParkHolds(j)', UnparkHolds(j)',
           TestStackHolds(j)'
    PROVE  TestInv'
  <1>1. job' = [p \in {q} |-> j] /\ DOMAIN job' = {q} /\ job'[q] = j
    BY TheTest DEF TestInv, TestsHold
  <1>2. TestJobHolds(j)'
    BY DEF TestJobHolds
  <1>3. TestsHold'
    BY <1>1, <1>2 DEF TestsHold, TestInv
  <1> QED
    BY <1>1, <1>3 DEF TestInv, OneAtATime, LeftHolds

\* It ends.
LEMMA TestEnds ==
    ASSUME TestInv, NEW q \in DOMAIN job, End(q), EnvHolds', StackHolds',
           leftWhole' => AllIsBack'
    PROVE  TestInv'
  <1>1. DOMAIN job' = {} /\ job' \in [{} -> TestJob]
    BY TheTest DEF End, Drop, Restrict
  <1> QED
    BY <1>1 DEF TestInv, TestsHold, OneAtATime, LeftHolds

\* One begins.
LEMMA TestBegins ==
    ASSUME TestInv, NEW q, job = Nothing, NEW j \in TestJob, Begin(q, j),
           UNCHANGED <<envFile, original, copies, container, theirs, parked>>,
           EnvJob(j), ParkHolds(j), UnparkHolds(j), TestStackHolds(j)
    PROVE  TestInv'
  <1>1. DOMAIN job = {}
    BY DEF Nothing
  <1>2. /\ job' = [p \in {q} |-> j] /\ q \in Requests
        /\ DOMAIN job' = {q} /\ job'[q] = j
    BY <1>1 DEF Begin, Put
  <1>3. EnvHolds' /\ StackHolds'
    BY DEF TestInv, EnvHolds, StackHolds, ListHolds, ContainersHold, NameHolds, AsItWas,
       OnList, Of
  <1>4. TestJobHolds(j)'
    BY DEF TestJobHolds, EnvJob, ParkHolds, UnparkHolds, TestStackHolds, AsItWas, OnList,
       SetAside, Of
  <1> QED
    BY <1>2, <1>3, <1>4 DEF TestInv, TestsHold, OneAtATime, LeftHolds

\* The files as they are, whatever becomes of the containers; and the converse.
LEMMA FilesStay ==
    ASSUME EnvHolds, UNCHANGED <<envFile, original, copies>>, NEW j, EnvJob(j)
    PROVE  EnvHolds' /\ EnvJob(j)'
  BY DEF EnvHolds, EnvJob

\* The containers as they are, whatever becomes of the files.
LEMMA StackStays ==
    ASSUME StackHolds, UNCHANGED <<container, theirs, parked>>, NEW j,
           ParkHolds(j), UnparkHolds(j), TestStackHolds(j)
    PROVE  StackHolds' /\ ParkHolds(j)' /\ UnparkHolds(j)' /\ TestStackHolds(j)'
  <1>1. StackHolds'
    BY DEF StackHolds, ListHolds, ContainersHold, NameHolds, AsItWas, OnList, Of
  <1>2. ParkHolds(j)' /\ UnparkHolds(j)' /\ TestStackHolds(j)'
    BY DEF ParkHolds, UnparkHolds, TestStackHolds, AsItWas, SetAside, OnList, Of
  <1> QED
    BY <1>1, <1>2

\* Where a process may be, and what it may have left to do.
LEMMA PcsAre ==
    /\ Pcs = {"gates", "save", "clear", "park", "stop", "rename", "own", "point", "suites",
              "down", "remove", "unpark", "start", "restore", "discard"}
    /\ Seq(EnvFiles) \subseteq Todos /\ Seq(StackNames) \subseteq Todos
    /\ Seq(Parking) \subseteq Todos
    /\ ENV_FILES \in Todos /\ << >> \in Todos
  BY EnvFilesAre DEF Pcs, BeforeUp, Raised, OfRestore, Todos

\* Process q has gone on to `pc` as j, and holds what it held but for `todo`.
Moved(q, j, pc, todo) ==
    /\ job' = [job EXCEPT ![q] = j]
    /\ j.pc = pc /\ j.todo = todo
    /\ j.op = job[q].op /\ j.aside = job[q].aside /\ j.saving = job[q].saving
    /\ j.raised = job[q].raised /\ j.bad = job[q].bad /\ j.hurt = job[q].hurt

\* Goes, with what it leaves alone.
LEMMA GoesIs ==
    ASSUME TestInv, NEW q \in DOMAIN job, NEW pc \in Pcs, NEW todo \in Todos,
           Goes(q, pc, todo)
    PROVE  \E j \in TestJob : Moved(q, j, pc, todo)
  <1> PICK j : j = [job[q] EXCEPT !.pc = pc, !.todo = todo]
    OBVIOUS
  <1>1. j \in TestJob /\ Moved(q, j, pc, todo)
    BY TheTest DEF TestJob, Goes, Moved
  <1> QED
    BY <1>1

\* GoTo, with what it leaves alone.
LEMMA GoToIs ==
    ASSUME TestInv, NEW q \in DOMAIN job, NEW pc \in Pcs, GoTo(q, pc)
    PROVE  \E j \in TestJob : Moved(q, j, pc, job[q].todo)
  <1> PICK j : j = [job[q] EXCEPT !.pc = pc]
    OBVIOUS
  <1>1. j \in TestJob /\ Moved(q, j, pc, job[q].todo)
    BY TheTest DEF TestJob, GoTo, Moved
  <1> QED
    BY <1>1

-----------------------------------------------------------------------------
\* Saving, and clearing the way

\* The preflight: nothing is saved, parked or of an earlier test.
LEMMA PreflightSafe ==
    ASSUME TestInv, ~AtOnce, NEW q, preflight(q)
    PROVE  TestInv'
  <1> DEFINE taken == {n \in StackNames : Own(n) \in DOMAIN container}
  <1>1. PICK aside \in Bijection(1 .. Cardinality(taken), taken) :
            Begin(q, Process("fullTest", "gates", aside))
    BY DEF preflight
  <1>2. aside \in Seq(StackNames)
    <2>1. taken \subseteq StackNames /\ IsFiniteSet(taken)
      BY FullTestAssumption, FS_Subset
    <2>2. Cardinality(taken) \in Nat
      BY <2>1, FS_CardinalityType
    <2> HIDE DEF taken
    <2>3. aside \in [1 .. Cardinality(taken) -> taken]
      BY DEF Bijection, Injection
    <2> QED
      BY <2>1, <2>2, <2>3
  <1> DEFINE j == Process("fullTest", "gates", aside)
  <1>3. /\ j \in TestJob /\ j.op = "fullTest" /\ j.pc = "gates" /\ j.saving
        /\ ~j.raised /\ ~j.bad /\ ~j.hurt
    BY <1>2, PcsAre DEF Process, TestJob
  <1>4. /\ job = Nothing /\ copies = Nothing /\ parked = << >>
        /\ \A n \in StackNames : Own(n) \notin Of("test")
        /\ UNCHANGED <<envFile, original, copies, container, theirs, parked>>
    BY DEF preflight, testVars
  <1>5. DOMAIN copies = {}
    BY <1>4 DEF Nothing
  <1>6. envFile = original
    BY <1>5 DEF TestInv, EnvHolds
  <1>7. Of("test") = {}
    BY <1>4 DEF TestInv, StackHolds, ContainersHold, NameHolds, Of
  <1> HIDE DEF j
  <1>8. EnvJob(j)
    BY <1>3, <1>4, <1>6 DEF EnvJob, AfterSave
  <1>9. ParkHolds(j) /\ UnparkHolds(j) /\ TestStackHolds(j)
    BY <1>3, <1>4, <1>7 DEF ParkHolds, UnparkHolds, TestStackHolds, BeforeUp, Raised
  <1>10. Begin(q, j)
    BY <1>1 DEF j
  <1> QED
    BY <1>3, <1>4, <1>8, <1>9, <1>10, TestBegins

\* SAVED is made.
LEMMA MakeSavedSafe ==
    ASSUME TestInv, NEW q \in DOMAIN job, makeSaved(q)
    PROVE  TestInv'
  <1>1. /\ job[q].pc = "gates"
        /\ UNCHANGED <<original, theirs, envFile, container, parked>>
    BY DEF makeSaved, Is, Known
  <1>2. job[q].saving /\ envFile = original /\ copies = Nothing
    BY <1>1, TheTest DEF EnvJob
  <1>3. copies' = Put(copies, SAVED, "directory") /\ Goes(q, "save", ENV_FILES)
    BY <1>2 DEF makeSaved
  <1>j. PICK j \in TestJob : Moved(q, j, "save", ENV_FILES)
    BY <1>2, <1>3, GoesIs, PcsAre
  <1>4. /\ job' = [job EXCEPT ![q] = j]
        /\ j.pc = "save" /\ j.todo = ENV_FILES /\ j.op = job[q].op /\ j.saving
        /\ j.raised = job[q].raised /\ j.bad = job[q].bad /\ j.hurt = job[q].hurt
    BY <1>2, <1>3, <1>j DEF Moved
  <1>5. SAVED \notin EnvFiles
    BY EnvFilesAre DEF SAVED
  <1>6. DOMAIN copies = {}
    BY <1>2 DEF Nothing
  <1>7. DOMAIN copies' = {SAVED} /\ copies' \in [{SAVED} -> {"directory"}]
    BY <1>3, <1>6 DEF Put
  <1>8. copies' # Nothing
    BY <1>7 DEF Nothing
  <1>9. EnvHolds'
    BY <1>1, <1>2, <1>5, <1>7, TheTest DEF EnvHolds
  <1>10. job[q].op = "fullTest"
    BY <1>1, TheTest DEF EnvJob, OfRestore, TestJob
  <1>11. EnvJob(j)'
    BY <1>1, <1>2, <1>4, <1>8, <1>10, EnvFilesAre DEF EnvJob, AfterSave, EnvFiles
  <1>12. ParkHolds(j) /\ UnparkHolds(j) /\ TestStackHolds(j)
    BY <1>1, <1>4, TheTest DEF ParkHolds, UnparkHolds, TestStackHolds, BeforeUp, Raised
  <1> QED
    BY <1>1, <1>4, <1>9, <1>11, <1>12, StackStays, TestGoesOn, TheTest

\* One env file is copied there.
LEMMA SaveFileSafe ==
    ASSUME TestInv, NEW q \in DOMAIN job, saveFile(q)
    PROVE  TestInv'
  <1> DEFINE f == Current(q)
  <1>1. /\ job[q].pc = "save" /\ job[q].todo # << >>
        /\ UNCHANGED <<original, theirs, envFile, container, parked>>
    BY DEF saveFile, Is, Known
  <1>2. /\ job[q].saving /\ envFile = original /\ copies # Nothing
        /\ job[q].op = "fullTest" /\ job[q].todo \in Seq(EnvFiles)
        /\ \A g \in EnvFiles : g \in DOMAIN copies \/ g \in Range(job[q].todo)
    BY <1>1, TheTest DEF EnvJob, OfRestore, TestJob
  <1>3. copies' = Put(copies, f, envFile[f]) /\ Goes(q, "save", Rest(q))
    BY <1>1, <1>2 DEF saveFile, Onwards
  <1>4. /\ f \in EnvFiles /\ Rest(q) \in Seq(EnvFiles)
        /\ Range(job[q].todo) = {f} \cup Range(Rest(q))
    BY <1>1, <1>2, Shorter DEF Current, Rest
  <1> HIDE DEF f
  <1>j. PICK j \in TestJob : Moved(q, j, "save", Rest(q))
    BY <1>2, <1>3, <1>4, GoesIs, PcsAre
  <1>5. /\ job' = [job EXCEPT ![q] = j]
        /\ j.pc = "save" /\ j.todo = Rest(q) /\ j.op = "fullTest" /\ j.saving
        /\ j.raised = job[q].raised /\ j.bad = job[q].bad /\ j.hurt = job[q].hurt
    BY <1>2, <1>3, <1>4, <1>j DEF Moved
  <1>6. /\ DOMAIN copies' = DOMAIN copies \cup {f} /\ copies'[f] = original[f]
        /\ \A g \in DOMAIN copies : g # f => copies'[g] = copies[g]
    BY <1>2, <1>3 DEF Put
  <1>7. copies' \in [DOMAIN copies' -> {"mine", "directory", None}]
    BY <1>2, <1>3, <1>4, TheTest DEF Put, EnvHolds
  <1>8. EnvHolds'
    BY <1>1, <1>2, <1>6, <1>7, TheTest DEF EnvHolds
  <1>9. copies' # Nothing
    BY <1>6 DEF Nothing
  <1>10. EnvJob(j)'
    <2>1. \A g \in EnvFiles : g \in DOMAIN copies' \/ g \in Range(j.todo)
      BY <1>2, <1>4, <1>5, <1>6
    <2> QED
      BY <1>1, <1>2, <1>4, <1>5, <1>9, <2>1 DEF EnvJob, AfterSave
  <1>11. ParkHolds(j) /\ UnparkHolds(j) /\ TestStackHolds(j)
    BY <1>1, <1>5, TheTest DEF ParkHolds, UnparkHolds, TestStackHolds, BeforeUp, Raised
  <1> QED
    BY <1>1, <1>5, <1>8, <1>10, <1>11, StackStays, TestGoesOn, TheTest

\* All of them are.
LEMMA AllSavedSafe ==
    ASSUME TestInv, NEW q \in DOMAIN job, allSaved(q)
    PROVE  TestInv'
  <1>1. /\ job[q].pc = "save" /\ job[q].todo = << >>
        /\ UNCHANGED <<original, theirs, envFile, copies, container, parked>>
    BY DEF allSaved, Is, testVars
  <1>2. job[q].op = "fullTest" /\ EnvFiles \subseteq DOMAIN copies
    BY <1>1, TheTest, Emptied DEF EnvJob, OfRestore, TestJob
  <1> PICK j : j = [job[q] EXCEPT !.saving = FALSE, !.pc = "clear", !.todo = ENV_FILES]
    OBVIOUS
  <1>3. job' = [job EXCEPT ![q] = j]
    BY DEF allSaved
  <1>4. /\ j \in TestJob /\ j.pc = "clear" /\ j.todo = ENV_FILES /\ j.op = "fullTest"
        /\ ~j.saving /\ j.raised = job[q].raised /\ j.bad = job[q].bad
        /\ j.hurt = job[q].hurt
    BY <1>2, TheTest, PcsAre DEF TestJob
  <1>5. EnvJob(j)
    BY <1>2, <1>4, EnvFilesAre DEF EnvJob, AfterSave
  <1>6. ParkHolds(j) /\ UnparkHolds(j) /\ TestStackHolds(j)
    BY <1>1, <1>4, TheTest DEF ParkHolds, UnparkHolds, TestStackHolds, BeforeUp, Raised
  <1> QED
    BY <1>1, <1>3, <1>4, <1>5, <1>6, FilesStay, StackStays, TestGoesOn, TheTest

\* One is removed.
LEMMA ClearFileSafe ==
    ASSUME TestInv, NEW q \in DOMAIN job, clearFile(q)
    PROVE  TestInv'
  <1> DEFINE f == Current(q)
  <1>1. /\ job[q].pc = "clear" /\ job[q].todo # << >>
        /\ envFile' = [envFile EXCEPT ![f] = None]
        /\ Goes(q, "clear", Rest(q))
        /\ UNCHANGED <<original, theirs, copies, container, parked>>
    BY DEF clearFile, Is, Known, Onwards
  <1>2. /\ ~job[q].saving /\ EnvFiles \subseteq DOMAIN copies
        /\ job[q].op = "fullTest" /\ job[q].todo \in Seq(EnvFiles)
    BY <1>1, TheTest DEF EnvJob, OfRestore, TestJob, AfterSave
  <1>3. Rest(q) \in Seq(EnvFiles)
    BY <1>1, <1>2, Shorter DEF Current, Rest
  <1>j. PICK j \in TestJob : Moved(q, j, "clear", Rest(q))
    BY <1>1, <1>2, <1>3, GoesIs, PcsAre
  <1>4. /\ job' = [job EXCEPT ![q] = j]
        /\ j.pc = "clear" /\ j.todo = Rest(q) /\ j.op = "fullTest" /\ ~j.saving
        /\ j.raised = job[q].raised /\ j.bad = job[q].bad /\ j.hurt = job[q].hurt
    BY <1>1, <1>2, <1>3, <1>j DEF Moved
  <1>5. EnvHolds'
    BY <1>1, <1>2, TheTest DEF EnvHolds
  <1>6. EnvJob(j)'
    BY <1>1, <1>2, <1>3, <1>4 DEF EnvJob, AfterSave
  <1>7. ParkHolds(j) /\ UnparkHolds(j) /\ TestStackHolds(j)
    BY <1>1, <1>4, TheTest DEF ParkHolds, UnparkHolds, TestStackHolds, BeforeUp, Raised
  <1> QED
    BY <1>1, <1>4, <1>5, <1>6, <1>7, StackStays, TestGoesOn, TheTest

\* The generated ones are written.
LEMMA WriteEnvSafe ==
    ASSUME TestInv, NEW q \in DOMAIN job, writeEnv(q)
    PROVE  TestInv'
  <1>1. /\ job[q].pc = "clear"
        /\ envFile' = [envFile EXCEPT ![".env.docker"] = "made"]
        /\ Goes(q, "park", job[q].aside)
        /\ UNCHANGED <<original, theirs, copies, container, parked>>
    BY DEF writeEnv, Is, Known
  <1>2. /\ ~job[q].saving /\ EnvFiles \subseteq DOMAIN copies /\ job[q].op = "fullTest"
        /\ job[q].aside \in Seq(StackNames)
    BY <1>1, TheTest DEF EnvJob, OfRestore, TestJob, AfterSave
  <1>j. PICK j \in TestJob : Moved(q, j, "park", job[q].aside)
    BY <1>1, <1>2, GoesIs, PcsAre
  <1>4. /\ job' = [job EXCEPT ![q] = j]
        /\ j.pc = "park" /\ j.todo = job[q].aside /\ j.op = "fullTest" /\ ~j.saving
        /\ j.raised = job[q].raised /\ j.bad = job[q].bad /\ j.hurt = job[q].hurt
    BY <1>1, <1>2, <1>j DEF Moved
  <1>5. EnvHolds'
    BY <1>1, <1>2, TheTest DEF EnvHolds
  <1>6. EnvJob(j)'
    BY <1>1, <1>2, <1>4 DEF EnvJob, AfterSave
  <1>7. \A n \in DOMAIN theirs : AsItWas(n)
    <2>1. parked = << >>
      BY <1>1, TheTest DEF ParkHolds
    <2> QED
      BY <2>1, TheTest, Emptied DEF StackHolds, ListHolds, NameHolds, OnList
  <1>8. ParkHolds(j) /\ UnparkHolds(j) /\ TestStackHolds(j)
    BY <1>1, <1>2, <1>4, <1>7, TheTest
       DEF ParkHolds, UnparkHolds, TestStackHolds, BeforeUp, Raised
  <1> QED
    BY <1>1, <1>4, <1>5, <1>6, <1>8, StackStays, TestGoesOn, TheTest

-----------------------------------------------------------------------------
\* The containers of name n that are theirs stay as they are.
TheirsStay(n) ==
    /\ (Own(n) \in Of("theirs"))' <=> Own(n) \in Of("theirs")
    /\ Own(n) \in Of("theirs") => container'[Own(n)] = container[Own(n)]
    /\ Aside(n) \in DOMAIN container' <=> Aside(n) \in DOMAIN container
    /\ Aside(n) \in DOMAIN container => container'[Aside(n)] = container[Aside(n)]

\* A name whose containers stay is as it was, listed or set aside as before.
LEMMA NameStays ==
    ASSUME NEW n, NameHolds(n), TheirsStay(n), UNCHANGED <<theirs, parked>>
    PROVE  /\ NameHolds(n)' /\ (OnList(n)' <=> OnList(n))
           /\ (AsItWas(n)' <=> AsItWas(n)) /\ (SetAside(n)' <=> SetAside(n))
  <1>1. OnList(n)' <=> OnList(n)
    BY DEF OnList
  <1>2. AsItWas(n)' <=> AsItWas(n)
    BY DEF AsItWas, TheirsStay, Of
  <1>3. SetAside(n)' <=> SetAside(n)
    BY <1>1 DEF SetAside, TheirsStay
  <1>4. NameHolds(n)'
    BY <1>1, <1>2 DEF NameHolds, TheirsStay
  <1> QED
    BY <1>1, <1>2, <1>3, <1>4

\* So it is of all of them when what goes or comes is the test's.
LEMMA TheirsAllStay ==
    ASSUME StackHolds, UNCHANGED <<theirs, parked>>, ContainersHold',
           \A n \in StackNames : TheirsStay(n)
    PROVE  /\ StackHolds'
           /\ \A n \in StackNames :
                 /\ AsItWas(n)' <=> AsItWas(n)
                 /\ SetAside(n)' <=> SetAside(n)
                 /\ OnList(n)' <=> OnList(n)
  <1>1. ListHolds'
    BY DEF StackHolds, ListHolds
  <1>2. \A n \in StackNames : NameHolds(n)
    BY DEF StackHolds
  <1> QED
    BY <1>1, <1>2, NameStays DEF StackHolds

\* Removing containers of the test disturbs no other.
LEMMA TestsGo ==
    ASSUME StackHolds, NEW gone \in SUBSET Of("test"), container' = Without(gone),
           UNCHANGED <<theirs, parked>>
    PROVE  /\ StackHolds' /\ Of("test")' = Of("test") \ gone
           /\ \A n \in StackNames :
                 /\ AsItWas(n)' <=> AsItWas(n)
                 /\ SetAside(n)' <=> SetAside(n)
  <1>1. /\ DOMAIN container' = DOMAIN container \ gone
        /\ \A x \in DOMAIN container \ gone : container'[x] = container[x]
    BY DEF Without, Restrict
  <1>2. ContainersHold'
    BY <1>1 DEF StackHolds, ContainersHold, Without, Restrict
  <1>3. Of("test")' = Of("test") \ gone
    BY <1>1 DEF Of
  <1>4. \A x \in gone : container[x].of = "test"
    BY DEF Of
  <1>5. ASSUME NEW n \in StackNames
        PROVE  TheirsStay(n)
    <2>1. Aside(n) \in DOMAIN container => Aside(n) \notin gone
      BY <1>4 DEF StackHolds, NameHolds
    <2>2. Own(n) \in Of("theirs") => Own(n) \notin gone
      BY <1>4 DEF Of
    <2> QED
      BY <1>1, <2>1, <2>2 DEF TheirsStay, Of
  <1> QED
    BY <1>2, <1>3, <1>5, TheirsAllStay

-----------------------------------------------------------------------------
\* Setting the other stack aside

\* A container is put on the list before anything is done to it.
LEMMA ListGrows ==
    ASSUME StackHolds, NEW p \in Parking, parked' = Append(parked, p),
           p.name \in DOMAIN theirs, p.ran = theirs[p.name],
           UNCHANGED <<container, theirs>>
    PROVE  /\ StackHolds' /\ OnList(p.name)'
           /\ \A n : /\ OnList(n) => OnList(n)'
                     /\ AsItWas(n)' <=> AsItWas(n)
                     /\ SetAside(n) => SetAside(n)'
  <1>1. parked' \in Seq(Parking) /\ Range(parked') = Range(parked) \cup {p}
    BY Appended DEF StackHolds, ListHolds
  <1>2. ListHolds'
    BY <1>1 DEF StackHolds, ListHolds
  <1>3. \A n : OnList(n) => OnList(n)'
    BY <1>1 DEF OnList
  <1>4. \A n : AsItWas(n)' <=> AsItWas(n)
    BY DEF AsItWas
  <1>5. \A n : SetAside(n) => SetAside(n)'
    BY <1>3 DEF SetAside
  <1>6. OnList(p.name)'
    BY <1>1 DEF OnList
  <1>7. ContainersHold' /\ \A n \in StackNames : NameHolds(n)'
    BY <1>3, <1>4 DEF StackHolds, ContainersHold, NameHolds, Of
  <1> QED
    BY <1>2, <1>3, <1>4, <1>5, <1>6, <1>7 DEF StackHolds

\* The next container is listed, or there is none.
LEMMA ListContainerSafe ==
    ASSUME TestInv, NEW q \in DOMAIN job, listContainer(q)
    PROVE  TestInv'
  <1> PICK n : n = Current(q)
    OBVIOUS
  <1> PICK p : p = [name |-> n, ran |-> container[Own(n)].running]
    OBVIOUS
  <1>1. /\ job[q].pc = "park" /\ job[q].todo # << >>
        /\ UNCHANGED <<envFile, original, copies, container, theirs>>
    BY DEF listContainer, Is, Known
  <1>2. /\ job[q].todo \in Seq(StackNames) /\ Of("test") = {}
        /\ \A m \in DOMAIN theirs : AsItWas(m) \/ SetAside(m)
        /\ job[q].op = "fullTest"
    BY <1>1, TheTest DEF ParkHolds, TestStackHolds, BeforeUp, EnvJob, OfRestore, TestJob
  <1>3. n \in StackNames /\ Rest(q) \in Seq(StackNames)
    BY <1>1, <1>2, Shorter DEF Current, Rest
  <1>4. CASE Own(n) \in DOMAIN container
    <2>1. parked' = Append(parked, p) /\ GoTo(q, "stop")
      BY <1>4 DEF listContainer, Own
    <2>2. Own(n) \in Of("theirs")
      BY <1>2, <1>4, TheTest DEF StackHolds, ContainersHold, Container, Of
    <2>3. n \in DOMAIN theirs /\ AsItWas(n)
      BY <1>2, <1>3, <2>2, TheTest DEF StackHolds, NameHolds, SetAside
    <2>4. p \in Parking /\ p.name = n /\ p.ran = theirs[n]
      <3>1. theirs[n] \in BOOLEAN
        BY <2>3, TheTest DEF StackHolds, ListHolds
      <3>2. p.name = n /\ p.ran = theirs[n]
        BY <2>3 DEF AsItWas
      <3>3. p = [name |-> n, ran |-> theirs[n]]
        BY <3>2
      <3> QED
        BY <1>3, <3>1, <3>2, <3>3 DEF Parking
    <2>5. /\ StackHolds' /\ OnList(n)'
          /\ \A m : /\ AsItWas(m)' <=> AsItWas(m)
                    /\ SetAside(m) => SetAside(m)'
      BY <1>1, <2>1, <2>3, <2>4, ListGrows, TheTest
    <2>6. PICK j \in TestJob : Moved(q, j, "stop", job[q].todo)
      BY <2>1, GoToIs, PcsAre
    <2>7. EnvJob(j) /\ UnparkHolds(j)'
      BY <1>1, <1>2, <2>6, TheTest DEF EnvJob, UnparkHolds, AfterSave, Moved
    <2>8. ParkHolds(j)' /\ TestStackHolds(j)'
      <3>1. j.pc = "stop" /\ j.todo = job[q].todo /\ Head(j.todo) = n
        BY <2>6 DEF Moved, Current
      <3>2. (Own(n) \in Of("theirs"))' /\ Of("test")' = {}
        BY <1>1, <1>2, <2>2 DEF Of
      <3>3. \A m \in DOMAIN theirs' : AsItWas(m)' \/ SetAside(m)'
        BY <1>1, <1>2, <2>5
      <3>4. ParkHolds(j)'
        BY <1>1, <1>2, <2>3, <2>5, <3>1, <3>2, <3>3 DEF ParkHolds
      <3>5. TestStackHolds(j)'
        BY <1>1, <2>6, <3>1, <3>2, TheTest DEF TestStackHolds, BeforeUp, Raised, Moved
      <3> QED
        BY <3>4, <3>5
    <2> QED
      BY <1>1, <2>5, <2>6, <2>7, <2>8, FilesStay, TestGoesOn, TheTest DEF Moved
  <1>5. CASE Own(n) \notin DOMAIN container
    <2>1. parked' = parked /\ Goes(q, "park", Rest(q))
      BY <1>1, <1>5 DEF listContainer, Onwards
    <2>2. PICK j \in TestJob : Moved(q, j, "park", Rest(q))
      BY <1>3, <2>1, GoesIs, PcsAre
    <2>3. EnvJob(j) /\ ParkHolds(j) /\ UnparkHolds(j) /\ TestStackHolds(j)
      BY <1>1, <1>2, <1>3, <2>2, TheTest
         DEF EnvJob, ParkHolds, UnparkHolds, TestStackHolds, AfterSave, BeforeUp, Raised, Moved
    <2> QED
      BY <1>1, <2>1, <2>2, <2>3, FilesStay, StackStays, TestGoesOn, TheTest DEF Moved
  <1> QED
    BY <1>4, <1>5

\* It is stopped.
LEMMA StopContainerSafe ==
    ASSUME TestInv, NEW q \in DOMAIN job, stopContainer(q)
    PROVE  TestInv'
  <1> PICK n : n = Current(q)
    OBVIOUS
  <1>1. /\ job[q].pc = "stop" /\ GoTo(q, "rename")
        /\ container' = [container EXCEPT ![Own(n)].running = FALSE]
        /\ UNCHANGED <<envFile, original, copies, theirs, parked>>
    BY DEF stopContainer, Is, Known
  <1>2. /\ job[q].todo \in Seq(StackNames) /\ Of("test") = {} /\ job[q].todo # << >>
        /\ n \in DOMAIN theirs /\ OnList(n) /\ Own(n) \in Of("theirs")
        /\ \A m \in DOMAIN theirs \ {n} : AsItWas(m) \/ SetAside(m)
        /\ job[q].op = "fullTest" /\ n = Head(job[q].todo)
    BY <1>1, TheTest DEF ParkHolds, TestStackHolds, BeforeUp, EnvJob, OfRestore, TestJob, Current
  <1>3. /\ DOMAIN container' = DOMAIN container
        /\ container'[Own(n)] = [of |-> "theirs", running |-> FALSE]
        /\ \A x \in DOMAIN container : x # Own(n) => container'[x] = container[x]
    BY <1>1, <1>2, TheTest DEF StackHolds, ContainersHold, Container, Of
  <1>4. \A m \in StackNames : m # n => TheirsStay(m)
    BY <1>3, NamesDiffer DEF TheirsStay, Of
  <1>5. ContainersHold'
    <2>1. container \in [DOMAIN container -> Container]
      BY TheTest DEF StackHolds, ContainersHold
    <2>2. [of |-> "theirs", running |-> FALSE] \in Container
      BY DEF Container
    <2>3. \A x \in DOMAIN container : container'[x] \in Container
      BY <1>3, <2>1, <2>2
    <2>4. container' \in [DOMAIN container -> Container]
      BY <1>1, <2>3
    <2> QED
      BY <1>3, <2>4, TheTest DEF StackHolds, ContainersHold
  <1>6. (Own(n) \in Of("theirs"))' /\ Of("test")' = {} /\ OnList(n)'
    BY <1>1, <1>2, <1>3 DEF Of, OnList
  <1>7. NameHolds(n)'
    BY <1>1, <1>2, <1>3, <1>6, NamesDiffer, TheTest DEF StackHolds, ListHolds, NameHolds, Of
  <1>8. StackHolds'
    <2>1. ListHolds'
      BY <1>1, TheTest DEF StackHolds, ListHolds
    <2> QED
      BY <1>1, <1>4, <1>5, <1>7, <2>1, NameStays, TheTest DEF StackHolds
  <1>9. \A m \in DOMAIN theirs' \ {n} : AsItWas(m)' \/ SetAside(m)'
    BY <1>1, <1>2, <1>4, NameStays, TheTest DEF StackHolds, ListHolds
  <1>10. PICK j \in TestJob : Moved(q, j, "rename", job[q].todo)
    BY <1>1, GoToIs, PcsAre
  <1>11. EnvJob(j) /\ UnparkHolds(j)'
    BY <1>1, <1>2, <1>10, TheTest DEF EnvJob, UnparkHolds, AfterSave, Moved
  <1>12. ParkHolds(j)' /\ TestStackHolds(j)'
    <2>1. j.pc = "rename" /\ j.todo = job[q].todo /\ Head(j.todo) = n
      BY <1>2, <1>10 DEF Moved
    <2>2. ParkHolds(j)'
      BY <1>1, <1>2, <1>3, <1>6, <1>9, <2>1 DEF ParkHolds
    <2>3. TestStackHolds(j)'
      BY <1>1, <1>6, <1>10, <2>1, TheTest DEF TestStackHolds, BeforeUp, Raised, Moved
    <2> QED
      BY <2>2, <2>3
  <1> QED
    BY <1>1, <1>8, <1>10, <1>11, <1>12, FilesStay, TestGoesOn, TheTest DEF Moved

\* One of their containers takes the other of its two names.
LEMMA RenamedIs ==
    ASSUME StackHolds, NEW n \in StackNames, NEW x, NEW y,
           \/ x = Own(n) /\ y = Aside(n)
           \/ x = Aside(n) /\ y = Own(n),
           x \in Of("theirs"), y \notin DOMAIN container, container' = Renamed(x, y)
    PROVE  /\ DOMAIN container' = (DOMAIN container \ {x}) \cup {y}
           /\ container'[y] = container[x] /\ x # y
           /\ ContainersHold' /\ Of("test")' = Of("test")
           /\ \A m \in StackNames : m # n => TheirsStay(m)
  <1>1. x # y /\ x \in DOMAIN container /\ container[x].of = "theirs"
    BY NamesDiffer DEF Of
  <1>2. /\ DOMAIN container' = (DOMAIN container \ {x}) \cup {y}
        /\ container'[y] = container[x]
        /\ \A z \in DOMAIN container \ {x} : container'[z] = container[z]
        /\ container' = [z \in DOMAIN container' |-> container'[z]]
    BY <1>1 DEF Renamed, Put, Drop, Restrict
  <1>3. ContainersHold'
    <2>1. \A z \in DOMAIN container' : container'[z] \in Container
      BY <1>1, <1>2 DEF StackHolds, ContainersHold
    <2>2. container' \in [DOMAIN container' -> Container]
      BY <1>2, <2>1
    <2> QED
      BY <1>2, <2>2 DEF StackHolds, ContainersHold
  <1>4. Of("test")' = Of("test")
    BY <1>1, <1>2 DEF Of
  <1>5. ASSUME NEW m \in StackNames, m # n
        PROVE  TheirsStay(m)
    <2>1. Own(m) # x /\ Own(m) # y /\ Aside(m) # x /\ Aside(m) # y
      BY <1>5, NamesDiffer
    <2> QED
      BY <1>2, <2>1 DEF TheirsStay, Of
  <1> QED
    BY <1>1, <1>2, <1>3, <1>4, <1>5

\* It is renamed.
LEMMA RenameAsideSafe ==
    ASSUME TestInv, NEW q \in DOMAIN job, renameAside(q)
    PROVE  TestInv'
  <1> PICK n : n = Current(q)
    OBVIOUS
  <1>1. /\ job[q].pc = "rename" /\ Goes(q, "park", Rest(q))
        /\ Own(n) \in DOMAIN container /\ Aside(n) \notin DOMAIN container
        /\ container' = Renamed(Own(n), Aside(n))
        /\ UNCHANGED <<envFile, original, copies, theirs, parked>>
    BY DEF renameAside, Is, Known
  <1>2. /\ job[q].todo \in Seq(StackNames) /\ Of("test") = {} /\ job[q].todo # << >>
        /\ n \in DOMAIN theirs /\ OnList(n) /\ Own(n) \in Of("theirs")
        /\ \A m \in DOMAIN theirs \ {n} : AsItWas(m) \/ SetAside(m)
        /\ ~container[Own(n)].running
        /\ job[q].op = "fullTest"
    BY <1>1, TheTest DEF ParkHolds, TestStackHolds, BeforeUp, EnvJob, OfRestore, TestJob, Current
  <1>3. n \in StackNames /\ Rest(q) \in Seq(StackNames)
    BY <1>1, <1>2, Shorter DEF Current, Rest
  <1>4. /\ DOMAIN container' = (DOMAIN container \ {Own(n)}) \cup {Aside(n)}
        /\ container'[Aside(n)] = container[Own(n)] /\ Own(n) # Aside(n)
        /\ ContainersHold' /\ Of("test")' = {}
        /\ \A m \in StackNames : m # n => TheirsStay(m)
    <2> PICK x : x = Own(n)
      OBVIOUS
    <2> PICK y : y = Aside(n)
      OBVIOUS
    <2>1. x \in Of("theirs") /\ y \notin DOMAIN container /\ container' = Renamed(x, y)
      BY <1>1, <1>2
    <2>3. StackHolds
      BY TheTest
    <2>2. /\ DOMAIN container' = (DOMAIN container \ {x}) \cup {y}
          /\ container'[y] = container[x] /\ x # y
          /\ ContainersHold' /\ Of("test")' = Of("test")
          /\ \A m \in StackNames : m # n => TheirsStay(m)
      <3>1. n \in StackNames
        BY <1>3
      <3>2. x \in Of("theirs")
        BY <2>1
      <3>3. y \notin DOMAIN container
        BY <2>1
      <3>4. container' = Renamed(x, y)
        BY <2>1
      <3>5. (x = Own(n) /\ y = Aside(n)) \/ (x = Aside(n) /\ y = Own(n))
        OBVIOUS
      <3> QED
        BY ONLY <2>3, <3>1, <3>2, <3>3, <3>4, <3>5, RenamedIs
    <2> QED
      BY <1>2, <2>2
  <1>5. container'[Aside(n)] = [of |-> "theirs", running |-> FALSE]
    <2>1. container[Own(n)] \in Container /\ container[Own(n)].of = "theirs"
      BY <1>2, TheTest DEF StackHolds, ContainersHold, Of
    <2> QED
      BY <1>2, <1>4, <2>1 DEF Container
  <1>6. OnList(n)' /\ Own(n) \notin DOMAIN container' /\ SetAside(n)'
    BY <1>1, <1>2, <1>4 DEF OnList, SetAside
  <1>7. NameHolds(n)'
    BY <1>1, <1>2, <1>5, <1>6 DEF NameHolds, Of, SetAside
  <1>8. ListHolds'
    BY <1>1, TheTest DEF StackHolds, ListHolds
  <1>9. StackHolds'
    BY <1>1, <1>4, <1>7, <1>8, NameStays, TheTest DEF StackHolds
  <1>10. \A m \in DOMAIN theirs' : AsItWas(m)' \/ SetAside(m)'
    BY <1>1, <1>2, <1>4, <1>6, NameStays, TheTest DEF StackHolds, ListHolds
  <1>11. PICK j \in TestJob : Moved(q, j, "park", Rest(q))
    BY <1>1, <1>3, GoesIs, PcsAre
  <1>12. EnvJob(j) /\ UnparkHolds(j)'
    BY <1>1, <1>2, <1>3, <1>11, TheTest DEF EnvJob, UnparkHolds, AfterSave, Moved
  <1>13. ParkHolds(j)' /\ TestStackHolds(j)'
    BY <1>1, <1>3, <1>4, <1>10, <1>11, TheTest
       DEF ParkHolds, TestStackHolds, BeforeUp, Raised, Moved
  <1> QED
    BY <1>1, <1>9, <1>11, <1>12, <1>13, FilesStay, TestGoesOn, TheTest DEF Moved

-----------------------------------------------------------------------------
\* The throwaway stack, up and used

\* compose up
LEMMA BringUpSafe ==
    ASSUME TestInv, NEW q \in DOMAIN job, bringUp(q)
    PROVE  TestInv'
  <1>1. /\ job[q].pc = "park"
        /\ UNCHANGED <<envFile, original, copies, theirs, parked>>
    BY DEF bringUp, Is, Known
  <1>2. PICK made \in SUBSET {x \in {Own(n) : n \in StackNames} : x \notin DOMAIN container} :
            container' = [x \in DOMAIN container \cup made |->
                             IF x \in made THEN [of |-> "test", running |-> TRUE]
                                           ELSE container[x]]
    BY DEF bringUp
  <1>3. PICK next \in {"own", "down"} :
            /\ next = "own" => \A n \in StackNames : Own(n) \in DOMAIN container'
                                                     /\ container'[Own(n)].of = "test"
            /\ job' = [job EXCEPT ![q] = [job[q] EXCEPT !.raised = TRUE, !.pc = next]]
    BY DEF bringUp
  <1>4. /\ DOMAIN container' = DOMAIN container \cup made
        /\ \A x \in made : container'[x] = [of |-> "test", running |-> TRUE]
        /\ \A x \in DOMAIN container : container'[x] = container[x]
        /\ \A x \in made : x \notin DOMAIN container /\ \E n \in StackNames : x = Own(n)
    BY <1>2
  <1>5. ContainersHold'
    <2>1. [of |-> "test", running |-> TRUE] \in Container
      BY DEF Container
    <2>2. \A x \in DOMAIN container' : container'[x] \in Container
      BY <1>4, <2>1, TheTest DEF StackHolds, ContainersHold
    <2>3. container' = [x \in DOMAIN container' |-> container'[x]]
      BY <1>2
    <2>4. container' \in [DOMAIN container' -> Container]
      BY <2>2, <2>3
    <2>5. DOMAIN container' \subseteq {Own(n) : n \in StackNames} \cup {Aside(n) : n \in StackNames}
      BY <1>4, TheTest DEF StackHolds, ContainersHold
    <2> QED
      BY <2>4, <2>5 DEF ContainersHold
  <1>6. ASSUME NEW n \in StackNames
        PROVE  TheirsStay(n)
    <2>1. Aside(n) \notin made
      BY <1>4, NamesDiffer
    <2> QED
      BY <1>4, <2>1 DEF TheirsStay, Of
  <1>7. StackHolds'
    BY <1>1, <1>5, <1>6, TheirsAllStay, TheTest
  <1> PICK j : j = [job[q] EXCEPT !.raised = TRUE, !.pc = next]
    OBVIOUS
  <1>8. next \in Pcs
    BY PcsAre
  <1>9. /\ j \in TestJob /\ job' = [job EXCEPT ![q] = j] /\ j.pc = next /\ j.raised
        /\ j.op = job[q].op /\ j.saving = job[q].saving
        /\ j.bad = job[q].bad /\ j.hurt = job[q].hurt
    BY <1>3, <1>8, TheTest DEF TestJob
  <1>10. next = "own" => \A n \in StackNames : (Own(n) \in Of("test"))'
    BY <1>3 DEF Of
  <1>11. job[q].op = "fullTest" /\ ~job[q].saving /\ EnvFiles \subseteq DOMAIN copies
    BY <1>1, TheTest DEF EnvJob, AfterSave, OfRestore, TestJob
  <1>12. EnvJob(j)
    BY <1>9, <1>11 DEF EnvJob, AfterSave
  <1>13. ParkHolds(j)' /\ UnparkHolds(j)' /\ TestStackHolds(j)'
    BY <1>1, <1>9, <1>10, TheTest
       DEF ParkHolds, UnparkHolds, TestStackHolds, BeforeUp, Raised
  <1> QED
    BY <1>1, <1>7, <1>9, <1>12, <1>13, FilesStay, TestGoesOn, TheTest

\* owns_the_stack
LEMMA OwnStackSafe ==
    ASSUME TestInv, NEW q \in DOMAIN job, ownStack(q)
    PROVE  TestInv'
  <1>1. /\ job[q].pc = "own"
        /\ UNCHANGED <<envFile, original, copies, theirs, parked, container>>
    BY DEF ownStack, Is, testVars
  <1>2. PICK pc \in {"point", "down"} : GoTo(q, pc)
    BY DEF ownStack
  <1>3. PICK j \in TestJob : Moved(q, j, pc, job[q].todo)
    BY <1>2, GoToIs, PcsAre
  <1>4. EnvJob(j) /\ ParkHolds(j) /\ UnparkHolds(j) /\ TestStackHolds(j)
    BY <1>1, <1>3, TheTest
       DEF EnvJob, ParkHolds, UnparkHolds, TestStackHolds, AfterSave, BeforeUp, Raised,
           OfRestore, Moved
  <1> QED
    BY <1>1, <1>3, <1>4, FilesStay, StackStays, TestGoesOn, TheTest DEF Moved

\* env:container
LEMMA PointEnvSafe ==
    ASSUME TestInv, NEW q \in DOMAIN job, pointEnv(q)
    PROVE  TestInv'
  <1>1. /\ job[q].pc = "point" /\ GoTo(q, "suites")
        /\ UNCHANGED <<original, copies, theirs, parked, container>>
        /\ envFile' = [envFile EXCEPT ![".env"] = "made",
                                      ![".env.backup"] = IF envFile[".env"] = None THEN @
                                                         ELSE envFile[".env"]]
    BY DEF pointEnv, Is, Known
  <1>2. ~job[q].saving /\ EnvFiles \subseteq DOMAIN copies /\ job[q].op = "fullTest"
    BY <1>1, TheTest DEF EnvJob, AfterSave, OfRestore, TestJob
  <1>3. envFile' \in [EnvFiles -> {"mine", "made", "half", None}] /\ envFile'[".env"] = "made"
    BY <1>1, EnvFilesAre, TheTest DEF EnvHolds
  <1>4. EnvHolds'
    BY <1>1, <1>2, <1>3, TheTest DEF EnvHolds
  <1>5. PICK j \in TestJob : Moved(q, j, "suites", job[q].todo)
    BY <1>1, GoToIs, PcsAre
  <1>6. EnvJob(j)'
    BY <1>1, <1>2, <1>3, <1>5 DEF EnvJob, AfterSave, Moved
  <1>7. ParkHolds(j) /\ UnparkHolds(j) /\ TestStackHolds(j)
    BY <1>1, <1>5, TheTest DEF ParkHolds, UnparkHolds, TestStackHolds, BeforeUp, Raised, Moved
  <1> QED
    BY <1>1, <1>4, <1>5, <1>6, <1>7, StackStays, TestGoesOn, TheTest DEF Moved

\* The suites end, or a step of theirs fails.
LEMMA FinishSafe ==
    ASSUME TestInv, NEW q \in DOMAIN job, finish(q)
    PROVE  TestInv'
  <1>1. /\ job[q].pc \in {"suites", "point"} /\ GoTo(q, "down")
        /\ UNCHANGED <<envFile, original, copies, theirs, parked, container>>
    BY DEF finish, Is, testVars
  <1>2. PICK j \in TestJob : Moved(q, j, "down", job[q].todo)
    BY <1>1, GoToIs, PcsAre
  <1>3. EnvJob(j) /\ ParkHolds(j) /\ UnparkHolds(j) /\ TestStackHolds(j)
    BY <1>1, <1>2, TheTest
       DEF EnvJob, ParkHolds, UnparkHolds, TestStackHolds, AfterSave, BeforeUp, Raised,
           OfRestore, Moved
  <1> QED
    BY <1>1, <1>2, <1>3, FilesStay, StackStays, TestGoesOn, TheTest DEF Moved

\* From wherever a run is cut short the way down begins.
LEMMA DownSafe ==
    ASSUME TestInv, NEW q \in DOMAIN job, Goes(q, "down", << >>),
           job[q].pc \in {"save", "clear", "park", "stop", "rename", "own", "point", "suites"},
           UNCHANGED <<envFile, original, copies, theirs, parked, container>>
    PROVE  TestInv'
  <1>1. PICK j \in TestJob : Moved(q, j, "down", << >>)
    BY GoesIs, PcsAre
  <1>2. EnvJob(j) /\ ParkHolds(j) /\ UnparkHolds(j) /\ TestStackHolds(j)
    BY <1>1, TheTest
       DEF EnvJob, ParkHolds, UnparkHolds, TestStackHolds, AfterSave, BeforeUp, Raised,
           OfRestore, Moved
  <1> QED
    BY <1>1, <1>2, FilesStay, StackStays, TestGoesOn, TheTest DEF Moved

\* A step before the suites fails.
LEMMA PrepareFailsSafe ==
    ASSUME TestInv, NEW q \in DOMAIN job, prepareFails(q)
    PROVE  TestInv'
  BY DownSafe DEF prepareFails, Is, testVars

\* Ctrl-C.
LEMMA InterruptSafe ==
    ASSUME TestInv, NEW q \in DOMAIN job, interrupt(q)
    PROVE  TestInv'
  <1>1. UNCHANGED <<envFile, original, copies, theirs, parked, container>>
    BY DEF interrupt, testVars
  <1>2. CASE job[q].pc = "gates" /\ End(q)
    <2>1. /\ envFile = original /\ copies = Nothing /\ parked = << >> /\ Of("test") = {}
      BY <1>2, TheTest DEF EnvJob, ParkHolds, TestStackHolds, BeforeUp
    <2>2. AllIsBack'
      BY <1>1, <2>1 DEF AllIsBack, Of
    <2>3. EnvHolds' /\ StackHolds'
      BY <1>1, TheTest
         DEF EnvHolds, StackHolds, ListHolds, ContainersHold, NameHolds, AsItWas, OnList, Of
    <2> QED
      BY <1>2, <2>2, <2>3, TestEnds
  <1>3. CASE /\ job[q].pc \in {"save", "clear", "park", "stop", "rename", "own", "point", "suites"}
             /\ Goes(q, "down", << >>)
    BY <1>1, <1>3, DownSafe
  <1> QED
    BY <1>2, <1>3 DEF interrupt, Is

-----------------------------------------------------------------------------
\* The way down, as far as the names

\* What the way back is to go through names all that is not as it was.
LEMMA ToUnpark ==
    ASSUME StackHolds, NEW todo, todo = Seqs!Reverse(parked)
    PROVE  /\ todo \in Seq(Parking) /\ Range(todo) \subseteq Range(parked)
           /\ \A n \in DOMAIN theirs : AsItWas(n) \/ \E p \in Range(todo) : p.name = n
  <1>1. todo \in Seq(Parking) /\ Range(todo) = Range(parked)
    BY Backwards DEF StackHolds, ListHolds
  <1>2. \A n \in DOMAIN theirs : AsItWas(n) \/ OnList(n)
    BY DEF StackHolds, ListHolds, NameHolds
  <1> QED
    BY <1>1, <1>2 DEF OnList

\* The throwaway stack goes, or some of it, and the way back begins.
LEMMA UnparkBegins ==
    ASSUME TestInv, NEW q \in DOMAIN job, NEW gone \in SUBSET Of("test"),
           job[q].pc \in {"down", "remove"}, container' = Without(gone),
           UNCHANGED <<envFile, original, copies, theirs, parked>>,
           NEW j \in TestJob, job' = [job EXCEPT ![q] = j],
           j.pc = "unpark", j.todo = Seqs!Reverse(parked), j.op = job[q].op,
           j.saving = job[q].saving, j.hurt \/ gone = Of("test")
    PROVE  TestInv'
  <1>1. /\ StackHolds' /\ Of("test")' = Of("test") \ gone
        /\ \A n \in StackNames : AsItWas(n)' <=> AsItWas(n)
    BY TestsGo, TheTest
  <1>2. /\ j.todo \in Seq(Parking) /\ Range(j.todo) \subseteq Range(parked)
        /\ \A n \in DOMAIN theirs : AsItWas(n) \/ \E p \in Range(j.todo) : p.name = n
    BY ToUnpark, TheTest
  <1>3. EnvJob(j)
    BY TheTest DEF EnvJob, AfterSave, OfRestore
  <1>4. ParkHolds(j)' /\ TestStackHolds(j)'
    BY <1>1 DEF ParkHolds, TestStackHolds, BeforeUp, Raised
  <1>5. UnparkHolds(j)'
    <2>1. \A n \in DOMAIN theirs' : AsItWas(n)' \/ \E p \in Range(j.todo) : p.name = n
      BY <1>1, <1>2, TheTest DEF StackHolds, ListHolds
    <2> QED
      BY <1>2, <2>1 DEF UnparkHolds
  <1> QED
    BY <1>1, <1>3, <1>4, <1>5, FilesStay, TestGoesOn, TheTest

\* Unparking goes on to "unpark" with the list.
LEMMA UnparkingIs ==
    ASSUME TestInv, NEW q \in DOMAIN job, Unparking(q)
    PROVE  \E j \in TestJob : Moved(q, j, "unpark", Seqs!Reverse(parked))
  <1> PICK todo : todo = Seqs!Reverse(parked)
    OBVIOUS
  <1>1. todo \in Todos
    BY ToUnpark, TheTest, PcsAre
  <1>2. Goes(q, "unpark", todo)
    BY DEF Unparking
  <1> QED
    BY <1>1, <1>2, GoesIs, PcsAre

\* What is taken from no container leaves them.
LEMMA NoneGoes ==
    ASSUME StackHolds, container' = container
    PROVE  container' = Without({})
  <1>1. container \in [DOMAIN container -> Container] /\ DOMAIN container \ {} = DOMAIN container
    BY DEF StackHolds, ContainersHold
  <1> QED
    BY <1>1 DEF Without, Restrict

\* compose down
LEMMA TakeDownSafe ==
    ASSUME TestInv, NEW q \in DOMAIN job, takeDown(q)
    PROVE  TestInv'
  <1>1. /\ job[q].pc = "down" /\ Unparking(q)
        /\ UNCHANGED <<envFile, original, copies, theirs, parked>>
        /\ container' = IF job[q].raised THEN Without(Of("test")) ELSE container
    BY DEF takeDown, Is, Known
  <1>2. PICK j \in TestJob : Moved(q, j, "unpark", Seqs!Reverse(parked))
    BY <1>1, UnparkingIs
  <1>3. container' = Without(Of("test"))
    BY <1>1, NoneGoes, TheTest DEF TestStackHolds
  <1> QED
    BY <1>1, <1>2, <1>3, UnparkBegins DEF Moved

\* It fails, and the way back goes on, hurt.
LEMMA TakeDownFailsSafe ==
    ASSUME TestInv, NEW q \in DOMAIN job, takeDownFails(q)
    PROVE  TestInv'
  <1>1. /\ job[q].pc = "down"
        /\ UNCHANGED <<envFile, original, copies, theirs, parked>>
    BY DEF takeDownFails, Is, Known
  <1>2. PICK gone \in SUBSET Of("test") : container' = Without(gone)
    BY DEF takeDownFails
  <1> PICK todo : todo = Seqs!Reverse(parked)
    OBVIOUS
  <1>3. todo \in Todos
    BY ToUnpark, TheTest, PcsAre
  <1> PICK j : j = [job[q] EXCEPT !.pc = "unpark", !.todo = todo, !.hurt = TRUE]
    OBVIOUS
  <1>4. /\ j \in TestJob /\ job' = [job EXCEPT ![q] = j] /\ j.pc = "unpark" /\ j.todo = todo
        /\ j.op = job[q].op /\ j.saving = job[q].saving /\ j.hurt
    BY <1>3, PcsAre, TheTest DEF TestJob, takeDownFails
  <1> QED
    BY <1>1, <1>2, <1>4, UnparkBegins

\* --restore begins.
LEMMA BeginRestoreSafe ==
    ASSUME TestInv, ~AtOnce, NEW q, beginRestore(q)
    PROVE  TestInv'
  <1> PICK j : j = Process("restore", "remove", << >>)
    OBVIOUS
  <1>1. /\ j \in TestJob /\ j.op = "restore" /\ j.pc = "remove"
        /\ ~j.saving /\ ~j.bad /\ ~j.hurt
    <2> PICK e : e = << >>
      OBVIOUS
    <2>1. j = [op |-> "restore", pc |-> "remove", todo |-> e, aside |-> e,
               saving |-> FALSE, raised |-> FALSE, bad |-> FALSE, hurt |-> FALSE]
      BY DEF Process
    <2>2. e \in Seq(StackNames) /\ e \in Todos /\ "remove" \in Pcs
      BY PcsAre
    <2>3. j.op = "restore" /\ j.pc = "remove" /\ ~j.saving /\ ~j.bad /\ ~j.hurt
      BY <2>1
    <2>4. j \in TestJob
      BY ONLY <2>1, <2>2 DEF TestJob
    <2> QED
      BY <2>3, <2>4
  <1>2. /\ job = Nothing /\ Begin(q, j)
        /\ UNCHANGED <<envFile, original, copies, container, theirs, parked>>
    BY DEF beginRestore, testVars
  <1>3. EnvJob(j) /\ ParkHolds(j) /\ UnparkHolds(j) /\ TestStackHolds(j)
    BY <1>1 DEF EnvJob, ParkHolds, UnparkHolds, TestStackHolds, BeforeUp, Raised, OfRestore,
                AfterSave
  <1> QED
    BY <1>1, <1>2, <1>3, TestBegins

\* It removes the throwaway stack.
LEMMA RemoveTestSafe ==
    ASSUME TestInv, NEW q \in DOMAIN job, removeTest(q)
    PROVE  TestInv'
  <1>1. /\ job[q].pc = "remove" /\ Unparking(q) /\ container' = Without(Of("test"))
        /\ UNCHANGED <<envFile, original, copies, theirs, parked>>
    BY DEF removeTest, Is, Known
  <1>2. PICK j \in TestJob : Moved(q, j, "unpark", Seqs!Reverse(parked))
    BY <1>1, UnparkingIs
  <1> QED
    BY <1>1, <1>2, UnparkBegins DEF Moved

\* That fails, and it ends.
LEMMA RemoveTestFailsSafe ==
    ASSUME TestInv, NEW q \in DOMAIN job, removeTestFails(q)
    PROVE  TestInv'
  <1>1. /\ End(q) /\ ~leftWhole'
        /\ UNCHANGED <<envFile, original, copies, theirs, parked>>
    BY DEF removeTestFails, Leaves, Known
  <1>2. PICK gone \in SUBSET Of("test") : container' = Without(gone)
    BY DEF removeTestFails
  <1>3. StackHolds' /\ EnvHolds'
    BY <1>1, <1>2, TestsGo, TheTest DEF EnvHolds
  <1> QED
    BY <1>1, <1>3, TestEnds

-----------------------------------------------------------------------------
\* What the way back does to one name

\* A name is given back, if it can be.
LEMMA GivenBack ==
    ASSUME StackHolds, NEW n \in StackNames, n \in DOMAIN theirs, OnList(n),
           NEW x, NEW y, x = Aside(n), y = Own(n),
           ~(x \in DOMAIN container /\ y \in DOMAIN container),
           container' = IF x \in DOMAIN container THEN Renamed(x, y) ELSE container,
           UNCHANGED <<theirs, parked>>
    PROVE  /\ StackHolds' /\ (Own(n) \in Of("theirs"))' /\ Of("test")' = Of("test")
           /\ \A m \in DOMAIN theirs : m # n => (AsItWas(m)' <=> AsItWas(m))
  <1>1. NameHolds(n) /\ ListHolds
    BY DEF StackHolds
  <1>2. CASE x \notin DOMAIN container
    <2>1. container' = container
      BY <1>2
    <2>2. Own(n) \in Of("theirs")
      BY <1>1, <1>2 DEF NameHolds
    <2> QED
      BY <2>1, <2>2
         DEF StackHolds, ListHolds, ContainersHold, NameHolds, AsItWas, OnList, Of
  <1>3. CASE x \in DOMAIN container
    <2>1. container' = Renamed(x, y) /\ y \notin DOMAIN container
      BY <1>3
    <2>2. container[x] = [of |-> "theirs", running |-> FALSE] /\ x \in Of("theirs")
      BY <1>1, <1>3 DEF NameHolds, Of
    <2>3. (x = Own(n) /\ y = Aside(n)) \/ (x = Aside(n) /\ y = Own(n))
      OBVIOUS
    <2>4. /\ DOMAIN container' = (DOMAIN container \ {x}) \cup {y}
          /\ container'[y] = container[x] /\ x # y
          /\ ContainersHold' /\ Of("test")' = Of("test")
          /\ \A m \in StackNames : m # n => TheirsStay(m)
      BY ONLY <2>1, <2>2, <2>3, StackHolds, n \in StackNames, RenamedIs
    <2>5. Aside(n) \notin DOMAIN container' /\ (Own(n) \in Of("theirs"))'
      BY <2>2, <2>4 DEF Of
    <2>6. NameHolds(n)'
      <3>1. OnList(n)'
        BY DEF OnList
      <3> QED
        BY <2>2, <2>4, <2>5, <3>1 DEF NameHolds
    <2>7. ListHolds'
      BY <1>1 DEF ListHolds
    <2>8. \A m \in StackNames : m # n => NameHolds(m)' /\ (AsItWas(m)' <=> AsItWas(m))
      BY <2>4, NameStays DEF StackHolds
    <2> QED
      BY <1>1, <2>4, <2>5, <2>6, <2>7, <2>8 DEF StackHolds, ListHolds
  <1> QED
    BY <1>2, <1>3

\* What ran is started again.
LEMMA StartedAgain ==
    ASSUME StackHolds, NEW n \in StackNames, n \in DOMAIN theirs, NEW was, was = theirs[n],
           Own(n) \in Of("theirs"),
           container' = IF was THEN [container EXCEPT ![Own(n)].running = TRUE] ELSE container,
           UNCHANGED <<theirs, parked>>
    PROVE  /\ StackHolds' /\ AsItWas(n)' /\ Of("test")' = Of("test")
           /\ \A m \in DOMAIN theirs : m # n => (AsItWas(m)' <=> AsItWas(m))
  <1>1. NameHolds(n) /\ ListHolds /\ was \in BOOLEAN
    BY DEF StackHolds, ListHolds
  <1>2. Own(n) \in DOMAIN container /\ container[Own(n)] \in Container
        /\ container[Own(n)].of = "theirs" /\ (container[Own(n)].running => was)
    BY <1>1 DEF StackHolds, ContainersHold, Of, NameHolds
  <1>3. CASE ~was
    <2>1. container' = container
      BY <1>3
    <2>2. AsItWas(n)
      <3>1. container[Own(n)] = [of |-> "theirs", running |-> FALSE]
        BY <1>2, <1>3 DEF Container
      <3>2. theirs[n] = FALSE
        BY <1>1, <1>3
      <3> QED
        BY <1>2, <3>1, <3>2 DEF AsItWas
    <2> QED
      BY <2>1, <2>2
         DEF StackHolds, ListHolds, ContainersHold, NameHolds, AsItWas, OnList, Of
  <1>4. CASE was
    <2>1. /\ DOMAIN container' = DOMAIN container
          /\ container'[Own(n)] = [of |-> "theirs", running |-> TRUE]
          /\ \A x \in DOMAIN container : x # Own(n) => container'[x] = container[x]
      BY <1>2, <1>4 DEF Container
    <2>2. \A m \in StackNames : m # n => TheirsStay(m)
      BY <2>1, NamesDiffer DEF TheirsStay, Of
    <2>3. ContainersHold'
      <3>1. container \in [DOMAIN container -> Container]
        BY DEF StackHolds, ContainersHold
      <3>2. [of |-> "theirs", running |-> TRUE] \in Container
        BY DEF Container
      <3>3. \A x \in DOMAIN container : container'[x] \in Container
        BY <2>1, <3>1, <3>2
      <3>4. container' \in [DOMAIN container -> Container]
        BY <1>4, <3>3
      <3> QED
        BY <2>1, <3>4 DEF StackHolds, ContainersHold
    <2>4. theirs[n] = TRUE
      BY <1>1, <1>4
    <2>5. AsItWas(n)' /\ (Own(n) \in Of("theirs"))' /\ Of("test")' = Of("test")
      BY <1>2, <2>1, <2>4 DEF AsItWas, Of
    <2>6. NameHolds(n)'
      BY <1>1, <1>2, <2>1, <2>4, <2>5, NamesDiffer DEF NameHolds
    <2>7. ListHolds'
      BY <1>1 DEF ListHolds
    <2>8. \A m \in StackNames : m # n => NameHolds(m)' /\ (AsItWas(m)' <=> AsItWas(m))
      BY <2>2, NameStays DEF StackHolds
    <2> QED
      BY <1>1, <2>3, <2>5, <2>6, <2>7, <2>8 DEF StackHolds, ListHolds
  <1> QED
    BY <1>1, <1>3, <1>4

-----------------------------------------------------------------------------
\* The way back

\* What is next on the list has been theirs, and is on the list still.
LEMMA NextIs ==
    ASSUME TestInv, NEW q \in DOMAIN job, job[q].pc \in {"unpark", "start"},
           job[q].todo # << >>
    PROVE  /\ Current(q) \in Parking /\ Rest(q) \in Seq(Parking)
           /\ Range(job[q].todo) = {Current(q)} \cup Range(Rest(q))
           /\ Range(Rest(q)) \subseteq Range(parked)
           /\ Current(q).name \in DOMAIN theirs /\ Current(q).name \in StackNames
           /\ Current(q).ran = theirs[Current(q).name] /\ OnList(Current(q).name)
  <1>1. job[q].todo \in Seq(Parking) /\ Range(job[q].todo) \subseteq Range(parked)
    BY TheTest DEF UnparkHolds
  <1>2. /\ Current(q) \in Parking /\ Rest(q) \in Seq(Parking)
        /\ Range(job[q].todo) = {Current(q)} \cup Range(Rest(q))
    BY <1>1, Shorter DEF Current, Rest
  <1>3. Current(q) \in Range(parked)
    BY <1>1, <1>2
  <1> QED
    BY <1>1, <1>2, <1>3, TheTest DEF StackHolds, ListHolds, OnList

\* One container cannot be put back: the way back goes on, and is bad.
LEMMA NotBackSafe ==
    ASSUME TestInv, NEW q \in DOMAIN job, NotBack(q), job[q].pc \in {"unpark", "start"},
           job[q].todo # << >>,
           UNCHANGED <<envFile, original, copies, container, theirs, parked>>
    PROVE  TestInv'
  <1> PICK todo : todo = Rest(q)
    OBVIOUS
  <1>1. todo \in Seq(Parking) /\ Range(todo) \subseteq Range(parked) /\ todo \in Todos
    BY NextIs, PcsAre
  <1> PICK j : j = [job[q] EXCEPT !.pc = "unpark", !.todo = todo, !.bad = TRUE]
    OBVIOUS
  <1>2. /\ j \in TestJob /\ job' = [job EXCEPT ![q] = j] /\ j.pc = "unpark" /\ j.todo = todo
        /\ j.op = job[q].op /\ j.saving = job[q].saving /\ j.hurt = job[q].hurt /\ j.bad
    BY <1>1, PcsAre, TheTest DEF TestJob, NotBack
  <1>3. EnvJob(j) /\ ParkHolds(j) /\ UnparkHolds(j) /\ TestStackHolds(j)
    BY <1>1, <1>2, TheTest
       DEF EnvJob, ParkHolds, UnparkHolds, TestStackHolds, AfterSave, BeforeUp, Raised,
           OfRestore
  <1> QED
    BY <1>2, <1>3, FilesStay, StackStays, TestGoesOn, TheTest

\* The next container gets its name back.
LEMMA GiveNameBackSafe ==
    ASSUME TestInv, NEW q \in DOMAIN job, giveNameBack(q)
    PROVE  TestInv'
  <1> PICK n : n = Current(q).name
    OBVIOUS
  <1> PICK x : x = Aside(n)
    OBVIOUS
  <1> PICK y : y = Own(n)
    OBVIOUS
  <1>1. /\ job[q].pc = "unpark" /\ job[q].todo # << >>
        /\ UNCHANGED <<envFile, original, copies, theirs, parked>>
    BY DEF giveNameBack, Is, Known
  <1>2. /\ n \in DOMAIN theirs /\ n \in StackNames /\ OnList(n) /\ n = Head(job[q].todo).name
        /\ job[q].todo \in Seq(Parking) /\ Range(job[q].todo) \subseteq Range(parked)
        /\ Range(job[q].todo) = {Head(job[q].todo)} \cup Range(Tail(job[q].todo))
    BY <1>1, NextIs, TheTest DEF UnparkHolds, Current, Rest
  <1>3. CASE x \in DOMAIN container /\ y \in DOMAIN container
    <2>1. NotBack(q) /\ UNCHANGED container
      BY <1>3 DEF giveNameBack
    <2> QED
      BY <1>1, <2>1, NotBackSafe
  <1>4. CASE ~(x \in DOMAIN container /\ y \in DOMAIN container)
    <2>1. /\ container' = IF x \in DOMAIN container THEN Renamed(x, y) ELSE container
          /\ GoTo(q, "start")
      BY <1>4 DEF giveNameBack
    <2>2. /\ StackHolds' /\ (Own(n) \in Of("theirs"))' /\ Of("test")' = Of("test")
          /\ \A m \in DOMAIN theirs : m # n => (AsItWas(m)' <=> AsItWas(m))
      BY <1>1, <1>2, <1>4, <2>1, GivenBack, TheTest
    <2>3. PICK j \in TestJob : Moved(q, j, "start", job[q].todo)
      BY <2>1, GoToIs, PcsAre
    <2>4. EnvJob(j)
      BY <1>1, <2>3, TheTest DEF EnvJob, AfterSave, OfRestore, Moved
    <2>5. ParkHolds(j)' /\ TestStackHolds(j)'
      BY <1>1, <2>2, <2>3, TheTest DEF ParkHolds, TestStackHolds, BeforeUp, Raised, Moved
    <2>6. ASSUME ~j.bad, NEW m \in DOMAIN theirs \ {n}
          PROVE  AsItWas(m)' \/ \E p \in Range(Tail(j.todo)) : p.name = m
      <3>1. AsItWas(m) \/ \E p \in Range(job[q].todo) : p.name = m
        BY <1>1, <2>3, <2>6, TheTest DEF UnparkHolds, Moved
      <3> QED
        BY <1>2, <2>2, <2>3, <3>1 DEF Moved
    <2>7. UnparkHolds(j)'
      BY <1>1, <1>2, <2>2, <2>3, <2>6 DEF UnparkHolds, Moved
    <2> QED
      BY <1>1, <2>2, <2>3, <2>4, <2>5, <2>7, FilesStay, TestGoesOn, TheTest DEF Moved
  <1> QED
    BY <1>3, <1>4

\* It is started again if it ran.
LEMMA StartAgainSafe ==
    ASSUME TestInv, NEW q \in DOMAIN job, startAgain(q)
    PROVE  TestInv'
  <1> PICK n : n = Current(q).name
    OBVIOUS
  <1> PICK was : was = Current(q).ran
    OBVIOUS
  <1>1. /\ job[q].pc = "start" /\ job[q].todo # << >>
        /\ UNCHANGED <<envFile, original, copies, theirs, parked>>
    BY TheTest DEF startAgain, Is, Known, UnparkHolds
  <1>2. /\ n \in DOMAIN theirs /\ n \in StackNames /\ was = theirs[n]
        /\ Rest(q) \in Seq(Parking) /\ Range(Rest(q)) \subseteq Range(parked)
        /\ n = Head(job[q].todo).name /\ Rest(q) = Tail(job[q].todo)
    BY <1>1, NextIs DEF Current, Rest
  <1>3. Own(n) \in Of("theirs") /\ Own(n) \in DOMAIN container
    BY <1>1, <1>2, TheTest DEF UnparkHolds, Of
  <1>4. /\ container' = IF was THEN [container EXCEPT ![Own(n)].running = TRUE] ELSE container
        /\ Goes(q, "unpark", Rest(q))
    BY <1>3 DEF startAgain
  <1>5. /\ StackHolds' /\ AsItWas(n)' /\ Of("test")' = Of("test")
        /\ \A m \in DOMAIN theirs : m # n => (AsItWas(m)' <=> AsItWas(m))
    <2>1. StackHolds
      BY TheTest
    <2>2. n \in StackNames /\ n \in DOMAIN theirs /\ was = theirs[n] /\ Own(n) \in Of("theirs")
      BY <1>2, <1>3
    <2>3. container' = IF was THEN [container EXCEPT ![Own(n)].running = TRUE] ELSE container
      BY <1>4
    <2>4. UNCHANGED <<theirs, parked>>
      BY <1>1
    <2> QED
      BY ONLY <2>1, <2>2, <2>3, <2>4, StartedAgain
  <1>6. PICK j \in TestJob : Moved(q, j, "unpark", Rest(q))
    BY <1>2, <1>4, GoesIs, PcsAre
  <1>7. EnvJob(j)
    BY <1>1, <1>6, TheTest DEF EnvJob, AfterSave, OfRestore, Moved
  <1>8. ParkHolds(j)' /\ TestStackHolds(j)'
    BY <1>1, <1>5, <1>6, TheTest DEF ParkHolds, TestStackHolds, BeforeUp, Raised, Moved
  <1>9. ASSUME ~j.bad, NEW m \in DOMAIN theirs
        PROVE  AsItWas(m)' \/ \E p \in Range(j.todo) : p.name = m
    <2>1. CASE m = n
      BY <1>5, <2>1
    <2>2. CASE m # n
      <3>1. AsItWas(m) \/ \E p \in Range(Rest(q)) : p.name = m
        <4>1. UnparkHolds(job[q])
          BY TheTest
        <4>2. ~job[q].bad
          BY <1>6, <1>9 DEF Moved
        <4>3. \A k \in DOMAIN theirs \ {Head(job[q].todo).name} :
                 AsItWas(k) \/ \E p \in Range(Tail(job[q].todo)) : p.name = k
          BY <1>1, <4>1, <4>2 DEF UnparkHolds
        <4>4. m \in DOMAIN theirs \ {Head(job[q].todo).name}
          BY <1>2, <2>2
        <4> QED
          BY <1>2, <4>3, <4>4
      <3> QED
        BY <1>5, <1>6, <2>2, <3>1 DEF Moved
    <2> QED
      BY <2>1, <2>2
  <1>10. UnparkHolds(j)'
    BY <1>1, <1>2, <1>6, <1>9 DEF UnparkHolds, Moved
  <1> QED
    BY <1>1, <1>5, <1>6, <1>7, <1>8, <1>10, FilesStay, TestGoesOn, TheTest DEF Moved

\* docker refuses.
LEMMA GiveBackFailsSafe ==
    ASSUME TestInv, NEW q \in DOMAIN job, giveBackFails(q)
    PROVE  TestInv'
  <1>1. NotBack(q) /\ UNCHANGED <<envFile, original, copies, container, theirs, parked>>
    BY DEF giveBackFails, testVars
  <1>2. job[q].pc \in {"unpark", "start"} /\ job[q].todo # << >>
    BY TheTest DEF giveBackFails, Is, UnparkHolds
  <1> QED
    BY <1>1, <1>2, NotBackSafe

\* The list has been gone through.  Either all of it is as it was, or it is kept.
LEMMA UnparkedIs ==
    ASSUME TestInv, NEW q \in DOMAIN job, job[q].pc = "unpark", job[q].todo = << >>,
           parked' = IF job[q].bad THEN parked ELSE << >>,
           UNCHANGED <<container, theirs>>
    PROVE  StackHolds' /\ (job[q].bad \/ parked' = << >>)
  <1>1. CASE job[q].bad
    BY <1>1, TheTest DEF StackHolds, ListHolds, ContainersHold, NameHolds, AsItWas, OnList, Of
  <1>2. CASE ~job[q].bad
    <2>1. \A n \in DOMAIN theirs : AsItWas(n)
      BY <1>2, TheTest, Emptied DEF UnparkHolds
    <2>2. parked' = << >> /\ << >> \in Seq(Parking)
      BY <1>2
    <2>3. ListHolds'
      BY <2>2, TheTest, Emptied DEF StackHolds, ListHolds
    <2>4. ContainersHold' /\ \A n \in StackNames : NameHolds(n)'
      BY <2>1, TheTest DEF StackHolds, ContainersHold, NameHolds, AsItWas, Of
    <2> QED
      BY <2>2, <2>3, <2>4 DEF StackHolds
  <1> QED
    BY <1>1, <1>2, TheTest DEF TestJob

\* So the list is forgotten only with all as it was.
LEMMA UnparkedSafe ==
    ASSUME TestInv, NEW q \in DOMAIN job, unparked(q)
    PROVE  TestInv'
  <1>1. /\ job[q].pc = "unpark" /\ job[q].todo = << >>
        /\ parked' = IF job[q].bad THEN parked ELSE << >>
        /\ UNCHANGED <<envFile, original, copies, container, theirs>>
    BY DEF unparked, Is, Known
  <1>2. StackHolds' /\ (job[q].bad \/ parked' = << >>)
    BY <1>1, UnparkedIs
  <1>3. EnvHolds'
    BY <1>1, TheTest DEF EnvHolds
  <1>4. CASE job[q].bad /\ job[q].op = "restore"
    <2>1. End(q) /\ ~leftWhole'
      BY <1>4 DEF unparked, Leaves
    <2> QED
      BY <1>2, <1>3, <2>1, TestEnds
  <1>5. CASE ~(job[q].bad /\ job[q].op = "restore")
    <2> PICK pc : pc = IF job[q].saving THEN "discard" ELSE "restore"
      OBVIOUS
    <2> PICK hurt : hurt = (job[q].hurt \/ job[q].bad)
      OBVIOUS
    <2> PICK todo : todo = ENV_FILES
      OBVIOUS
    <2> PICK j : j = [job[q] EXCEPT !.pc = pc, !.todo = todo, !.bad = FALSE, !.hurt = hurt]
      OBVIOUS
    <2>1. job' = [job EXCEPT ![q] = j]
      BY <1>5 DEF unparked
    <2>2. /\ todo \in Seq(EnvFiles) /\ Range(todo) = EnvFiles /\ todo \in Todos
          /\ pc \in Pcs /\ hurt \in BOOLEAN
      <3>1. hurt \in BOOLEAN
        BY TheTest DEF TestJob
      <3>2. pc \in Pcs
        BY PcsAre
      <3> QED
        BY <3>1, <3>2, EnvFilesAre, PcsAre DEF EnvFiles
    <2>3. j \in TestJob
      BY <2>2, TheTest DEF TestJob
    <2>4. /\ j.pc = pc /\ j.todo = todo /\ ~j.bad /\ j.hurt = hurt
          /\ j.op = job[q].op /\ j.saving = job[q].saving
      BY TheTest DEF TestJob
    <2>5. EnvJob(j)
      <3>1. CASE job[q].saving
        <4>1. envFile = original /\ job[q].op # "restore"
          BY <1>1, <3>1, TheTest DEF EnvJob
        <4>2. j.pc = "discard" /\ j.op # "restore"
          BY <2>4, <3>1, <4>1
        <4> QED
          BY <4>1, <4>2 DEF EnvJob, AfterSave
      <3>2. CASE ~job[q].saving
        BY <1>1, <2>2, <2>4, <3>2, TheTest DEF EnvJob, AfterSave, OfRestore
      <3> QED
        BY <3>1, <3>2
    <2>6. ParkHolds(j)' /\ UnparkHolds(j)' /\ TestStackHolds(j)'
      <3>1. Of("test")' = Of("test")
        BY <1>1 DEF Of
      <3>2. hurt \/ parked' = << >>
        BY <1>2
      <3>3. hurt \/ Of("test")' = {}
        BY <1>1, <3>1, TheTest DEF TestStackHolds
      <3>4. pc \in {"discard", "restore"}
        OBVIOUS
      <3> QED
        BY <2>4, <3>2, <3>3, <3>4
           DEF ParkHolds, UnparkHolds, TestStackHolds, BeforeUp, Raised
    <2> QED
      BY <1>1, <1>2, <2>1, <2>3, <2>5, <2>6, FilesStay, TestGoesOn, TheTest
  <1> QED
    BY <1>4, <1>5

-----------------------------------------------------------------------------
\* Putting the env files back

\* The next env file to be put back.
LEMMA NextFile ==
    ASSUME TestInv, NEW q \in DOMAIN job, job[q].pc = "restore", job[q].todo # << >>
    PROVE  /\ Current(q) \in EnvFiles /\ Rest(q) \in Seq(EnvFiles)
           /\ Range(job[q].todo) = {Current(q)} \cup Range(Rest(q))
  BY TheTest, Shorter DEF EnvJob, Current, Rest

\* It is put back.
LEMMA RestoreFileSafe ==
    ASSUME TestInv, NEW q \in DOMAIN job, restoreFile(q)
    PROVE  TestInv'
  <1> PICK f : f = Current(q)
    OBVIOUS
  <1>1. /\ job[q].pc = "restore" /\ job[q].todo # << >> /\ Goes(q, "restore", Rest(q))
        /\ UNCHANGED <<original, copies, container, theirs, parked>>
        /\ envFile' = IF f \in DOMAIN copies THEN [envFile EXCEPT ![f] = copies[f]] ELSE envFile
    BY DEF restoreFile, Is, Known, Onwards
  <1>2. /\ f \in EnvFiles /\ Rest(q) \in Seq(EnvFiles)
        /\ Range(job[q].todo) = {f} \cup Range(Rest(q))
    BY <1>1, NextFile
  <1>3. /\ envFile' \in [EnvFiles -> {"mine", "made", "half", None}]
        /\ envFile'[f] = original[f]
        /\ \A g \in EnvFiles : g # f => envFile'[g] = envFile[g]
    <2>1. /\ envFile \in [EnvFiles -> {"mine", "made", "half", None}]
          /\ original[f] \in {"mine", None}
          /\ f \in DOMAIN copies => copies[f] = original[f]
          /\ f \in DOMAIN copies \/ envFile[f] = original[f]
      BY <1>2, TheTest DEF EnvHolds
    <2> QED
      BY <1>1, <1>2, <2>1
  <1>4. EnvHolds'
    BY <1>1, <1>2, <1>3, TheTest DEF EnvHolds
  <1>5. PICK j \in TestJob : Moved(q, j, "restore", Rest(q))
    BY <1>1, <1>2, GoesIs, PcsAre
  <1>6. EnvJob(j)'
    <2>1. ASSUME ~j.bad, NEW g \in EnvFiles
          PROVE  envFile'[g] = original[g] \/ g \in Range(j.todo)
      <3>1. envFile[g] = original[g] \/ g \in Range(job[q].todo)
        BY <1>1, <1>5, <2>1, TheTest DEF EnvJob, Moved
      <3> QED
        BY <1>2, <1>3, <1>5, <3>1 DEF Moved
    <2> QED
      BY <1>1, <1>2, <1>5, <2>1, TheTest DEF EnvJob, AfterSave, OfRestore, Moved
  <1>7. ParkHolds(j) /\ UnparkHolds(j) /\ TestStackHolds(j)
    BY <1>1, <1>5, TheTest DEF ParkHolds, UnparkHolds, TestStackHolds, BeforeUp, Raised, Moved
  <1> QED
    BY <1>1, <1>4, <1>5, <1>6, <1>7, StackStays, TestGoesOn, TheTest DEF Moved

\* A copy that stops on its way harms only a file that is in SAVED.
LEMMA PartlyBack ==
    ASSUME EnvHolds, NEW f, f \in EnvFiles, envFile' \in PartOf(f),
           UNCHANGED <<original, copies>>
    PROVE  EnvHolds'
  <1>1. CASE envFile' = envFile
    BY <1>1 DEF EnvHolds
  <1>2. CASE envFile' = [envFile EXCEPT ![f] = "half"] /\ f \in DOMAIN copies
    BY <1>2 DEF EnvHolds
  <1> QED
    BY <1>1, <1>2 DEF PartOf

\* That fails, perhaps half done.
LEMMA RestoreFailsSafe ==
    ASSUME TestInv, NEW q \in DOMAIN job, restoreFails(q)
    PROVE  TestInv'
  <1> PICK f : f = Current(q)
    OBVIOUS
  <1> PICK todo : todo = Rest(q)
    OBVIOUS
  <1>1. /\ job[q].pc = "restore" /\ job[q].todo # << >> /\ envFile' \in PartOf(f)
        /\ UNCHANGED <<original, copies, container, theirs, parked>>
    BY DEF restoreFails, Is, Known
  <1>2. f \in EnvFiles /\ todo \in Seq(EnvFiles) /\ todo \in Todos
    BY <1>1, NextFile, PcsAre
  <1>3. EnvHolds'
    BY <1>1, <1>2, PartlyBack, TheTest
  <1> PICK j : j = [job[q] EXCEPT !.todo = todo, !.bad = TRUE]
    OBVIOUS
  <1>4. /\ j \in TestJob /\ job' = [job EXCEPT ![q] = j] /\ j.pc = "restore" /\ j.todo = todo
        /\ j.op = job[q].op /\ j.saving = job[q].saving /\ j.hurt = job[q].hurt /\ j.bad
    BY <1>1, <1>2, TheTest DEF TestJob, restoreFails
  <1>5. EnvJob(j)'
    BY <1>1, <1>2, <1>4, TheTest DEF EnvJob, AfterSave, OfRestore
  <1>6. ParkHolds(j) /\ UnparkHolds(j) /\ TestStackHolds(j)
    BY <1>1, <1>4, TheTest DEF ParkHolds, UnparkHolds, TestStackHolds, BeforeUp, Raised
  <1> QED
    BY <1>1, <1>3, <1>4, <1>5, <1>6, StackStays, TestGoesOn, TheTest

\* What is the same for every file is the same.
LEMMA AllTheSame ==
    ASSUME EnvHolds, \A f \in EnvFiles : envFile[f] = original[f]
    PROVE  envFile = original
  BY DEF EnvHolds

\* All three have been tried.
LEMMA RestoredSafe ==
    ASSUME TestInv, NEW q \in DOMAIN job, restored(q)
    PROVE  TestInv'
  <1>1. /\ job[q].pc = "restore" /\ (job[q].todo = << >> \/ copies = Nothing)
        /\ UNCHANGED <<envFile, original, copies, container, theirs, parked>>
    BY DEF restored, Is, Known
  <1>2. CASE copies = Nothing \/ job[q].bad
    <2>1. End(q) /\ leftWhole' = (~job[q].bad /\ ~job[q].hurt)
      BY <1>2 DEF restored, Leaves
    <2>2. EnvHolds' /\ StackHolds'
      BY <1>1, TheTest
         DEF EnvHolds, StackHolds, ListHolds, ContainersHold, NameHolds, AsItWas, OnList, Of
    <2>3. ASSUME leftWhole' PROVE AllIsBack'
      <3>1. copies = Nothing /\ ~job[q].hurt
        BY <1>2, <2>1, <2>3
      <3>2. envFile = original
        BY <3>1, AllTheSame, TheTest DEF EnvHolds, Nothing
      <3>3. parked = << >> /\ Of("test") = {}
        BY <1>1, <3>1, TheTest DEF UnparkHolds, TestStackHolds
      <3> QED
        BY <1>1, <3>1, <3>2, <3>3 DEF AllIsBack, Of
    <2> QED
      BY <2>1, <2>2, <2>3, TestEnds
  <1>3. CASE ~(copies = Nothing \/ job[q].bad)
    <2>1. GoTo(q, "discard")
      BY <1>3 DEF restored
    <2>2. envFile = original
      BY <1>1, <1>3, AllTheSame, Emptied, TheTest DEF EnvJob
    <2>3. PICK j \in TestJob : Moved(q, j, "discard", job[q].todo)
      BY <2>1, GoToIs, PcsAre
    <2>4. EnvJob(j)
      BY <1>1, <2>2, <2>3, TheTest DEF EnvJob, AfterSave, OfRestore, Moved
    <2>5. ParkHolds(j) /\ UnparkHolds(j) /\ TestStackHolds(j)
      BY <1>1, <2>3, TheTest DEF ParkHolds, UnparkHolds, TestStackHolds, BeforeUp, Raised, Moved
    <2> QED
      BY <1>1, <2>3, <2>4, <2>5, FilesStay, StackStays, TestGoesOn, TheTest DEF Moved
  <1> QED
    BY <1>2, <1>3

\* SAVED is removed.
LEMMA DiscardSafe ==
    ASSUME TestInv, NEW q \in DOMAIN job, discard(q)
    PROVE  TestInv'
  <1>1. /\ job[q].pc = "discard" /\ copies' = Nothing
        /\ End(q) /\ leftWhole' = ~job[q].hurt
        /\ UNCHANGED <<envFile, original, container, theirs, parked>>
    BY DEF discard, Is, Known, Leaves
  <1>2. envFile = original
    BY <1>1, TheTest DEF EnvJob
  <1>3. DOMAIN copies' = {} /\ copies' \in [{} -> {"mine", "directory", None}]
    BY <1>1 DEF Nothing
  <1>4. EnvHolds'
    BY <1>1, <1>2, <1>3, TheTest DEF EnvHolds
  <1>5. StackHolds'
    BY <1>1, TheTest DEF StackHolds, ListHolds, ContainersHold, NameHolds, AsItWas, OnList, Of
  <1>6. ASSUME leftWhole' PROVE AllIsBack'
    <2>1. parked = << >> /\ Of("test") = {}
      BY <1>1, <1>6, TheTest DEF UnparkHolds, TestStackHolds
    <2> QED
      BY <1>1, <1>2, <2>1 DEF AllIsBack, Of
  <1> QED
    BY <1>1, <1>4, <1>5, <1>6, TestEnds

\* kill -9.
LEMMA KillSafe ==
    ASSUME TestInv, NEW q \in DOMAIN job, kill(q)
    PROVE  TestInv'
  <1>1. End(q) /\ ~leftWhole' /\ UNCHANGED <<original, container, theirs, parked>>
    BY DEF kill, Known, Leaves
  <1>2. StackHolds'
    BY <1>1, TheTest DEF StackHolds, ListHolds, ContainersHold, NameHolds, AsItWas, OnList, Of
  <1>3. EnvHolds'
    <2>1. CASE Is(q, "restore") /\ job[q].todo # << >>
      <3>1. envFile' \in PartOf(Current(q)) /\ copies' = copies
        BY <2>1 DEF kill, Is
      <3> QED
        BY <1>1, <2>1, <3>1, PartlyBack, NextFile, TheTest DEF Is
    <2>2. CASE Is(q, "discard") /\ copies # Nothing
      <3>1. PICK left \in SUBSET DOMAIN copies : copies' = Restrict(copies, left)
        BY <2>2 DEF kill
      <3>2. envFile' = envFile /\ envFile = original
        BY <2>2, TheTest DEF kill, Is, EnvJob
      <3>3. DOMAIN copies' = left /\ \A f \in left : copies'[f] = copies[f]
        BY <3>1 DEF Restrict
      <3>4. copies' \in [left -> {"mine", "directory", None}]
        BY <3>1, TheTest DEF Restrict, EnvHolds
      <3> QED
        BY <1>1, <3>2, <3>3, <3>4, TheTest DEF EnvHolds
    <2>3. CASE /\ ~(Is(q, "restore") /\ job[q].todo # << >>)
               /\ ~(Is(q, "discard") /\ copies # Nothing)
      BY <1>1, <2>3, TheTest DEF kill, EnvHolds
    <2> QED
      BY <2>1, <2>2, <2>3
  <1> QED
    BY <1>1, <1>2, <1>3, TestEnds

-----------------------------------------------------------------------------
\* The invariant

\* Nobody has run a full test yet.
LEMMA TestStarts ==
    ASSUME FullTestInit, job = Nothing
    PROVE  TestInv
  <1>1. DOMAIN job = {} /\ DOMAIN copies = {} /\ copies \in [{} -> {"mine"}]
    BY DEF FullTestInit, Nothing
  <1>2. EnvHolds
    BY <1>1 DEF FullTestInit, EnvHolds, EnvFiles
  <1>3. DOMAIN theirs \subseteq StackNames /\ theirs \in [DOMAIN theirs -> BOOLEAN]
    BY DEF FullTestInit
  <1>4. /\ DOMAIN container = {Own(n) : n \in DOMAIN theirs}
        /\ \A n \in DOMAIN theirs :
              container[Own(n)] = [of |-> "theirs", running |-> theirs[n]]
    BY DEF FullTestInit, Own
  <1>5. ContainersHold
    <2>1. \A n \in DOMAIN theirs : container[Own(n)] \in Container
      <3> TAKE n \in DOMAIN theirs
      <3>1. container[Own(n)] = [of |-> "theirs", running |-> theirs[n]] /\ theirs[n] \in BOOLEAN
        BY <1>3, <1>4
      <3> QED
        BY <3>1 DEF Container
    <2>2. \A x \in DOMAIN container : container[x] \in Container
      BY <1>4, <2>1
    <2>3. container = [x \in DOMAIN container |-> container[x]]
      BY DEF FullTestInit
    <2> QED
      BY <1>3, <1>4, <2>2, <2>3 DEF ContainersHold
  <1>6. ListHolds
    BY <1>3, Emptied DEF FullTestInit, ListHolds
  <1>7. ASSUME NEW n \in StackNames
        PROVE  NameHolds(n)
    <2>1. Aside(n) \notin DOMAIN container
      BY <1>4, NamesDiffer
    <2>2. Own(n) \in DOMAIN container <=> n \in DOMAIN theirs
      BY <1>4, NamesDiffer
    <2> QED
      BY <1>4, <2>1, <2>2 DEF NameHolds, AsItWas, Of
  <1>8. AllIsBack
    BY <1>4 DEF FullTestInit, AllIsBack, Of
  <1> QED
    BY <1>1, <1>2, <1>5, <1>6, <1>7, <1>8
       DEF TestInv, StackHolds, OneAtATime, TestsHold, LeftHolds

\* Every step keeps the invariant, of runs that do not overlap.
LEMMA TestStep ==
    ASSUME TestInv, ~AtOnce, [FullTestNext]_<<job, mishaps, testVars>>
    PROVE  TestInv'
  <1>1. CASE UNCHANGED <<job, mishaps, testVars>>
    <2>1. UNCHANGED <<job, envFile, original, copies, container, theirs, parked, leftWhole>>
      BY <1>1 DEF testVars
    <2>2. EnvHolds' /\ OneAtATime' /\ LeftHolds'
      BY <2>1 DEF TestInv, EnvHolds, OneAtATime, LeftHolds, AllIsBack, Of
    <2>3. StackHolds'
      BY <2>1 DEF TestInv, StackHolds, ListHolds, ContainersHold, NameHolds, AsItWas, OnList, Of
    <2>4. ASSUME NEW q \in DOMAIN job
          PROVE  TestJobHolds(job[q])'
      <3>1. EnvJob(job[q])'
        BY <2>1, TheTest DEF EnvJob
      <3>2. ParkHolds(job[q])' /\ UnparkHolds(job[q])' /\ TestStackHolds(job[q])'
        BY <2>1, TheTest
           DEF ParkHolds, UnparkHolds, TestStackHolds, AsItWas, SetAside, OnList, Of
      <3> QED
        BY <2>1, <3>1, <3>2, TheTest DEF TestJobHolds
    <2>5. TestsHold'
      BY <2>1, <2>4 DEF TestInv, TestsHold
    <2> QED
      BY <2>2, <2>3, <2>5 DEF TestInv
  <1>2. ASSUME NEW q \in Requests, preflight(q) PROVE TestInv'
    BY <1>2, PreflightSafe
  <1>3. ASSUME NEW q \in Requests, beginRestore(q) PROVE TestInv'
    BY <1>3, BeginRestoreSafe
  <1>4. ASSUME NEW q \in Requests, makeSaved(q) \/ saveFile(q) \/ allSaved(q) \/ clearFile(q)
                                   \/ writeEnv(q)
        PROVE  TestInv'
    BY <1>4, MakeSavedSafe, SaveFileSafe, AllSavedSafe, ClearFileSafe, WriteEnvSafe
       DEF makeSaved, saveFile, allSaved, clearFile, writeEnv, Is
  <1>5. ASSUME NEW q \in Requests, listContainer(q) \/ stopContainer(q) \/ renameAside(q)
                                   \/ bringUp(q) \/ ownStack(q) \/ pointEnv(q)
        PROVE  TestInv'
    BY <1>5, ListContainerSafe, StopContainerSafe, RenameAsideSafe, BringUpSafe, OwnStackSafe,
       PointEnvSafe
       DEF listContainer, stopContainer, renameAside, bringUp, ownStack, pointEnv, Is
  <1>6. ASSUME NEW q \in Requests, finish(q) \/ prepareFails(q) \/ interrupt(q) \/ takeDown(q)
                                   \/ takeDownFails(q) \/ removeTest(q) \/ removeTestFails(q)
        PROVE  TestInv'
    BY <1>6, FinishSafe, PrepareFailsSafe, InterruptSafe, TakeDownSafe, TakeDownFailsSafe,
       RemoveTestSafe, RemoveTestFailsSafe
       DEF finish, prepareFails, interrupt, takeDown, takeDownFails, removeTest,
           removeTestFails, Is
  <1>7. ASSUME NEW q \in Requests, giveNameBack(q) \/ startAgain(q) \/ giveBackFails(q)
                                   \/ unparked(q)
        PROVE  TestInv'
    BY <1>7, GiveNameBackSafe, StartAgainSafe, GiveBackFailsSafe, UnparkedSafe
       DEF giveNameBack, startAgain, giveBackFails, unparked, Is
  <1>8. ASSUME NEW q \in Requests, restoreFile(q) \/ restoreFails(q) \/ restored(q)
                                   \/ discard(q) \/ kill(q)
        PROVE  TestInv'
    BY <1>8, RestoreFileSafe, RestoreFailsSafe, RestoredSafe, DiscardSafe, KillSafe
       DEF restoreFile, restoreFails, restored, discard, kill, Is
  <1> QED
    BY <1>1, <1>2, <1>3, <1>4, <1>5, <1>6, <1>7, <1>8 DEF FullTestNext

\* The invariant of full-test.sh: what SAVED holds is what the developer had
\* and what it lacks is in place; every container of another stack is as it
\* was or on the list, and the list says how it was; and what a process has
\* left to do covers what is not yet back.
THEOREM FullTestInvariant == ~AtOnce => (FullTestSpec => []TestInv)
  <1> SUFFICES ASSUME ~AtOnce
               PROVE  FullTestSpec => []TestInv
    OBVIOUS
  <1>1. FullTestInit /\ job = Nothing => TestInv
    BY TestStarts
  <1>2. TestInv /\ [FullTestNext]_<<job, mishaps, testVars>> => TestInv'
    BY TestStep
  <1> QED
    BY <1>1, <1>2, PTL DEF FullTestSpec

\* Of the two names of one of their containers one is taken, and one only.
LEMMA ThereOnce ==
    ASSUME StackHolds, NEW n \in DOMAIN theirs
    PROVE  Cardinality({Own(n), Aside(n)} \cap Of("theirs")) = 1
  <1>1. n \in StackNames /\ NameHolds(n)
    BY DEF StackHolds, ListHolds
  <1>2. Aside(n) \in DOMAIN container => Aside(n) \in Of("theirs")
    BY <1>1 DEF NameHolds, Of
  <1>3. Aside(n) \in Of("theirs") => Aside(n) \in DOMAIN container
    BY DEF Of
  <1>4. \E x : {Own(n), Aside(n)} \cap Of("theirs") = {x}
    <2>1. CASE Own(n) \in Of("theirs")
      <3>1. {Own(n), Aside(n)} \cap Of("theirs") = {Own(n)}
        BY <1>1, <1>3, <2>1 DEF NameHolds
      <3> QED
        BY <3>1
    <2>2. CASE Own(n) \notin Of("theirs")
      <3>1. {Own(n), Aside(n)} \cap Of("theirs") = {Aside(n)}
        BY <1>1, <1>2, <2>2 DEF NameHolds
      <3> QED
        BY <3>1
    <2> QED
      BY <2>1, <2>2
  <1> QED
    BY <1>4, FS_Singleton

\* Every container of the other stack is there, as it was or listed as it was.
LEMMA StackSafe ==
    ASSUME StackHolds
    PROVE  TheirStackIsSafe
  <1> SUFFICES ASSUME NEW n \in DOMAIN theirs
               PROVE  \/ /\ Own(n) \in Of("theirs") /\ container[Own(n)].running = theirs[n]
                      \/ [name |-> n, ran |-> theirs[n]] \in Range(parked)
    BY ThereOnce DEF TheirStackIsSafe
  <1>1. n \in StackNames /\ NameHolds(n)
    BY DEF StackHolds, ListHolds
  <1>2. CASE AsItWas(n)
    BY <1>2 DEF AsItWas, Of
  <1>3. CASE OnList(n)
    <2>1. PICK p \in Range(parked) : p.name = n
      BY <1>3 DEF OnList
    <2>2. p \in Parking
      <3>1. \A i \in DOMAIN parked : parked[i] \in Parking
        BY DEF StackHolds, ListHolds
      <3> QED
        BY <2>1, <3>1 DEF Range
    <2>3. p.ran = theirs[n]
      BY <2>1 DEF StackHolds, ListHolds
    <2>4. p = [name |-> n, ran |-> theirs[n]]
      BY <2>1, <2>2, <2>3 DEF Parking
    <2> QED
      BY <2>1, <2>4
  <1> QED
    BY <1>1, <1>2, <1>3 DEF NameHolds

\* full-test.sh, of runs that do not overlap: nothing a developer had is lost,
\* whatever fails or is killed; the suites meet the test stack alone; and who
\* ends whole has put everything back.
THEOREM AllComesBack == ~AtOnce => (FullTestSpec => []WhatWasThereComesBack)
  <1> SUFFICES ASSUME ~AtOnce
               PROVE  FullTestSpec => []WhatWasThereComesBack
    OBVIOUS
  <1>1. ASSUME TestInv
        PROVE  WhatWasThereComesBack
    <2>1. EnvFilesAreSafe
      BY <1>1 DEF TestInv, EnvHolds, EnvFilesAreSafe, EnvFiles
    <2>2. TheirStackIsSafe
      BY <1>1, StackSafe DEF TestInv
    <2>3. SuitesMeetTheTest
      BY <1>1 DEF TestInv, TestsHold, TestJobHolds, EnvJob, TestStackHolds, Raised,
                  SuitesMeetTheTest, Is
    <2>4. job = Nothing /\ leftWhole => AllIsBack
      BY <1>1 DEF TestInv, LeftHolds, Nothing
    <2> QED
      BY <2>1, <2>2, <2>3, <2>4 DEF WhatWasThereComesBack
  <1>2. TestInv => WhatWasThereComesBack
    BY <1>1
  <1> QED
    BY <1>2, FullTestInvariant, PTL
-----------------------------------------------------------------------------
\* Runs that may overlap: all that is in flight is a run or a restoration.

TestOps == {"fullTest", "restore"}

TestsInFlight == \A q \in DOMAIN job : "op" \in DOMAIN job[q] /\ job[q].op \in TestOps

\* A process goes on as what it is, or ends.
GoesOnAsItIs(q) ==
    \/ End(q)
    \/ \E y : /\ job' = [job EXCEPT ![q] = y]
              /\ "op" \in DOMAIN job[q] => "op" \in DOMAIN y /\ y.op = job[q].op

\* A process that goes on as it is, is one still.
LEMMA StillInFlight ==
    ASSUME TestsInFlight, NEW q \in DOMAIN job, GoesOnAsItIs(q)
    PROVE  TestsInFlight'
  <1>1. CASE End(q)
    BY <1>1 DEF End, Drop, Restrict, TestsInFlight
  <1>2. ASSUME NEW y, job' = [job EXCEPT ![q] = y], "op" \in DOMAIN y, y.op = job[q].op
        PROVE  TestsInFlight'
    BY <1>2 DEF TestsInFlight
  <1> QED
    BY <1>1, <1>2 DEF GoesOnAsItIs, TestsInFlight

\* What is put in the place of a process says of itself what the process said.
LEMMA ChangedAsItIs ==
    ASSUME NEW q, NEW y, job' = [job EXCEPT ![q] = y],
           "op" \in DOMAIN job[q] => "op" \in DOMAIN y /\ y.op = job[q].op
    PROVE  GoesOnAsItIs(q)
  BY DEF GoesOnAsItIs

\* A step of a run changes where it is, what it has to do and how it has gone.
LEMMA StepOfATest ==
    ASSUME NEW q \in DOMAIN job,
           \/ \E pc : GoTo(q, pc)
           \/ \E pc, todo : Goes(q, pc, todo)
           \/ \E todo : Onwards(q, todo)
           \/ End(q)
           \/ \E pc, todo, saving, raised, bad, hurt :
                 job' = [job EXCEPT ![q] = [job[q] EXCEPT !.pc = pc, !.todo = todo,
                            !.saving = saving, !.raised = raised, !.bad = bad, !.hurt = hurt]]
    PROVE  GoesOnAsItIs(q)
  BY DEF GoTo, Goes, Onwards, GoesOnAsItIs

\* The steps of a run, up to the suites
LEMMA RunGoesOn ==
    ASSUME NEW q,
           \/ makeSaved(q) \/ saveFile(q) \/ allSaved(q) \/ clearFile(q) \/ writeEnv(q)
           \/ listContainer(q) \/ stopContainer(q) \/ renameAside(q) \/ bringUp(q)
           \/ ownStack(q) \/ pointEnv(q) \/ finish(q) \/ prepareFails(q) \/ interrupt(q)
    PROVE  q \in DOMAIN job /\ GoesOnAsItIs(q)
  <1>1. q \in DOMAIN job
    BY DEF makeSaved, saveFile, allSaved, clearFile, writeEnv, listContainer, stopContainer,
           renameAside, bringUp, ownStack, pointEnv, finish, prepareFails, interrupt, Is
  <1>2. CASE \/ makeSaved(q) \/ saveFile(q) \/ clearFile(q) \/ writeEnv(q) \/ listContainer(q)
             \/ stopContainer(q) \/ renameAside(q)
    BY <1>1, <1>2, StepOfATest
    DEF makeSaved, saveFile, clearFile, writeEnv, listContainer, stopContainer, renameAside
  <1>3. CASE ownStack(q) \/ pointEnv(q) \/ finish(q) \/ prepareFails(q) \/ interrupt(q)
    BY <1>1, <1>3, StepOfATest DEF ownStack, pointEnv, finish, prepareFails, interrupt
  <1>4. CASE allSaved(q)
    <2>1. job' = [job EXCEPT ![q] = [job[q] EXCEPT !.saving = FALSE, !.pc = "clear",
                                                   !.todo = ENV_FILES]]
      BY <1>4 DEF allSaved
    <2>2. PICK y : y = [job[q] EXCEPT !.saving = FALSE, !.pc = "clear", !.todo = ENV_FILES]
      OBVIOUS
    <2>3. "op" \in DOMAIN job[q] => "op" \in DOMAIN y /\ y.op = job[q].op
      BY <2>2
    <2> QED
      BY ONLY <1>1, <2>1, <2>2, <2>3, ChangedAsItIs
  <1>5. CASE bringUp(q)
    <2>1. PICK pc : job' = [job EXCEPT ![q] = [job[q] EXCEPT !.raised = TRUE, !.pc = pc]]
      BY <1>5 DEF bringUp
    <2>2. PICK y : y = [job[q] EXCEPT !.raised = TRUE, !.pc = pc]
      OBVIOUS
    <2>3. "op" \in DOMAIN job[q] => "op" \in DOMAIN y /\ y.op = job[q].op
      BY <2>2
    <2> QED
      BY ONLY <1>1, <2>1, <2>2, <2>3, ChangedAsItIs
  <1> QED
    BY <1>1, <1>2, <1>3, <1>4, <1>5

\* The steps of putting back
LEMMA CleanupGoesOn ==
    ASSUME NEW q,
           \/ takeDown(q) \/ takeDownFails(q) \/ removeTest(q) \/ removeTestFails(q)
           \/ giveNameBack(q) \/ startAgain(q) \/ giveBackFails(q) \/ unparked(q)
           \/ restoreFile(q) \/ restoreFails(q) \/ restored(q) \/ discard(q) \/ kill(q)
    PROVE  q \in DOMAIN job /\ GoesOnAsItIs(q)
  <1>1. q \in DOMAIN job
    BY DEF takeDown, takeDownFails, removeTest, removeTestFails, giveNameBack, startAgain,
           giveBackFails, unparked, restoreFile, restoreFails, restored, discard, kill, Is
  <1>2. CASE \/ takeDown(q) \/ removeTest(q) \/ removeTestFails(q) \/ restoreFile(q)
             \/ restored(q) \/ discard(q) \/ kill(q)
    BY <1>1, <1>2, StepOfATest
    DEF takeDown, removeTest, removeTestFails, restoreFile, restored, discard, kill, Unparking, Leaves
  <1>3. CASE takeDownFails(q)
    <2>1. job' = [job EXCEPT ![q] = [job[q] EXCEPT !.pc = "unpark", !.todo = Seqs!Reverse(parked),
                                           !.hurt = TRUE]]
      BY <1>3 DEF takeDownFails
    <2>2. PICK y : y = [job[q] EXCEPT !.pc = "unpark", !.todo = Seqs!Reverse(parked), !.hurt = TRUE]
      OBVIOUS
    <2>3. "op" \in DOMAIN job[q] => "op" \in DOMAIN y /\ y.op = job[q].op
      BY <2>2
    <2> QED
      BY ONLY <1>1, <2>1, <2>2, <2>3, ChangedAsItIs
  <1>4. ASSUME NotBack(q)
        PROVE  GoesOnAsItIs(q)
    <2>1. PICK y : y = [job[q] EXCEPT !.pc = "unpark", !.todo = Rest(q), !.bad = TRUE]
      OBVIOUS
    <2>2. job' = [job EXCEPT ![q] = y]
      BY <1>4, <2>1 DEF NotBack
    <2>3. "op" \in DOMAIN job[q] => "op" \in DOMAIN y /\ y.op = job[q].op
      BY <2>1
    <2> QED
      BY ONLY <2>2, <2>3, ChangedAsItIs
  <1>5. CASE giveNameBack(q) \/ startAgain(q) \/ giveBackFails(q)
    BY <1>1, <1>4, <1>5, StepOfATest DEF giveNameBack, startAgain, giveBackFails
  <1>6. CASE restoreFails(q)
    <2>1. job' = [job EXCEPT ![q] = [job[q] EXCEPT !.todo = Rest(q), !.bad = TRUE]]
      BY <1>6 DEF restoreFails
    <2>2. PICK y : y = [job[q] EXCEPT !.todo = Rest(q), !.bad = TRUE]
      OBVIOUS
    <2>3. "op" \in DOMAIN job[q] => "op" \in DOMAIN y /\ y.op = job[q].op
      BY <2>2
    <2> QED
      BY ONLY <1>1, <2>1, <2>2, <2>3, ChangedAsItIs
  <1>7. CASE unparked(q)
    <2>1. CASE End(q)
      BY <1>1, <2>1 DEF GoesOnAsItIs
    <2>2. CASE ~End(q)
      <3>1. PICK pc, hurt : job' = [job EXCEPT ![q] = [job[q] EXCEPT
                              !.pc = pc, !.todo = ENV_FILES, !.bad = FALSE, !.hurt = hurt]]
        BY <1>7, <2>2 DEF unparked, Leaves
      <3>2. PICK y : y = [job[q] EXCEPT !.pc = pc, !.todo = ENV_FILES, !.bad = FALSE,
                                        !.hurt = hurt]
        OBVIOUS
      <3>3. "op" \in DOMAIN job[q] => "op" \in DOMAIN y /\ y.op = job[q].op
        BY <3>2
      <3> QED
        BY ONLY <1>1, <3>1, <3>2, <3>3, ChangedAsItIs
    <2> QED
      BY <2>1, <2>2
  <1> QED
    BY <1>1, <1>2, <1>3, <1>5, <1>6, <1>7

\* Whether runs overlap or not: nothing else is in flight.
LEMMA OnlyTests == FullTestSpec => []TestsInFlight
  <1>1. job = Nothing => TestsInFlight
    BY DEF Nothing, TestsInFlight
  <1>2. TestsInFlight /\ [FullTestNext]_<<job, mishaps, testVars>> => TestsInFlight'
    <2> SUFFICES ASSUME TestsInFlight, [FullTestNext]_<<job, mishaps, testVars>>
                 PROVE  TestsInFlight'
      OBVIOUS
    <2>1. CASE UNCHANGED <<job, mishaps, testVars>>
      BY <2>1 DEF TestsInFlight
    <2>2. ASSUME NEW q, NEW op \in TestOps, NEW pc, NEW aside, Begin(q, Process(op, pc, aside))
          PROVE  TestsInFlight'
      <3> PICK x : x = Process(op, pc, aside)
        OBVIOUS
      <3>1. "op" \in DOMAIN x /\ x.op = op
        BY DEF Process
      <3> QED
        BY <2>2, <3>1 DEF Begin, Put, TestsInFlight
    <2>3. ASSUME NEW q, preflight(q) \/ beginRestore(q)
          PROVE  TestsInFlight'
      BY <2>2, <2>3 DEF preflight, beginRestore, TestOps
    <2> QED
      BY <2>1, <2>3, RunGoesOn, CleanupGoesOn, StillInFlight DEF FullTestNext
  <1> QED
    BY <1>1, <1>2, PTL DEF FullTestSpec
=============================================================================
