--------------------------- MODULE TicketsProofs ---------------------------
(***************************************************************************)
(* What holds of Tickets for any number of clients, tickets, requests and  *)
(* failures: the types, whose files are whose, the order of statuses and   *)
(* the truth of the trail, that nothing leaks and nobody is left untold as *)
(* long as nothing fails, who may be answered with an error, and that the  *)
(* handlers implement the life of a ticket as long as they take turns on it. *)
(***************************************************************************)
EXTENDS Tickets, Sequences, TablesProofs

-----------------------------------------------------------------------------
\* Types

Pcs == {"put", "insert", "write", "unlink", "notify", "record"}

JobsTyped == DOMAIN job \subseteq Requests /\ job \in [DOMAIN job -> Job]

LEMMA BeginTypes ==
    ASSUME TypeOK, NEW r \in Requests, NEW op \in AllOps, NEW pc \in Pcs,
           NEW a \in People, NEW i \in DOMAIN story \cup {None}, NEW row \in Row,
           NEW src \in Keys \cup {None}, Begin(r, op, pc, a, i, row, src)
    PROVE  JobsTyped'
  <1> DEFINE j == [op |-> op, pc |-> pc, actor |-> a, id |-> i, row |-> row,
                   seen |-> IF i = None THEN None ELSE story[i].status,
                   was |-> None, src |-> src]
  <1>1. (IF i = None THEN None ELSE story[i].status) \in Statuses \cup {None}
    BY DEF TypeOK, Row
  <1>2. j \in Job
    BY <1>1 DEF TypeOK, Job, Pcs
  <1>3. job' = Put(job, r, j)
    BY DEF Begin
  <1> HIDE DEF j
  <1> QED
    BY <1>2, <1>3, Extended DEF JobsTyped, TypeOK

LEMMA GoToTypes ==
    ASSUME TypeOK, NEW r \in DOMAIN job, NEW pc \in Pcs, GoTo(r, pc)
    PROVE  JobsTyped'
  <1>1. [job[r] EXCEPT !.pc = pc] \in Job
    BY DEF TypeOK, Job, Pcs
  <1> QED
    BY <1>1 DEF TypeOK, JobsTyped, GoTo

LEMMA EndTypes ==
    ASSUME TypeOK, NEW r, End(r)
    PROVE  JobsTyped'
  BY Dropped DEF TypeOK, JobsTyped, End

LEMMA CommittedTypes ==
    ASSUME TypeOK, NEW r \in DOMAIN job, NEW pc \in Pcs, RowThere(r), Committed(r, pc)
    PROVE  JobsTyped'
  <1>1. story[job[r].id].status \in Statuses
    BY DEF TypeOK, Row, RowThere
  <1>2. [job[r] EXCEPT !.was = story[job[r].id].status, !.pc = pc] \in Job
    BY <1>1 DEF TypeOK, Job, Pcs
  <1> QED
    BY <1>2 DEF TypeOK, JobsTyped, Committed

LEMMA AfterCommitTypes == \A j : AfterCommit(j) \in Pcs
  BY DEF AfterCommit, Pcs

LEMMA ArriveTypes ==
    ASSUME TypeOK, NEW r \in Requests, Arrive(r)
    PROVE  TypeOK'
  <1>0. \A s \in DOMAIN nextStatus : nextStatus[s] \in Statuses
    BY DEF nextStatus, Statuses
  <1>a. Owner \in People /\ \A i \in DOMAIN story : /\ story[i] \in Row
                                                    /\ story[i].key \in Keys
    BY DEF People, TypeOK, Row
  <1>1. ASSUME NEW i \in Ids, advanceStory(r, i) PROVE JobsTyped'
    <2>1. [story[i] EXCEPT !.status = nextStatus[story[i].status]] \in Row
      BY <1>0, <1>1, <1>a DEF advanceStory, Asked, Row
    <2> QED
      BY <1>1, <1>a, <2>1, BeginTypes DEF advanceStory, Asked, AllOps, OwnerOps, Moves, Pcs
  <1>2. ASSUME NEW i \in Ids, declineStory(r, i) PROVE JobsTyped'
    <2>1. [story[i] EXCEPT !.status = "Declined"] \in Row
      BY <1>2, <1>a DEF declineStory, Asked, Row, Statuses
    <2> QED
      BY <1>2, <1>a, <2>1, BeginTypes DEF declineStory, Asked, AllOps, OwnerOps, Moves, Pcs
  <1>3. ASSUME NEW i \in Ids, flagStory(r, i) PROVE JobsTyped'
    <2>1. [story[i] EXCEPT !.flagged = TRUE] \in Row
      BY <1>3, <1>a DEF flagStory, Asked, Row
    <2> QED
      BY <1>3, <1>a, <2>1, BeginTypes DEF flagStory, Asked, AllOps, OwnerOps, Pcs
  <1>4. ASSUME NEW i \in Ids, clearFlag(r, i) PROVE JobsTyped'
    <2>1. [story[i] EXCEPT !.flagged = FALSE] \in Row
      BY <1>4, <1>a DEF clearFlag, Asked, Row
    <2> QED
      BY <1>4, <1>a, <2>1, BeginTypes DEF clearFlag, Asked, AllOps, OwnerOps, Pcs
  <1>5. ASSUME NEW i \in Ids, NEW a \in People,
               withdrawStory(r, a, i) \/ addComment(r, a, i)
        PROVE  JobsTyped'
    BY <1>5, <1>a, BeginTypes DEF withdrawStory, addComment, Asked, AllOps, Pcs
  <1>6. ASSUME NEW i \in Ids, NEW a \in People, NEW p \in Priorities,
               changeStoryPriority(r, a, i, p)
        PROVE  JobsTyped'
    <2>1. [story[i] EXCEPT !.priority = p] \in Row
      BY <1>6, <1>a DEF changeStoryPriority, Asked, Row
    <2> QED
      BY <1>6, <1>a, <2>1, BeginTypes DEF changeStoryPriority, Asked, AllOps, Pcs
  <1>b. \A a \in People, p \in Priorities, k \in Keys : NewRow(a, p, k) \in Row
    BY DEF NewRow, Row, Statuses
  <1>7. ASSUME NEW i \in Ids, NEW a \in People, NEW p \in Priorities,
               requeueStory(r, a, i, p)
        PROVE  JobsTyped'
    <2>1. PICK k \in Keys \ KeysInUse :
              Begin(r, "requeue", "put", a, i, NewRow(a, p, k), story[i].key)
      BY <1>7 DEF requeueStory
    <2>2. i \in DOMAIN story
      BY <1>7 DEF requeueStory, Asked
    <2>3. NewRow(a, p, k) \in Row /\ story[i].key \in Keys
      BY <1>a, <1>b, <2>2
    <2> QED
      BY <2>1, <2>2, <2>3, BeginTypes DEF AllOps, Creations, Pcs
  <1>8. ASSUME NEW a \in People, NEW p \in Priorities, openRequest(r, a, p)
        PROVE  JobsTyped'
    <2>1. PICK k \in Keys \ KeysInUse :
              Begin(r, "upload", "put", a, None, NewRow(a, p, k), None)
      BY <1>8 DEF openRequest
    <2> QED
      BY <1>b, <2>1, BeginTypes DEF AllOps, Creations, Pcs
  <1>9. UNCHANGED tables
    BY DEF Arrive, advanceStory, declineStory, flagStory, clearFlag, withdrawStory,
           addComment, changeStoryPriority, requeueStory, openRequest
  <1>10. JobsTyped'
    BY <1>1, <1>2, <1>3, <1>4, <1>5, <1>6, <1>7, <1>8 DEF Arrive
  <1> QED
    BY <1>9, <1>10 DEF TypeOK, JobsTyped, tables

LEMMA AtTypes == TypeOK => \A r, pc : At(r, pc) => r \in DOMAIN job /\ job[r] \in Job
  BY DEF TypeOK, At

LEMMA FilesTypes ==
    ASSUME TypeOK, NEW r \in Requests, putModel(r) \/ copyModel(r) \/ deleteModel(r)
    PROVE  TypeOK'
  <1>1. r \in DOMAIN job /\ job[r].row.key \in Keys
    BY AtTypes DEF putModel, copyModel, deleteModel, Job, Row
  <1>2. files' \subseteq Keys
    BY <1>1 DEF putModel, copyModel, deleteModel, TypeOK
  <1>3. JobsTyped'
    BY <1>1, GoToTypes, EndTypes, AfterCommitTypes
       DEF putModel, copyModel, deleteModel, Pcs
  <1> QED
    BY <1>2, <1>3 DEF putModel, copyModel, deleteModel, TypeOK, JobsTyped

LEMMA InsertTypes ==
    ASSUME TypeOK, NEW r \in Requests, insertStory(r)
    PROVE  TypeOK'
  <1>1. r \in DOMAIN job /\ job[r] \in Job /\ job[r].row \in Row
    BY AtTypes DEF insertStory, Job
  <1>2. PICK i \in Ids :
          /\ story' = Put(story, i, job[r].row)
          /\ been' = [been EXCEPT ![i] = {"Requested"}]
          /\ job' = [job EXCEPT ![r] = [@ EXCEPT !.id = i, !.pc = AfterCommit(job[r])]]
    BY DEF insertStory
  <1>3. DOMAIN story' \subseteq Ids /\ story' \in [DOMAIN story' -> Row]
    <2>1. DOMAIN story \subseteq Ids /\ story \in [DOMAIN story -> Row]
      BY DEF TypeOK
    <2> QED
      BY <1>1, <1>2, <2>1 DEF Put
  <1>4. been' \in [Ids -> SUBSET Statuses]
    BY <1>2 DEF TypeOK, Statuses
  <1>5. JobsTyped'
    <2>1. [job[r] EXCEPT !.id = i, !.pc = AfterCommit(job[r])] \in Job
      BY <1>1, AfterCommitTypes DEF Job, Pcs
    <2> QED
      BY <1>2, <2>1 DEF TypeOK, JobsTyped
  <1> QED
    BY <1>3, <1>4, <1>5 DEF insertStory, TypeOK, JobsTyped

LEMMA WriteTypes ==
    ASSUME TypeOK, NEW r \in Requests,
           \/ writeNothing(r) \/ updateStatus(r) \/ updateFlag(r)
           \/ updatePriority(r) \/ insertComment(r) \/ deleteStory(r)
    PROVE  TypeOK'
  <1> DEFINE j == job[r]
             i == job[r].id
  <1>1. r \in DOMAIN job /\ j \in Job /\ j.row \in Row
    BY AtTypes DEF writeNothing, updateStatus, updateFlag, updatePriority,
                   insertComment, deleteStory, Writes, Job
  <1>2. CASE writeNothing(r)
    BY <1>2, EndTypes DEF writeNothing, tables, TypeOK, JobsTyped
  <1>3. CASE updateStatus(r)
    <2>1. JobsTyped'
      BY <1>1, <1>3, CommittedTypes, AfterCommitTypes DEF updateStatus
    <2>2. DOMAIN story' = DOMAIN story /\ story' \in [DOMAIN story -> Row]
      BY <1>1, <1>3 DEF updateStatus, RowThere, TypeOK, Row
    <2>3. been' \in [Ids -> SUBSET Statuses]
      BY <1>1, <1>3 DEF updateStatus, TypeOK, Row
    <2> QED
      BY <1>3, <2>1, <2>2, <2>3 DEF updateStatus, TypeOK, JobsTyped
  <1>4. CASE updateFlag(r) \/ updatePriority(r)
    <2>1. JobsTyped'
      BY <1>1, <1>4, GoToTypes, AfterCommitTypes DEF updateFlag, updatePriority
    <2>2. DOMAIN story' = DOMAIN story /\ story' \in [DOMAIN story -> Row]
      <3>1. CASE updateFlag(r)
        BY <1>1, <3>1 DEF updateFlag, RowThere, TypeOK, Row
      <3>2. CASE updatePriority(r)
        BY <1>1, <3>2 DEF updatePriority, RowThere, TypeOK, Row
      <3> QED
        BY <1>4, <3>1, <3>2
    <2> QED
      BY <1>4, <2>1, <2>2 DEF updateFlag, updatePriority, TypeOK, JobsTyped
  <1>5. CASE insertComment(r)
    <2>1. JobsTyped'
      BY <1>1, <1>5, GoToTypes, AfterCommitTypes DEF insertComment
    <2>2. comments' \subseteq [id: Ids, by: People]
      BY <1>1, <1>5 DEF insertComment, RowThere, TypeOK, Job
    <2> QED
      BY <1>5, <2>1, <2>2 DEF insertComment, TypeOK, JobsTyped
  <1>6. CASE deleteStory(r)
    <2>1. JobsTyped'
      BY <1>1, <1>6, CommittedTypes DEF deleteStory, Pcs
    <2>2. DOMAIN story' \subseteq Ids /\ story' \in [DOMAIN story' -> Row]
      BY <1>6, Dropped DEF deleteStory, TypeOK
    <2>3. comments' \subseteq comments /\ inbox' \subseteq inbox
      BY <1>6 DEF deleteStory
    <2> QED
      BY <1>6, <2>1, <2>2, <2>3 DEF deleteStory, TypeOK, JobsTyped
  <1> QED
    BY <1>2, <1>3, <1>4, <1>5, <1>6

LEMMA NotifyTypes ==
    ASSUME TypeOK, NEW r \in Requests, notify(r)
    PROVE  TypeOK'
  <1> DEFINE j == job[r]
             n == [to |-> Recipient(j), id |-> About(j), op |-> j.op,
                   status |-> StatusTold(j)]
  <1>1. r \in DOMAIN job /\ j \in Job
    BY AtTypes DEF notify
  <1>2. n \in Notice
    <2>1. Recipient(j) \in People
      BY <1>1 DEF Recipient, OtherSide, People, Job, Row
    <2>2. About(j) \in Ids \cup {None} /\ StatusTold(j) \in Statuses \cup {None}
      BY <1>1 DEF About, StatusTold, Job, Row
    <2> QED
      BY <1>1, <2>1, <2>2 DEF Notice, Job
  <1> HIDE DEF n
  <1>3. inbox' \subseteq Notice
    BY <1>2 DEF notify, TypeOK, n
  <1>4. JobsTyped'
    BY <1>1, GoToTypes, EndTypes DEF notify, Pcs
  <1> QED
    BY <1>3, <1>4 DEF notify, TypeOK, JobsTyped

LEMMA RecordTypes ==
    ASSUME TypeOK, NEW r \in Requests, record(r)
    PROVE  TypeOK'
  <1>1. job[r] \in Job
    BY AtTypes DEF record
  <1>2. ClaimOf(job[r]) \in Claim
    BY <1>1 DEF ClaimOf, Claim, Job, Row
  <1>3. JobsTyped'
    BY EndTypes DEF record
  <1> QED
    BY <1>2, <1>3 DEF record, TypeOK, JobsTyped

LEMMA FailureTypes ==
    ASSUME TypeOK, rejectUpload \/ crash \/ \E r \in Requests : fail(r)
    PROVE  TypeOK'
  <1>1. CASE rejectUpload
    <2>1. [op |-> "rejected", id |-> None, from |-> None, to |-> None,
           was |-> None] \in Claim
      BY DEF Claim
    <2> QED
      BY <1>1, <2>1 DEF rejectUpload, TypeOK
  <1>2. CASE crash
    BY <1>2 DEF crash, Nothing, TypeOK
  <1>3. ASSUME NEW r \in Requests, fail(r) PROVE TypeOK'
    <2>1. JobsTyped'
      BY <1>3, GoToTypes, EndTypes, AfterCommitTypes DEF fail
    <2> QED
      BY <1>3, <2>1 DEF fail, TypeOK, JobsTyped
  <1> QED
    BY <1>1, <1>2, <1>3

LEMMA InitTypes == Init => TypeOK
  BY DEF Init, TypeOK, Nothing

LEMMA NextTypes == TypeOK /\ [Next]_vars => TypeOK'
  <1> SUFFICES ASSUME TypeOK, [Next]_vars
               PROVE  TypeOK'
    OBVIOUS
  <1>1. CASE UNCHANGED vars
    BY <1>1 DEF vars, TypeOK
  <1>2. ASSUME NEW r \in Requests, Proceed(r)
        PROVE  TypeOK'
    BY <1>2, FilesTypes, InsertTypes, WriteTypes, NotifyTypes, RecordTypes DEF Proceed
  <1> QED
    BY <1>1, <1>2, ArriveTypes, FailureTypes DEF Next

\* Every table keeps its shape and every handler in flight is at a place the
\* code has.
THEOREM TypesHold == Spec => []TypeOK
  BY InitTypes, NextTypes, PTL DEF Spec

-----------------------------------------------------------------------------
\* What a request leaves behind when it arrives

Opening == {"put", "insert"}           \* a file, and then a row, of its own

FreshJob(j) == /\ j.pc = "put"
               /\ j.op \in Creations
               /\ j.row.status = "Requested"
               /\ j.row.key \notin KeysInUse
               /\ j.op = "requeue" => j.id \in DOMAIN story /\ j.src = story[j.id].key

MovesOn(j) == /\ j.op = "decline" => j.row.status = "Declined"
              /\ j.op = "advance" => /\ j.seen \in DOMAIN nextStatus
                                     /\ j.row.status = nextStatus[j.seen]
              /\ j.op = "withdraw" => j.seen \in Withdrawable

CheckedJob(j) == /\ j.pc = "write"
                 /\ j.op \in AllOps \ Creations
                 /\ j.id \in DOMAIN story
                 /\ j.seen = story[j.id].status
                 /\ j.row.key = story[j.id].key
                 /\ j.row.uploader = story[j.id].uploader
                 /\ MovesOn(j)

\* A handler that has got past its checks is a new entry of job: it is to put
\* a file under a key nobody uses, or to write the row it has just read.
LEMMA ArriveShape ==
    ASSUME TypeOK, NEW r \in Requests, Arrive(r)
    PROVE  /\ UNCHANGED tables
           /\ r \notin DOMAIN job
           /\ DOMAIN job' = DOMAIN job \cup {r}
           /\ \A q \in DOMAIN job : job'[q] = job[q]
           /\ FreshJob(job'[r]) \/ CheckedJob(job'[r])
  <1> DEFINE Shape == /\ r \notin DOMAIN job
                      /\ DOMAIN job' = DOMAIN job \cup {r}
                      /\ \A q \in DOMAIN job : job'[q] = job[q]
                      /\ FreshJob(job'[r]) \/ CheckedJob(job'[r])
  <1>a. \A i \in DOMAIN story : i # None /\ story[i] \in Row
    BY TicketsAssumption DEF TypeOK, None
  <1>1. ASSUME NEW i \in Ids, advanceStory(r, i) PROVE Shape
    BY <1>1, <1>a DEF advanceStory, Asked, Begin, Put, CheckedJob, MovesOn, Row,
                      AllOps, OwnerOps, Moves, Creations
  <1>2. ASSUME NEW i \in Ids, declineStory(r, i) PROVE Shape
    BY <1>2, <1>a DEF declineStory, Asked, Begin, Put, CheckedJob, MovesOn, Row,
                      AllOps, OwnerOps, Moves, Creations
  <1>3. ASSUME NEW i \in Ids, flagStory(r, i) \/ clearFlag(r, i) PROVE Shape
    BY <1>3, <1>a DEF flagStory, clearFlag, Asked, Begin, Put, CheckedJob, MovesOn,
                      Row, AllOps, OwnerOps, Creations
  <1>4. ASSUME NEW i \in Ids, NEW a \in People,
               withdrawStory(r, a, i) \/ addComment(r, a, i)
        PROVE  Shape
    BY <1>4, <1>a DEF withdrawStory, addComment, Asked, Begin, Put, CheckedJob,
                      MovesOn, AllOps, Creations
  <1>5. ASSUME NEW i \in Ids, NEW a \in People, NEW p \in Priorities,
               changeStoryPriority(r, a, i, p)
        PROVE  Shape
    BY <1>5, <1>a DEF changeStoryPriority, Asked, Begin, Put, CheckedJob, MovesOn,
                      Row, AllOps, Creations
  <1>6. ASSUME NEW i \in Ids, NEW a \in People, NEW p \in Priorities,
               requeueStory(r, a, i, p)
        PROVE  Shape
    BY <1>6 DEF requeueStory, Asked, Begin, Put, FreshJob, NewRow, Creations
  <1>7. ASSUME NEW a \in People, NEW p \in Priorities, openRequest(r, a, p)
        PROVE  Shape
    BY <1>7 DEF openRequest, Begin, Put, FreshJob, NewRow, Creations
  <1>8. UNCHANGED tables
    BY DEF Arrive, advanceStory, declineStory, flagStory, clearFlag, withdrawStory,
           addComment, changeStoryPriority, requeueStory, openRequest
  <1> QED
    BY <1>1, <1>2, <1>3, <1>4, <1>5, <1>6, <1>7, <1>8 DEF Arrive

-----------------------------------------------------------------------------
\* Files.  That every ticket has its file is not inductive by itself: a row is
\* inserted, and a file removed, by a handler that decided to long before.

\* The files of handlers about to insert a row, or about to remove a file
\* whose row they deleted, are no ticket's, and nobody is about to insert a
\* row for a file somebody else holds.
KeysApart ==
    /\ \A r \in DOMAIN job : job[r].pc \in Opening \cup {"unlink"} =>
          \A i \in DOMAIN story : story[i].key # job[r].row.key
    /\ \A r, q \in DOMAIN job :
          (r # q /\ job[r].pc \in Opening /\ job[q].pc \in Opening \cup {"unlink"})
              => job[r].row.key # job[q].row.key

\* A file is on the disk before its row is inserted.
StoredFirst == \A r \in DOMAIN job : job[r].pc = "insert" => job[r].row.key \in files

\* A row a handler has read has been there, and its key never changes.
KeyIsStill ==
    \A r \in DOMAIN job : job[r].pc = "write" =>
        /\ job[r].id \in Ids
        /\ been[job[r].id] # {}
        /\ job[r].id \in DOMAIN story => story[job[r].id].key = job[r].row.key

RowsHaveBeen == \A i \in DOMAIN story : been[i] # {}

FileInv == /\ TypeOK
           /\ EveryTicketHasItsFile
           /\ KeysApart
           /\ StoredFirst
           /\ KeyIsStill
           /\ RowsHaveBeen

LEMMA InitFile == Init => FileInv
  BY InitTypes DEF Init, Nothing, FileInv, EveryTicketHasItsFile, KeysApart, StoredFirst,
                   KeyIsStill, RowsHaveBeen

\* A step that only moves handlers along, or drops some, disturbs nothing as
\* long as none enters a place where it holds a file or a row it read.
LEMMA OnlyFewerJobs ==
    ASSUME FileInv, TypeOK', UNCHANGED <<story, files, been>>,
           DOMAIN job' \subseteq DOMAIN job,
           \A r \in DOMAIN job' :
              \/ job'[r] = job[r]
              \/ job'[r].pc \notin Opening \cup {"unlink", "write"}
    PROVE  FileInv'
  BY DEF FileInv, EveryTicketHasItsFile, KeysApart, StoredFirst, KeyIsStill, RowsHaveBeen,
         Opening

LEMMA MovedAlong ==
    ASSUME TypeOK, NEW r \in DOMAIN job,
           GoTo(r, AfterCommit(job[r])) \/ GoTo(r, "record") \/ End(r)
    PROVE  /\ DOMAIN job' \subseteq DOMAIN job
           /\ \A q \in DOMAIN job' :
                 \/ job'[q] = job[q]
                 \/ job'[q].pc \notin Opening \cup {"unlink", "write"}
  BY DEF GoTo, End, Drop, Restrict, AfterCommit, Opening, TypeOK, Job

\* A handler moves on and keeps what it is about.
LEMMA MovesAlone ==
    ASSUME TypeOK, NEW r \in DOMAIN job, NEW pc, GoTo(r, pc) \/ Committed(r, pc)
    PROVE  /\ DOMAIN job' = DOMAIN job
           /\ \A q \in DOMAIN job \ {r} : job'[q] = job[q]
           /\ job'[r].pc = pc
           /\ job'[r].op = job[r].op
           /\ job'[r].id = job[r].id
           /\ job'[r].row = job[r].row
           /\ job'[r].seen = job[r].seen
  <1>1. job[r] \in Job
    BY DEF TypeOK
  <1>2. CASE GoTo(r, pc)
    BY <1>1, <1>2 DEF GoTo, TypeOK, Job
  <1>3. CASE Committed(r, pc)
    <2> DEFINE j == [job[r] EXCEPT !.was = story[job[r].id].status, !.pc = pc]
    <2>1. /\ j.pc = pc /\ j.op = job[r].op /\ j.id = job[r].id
          /\ j.row = job[r].row /\ j.seen = job[r].seen
      BY <1>1 DEF Job
    <2>2. job' = [job EXCEPT ![r] = j]
      BY <1>3 DEF Committed
    <2> HIDE DEF j
    <2> QED
      BY <2>1, <2>2
  <1> QED
    BY <1>2, <1>3

LEMMA ArriveFile ==
    ASSUME FileInv, NEW r \in Requests, Arrive(r)
    PROVE  FileInv'
  <1>1. TypeOK /\ TypeOK'
    BY ArriveTypes DEF FileInv
  <1>2. /\ UNCHANGED <<story, files, been>>
        /\ r \notin DOMAIN job
        /\ DOMAIN job' = DOMAIN job \cup {r}
        /\ \A q \in DOMAIN job : job'[q] = job[q]
        /\ FreshJob(job'[r]) \/ CheckedJob(job'[r])
    BY <1>1, ArriveShape DEF tables
  <1>3. CASE FreshJob(job'[r])
    <2>1. /\ job'[r].pc = "put"
          /\ \A i \in DOMAIN story : story[i].key # job'[r].row.key
          /\ \A q \in DOMAIN job : job[q].row.key # job'[r].row.key
      BY <1>3 DEF FreshJob, KeysInUse
    <2>2. KeysApart'
      BY <1>2, <2>1 DEF FileInv, KeysApart, Opening
    <2>3. StoredFirst' /\ KeyIsStill'
      BY <1>2, <2>1 DEF FileInv, StoredFirst, KeyIsStill
    <2> QED
      BY <1>1, <1>2, <2>2, <2>3 DEF FileInv, EveryTicketHasItsFile, RowsHaveBeen
  <1>4. CASE CheckedJob(job'[r])
    <2>1. /\ job'[r].pc = "write"
          /\ job'[r].id \in DOMAIN story
          /\ story[job'[r].id].key = job'[r].row.key
      BY <1>4 DEF CheckedJob
    <2>2. KeysApart' /\ StoredFirst'
      BY <1>2, <2>1 DEF FileInv, KeysApart, StoredFirst, Opening
    <2>3. KeyIsStill'
      BY <1>1, <1>2, <2>1 DEF FileInv, KeyIsStill, RowsHaveBeen, TypeOK
    <2> QED
      BY <1>1, <1>2, <2>2, <2>3 DEF FileInv, EveryTicketHasItsFile, RowsHaveBeen
  <1> QED
    BY <1>2, <1>3, <1>4

\* putModel and copyModel: the new file is its own handler's.
LEMMA StoreFile ==
    ASSUME FileInv, NEW r \in Requests, putModel(r) \/ copyModel(r)
    PROVE  FileInv'
  <1>1. TypeOK /\ TypeOK' /\ r \in DOMAIN job /\ job[r].pc = "put"
    BY FilesTypes DEF FileInv, putModel, copyModel, At
  <1>2. CASE End(r) /\ UNCHANGED files
    BY <1>1, <1>2, MovedAlong, OnlyFewerJobs DEF putModel, copyModel
  <1>3. CASE GoTo(r, "insert") /\ files' = files \cup {job[r].row.key}
    <2>1. /\ UNCHANGED <<story, been>>
          /\ DOMAIN job' = DOMAIN job
          /\ \A q \in DOMAIN job : job'[q].row = job[q].row /\ job'[q].id = job[q].id
          /\ \A q \in DOMAIN job \ {r} : job'[q] = job[q]
          /\ job'[r].pc = "insert"
      BY <1>1, <1>3 DEF putModel, copyModel, GoTo, TypeOK, Job
    <2>2. KeysApart'
      BY <1>1, <2>1 DEF FileInv, KeysApart, Opening
    <2>3. StoredFirst' /\ KeyIsStill'
      BY <1>1, <1>3, <2>1 DEF FileInv, StoredFirst, KeyIsStill
    <2> QED
      BY <1>1, <1>3, <2>1, <2>2, <2>3 DEF FileInv, EveryTicketHasItsFile, RowsHaveBeen
  <1> QED
    BY <1>2, <1>3 DEF putModel, copyModel

\* deleteModel: the file is no ticket's and nobody is about to make it one.
LEMMA DeleteFile ==
    ASSUME FileInv, NEW r \in Requests, deleteModel(r)
    PROVE  FileInv'
  <1>1. TypeOK /\ TypeOK' /\ r \in DOMAIN job /\ job[r].pc = "unlink"
    BY FilesTypes DEF FileInv, deleteModel, At
  <1>2. /\ UNCHANGED <<story, been>>
        /\ files' = files \ {job[r].row.key}
        /\ DOMAIN job' = DOMAIN job
        /\ \A q \in DOMAIN job : job'[q].row = job[q].row /\ job'[q].id = job[q].id
        /\ \A q \in DOMAIN job \ {r} : job'[q] = job[q]
        /\ job'[r].pc \in {"notify", "record"}
    BY <1>1 DEF deleteModel, GoTo, AfterCommit, TypeOK, Job
  <1>3. EveryTicketHasItsFile'
    BY <1>1, <1>2 DEF FileInv, EveryTicketHasItsFile, KeysApart
  <1>4. StoredFirst'
    BY <1>1, <1>2 DEF FileInv, StoredFirst, KeysApart, Opening
  <1>5. KeysApart' /\ KeyIsStill' /\ RowsHaveBeen'
    BY <1>1, <1>2 DEF FileInv, KeysApart, KeyIsStill, RowsHaveBeen, Opening
  <1> QED
    BY <1>1, <1>3, <1>4, <1>5 DEF FileInv

LEMMA InsertFile ==
    ASSUME FileInv, NEW r \in Requests, insertStory(r)
    PROVE  FileInv'
  <1>1. TypeOK /\ TypeOK' /\ r \in DOMAIN job /\ job[r].pc = "insert"
    BY InsertTypes DEF FileInv, insertStory, At
  <1>2. PICK i \in Ids :
          /\ been[i] = {}
          /\ story' = Put(story, i, job[r].row)
          /\ been' = [been EXCEPT ![i] = {"Requested"}]
          /\ job' = [job EXCEPT ![r] = [@ EXCEPT !.id = i, !.pc = AfterCommit(job[r])]]
    BY DEF insertStory
  <1>3. /\ i \notin DOMAIN story
        /\ DOMAIN story' = DOMAIN story \cup {i}
        /\ story'[i] = job[r].row
        /\ \A k \in DOMAIN story : story'[k] = story[k]
    BY <1>2 DEF Put, FileInv, RowsHaveBeen
  <1>4. /\ files' = files
        /\ DOMAIN job' = DOMAIN job
        /\ \A q \in DOMAIN job \ {r} : job'[q] = job[q]
        /\ job'[r].pc \in {"notify", "record"}
        /\ been'[i] # {}
        /\ \A k \in Ids \ {i} : been'[k] = been[k]
    BY <1>1, <1>2 DEF insertStory, AfterCommit, TypeOK, Job
  <1>5. EveryTicketHasItsFile'
    BY <1>1, <1>3, <1>4 DEF FileInv, EveryTicketHasItsFile, KeysApart, StoredFirst, Opening
  <1>6. KeysApart'
    BY <1>1, <1>3, <1>4 DEF FileInv, KeysApart, Opening
  <1>7. StoredFirst' /\ RowsHaveBeen'
    BY <1>1, <1>3, <1>4 DEF FileInv, StoredFirst, RowsHaveBeen, TypeOK
  <1>8. KeyIsStill'
    BY <1>1, <1>2, <1>3, <1>4 DEF FileInv, KeyIsStill
  <1> QED
    BY <1>1, <1>5, <1>6, <1>7, <1>8 DEF FileInv

\* A write in place changes no key and no id.
LEMMA UpdateFile ==
    ASSUME FileInv, NEW r \in Requests,
           updateStatus(r) \/ updateFlag(r) \/ updatePriority(r) \/ insertComment(r)
    PROVE  FileInv'
  <1>1. TypeOK /\ TypeOK' /\ r \in DOMAIN job
    BY WriteTypes DEF FileInv, updateStatus, updateFlag, updatePriority, insertComment,
                      Writes, At
  <1>2. /\ files' = files
        /\ DOMAIN story' = DOMAIN story
        /\ \A i \in DOMAIN story : story'[i].key = story[i].key
        /\ \A i \in Ids : been[i] \subseteq been'[i]
    BY <1>1 DEF updateStatus, updateFlag, updatePriority, insertComment, RowThere,
                TypeOK, Row
  <1>3. /\ DOMAIN job' = DOMAIN job
        /\ \A q \in DOMAIN job \ {r} : job'[q] = job[q]
        /\ job'[r].pc \in {"notify", "record"}
    BY <1>1, MovesAlone DEF updateStatus, updateFlag, updatePriority, insertComment,
                            AfterCommit
  <1>4. EveryTicketHasItsFile' /\ RowsHaveBeen' /\ StoredFirst'
    BY <1>1, <1>2, <1>3 DEF FileInv, EveryTicketHasItsFile, RowsHaveBeen, StoredFirst,
                            TypeOK
  <1>5. KeysApart'
    BY <1>2, <1>3 DEF FileInv, KeysApart, Opening
  <1>6. KeyIsStill'
    BY <1>2, <1>3 DEF FileInv, KeyIsStill
  <1> QED
    BY <1>1, <1>4, <1>5, <1>6 DEF FileInv

\* A withdrawal deletes the row whose file it is about to remove.
LEMMA WithdrawFile ==
    ASSUME FileInv, NEW r \in Requests, deleteStory(r)
    PROVE  FileInv'
  <1> DEFINE i == job[r].id
  <1>1. TypeOK /\ TypeOK' /\ r \in DOMAIN job /\ job[r].pc = "write" /\ i \in DOMAIN story
    BY WriteTypes DEF FileInv, deleteStory, Writes, At, RowThere
  <1>2. /\ files' = files
        /\ been' = been
        /\ DOMAIN story' = DOMAIN story \ {i}
        /\ \A k \in DOMAIN story' : story'[k] = story[k]
    BY DEF deleteStory, Drop, Restrict
  <1>3. /\ DOMAIN job' = DOMAIN job
        /\ \A q \in DOMAIN job \ {r} : job'[q] = job[q]
        /\ job'[r].pc = "unlink" /\ job'[r].row = job[r].row
    BY <1>1, MovesAlone DEF deleteStory
  <1>4. story[i].key = job[r].row.key
    BY <1>1 DEF FileInv, KeyIsStill
  <1>5. KeysApart'
    BY <1>1, <1>2, <1>3, <1>4 DEF FileInv, KeysApart, EveryTicketHasItsFile, Opening
  <1>6. EveryTicketHasItsFile' /\ RowsHaveBeen' /\ StoredFirst' /\ KeyIsStill'
    BY <1>1, <1>2, <1>3 DEF FileInv, EveryTicketHasItsFile, RowsHaveBeen, StoredFirst,
                            KeyIsStill
  <1> QED
    BY <1>1, <1>5, <1>6 DEF FileInv

LEMMA NextFile == FileInv /\ [Next]_vars => FileInv'
  <1> SUFFICES ASSUME FileInv, [Next]_vars
               PROVE  FileInv'
    OBVIOUS
  <1>1. TypeOK /\ TypeOK'
    BY NextTypes DEF FileInv
  <1>2. CASE UNCHANGED vars
    BY <1>1, <1>2, OnlyFewerJobs DEF vars
  <1>3. ASSUME NEW r \in Requests, writeNothing(r) \/ notify(r) \/ record(r) \/ fail(r)
        PROVE  FileInv'
    <2>1. r \in DOMAIN job
      BY <1>3 DEF writeNothing, notify, record, fail, Writes, At
    <2>2. GoTo(r, AfterCommit(job[r])) \/ GoTo(r, "record") \/ End(r)
      BY <1>3 DEF writeNothing, notify, record, fail
    <2>3. UNCHANGED <<story, files, been>>
      BY <1>3 DEF writeNothing, notify, record, fail, tables
    <2> QED
      BY <1>1, <2>1, <2>2, <2>3, MovedAlong, OnlyFewerJobs
  <1>4. CASE rejectUpload \/ crash
    BY <1>1, <1>4, OnlyFewerJobs DEF rejectUpload, crash, Nothing
  <1>5. ASSUME NEW r \in Requests, Proceed(r)
        PROVE  FileInv'
    BY <1>3, <1>5, StoreFile, DeleteFile, InsertFile, UpdateFile, WithdrawFile DEF Proceed
  <1> QED
    BY <1>2, <1>3, <1>4, <1>5, ArriveFile DEF Next

\* Whatever uploads, re-queues, withdrawals, failures and crashes do to each
\* other, every ticket has a whole file of its own.
THEOREM NoTicketLosesItsFile == Spec => []EveryTicketHasItsFile
  <1>1. Spec => []FileInv
    BY InitFile, NextFile, PTL DEF Spec
  <1>2. FileInv => EveryTicketHasItsFile
    BY DEF FileInv
  <1> QED
    BY <1>1, <1>2, PTL

-----------------------------------------------------------------------------
\* Statuses and the trail.  A handler writes a status it computed from a row
\* that may have changed since; what saves the flow is that the row had the
\* status it read, and that statuses are only ever added to a ticket's past.

\* What a handler knows at each place.
KnowsWhy(j) ==
    /\ MovesOn(j)
    /\ j.pc \in Opening => j.op \in Creations /\ j.row.status = "Requested"
    /\ j.pc = "write" => /\ j.op \in AllOps \ Creations
                         /\ j.id \in Ids
                         /\ j.seen \in been[j.id]
    /\ j.pc = "unlink" => j.op = "withdraw"
    /\ j.pc \in {"unlink", "notify", "record"} =>
          /\ j.id \in Ids
          /\ been[j.id] # {}
          /\ j.op \in Moves \cup {"withdraw"} => j.seen \in been[j.id]
          /\ j.op \in Moves => j.row.status \in been[j.id]
          /\ j.op = "withdraw" => j.id \notin DOMAIN story

StatusesHaveBeen == \A i \in DOMAIN story : story[i].status \in been[i]

\* Only a refused upload is about no ticket.
TrailNamesTickets == \A e \in trail : e.op # "rejected" => e.id \in Ids

HistoryInv == /\ TypeOK
              /\ NoStepSkipped
              /\ TrailNeverInvents
              /\ TrailNamesTickets
              /\ StatusesHaveBeen
              /\ \A r \in DOMAIN job : KnowsWhy(job[r])

LEMMA InitHistory == Init => HistoryInv
  BY InitTypes DEF Init, Nothing, HistoryInv, NoStepSkipped, TrailNeverInvents,
                   TrailNamesTickets, StatusesHaveBeen, nextStatus

\* No status has two predecessors, and neither the first nor Declined has one.
LEMMA FlowFacts ==
    /\ \A s, t \in DOMAIN nextStatus : nextStatus[s] = nextStatus[t] => s = t
    /\ \A s \in DOMAIN nextStatus : nextStatus[s] \notin {"Requested", "Declined"}
  BY DEF nextStatus

LEMMA HappenedStays ==
    ASSUME NEW e, Happened(e), e.op # "rejected" => been[e.id] \subseteq been'[e.id],
           e.op = "withdraw" => e.id \notin DOMAIN story'
    PROVE  Happened(e)'
  BY DEF Happened, Creations

LEMMA AllHappened ==
    ASSUME TrailNeverInvents, trail' = trail,
           \A e \in trail : /\ e.op # "rejected" => been[e.id] \subseteq been'[e.id]
                            /\ e.op = "withdraw" => e.id \notin DOMAIN story'
    PROVE  TrailNeverInvents'
  <1>1. ASSUME NEW e \in trail
        PROVE  Happened(e)'
    BY HappenedStays DEF TrailNeverInvents
  <1> QED
    BY <1>1 DEF TrailNeverInvents

\* A withdrawal on the trail is of a ticket that has gone, having been there.
LEMMA WithdrawnIsGone ==
    ASSUME TrailNeverInvents, NEW e \in trail, e.op = "withdraw"
    PROVE  been[e.id] # {} /\ e.id \notin DOMAIN story
  BY DEF TrailNeverInvents, Happened, Creations

\* A step that writes no status, files no ticket and records nothing.
LEMMA HistoryKept ==
    ASSUME HistoryInv, TypeOK', UNCHANGED <<trail, been>>,
           DOMAIN story' \subseteq DOMAIN story,
           \A i \in DOMAIN story' : story'[i].status = story[i].status,
           \A q \in DOMAIN job' : \/ q \in DOMAIN job /\ job'[q] = job[q]
                                  \/ KnowsWhy(job[q])'
    PROVE  HistoryInv'
  <1>1. NoStepSkipped' /\ StatusesHaveBeen'
    BY DEF HistoryInv, NoStepSkipped, StatusesHaveBeen
  <1>2. TrailNeverInvents' /\ TrailNamesTickets'
    BY AllHappened, WithdrawnIsGone DEF HistoryInv, TrailNamesTickets
  <1>3. \A q \in DOMAIN job : KnowsWhy(job[q]) /\ job'[q] = job[q] => KnowsWhy(job[q])'
    BY DEF KnowsWhy, MovesOn
  <1> QED
    BY <1>1, <1>2, <1>3 DEF HistoryInv

LEMMA ArriveHistory ==
    ASSUME HistoryInv, NEW r \in Requests, Arrive(r)
    PROVE  HistoryInv'
  <1>1. TypeOK /\ TypeOK'
    BY ArriveTypes DEF HistoryInv
  <1>2. /\ UNCHANGED <<story, trail, been>>
        /\ DOMAIN job' = DOMAIN job \cup {r}
        /\ \A q \in DOMAIN job : job'[q] = job[q]
        /\ FreshJob(job'[r]) \/ CheckedJob(job'[r])
    BY <1>1, ArriveShape DEF tables
  <1>3. KnowsWhy(job[r])'
    <2>1. CASE FreshJob(job'[r])
      BY <2>1 DEF FreshJob, KnowsWhy, MovesOn, Opening, Creations
    <2>2. CASE CheckedJob(job'[r])
      BY <1>1, <1>2, <2>2 DEF CheckedJob, KnowsWhy, MovesOn, Opening, HistoryInv,
                              StatusesHaveBeen, TypeOK
    <2> QED
      BY <1>2, <2>1, <2>2
  <1> QED
    BY <1>1, <1>2, <1>3, HistoryKept

\* A handler that moves on after its write, or fails, still knows why.
LEMMA AlongHistory ==
    ASSUME HistoryInv, TypeOK', NEW r \in DOMAIN job, UNCHANGED <<trail, been>>,
           DOMAIN story' \subseteq DOMAIN story,
           \A i \in DOMAIN story' : story'[i].status = story[i].status,
           \/ End(r)
           \/ \E pc \in {"notify", "record"} :
                 /\ GoTo(r, pc)
                 /\ \/ job[r].pc \in {"unlink", "notify"}
                    \/ job[r].pc = "write" /\ job[r].op \notin Moves \cup {"withdraw"}
           \/ job[r].pc = "put" /\ GoTo(r, "insert")
    PROVE  HistoryInv'
  <1>1. TypeOK /\ KnowsWhy(job[r])
    BY DEF HistoryInv
  <1>2. CASE End(r)
    <2>1. DOMAIN job' \subseteq DOMAIN job /\ \A q \in DOMAIN job' : job'[q] = job[q]
      BY <1>2 DEF End, Drop, Restrict
    <2> QED
      BY <2>1, HistoryKept
  <1>3. ASSUME NEW pc \in {"notify", "record"}, GoTo(r, pc),
               \/ job[r].pc \in {"unlink", "notify"}
               \/ job[r].pc = "write" /\ job[r].op \notin Moves \cup {"withdraw"}
        PROVE  HistoryInv'
    <2>1. /\ DOMAIN job' = DOMAIN job
          /\ \A q \in DOMAIN job \ {r} : job'[q] = job[q]
          /\ job'[r].pc = pc /\ job'[r].op = job[r].op /\ job'[r].id = job[r].id
          /\ job'[r].row = job[r].row /\ job'[r].seen = job[r].seen
      BY <1>1, <1>3, MovesAlone
    <2>2. KnowsWhy(job[r])'
      BY <1>1, <1>3, <2>1 DEF KnowsWhy, MovesOn, Opening
    <2> QED
      BY <2>1, <2>2, HistoryKept
  <1>4. CASE job[r].pc = "put" /\ GoTo(r, "insert")
    <2>1. /\ DOMAIN job' = DOMAIN job
          /\ \A q \in DOMAIN job \ {r} : job'[q] = job[q]
          /\ job'[r].pc = "insert" /\ job'[r].op = job[r].op /\ job'[r].id = job[r].id
          /\ job'[r].row = job[r].row /\ job'[r].seen = job[r].seen
      BY <1>1, <1>4, MovesAlone
    <2>2. KnowsWhy(job[r])'
      BY <1>1, <1>4, <2>1 DEF KnowsWhy, MovesOn, Opening
    <2> QED
      BY <2>1, <2>2, HistoryKept
  <1> QED
    BY <1>2, <1>3, <1>4

\* The one write of a status.
LEMMA StatusHistory ==
    ASSUME HistoryInv, NEW r \in Requests, updateStatus(r)
    PROVE  HistoryInv'
  <1> DEFINE i == job[r].id
             s == job[r].row.status
  <1>1. /\ TypeOK /\ TypeOK' /\ r \in DOMAIN job /\ KnowsWhy(job[r])
        /\ job[r].pc = "write" /\ job[r].op \in Moves /\ i \in DOMAIN story
    BY WriteTypes DEF HistoryInv, updateStatus, Writes, At, RowThere
  <1>2. /\ trail' = trail
        /\ DOMAIN story' = DOMAIN story
        /\ story'[i].status = s
        /\ \A k \in DOMAIN story \ {i} : story'[k] = story[k]
        /\ been'[i] = been[i] \cup {s}
        /\ \A k \in Ids : been[k] \subseteq been'[k] /\ (k # i => been'[k] = been[k])
    BY <1>1 DEF updateStatus, TypeOK, Row
  <1>3. /\ DOMAIN job' = DOMAIN job
        /\ \A q \in DOMAIN job \ {r} : job'[q] = job[q]
        /\ job'[r].pc \in {"notify", "record"}
        /\ job'[r].op = job[r].op /\ job'[r].id = job[r].id
        /\ job'[r].row = job[r].row /\ job'[r].seen = job[r].seen
    BY <1>1, MovesAlone DEF updateStatus, AfterCommit
  <1>4. /\ job[r].seen \in been[i]
        /\ \/ s = "Declined"
           \/ job[r].seen \in DOMAIN nextStatus /\ s = nextStatus[job[r].seen]
    BY <1>1 DEF KnowsWhy, MovesOn, Moves
  <1>5. NoStepSkipped'
    <2> SUFFICES ASSUME NEW k \in Ids, NEW t \in DOMAIN nextStatus,
                        nextStatus[t] \in been'[k]
                 PROVE  t \in been'[k]
      BY DEF NoStepSkipped, nextStatus
    <2>1. CASE nextStatus[t] \in been[k]
      BY <1>2, <2>1 DEF HistoryInv, NoStepSkipped
    <2>2. CASE k = i /\ nextStatus[t] = s
      BY <1>2, <1>4, <2>2, FlowFacts
    <2> QED
      BY <1>2, <2>1, <2>2
  <1>6. TrailNeverInvents'
    BY <1>2, AllHappened, WithdrawnIsGone DEF HistoryInv, TrailNamesTickets
  <1>7. StatusesHaveBeen'
    BY <1>1, <1>2 DEF HistoryInv, StatusesHaveBeen, TypeOK
  <1>8. \A q \in DOMAIN job' : KnowsWhy(job[q])'
    <2>1. KnowsWhy(job[r])'
      BY <1>1, <1>2, <1>3 DEF KnowsWhy, MovesOn, Opening, Moves, Creations
    <2>2. ASSUME NEW q \in DOMAIN job \ {r} PROVE KnowsWhy(job[q])'
      BY <1>1, <1>2, <1>3 DEF KnowsWhy, MovesOn, Opening, HistoryInv
    <2> QED
      BY <1>3, <2>1, <2>2
  <1>9. TrailNamesTickets'
    BY <1>2 DEF HistoryInv, TrailNamesTickets
  <1> QED
    BY <1>1, <1>5, <1>6, <1>7, <1>8, <1>9 DEF HistoryInv

LEMMA InsertHistory ==
    ASSUME HistoryInv, NEW r \in Requests, insertStory(r)
    PROVE  HistoryInv'
  <1>1. /\ TypeOK /\ TypeOK' /\ r \in DOMAIN job /\ KnowsWhy(job[r])
        /\ job[r].pc = "insert"
    BY InsertTypes DEF HistoryInv, insertStory, At
  <1>2. PICK i \in Ids :
          /\ been[i] = {}
          /\ story' = Put(story, i, job[r].row)
          /\ been' = [been EXCEPT ![i] = {"Requested"}]
          /\ job' = [job EXCEPT ![r] = [@ EXCEPT !.id = i, !.pc = AfterCommit(job[r])]]
    BY DEF insertStory
  <1>3. /\ trail' = trail
        /\ DOMAIN story' = DOMAIN story \cup {i}
        /\ story'[i].status = "Requested"
        /\ \A k \in DOMAIN story \ {i} : story'[k] = story[k]
        /\ been'[i] = {"Requested"}
        /\ \A k \in Ids : been[k] \subseteq been'[k] /\ (k # i => been'[k] = been[k])
    <2>1. job[r].row.status = "Requested" /\ trail' = trail
      BY <1>1 DEF insertStory, KnowsWhy, Opening
    <2>2. been \in [Ids -> SUBSET Statuses]
      BY <1>1 DEF TypeOK
    <2>3. /\ DOMAIN story' = DOMAIN story \cup {i}
          /\ story'[i] = job[r].row
          /\ \A k \in DOMAIN story \ {i} : story'[k] = story[k]
      BY <1>2 DEF Put
    <2> QED
      BY <1>2, <2>1, <2>2, <2>3
  <1>4. /\ DOMAIN job' = DOMAIN job
        /\ \A q \in DOMAIN job \ {r} : job'[q] = job[q]
        /\ job'[r].pc \in {"notify", "record"} /\ job'[r].op = job[r].op
        /\ job'[r].id = i
        /\ job'[r].row = job[r].row /\ job'[r].seen = job[r].seen
    <2> DEFINE j == [job[r] EXCEPT !.id = i, !.pc = AfterCommit(job[r])]
    <2>1. /\ j.pc \in {"notify", "record"} /\ j.op = job[r].op
          /\ j.id = i
          /\ j.row = job[r].row /\ j.seen = job[r].seen
      BY <1>1 DEF AfterCommit, TypeOK, Job
    <2>2. job' = [job EXCEPT ![r] = j]
      BY <1>2
    <2> HIDE DEF j
    <2> QED
      BY <1>1, <2>1, <2>2
  <1>5. NoStepSkipped'
    <2> SUFFICES ASSUME NEW k \in Ids, NEW t \in DOMAIN nextStatus,
                        nextStatus[t] \in been'[k]
                 PROVE  t \in been'[k]
      BY DEF NoStepSkipped, nextStatus
    <2> QED
      BY <1>3, FlowFacts DEF HistoryInv, NoStepSkipped
  <1>6. TrailNeverInvents'
    BY <1>2, <1>3, AllHappened, WithdrawnIsGone DEF HistoryInv, TrailNamesTickets
  <1>7. StatusesHaveBeen' /\ TrailNamesTickets'
    BY <1>1, <1>3 DEF HistoryInv, StatusesHaveBeen, TrailNamesTickets, TypeOK
  <1>8. \A q \in DOMAIN job' : KnowsWhy(job[q])'
    <2>1. KnowsWhy(job[r])'
      BY <1>1, <1>3, <1>4 DEF KnowsWhy, MovesOn, Opening, Moves, Creations
    <2>2. ASSUME NEW q \in DOMAIN job \ {r} PROVE KnowsWhy(job[q])'
      BY <1>1, <1>2, <1>3, <1>4 DEF KnowsWhy, MovesOn, Opening, HistoryInv
    <2> QED
      BY <1>4, <2>1, <2>2
  <1> QED
    BY <1>1, <1>5, <1>6, <1>7, <1>8 DEF HistoryInv

\* A withdrawal is recorded of a ticket that is gone for good.
LEMMA WithdrawHistory ==
    ASSUME HistoryInv, NEW r \in Requests, deleteStory(r)
    PROVE  HistoryInv'
  <1> DEFINE i == job[r].id
  <1>1. /\ TypeOK /\ TypeOK' /\ r \in DOMAIN job /\ KnowsWhy(job[r])
        /\ job[r].pc = "write" /\ job[r].op = "withdraw" /\ i \in DOMAIN story
    BY WriteTypes DEF HistoryInv, deleteStory, Writes, At, RowThere
  <1>2. /\ trail' = trail
        /\ been' = been
        /\ DOMAIN story' = DOMAIN story \ {i}
        /\ \A k \in DOMAIN story' : story'[k] = story[k]
    BY DEF deleteStory, Drop, Restrict
  <1>3. /\ DOMAIN job' = DOMAIN job
        /\ \A q \in DOMAIN job \ {r} : job'[q] = job[q]
        /\ job'[r].pc = "unlink" /\ job'[r].op = job[r].op /\ job'[r].id = job[r].id
        /\ job'[r].row = job[r].row /\ job'[r].seen = job[r].seen
    BY <1>1, MovesAlone DEF deleteStory
  <1>4. KnowsWhy(job[r])'
    BY <1>1, <1>2, <1>3 DEF KnowsWhy, MovesOn, Opening, Moves, HistoryInv, StatusesHaveBeen
  <1> QED
    BY <1>1, <1>2, <1>3, <1>4, HistoryKept

\* The trail gains what the handler knows.
LEMMA RecordHistory ==
    ASSUME HistoryInv, NEW r \in Requests, record(r)
    PROVE  HistoryInv'
  <1> DEFINE j == job[r]
  <1>1. TypeOK /\ TypeOK' /\ r \in DOMAIN job /\ KnowsWhy(j) /\ j.pc = "record"
    BY RecordTypes DEF HistoryInv, record, At
  <1>2. /\ UNCHANGED <<story, been>>
        /\ trail' = trail \cup {ClaimOf(j)}
        /\ DOMAIN job' \subseteq DOMAIN job
        /\ \A q \in DOMAIN job' : job'[q] = job[q]
    BY DEF record, End, Drop, Restrict
  <1>3. /\ j.op = "advance" => /\ {j.seen, j.row.status} \subseteq been[j.id]
                                /\ assertTransition(j.seen, j.row.status)
        /\ j.op = "decline" => "Declined" \in been[j.id]
        /\ j.op = "withdraw" => /\ j.seen \in been[j.id] \cap Withdrawable
                                 /\ j.id \notin DOMAIN story
        /\ been[j.id] # {} /\ j.id \in Ids
    BY <1>1, FlowFacts DEF KnowsWhy, MovesOn, Moves, assertTransition
  <1>4. TrailNeverInvents'
    <2> DEFINE c == ClaimOf(j)
    <2>1. /\ c.op = j.op /\ c.id = j.id
          /\ j.op \in {"advance", "withdraw"} => c.from = j.seen
          /\ j.op = "advance" => c.to = j.row.status
      BY DEF ClaimOf
    <2> HIDE DEF c
    <2>2. Happened(c)
      BY <1>3, <2>1 DEF Happened
    <2>3. \A e \in trail \cup {c} : Happened(e)'
      BY <1>2, <2>2, HappenedStays DEF HistoryInv, TrailNeverInvents, Happened
    <2> QED
      BY <1>2, <2>3 DEF TrailNeverInvents, c
  <1>5. TrailNamesTickets'
    BY <1>2, <1>3 DEF HistoryInv, TrailNamesTickets, ClaimOf
  <1>6. NoStepSkipped' /\ StatusesHaveBeen' /\ \A q \in DOMAIN job' : KnowsWhy(job[q])'
    BY <1>2 DEF HistoryInv, NoStepSkipped, StatusesHaveBeen, KnowsWhy, MovesOn
  <1> QED
    BY <1>1, <1>4, <1>5, <1>6 DEF HistoryInv

LEMMA NextHistory == HistoryInv /\ [Next]_vars => HistoryInv'
  <1> SUFFICES ASSUME HistoryInv, [Next]_vars
               PROVE  HistoryInv'
    OBVIOUS
  <1>1. TypeOK /\ TypeOK'
    BY NextTypes DEF HistoryInv
  <1>2. CASE UNCHANGED vars
    BY <1>1, <1>2, HistoryKept DEF vars
  <1>3. ASSUME NEW r \in Requests,
               \/ putModel(r) \/ copyModel(r) \/ deleteModel(r) \/ writeNothing(r)
               \/ updateFlag(r) \/ updatePriority(r) \/ insertComment(r) \/ notify(r)
               \/ fail(r)
        PROVE  HistoryInv'
    <2>1. r \in DOMAIN job
      BY <1>3 DEF putModel, copyModel, deleteModel, writeNothing, updateFlag,
                  updatePriority, insertComment, notify, fail, Writes, At
    <2>2. /\ UNCHANGED <<trail, been>>
          /\ DOMAIN story' \subseteq DOMAIN story
          /\ \A i \in DOMAIN story' : story'[i].status = story[i].status
      BY <1>1, <1>3 DEF putModel, copyModel, deleteModel, writeNothing, updateFlag,
                  updatePriority, insertComment, notify, fail, tables, TypeOK, Row
    <2>3. \/ End(r)
          \/ \E pc \in {"notify", "record"} :
                /\ GoTo(r, pc)
                /\ \/ job[r].pc \in {"unlink", "notify"}
                   \/ job[r].pc = "write" /\ job[r].op \notin Moves \cup {"withdraw"}
          \/ job[r].pc = "put" /\ GoTo(r, "insert")
      BY <1>3 DEF putModel, copyModel, deleteModel, writeNothing, updateFlag,
                  updatePriority, insertComment, notify, fail, Writes, At, AfterCommit,
                  Moves
    <2> QED
      BY <1>1, <2>1, <2>2, <2>3, AlongHistory
  <1>4. CASE crash
    BY <1>1, <1>4, HistoryKept DEF crash, Nothing
  <1>5. CASE rejectUpload
    <2>1. TrailNeverInvents' /\ TrailNamesTickets'
      BY <1>5 DEF rejectUpload, HistoryInv, TrailNeverInvents, Happened, TrailNamesTickets,
                  Creations
    <2>2. NoStepSkipped' /\ StatusesHaveBeen' /\ \A q \in DOMAIN job' : KnowsWhy(job[q])'
      BY <1>5 DEF rejectUpload, HistoryInv, NoStepSkipped, StatusesHaveBeen, KnowsWhy,
                  MovesOn
    <2> QED
      BY <1>1, <2>1, <2>2 DEF HistoryInv
  <1>6. ASSUME NEW r \in Requests, Proceed(r)
        PROVE  HistoryInv'
    BY <1>3, <1>6, InsertHistory, StatusHistory, WithdrawHistory, RecordHistory DEF Proceed
  <1> QED
    BY <1>2, <1>3, <1>4, <1>5, <1>6, ArriveHistory DEF Next

\* The statuses a ticket has had are a run of the flow from its start, and
\* perhaps Declined, whatever stale row a handler acts on.
THEOREM FlowIsNeverJumped == Spec => []NoStepSkipped
  <1>1. HistoryInv => NoStepSkipped
    BY DEF HistoryInv
  <1> QED
    BY <1>1, InitHistory, NextHistory, PTL DEF Spec

\* Every status, withdrawal and opening the trail reports did happen, the status
\* a row says the ticket came from included, however requests overlap.
THEOREM TrailIsTrue == Spec => []TrailNeverInvents
  <1>1. HistoryInv => TrailNeverInvents
    BY DEF HistoryInv
  <1> QED
    BY <1>1, InitHistory, NextHistory, PTL DEF Spec

-----------------------------------------------------------------------------
\* What becomes of files when nothing fails.  A key a handler merely names may
\* be another's; the one that keeps a file is about to insert its row or to
\* remove it.

Keeper(k) == \/ \E i \in DOMAIN story : story[i].key = k
             \/ \E r \in DOMAIN job : job[r].pc \in {"insert", "unlink"} /\ job[r].row.key = k

Kept == \A k \in files : Keeper(k)

\* A handler moves within, or out of, the places that keep nothing.
LEMMA KeptStill ==
    ASSUME Kept, files' \subseteq files,
           \A i \in DOMAIN story : i \in DOMAIN story' /\ story'[i].key = story[i].key,
           \A r \in DOMAIN job : job[r].pc \in {"insert", "unlink"} =>
               r \in DOMAIN job' /\ job'[r] = job[r]
    PROVE  Kept'
  BY DEF Kept, Keeper

LEMMA StoringKept ==
    ASSUME FileInv, Kept, NEW r, putModel(r) \/ copyModel(r)
    PROVE  Kept'
  <1>1. r \in DOMAIN job /\ job[r].pc = "put" /\ story' = story /\ TypeOK
    BY DEF putModel, copyModel, At, FileInv
  <1>2. CASE End(r) /\ UNCHANGED files
    BY <1>1, <1>2, KeptStill DEF End, Drop, Restrict
  <1>3. CASE files' = files \cup {job[r].row.key} /\ GoTo(r, "insert")
    <2>1. /\ DOMAIN job' = DOMAIN job /\ job'[r].pc = "insert" /\ job'[r].row = job[r].row
          /\ \A q \in DOMAIN job \ {r} : job'[q] = job[q]
      BY <1>1, <1>3, MovesAlone
    <2> QED
      BY <1>1, <1>3, <2>1 DEF Kept, Keeper
  <1> QED
    BY <1>2, <1>3 DEF putModel, copyModel

LEMMA RemovingKept ==
    ASSUME FileInv, Kept, NEW r, deleteModel(r)
    PROVE  Kept'
  <1>1. r \in DOMAIN job /\ job[r].pc = "unlink" /\ story' = story /\ TypeOK
    BY DEF deleteModel, At, FileInv
  <1>2. files' = files \ {job[r].row.key}
    BY DEF deleteModel
  <1>3. DOMAIN job' = DOMAIN job /\ \A q \in DOMAIN job \ {r} : job'[q] = job[q]
    BY <1>1, MovesAlone DEF deleteModel
  <1> QED
    BY <1>1, <1>2, <1>3 DEF Kept, Keeper

LEMMA InsertingKept ==
    ASSUME FileInv, Kept, NEW r, insertStory(r)
    PROVE  Kept'
  <1>1. r \in DOMAIN job /\ files' = files
    BY DEF insertStory, At
  <1>2. PICK i \in Ids :
          /\ been[i] = {} /\ story' = Put(story, i, job[r].row)
          /\ job' = [job EXCEPT ![r] = [@ EXCEPT !.id = i, !.pc = AfterCommit(job[r])]]
    BY DEF insertStory
  <1>3. /\ DOMAIN story' = DOMAIN story \cup {i} /\ story'[i] = job[r].row
        /\ \A k \in DOMAIN story \ {i} : story'[k] = story[k]
    BY <1>2 DEF Put
  <1>4. i \notin DOMAIN story
    BY <1>2 DEF FileInv, RowsHaveBeen
  <1>5. DOMAIN job' = DOMAIN job /\ \A q \in DOMAIN job \ {r} : job'[q] = job[q]
    BY <1>2
  <1> QED
    BY <1>1, <1>3, <1>4, <1>5 DEF Kept, Keeper

LEMMA WithdrawingKept ==
    ASSUME FileInv, Kept, NEW r, deleteStory(r)
    PROVE  Kept'
  <1>1. r \in DOMAIN job /\ job[r].pc = "write" /\ job[r].id \in DOMAIN story
        /\ files' = files /\ TypeOK
    BY DEF deleteStory, Writes, At, RowThere, FileInv
  <1>2. story[job[r].id].key = job[r].row.key
    BY <1>1 DEF FileInv, KeyIsStill
  <1>3. /\ DOMAIN story' = DOMAIN story \ {job[r].id}
        /\ \A i \in DOMAIN story' : story'[i] = story[i]
    BY DEF deleteStory, Drop, Restrict
  <1>4. /\ DOMAIN job' = DOMAIN job /\ job'[r].pc = "unlink" /\ job'[r].row = job[r].row
        /\ \A q \in DOMAIN job \ {r} : job'[q] = job[q]
    BY <1>1, MovesAlone DEF deleteStory
  <1> QED
    BY <1>1, <1>2, <1>3, <1>4 DEF Kept, Keeper

LEMMA WritingKept ==
    ASSUME FileInv, Kept, NEW r,
           \/ writeNothing(r) \/ updateStatus(r) \/ updateFlag(r) \/ updatePriority(r)
           \/ insertComment(r) \/ notify(r) \/ record(r)
    PROVE  Kept'
  <1>1. r \in DOMAIN job /\ job[r].pc \in {"write", "notify", "record"} /\ files' = files
    BY DEF writeNothing, updateStatus, updateFlag, updatePriority, insertComment, notify,
           record, Writes, At, tables
  <1>2. \A q \in DOMAIN job \ {r} : q \in DOMAIN job' /\ job'[q] = job[q]
    BY DEF writeNothing, updateStatus, updateFlag, updatePriority, insertComment, notify,
           record, GoTo, End, Committed, Drop, Restrict
  <1>3. \A i \in DOMAIN story : i \in DOMAIN story' /\ story'[i].key = story[i].key
    <2>1. \A i \in DOMAIN story : story[i] \in Row
      BY DEF FileInv, TypeOK
    <2>2. CASE updateStatus(r)
      BY <2>1, <2>2 DEF updateStatus, Row
    <2>3. CASE updateFlag(r)
      BY <2>1, <2>3 DEF updateFlag, Row
    <2>4. CASE updatePriority(r)
      BY <2>1, <2>4 DEF updatePriority, Row
    <2>5. CASE writeNothing(r) \/ insertComment(r) \/ notify(r) \/ record(r)
      BY <2>5 DEF writeNothing, insertComment, notify, record, tables
    <2> QED
      BY <2>2, <2>3, <2>4, <2>5
  <1> QED
    BY <1>1, <1>2, <1>3, KeptStill

LEMMA NextKept ==
    ASSUME FileInv, mishaps = 0 => Kept, [Next]_vars
    PROVE  mishaps' = 0 => Kept'
  <1>1. ASSUME NEW r, fail(r) \/ crash
        PROVE  mishaps' # 0
    BY <1>1 DEF fail, crash, FileInv, TypeOK
  <1>2. SUFFICES ASSUME mishaps' = 0, ~(\E r \in Requests : fail(r)), ~crash
                 PROVE  Kept'
    BY <1>1
  <1>3. ASSUME mishaps = 0, NEW r \in Requests, Arrive(r)
        PROVE  Kept'
    BY <1>3, ArriveShape, KeptStill DEF tables, FileInv
  <1>4. ASSUME mishaps = 0, NEW r \in Requests, Proceed(r)
        PROVE  Kept'
    BY <1>4, StoringKept, RemovingKept, InsertingKept, WithdrawingKept, WritingKept
       DEF Proceed
  <1>5. ASSUME mishaps = 0, rejectUpload \/ UNCHANGED vars
        PROVE  Kept'
    BY <1>5, KeptStill DEF rejectUpload, vars
  <1>6. mishaps' = mishaps
    <2>1. ASSUME NEW r \in Requests, Arrive(r) PROVE mishaps' = mishaps
      BY <2>1, ArriveShape DEF tables, FileInv
    <2>2. ASSUME NEW r \in Requests, Proceed(r) PROVE mishaps' = mishaps
      BY <2>2 DEF Proceed, putModel, copyModel, deleteModel, insertStory, writeNothing,
         updateStatus, updateFlag, updatePriority, insertComment, deleteStory, notify,
         record, tables
    <2> QED
      BY <1>2, <2>1, <2>2 DEF Next, rejectUpload, vars
  <1> QED
    BY <1>2, <1>3, <1>4, <1>5, <1>6 DEF Next

\* withdrawStory, requeueStory, openRequest: as long as nothing fails, every
\* file on the disk is some ticket's or some handler's still at work on it.
THEOREM NoFileIsLeaked == Spec => []FilesAccountedFor
  <1>1. Init => Kept
    BY DEF Init, Kept
  <1>2. FileInv /\ (mishaps = 0 => Kept) /\ [Next]_vars => (mishaps = 0 => Kept)'
    BY NextKept
  <1>3. (mishaps = 0 => Kept) => FilesAccountedFor
    BY DEF Kept, Keeper, FilesAccountedFor
  <1> QED
    BY <1>1, <1>2, <1>3, InitFile, NextFile, PTL DEF Spec

-----------------------------------------------------------------------------
\* Who fails.  A copy finds no source only if the ticket it is of has gone.

SourceIsStill ==
    \A r \in DOMAIN job : job[r].op = "requeue" /\ job[r].pc = "put" =>
        /\ job[r].id \in Ids /\ been[job[r].id] # {}
        /\ job[r].id \in DOMAIN story => story[job[r].id].key = job[r].src

LEMMA NextSource ==
    ASSUME FileInv, SourceIsStill, [Next]_vars
    PROVE  SourceIsStill'
  <1>1. ASSUME NEW r \in Requests, Arrive(r)
        PROVE  SourceIsStill'
    <2>1. /\ UNCHANGED tables /\ DOMAIN job' = DOMAIN job \cup {r}
          /\ \A q \in DOMAIN job : job'[q] = job[q]
          /\ FreshJob(job'[r]) \/ CheckedJob(job'[r])
      BY <1>1, ArriveShape DEF FileInv
    <2>2. CheckedJob(job'[r]) => job'[r].pc # "put"
      BY DEF CheckedJob
    <2>3. FreshJob(job'[r]) /\ job'[r].op = "requeue" =>
             /\ job'[r].id \in Ids /\ been[job'[r].id] # {}
             /\ story[job'[r].id].key = job'[r].src
      BY DEF FreshJob, FileInv, TypeOK, RowsHaveBeen
    <2> QED
      BY <2>1, <2>2, <2>3 DEF SourceIsStill, tables
  <1>2. ASSUME NEW r \in Requests, Proceed(r) \/ fail(r)
        PROVE  \A q \in DOMAIN job' : \/ q \in DOMAIN job /\ job'[q] = job[q]
                                      \/ job'[q].pc # "put"
    <2>1. TypeOK /\ r \in DOMAIN job
      BY <1>2 DEF FileInv, Proceed, putModel, copyModel, deleteModel, insertStory,
         writeNothing, updateStatus, updateFlag, updatePriority, insertComment,
         deleteStory, notify, record, fail, Writes, At
    <2>2. CASE End(r)
      BY <2>2 DEF End, Drop, Restrict
    <2>3. ASSUME NEW pc, pc # "put", GoTo(r, pc) \/ Committed(r, pc)
          PROVE  \A q \in DOMAIN job' : \/ q \in DOMAIN job /\ job'[q] = job[q]
                                        \/ job'[q].pc # "put"
      BY <2>1, <2>3, MovesAlone
    <2>4. AfterCommit(job[r]) # "put"
      BY DEF AfterCommit
    <2>5. CASE insertStory(r)
      <3>1. PICK i : job' = [job EXCEPT ![r] = [@ EXCEPT !.id = i, !.pc = AfterCommit(job[r])]]
        BY <2>5 DEF insertStory
      <3>2. [job[r] EXCEPT !.id = i, !.pc = AfterCommit(job[r])].pc = AfterCommit(job[r])
        BY <2>1 DEF TypeOK, Job
      <3> QED
        BY <2>1, <2>4, <3>1, <3>2
    <2>6. CASE putModel(r) \/ copyModel(r) \/ deleteModel(r) \/ writeNothing(r)
      BY <2>2, <2>3, <2>4, <2>6 DEF putModel, copyModel, deleteModel, writeNothing
    <2>7. CASE updateStatus(r) \/ updateFlag(r) \/ updatePriority(r) \/ insertComment(r)
               \/ deleteStory(r)
      BY <2>3, <2>4, <2>7 DEF updateStatus, updateFlag, updatePriority, insertComment,
         deleteStory
    <2>8. CASE notify(r) \/ record(r) \/ fail(r)
      BY <2>2, <2>3, <2>4, <2>8 DEF notify, record, fail
    <2> QED
      BY <1>2, <2>5, <2>6, <2>7, <2>8 DEF Proceed
  <1>3. ASSUME NEW r \in Requests, Proceed(r) \/ fail(r)
        PROVE  /\ \A i \in Ids : been[i] # {} => been'[i] # {}
               /\ \A i \in DOMAIN story' :
                     \/ i \in DOMAIN story /\ story'[i].key = story[i].key
                     \/ been[i] = {}
    <2>1. \A i \in DOMAIN story : story[i] \in Row /\ i \in Ids
      BY DEF FileInv, TypeOK
    <2>2. CASE insertStory(r)
      BY <2>2 DEF insertStory, FileInv, TypeOK, Put
    <2>3. CASE updateStatus(r)
      BY <2>1, <2>3 DEF updateStatus, FileInv, TypeOK, Row
    <2>4. CASE updateFlag(r)
      BY <2>1, <2>4 DEF updateFlag, Row
    <2>5. CASE updatePriority(r)
      BY <2>1, <2>5 DEF updatePriority, Row
    <2>6. CASE deleteStory(r)
      BY <2>6 DEF deleteStory, Drop, Restrict
    <2>7. CASE \/ putModel(r) \/ copyModel(r) \/ deleteModel(r) \/ writeNothing(r)
               \/ insertComment(r) \/ notify(r) \/ record(r) \/ fail(r)
      BY <2>7 DEF putModel, copyModel, deleteModel, writeNothing, insertComment, notify,
         record, fail, tables
    <2> QED
      BY <1>3, <2>2, <2>3, <2>4, <2>5, <2>6, <2>7 DEF Proceed
  <1>4. ASSUME NEW r \in Requests, Proceed(r) \/ fail(r)
        PROVE  SourceIsStill'
    BY <1>2, <1>3, <1>4 DEF SourceIsStill
  <1>5. CASE rejectUpload \/ crash \/ UNCHANGED vars
    BY <1>5 DEF rejectUpload, crash, vars, SourceIsStill, Nothing
  <1> QED
    BY <1>1, <1>4, <1>5 DEF Next

FailsForCause ==
    \A r \in DOMAIN job \ DOMAIN job' :
        job[r].pc = "record" \/ mishaps' > mishaps \/ job[r].id \notin DOMAIN story

LEMMA StepFailsForCause ==
    ASSUME FileInv, SourceIsStill, [Next]_vars
    PROVE  FailsForCause
  <1>1. ASSUME NEW r \in Requests, Arrive(r)
        PROVE  FailsForCause
    BY <1>1, ArriveShape DEF FileInv, FailsForCause
  <1>2. ASSUME NEW r, fail(r) \/ crash
        PROVE  FailsForCause
    BY <1>2 DEF fail, crash, FileInv, TypeOK, FailsForCause
  <1>3. ASSUME NEW r \in Requests, Proceed(r)
        PROVE  FailsForCause
    <2>1. CASE DOMAIN job' = DOMAIN job
      BY <2>1 DEF FailsForCause
    <2>2. CASE copyModel(r) /\ job[r].src \notin files /\ End(r)
      <3>1. job[r].op = "requeue" /\ job[r].pc = "put" /\ r \in DOMAIN job
        BY <2>2 DEF copyModel, At
      <3>2. job[r].id \notin DOMAIN story
        BY <2>2, <3>1 DEF SourceIsStill, FileInv, EveryTicketHasItsFile
      <3> QED
        BY <2>2, <3>2 DEF FailsForCause, End, Drop, Restrict
    <2>3. CASE writeNothing(r)
      BY <2>3 DEF writeNothing, RowThere, FailsForCause, End, Drop, Restrict
    <2>4. CASE notify(r) /\ End(r)
      <3>1. CASE About(job[r]) \in DOMAIN story \cup {None}
        BY <2>1, <2>4, <3>1 DEF notify, GoTo
      <3>2. CASE About(job[r]) \notin DOMAIN story \cup {None}
        <4>1. job[r].id \notin DOMAIN story
          BY <3>2 DEF About
        <4> QED
          BY <2>4, <4>1 DEF FailsForCause, End, Drop, Restrict
      <3> QED
        BY <3>1, <3>2
    <2>5. CASE record(r)
      BY <2>5 DEF record, At, FailsForCause, End, Drop, Restrict
    <2>6. ASSUME NEW pc, GoTo(r, pc) \/ Committed(r, pc)
          PROVE  DOMAIN job' = DOMAIN job
      BY <2>6 DEF GoTo, Committed
    <2>7. CASE putModel(r) \/ copyModel(r) \/ deleteModel(r)
      BY <2>1, <2>2, <2>6, <2>7 DEF putModel, copyModel, deleteModel
    <2>8. CASE updateStatus(r) \/ updateFlag(r) \/ updatePriority(r) \/ insertComment(r)
               \/ deleteStory(r)
      BY <2>1, <2>6, <2>8 DEF updateStatus, updateFlag, updatePriority, insertComment,
         deleteStory
    <2>9. CASE insertStory(r)
      BY <2>1, <2>9 DEF insertStory
    <2>10. CASE notify(r)
      BY <2>1, <2>4, <2>6, <2>10 DEF notify
    <2> QED
      BY <1>3, <2>3, <2>5, <2>7, <2>8, <2>9, <2>10 DEF Proceed
  <1>4. CASE rejectUpload \/ UNCHANGED vars
    BY <1>4 DEF rejectUpload, vars, FailsForCause
  <1> QED
    BY <1>1, <1>2, <1>3, <1>4 DEF Next

\* Every handler of stories.ts: a request is answered with an error only when
\* something failed by itself or its ticket was withdrawn under it.
THEOREM NobodyMakesMeFail == Spec => FailsOnlyIfWithdrawn
  <1>1. Init => SourceIsStill
    BY DEF Init, Nothing, SourceIsStill
  <1>2. FileInv /\ SourceIsStill /\ [Next]_vars => SourceIsStill'
    BY NextSource
  <1>3. FileInv /\ SourceIsStill /\ [Next]_vars =>
           [\A r \in DOMAIN job \ DOMAIN job' :
               \/ job[r].pc = "record"
               \/ mishaps' > mishaps
               \/ job[r].id \notin DOMAIN story]_vars
    BY StepFailsForCause DEF FailsForCause
  <1> QED
    BY <1>1, <1>2, <1>3, InitFile, NextFile, PTL DEF Spec, FailsOnlyIfWithdrawn

-----------------------------------------------------------------------------
\* Who is told.  Between the write of a status and its notice and trail row,
\* the handler that wrote it stands for them.

UploaderKnown ==
    \A q \in DOMAIN job : (job[q].op \in Moves /\ job[q].id \in DOMAIN story) =>
        job[q].row.uploader = story[job[q].id].uploader

Carries(j, i, s) == j.op \in Moves /\ j.id = i /\ j.row.status = s

Told(i, s) ==
    \/ \E n \in inbox : n.to = story[i].uploader /\ n.id = i /\ n.status = s
    \/ \E q \in DOMAIN job : Carries(job[q], i, s) /\ job[q].pc = "notify"

Recorded(i, s) ==
    \/ \E e \in trail : /\ e.id = i
                        /\ \/ e.op = "advance" /\ e.to = s
                           \/ e.op = "decline" /\ s = "Declined"
    \/ \E q \in DOMAIN job : Carries(job[q], i, s) /\ job[q].pc \in {"notify", "record"}

AllTold == \A i \in DOMAIN story : \A s \in been[i] \ {"Requested"} :
               Told(i, s) /\ Recorded(i, s)

LEMMA ProceedCounts ==
    ASSUME NEW r, Proceed(r)
    PROVE  mishaps' = mishaps
  BY DEF Proceed, putModel, copyModel, deleteModel, insertStory, writeNothing,
     updateStatus, updateFlag, updatePriority, insertComment, deleteStory, notify,
     record, tables

\* A step that moves no ticket and disturbs no handler with a move to report.
LEMMA TellKept ==
    ASSUME AllTold,
           \A i \in DOMAIN story' : \A s \in been'[i] \ {"Requested"} :
              i \in DOMAIN story /\ s \in been[i] /\ story'[i].uploader = story[i].uploader,
           \A n \in inbox : n.id \in DOMAIN story' => n \in inbox',
           trail \subseteq trail',
           \A q \in DOMAIN job :
              /\ job[q].op \in Moves
              /\ job[q].pc \in {"notify", "record"}
              /\ job[q].id \in DOMAIN story'
              => q \in DOMAIN job' /\ job'[q] = job[q]
    PROVE  AllTold'
  <1> SUFFICES ASSUME NEW i \in DOMAIN story', NEW s \in been'[i] \ {"Requested"}
               PROVE  Told(i, s)' /\ Recorded(i, s)'
    BY DEF AllTold
  <1>1. /\ i \in DOMAIN story /\ s \in been[i] /\ story'[i].uploader = story[i].uploader
        /\ Told(i, s) /\ Recorded(i, s)
    BY DEF AllTold
  <1>2. Told(i, s)'
    BY <1>1 DEF Told, Carries
  <1>3. Recorded(i, s)'
    BY <1>1 DEF Recorded, Carries
  <1> QED
    BY <1>2, <1>3

\* The rows' uploaders never change.
LEMMA SameUploader ==
    ASSUME TypeOK, NEW r, Proceed(r), NEW i \in DOMAIN story', i \in DOMAIN story, been[i] # {}
    PROVE  story'[i].uploader = story[i].uploader
  <1>1. \A k \in DOMAIN story : story[k] \in Row
    BY DEF TypeOK
  <1>2. CASE insertStory(r)
    BY <1>2 DEF insertStory, Put
  <1>3. CASE updateStatus(r)
    BY <1>1, <1>3 DEF updateStatus, Row
  <1>4. CASE updateFlag(r) \/ updatePriority(r)
    BY <1>1, <1>4 DEF updateFlag, updatePriority, Row
  <1>5. CASE deleteStory(r)
    BY <1>5 DEF deleteStory, Drop, Restrict
  <1>6. CASE \/ putModel(r) \/ copyModel(r) \/ deleteModel(r) \/ writeNothing(r)
             \/ insertComment(r) \/ notify(r) \/ record(r)
    BY <1>6 DEF putModel, copyModel, deleteModel, writeNothing, insertComment, notify,
       record, tables
  <1> QED
    BY <1>2, <1>3, <1>4, <1>5, <1>6 DEF Proceed

LEMMA SameTickets ==
    ASSUME NEW r, Proceed(r), NEW i \in DOMAIN story'
    PROVE  i \in DOMAIN story \/ been[i] = {}
  <1>1. CASE insertStory(r)
    BY <1>1 DEF insertStory, Put
  <1>2. CASE updateStatus(r) \/ updateFlag(r) \/ updatePriority(r)
    BY <1>2 DEF updateStatus, updateFlag, updatePriority
  <1>3. CASE deleteStory(r)
    BY <1>3 DEF deleteStory, Drop, Restrict
  <1>4. CASE \/ putModel(r) \/ copyModel(r) \/ deleteModel(r) \/ writeNothing(r)
             \/ insertComment(r) \/ notify(r) \/ record(r)
    BY <1>4 DEF putModel, copyModel, deleteModel, writeNothing, insertComment, notify,
       record, tables
  <1> QED
    BY <1>1, <1>2, <1>3, <1>4 DEF Proceed

\* A handler keeps what it is about, or has just opened a ticket.
LEMMA SameBusiness ==
    ASSUME TypeOK, NEW r, Proceed(r)
    PROVE  \A q \in DOMAIN job' :
              /\ q \in DOMAIN job
              /\ job'[q].op = job[q].op
              /\ job'[q].row = job[q].row
              /\ \/ job'[q].id = job[q].id
                 \/ q = r /\ job[q].pc = "insert"
  <1>1. r \in DOMAIN job /\ job \in [DOMAIN job -> Job]
    BY DEF TypeOK, Proceed, putModel, copyModel, deleteModel, insertStory, writeNothing,
       updateStatus, updateFlag, updatePriority, insertComment, deleteStory, notify,
       record, Writes, At
  <1>2. CASE End(r)
    BY <1>2 DEF End, Drop, Restrict
  <1>3. ASSUME NEW pc, GoTo(r, pc) \/ Committed(r, pc)
        PROVE  \A q \in DOMAIN job' : /\ q \in DOMAIN job
                                      /\ job'[q].op = job[q].op
                                      /\ job'[q].row = job[q].row
                                      /\ job'[q].id = job[q].id
    BY <1>1, <1>3, MovesAlone
  <1>4. CASE insertStory(r)
    <2>1. PICK i : job' = [job EXCEPT ![r] = [@ EXCEPT !.id = i, !.pc = AfterCommit(job[r])]]
      BY <1>4 DEF insertStory
    <2> DEFINE j == [job[r] EXCEPT !.id = i, !.pc = AfterCommit(job[r])]
    <2>2. j.op = job[r].op /\ j.row = job[r].row /\ job[r].pc = "insert"
      BY <1>1, <1>4 DEF Job, insertStory, At
    <2>3. job' = [job EXCEPT ![r] = j]
      BY <2>1
    <2> HIDE DEF j
    <2> QED
      BY <1>1, <2>2, <2>3
  <1>5. CASE ~insertStory(r)
    BY <1>2, <1>3, <1>5 DEF Proceed, putModel, copyModel, deleteModel, writeNothing,
       updateStatus, updateFlag, updatePriority, insertComment, deleteStory, notify, record
  <1> QED
    BY <1>4, <1>5

\* Where a handler with a move to report may be.
LEMMA MovesHaveTickets ==
    ASSUME HistoryInv, NEW q \in DOMAIN job, job[q].op \in Moves
    PROVE  /\ job[q].pc \in {"write", "notify", "record"}
           /\ job[q].id \in Ids /\ been[job[q].id] # {}
           /\ job[q].pc # "write" => job[q].row.status \in been[job[q].id]
  BY DEF HistoryInv, KnowsWhy, Moves, Creations, Opening, TypeOK, Job

LEMMA NextUploaderKnown ==
    ASSUME HistoryInv, UploaderKnown, [Next]_vars
    PROVE  UploaderKnown'
  <1>1. TypeOK
    BY DEF HistoryInv
  <1>2. ASSUME NEW r \in Requests, Arrive(r)
        PROVE  UploaderKnown'
    <2>1. /\ UNCHANGED story
          /\ DOMAIN job' = DOMAIN job \cup {r}
          /\ \A q \in DOMAIN job : job'[q] = job[q]
          /\ FreshJob(job'[r]) \/ CheckedJob(job'[r])
      BY <1>1, <1>2, ArriveShape DEF tables
    <2>2. job'[r].op \in Moves =>
             job'[r].id \in DOMAIN story /\ job'[r].row.uploader = story[job'[r].id].uploader
      BY <2>1 DEF FreshJob, CheckedJob, Moves, Creations
    <2> QED
      BY <2>1, <2>2 DEF UploaderKnown
  <1>3. ASSUME NEW r \in Requests, Proceed(r)
        PROVE  UploaderKnown'
    <2> SUFFICES ASSUME NEW q \in DOMAIN job', job'[q].op \in Moves,
                        job'[q].id \in DOMAIN story'
                 PROVE  job'[q].row.uploader = story'[job'[q].id].uploader
      BY DEF UploaderKnown
    <2>1. q \in DOMAIN job /\ job[q].op \in Moves /\ job'[q].row = job[q].row
      BY <1>1, <1>3, SameBusiness
    <2>2. job[q].pc # "insert" /\ been[job[q].id] # {}
      BY <2>1, MovesHaveTickets
    <2>3. job'[q].id = job[q].id
      BY <1>1, <1>3, <2>2, SameBusiness
    <2>4. job[q].id \in DOMAIN story
      <3>1. ASSUME NEW i \in DOMAIN story' PROVE i \in DOMAIN story \/ been[i] = {}
        BY <1>3, SameTickets
      <3> QED
        BY <2>2, <2>3, <3>1
    <2> QED
      BY <1>1, <1>3, <2>1, <2>2, <2>3, <2>4, SameUploader DEF UploaderKnown
  <1>4. ASSUME NEW r, fail(r) \/ crash
        PROVE  UploaderKnown'
    <2>1. UNCHANGED story
      BY <1>4 DEF fail, crash
    <2>2. \A q \in DOMAIN job' : /\ q \in DOMAIN job
                                 /\ job'[q].op = job[q].op
                                 /\ job'[q].row = job[q].row
                                 /\ job'[q].id = job[q].id
      <3>1. CASE crash
        BY <3>1 DEF crash, Nothing
      <3>2. CASE fail(r) /\ End(r)
        BY <3>2 DEF End, Drop, Restrict
      <3>3. ASSUME fail(r), NEW pc, GoTo(r, pc)
            PROVE  \A q \in DOMAIN job' : /\ q \in DOMAIN job
                                          /\ job'[q].op = job[q].op
                                          /\ job'[q].row = job[q].row
                                          /\ job'[q].id = job[q].id
        BY <1>1, <3>3, MovesAlone DEF fail
      <3> QED
        BY <1>4, <3>1, <3>2, <3>3 DEF fail
    <2> QED
      BY <2>1, <2>2 DEF UploaderKnown
  <1>5. CASE rejectUpload \/ UNCHANGED vars
    BY <1>5 DEF rejectUpload, vars, UploaderKnown
  <1> QED
    BY <1>2, <1>3, <1>4, <1>5 DEF Next

\* updateStatus: the handler now stands for the status it wrote.
LEMMA MovingTells ==
    ASSUME HistoryInv, UploaderKnown, AllTold, NEW r, updateStatus(r)
    PROVE  AllTold'
  <1> DEFINE i == job[r].id
             s == job[r].row.status
  <1>1. /\ r \in DOMAIN job /\ job[r].op \in Moves /\ i \in DOMAIN story /\ TypeOK
        /\ UNCHANGED <<inbox, trail>> /\ job[r].pc = "write"
    BY DEF updateStatus, Writes, At, RowThere, HistoryInv
  <1>2. AfterCommit(job[r]) = "notify"
    BY <1>1 DEF AfterCommit, Tells, OwnerOps, Moves
  <1>3. /\ DOMAIN job' = DOMAIN job /\ \A q \in DOMAIN job \ {r} : job'[q] = job[q]
        /\ job'[r].pc = "notify" /\ Carries(job'[r], i, s)
    BY <1>1, <1>2, MovesAlone DEF updateStatus, Carries
  <1>4. /\ DOMAIN story' = DOMAIN story
        /\ \A k \in DOMAIN story : story'[k].uploader = story[k].uploader
    <2>1. story' = [story EXCEPT ![i].status = s]
      BY DEF updateStatus
    <2>2. \A k \in DOMAIN story : story[k] \in Row
      BY <1>1 DEF TypeOK
    <2> QED
      BY <2>1, <2>2 DEF Row
  <1>5. /\ been'[i] = been[i] \cup {s}
        /\ \A k \in DOMAIN story \ {i} : been'[k] = been[k]
    BY <1>1 DEF updateStatus, TypeOK
  <1> SUFFICES ASSUME NEW k \in DOMAIN story', NEW t \in been'[k] \ {"Requested"}
               PROVE  Told(k, t)' /\ Recorded(k, t)'
    BY DEF AllTold
  <1>6. CASE k = i /\ t = s
    BY <1>1, <1>3, <1>6 DEF Told, Recorded
  <1>7. CASE ~(k = i /\ t = s)
    <2>1. k \in DOMAIN story /\ t \in been[k] \ {"Requested"}
      BY <1>4, <1>5, <1>7
    <2>2. Told(k, t) /\ Recorded(k, t)
      BY <2>1 DEF AllTold
    <2> QED
      BY <1>1, <1>3, <1>4, <2>1, <2>2 DEF Told, Recorded
  <1> QED
    BY <1>6, <1>7

\* notify: the notice takes the handler's place.
LEMMA NotifyingTells ==
    ASSUME HistoryInv, UploaderKnown, AllTold, NEW r, notify(r),
           job[r].op \in Moves, job[r].id \in DOMAIN story
    PROVE  AllTold'
  <1> DEFINE i == job[r].id
             s == job[r].row.status
  <1>1. /\ r \in DOMAIN job /\ TypeOK
        /\ UNCHANGED <<story, been, trail>>
    BY DEF notify, At, HistoryInv
  <1>2. About(job[r]) = i /\ StatusTold(job[r]) = s /\ Recipient(job[r]) = story[i].uploader
    BY <1>1 DEF About, StatusTold, Recipient, OwnerOps, Moves, UploaderKnown
  <1>3. /\ inbox' = inbox \cup {[to |-> story[i].uploader, id |-> i,
                                 op |-> job[r].op, status |-> s]}
        /\ GoTo(r, "record")
    BY <1>2 DEF notify
  <1>4. /\ DOMAIN job' = DOMAIN job /\ \A q \in DOMAIN job \ {r} : job'[q] = job[q]
        /\ job'[r].pc = "record" /\ job'[r].op = job[r].op
        /\ job'[r].id = job[r].id /\ job'[r].row = job[r].row
    BY <1>1, <1>3, MovesAlone
  <1> SUFFICES ASSUME NEW k \in DOMAIN story, NEW t \in been[k] \ {"Requested"}
               PROVE  Told(k, t)' /\ Recorded(k, t)'
    BY <1>1 DEF AllTold
  <1>5. Told(k, t) /\ Recorded(k, t)
    BY DEF AllTold
  <1>6. Recorded(k, t)'
    BY <1>1, <1>4, <1>5 DEF Recorded, Carries
  <1>7. Told(k, t)'
    <2>1. CASE k = i /\ t = s
      <3> DEFINE n == [to |-> story[i].uploader, id |-> i, op |-> job[r].op, status |-> s]
      <3>1. n \in inbox' /\ n.to = story'[k].uploader /\ n.id = k /\ n.status = t
        BY <1>1, <1>3, <2>1
      <3> QED
        BY <3>1 DEF Told
    <2>2. CASE ~(k = i /\ t = s)
      BY <1>1, <1>3, <1>4, <1>5, <2>2 DEF Told, Carries
    <2> QED
      BY <2>1, <2>2
  <1> QED
    BY <1>6, <1>7

\* record: the trail's row takes the handler's place.
LEMMA RecordingTells ==
    ASSUME HistoryInv, AllTold, NEW r, record(r)
    PROVE  AllTold'
  <1> DEFINE j == job[r]
             c == ClaimOf(job[r])
  <1>1. /\ r \in DOMAIN job /\ TypeOK /\ j.pc = "record" /\ MovesOn(j)
        /\ UNCHANGED <<story, been, inbox>>
        /\ trail' = trail \cup {c}
    BY DEF record, At, HistoryInv, KnowsWhy
  <1>2. DOMAIN job' = DOMAIN job \ {r} /\ \A q \in DOMAIN job \ {r} : job'[q] = job[q]
    BY DEF record, End, Drop, Restrict
  <1>3. c.id = j.id /\ c.op = j.op /\ (j.op = "advance" => c.to = j.row.status)
    BY DEF ClaimOf
  <1> SUFFICES ASSUME NEW k \in DOMAIN story, NEW t \in been[k] \ {"Requested"}
               PROVE  Told(k, t)' /\ Recorded(k, t)'
    BY <1>1 DEF AllTold
  <1>4. Told(k, t) /\ Recorded(k, t)
    BY DEF AllTold
  <1>5. Told(k, t)'
    BY <1>1, <1>2, <1>4 DEF Told
  <1>6. Recorded(k, t)'
    <2>1. CASE Carries(j, k, t)
      <3>1. c.id = k /\ (\/ c.op = "advance" /\ c.to = t
                         \/ c.op = "decline" /\ t = "Declined")
        BY <1>1, <1>3, <2>1 DEF Carries, Moves, MovesOn
      <3> QED
        BY <1>1, <3>1 DEF Recorded
    <2>2. CASE ~Carries(j, k, t)
      BY <1>1, <1>2, <1>4, <2>2 DEF Recorded
    <2> QED
      BY <2>1, <2>2
  <1> QED
    BY <1>5, <1>6

LEMMA OpeningTells ==
    ASSUME HistoryInv, AllTold, NEW r, insertStory(r)
    PROVE  AllTold'
  <1>1. r \in DOMAIN job /\ job[r].pc = "insert" /\ UNCHANGED <<inbox, trail>> /\ TypeOK
    BY DEF insertStory, At, HistoryInv
  <1>2. PICK i \in Ids :
          /\ been[i] = {} /\ story' = Put(story, i, job[r].row)
          /\ been' = [been EXCEPT ![i] = {"Requested"}]
          /\ job' = [job EXCEPT ![r] = [@ EXCEPT !.id = i, !.pc = AfterCommit(job[r])]]
    BY DEF insertStory
  <1>3. \A k \in DOMAIN story' : \A s \in been'[k] \ {"Requested"} :
           k \in DOMAIN story /\ s \in been[k] /\ story'[k].uploader = story[k].uploader
    BY <1>1, <1>2 DEF Put, TypeOK
  <1>4. \A q \in DOMAIN job : job[q].pc \in {"notify", "record"} =>
           q \in DOMAIN job' /\ job'[q] = job[q]
    BY <1>1, <1>2
  <1> QED
    BY <1>1, <1>3, <1>4, TellKept

LEMMA WithdrawingTells ==
    ASSUME HistoryInv, AllTold, NEW r, deleteStory(r)
    PROVE  AllTold'
  <1>1. /\ r \in DOMAIN job /\ job[r].pc = "write" /\ TypeOK /\ UNCHANGED <<trail, been>>
        /\ inbox' = {n \in inbox : n.id # job[r].id}
    BY DEF deleteStory, Writes, At, HistoryInv
  <1>2. /\ DOMAIN story' = DOMAIN story \ {job[r].id}
        /\ \A i \in DOMAIN story' : story'[i] = story[i]
    BY DEF deleteStory, Drop, Restrict
  <1>3. DOMAIN job' = DOMAIN job /\ \A q \in DOMAIN job \ {r} : job'[q] = job[q]
    BY <1>1, MovesAlone DEF deleteStory
  <1> QED
    BY <1>1, <1>2, <1>3, TellKept

\* Everything else a handler does.
LEMMA WorkingTells ==
    ASSUME HistoryInv, AllTold, NEW r,
           \/ putModel(r) \/ copyModel(r) \/ deleteModel(r) \/ writeNothing(r)
           \/ updateFlag(r) \/ updatePriority(r) \/ insertComment(r)
           \/ notify(r) /\ ~(job[r].op \in Moves /\ job[r].id \in DOMAIN story)
    PROVE  AllTold'
  <1>1. r \in DOMAIN job /\ TypeOK
    BY DEF HistoryInv, putModel, copyModel, deleteModel, writeNothing, updateFlag,
       updatePriority, insertComment, notify, Writes, At
  <1>2. /\ UNCHANGED <<trail, been>> /\ inbox \subseteq inbox'
        /\ DOMAIN story' = DOMAIN story
    BY DEF putModel, copyModel, deleteModel, writeNothing, updateFlag, updatePriority,
       insertComment, notify, tables
  <1>3. \A i \in DOMAIN story : story'[i].uploader = story[i].uploader
    <2>1. \A i \in DOMAIN story : story[i] \in Row
      BY <1>1 DEF TypeOK
    <2>2. CASE updateFlag(r)
      BY <2>1, <2>2 DEF updateFlag, Row
    <2>3. CASE updatePriority(r)
      BY <2>1, <2>3 DEF updatePriority, Row
    <2>4. CASE UNCHANGED story
      BY <2>4
    <2> QED
      BY <2>2, <2>3, <2>4 DEF putModel, copyModel, deleteModel, writeNothing,
         insertComment, notify, tables
  <1>4. \/ job[r].pc \notin {"notify", "record"}
        \/ ~(job[r].op \in Moves /\ job[r].id \in DOMAIN story)
    BY DEF putModel, copyModel, deleteModel, writeNothing, updateFlag, updatePriority,
       insertComment, notify, Writes, At
  <1>5. \A q \in DOMAIN job \ {r} : q \in DOMAIN job' /\ job'[q] = job[q]
    BY DEF putModel, copyModel, deleteModel, writeNothing, updateFlag, updatePriority,
       insertComment, notify, GoTo, End, Drop, Restrict
  <1> QED
    BY <1>1, <1>2, <1>3, <1>4, <1>5, TellKept

LEMMA NextTold ==
    ASSUME HistoryInv, UploaderKnown, mishaps = 0 => AllTold, [Next]_vars
    PROVE  mishaps' = 0 => AllTold'
  <1>1. ASSUME NEW r, fail(r) \/ crash
        PROVE  mishaps' # 0
    BY <1>1 DEF fail, crash, HistoryInv, TypeOK
  <1>2. ASSUME NEW r \in Requests, Arrive(r)
        PROVE  mishaps' = mishaps /\ (AllTold => AllTold')
    <2>1. /\ UNCHANGED tables
          /\ \A q \in DOMAIN job : q \in DOMAIN job' /\ job'[q] = job[q]
      BY <1>2, ArriveShape DEF HistoryInv
    <2> QED
      BY <2>1, TellKept DEF tables
  <1>3. ASSUME NEW r \in Requests, Proceed(r)
        PROVE  mishaps' = mishaps /\ (AllTold => AllTold')
    BY <1>3, ProceedCounts, MovingTells, NotifyingTells, RecordingTells, OpeningTells,
       WithdrawingTells, WorkingTells DEF Proceed
  <1>4. CASE rejectUpload
    <2>1. trail \subseteq trail' /\ UNCHANGED <<story, inbox, job, been, mishaps>>
      BY <1>4 DEF rejectUpload
    <2> QED
      BY <2>1, TellKept
  <1>5. CASE UNCHANGED vars
    BY <1>5, TellKept DEF vars
  <1> QED
    BY <1>1, <1>2, <1>3, <1>4, <1>5 DEF Next

\* stories.ts, rule 3: as long as nothing has failed, each status a ticket was
\* moved to has its notice in the uploader's inbox and its row in the trail
\* once nothing is in flight on the ticket.
THEOREM EveryMoveIsTold == Spec => []EveryMoveIsToldAndRecorded
  <1>1. Init => UploaderKnown /\ AllTold
    BY DEF Init, Nothing, UploaderKnown, AllTold
  <1>2. HistoryInv /\ UploaderKnown /\ (mishaps = 0 => AllTold) /\ [Next]_vars
           => (mishaps = 0 => AllTold)'
    BY NextTold
  <1>3. (mishaps = 0 => AllTold) => EveryMoveIsToldAndRecorded
    BY DEF AllTold, Told, Recorded, Carries, EveryMoveIsToldAndRecorded, InFlight
  <1>4. HistoryInv /\ UploaderKnown /\ [Next]_vars => UploaderKnown'
    BY NextUploaderKnown
  <1> QED
    BY <1>1, <1>2, <1>3, <1>4, InitHistory, NextHistory, PTL DEF Spec

-----------------------------------------------------------------------------
\* One request at a time on a ticket.  A handler about to write then still
\* finds what it read, and the handlers implement TicketLifecycle.

Alone == \A q, r \in DOMAIN job : job[q].id # None /\ job[q].id = job[r].id => q = r

\* What the checks of each operation left behind.
Checked(j) ==
    /\ j.op = "decline" => j.seen = "Requested"
    /\ j.op = "withdraw" => j.seen \in Withdrawable
    /\ j.op = "priority" => ~isTerminal(j.seen)

UpToDate(j) ==
    /\ j.pc = "write" =>
          j.id \in DOMAIN story /\ story[j.id].status = j.seen /\ Checked(j)
    /\ j.pc \in Opening => j.id = None \/ (j.id \in Ids /\ been[j.id] # {})

Serial == Alone /\ \A r \in DOMAIN job : UpToDate(job[r])

LEMMA ArriveChecks ==
    ASSUME HistoryInv, ~Overlap, NEW r \in Requests, Arrive(r)
    PROVE  /\ \A q \in DOMAIN job : job'[r].id # None => job[q].id # job'[r].id
           /\ UpToDate(job[r])'
  <1> DEFINE Fine == /\ \A q \in DOMAIN job : job'[r].id # None => job[q].id # job'[r].id
                     /\ job'[r].pc = "write" =>
                           /\ job'[r].id \in DOMAIN story
                           /\ story[job'[r].id].status = job'[r].seen
                           /\ Checked(job'[r])
                     /\ job'[r].pc = "put" => job'[r].id \in DOMAIN story \cup {None}
                     /\ job'[r].pc \in {"write", "put"}
  <1>a. \A i \in DOMAIN story : i # None /\ i \in Ids /\ been[i] # {}
    BY TicketsAssumption DEF HistoryInv, TypeOK, None, StatusesHaveBeen
  <1>1. ASSUME NEW i \in Ids, advanceStory(r, i) PROVE Fine
    BY <1>1, <1>a DEF advanceStory, Asked, Undisturbed, Begin, Put, Checked
  <1>2. ASSUME NEW i \in Ids, declineStory(r, i) PROVE Fine
    BY <1>2, <1>a DEF declineStory, assertTransition, Asked, Undisturbed, Begin, Put, Checked
  <1>3. ASSUME NEW i \in Ids, flagStory(r, i) \/ clearFlag(r, i) PROVE Fine
    BY <1>3, <1>a DEF flagStory, clearFlag, Asked, Undisturbed, Begin, Put, Checked
  <1>4. ASSUME NEW i \in Ids, NEW a \in People, withdrawStory(r, a, i) \/ addComment(r, a, i)
        PROVE  Fine
    BY <1>4, <1>a DEF withdrawStory, addComment, Asked, Undisturbed, Begin, Put, Checked
  <1>5. ASSUME NEW i \in Ids, NEW a \in People, NEW p \in Priorities,
               changeStoryPriority(r, a, i, p)
        PROVE  Fine
    BY <1>5, <1>a DEF changeStoryPriority, Asked, Undisturbed, Begin, Put, Checked
  <1>6. ASSUME NEW i \in Ids, NEW a \in People, NEW p \in Priorities,
               requeueStory(r, a, i, p)
        PROVE  Fine
    BY <1>6, <1>a DEF requeueStory, Asked, Undisturbed, Begin, Put
  <1>7. ASSUME NEW a \in People, NEW p \in Priorities, openRequest(r, a, p)
        PROVE  Fine
    BY <1>7 DEF openRequest, Begin, Put
  <1>8. Fine
    BY <1>1, <1>2, <1>3, <1>4, <1>5, <1>6, <1>7 DEF Arrive
  <1>9. UNCHANGED <<story, been>>
    BY ArriveShape DEF tables, HistoryInv
  <1> QED
    BY <1>8, <1>9, <1>a DEF UpToDate, Opening, Checked

LEMMA ArriveSerial ==
    ASSUME HistoryInv, ~Overlap, Serial, NEW r \in Requests, Arrive(r)
    PROVE  Serial'
  <1>1. /\ UNCHANGED <<story, been>>
        /\ DOMAIN job' = DOMAIN job \cup {r}
        /\ \A q \in DOMAIN job : job'[q] = job[q]
    BY ArriveShape DEF tables, HistoryInv
  <1>2. \A q \in DOMAIN job : UpToDate(job[q])'
    BY <1>1 DEF Serial, UpToDate, Checked
  <1>3. Alone'
    BY <1>1, ArriveChecks DEF Serial, Alone
  <1> QED
    BY <1>1, <1>2, <1>3, ArriveChecks DEF Serial

\* A step that takes no handler on to another ticket.
LEMMA SerialKept ==
    ASSUME Serial,
           \A i \in Ids : been[i] # {} => been'[i] # {},
           \A q \in DOMAIN job' : q \in DOMAIN job /\ job'[q].id = job[q].id,
           \A q \in DOMAIN job' :
              \/ UpToDate(job[q])'
              \/ /\ job'[q] = job[q]
                 /\ job[q].pc = "write" /\ job[q].id \in DOMAIN story =>
                       /\ job[q].id \in DOMAIN story'
                       /\ story'[job[q].id].status = story[job[q].id].status
    PROVE  Serial'
  <1>1. Alone'
    BY DEF Serial, Alone
  <1>2. ASSUME NEW q \in DOMAIN job', job'[q] = job[q],
               job[q].pc = "write" /\ job[q].id \in DOMAIN story =>
                  /\ job[q].id \in DOMAIN story'
                  /\ story'[job[q].id].status = story[job[q].id].status
        PROVE  UpToDate(job[q])'
    BY <1>2 DEF Serial, UpToDate, Checked
  <1> QED
    BY <1>1, <1>2 DEF Serial

\* A handler moves on from a step that changed no status.
LEMMA AlongSerial ==
    ASSUME HistoryInv, Serial, NEW r \in DOMAIN job, UNCHANGED been,
           DOMAIN story' = DOMAIN story,
           \A i \in DOMAIN story : story'[i].status = story[i].status,
           \/ End(r)
           \/ \E pc \in {"notify", "record"} :
                 /\ GoTo(r, pc)
                 /\ \/ job[r].pc \in {"unlink", "notify"}
                    \/ job[r].pc = "write" /\ job[r].op \notin Moves \cup {"withdraw"}
           \/ job[r].pc = "put" /\ GoTo(r, "insert")
    PROVE  Serial'
  <1>1. TypeOK /\ UpToDate(job[r])
    BY DEF HistoryInv, Serial
  <1>2. CASE End(r)
    <2>1. \A q \in DOMAIN job' : q \in DOMAIN job /\ job'[q] = job[q]
      BY <1>2 DEF End, Drop, Restrict
    <2> QED
      BY <2>1, SerialKept
  <1>3. ASSUME NEW pc \in {"notify", "record", "insert"}, GoTo(r, pc),
               \/ pc # "insert" /\ job[r].pc \in {"unlink", "notify"}
               \/ pc # "insert" /\ job[r].pc = "write"
                     /\ job[r].op \notin Moves \cup {"withdraw"}
               \/ pc = "insert" /\ job[r].pc = "put"
        PROVE  Serial'
    <2>1. /\ DOMAIN job' = DOMAIN job
          /\ \A q \in DOMAIN job \ {r} : job'[q] = job[q]
          /\ job'[r].pc = pc /\ job'[r].op = job[r].op /\ job'[r].id = job[r].id
          /\ job'[r].seen = job[r].seen
      BY <1>1, <1>3, MovesAlone
    <2>2. UpToDate(job[r])'
      BY <1>1, <1>3, <2>1 DEF UpToDate, Opening, Moves
    <2> QED
      BY <2>1, <2>2, SerialKept
  <1> QED
    BY <1>2, <1>3

\* A handler's own write leaves every other ticket, and so every other handler.
LEMMA CommitSerial ==
    ASSUME HistoryInv, Serial, NEW r, updateStatus(r) \/ deleteStory(r)
    PROVE  Serial'
  <1> DEFINE i == job[r].id
  <1>1. /\ TypeOK /\ r \in DOMAIN job /\ job[r].pc = "write" /\ UpToDate(job[r])
        /\ i \in DOMAIN story /\ i # None
    BY TicketsAssumption DEF HistoryInv, Serial, updateStatus, deleteStory, Writes, At,
       RowThere, TypeOK, None
  <1>2. PICK pc \in {"notify", "record", "unlink"} : Committed(r, pc)
    BY DEF updateStatus, deleteStory, AfterCommit
  <1>3. /\ DOMAIN job' = DOMAIN job
        /\ \A q \in DOMAIN job \ {r} : job'[q] = job[q]
        /\ job'[r].pc = pc /\ job'[r].op = job[r].op /\ job'[r].id = job[r].id
        /\ job'[r].seen = job[r].seen
    BY <1>1, <1>2, MovesAlone
  <1>4. UpToDate(job[r])'
    BY <1>3 DEF UpToDate, Opening
  <1>5. \A q \in DOMAIN job \ {r} : job[q].id # i
    BY <1>1 DEF Serial, Alone
  <1>6. /\ \A k \in DOMAIN story \ {i} : k \in DOMAIN story' /\ story'[k] = story[k]
        /\ \A k \in Ids : been[k] # {} => been'[k] # {}
    BY <1>1 DEF updateStatus, deleteStory, Drop, Restrict, TypeOK
  <1> QED
    BY <1>3, <1>4, <1>5, <1>6, SerialKept

\* The new ticket is nobody's business yet.
LEMMA InsertSerial ==
    ASSUME HistoryInv, Serial, NEW r, insertStory(r)
    PROVE  Serial'
  <1>1. /\ TypeOK /\ r \in DOMAIN job /\ job[r].pc = "insert" /\ KnowsWhy(job[r])
    BY DEF HistoryInv, insertStory, At
  <1>2. PICK i \in Ids :
          /\ been[i] = {}
          /\ story' = Put(story, i, job[r].row)
          /\ been' = [been EXCEPT ![i] = {"Requested"}]
          /\ job' = [job EXCEPT ![r] = [@ EXCEPT !.id = i, !.pc = AfterCommit(job[r])]]
    BY DEF insertStory
  <1>3. /\ DOMAIN job' = DOMAIN job
        /\ \A q \in DOMAIN job \ {r} : job'[q] = job[q]
        /\ job'[r].pc \in {"notify", "record"} /\ job'[r].op = job[r].op
        /\ job'[r].id = i
    <2> DEFINE j == [job[r] EXCEPT !.id = i, !.pc = AfterCommit(job[r])]
    <2>1. j.pc \in {"notify", "record"} /\ j.op = job[r].op /\ j.id = i
      BY <1>1 DEF AfterCommit, TypeOK, Job
    <2>2. job' = [job EXCEPT ![r] = j]
      BY <1>2
    <2> HIDE DEF j
    <2> QED
      BY <1>1, <2>1, <2>2
  <1>4. \A q \in DOMAIN job \ {r} :
           job[q].id = None \/ (job[q].id \in Ids /\ been[job[q].id] # {})
    <2> SUFFICES ASSUME NEW q \in DOMAIN job
                 PROVE  job[q].id = None \/ (job[q].id \in Ids /\ been[job[q].id] # {})
      OBVIOUS
    <2>1. UpToDate(job[q]) /\ KnowsWhy(job[q]) /\ job[q] \in Job
      BY DEF Serial, HistoryInv, TypeOK
    <2> QED
      BY <2>1 DEF UpToDate, KnowsWhy, Opening, Job
  <1>5. i # None
    BY TicketsAssumption DEF None
  <1>6. Alone'
    BY <1>2, <1>3, <1>4, <1>5 DEF Serial, Alone
  <1>7. UpToDate(job[r])'
    BY <1>1, <1>3 DEF UpToDate, Opening, KnowsWhy, Creations
  <1>8. ASSUME NEW q \in DOMAIN job \ {r} PROVE UpToDate(job[q])'
    <2>1. /\ \A k \in Ids : been[k] # {} => been'[k] # {}
          /\ \A k \in DOMAIN story \ {i} : k \in DOMAIN story' /\ story'[k] = story[k]
      BY <1>1, <1>2 DEF Put, TypeOK
    <2>2. UpToDate(job[q]) /\ job'[q] = job[q] /\ job[q].id # i
      BY <1>2, <1>3, <1>4, <1>5 DEF Serial
    <2> QED
      BY <2>1, <2>2 DEF UpToDate, Checked
  <1> QED
    BY <1>3, <1>6, <1>7, <1>8 DEF Serial

LEMMA NextSerial ==
    ASSUME HistoryInv, ~Overlap, Serial, [Next]_vars
    PROVE  Serial'
  <1>1. TypeOK
    BY DEF HistoryInv
  <1>2. ASSUME NEW r \in Requests,
               \/ putModel(r) \/ copyModel(r) \/ deleteModel(r) \/ writeNothing(r)
               \/ updateFlag(r) \/ updatePriority(r) \/ insertComment(r) \/ notify(r)
               \/ record(r) \/ fail(r)
        PROVE  Serial'
    <2>1. r \in DOMAIN job /\ UNCHANGED been
      BY <1>2 DEF putModel, copyModel, deleteModel, writeNothing, updateFlag,
                  updatePriority, insertComment, notify, record, fail, Writes, At, tables
    <2>2. /\ DOMAIN story' = DOMAIN story
          /\ \A i \in DOMAIN story : story'[i].status = story[i].status
      BY <1>1, <1>2 DEF putModel, copyModel, deleteModel, writeNothing, updateFlag,
                  updatePriority, insertComment, notify, record, fail, tables, TypeOK, Row
    <2>3. \/ End(r)
          \/ \E pc \in {"notify", "record"} :
                /\ GoTo(r, pc)
                /\ \/ job[r].pc \in {"unlink", "notify"}
                   \/ job[r].pc = "write" /\ job[r].op \notin Moves \cup {"withdraw"}
          \/ job[r].pc = "put" /\ GoTo(r, "insert")
      BY <1>2 DEF putModel, copyModel, deleteModel, writeNothing, updateFlag,
                  updatePriority, insertComment, notify, record, fail, Writes, At,
                  AfterCommit, Moves
    <2> QED
      BY <2>1, <2>2, <2>3, AlongSerial
  <1>3. ASSUME NEW r \in Requests, Proceed(r)
        PROVE  Serial'
    BY <1>2, <1>3, CommitSerial, InsertSerial DEF Proceed
  <1>4. CASE crash
    BY <1>4 DEF crash, Nothing, Serial, Alone
  <1>5. CASE rejectUpload \/ UNCHANGED vars
    <2>1. UNCHANGED <<story, been, job>>
      BY <1>5 DEF rejectUpload, vars
    <2> QED
      BY <2>1, SerialKept
  <1> QED
    BY <1>2, <1>3, <1>4, <1>5, ArriveSerial DEF Next

-----------------------------------------------------------------------------
\* The refinement: each step is one of TicketLifecycle, or none.

LEMMA FlowSteps ==
    ASSUME NEW s \in DOMAIN nextStatus
    PROVE  \E k \in 1 .. Len(Lifecycle!FLOW) - 1 :
              Lifecycle!FLOW[k] = s /\ Lifecycle!FLOW[k + 1] = nextStatus[s]
  <1>1. Len(Lifecycle!FLOW) = 5
    BY DEF Lifecycle!FLOW
  <1>2. CASE s = "Requested"
    <2>1. Lifecycle!FLOW[1] = s /\ Lifecycle!FLOW[1 + 1] = nextStatus[s]
      BY <1>2 DEF Lifecycle!FLOW, nextStatus
    <2> QED
      BY <1>1, <2>1
  <1>3. CASE s = "Accepted"
    <2>1. Lifecycle!FLOW[2] = s /\ Lifecycle!FLOW[2 + 1] = nextStatus[s]
      BY <1>3 DEF Lifecycle!FLOW, nextStatus
    <2> QED
      BY <1>1, <2>1
  <1>4. CASE s = "Printing"
    <2>1. Lifecycle!FLOW[3] = s /\ Lifecycle!FLOW[3 + 1] = nextStatus[s]
      BY <1>4 DEF Lifecycle!FLOW, nextStatus
    <2> QED
      BY <1>1, <2>1
  <1>5. CASE s = "Delivery"
    <2>1. Lifecycle!FLOW[4] = s /\ Lifecycle!FLOW[4 + 1] = nextStatus[s]
      BY <1>5 DEF Lifecycle!FLOW, nextStatus
    <2> QED
      BY <1>1, <2>1
  <1> QED
    BY <1>2, <1>3, <1>4, <1>5 DEF nextStatus

LEMMA MoveImplements ==
    ASSUME HistoryInv, Serial, NEW r, updateStatus(r)
    PROVE  Lifecycle!LNext
  <1>1. /\ TypeOK /\ r \in DOMAIN job /\ job[r].pc = "write" /\ job[r].op \in Moves
        /\ UpToDate(job[r]) /\ MovesOn(job[r])
        /\ job[r].id \in DOMAIN story /\ job[r].id \in Ids
    BY DEF HistoryInv, Serial, updateStatus, Writes, At, RowThere, TypeOK, KnowsWhy
  <1>2. PICK i \in Ids, j \in Job : i = job[r].id /\ j = job[r]
    BY <1>1 DEF TypeOK
  <1>3. story' = [story EXCEPT ![i].status = j.row.status]
    BY <1>2 DEF updateStatus
  <1>4. /\ i \in DOMAIN story /\ DOMAIN story' = DOMAIN story
        /\ story'[i].status = j.row.status /\ story'[i].priority = story[i].priority
        /\ \A k \in DOMAIN story \ {i} : story'[k] = story[k]
    BY <1>1, <1>2, <1>3 DEF TypeOK, Row
  <1>5. \A k \in Ids \ {i} : been'[k] = been[k]
    BY <1>1, <1>2 DEF updateStatus, TypeOK
  <1>6. StateOf(i) = j.seen
    BY <1>1, <1>2, <1>4 DEF StateOf, UpToDate
  <1>7. StateOf(i)' = j.row.status
    BY <1>4 DEF StateOf
  <1>8. \A k \in Ids \ {i} : StateOf(k)' = StateOf(k)
    BY <1>4, <1>5 DEF StateOf
  <1>9. \A k \in Ids : PriorityOf(k)' = PriorityOf(k)
    BY <1>4 DEF PriorityOf
  <1>10. CASE j.op = "advance"
    <2>1. j.seen \in DOMAIN nextStatus /\ j.row.status = nextStatus[j.seen]
      BY <1>1, <1>2, <1>10 DEF MovesOn
    <2>2. PICK k \in 1 .. Len(Lifecycle!FLOW) - 1 :
             Lifecycle!FLOW[k] = j.seen /\ Lifecycle!FLOW[k + 1] = j.row.status
      BY <2>1, FlowSteps
    <2>3. Lifecycle!StepForward(i)
      BY <1>6, <1>7, <1>8, <1>9, <2>2 DEF Lifecycle!StepForward
    <2> QED
      BY <2>3 DEF Lifecycle!LNext
  <1>11. CASE j.op = "decline"
    <2>1. j.seen = "Requested" /\ j.row.status = "Declined"
      BY <1>1, <1>2, <1>11 DEF MovesOn, UpToDate, Checked
    <2>2. Lifecycle!Decline(i)
      BY <1>6, <1>7, <1>8, <1>9, <2>1 DEF Lifecycle!Decline
    <2> QED
      BY <2>2 DEF Lifecycle!LNext
  <1> QED
    BY <1>1, <1>2, <1>10, <1>11 DEF Moves

LEMMA WithdrawImplements ==
    ASSUME HistoryInv, Serial, NEW r, deleteStory(r)
    PROVE  Lifecycle!LNext
  <1>1. /\ TypeOK /\ r \in DOMAIN job /\ job[r].pc = "write" /\ job[r].op = "withdraw"
        /\ UpToDate(job[r]) /\ job[r].id \in DOMAIN story /\ job[r].id \in Ids
    BY DEF HistoryInv, Serial, deleteStory, Writes, At, RowThere, TypeOK
  <1>2. PICK i \in Ids : i = job[r].id
    BY <1>1
  <1>3. i \in DOMAIN story /\ been[i] # {} /\ UNCHANGED been
    BY <1>1, <1>2 DEF HistoryInv, StatusesHaveBeen, deleteStory
  <1>4. /\ DOMAIN story' = DOMAIN story \ {i}
        /\ \A k \in DOMAIN story \ {i} : story'[k] = story[k]
    BY <1>2 DEF deleteStory, Drop, Restrict
  <1>5. StateOf(i) \in {"Requested", "Accepted", "Declined"}
    BY <1>1, <1>2, <1>3 DEF StateOf, UpToDate, Checked, Withdrawable
  <1>6. StateOf(i)' = "withdrawn" /\ PriorityOf(i)' = Lifecycle!NoPriority
    BY <1>3, <1>4 DEF StateOf, PriorityOf, None, Lifecycle!NoPriority
  <1>7. \A k \in Ids \ {i} : StateOf(k)' = StateOf(k) /\ PriorityOf(k)' = PriorityOf(k)
    BY <1>3, <1>4 DEF StateOf, PriorityOf
  <1>8. Lifecycle!Withdraw(i)
    BY <1>5, <1>6, <1>7 DEF Lifecycle!Withdraw
  <1> QED
    BY <1>8 DEF Lifecycle!LNext

LEMMA RankImplements ==
    ASSUME HistoryInv, Serial, NEW r, updatePriority(r)
    PROVE  Lifecycle!LNext
  <1>1. /\ TypeOK /\ r \in DOMAIN job /\ job[r].pc = "write" /\ job[r].op = "priority"
        /\ UpToDate(job[r]) /\ job[r].id \in DOMAIN story /\ job[r].id \in Ids
        /\ UNCHANGED been
    BY DEF HistoryInv, Serial, updatePriority, Writes, At, RowThere, TypeOK
  <1>2. job[r].row.priority \in Priorities
    BY <1>1 DEF TypeOK, Job, Row
  <1>3. PICK i \in Ids, p \in Priorities : i = job[r].id /\ p = job[r].row.priority
    BY <1>1, <1>2
  <1>4. story' = [story EXCEPT ![i].priority = p]
    BY <1>3 DEF updatePriority
  <1>5. /\ i \in DOMAIN story /\ story[i].status \in Statuses
        /\ DOMAIN story' = DOMAIN story
        /\ story'[i].priority = p /\ story'[i].status = story[i].status
        /\ \A k \in DOMAIN story \ {i} : story'[k] = story[k]
    BY <1>1, <1>3, <1>4 DEF TypeOK, Row
  <1>6. StateOf(i) \in Statuses /\ ~isTerminal(StateOf(i))
    BY <1>1, <1>3, <1>5 DEF StateOf, UpToDate, Checked
  <1>7. PriorityOf(i)' = p
    BY <1>5 DEF PriorityOf
  <1>8. \A k \in Ids : StateOf(k)' = StateOf(k)
    BY <1>1, <1>5 DEF StateOf
  <1>9. \A k \in Ids \ {i} : PriorityOf(k)' = PriorityOf(k)
    BY <1>5 DEF PriorityOf
  <1>10. Lifecycle!Reprioritise(i)
    BY <1>6, <1>7, <1>8, <1>9 DEF Lifecycle!Reprioritise, Lifecycle!Statuses, Statuses,
       Lifecycle!isTerminal, isTerminal
  <1> QED
    BY <1>10 DEF Lifecycle!LNext

LEMMA InsertImplements ==
    ASSUME HistoryInv, NEW r, insertStory(r)
    PROVE  Lifecycle!LNext
  <1>1. /\ TypeOK /\ r \in DOMAIN job /\ job[r].pc = "insert" /\ KnowsWhy(job[r])
    BY DEF HistoryInv, insertStory, At
  <1>2. job[r].row.status = "Requested" /\ job[r].row.priority \in Priorities
    BY <1>1 DEF KnowsWhy, Opening, TypeOK, Job, Row
  <1>3. PICK i \in Ids :
          /\ been[i] = {}
          /\ story' = Put(story, i, job[r].row)
          /\ been' = [been EXCEPT ![i] = {"Requested"}]
    BY DEF insertStory
  <1>4. i \notin DOMAIN story
    BY <1>3 DEF HistoryInv, StatusesHaveBeen
  <1>5. /\ DOMAIN story' = DOMAIN story \cup {i} /\ story'[i] = job[r].row
        /\ \A k \in DOMAIN story : story'[k] = story[k]
        /\ \A k \in Ids \ {i} : been'[k] = been[k]
    BY <1>1, <1>3, <1>4 DEF Put, TypeOK
  <1>6. /\ StateOf(i) = "unfiled" /\ StateOf(i)' = "Requested"
        /\ PriorityOf(i)' = job[r].row.priority
        /\ \A k \in Ids \ {i} : StateOf(k)' = StateOf(k) /\ PriorityOf(k)' = PriorityOf(k)
    BY <1>2, <1>3, <1>4, <1>5 DEF StateOf, PriorityOf
  <1>7. Lifecycle!File(i)
    BY <1>2, <1>6 DEF Lifecycle!File
  <1> QED
    BY <1>7 DEF Lifecycle!LNext

\* Every other step leaves the lives of the tickets alone.
LEMMA OthersStutter ==
    ASSUME TypeOK, UNCHANGED been, DOMAIN story' = DOMAIN story,
           \A i \in DOMAIN story :
              story'[i].status = story[i].status /\ story'[i].priority = story[i].priority
    PROVE  UNCHANGED Lifecycle!lvars
  <1>1. \A i \in Ids : StateOf(i)' = StateOf(i) /\ PriorityOf(i)' = PriorityOf(i)
    BY DEF StateOf, PriorityOf
  <1> QED
    BY <1>1 DEF Lifecycle!lvars

LEMMA StepImplements ==
    ASSUME HistoryInv, Serial, [Next]_vars
    PROVE  Lifecycle!LNext \/ UNCHANGED Lifecycle!lvars
  <1>1. TypeOK
    BY DEF HistoryInv
  <1>2. CASE UNCHANGED <<story, been>>
    BY <1>1, <1>2, OthersStutter
  <1>3. ASSUME NEW r \in Requests, Arrive(r)
        PROVE  UNCHANGED <<story, been>>
    BY <1>1, <1>3, ArriveShape DEF tables
  <1>4. ASSUME NEW r \in Requests, updateFlag(r)
        PROVE  UNCHANGED Lifecycle!lvars
    <2>1. /\ UNCHANGED been /\ DOMAIN story' = DOMAIN story
          /\ \A i \in DOMAIN story :
                story'[i].status = story[i].status /\ story'[i].priority = story[i].priority
      BY <1>1, <1>4 DEF updateFlag, TypeOK, Row
    <2> QED
      BY <1>1, <2>1, OthersStutter
  <1>5. ASSUME NEW r \in Requests,
               \/ putModel(r) \/ copyModel(r) \/ deleteModel(r) \/ writeNothing(r)
               \/ insertComment(r) \/ notify(r) \/ record(r) \/ fail(r)
        PROVE  UNCHANGED <<story, been>>
    BY <1>5 DEF putModel, copyModel, deleteModel, writeNothing, insertComment, notify,
       record, fail, tables
  <1>6. ASSUME rejectUpload \/ crash \/ UNCHANGED vars
        PROVE  UNCHANGED <<story, been>>
    BY <1>6 DEF rejectUpload, crash, vars
  <1>7. ASSUME NEW r \in Requests, Proceed(r)
        PROVE  Lifecycle!LNext \/ UNCHANGED Lifecycle!lvars
    BY <1>2, <1>4, <1>5, <1>7, MoveImplements, WithdrawImplements, RankImplements,
       InsertImplements DEF Proceed
  <1> QED
    BY <1>2, <1>3, <1>5, <1>6, <1>7 DEF Next

\* stories.ts: as long as requests on one ticket wait for each other, the
\* handlers, whatever fails and whenever the process dies, implement the life
\* of a ticket that its rules promise.
THEOREM HandlersImplementLifecycle ==
    ASSUME ~Overlap
    PROVE  Spec => ImplementsLifecycle
  <1>1. Init => Serial
    BY DEF Init, Nothing, Serial, Alone
  <1>2. HistoryInv /\ Serial /\ [Next]_vars => Serial'
    BY NextSerial
  <1>3. Init => Lifecycle!LInit
    BY DEF Init, Nothing, Lifecycle!LInit, StateOf, PriorityOf, None, Lifecycle!NoPriority
  <1>4. HistoryInv /\ Serial /\ [Next]_vars => [Lifecycle!LNext]_(Lifecycle!lvars)
    BY StepImplements
  <1> QED
    BY <1>1, <1>2, <1>3, <1>4, InitHistory, NextHistory, PTL
       DEF Spec, ImplementsLifecycle, Lifecycle!LSpec
=============================================================================
