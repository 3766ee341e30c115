------------------------------ MODULE Tickets ------------------------------
(***************************************************************************)
(* Every operation on a ticket (src/lib/stories.ts, src/lib/intake.ts) as  *)
(* the code runs it: a handler reads a row, decides, writes without        *)
(* looking again, tells somebody and writes the trail, each an `await` of  *)
(* its own between which any other handler may run.  The rows, the inbox   *)
(* and the trail are tables of one database and the model files a          *)
(* directory; no handler opens a transaction.                              *)
(*                                                                         *)
(* A refusal (400, 403, 404, 409) writes nothing and is the absence of a   *)
(* step.                                                                   *)
(***************************************************************************)
EXTENDS StatusFlow, Tables, FiniteSets, Naturals

CONSTANTS
    Clients,      \* people with an account
    Owner,        \* the one admin (user_single_admin), whose printer it is
    Ids,          \* BOUND: ticket ids the sequence may hand out, never twice
    Keys,         \* BOUND: storage keys in use at a time
    Requests,     \* BOUND: requests in flight at a time
    Priorities,   \* STORY_PRIORITIES
    Ops,          \* the operations called in this instance
    MaxMishaps,   \* BOUND: failures and crashes in one behaviour
    Overlap       \* may two requests on one ticket be in flight together?

People == Clients \cup {Owner}

Moves     == {"advance", "decline"}
OwnerOps  == Moves \cup {"flag", "clear"}
Creations == {"upload", "requeue"}
AllOps    == OwnerOps \cup Creations \cup {"withdraw", "priority", "comment"}

ASSUME TicketsAssumption ==
    /\ Owner \notin Clients
    /\ Ops \subseteq AllOps
    /\ Overlap \in BOOLEAN
    /\ MaxMishaps \in Nat
    /\ "none" \notin Ids \cup Keys \cup Priorities

VARIABLES
    story,      \* the story table, a row per existing id
    comments,   \* the comment table: who has spoken on which ticket
    inbox,      \* the notification table
    trail,      \* the audit table, with what really was (see Claim)
    files,      \* the keys a whole file is stored under
    job,        \* the handlers in flight and where each of them is
    been,       \* history: every status a ticket has ever had
    mishaps     \* history: the calls that failed by themselves, and the crashes

vars == <<story, comments, inbox, trail, files, job, been, mishaps>>

Row == [status: Statuses, flagged: BOOLEAN, priority: Priorities,
        uploader: People, key: Keys]

(* A handler in flight: the operation and who asked for it, the ticket, the *)
(* row it is about (as it should be after the write, or as it is to be      *)
(* inserted), the status it read, the status its write really replaced, and *)
(* the file it copies from.                                                 *)
Job == [op: AllOps, pc: {"put", "insert", "write", "unlink", "notify", "record"},
        actor: People, id: Ids \cup {None}, row: Row,
        seen: Statuses \cup {None}, was: Statuses \cup {None}, src: Keys \cup {None}]

Notice == [to: People, id: Ids \cup {None}, op: AllOps,
           status: Statuses \cup {None}]

(* An audit row.  `from` and `to` are its claim, `was` is history: the      *)
(* status the write really replaced.                                        *)
Claim == [op: AllOps \cup {"rejected"}, id: Ids \cup {None},
          from: Statuses \cup {None}, to: Statuses \cup {None},
          was: Statuses \cup {None}]

TypeOK ==
    /\ DOMAIN story \subseteq Ids
    /\ story \in [DOMAIN story -> Row]
    /\ comments \subseteq [id: Ids, by: People]
    /\ inbox \subseteq Notice
    /\ trail \subseteq Claim
    /\ files \subseteq Keys
    /\ DOMAIN job \subseteq Requests
    /\ job \in [DOMAIN job -> Job]
    /\ been \in [Ids -> SUBSET Statuses]
    /\ mishaps \in Nat

Init ==
    /\ story = Nothing
    /\ comments = {}
    /\ inbox = {}
    /\ trail = {}
    /\ files = {}
    /\ job = Nothing
    /\ been = [i \in Ids |-> {}]
    /\ mishaps = 0

-----------------------------------------------------------------------------
\* What a handler reads, and where it goes on

tables == <<story, comments, inbox, trail, files, been, mishaps>>

\* storyScope: a client sees their own tickets, the admin every one.
InScope(a, i) == a = Owner \/ story[i].uploader = a

\* Two requests on one ticket overlap only in the instances that say so.
Undisturbed(i) == Overlap \/ \A r \in DOMAIN job : job[r].id # i

\* A request for `op` on an existing ticket arrives at an idle server slot.
Asked(r, op, i) ==
    /\ op \in Ops
    /\ r \in Requests \ DOMAIN job
    /\ i \in DOMAIN story
    /\ Undisturbed(i)

Begin(r, op, pc, a, i, row, src) ==
    job' = Put(job, r, [op |-> op, pc |-> pc, actor |-> a, id |-> i, row |-> row,
                        seen |-> IF i = None THEN None ELSE story[i].status,
                        was |-> None, src |-> src])

At(r, pc) == r \in DOMAIN job /\ job[r].pc = pc

GoTo(r, pc) == job' = [job EXCEPT ![r].pc = pc]

End(r) == job' = Drop(job, r)

\* Who is to be told: the uploader about what the owner does, the owner about
\* what a client does.  Only an upload tells the owner about the owner's own.
OtherSide(j) == IF j.actor = Owner THEN j.row.uploader ELSE Owner

Recipient(j) == CASE j.op \in OwnerOps               -> j.row.uploader
                  [] j.op \in {"priority", "comment"} -> OtherSide(j)
                  [] OTHER                            -> Owner

Tells(j) == CASE j.op \in OwnerOps \cup {"upload"} -> TRUE
              [] j.op = "withdraw" -> /\ j.seen \in {"Requested", "Accepted"}
                                      /\ j.actor # Owner
              [] OTHER -> Recipient(j) # j.actor

AfterCommitUntold(j) == "record"

AfterCommit(j) == IF Tells(j) THEN "notify" ELSE "record"

-----------------------------------------------------------------------------
\* The first half: one read, and every check that follows it

advanceStory(r, i) ==
    /\ Asked(r, "advance", i)
    /\ story[i].status \in DOMAIN nextStatus
    /\ LET next == nextStatus[story[i].status]
       IN /\ assertTransition(story[i].status, next)
          /\ Begin(r, "advance", "write", Owner, i,
                   [story[i] EXCEPT !.status = next], None)
    /\ UNCHANGED tables

declineUnchecked(r, i) ==
    /\ Asked(r, "decline", i)
    /\ Begin(r, "decline", "write", Owner, i,
             [story[i] EXCEPT !.status = "Declined"], None)
    /\ UNCHANGED tables

declineStory(r, i) ==
    /\ Asked(r, "decline", i)
    /\ assertTransition(story[i].status, "Declined")
    /\ Begin(r, "decline", "write", Owner, i,
             [story[i] EXCEPT !.status = "Declined"], None)
    /\ UNCHANGED tables

flagStory(r, i) ==
    /\ Asked(r, "flag", i)
    /\ Begin(r, "flag", "write", Owner, i, [story[i] EXCEPT !.flagged = TRUE], None)
    /\ UNCHANGED tables

clearFlag(r, i) ==
    /\ Asked(r, "clear", i)
    /\ story[i].flagged
    /\ Begin(r, "clear", "write", Owner, i, [story[i] EXCEPT !.flagged = FALSE], None)
    /\ UNCHANGED tables

\* The states a requester may still take a ticket back in.
Withdrawable == {"Requested", "Accepted", "Declined"}

withdrawStory(r, a, i) ==
    /\ Asked(r, "withdraw", i)
    /\ InScope(a, i)
    /\ story[i].uploader = a
    /\ story[i].status \in Withdrawable
    /\ Begin(r, "withdraw", "write", a, i, story[i], None)
    /\ UNCHANGED tables

\* Setting what is already set is refused as `unchanged`.
changeStoryPriority(r, a, i, p) ==
    /\ Asked(r, "priority", i)
    /\ InScope(a, i)
    /\ ~isTerminal(story[i].status)
    /\ p # story[i].priority
    /\ Begin(r, "priority", "write", a, i, [story[i] EXCEPT !.priority = p], None)
    /\ UNCHANGED tables

addComment(r, a, i) ==
    /\ Asked(r, "comment", i)
    /\ InScope(a, i)
    /\ Begin(r, "comment", "write", a, i, story[i], None)
    /\ UNCHANGED tables

\* storageKeyFor: a random UUID, so a key nothing refers to any more is as
\* good as a new one.
KeysInUse ==
    files \cup {story[i].key : i \in DOMAIN story}
          \cup {job[r].row.key : r \in DOMAIN job}
          \cup {job[r].src : r \in DOMAIN job}

\* BOUND: an id is left for every ticket that is being opened.
IdsLeft ==
    Cardinality({r \in DOMAIN job : job[r].pc \in {"put", "insert"}})
        < Cardinality({i \in Ids : been[i] = {}})

NewRow(a, p, k) ==
    [status |-> "Requested", flagged |-> FALSE, priority |-> p,
     uploader |-> a, key |-> k]

requeueSharingTheFile(r, a, i, p) ==
    /\ Asked(r, "requeue", i)
    /\ IdsLeft
    /\ story[i].uploader = a
    /\ Begin(r, "requeue", "insert", a, i, NewRow(a, p, story[i].key), None)
    /\ UNCHANGED tables

requeueStory(r, a, i, p) ==
    /\ Asked(r, "requeue", i)
    /\ IdsLeft
    /\ InScope(a, i)
    /\ story[i].uploader = a
    /\ \E k \in Keys \ KeysInUse :
          Begin(r, "requeue", "put", a, i, NewRow(a, p, k), story[i].key)
    /\ UNCHANGED tables

\* openRequest, once checkWish and inspectModel have said yes.
openRequest(r, a, p) ==
    /\ "upload" \in Ops
    /\ r \in Requests \ DOMAIN job
    /\ IdsLeft
    /\ \E k \in Keys \ KeysInUse :
          Begin(r, "upload", "put", a, None, NewRow(a, p, k), None)
    /\ UNCHANGED tables

\* inspectModel said no: the refusal goes on the trail and nothing else is
\* left behind.
rejectUpload ==
    /\ "upload" \in Ops
    /\ trail' = trail \cup {[op |-> "rejected", id |-> None, from |-> None,
                             to |-> None, was |-> None]}
    /\ UNCHANGED <<story, comments, inbox, files, job, been, mishaps>>

-----------------------------------------------------------------------------
\* The files

\* putModel writes atomically: the whole file or none.
putModel(r) ==
    /\ At(r, "put")
    /\ job[r].op = "upload"
    /\ files' = files \cup {job[r].row.key}
    /\ GoTo(r, "insert")
    /\ UNCHANGED <<story, comments, inbox, trail, been, mishaps>>

\* copyModel; when the source has gone the handler answers 502.
copyModel(r) ==
    /\ At(r, "put")
    /\ job[r].op = "requeue"
    /\ IF job[r].src \in files
       THEN /\ files' = files \cup {job[r].row.key}
            /\ GoTo(r, "insert")
       ELSE /\ End(r)
            /\ UNCHANGED files
    /\ UNCHANGED <<story, comments, inbox, trail, been, mishaps>>

\* deleteModel, after the row.
leaveFile(r) ==
    /\ At(r, "unlink")
    /\ GoTo(r, AfterCommit(job[r]))
    /\ UNCHANGED tables

deleteModel(r) ==
    /\ At(r, "unlink")
    /\ files' = files \ {job[r].row.key}
    /\ GoTo(r, AfterCommit(job[r]))
    /\ UNCHANGED <<story, comments, inbox, trail, been, mishaps>>

-----------------------------------------------------------------------------
\* The second half: the write, unconditional but for the row's existence

\* db.story.create, with an id of its own.
insertStory(r) ==
    /\ At(r, "insert")
    /\ \E i \in Ids :
          /\ been[i] = {}
          /\ story' = Put(story, i, job[r].row)
          /\ been' = [been EXCEPT ![i] = {"Requested"}]
          /\ job' = [job EXCEPT ![r] = [@ EXCEPT !.id = i, !.pc = AfterCommit(job[r])]]
    /\ UNCHANGED <<comments, inbox, trail, files, mishaps>>

\* The handler's write finds its row, or throws (P2025, or the foreign key of
\* a comment) and the request is over.
Writes(r, ops) == At(r, "write") /\ job[r].op \in ops

RowUnchanged(r) ==
    job[r].id \in DOMAIN story /\ story[job[r].id].status = job[r].seen

RowThere(r) == job[r].id \in DOMAIN story

Committed(r, pc) ==
    job' = [job EXCEPT ![r] = [@ EXCEPT !.was = story[job[r].id].status, !.pc = pc]]

writeNothingUnnoticed(r) ==
    /\ Writes(r, AllOps)
    /\ ~RowThere(r)
    /\ GoTo(r, "record")
    /\ UNCHANGED tables

writeNothing(r) ==
    /\ Writes(r, AllOps)
    /\ ~RowThere(r)
    /\ End(r)
    /\ UNCHANGED tables

updateStatus(r) ==
    /\ Writes(r, Moves)
    /\ RowThere(r)
    /\ LET i == job[r].id IN
          /\ story' = [story EXCEPT ![i].status = job[r].row.status]
          /\ been' = [been EXCEPT ![i] = @ \cup {job[r].row.status}]
    /\ Committed(r, AfterCommit(job[r]))
    /\ UNCHANGED <<comments, inbox, trail, files, mishaps>>

updateFlag(r) ==
    /\ Writes(r, {"flag", "clear"})
    /\ RowThere(r)
    /\ story' = [story EXCEPT ![job[r].id].flagged = job[r].row.flagged]
    /\ GoTo(r, AfterCommit(job[r]))
    /\ UNCHANGED <<comments, inbox, trail, files, been, mishaps>>

updatePriority(r) ==
    /\ Writes(r, {"priority"})
    /\ RowThere(r)
    /\ story' = [story EXCEPT ![job[r].id].priority = job[r].row.priority]
    /\ GoTo(r, AfterCommit(job[r]))
    /\ UNCHANGED <<comments, inbox, trail, files, been, mishaps>>

insertComment(r) ==
    /\ Writes(r, {"comment"})
    /\ RowThere(r)
    /\ comments' = comments \cup {[id |-> job[r].id, by |-> job[r].actor]}
    /\ GoTo(r, AfterCommit(job[r]))
    /\ UNCHANGED <<story, inbox, trail, files, been, mishaps>>

\* db.story.delete: comments and notifications go with the row.
deleteStory(r) ==
    /\ Writes(r, {"withdraw"})
    /\ RowThere(r)
    /\ LET i == job[r].id IN
          /\ story' = Drop(story, i)
          /\ comments' = {c \in comments : c.id # i}
          /\ inbox' = {n \in inbox : n.id # i}
    /\ Committed(r, "unlink")
    /\ UNCHANGED <<trail, files, been, mishaps>>

-----------------------------------------------------------------------------
\* Telling and recording

\* A withdrawal's notice names no ticket: there is none any more.
About(j) == IF j.op = "withdraw" THEN None ELSE j.id

\* Only the notices of a move name a status.
StatusTold(j) == IF j.op \in Moves THEN j.row.status ELSE None

notify(r) ==
    /\ At(r, "notify")
    /\ LET j == job[r] IN
       IF About(j) \in DOMAIN story \cup {None}
       THEN /\ inbox' = inbox \cup {[to |-> Recipient(j), id |-> About(j),
                                     op |-> j.op, status |-> StatusTold(j)]}
            /\ GoTo(r, "record")
       ELSE \* the notification's foreign key: the handler throws
            /\ End(r)
            /\ UNCHANGED inbox
    /\ UNCHANGED <<story, comments, trail, files, been, mishaps>>

\* The detail of the audit row: an advance names both ends, a withdrawal the
\* status it was in, the others no status.
ClaimReadLate(j) ==
    [op |-> j.op, id |-> j.id,
     from |-> IF j.op \in {"advance", "withdraw"} THEN j.row.status ELSE None,
     to   |-> IF j.op = "advance" THEN j.row.status ELSE None,
     was  |-> IF j.op \in {"advance", "withdraw"} THEN j.was ELSE None]

ClaimOf(j) ==
    [op |-> j.op, id |-> j.id,
     from |-> IF j.op \in {"advance", "withdraw"} THEN j.seen ELSE None,
     to   |-> IF j.op = "advance" THEN j.row.status ELSE None,
     was  |-> IF j.op \in {"advance", "withdraw"} THEN j.was ELSE None]

record(r) ==
    /\ At(r, "record")
    /\ trail' = trail \cup {ClaimOf(job[r])}
    /\ End(r)
    /\ UNCHANGED <<story, comments, inbox, files, been, mishaps>>

-----------------------------------------------------------------------------
\* Failures

\* A call fails by itself (the database or the disk): the handler throws.
\* Two failures are swallowed: a file that cannot be removed, and an audit row
\* that cannot be written, which is the handler's last step anyway.
fail(r) ==
    /\ r \in DOMAIN job
    /\ mishaps < MaxMishaps
    /\ IF job[r].pc = "unlink" THEN GoTo(r, AfterCommit(job[r])) ELSE End(r)
    /\ mishaps' = mishaps + 1
    /\ UNCHANGED <<story, comments, inbox, trail, files, been>>

\* The process dies with everything in flight; the tables and the files stay.
crash ==
    /\ job # Nothing
    /\ mishaps < MaxMishaps
    /\ job' = Nothing
    /\ mishaps' = mishaps + 1
    /\ UNCHANGED <<story, comments, inbox, trail, files, been>>

-----------------------------------------------------------------------------
Arrive(r) ==
    \/ \E i \in Ids :
          \/ advanceStory(r, i) \/ declineStory(r, i)
          \/ flagStory(r, i) \/ clearFlag(r, i)
          \/ \E a \in People :
                \/ withdrawStory(r, a, i) \/ addComment(r, a, i)
                \/ \E p \in Priorities : \/ changeStoryPriority(r, a, i, p)
                                         \/ requeueStory(r, a, i, p)
    \/ \E a \in People, p \in Priorities : openRequest(r, a, p)

Proceed(r) ==
    \/ putModel(r) \/ copyModel(r) \/ deleteModel(r)
    \/ insertStory(r) \/ writeNothing(r)
    \/ updateStatus(r) \/ updateFlag(r) \/ updatePriority(r)
    \/ insertComment(r) \/ deleteStory(r)
    \/ notify(r) \/ record(r)

Next ==
    \/ \E r \in Requests : Arrive(r) \/ Proceed(r) \/ fail(r)
    \/ rejectUpload
    \/ crash

Spec == Init /\ [][Next]_vars
-----------------------------------------------------------------------------
\* What holds however requests interleave, calls fail and the process dies

InFlight(i) == \E r \in DOMAIN job : job[r].id = i

\* A ticket never points at a file that is not there, and no other ticket's
\* withdrawal takes it away: "a story never points at a file that was not
\* stored" (intake.ts), "withdrawing either one never disturbs the other's
\* file" (requeueStory).
EveryTicketHasItsFile ==
    /\ \A i \in DOMAIN story : story[i].key \in files
    /\ \A i, k \in DOMAIN story : story[i].key = story[k].key => i = k

\* However stale a handler's read, a ticket has been in every status that
\* comes before the furthest it has been in: no step of the flow is jumped.
NoStepSkipped ==
    \A i \in Ids : \A s \in DOMAIN nextStatus :
        nextStatus[s] \in been[i] => s \in been[i]

\* The trail reports nothing that never happened (stories.ts, rule 4): the ticket
\* had both statuses an advance names, which are one step apart; the status a
\* withdrawal names allowed it, and the ticket is gone; the one opened existed.
\* However stale the `from` a row was written with, it is no invention.
Happened(e) ==
    CASE e.op = "advance"    -> /\ {e.from, e.to} \subseteq been[e.id]
                                /\ assertTransition(e.from, e.to)
      [] e.op = "decline"    -> "Declined" \in been[e.id]
      [] e.op = "withdraw"   -> /\ e.from \in been[e.id] \cap Withdrawable
                                /\ e.id \notin DOMAIN story
      [] e.op \in Creations  -> been[e.id] # {}
      [] OTHER               -> TRUE

TrailNeverInvents == \A e \in trail : Happened(e)

\* As long as nothing fails, every file on the disk is some ticket's, or some
\* handler's still at work on it: deletions race copies and leak nothing.
FilesAccountedFor ==
    mishaps = 0 =>
        \A k \in files : \/ \E i \in DOMAIN story : story[i].key = k
                         \/ \E r \in DOMAIN job : job[r].row.key = k

\* "The uploader is told" (stories.ts, rule 3): once nothing is in flight on a
\* ticket and nothing has failed, each status it was moved to has its notice
\* in the uploader's inbox and its row in the trail.
EveryMoveIsToldAndRecorded ==
    \A i \in DOMAIN story :
        (mishaps = 0 /\ ~InFlight(i)) =>
            \A s \in been[i] \ {"Requested"} :
                /\ \E n \in inbox : /\ n.to = story[i].uploader
                                    /\ n.id = i /\ n.status = s
                /\ \E e \in trail : /\ e.id = i
                                    /\ \/ e.op = "advance" /\ e.to = s
                                       \/ e.op = "decline" /\ s = "Declined"

\* A request is answered with an error only when something failed by itself
\* or its ticket was withdrawn under it; two requests never make each other
\* fail otherwise.
FailsOnlyIfWithdrawn ==
    [][\A r \in DOMAIN job \ DOMAIN job' :
          \/ job[r].pc = "record"
          \/ mishaps' > mishaps
          \/ job[r].id \notin DOMAIN story]_vars

-----------------------------------------------------------------------------
\* What the code promises of one request at a time, and what overlapping
\* requests do to it

StateOf(i) == IF i \in DOMAIN story THEN story[i].status
              ELSE IF been[i] = {} THEN "unfiled" ELSE "withdrawn"

PriorityOf(i) == IF i \in DOMAIN story THEN story[i].priority ELSE None

Lifecycle == INSTANCE TicketLifecycle
    WITH state <- [i \in Ids |-> StateOf(i)],
         prio  <- [i \in Ids |-> PriorityOf(i)]

\* The handlers implement the life of a ticket that stories.ts promises
\* (checked where no two requests on a ticket overlap).
ImplementsLifecycle == Lifecycle!LSpec

\* scope.ts: "Only the admin moves a story, only forwards, only one step at a
\* time.  `Declined` is reachable from `Requested` alone."
OnlyForwardsOneStep ==
    [][\A i \in DOMAIN story \cap DOMAIN story' :
          story'[i].status # story[i].status =>
              assertTransition(story[i].status, story'[i].status)]_vars

\* stories.ts, rule 4: the trail "cannot claim something that did not happen".
\* What an audit row says the ticket moved from is what it moved from.
TrailClaimsWhatHappened == \A e \in trail : e.from = e.was
=============================================================================
