----------------------------- MODULE DoorsProofs -----------------------------
(***************************************************************************)
(* What holds of Access, SessionClock and UploadSlots for any number of    *)
(* people, sessions, requests, sign-ins and places, and whatever two       *)
(* clocks differ by: who is let in and on what, how long a sign-in lasts,  *)
(* and whose model is taken in next. The three share no variable, and each *)
(* has an invariant of its own.                                            *)
(***************************************************************************)
EXTENDS Access, SessionClock, UploadSlots, SequenceTheorems, TablesProofs

-----------------------------------------------------------------------------
\* Access

\* The operations of a request that is let in, or refused.
Requested == {"render", "withdraw", "fetch", "refused"}

\* Whom a handler is for, once it is past the door.
Named(x) ==
    /\ x.op = "signIn" => x.user \in Users
    /\ x.op \in {"revoke", "restore"} => x.user \in Clients /\ x.link = NoLink
    /\ x.op \in Requested => /\ x.model \in Models
                             /\ x.pc # "door" => x.user \in Users
    /\ x.pc \in {"door", "account", "scope", "open", "stream"} => x.op \in Requested

\* A row is deleted before its file.
RowFirst(x, rows) == x.op = "withdraw" /\ x.pc = "delete" => x.model \notin rows

\* Who has been suspended ever since a request began still is; past the door
\* its person is not among them.
NotShutOut(x, out) ==
    /\ x.shut \subseteq out
    /\ x.pc \in {"scope", "open", "record", "stream"} /\ x.op \in Requested =>
          x.user \notin x.shut

\* Past the door a link is for the person and the ticket of the request.
OwnLink(x) ==
    x.pc \in {"account", "scope", "open", "record", "stream"} /\ x.link # NoLink =>
        x.link = <<x.user, x.model>>

JobHolds(x, rows, out) ==
    x \in Job /\ Named(x) /\ RowFirst(x, rows) /\ NotShutOut(x, out) /\ OwnLink(x)

JobsHold ==
    /\ DOMAIN job \subseteq Jobs /\ job \in [DOMAIN job -> Job]
    /\ \A j \in DOMAIN job : JobHolds(job[j], story, banned)

\* Everything but the handlers has its type.
DataTyped ==
    /\ banned \subseteq Clients
    /\ DOMAIN session \subseteq Sessions
    /\ session \in [DOMAIN session -> [user: Users, late: BOOLEAN]]
    /\ uploader \in [Filed -> Clients]
    /\ story \subseteq stored /\ stored \subseteq Filed
    /\ link \subseteq Users \X Models
    /\ trail \subseteq Users \X Models
    /\ mishaps \in 0 .. MaxMishaps

AccessInv == DataTyped /\ JobsHold

\* The handler that has yet to delete the sessions of `u` is a revocation.
Revoking(u) ==
    \E j \in DOMAIN job : job[j].op = "revoke" /\ job[j].pc = "delete" /\ job[j].user = u

Doomed ==
    \A t \in DOMAIN session :
        session[t].user \notin banned \/ session[t].late \/ mishaps > 0
        \/ Revoking(session[t].user)

-----------------------------------------------------------------------------
\* The handlers

LEMMA Started ==
    ASSUME JobsHold, UNCHANGED <<story, banned>>, NEW j, NEW x,
           JobHolds(x, story, banned), Start(j, x)
    PROVE  /\ JobsHold'
           /\ DOMAIN job' = DOMAIN job \cup {j}
           /\ \A i \in DOMAIN job : job'[i] = job[i]
  <1>1. j \in Jobs /\ j \notin DOMAIN job /\ job' = Put(job, j, x)
    BY DEF Start
  <1>2. /\ DOMAIN job' = DOMAIN job \cup {j} /\ job'[j] = x
        /\ \A i \in DOMAIN job : job'[i] = job[i]
    BY <1>1 DEF Put
  <1>3. DOMAIN job' \subseteq Jobs /\ job' \in [DOMAIN job' -> Job]
    BY <1>1, Extended DEF JobsHold, JobHolds
  <1>4. \A i \in DOMAIN job' : JobHolds(job'[i], story', banned')
    BY <1>2 DEF JobsHold
  <1> QED
    BY <1>2, <1>3, <1>4 DEF JobsHold

\* One handler moves on, while nobody is let in again and no ticket appears.
LEMMA Moved ==
    ASSUME JobsHold, story' \subseteq story, banned \subseteq banned',
           NEW j \in DOMAIN job, NEW x,
           JobHolds(x, story', banned'), job' = [job EXCEPT ![j] = x]
    PROVE  /\ JobsHold'
           /\ DOMAIN job' = DOMAIN job /\ job'[j] = x
           /\ \A i \in DOMAIN job \ {j} : job'[i] = job[i]
  <1>1. /\ DOMAIN job' = DOMAIN job /\ job'[j] = x
        /\ \A i \in DOMAIN job \ {j} : job'[i] = job[i]
        /\ job' \in [DOMAIN job' -> Job]
    BY DEF JobsHold, JobHolds
  <1>2. ASSUME NEW i \in DOMAIN job \ {j} PROVE JobHolds(job'[i], story', banned')
    <2>1. JobHolds(job[i], story, banned)
      BY DEF JobsHold
    <2> QED
      BY <1>1, <2>1 DEF JobHolds, RowFirst, NotShutOut
  <1> QED
    BY <1>1, <1>2 DEF JobsHold

LEMMA Ended ==
    ASSUME JobsHold, story' \subseteq story, banned \subseteq banned',
           NEW j \in DOMAIN job, End(j)
    PROVE  /\ JobsHold'
           /\ DOMAIN job' = DOMAIN job \ {j}
           /\ \A i \in DOMAIN job' : job'[i] = job[i]
  <1>1. job' = Drop(job, j)
    BY DEF End
  <1>2. /\ DOMAIN job' = DOMAIN job \ {j}
        /\ \A i \in DOMAIN job' : job'[i] = job[i]
    BY <1>1 DEF Drop, Restrict
  <1>3. DOMAIN job' \subseteq Jobs /\ job' \in [DOMAIN job' -> Job]
    BY <1>1, Dropped DEF JobsHold
  <1>4. ASSUME NEW i \in DOMAIN job' PROVE JobHolds(job'[i], story', banned')
    <2>1. JobHolds(job[i], story, banned)
      BY <1>2 DEF JobsHold
    <2> QED
      BY <1>2, <2>1 DEF JobHolds, RowFirst, NotShutOut
  <1> QED
    BY <1>2, <1>3, <1>4 DEF JobsHold

\* A step to `pc` of a handler of which that is all that changes.
LEMMA Stepped ==
    ASSUME JobsHold, story' \subseteq story, banned \subseteq banned',
           NEW j \in DOMAIN job, NEW pc, GoTo(j, pc),
           JobHolds([job[j] EXCEPT !.pc = pc], story', banned')
    PROVE  /\ JobsHold'
           /\ DOMAIN job' = DOMAIN job /\ job'[j] = [job[j] EXCEPT !.pc = pc]
           /\ \A i \in DOMAIN job \ {j} : job'[i] = job[i]
  <1> DEFINE x == [job[j] EXCEPT !.pc = pc]
  <1>1. job' = [job EXCEPT ![j] = x]
    BY DEF GoTo
  <1> HIDE DEF x
  <1>2. JobHolds(x, story', banned')
    BY DEF x
  <1>3. /\ JobsHold'
        /\ DOMAIN job' = DOMAIN job /\ job'[j] = x
        /\ \A i \in DOMAIN job \ {j} : job'[i] = job[i]
    BY <1>1, <1>2, Moved
  <1> QED
    BY <1>3 DEF x

\* Past the door, for a person who is not suspended.
LEMMA LetInHolds ==
    ASSUME AccessInv, UNCHANGED <<story, banned>>, NEW j \in DOMAIN job,
           NEW u \in Users, u \notin banned, NEW claim,
           claim = NoLink \/ claim = <<u, job[j].model>>,
           job[j].op \in Requested, LetIn(j, u, claim)
    PROVE  JobsHold'
  <1> DEFINE x == [job[j] EXCEPT !.pc = "scope", !.user = u, !.token = None,
                                 !.link = claim, !.shut = @ \cap {u}]
  <1>1. job' = [job EXCEPT ![j] = x]
    BY DEF LetIn
  <1>2. JobHolds(job[j], story, banned)
    BY DEF AccessInv, JobsHold
  <1>3. job[j] \in Job /\ job[j].model \in Models /\ job[j].shut \subseteq banned
    BY <1>2 DEF JobHolds, Named, NotShutOut
  <1>4. x.op = job[j].op /\ x.model = job[j].model /\ x.pc = "scope" /\ x.user = u
        /\ x.link = claim /\ x.shut = {}
    BY <1>3 DEF Job
  <1>5. claim \in (Users \X Models) \cup {NoLink}
    BY <1>3
  <1>6. x \in Job
    BY <1>3, <1>4, <1>5 DEF Job
  <1> HIDE DEF x
  <1>7. JobHolds(x, story', banned')
    BY <1>3, <1>4, <1>6 DEF JobHolds, Named, RowFirst, NotShutOut, OwnLink, Requested
  <1> QED
    BY <1>1, <1>7, Moved DEF AccessInv

-----------------------------------------------------------------------------
\* The invariant, one operation after another

\* What a handler may begin with.
Begins(x) ==
    x \in Job /\ Named(x) /\ x.pc \in {"door", "write"} /\ x.shut \subseteq banned

StartsWell(j) == OnlyJobs /\ \E x : Begins(x) /\ Start(j, x)

LEMMA StartsWellSafe ==
    ASSUME AccessInv, NEW j, StartsWell(j)
    PROVE  AccessInv' /\ \A i \in DOMAIN job : i \in DOMAIN job' /\ job'[i] = job[i]
  <1>1. PICK x : Begins(x) /\ Start(j, x)
    BY DEF StartsWell
  <1>2. JobHolds(x, story, banned)
    BY <1>1 DEF Begins, JobHolds, RowFirst, NotShutOut, OwnLink
  <1>3. JobsHold' /\ \A i \in DOMAIN job : i \in DOMAIN job' /\ job'[i] = job[i]
    BY <1>1, <1>2, Started DEF StartsWell, OnlyJobs, AccessInv
  <1>4. DataTyped'
    BY DEF AccessInv, DataTyped, StartsWell, OnlyJobs
  <1> QED
    BY <1>3, <1>4 DEF AccessInv

LEMMA ChangeStarts ==
    ASSUME NEW j, NEW u \in Users,
           signInAs(j, u) \/ \E revoke \in BOOLEAN : setMemberAccess(j, u, revoke)
    PROVE  StartsWell(j)
  <1>1. PICK op \in {"signIn", "revoke", "restore"} :
           OnlyJobs /\ Start(j, Change(op, u)) /\ (op # "signIn" => u \in Clients)
    BY DEF signInAs, setMemberAccess, Users
  <1>2. Change(op, u) \in Job /\ Named(Change(op, u))
    BY <1>1 DEF Change, Job, Named, Requested, NoLink
  <1> QED
    BY <1>1, <1>2 DEF Change, StartsWell, Begins

LEMMA RequestStarts ==
    ASSUME AccessInv, NEW j, NEW m \in Models,
           \/ \E op \in {"render", "withdraw"}, t \in DOMAIN session : openTicket(j, op, t, m)
           \/ \E t \in DOMAIN session \cup {None}, claim \in link \cup {NoLink} :
                 GET(j, t, claim, m)
    PROVE  StartsWell(j)
  <1>1. PICK op \in {"render", "withdraw", "fetch"}, t \in DOMAIN session \cup {None},
             claim \in link \cup {NoLink} : OnlyJobs /\ Start(j, Asking(op, t, claim, m))
    BY DEF openTicket, GET
  <1>2. /\ banned \subseteq Users /\ t \in Sessions \cup {None}
        /\ claim \in (Users \X Models) \cup {NoLink}
    BY DEF AccessInv, DataTyped, Users
  <1>3. Asking(op, t, claim, m) \in Job /\ Named(Asking(op, t, claim, m))
    BY <1>2 DEF Asking, Job, Named, Requested
  <1> QED
    BY <1>1, <1>3 DEF Asking, StartsWell, Begins

-----------------------------------------------------------------------------
\* Sessions and suspensions

LEMMA CreateSessionSafe ==
    ASSUME AccessInv, NEW j, createSession(j)
    PROVE  AccessInv'
  <1>1. JobHolds(job[j], story, banned) /\ j \in DOMAIN job
    BY DEF createSession, At, AccessInv, JobsHold
  <1>2. job[j].user \in Users
    BY <1>1 DEF createSession, JobHolds, Named
  <1>3. PICK t \in Sessions \ DOMAIN session :
           session' = Put(session, t, [user |-> job[j].user, late |-> job[j].user \in banned])
    BY DEF createSession
  <1> DEFINE SessionRow == [user: Users, late: BOOLEAN]
             x == [user |-> job[j].user, late |-> job[j].user \in banned]
  <1>4. x \in SessionRow /\ DOMAIN session \subseteq Sessions /\ session \in [DOMAIN session -> SessionRow]
    BY <1>2 DEF AccessInv, DataTyped
  <1>7. session' = Put(session, t, x)
    BY <1>3
  <1> HIDE DEF SessionRow, x
  <1>5. DOMAIN session' \subseteq Sessions /\ session' \in [DOMAIN session' -> SessionRow]
    BY <1>4, <1>7, Extended
  <1>6. JobsHold'
    BY <1>1, Ended DEF createSession, AccessInv
  <1> QED
    BY <1>5, <1>6 DEF AccessInv, DataTyped, createSession, SessionRow

LEMMA EndSessionSafe ==
    ASSUME AccessInv, NEW t, endSession(t)
    PROVE  AccessInv'
  <1> DEFINE SessionRow == [user: Users, late: BOOLEAN]
  <1>3. DOMAIN session \subseteq Sessions /\ session \in [DOMAIN session -> SessionRow]
    BY DEF AccessInv, DataTyped
  <1>4. session' = Drop(session, t)
    BY DEF endSession
  <1> HIDE DEF SessionRow
  <1>1. DOMAIN session' \subseteq Sessions /\ session' \in [DOMAIN session' -> SessionRow]
    BY <1>3, <1>4, Dropped
  <1>2. JobsHold'
    BY DEF AccessInv, JobsHold, JobHolds, endSession
  <1> QED
    BY <1>1, <1>2 DEF AccessInv, DataTyped, endSession, SessionRow

LEMMA UpdateBannedSafe ==
    ASSUME AccessInv, NEW j, updateBanned(j)
    PROVE  AccessInv'
  <1> DEFINE u == job[j].user
  <1>1. JobHolds(job[j], story, banned) /\ j \in DOMAIN job /\ job[j] \in Job
    BY DEF updateBanned, At, AccessInv, JobsHold
  <1>2. CASE job[j].op = "revoke" /\ banned' = banned \cup {u} /\ GoTo(j, "delete")
    <2> DEFINE x == [job[j] EXCEPT !.pc = "delete"]
    <2>1. x.op = "revoke" /\ x.pc = "delete" /\ x \in Job /\ x.user = u /\ x.shut = job[j].shut
          /\ x.link = job[j].link
      BY <1>1, <1>2 DEF Job
    <2>2. u \in Clients
      BY <1>1, <1>2 DEF JobHolds, Named
    <2> HIDE DEF x
    <2>3. JobHolds(x, story', banned')
      BY <1>1, <1>2, <2>1, <2>2 DEF JobHolds, Named, RowFirst, NotShutOut, OwnLink, Requested
    <2>4. JobsHold'
      BY <1>1, <1>2, <2>3, Stepped DEF AccessInv, updateBanned, x
    <2> QED
      BY <1>2, <2>2, <2>4 DEF AccessInv, DataTyped, updateBanned
  <1>3. CASE /\ job[j].op = "restore" /\ banned' = banned \ {u}
             /\ job' = [Reopened(u) EXCEPT ![j].pc = "record"]
    <2> DEFINE y(i) == [job[i] EXCEPT !.shut = @ \ {u}]
    <2>1. ASSUME NEW i \in DOMAIN job
          PROVE  /\ y(i) \in Job /\ y(i).op = job[i].op /\ y(i).pc = job[i].pc
                 /\ y(i).user = job[i].user /\ y(i).model = job[i].model
                 /\ y(i).link = job[i].link /\ y(i).shut = job[i].shut \ {u}
      <3>1. job[i] \in Job
        BY DEF AccessInv, JobsHold
      <3> QED
        BY <3>1 DEF Job
    <2>2. ASSUME NEW i \in DOMAIN job PROVE JobHolds(y(i), story, banned')
      <3>1. JobHolds(job[i], story, banned)
        BY DEF AccessInv, JobsHold
      <3> HIDE DEF y
      <3> QED
        BY <1>3, <2>1, <3>1 DEF JobHolds, Named, RowFirst, NotShutOut, OwnLink
    <2> HIDE DEF y
    <2> DEFINE x == [y(j) EXCEPT !.pc = "record"]
    <2>3. x \in Job /\ x.op = "restore" /\ x.pc = "record" /\ x.user = u /\ x.link = job[j].link
          /\ x.shut = job[j].shut \ {u}
      BY <1>1, <1>3, <2>1 DEF Job
    <2> HIDE DEF x
    <2>4. JobHolds(x, story, banned')
      BY <1>1, <1>3, <2>1, <2>2, <2>3 DEF JobHolds, Named, RowFirst, NotShutOut, OwnLink, Requested
    <2>5. /\ DOMAIN job' = DOMAIN job /\ job'[j] = x
          /\ \A i \in DOMAIN job \ {j} : job'[i] = y(i)
      BY <1>1, <1>3 DEF Reopened, x, y
    <2>6. job' = [i \in DOMAIN job' |-> job'[i]]
      BY <1>3 DEF Reopened
    <2>7. \A i \in DOMAIN job' : JobHolds(job'[i], story', banned')
      BY <2>2, <2>4, <2>5 DEF updateBanned
    <2>8. JobsHold'
      BY <2>5, <2>6, <2>7 DEF JobsHold, JobHolds, AccessInv
    <2> QED
      BY <1>3, <2>8 DEF AccessInv, DataTyped, updateBanned
  <1> QED
    BY <1>2, <1>3 DEF updateBanned

LEMMA DeleteSessionsSafe ==
    ASSUME AccessInv, NEW j, deleteSessions(j)
    PROVE  AccessInv'
  <1> DEFINE x == [job[j] EXCEPT !.pc = "record"]
             SessionRow == [user: Users, late: BOOLEAN]
             kept == {t \in DOMAIN session : session[t].user # job[j].user}
  <1>1. JobHolds(job[j], story, banned) /\ j \in DOMAIN job /\ job[j] \in Job
    BY DEF deleteSessions, At, AccessInv, JobsHold
  <1>2. x.op = "revoke" /\ x.pc = "record" /\ x \in Job /\ x.user = job[j].user
        /\ x.link = job[j].link /\ x.shut = job[j].shut
    BY <1>1 DEF Job, deleteSessions
  <1>3. session' = Restrict(session, kept) /\ kept \subseteq DOMAIN session
    BY DEF deleteSessions
  <1>4. DOMAIN session \subseteq Sessions /\ session \in [DOMAIN session -> SessionRow]
    BY DEF AccessInv, DataTyped
  <1> HIDE DEF x, SessionRow, kept
  <1>5. JobHolds(x, story', banned')
    BY <1>1, <1>2 DEF JobHolds, Named, RowFirst, NotShutOut, OwnLink, Requested, deleteSessions
  <1>6. JobsHold'
    BY <1>1, <1>5, Stepped DEF AccessInv, deleteSessions, x
  <1>7. DOMAIN session' \subseteq Sessions /\ session' \in [DOMAIN session' -> SessionRow]
    BY <1>3, <1>4 DEF Restrict
  <1> QED
    BY <1>6, <1>7 DEF AccessInv, DataTyped, deleteSessions, SessionRow

-----------------------------------------------------------------------------
\* Requests

\* What an action that ends or moves its handler says of the data it leaves alone.
LEMMA DataKept ==
    ASSUME DataTyped, OnlyJobs
    PROVE  DataTyped'
  BY DEF DataTyped, OnlyJobs

LEMMA EnterSafe ==
    ASSUME AccessInv, NEW j, enter(j)
    PROVE  AccessInv'
  <1> DEFINE u == currentUser(job[j].token)
             subject == readSlicerToken(job[j].link, job[j].model)
  <1>1. JobHolds(job[j], story, banned) /\ j \in DOMAIN job /\ job[j] \in Job
        /\ job[j].op \in Requested /\ job[j].model \in Models
    BY DEF enter, At, AccessInv, JobsHold, JobHolds, Named
  <1>2. CASE u # None /\ LetIn(j, u, NoLink)
    <2>1. u \in Users /\ u \notin banned
      BY <1>2 DEF currentUser, AccessInv, DataTyped
    <2> QED
      BY <1>1, <1>2, <2>1, LetInHolds, DataKept DEF AccessInv, enter, OnlyJobs
  <1>3. CASE End(j)
    BY <1>1, <1>3, Ended, DataKept DEF AccessInv, enter, OnlyJobs
  <1>4. CASE /\ subject # None
             /\ job' = [job EXCEPT ![j].pc = "account", ![j].user = subject]
    <2> DEFINE x == [job[j] EXCEPT !.pc = "account", !.user = subject]
    <2>1. job[j].link \in Users \X Models /\ job[j].link[1] = subject /\ job[j].link[2] = job[j].model
      BY <1>4 DEF readSlicerToken, AccessInv, DataTyped
    <2>2. job[j].link = <<subject, job[j].model>> /\ subject \in Users
      BY <2>1
    <2>3. job' = [job EXCEPT ![j] = x]
      BY <1>1, <1>4
    <2>4. x.op = job[j].op /\ x.pc = "account" /\ x.user = subject /\ x \in Job
          /\ x.link = job[j].link /\ x.shut = job[j].shut /\ x.model = job[j].model
      BY <1>1, <2>2 DEF Job
    <2> HIDE DEF x, subject
    <2>5. JobHolds(x, story', banned')
      BY <1>1, <2>2, <2>4 DEF JobHolds, Named, RowFirst, NotShutOut, OwnLink, Requested, enter, OnlyJobs
    <2> QED
      BY <1>1, <2>3, <2>5, Moved, DataKept DEF AccessInv, enter, OnlyJobs
  <1> QED
    BY <1>2, <1>3, <1>4 DEF enter

LEMMA FindAccountSafe ==
    ASSUME AccessInv, NEW j, findAccount(j)
    PROVE  AccessInv'
  <1>1. JobHolds(job[j], story, banned) /\ j \in DOMAIN job
    BY DEF findAccount, At, AccessInv, JobsHold
  <1>2. CASE End(j)
    BY <1>1, <1>2, Ended, DataKept DEF AccessInv, findAccount, OnlyJobs
  <1>3. CASE job[j].user \notin banned /\ LetIn(j, job[j].user, job[j].link)
    <2>1. job[j].op \in Requested
      BY <1>1 DEF JobHolds, Named, findAccount, At
    <2> QED
      BY <1>1, <1>3, <2>1, LetInHolds, DataKept
         DEF AccessInv, findAccount, OnlyJobs, JobHolds, Named, OwnLink, At
  <1> QED
    BY <1>2, <1>3 DEF findAccount

LEMMA FindStorySafe ==
    ASSUME AccessInv, NEW j, findStory(j)
    PROVE  AccessInv'
  <1>1. JobHolds(job[j], story, banned) /\ j \in DOMAIN job /\ job[j] \in Job
        /\ job[j].pc = "scope" /\ job[j].op \in Requested
    BY DEF findStory, At, AccessInv, JobsHold, JobHolds, Named
  <1>2. CASE End(j)
    BY <1>1, <1>2, Ended, DataKept DEF AccessInv, findStory, OnlyJobs
  <1>3. ASSUME NEW pc \in {"open", "write"}, GoTo(j, pc), pc = "open" => job[j].op = "fetch"
        PROVE  AccessInv'
    <2> DEFINE x == [job[j] EXCEPT !.pc = pc]
    <2>1. x.op = job[j].op /\ x.pc = pc /\ x.user = job[j].user /\ x \in Job
          /\ x.link = job[j].link /\ x.shut = job[j].shut /\ x.model = job[j].model
      BY <1>1 DEF Job
    <2> HIDE DEF x
    <2>2. JobHolds(x, story', banned')
      BY <1>1, <1>3, <2>1
         DEF JobHolds, Named, RowFirst, NotShutOut, OwnLink, Requested, findStory, OnlyJobs
    <2> QED
      BY <1>1, <1>3, <2>2, Stepped, DataKept DEF AccessInv, findStory, OnlyJobs, x
  <1>4. CASE job' = [job EXCEPT ![j].op = "refused", ![j].pc = "record"]
    <2> DEFINE x == [job[j] EXCEPT !.op = "refused", !.pc = "record"]
    <2>1. job' = [job EXCEPT ![j] = x]
      BY <1>1, <1>4
    <2>2. x.op = "refused" /\ x.pc = "record" /\ x.user = job[j].user /\ x \in Job
          /\ x.link = job[j].link /\ x.shut = job[j].shut /\ x.model = job[j].model
      BY <1>1 DEF Job
    <2> HIDE DEF x
    <2>3. JobHolds(x, story', banned')
      BY <1>1, <2>2
         DEF JobHolds, Named, RowFirst, NotShutOut, OwnLink, Requested, findStory, OnlyJobs
    <2> QED
      BY <1>1, <2>1, <2>3, Moved, DataKept DEF AccessInv, findStory, OnlyJobs
  <1> QED
    BY <1>2, <1>3, <1>4 DEF findStory

LEMMA OpenModelSafe ==
    ASSUME AccessInv, NEW j, openModel(j)
    PROVE  AccessInv'
  <1>1. JobHolds(job[j], story, banned) /\ j \in DOMAIN job /\ job[j] \in Job
        /\ job[j].pc = "open" /\ job[j].op \in Requested
    BY DEF openModel, At, AccessInv, JobsHold, JobHolds, Named
  <1>2. CASE End(j)
    BY <1>1, <1>2, Ended, DataKept DEF AccessInv, openModel, OnlyJobs
  <1>3. ASSUME NEW pc \in {"record", "stream"}, GoTo(j, pc)
        PROVE  AccessInv'
    <2> DEFINE x == [job[j] EXCEPT !.pc = pc]
    <2>1. x.op = job[j].op /\ x.pc = pc /\ x.user = job[j].user /\ x \in Job
          /\ x.link = job[j].link /\ x.shut = job[j].shut /\ x.model = job[j].model
      BY <1>1 DEF Job
    <2> HIDE DEF x
    <2>2. JobHolds(x, story', banned')
      BY <1>1, <1>3, <2>1
         DEF JobHolds, Named, RowFirst, NotShutOut, OwnLink, Requested, openModel, OnlyJobs
    <2> QED
      BY <1>1, <1>3, <2>2, Stepped, DataKept DEF AccessInv, openModel, OnlyJobs, x
  <1> QED
    BY <1>2, <1>3 DEF openModel

LEMMA AfterRecordHolds ==
    ASSUME AccessInv, NEW j, At(j, "record"), AfterRecord(j), UNCHANGED <<story, banned>>
    PROVE  JobsHold'
  <1>1. JobHolds(job[j], story, banned) /\ j \in DOMAIN job /\ job[j] \in Job
        /\ job[j].pc = "record"
    BY DEF At, AccessInv, JobsHold
  <1>2. CASE End(j)
    BY <1>1, <1>2, Ended DEF AccessInv
  <1>3. CASE job[j].op = "fetch" /\ GoTo(j, "stream")
    <2> DEFINE x == [job[j] EXCEPT !.pc = "stream"]
    <2>1. x.op = "fetch" /\ x.pc = "stream" /\ x.user = job[j].user /\ x \in Job
          /\ x.link = job[j].link /\ x.shut = job[j].shut /\ x.model = job[j].model
      BY <1>1, <1>3 DEF Job
    <2> HIDE DEF x
    <2>2. JobHolds(x, story', banned')
      BY <1>1, <1>3, <2>1 DEF JobHolds, Named, RowFirst, NotShutOut, OwnLink, Requested
    <2> QED
      BY <1>1, <1>3, <2>2, Stepped DEF AccessInv, x
  <1> QED
    BY <1>2, <1>3 DEF AfterRecord

LEMMA RecordSafe ==
    ASSUME AccessInv, NEW j, record(j)
    PROVE  AccessInv'
  <1>1. JobHolds(job[j], story, banned) /\ job[j].pc = "record"
    BY DEF record, At, AccessInv, JobsHold
  <1>2. JobsHold'
    BY AfterRecordHolds DEF record
  <1>3. trail' \subseteq Users \X Models
    BY <1>1 DEF record, AccessInv, DataTyped, JobHolds, Named, Requested
  <1> QED
    BY <1>2, <1>3 DEF record, AccessInv, DataTyped

LEMMA MintSafe ==
    ASSUME AccessInv, NEW j, mintSlicerToken(j)
    PROVE  AccessInv'
  <1>1. JobHolds(job[j], story, banned) /\ j \in DOMAIN job /\ job[j].pc = "write"
        /\ job[j].op \in Requested
    BY DEF mintSlicerToken, At, AccessInv, JobsHold, Requested
  <1>2. JobsHold'
    BY <1>1, Ended DEF mintSlicerToken, AccessInv
  <1>3. link' \subseteq Users \X Models
    BY <1>1 DEF mintSlicerToken, AccessInv, DataTyped, JobHolds, Named
  <1> QED
    BY <1>2, <1>3 DEF mintSlicerToken, AccessInv, DataTyped

LEMMA ExpireSafe ==
    ASSUME AccessInv, NEW claim, expire(claim)
    PROVE  AccessInv'
  BY DEF AccessInv, JobsHold, JobHolds, DataTyped, expire

LEMMA DeleteStorySafe ==
    ASSUME AccessInv, NEW j, deleteStory(j)
    PROVE  AccessInv'
  <1>1. JobHolds(job[j], story, banned) /\ j \in DOMAIN job /\ job[j] \in Job
        /\ job[j].op = "withdraw" /\ job[j].pc = "write"
    BY DEF deleteStory, At, AccessInv, JobsHold
  <1>2. story' \subseteq story /\ banned' = banned /\ job[j].model \notin story'
    BY DEF deleteStory
  <1>3. CASE End(j)
    BY <1>1, <1>2, <1>3, Ended DEF AccessInv, DataTyped, deleteStory
  <1>4. CASE GoTo(j, "delete")
    <2> DEFINE x == [job[j] EXCEPT !.pc = "delete"]
    <2>1. x.op = "withdraw" /\ x.pc = "delete" /\ x.user = job[j].user /\ x \in Job
          /\ x.link = job[j].link /\ x.shut = job[j].shut /\ x.model = job[j].model
      BY <1>1 DEF Job
    <2> HIDE DEF x
    <2>2. JobHolds(x, story', banned')
      BY <1>1, <1>2, <2>1 DEF JobHolds, Named, RowFirst, NotShutOut, OwnLink, Requested
    <2>3. JobsHold'
      BY <1>1, <1>2, <1>4, <2>2, Stepped DEF AccessInv, x
    <2> QED
      BY <1>2, <2>3 DEF AccessInv, DataTyped, deleteStory
  <1> QED
    BY <1>3, <1>4 DEF deleteStory

LEMMA DeleteModelSafe ==
    ASSUME AccessInv, NEW j, deleteModel(j)
    PROVE  AccessInv'
  <1>1. JobHolds(job[j], story, banned) /\ j \in DOMAIN job
    BY DEF deleteModel, At, AccessInv, JobsHold
  <1>2. job[j].model \notin story
    BY <1>1 DEF deleteModel, At, JobHolds, RowFirst
  <1>3. JobsHold'
    BY <1>1, Ended DEF deleteModel, AccessInv
  <1> QED
    BY <1>2, <1>3 DEF deleteModel, AccessInv, DataTyped

LEMMA StreamSafe ==
    ASSUME AccessInv, NEW j, stream(j)
    PROVE  AccessInv'
  BY Ended, DataKept DEF AccessInv, stream, At, OnlyJobs

-----------------------------------------------------------------------------
\* What goes wrong

LEMMA FailSafe ==
    ASSUME AccessInv, NEW j, fail(j)
    PROVE  AccessInv'
  <1> USE AccessAssumption
  <1>1. JobsHold'
    <2>1. CASE At(j, "record") /\ AfterRecord(j)
      BY <2>1, AfterRecordHolds DEF fail
    <2>2. CASE End(j)
      BY <2>2, Ended DEF fail, AccessInv
    <2> QED
      BY <2>1, <2>2 DEF fail, At
  <1>2. mishaps' \in 0 .. MaxMishaps
    BY DEF fail, AccessInv, DataTyped
  <1> QED
    BY <1>1, <1>2 DEF fail, AccessInv, DataTyped

LEMMA CrashSafe ==
    ASSUME AccessInv, crash
    PROVE  AccessInv'
  <1> USE AccessAssumption
  <1>1. JobsHold'
    BY DEF crash, JobsHold, Nothing
  <1>2. mishaps' \in 0 .. MaxMishaps
    BY DEF crash, AccessInv, DataTyped
  <1> QED
    BY <1>1, <1>2 DEF crash, AccessInv, DataTyped

LEMMA StutterSafe ==
    ASSUME AccessInv, UNCHANGED accessVars
    PROVE  AccessInv'
  BY DEF AccessInv, JobsHold, DataTyped, accessVars

LEMMA InitSafe ==
    ASSUME AccessInit
    PROVE  AccessInv
  BY AccessAssumption DEF AccessInit, AccessInv, JobsHold, DataTyped, Nothing

LEMMA StepSafe ==
    ASSUME AccessInv, [AccessNext]_accessVars
    PROVE  AccessInv'
  <1>1. ASSUME NEW j \in Jobs, NEW u \in Users,
               signInAs(j, u) \/ \E revoke \in BOOLEAN : setMemberAccess(j, u, revoke)
        PROVE  AccessInv'
    BY <1>1, ChangeStarts, StartsWellSafe
  <1>2. ASSUME NEW j \in Jobs, NEW m \in Models,
               \/ \E t \in DOMAIN session : \E op \in {"render", "withdraw"} : openTicket(j, op, t, m)
               \/ \E t \in DOMAIN session \cup {None}, claim \in link \cup {NoLink} :
                     GET(j, t, claim, m)
        PROVE  AccessInv'
    BY <1>2, RequestStarts, StartsWellSafe
  <1>3. ASSUME NEW j \in Jobs,
               \/ createSession(j) \/ updateBanned(j) \/ deleteSessions(j)
               \/ enter(j) \/ findAccount(j) \/ findStory(j)
               \/ mintSlicerToken(j) \/ deleteStory(j) \/ deleteModel(j)
               \/ openModel(j) \/ stream(j) \/ record(j)
               \/ fail(j)
        PROVE  AccessInv'
    BY <1>3, CreateSessionSafe, UpdateBannedSafe, DeleteSessionsSafe, EnterSafe,
       FindAccountSafe, FindStorySafe, MintSafe, DeleteStorySafe, DeleteModelSafe,
       OpenModelSafe, StreamSafe, RecordSafe, FailSafe
  <1> QED
    BY <1>1, <1>2, <1>3, EndSessionSafe, ExpireSafe, CrashSafe, StutterSafe DEF AccessNext

\* The invariant on which the rest stands.
THEOREM AccessInvariant == AccessSpec => []AccessInv
  <1>1. AccessInit => AccessInv
    BY InitSafe
  <1>2. AccessInv /\ [AccessNext]_accessVars => AccessInv'
    BY StepSafe
  <1> QED
    BY <1>1, <1>2, PTL DEF AccessSpec

\* `banned` names members, every session is somebody's, a ticket that is there
\* has its file, and a link or a trail row names a person and a ticket: everything
\* has its type.
THEOREM AccessTypes == AccessSpec => []AccessTypeOK
  <1>1. AccessInv => AccessTypeOK
    BY DEF AccessInv, DataTyped, JobsHold, AccessTypeOK
  <1> QED
    BY <1>1, AccessInvariant, PTL

\* authz.ts, currentUser: a request that began while its person was suspended
\* does nothing for them, unless they have been let in again.
THEOREM NobodyShutOutIsServed == AccessSpec => []ShutOutMeansNothingHappens
  <1>1. AccessInv => ShutOutMeansNothingHappens
    BY DEF AccessInv, JobsHold, JobHolds, NotShutOut, Requested, ShutOutMeansNothingHappens
  <1> QED
    BY <1>1, AccessInvariant, PTL

\* slicer-token.ts, readSlicerToken: a link opens the ticket it was minted for,
\* to the one it was minted for.
THEOREM LinkOpensItsTicket == AccessSpec => []LinkOpensWhatItNames
  <1>1. AccessInv => LinkOpensWhatItNames
    BY DEF AccessInv, JobsHold, JobHolds, OwnLink, LinkOpensWhatItNames
  <1> QED
    BY <1>1, AccessInvariant, PTL

-----------------------------------------------------------------------------
\* Sessions and suspensions: while a session of somebody suspended is there that
\* no late sign-in opened, the revocation that will delete it is under way.

Others(j) == \A i \in DOMAIN job \ {j} : i \in DOMAIN job' /\ job'[i] = job[i]

\* Handlers on their way to delete sessions stay on it.
RevocationsStay ==
    \A i \in DOMAIN job : job[i].op = "revoke" /\ job[i].pc = "delete" =>
        /\ i \in DOMAIN job'
        /\ job'[i].op = "revoke" /\ job'[i].pc = "delete" /\ job'[i].user = job[i].user

NoNewSession ==
    \A t \in DOMAIN session' : t \in DOMAIN session /\ session'[t] = session[t]

LEMMA DoomedKept ==
    ASSUME Doomed, RevocationsStay, NoNewSession, banned' \subseteq banned,
           mishaps' = mishaps
    PROVE  Doomed'
  BY DEF Doomed, Revoking, RevocationsStay, NoNewSession

\* One request or sign-in moves on, ends, or begins.
LEMMA OthersStay ==
    ASSUME NEW j,
           \/ End(j) \/ (\E pc : GoTo(j, pc)) \/ (\E u, claim : LetIn(j, u, claim))
           \/ \E u : job' = [job EXCEPT ![j].pc = "account", ![j].user = u]
           \/ job' = [job EXCEPT ![j].op = "refused", ![j].pc = "record"]
    PROVE  Others(j)
  BY DEF Others, End, Drop, Restrict, GoTo, LetIn

LEMMA MovingDoomed ==
    ASSUME AccessInv, Doomed, NEW j,
           \/ enter(j) \/ findAccount(j) \/ findStory(j)
           \/ mintSlicerToken(j) \/ deleteStory(j) \/ deleteModel(j)
           \/ openModel(j) \/ stream(j) \/ record(j)
    PROVE  Doomed'
  <1>1. job[j].pc # "delete" \/ job[j].op # "revoke"
    BY DEF enter, findAccount, findStory, mintSlicerToken, deleteStory, deleteModel,
           openModel, stream, record, At
  <1>2. UNCHANGED <<session, banned, mishaps>>
    BY DEF enter, findAccount, findStory, mintSlicerToken, deleteStory, deleteModel,
           openModel, stream, record, OnlyJobs
  <1>3. Others(j)
    <2>1. CASE enter(j)
      BY <2>1, OthersStay DEF enter
    <2>2. CASE findAccount(j)
      BY <2>2, OthersStay DEF findAccount
    <2>3. CASE findStory(j)
      BY <2>3, OthersStay DEF findStory
    <2>4. CASE openModel(j)
      BY <2>4, OthersStay DEF openModel
    <2>5. CASE record(j)
      BY <2>5, OthersStay DEF record, AfterRecord
    <2>6. CASE mintSlicerToken(j) \/ deleteStory(j) \/ deleteModel(j) \/ stream(j)
      BY <2>6, OthersStay DEF mintSlicerToken, deleteStory, deleteModel, stream
    <2> QED
      BY <2>1, <2>2, <2>3, <2>4, <2>5, <2>6
  <1>4. RevocationsStay
    BY <1>1, <1>3 DEF Others, RevocationsStay
  <1> QED
    BY <1>2, <1>4, DoomedKept DEF NoNewSession

LEMMA CreateSessionDoomed ==
    ASSUME AccessInv, Doomed, NEW j, createSession(j)
    PROVE  Doomed'
  <1>1. PICK t \in Sessions \ DOMAIN session :
           session' = Put(session, t, [user |-> job[j].user, late |-> job[j].user \in banned])
    BY DEF createSession
  <1>2. /\ DOMAIN session' = DOMAIN session \cup {t}
        /\ \A s \in DOMAIN session : session'[s] = session[s]
        /\ session'[t].user = job[j].user /\ (job[j].user \in banned => session'[t].late)
    BY <1>1 DEF Put
  <1>3. Others(j) /\ job[j].op = "signIn"
    BY OthersStay DEF createSession
  <1>4. \A u : Revoking(u) => Revoking(u)'
    BY <1>3 DEF Others, Revoking
  <1> QED
    BY <1>2, <1>4 DEF Doomed, createSession

LEMMA UpdateBannedDoomed ==
    ASSUME AccessInv, Doomed, NEW j, updateBanned(j)
    PROVE  Doomed'
  <1> DEFINE u == job[j].user
             Stays(v) == \E i \in DOMAIN job' :
                            job'[i].op = "revoke" /\ job'[i].pc = "delete" /\ job'[i].user = v
  <1>1. j \in DOMAIN job /\ job[j].pc = "write" /\ UNCHANGED <<session, mishaps>>
        /\ \A i \in DOMAIN job : job[i] \in Job
    BY DEF updateBanned, At, AccessInv, JobsHold
  <1>2. CASE job[j].op = "revoke" /\ banned' = banned \cup {u} /\ GoTo(j, "delete")
    <2>1. Stays(u)
      <3>1. j \in DOMAIN job' /\ job'[j] = [job[j] EXCEPT !.pc = "delete"]
        BY <1>1, <1>2 DEF GoTo
      <3>2. job'[j].op = "revoke" /\ job'[j].pc = "delete" /\ job'[j].user = u
        BY <1>1, <1>2, <3>1 DEF Job
      <3> QED
        BY <3>1, <3>2
    <2>2. Others(j)
      BY <1>2, OthersStay
    <2>3. ASSUME NEW v, Revoking(v)
          PROVE  Stays(v)
      <3>1. PICK i \in DOMAIN job : job[i].op = "revoke" /\ job[i].pc = "delete" /\ job[i].user = v
        BY <2>3 DEF Revoking
      <3>2. i \in DOMAIN job' /\ job'[i] = job[i]
        BY <1>1, <2>2, <3>1 DEF Others
      <3> QED
        BY <3>1, <3>2
    <2> HIDE DEF u, Stays
    <2>4. ASSUME NEW t \in DOMAIN session
          PROVE  session[t].user \notin banned' \/ session[t].late \/ mishaps > 0
                 \/ Stays(session[t].user)
      BY <1>2, <2>1, <2>3 DEF Doomed
    <2> QED
      BY <1>1, <2>4 DEF Doomed, Revoking, Stays
  <1>3. CASE /\ job[j].op = "restore" /\ banned' = banned \ {u}
             /\ job' = [Reopened(u) EXCEPT ![j].pc = "record"]
    <2>1. ASSUME NEW i \in DOMAIN job \ {j}
          PROVE  /\ i \in DOMAIN job' /\ job'[i] = [job[i] EXCEPT !.shut = @ \ {u}]
                 /\ job'[i].op = job[i].op /\ job'[i].pc = job[i].pc /\ job'[i].user = job[i].user
      <3>1. i \in DOMAIN job' /\ job'[i] = [job[i] EXCEPT !.shut = @ \ {u}]
        BY <1>3 DEF Reopened
      <3> QED
        BY <1>1, <3>1 DEF Job
    <2>2. RevocationsStay
      BY <1>1, <1>3, <2>1 DEF RevocationsStay
    <2> QED
      BY <1>1, <1>3, <2>2, DoomedKept DEF NoNewSession
  <1> QED
    BY <1>2, <1>3 DEF updateBanned

\* The revocation's own step: every session of its person goes.
LEMMA DeleteSessionsDoomed ==
    ASSUME AccessInv, Doomed, NEW j, deleteSessions(j)
    PROVE  Doomed'
  <1>1. Others(j) /\ UNCHANGED <<banned, mishaps>>
    BY OthersStay DEF deleteSessions
  <1>2. \A t \in DOMAIN session' :
           t \in DOMAIN session /\ session'[t] = session[t] /\ session[t].user # job[j].user
    BY DEF deleteSessions, Restrict
  <1>3. \A u : u # job[j].user /\ Revoking(u) => Revoking(u)'
    BY <1>1 DEF Others, Revoking
  <1> QED
    BY <1>1, <1>2, <1>3 DEF Doomed

LEMMA DoomedStep ==
    ASSUME AccessInv, Doomed, [AccessNext]_accessVars
    PROVE  Doomed'
  <1>1. ASSUME NEW j, StartsWell(j)
        PROVE  Doomed'
    BY <1>1, StartsWellSafe, DoomedKept DEF StartsWell, OnlyJobs, RevocationsStay, NoNewSession
  <1>2. ASSUME NEW j \in Jobs, NEW u \in Users,
               signInAs(j, u) \/ \E revoke \in BOOLEAN : setMemberAccess(j, u, revoke)
        PROVE  Doomed'
    BY <1>1, <1>2, ChangeStarts
  <1>3. ASSUME NEW j \in Jobs, NEW m \in Models,
               \/ \E t \in DOMAIN session : \E op \in {"render", "withdraw"} : openTicket(j, op, t, m)
               \/ \E t \in DOMAIN session \cup {None}, claim \in link \cup {NoLink} :
                     GET(j, t, claim, m)
        PROVE  Doomed'
    BY <1>1, <1>3, RequestStarts
  <1>4. ASSUME NEW j \in Jobs, fail(j)
        PROVE  Doomed'
    BY <1>4, AccessAssumption DEF fail, Doomed, AccessInv, DataTyped
  <1>5. ASSUME NEW t, endSession(t)
        PROVE  Doomed'
    BY <1>5, DoomedKept DEF endSession, Drop, Restrict, NoNewSession, RevocationsStay
  <1>6. ASSUME UNCHANGED <<job, session, banned, mishaps>>
        PROVE  Doomed'
    BY <1>6 DEF Doomed, Revoking
  <1>7. ASSUME NEW j \in Jobs,
               \/ createSession(j) \/ updateBanned(j) \/ deleteSessions(j)
               \/ enter(j) \/ findAccount(j) \/ findStory(j)
               \/ mintSlicerToken(j) \/ deleteStory(j) \/ deleteModel(j)
               \/ openModel(j) \/ stream(j) \/ record(j)
        PROVE  Doomed'
    BY <1>7, CreateSessionDoomed, UpdateBannedDoomed, DeleteSessionsDoomed, MovingDoomed
  <1>8. ASSUME crash
        PROVE  Doomed'
    BY <1>8, AccessAssumption DEF crash, Doomed, AccessInv, DataTyped
  <1>9. CASE UNCHANGED accessVars \/ \E claim \in link : expire(claim)
    BY <1>6, <1>9 DEF accessVars, expire
  <1> QED
    BY <1>2, <1>3, <1>4, <1>5, <1>7, <1>8, <1>9 DEF AccessNext

\* setMemberAccessAction: after a revocation that was not cut short, the only
\* sessions of the suspended are those a sign-in under way opened since.
THEOREM AccessTakesItsSessions == AccessSpec => []SessionsDieWithAccess
  <1>1. AccessInit => Doomed
    BY DEF AccessInit, Doomed, Nothing
  <1>2. AccessInv /\ Doomed /\ [AccessNext]_accessVars => Doomed'
    BY DoomedStep
  <1>3. Doomed => SessionsDieWithAccess
    BY DEF Doomed, Revoking, SessionsDieWithAccess, At
  <1> QED
    BY <1>1, <1>2, <1>3, AccessInvariant, PTL DEF AccessSpec

-----------------------------------------------------------------------------
\* Whole seconds

\* What the quotient of a division is between.
LEMMA Division ==
    ASSUME NEW a \in Int, NEW b \in Nat \ {0}
    PROVE  /\ a \div b \in Int
           /\ b * (a \div b) <= a
           /\ a < b * (a \div b) + b
  OBVIOUS

LEMMA Distributes ==
    ASSUME NEW a \in Int, NEW b \in Int, NEW c \in Int
    PROVE  a * (b - c) = a * b - a * c
  OBVIOUS

LEMMA Grows ==
    ASSUME NEW s \in Nat \ {0}, NEW a \in Int, NEW b \in Int, a <= b
    PROVE  s * a <= s * b
  <1>1. s * (b - a) >= 0
    OBVIOUS
  <1>2. s * (b - a) = s * b - s * a
    BY Distributes
  <1>3. s * a \in Int /\ s * b \in Int
    OBVIOUS
  <1> QED
    BY <1>1, <1>2, <1>3

\* A session too old to be fresh at `n`, and the one case in which it is.
TooOld(created, n) == n - created >= SECOND * (FRESH_AUTH_SECONDS + 1)

LEMMA FreshIsYoung ==
    ASSUME NEW created \in Int, NEW n \in Int,
           isFreshAuth(created, n) \/ freshEnoughToLink(created, n)
    PROVE  ~TooOld(created, n)
  <1> USE OidcFlowAssumption
  <1>0. SECOND * (FRESH_AUTH_SECONDS + 1) = SECOND * FRESH_AUTH_SECONDS + SECOND
    OBVIOUS
  <1>1. CASE freshEnoughToLink(created, n)
    <2>1. FRESH_AUTH_SECONDS * SECOND = SECOND * FRESH_AUTH_SECONDS
      OBVIOUS
    <2>2. SECOND * FRESH_AUTH_SECONDS \in Int
      OBVIOUS
    <2> QED
      BY <1>0, <1>1, <2>1, <2>2 DEF freshEnoughToLink, TooOld
  <1>2. CASE isFreshAuth(created, n)
    <2> DEFINE age == (n - created) \div SECOND
    <2>1. n >= created /\ age <= FRESH_AUTH_SECONDS
      BY <1>2 DEF isFreshAuth, authAgeSeconds, Missing
    <2>2. age \in Int /\ n - created < SECOND * age + SECOND
      BY Division
    <2> HIDE DEF age
    <2>3. SECOND * age <= SECOND * FRESH_AUTH_SECONDS
      BY <2>1, <2>2, Grows
    <2>4. SECOND * age \in Int /\ SECOND * FRESH_AUTH_SECONDS \in Int
      BY <2>2
    <2> QED
      BY <1>0, <2>2, <2>3, <2>4 DEF TooOld
  <1> QED
    BY <1>1, <1>2

\* Whatever the provider's clock is off by, a session is dated less than a
\* second after somebody typed something, or too old to be fresh.
LEMMA ToldDated ==
    ASSUME NEW n \in Nat, NEW typed \in 0 .. n, NEW off \in Int
    PROVE  LET claims == [iat |-> (n \div SECOND) + off,
                          auth_time |-> (typed \div SECOND) + off]
               created == ssoAuthenticatedAt(claims, n) IN
           created \in Int /\ (created - typed < SECOND \/ TooOld(created, n))
  <1> USE OidcFlowAssumption
  <1> DEFINE a == n \div SECOND
             b == typed \div SECOND
             claims == [iat |-> a + off, auth_time |-> b + off]
             age == authAgeAtIssue(claims, n)
  <1>1. a \in Int /\ b \in Int /\ n < SECOND * a + SECOND /\ SECOND * b <= typed
    BY Division
  <1> HIDE DEF a, b
  <1>2. age = Missing \/ age = a - b
    BY <1>1 DEF authAgeAtIssue
  <1>3. SECOND * a \in Int /\ SECOND * b \in Int /\ SECOND * (a - b) = SECOND * a - SECOND * b
    BY <1>1, Distributes
  <1>4. SECOND * (FRESH_AUTH_SECONDS + 1) \in Int
    OBVIOUS
  <1>5. CASE age # Missing
    <2>1. ssoAuthenticatedAt(claims, n) = n - (SECOND * a - SECOND * b)
      BY <1>2, <1>3, <1>5 DEF ssoAuthenticatedAt
    <2> QED
      BY <1>1, <1>3, <2>1 DEF a, b
  <1>6. CASE age = Missing
    <2>1. ssoAuthenticatedAt(claims, n) = n - SECOND * (FRESH_AUTH_SECONDS + 1)
      BY <1>6 DEF ssoAuthenticatedAt
    <2> QED
      BY <1>4, <2>1 DEF TooOld, a, b
  <1> QED
    BY <1>5, <1>6

\* A sign-in of which the provider does not say when is too old.
LEMMA UntoldDated ==
    ASSUME NEW n \in Nat, NEW claims, claims.iat \in Int,
           claims.auth_time = Missing \/ claims.auth_time = claims.iat + 1
    PROVE  LET created == ssoAuthenticatedAt(claims, n) IN
           created \in Int /\ TooOld(created, n)
  <1> USE OidcFlowAssumption
  <1>1. authAgeAtIssue(claims, n) = Missing
    BY DEF authAgeAtIssue, finite
  <1>2. ssoAuthenticatedAt(claims, n) = n - SECOND * (FRESH_AUTH_SECONDS + 1)
    BY <1>1 DEF ssoAuthenticatedAt
  <1>3. SECOND * (FRESH_AUTH_SECONDS + 1) \in Int
    OBVIOUS
  <1> QED
    BY <1>2, <1>3 DEF TooOld

-----------------------------------------------------------------------------
\* The invariant

\* A request, an answer or a cookie names a token that was handed out; that is
\* why signing out ends a session that existed.
RequestHolds(q, out) ==
    /\ q \in Request
    /\ q.token \in out \cup {None}
    /\ q.sets \in out \cup {"keep", "delete"}
    /\ q.pc \in {"arrived", "slide"} => q.token # None

\* A row is dated by a proof or too old, was not used in the future, and
\* expires no later than its window after it was used.
RowHolds(x, n) ==
    /\ x \in Row
    /\ x.used <= n /\ x.expires <= x.used + SESSION_IDLE
    /\ x.created - x.proven < SECOND \/ TooOld(x.created, n)

NotSliding(t, q) == \A r \in DOMAIN q : q[r].pc = "slide" => q[r].token # t

\* Nor much earlier, unless the push is still to come.
Pushed(x) == x.expires > x.used + SESSION_IDLE - UPDATE_AGE - 1

ClockHolds == now \in 0 .. MaxTime /\ issued \subseteq Tokens /\ ended \subseteq issued

CookieHolds == /\ cookie \in [token: Tokens \cup {None}, until: 0 .. MaxTime + SESSION_IDLE]
               /\ cookie.token \in issued \cup {None}

RequestsHold == /\ DOMAIN req \subseteq Requests /\ req \in [DOMAIN req -> Request]
                /\ \A r \in DOMAIN req : RequestHolds(req[r], issued)

RowsHold == /\ DOMAIN row \subseteq issued /\ row \in [DOMAIN row -> Row]
            /\ \A t \in DOMAIN row :
                  RowHolds(row[t], now) /\ (NotSliding(t, req) => Pushed(row[t]))

ClockInv == ClockHolds /\ CookieHolds /\ RequestsHold /\ RowsHold /\ SignedOutStaysOut

-----------------------------------------------------------------------------
\* The requests

\* A request leaves, or a sign-in is answered.
LEMMA RequestAdded ==
    ASSUME RequestsHold, issued \subseteq issued', NEW r \in Requests \ DOMAIN req, NEW x,
           RequestHolds(x, issued'), req' = Put(req, r, x)
    PROVE  /\ RequestsHold'
           /\ \A t : NotSliding(t, req') => NotSliding(t, req)
  <1>1. /\ DOMAIN req' = DOMAIN req \cup {r} /\ req'[r] = x
        /\ \A y \in DOMAIN req : req'[y] = req[y]
    BY DEF Put
  <1>2. DOMAIN req' \subseteq Requests /\ req' \in [DOMAIN req' -> Request]
    BY Extended DEF RequestsHold, RequestHolds
  <1>3. \A y \in DOMAIN req' : RequestHolds(req'[y], issued')
    BY <1>1 DEF RequestsHold, RequestHolds
  <1>4. ASSUME NEW t, NotSliding(t, req') PROVE NotSliding(t, req)
    BY <1>1, <1>4 DEF NotSliding
  <1> QED
    BY <1>2, <1>3, <1>4 DEF RequestsHold

\* A request goes on; only a push that ends is one fewer.
LEMMA RequestMoved ==
    ASSUME RequestsHold, issued \subseteq issued', NEW r \in DOMAIN req, NEW x,
           RequestHolds(x, issued'), req' = [req EXCEPT ![r] = x]
    PROVE  /\ RequestsHold'
           /\ \A t : t # req[r].token \/ req[r].pc # "slide" =>
                 (NotSliding(t, req') => NotSliding(t, req))
  <1>1. /\ DOMAIN req' = DOMAIN req /\ req'[r] = x
        /\ \A y \in DOMAIN req \ {r} : req'[y] = req[y]
        /\ req' \in [DOMAIN req' -> Request]
    BY DEF RequestsHold, RequestHolds
  <1>2. \A y \in DOMAIN req' : RequestHolds(req'[y], issued')
    BY <1>1 DEF RequestsHold, RequestHolds
  <1>3. ASSUME NEW t, t # req[r].token \/ req[r].pc # "slide", NotSliding(t, req')
        PROVE  NotSliding(t, req)
    BY <1>1, <1>3 DEF NotSliding
  <1> QED
    BY <1>1, <1>2, <1>3 DEF RequestsHold

\* An answer arrives.
LEMMA RequestDropped ==
    ASSUME RequestsHold, issued' = issued, NEW r \in DOMAIN req, req[r].pc # "slide",
           req' = Drop(req, r)
    PROVE  /\ RequestsHold'
           /\ \A t : NotSliding(t, req') => NotSliding(t, req)
  <1>1. DOMAIN req' = DOMAIN req \ {r} /\ \A y \in DOMAIN req' : req'[y] = req[y]
    BY DEF Drop, Restrict
  <1>2. DOMAIN req' \subseteq Requests /\ req' \in [DOMAIN req' -> Request]
    BY Dropped DEF RequestsHold
  <1>3. \A y \in DOMAIN req' : RequestHolds(req'[y], issued')
    BY <1>1 DEF RequestsHold
  <1>4. ASSUME NEW t, NotSliding(t, req') PROVE NotSliding(t, req)
    BY <1>1, <1>4 DEF NotSliding
  <1> QED
    BY <1>2, <1>3, <1>4 DEF RequestsHold

\* An answer sets what the request was to set, or takes the cookie away.
LEMMA Answered ==
    ASSUME ClockInv, NEW r \in DOMAIN req, NEW sets, sets \in issued \cup {"keep", "delete"},
           Answer(r, sets), issued' = issued
    PROVE  /\ RequestsHold'
           /\ \A t : t # req[r].token \/ req[r].pc # "slide" =>
                 (NotSliding(t, req') => NotSliding(t, req))
  <1> DEFINE x == [req[r] EXCEPT !.pc = "answered", !.token = None, !.sets = sets]
  <1>1. req[r] \in Request
    BY DEF ClockInv, RequestsHold
  <1>2. RequestHolds(x, issued')
    BY <1>1 DEF RequestHolds, Request, ClockInv, ClockHolds
  <1>3. req' = [req EXCEPT ![r] = x]
    BY DEF Answer
  <1> HIDE DEF x
  <1> QED
    BY <1>2, <1>3, RequestMoved DEF ClockInv

-----------------------------------------------------------------------------
\* The rows

\* The rows stay, and no push ends.
LEMMA RowsUntouched ==
    ASSUME ClockInv, UNCHANGED <<now, row>>, issued \subseteq issued',
           \A t \in DOMAIN row : NotSliding(t, req') => NotSliding(t, req)
    PROVE  RowsHold'
  BY DEF ClockInv, RowsHold

\* A row goes.
LEMMA RowsDropped ==
    ASSUME ClockInv, UNCHANGED <<now, issued>>, NEW u, row' = Drop(row, u),
           \A t \in DOMAIN row : t # u => (NotSliding(t, req') => NotSliding(t, req))
    PROVE  /\ RowsHold'
           /\ DOMAIN row' = DOMAIN row \ {u}
  <1>1. DOMAIN row' = DOMAIN row \ {u} /\ \A t \in DOMAIN row' : row'[t] = row[t]
    BY DEF Drop, Restrict
  <1>2. row' \in [DOMAIN row' -> Row]
    BY Dropped DEF ClockInv, RowsHold
  <1> QED
    BY <1>1, <1>2 DEF ClockInv, RowsHold

\* One row is used, and perhaps pushed.
LEMMA RowUsed ==
    ASSUME ClockInv, UNCHANGED <<now, issued>>, NEW u \in DOMAIN row, NEW until \in Int,
           until <= now + SESSION_IDLE,
           row' = [row EXCEPT ![u] = [@ EXCEPT !.expires = until, !.used = now]],
           NotSliding(u, req') => until > now + SESSION_IDLE - UPDATE_AGE - 1,
           \A t \in DOMAIN row : t # u => (NotSliding(t, req') => NotSliding(t, req))
    PROVE  /\ RowsHold'
           /\ DOMAIN row' = DOMAIN row
  <1> DEFINE x == [row[u] EXCEPT !.expires = until, !.used = now]
  <1>0. now \in Int
    BY DEF ClockInv, ClockHolds
  <1>1. row[u] \in Row /\ RowHolds(row[u], now)
    BY DEF ClockInv, RowsHold
  <1>2. /\ x \in Row /\ x.used = now /\ x.expires = until
        /\ x.created = row[u].created /\ x.proven = row[u].proven
    BY <1>0, <1>1 DEF Row
  <1>3. row' = [row EXCEPT ![u] = x]
    OBVIOUS
  <1> HIDE DEF x
  <1>4. RowHolds(x, now) /\ (NotSliding(u, req') => Pushed(x))
    BY <1>0, <1>1, <1>2 DEF RowHolds, Pushed
  <1>5. DOMAIN row' = DOMAIN row /\ row'[u] = x /\ row' \in [DOMAIN row' -> Row]
        /\ \A t \in DOMAIN row \ {u} : row'[t] = row[t]
    BY <1>2, <1>3 DEF ClockInv, RowsHold
  <1>6. ASSUME NEW t \in DOMAIN row'
        PROVE  RowHolds(row'[t], now') /\ (NotSliding(t, req') => Pushed(row'[t]))
    <2>1. CASE t = u
      BY <1>4, <1>5, <2>1
    <2>2. CASE t # u
      BY <1>5, <1>6, <2>2 DEF ClockInv, RowsHold
    <2> QED
      BY <2>1, <2>2
  <1> QED
    BY <1>5, <1>6 DEF RowsHold, ClockInv

\* A session is opened with a token never handed out.
LEMMA OpenKeeps ==
    ASSUME ClockInv, NEW r \in Requests \ DOMAIN req, NEW at \in Int, NEW proven \in Int,
           at - proven < SECOND \/ TooOld(at, now), OpenSession(r, at, proven)
    PROVE  ClockInv'
  <1> DEFINE x == [created |-> at, expires |-> now + SESSION_IDLE, proven |-> proven,
                   used |-> now]
  <1>0. now \in Int /\ SESSION_IDLE \in Int /\ UPDATE_AGE \in 0 .. SESSION_IDLE
    BY SessionClockAssumption DEF ClockInv, ClockHolds
  <1>1. PICK t \in Tokens \ issued :
            /\ row' = Put(row, t, x)
            /\ issued' = issued \cup {t}
            /\ req' = Put(req, r, [kind |-> "signin", pc |-> "answered",
                                   token |-> None, sets |-> t])
            /\ UNCHANGED <<now, cookie, ended>>
    BY DEF OpenSession
  <1>2. x \in Row /\ RowHolds(x, now) /\ Pushed(x)
    BY <1>0 DEF Row, RowHolds, Pushed
  <1>3. RequestHolds([kind |-> "signin", pc |-> "answered", token |-> None, sets |-> t],
                     issued')
    BY <1>1 DEF RequestHolds, Request
  <1>4. RequestsHold' /\ \A u : NotSliding(u, req') => NotSliding(u, req)
    BY <1>1, <1>3, RequestAdded DEF ClockInv
  <1> HIDE DEF x
  <1>5. t \notin DOMAIN row
    BY <1>1 DEF ClockInv, RowsHold
  <1>6. /\ DOMAIN row' = DOMAIN row \cup {t} /\ row'[t] = x
        /\ \A u \in DOMAIN row : row'[u] = row[u]
    BY <1>1, <1>5 DEF Put
  <1>7. row' \in [DOMAIN row' -> Row]
    BY <1>2, <1>6, <1>1 DEF ClockInv, RowsHold, Put
  <1>8. ASSUME NEW u \in DOMAIN row'
        PROVE  RowHolds(row'[u], now') /\ (NotSliding(u, req') => Pushed(row'[u]))
    <2>1. CASE u = t
      BY <1>1, <1>2, <1>6, <2>1
    <2>2. CASE u # t
      BY <1>1, <1>4, <1>6, <1>8, <2>2 DEF ClockInv, RowsHold
    <2> QED
      BY <2>1, <2>2
  <1>9. RowsHold'
    BY <1>1, <1>6, <1>7, <1>8 DEF RowsHold, ClockInv
  <1>10. SignedOutStaysOut'
    BY <1>1, <1>6 DEF SignedOutStaysOut, ClockInv, ClockHolds
  <1> QED
    BY <1>1, <1>4, <1>9, <1>10 DEF ClockInv, ClockHolds, CookieHolds

-----------------------------------------------------------------------------
\* The steps

LEMMA TickKeeps == ASSUME ClockInv, tick PROVE ClockInv'
  <1>1. /\ now' = now + 1 /\ now' \in 0 .. MaxTime
        /\ UNCHANGED <<row, cookie, req, issued, ended>>
    BY SessionClockAssumption DEF tick, ClockInv, ClockHolds
  <1>2. ASSUME NEW t \in DOMAIN row
        PROVE  RowHolds(row[t], now')
    <2>1. row[t] \in Row /\ RowHolds(row[t], now) /\ now \in Int
      BY DEF ClockInv, RowsHold, ClockHolds
    <2>2. SECOND * (FRESH_AUTH_SECONDS + 1) \in Int
      BY OidcFlowAssumption
    <2> QED
      BY <1>1, <2>1, <2>2 DEF RowHolds, TooOld, Row
  <1> QED
    BY <1>1, <1>2 DEF ClockInv, ClockHolds, CookieHolds, RequestsHold, RowsHold,
                      SignedOutStaysOut

LEMMA SendKeeps ==
    ASSUME ClockInv, NEW r \in Requests, NEW kind \in {"page", "api", "signout"}, send(r, kind)
    PROVE  ClockInv'
  <1> DEFINE x == [kind |-> kind, pc |-> "arrived", token |-> Held,
                   sets |-> restampSession(kind, Held)]
  <1>1. /\ r \in Requests \ DOMAIN req /\ req' = Put(req, r, x)
        /\ UNCHANGED <<now, row, cookie, issued, ended>>
    BY DEF send
  <1>2. Held \in issued /\ Held # None /\ Held \in Tokens
    BY DEF send, Held, ClockInv, CookieHolds, ClockHolds
  <1>3. RequestHolds(x, issued')
    BY <1>1, <1>2 DEF RequestHolds, Request, restampSession
  <1> HIDE DEF x
  <1>4. RequestsHold' /\ \A t : NotSliding(t, req') => NotSliding(t, req)
    BY <1>1, <1>3, RequestAdded DEF ClockInv
  <1>5. RowsHold'
    BY <1>1, <1>4, RowsUntouched
  <1> QED
    BY <1>1, <1>4, <1>5 DEF ClockInv, ClockHolds, CookieHolds, SignedOutStaysOut

LEMMA ReceiveKeeps ==
    ASSUME ClockInv, NEW r \in Requests, receive(r)
    PROVE  ClockInv'
  <1>1. /\ r \in DOMAIN req /\ req[r].pc = "answered" /\ req' = Drop(req, r)
        /\ UNCHANGED <<now, row, issued, ended>>
    BY DEF receive
  <1>2. RequestsHold' /\ \A t : NotSliding(t, req') => NotSliding(t, req)
    BY <1>1, RequestDropped DEF ClockInv
  <1>3. RowsHold'
    BY <1>1, <1>2, RowsUntouched
  <1>4. req[r].sets \in issued \cup {"keep", "delete"}
    BY <1>1 DEF ClockInv, RequestsHold, RequestHolds
  <1>5. now + SESSION_IDLE \in 0 .. MaxTime + SESSION_IDLE
    BY SessionClockAssumption DEF ClockInv, ClockHolds
  <1>6. CookieHolds'
    <2>1. CASE req[r].sets = "keep"
      BY <1>1, <2>1 DEF receive, ClockInv, CookieHolds
    <2>2. CASE req[r].sets = "delete"
      BY <1>1, <2>2, SessionClockAssumption DEF receive, CookieHolds
    <2>3. CASE req[r].sets \notin {"keep", "delete"}
      <3>1. cookie' = [token |-> req[r].sets, until |-> now + SESSION_IDLE]
        BY <2>3 DEF receive, cookieUntil
      <3> QED
        BY <1>1, <1>4, <1>5, <2>3, <3>1 DEF CookieHolds, ClockInv, ClockHolds
    <2> QED
      BY <2>1, <2>2, <2>3
  <1> QED
    BY <1>1, <1>2, <1>3, <1>6 DEF ClockInv, ClockHolds, SignedOutStaysOut

\* What is done to the rows and the requests keeps the rest.
LEMMA ServerKeeps ==
    ASSUME ClockInv, UNCHANGED <<now, cookie, issued, ended>>, RequestsHold', RowsHold',
           DOMAIN row' \subseteq DOMAIN row
    PROVE  ClockInv'
  BY DEF ClockInv, ClockHolds, CookieHolds, SignedOutStaysOut

LEMMA GetSessionKeeps ==
    ASSUME ClockInv, NEW r \in Requests, getSession(r)
    PROVE  ClockInv'
  <1> DEFINE u == req[r].token
  <1>1. /\ r \in DOMAIN req /\ req[r].pc = "arrived"
        /\ UNCHANGED <<now, cookie, issued, ended>>
    BY DEF getSession
  <1>2. req[r] \in Request /\ RequestHolds(req[r], issued)
    BY <1>1 DEF ClockInv, RequestsHold
  <1>3. /\ now \in Int /\ SESSION_IDLE \in Int /\ UPDATE_AGE \in Int
        /\ UPDATE_AGE <= SESSION_IDLE
    BY SessionClockAssumption DEF ClockInv, ClockHolds
  <1>4. CASE Live(u)
    <2>1. /\ u \in DOMAIN row /\ row[u] \in Row /\ RowHolds(row[u], now)
          /\ row' = [row EXCEPT ![u] = [@ EXCEPT !.expires = row[u].expires, !.used = now]]
      <3>1. u \in DOMAIN row /\ row[u] \in Row /\ RowHolds(row[u], now)
        BY <1>4 DEF Live, ClockInv, RowsHold
      <3>2. row' = [row EXCEPT ![u].used = now]
        BY <1>4 DEF getSession
      <3>3. [row[u] EXCEPT !.used = now]
                = [row[u] EXCEPT !.expires = row[u].expires, !.used = now]
        BY <3>1 DEF Row
      <3> QED
        BY <3>1, <3>2, <3>3
    <2>2. /\ row[u].expires \in Int /\ row[u].used \in Int
          /\ row[u].expires <= now + SESSION_IDLE
      BY <1>3, <2>1 DEF RowHolds, Row
    <2>3. CASE due(u)
      <3> DEFINE x == [req[r] EXCEPT !.pc = "slide"]
      <3>1. req' = [req EXCEPT ![r] = x]
        BY <1>4, <2>3 DEF getSession
      <3>2. RequestHolds(x, issued') /\ x.token = u /\ x.pc = "slide"
        BY <1>1, <1>2 DEF RequestHolds, Request
      <3> HIDE DEF x
      <3>3. RequestsHold' /\ \A t : NotSliding(t, req') => NotSliding(t, req)
        BY <1>1, <3>1, <3>2, RequestMoved DEF ClockInv
      <3>4. ~NotSliding(u, req')
        BY <1>1, <3>1, <3>2 DEF NotSliding
      <3> HIDE DEF u
      <3>5. RowsHold' /\ DOMAIN row' = DOMAIN row
        BY <1>1, <2>1, <2>2, <3>3, <3>4, RowUsed
      <3> QED
        BY <1>1, <3>3, <3>5, ServerKeeps
    <2>4. CASE ~due(u)
      <3>1. Answer(r, req[r].sets)
        BY <1>4, <2>4 DEF getSession
      <3>2. RequestsHold' /\ \A t : NotSliding(t, req') => NotSliding(t, req)
        BY <1>1, <1>2, <3>1, Answered DEF RequestHolds
      <3>3. row[u].expires > now + SESSION_IDLE - UPDATE_AGE - 1
        BY <1>3, <2>2, <2>4 DEF due
      <3> HIDE DEF u
      <3>4. RowsHold' /\ DOMAIN row' = DOMAIN row
        BY <1>1, <2>1, <2>2, <3>2, <3>3, RowUsed
      <3> QED
        BY <1>1, <3>2, <3>4, ServerKeeps
    <2> QED
      BY <2>3, <2>4
  <1>5. CASE ~Live(u)
    <2> DEFINE sets == IF req[r].kind = "api" THEN "delete" ELSE req[r].sets
    <2>1. Answer(r, sets) /\ row' = Drop(row, u)
      BY <1>5 DEF getSession
    <2>2. sets \in issued \cup {"keep", "delete"}
      BY <1>2 DEF RequestHolds
    <2> HIDE DEF sets, u
    <2>3. RequestsHold' /\ \A t : NotSliding(t, req') => NotSliding(t, req)
      BY <1>1, <2>1, <2>2, Answered
    <2>4. RowsHold' /\ DOMAIN row' \subseteq DOMAIN row
      BY <1>1, <2>1, <2>3, RowsDropped
    <2> QED
      BY <1>1, <2>3, <2>4, ServerKeeps
  <1> QED
    BY <1>4, <1>5

LEMMA SlideKeeps ==
    ASSUME ClockInv, NEW r \in Requests, slideSession(r)
    PROVE  ClockInv'
  <1> DEFINE u == req[r].token
  <1>1. /\ r \in DOMAIN req /\ req[r].pc = "slide" /\ Answer(r, SlidCookie(r))
        /\ UNCHANGED <<now, cookie, issued, ended>>
    BY DEF slideSession
  <1>2. RequestHolds(req[r], issued)
    BY <1>1 DEF ClockInv, RequestsHold
  <1>3. now \in Int /\ SESSION_IDLE \in Int /\ UPDATE_AGE \in 0 .. SESSION_IDLE
    BY SessionClockAssumption DEF ClockInv, ClockHolds
  <1>4. /\ RequestsHold'
        /\ \A t : t # u => (NotSliding(t, req') => NotSliding(t, req))
    <2>1. SlidCookie(r) \in issued \cup {"keep", "delete"}
      BY <1>1, <1>2 DEF SlidCookie, RequestHolds
    <2> QED
      BY <1>1, <2>1, Answered
  <1> HIDE DEF u
  <1>5. RowsHold' /\ DOMAIN row' = DOMAIN row
    <2>1. CASE u \in DOMAIN row
      <3> DEFINE until == now + SESSION_IDLE
      <3>1. row' = [row EXCEPT ![u] = [@ EXCEPT !.expires = until, !.used = now]]
        BY <2>1 DEF slideSession, u
      <3>2. /\ until \in Int /\ until <= now + SESSION_IDLE
            /\ until > now + SESSION_IDLE - UPDATE_AGE - 1
        BY <1>3
      <3> HIDE DEF until
      <3> QED
        BY <1>1, <1>3, <1>4, <2>1, <3>1, <3>2, RowUsed
    <2>2. CASE u \notin DOMAIN row
      <3>1. row' = row
        BY <2>2 DEF slideSession, u
      <3> QED
        BY <1>1, <1>4, <2>2, <3>1, RowsUntouched
    <2> QED
      BY <2>1, <2>2
  <1> QED
    BY <1>1, <1>4, <1>5, ServerKeeps

LEMMA SignOutKeeps ==
    ASSUME ClockInv, NEW r \in Requests, signOut(r)
    PROVE  ClockInv'
  <1>1. /\ r \in DOMAIN req /\ req[r].pc = "arrived" /\ Answer(r, "delete")
        /\ row' = Drop(row, req[r].token) /\ ended' = ended \cup {req[r].token}
        /\ UNCHANGED <<now, cookie, issued>>
    BY DEF signOut
  <1>2. req[r].token \in issued
    BY <1>1 DEF ClockInv, RequestsHold, RequestHolds
  <1>3. RequestsHold' /\ \A t : NotSliding(t, req') => NotSliding(t, req)
    BY <1>1, Answered
  <1>4. RowsHold' /\ DOMAIN row' = DOMAIN row \ {req[r].token}
    BY <1>1, <1>3, RowsDropped
  <1> QED
    BY <1>1, <1>2, <1>3, <1>4 DEF ClockInv, ClockHolds, CookieHolds, SignedOutStaysOut

LEMMA SsoKeeps ==
    ASSUME ClockInv, NEW r \in Requests, ssoSignIn(r)
    PROVE  ClockInv'
  <1>0. now \in Nat /\ Never \in Int
    BY SessionClockAssumption DEF ClockInv, ClockHolds, Never
  <1>1. PICK off \in -MaxOffset .. MaxOffset :
            \/ \E typed \in 0 .. now :
                  OpenSession(r, ssoAuthenticatedAt(Told(typed, off), now), typed)
            \/ \E claims \in Untold(off) :
                  OpenSession(r, ssoAuthenticatedAt(claims, now), Never)
    BY DEF ssoSignIn
  <1>2. off \in Int /\ r \in Requests \ DOMAIN req
    BY SessionClockAssumption DEF ssoSignIn
  <1>3. CASE \E typed \in 0 .. now :
                 OpenSession(r, ssoAuthenticatedAt(Told(typed, off), now), typed)
    <2>1. PICK typed \in 0 .. now :
              OpenSession(r, ssoAuthenticatedAt(Told(typed, off), now), typed)
      BY <1>3
    <2> DEFINE created == ssoAuthenticatedAt(Told(typed, off), now)
    <2>2. created \in Int /\ (created - typed < SECOND \/ TooOld(created, now))
      BY <1>0, <1>2, ToldDated DEF Told
    <2> HIDE DEF created
    <2>3. OpenSession(r, created, typed)
      BY <2>1 DEF created
    <2> QED
      BY <1>2, <2>2, <2>3, OpenKeeps
  <1>4. CASE \E claims \in Untold(off) :
                 OpenSession(r, ssoAuthenticatedAt(claims, now), Never)
    <2>1. PICK claims \in Untold(off) :
              OpenSession(r, ssoAuthenticatedAt(claims, now), Never)
      BY <1>4
    <2> DEFINE created == ssoAuthenticatedAt(claims, now)
    <2>2. now \div SECOND \in Int
      BY <1>0, Division, OidcFlowAssumption
    <2>3. /\ claims.iat \in Int
          /\ claims.auth_time = Missing \/ claims.auth_time = claims.iat + 1
      BY <1>2, <2>1, <2>2 DEF Untold
    <2>4. created \in Int /\ TooOld(created, now)
      BY <1>0, <2>3, UntoldDated
    <2> HIDE DEF created
    <2>5. OpenSession(r, created, Never)
      BY <2>1 DEF created
    <2> QED
      BY <1>0, <1>2, <2>4, <2>5, OpenKeeps
  <1> QED
    BY <1>1, <1>3, <1>4

LEMMA SignInKeeps ==
    ASSUME ClockInv, NEW r \in Requests, signIn(r)
    PROVE  ClockInv'
  <1>1. now \in Int /\ now - now < SECOND
    BY OidcFlowAssumption DEF ClockInv, ClockHolds
  <1> QED
    BY <1>1, OpenKeeps DEF signIn

LEMMA NextKeeps == ASSUME ClockInv, [ClockNext]_vars PROVE ClockInv'
  <1>1. CASE UNCHANGED vars
    BY <1>1 DEF vars, ClockInv, ClockHolds, CookieHolds, RequestsHold, RowsHold,
                SignedOutStaysOut
  <1>2. CASE ClockNext
    BY <1>2, TickKeeps, SendKeeps, ReceiveKeeps, GetSessionKeeps, SlideKeeps, SignInKeeps,
       SsoKeeps, SignOutKeeps DEF ClockNext
  <1> QED
    BY <1>1, <1>2

-----------------------------------------------------------------------------
\* The invariant holds always.
THEOREM ClockInvariant == ClockSpec => []ClockInv
  <1>1. ClockInit => ClockInv
    BY SessionClockAssumption DEF ClockInit, Nothing, ClockInv, ClockHolds, CookieHolds,
       RequestsHold, RowsHold, SignedOutStaysOut
  <1>2. ClockInv /\ [ClockNext]_vars => ClockInv'
    BY NextKeeps
  <1> QED
    BY <1>1, <1>2, PTL DEF ClockSpec

\* The variables have their types.
THEOREM ClockTypes == ClockSpec => []ClockTypeOK
  <1>1. ClockInv => ClockTypeOK
    BY DEF ClockInv, ClockHolds, CookieHolds, RequestsHold, RowsHold, ClockTypeOK
  <1> QED
    BY <1>1, ClockInvariant, PTL

\* getSession and signOut of Better Auth, as auth.ts configures them: no push
\* that is still under way brings back a session that was signed out.
THEOREM OutForGood == ClockSpec => []SignedOutStaysOut
  <1>1. ClockInv => SignedOutStaysOut
    BY DEF ClockInv
  <1> QED
    BY <1>1, ClockInvariant, PTL

\* session.updateAge of auth.ts: the window is neither longer nor, but for the
\* age at which it is pushed, shorter than its use.
THEOREM WindowExact == ClockSpec => []WindowFollowsUse
  <1>1. ClockInv => WindowFollowsUse
    BY DEF ClockInv, RowsHold, RowHolds, NotSliding, Pushed, WindowFollowsUse
  <1> QED
    BY <1>1, ClockInvariant, PTL

\* reauth.ts and oidc-flow.ts: whatever the two clocks differ by and whatever
\* SECOND is, a session is fresh only by a proof of the last five minutes.
THEOREM FreshnessIsNeverMinted == ClockSpec => []FreshMeansProven
  <1>1. ASSUME ClockInv, NEW t \in DOMAIN row,
               isFreshAuth(row[t].created, now) \/ freshEnoughToLink(row[t].created, now)
        PROVE  now - row[t].proven < (FRESH_AUTH_SECONDS + 2) * SECOND
    <2>1. /\ row[t].created \in Int /\ row[t].proven \in Int /\ now \in Int
          /\ RowHolds(row[t], now)
      BY <1>1 DEF ClockInv, RowsHold, ClockHolds, RowHolds, Row
    <2>2. ~TooOld(row[t].created, now)
      BY <1>1, <2>1, FreshIsYoung
    <2>3. /\ SECOND * (FRESH_AUTH_SECONDS + 1) \in Int
          /\ (FRESH_AUTH_SECONDS + 2) * SECOND = SECOND * (FRESH_AUTH_SECONDS + 1) + SECOND
          /\ SECOND \in Int
      BY OidcFlowAssumption
    <2> QED
      BY <2>1, <2>2, <2>3 DEF RowHolds, TooOld
  <1>2. ClockInv => FreshMeansProven
    BY <1>1 DEF FreshMeansProven
  <1> QED
    BY <1>2, ClockInvariant, PTL
-----------------------------------------------------------------------------
\* The cookie

\* An answer that has the cookie set, or taken away, when it arrives.
Brings(q) == q.pc = "answered" /\ q.sets # "keep"

\* A page's answer sets the cookie; a push is a page's or an API call's.
Carries(q) ==
    /\ q.kind = "page" => q.sets # "keep"
    /\ q.pc = "slide" => q.kind \in {"page", "api"}

\* While answers are on their way the row may be ahead of the cookie, but then
\* one of them makes up for it.
CookieCovers ==
    /\ \A r \in DOMAIN req : Carries(req[r])
    /\ cookie.token \in DOMAIN row =>
          \/ cookie.until >= row[cookie.token].expires
          \/ \E r \in DOMAIN req : Brings(req[r])

\* A step of the request r, which leaves the answers of the others on their way.
LEMMA OneRequestMoves ==
    ASSUME CookieCovers, NEW r, UNCHANGED cookie,
           \A y \in DOMAIN req \ {r} : y \in DOMAIN req' /\ req'[y] = req[y],
           \A y \in DOMAIN req' \ {r} : y \in DOMAIN req,
           r \in DOMAIN req => ~Brings(req[r]),
           r \in DOMAIN req' => Carries(req'[r]),
           cookie.token \in DOMAIN row' =>
              \/ /\ cookie.token \in DOMAIN row
                 /\ row'[cookie.token].expires = row[cookie.token].expires
              \/ r \in DOMAIN req' /\ Brings(req'[r])
    PROVE  CookieCovers'
  <1>1. ASSUME NEW y \in DOMAIN req'
        PROVE  Carries(req'[y])
    <2>1. CASE y = r
      BY <1>1, <2>1
    <2>2. CASE y # r
      BY <1>1, <2>2 DEF CookieCovers
    <2> QED
      BY <2>1, <2>2
  <1>2. ASSUME cookie.token \in DOMAIN row'
        PROVE  \/ cookie.until >= row'[cookie.token].expires
               \/ \E y \in DOMAIN req' : Brings(req'[y])
    <2>1. CASE r \in DOMAIN req' /\ Brings(req'[r])
      BY <2>1
    <2>2. CASE /\ cookie.token \in DOMAIN row
               /\ row'[cookie.token].expires = row[cookie.token].expires
      <3>1. CASE cookie.until >= row[cookie.token].expires
        BY <2>2, <3>1
      <3>2. CASE \E y \in DOMAIN req : Brings(req[y])
        BY <3>2
      <3> QED
        BY <2>2, <3>1, <3>2 DEF CookieCovers
    <2> QED
      BY <1>2, <2>1, <2>2
  <1> QED
    BY <1>1, <1>2 DEF CookieCovers

LEMMA AnswerMoves ==
    ASSUME ClockInv, NEW r \in DOMAIN req, NEW sets, Answer(r, sets),
           req[r].kind = "page" => sets # "keep"
    PROVE  /\ \A y \in DOMAIN req \ {r} : y \in DOMAIN req' /\ req'[y] = req[y]
           /\ \A y \in DOMAIN req' \ {r} : y \in DOMAIN req
           /\ r \in DOMAIN req' /\ Carries(req'[r])
           /\ sets # "keep" => Brings(req'[r])
  BY DEF ClockInv, RequestsHold, Request, Answer, Carries, Brings

LEMMA SendCovers ==
    ASSUME ClockInv, CookieCovers, NEW r \in Requests, NEW kind \in {"page", "api", "signout"},
           send(r, kind)
    PROVE  CookieCovers'
  <1> DEFINE x == [kind |-> kind, pc |-> "arrived", token |-> Held,
                   sets |-> restampSession(kind, Held)]
  <1>1. /\ r \notin DOMAIN req /\ req' = Put(req, r, x)
        /\ UNCHANGED <<now, row, cookie, issued, ended>>
    BY DEF send
  <1>2. Held \in Tokens
    BY DEF send, Held, ClockInv, CookieHolds, ClockHolds
  <1>3. Carries(x)
    BY <1>2, SessionClockAssumption DEF Carries, restampSession
  <1> HIDE DEF x
  <1>4. /\ DOMAIN req' = DOMAIN req \cup {r} /\ req'[r] = x
        /\ \A y \in DOMAIN req : req'[y] = req[y]
    BY <1>1 DEF Put
  <1> QED
    BY <1>1, <1>3, <1>4, OneRequestMoves

\* An answer that sets the cookie sets it for as long as any row may live; one
\* that leaves it alone is none that was counted on.
LEMMA ReceiveCovers ==
    ASSUME ClockInv, CookieCovers, NEW r \in Requests, receive(r)
    PROVE  CookieCovers'
  <1>1. /\ r \in DOMAIN req /\ req' = Drop(req, r)
        /\ UNCHANGED <<now, row, issued, ended>>
    BY DEF receive
  <1>2. /\ DOMAIN req' = DOMAIN req \ {r}
        /\ \A y \in DOMAIN req' : req'[y] = req[y]
    BY <1>1 DEF Drop, Restrict
  <1>3. \A y \in DOMAIN req' : Carries(req'[y])
    BY <1>2 DEF CookieCovers
  <1>4. CASE req[r].sets = "keep"
    <2>1. cookie' = cookie
      BY <1>4 DEF receive
    <2>2. \A y \in DOMAIN req : Brings(req[y]) => y \in DOMAIN req' /\ req'[y] = req[y]
      BY <1>2, <1>4 DEF Brings
    <2> QED
      BY <1>1, <1>3, <2>1, <2>2 DEF CookieCovers
  <1>5. CASE req[r].sets = "delete"
    <2>1. cookie'.token = None
      BY <1>5 DEF receive
    <2>2. None \notin DOMAIN row'
      BY <1>1, SessionClockAssumption DEF ClockInv, RowsHold, ClockHolds
    <2> QED
      BY <1>3, <2>1, <2>2 DEF CookieCovers
  <1>6. CASE req[r].sets \notin {"keep", "delete"}
    <2>1. cookie' = [token |-> req[r].sets, until |-> now + SESSION_IDLE]
      BY <1>6 DEF receive, cookieUntil
    <2>2. ASSUME NEW t \in DOMAIN row
          PROVE  now + SESSION_IDLE >= row[t].expires
      <3>1. /\ row[t].expires \in Int /\ row[t].used \in Int /\ now \in Int
            /\ row[t].used <= now /\ row[t].expires <= row[t].used + SESSION_IDLE
        BY <2>2 DEF ClockInv, RowsHold, RowHolds, Row, ClockHolds
      <3> QED
        BY <3>1, SessionClockAssumption
    <2> QED
      BY <1>1, <1>3, <2>1, <2>2 DEF CookieCovers
  <1> QED
    BY <1>4, <1>5, <1>6

LEMMA GetSessionCovers ==
    ASSUME ClockInv, CookieCovers, NEW r \in Requests, getSession(r)
    PROVE  CookieCovers'
  <1> DEFINE u == req[r].token
  <1>1. /\ r \in DOMAIN req /\ req[r].pc = "arrived" /\ req[r].kind \in {"page", "api"}
        /\ UNCHANGED <<now, cookie, issued, ended>>
    BY DEF getSession
  <1>2. Carries(req[r]) /\ ~Brings(req[r]) /\ req[r] \in Request
    BY <1>1 DEF CookieCovers, Brings, ClockInv, RequestsHold
  <1>3. \A t \in DOMAIN row' : t \in DOMAIN row /\ row'[t].expires = row[t].expires
    <2>1. CASE Live(u)
      <3>1. row' = [row EXCEPT ![u].used = now]
        BY <2>1 DEF getSession
      <3> HIDE DEF u
      <3> QED
        BY <3>1 DEF ClockInv, RowsHold, Row
    <2>2. CASE ~Live(u)
      BY <2>2 DEF getSession, Drop, Restrict
    <2> QED
      BY <2>1, <2>2
  <1>4. CASE Live(u) /\ due(u)
    <2> DEFINE x == [req[r] EXCEPT !.pc = "slide"]
    <2>1. req' = [req EXCEPT ![r] = x]
      BY <1>4 DEF getSession
    <2>2. Carries(x)
      BY <1>1, <1>2 DEF Carries, Request
    <2> HIDE DEF x, u
    <2>3. /\ DOMAIN req' = DOMAIN req /\ req'[r] = x
          /\ \A y \in DOMAIN req \ {r} : req'[y] = req[y]
      BY <1>1, <2>1 DEF ClockInv, RequestsHold
    <2> QED
      BY <1>1, <1>2, <1>3, <2>2, <2>3, OneRequestMoves
  <1>5. CASE ~(Live(u) /\ due(u))
    <2>1. \E sets : Answer(r, sets) /\ (req[r].kind = "page" => sets # "keep")
      <3>1. CASE Live(u)
        BY <1>2, <1>5, <3>1 DEF getSession, Carries
      <3>2. CASE ~Live(u)
        BY <1>2, <3>2 DEF getSession, Carries
      <3> QED
        BY <3>1, <3>2
    <2> HIDE DEF u
    <2>2. /\ \A y \in DOMAIN req \ {r} : y \in DOMAIN req' /\ req'[y] = req[y]
          /\ \A y \in DOMAIN req' \ {r} : y \in DOMAIN req
          /\ Carries(req'[r])
      BY <1>1, <2>1, AnswerMoves
    <2> QED
      BY <1>1, <1>2, <1>3, <2>2, OneRequestMoves
  <1> QED
    BY <1>4, <1>5

LEMMA SlideCovers ==
    ASSUME ClockInv, CookieCovers, NEW r \in Requests, slideSession(r)
    PROVE  CookieCovers'
  <1>1. /\ r \in DOMAIN req /\ req[r].pc = "slide" /\ Answer(r, SlidCookie(r))
        /\ UNCHANGED <<now, cookie, issued, ended>>
    BY DEF slideSession
  <1>2. /\ Carries(req[r]) /\ ~Brings(req[r])
        /\ req[r].token \in Tokens
    BY <1>1 DEF CookieCovers, Brings, ClockInv, RequestsHold, RequestHolds, ClockHolds
  <1>3. SlidCookie(r) # "keep"
    BY <1>1, <1>2, SessionClockAssumption DEF SlidCookie, Carries
  <1>4. /\ \A y \in DOMAIN req \ {r} : y \in DOMAIN req' /\ req'[y] = req[y]
        /\ \A y \in DOMAIN req' \ {r} : y \in DOMAIN req
        /\ r \in DOMAIN req' /\ Carries(req'[r]) /\ Brings(req'[r])
    BY <1>1, <1>3, AnswerMoves
  <1> QED
    BY <1>1, <1>2, <1>4, OneRequestMoves

LEMMA SignOutCovers ==
    ASSUME ClockInv, CookieCovers, NEW r \in Requests, signOut(r)
    PROVE  CookieCovers'
  <1>1. /\ r \in DOMAIN req /\ req[r].pc = "arrived" /\ Answer(r, "delete")
        /\ row' = Drop(row, req[r].token) /\ UNCHANGED cookie
    BY DEF signOut
  <1>2. \A t \in DOMAIN row' : t \in DOMAIN row /\ row'[t] = row[t]
    BY <1>1 DEF Drop, Restrict
  <1>3. /\ \A y \in DOMAIN req \ {r} : y \in DOMAIN req' /\ req'[y] = req[y]
        /\ \A y \in DOMAIN req' \ {r} : y \in DOMAIN req
        /\ Carries(req'[r])
    BY <1>1, AnswerMoves
  <1>4. ~Brings(req[r])
    BY <1>1 DEF Brings
  <1> QED
    BY <1>1, <1>2, <1>3, <1>4, OneRequestMoves

\* A new session's token is none that the browser holds yet.
LEMMA OpenCovers ==
    ASSUME ClockInv, CookieCovers, NEW r \in Requests \ DOMAIN req, NEW at, NEW proven,
           OpenSession(r, at, proven)
    PROVE  CookieCovers'
  <1> DEFINE s(t) == [created |-> at, expires |-> now + SESSION_IDLE, proven |-> proven,
                      used |-> now]
             x(t) == [kind |-> "signin", pc |-> "answered", token |-> None, sets |-> t]
  <1>1. PICK t \in Tokens \ issued :
            /\ row' = Put(row, t, s(t)) /\ req' = Put(req, r, x(t)) /\ UNCHANGED cookie
    BY DEF OpenSession
  <1>2. Carries(x(t))
    BY DEF Carries
  <1> HIDE DEF s, x
  <1>3. /\ DOMAIN req' = DOMAIN req \cup {r} /\ req'[r] = x(t)
        /\ \A y \in DOMAIN req : req'[y] = req[y]
    BY <1>1 DEF Put
  <1>4. cookie.token # t
    BY SessionClockAssumption DEF ClockInv, CookieHolds
  <1>5. cookie.token \in DOMAIN row' =>
            cookie.token \in DOMAIN row /\ row'[cookie.token] = row[cookie.token]
    BY <1>1, <1>4 DEF Put
  <1> QED
    BY <1>1, <1>2, <1>3, <1>5, OneRequestMoves

LEMMA NextCovers == ASSUME ClockInv, CookieCovers, [ClockNext]_vars PROVE CookieCovers'
  <1>1. CASE UNCHANGED vars
    BY <1>1 DEF vars, CookieCovers
  <1>2. CASE tick
    BY <1>2 DEF tick, CookieCovers
  <1>3. ASSUME NEW r \in Requests, signIn(r) \/ ssoSignIn(r)
        PROVE  CookieCovers'
    <2>1. \E at, proven : r \in Requests \ DOMAIN req /\ OpenSession(r, at, proven)
      BY <1>3 DEF signIn, ssoSignIn
    <2> QED
      BY <2>1, OpenCovers
  <1> QED
    BY <1>1, <1>2, <1>3, SendCovers, ReceiveCovers, GetSessionCovers, SlideCovers,
       SignOutCovers DEF ClockNext

\* middleware.ts and session.updateAge of auth.ts: whatever answers of one
\* browser overtake each other, once all have arrived its cookie lasts as long as
\* the row it names.  On the way it may not, which is why the invariant counts
\* the answers that are still to come.
THEOREM CookieLasts == ClockSpec => []CookieOutlivesItsRow
  <1>1. ClockInit => CookieCovers
    BY SessionClockAssumption DEF ClockInit, Nothing, CookieCovers
  <1>2. ClockInv /\ CookieCovers /\ [ClockNext]_vars => CookieCovers'
    BY NextCovers
  <1>3. CookieCovers => CookieOutlivesItsRow
    BY DEF CookieCovers, CookieOutlivesItsRow, Nothing
  <1> QED
    BY <1>1, <1>2, <1>3, ClockInvariant, PTL DEF ClockSpec

-----------------------------------------------------------------------------
\* The upload gate

\* None of the three invariants is inductive without the others: handing a
\* place over keeps the count only because the head of the queue is a waiter
\* and no holder, and the queue may be bypassed only because it is empty when
\* a place is free.
GateInv == GateTypeOK /\ BoundedMemory /\ NobodyWaitsInVain /\ QueueIsWaiters

\* A set that gains or loses one element gains or loses one in size.
LEMMA HoldersFinite == ASSUME GateTypeOK
                       PROVE  IsFiniteSet(Holders)
  BY GateAssumption, FS_Subset DEF Holders

\* What joining the queue makes of it.
LEMMA QueueAppend ==
    ASSUME GateTypeOK, NEW r \in Uploads, waiting' = Append(waiting, r)
    PROVE  /\ waiting' \in Seq(Uploads)
           /\ Len(waiting') = Len(waiting) + 1
           /\ \A i \in 1 .. Len(waiting) : waiting'[i] = waiting[i]
           /\ waiting'[Len(waiting) + 1] = r
           /\ InQueue' = InQueue \cup {r}
  <1>1. /\ waiting' \in Seq(Uploads)
        /\ Len(waiting') = Len(waiting) + 1
        /\ \A i \in 1 .. Len(waiting) : waiting'[i] = waiting[i]
        /\ waiting'[Len(waiting) + 1] = r
    BY AppendProperties DEF GateTypeOK
  <1>2. DOMAIN waiting = 1 .. Len(waiting) /\ DOMAIN waiting' = 1 .. Len(waiting')
    BY <1>1, LenProperties DEF GateTypeOK
  <1>3. Len(waiting) \in Nat
    BY LenProperties DEF GateTypeOK
  <1>4. InQueue' = InQueue \cup {r}
    BY <1>1, <1>2, <1>3 DEF InQueue
  <1> QED
    BY <1>1, <1>4

\* What handing a place to the head of the queue makes of it.
LEMMA QueueTail ==
    ASSUME GateTypeOK, QueueIsWaiters, waiting # <<>>, waiting' = Tail(waiting)
    PROVE  /\ waiting' \in Seq(Uploads)
           /\ Len(waiting') = Len(waiting) - 1
           /\ Head(waiting) \in Uploads
           /\ stage[Head(waiting)] = "waiting"
           /\ \A i \in 1 .. Len(waiting') : waiting'[i] = waiting[i + 1]
           /\ InQueue' = InQueue \ {Head(waiting)}
  <1>1. /\ Head(waiting) \in Uploads
        /\ waiting' \in Seq(Uploads)
        /\ Len(waiting') = Len(waiting) - 1
        /\ \A i \in 1 .. Len(waiting') : waiting'[i] = waiting[i + 1]
    BY HeadTailProperties DEF GateTypeOK
  <1>2. DOMAIN waiting = 1 .. Len(waiting) /\ DOMAIN waiting' = 1 .. Len(waiting')
    BY <1>1, LenProperties DEF GateTypeOK
  <1>3. Len(waiting) \in Nat \ {0} /\ Head(waiting) = waiting[1]
    BY EmptySeq DEF GateTypeOK
  <1>4. stage[Head(waiting)] = "waiting"
    BY <1>2, <1>3 DEF QueueIsWaiters, InQueue
  <1>5. InQueue' = InQueue \ {Head(waiting)}
    <2>1. ASSUME NEW x \in InQueue'
          PROVE  x \in InQueue \ {Head(waiting)}
      <3>1. PICK i \in 1 .. Len(waiting') : x = waiting'[i]
        BY <1>2 DEF InQueue
      <3>2. i + 1 \in 1 .. Len(waiting) /\ x = waiting[i + 1]
        BY <1>1, <1>3, <3>1
      <3>3. waiting[i + 1] # waiting[1]
        BY <1>2, <1>3, <3>2 DEF QueueIsWaiters
      <3> QED
        BY <1>2, <1>3, <3>2, <3>3 DEF InQueue
    <2>2. ASSUME NEW x \in InQueue \ {Head(waiting)}
          PROVE  x \in InQueue'
      <3>1. PICK i \in 1 .. Len(waiting) : x = waiting[i]
        BY <1>2 DEF InQueue
      <3>2. i - 1 \in 1 .. Len(waiting')
        BY <1>1, <1>3, <2>2, <3>1
      <3>3. waiting'[i - 1] = waiting[i]
        BY <1>1, <1>3, <3>1, <3>2
      <3> QED
        BY <1>2, <3>1, <3>2, <3>3 DEF InQueue
    <2> QED
      BY <2>1, <2>2
  <1> QED
    BY <1>1, <1>4, <1>5

-----------------------------------------------------------------------------
LEMMA GateInitInv == GateInit => GateInv
  <1> SUFFICES ASSUME GateInit
               PROVE  GateInv
    OBVIOUS
  <1>1. Holders = {} /\ InQueue = {} /\ DOMAIN waiting = {}
    BY DEF GateInit, Holders, InQueue
  <1>2. Cardinality(Holders) = 0
    BY <1>1, FS_EmptySet
  <1> QED
    BY <1>1, <1>2, GateAssumption
    DEF GateInit, GateInv, GateTypeOK, Places, BoundedMemory, NobodyWaitsInVain, QueueIsWaiters

\* Each operation of the gate keeps the invariant.
LEMMA AcquireInv ==
    ASSUME GateInv, NEW r \in Uploads, Acquire(r)
    PROVE  GateInv'
  <1> USE DEF GateInv
  <1>1. GateTypeOK'
    BY DEF GateTypeOK, Places, Acquire
  <1>2. Holders' = Holders \cup {r} /\ r \notin Holders
    BY DEF GateTypeOK, Acquire, Holders
  <1>3. Cardinality(Holders') = Cardinality(Holders) + 1
    BY <1>2, HoldersFinite, FS_AddElement
  <1>4. BoundedMemory'
    BY <1>3, GateAssumption DEF GateTypeOK, Acquire, BoundedMemory
  <1>5. NobodyWaitsInVain'
    BY DEF Acquire, NobodyWaitsInVain, GateTypeOK
  <1>6. QueueIsWaiters'
    BY DEF Acquire, QueueIsWaiters, InQueue, GateTypeOK
  <1> QED
    BY <1>1, <1>4, <1>5, <1>6

LEMMA EnqueueInv ==
    ASSUME GateInv, NEW r \in Uploads, Enqueue(r)
    PROVE  GateInv'
  <1> USE DEF GateInv
  <1>1. waiting' = Append(waiting, r)
    BY DEF Enqueue
  <1>2. GateTypeOK'
    BY <1>1, QueueAppend DEF GateTypeOK, Places, Enqueue
  <1>3. Holders' = Holders
    BY DEF GateTypeOK, Enqueue, Holders
  <1>4. BoundedMemory' /\ NobodyWaitsInVain'
    BY <1>3, GateAssumption DEF GateTypeOK, Enqueue, BoundedMemory, NobodyWaitsInVain
  <1>5. QueueIsWaiters'
    <2>1. r \notin InQueue
      BY DEF QueueIsWaiters, Enqueue
    <2>2. DOMAIN waiting = 1 .. Len(waiting) /\ DOMAIN waiting' = 1 .. Len(waiting')
          /\ Len(waiting) \in Nat
      BY <1>2, LenProperties DEF GateTypeOK
    <2>3. ASSUME NEW i \in DOMAIN waiting', NEW j \in DOMAIN waiting',
                 waiting'[i] = waiting'[j]
          PROVE  i = j
      BY <1>1, <2>1, <2>2, <2>3, QueueAppend DEF QueueIsWaiters, InQueue
    <2>4. InQueue' = {q \in Uploads : stage'[q] = "waiting"}
      BY <1>1, QueueAppend DEF QueueIsWaiters, Enqueue, GateTypeOK
    <2>5. Len(waiting') <= MaxWaiting
      BY <1>1, <2>2, QueueAppend, GateAssumption DEF Enqueue
    <2> QED
      BY <2>3, <2>4, <2>5 DEF QueueIsWaiters
  <1> QED
    BY <1>2, <1>4, <1>5

LEMMA ResumeInv ==
    ASSUME GateInv, NEW r \in Uploads, Resume(r)
    PROVE  GateInv'
  <1> USE DEF GateInv
  <1>1. GateTypeOK'
    BY DEF GateTypeOK, Places, Resume
  <1>2. Holders' = Holders
    BY DEF GateTypeOK, Resume, Holders
  <1> QED
    BY <1>1, <1>2
    DEF GateTypeOK, Resume, BoundedMemory, NobodyWaitsInVain, QueueIsWaiters, InQueue

LEMMA ReleaseInv ==
    ASSUME GateInv, NEW r \in Uploads, Release(r)
    PROVE  GateInv'
  <1> USE DEF GateInv
  <1>1. r \in Holders /\ Cardinality(Holders) \in Nat /\ active \in Nat \ {0}
    <2>1. r \in Holders
      BY DEF Release, Holders
    <2>2. Cardinality(Holders) \in Nat /\ Cardinality(Holders) # 0
      BY <2>1, HoldersFinite, FS_CardinalityType, FS_EmptySet
    <2> QED
      BY <2>1, <2>2 DEF BoundedMemory
  <1>2. CASE WakeNobody /\ stage' = [stage EXCEPT ![r] = "away"]
    <2>1. active' = active - 1 /\ waiting' = waiting /\ waiting = <<>>
      BY <1>2 DEF WakeNobody, HandBack
    <2>2. GateTypeOK'
      BY <1>1, <1>2, <2>1 DEF GateTypeOK, Places
    <2>3. Holders' = Holders \ {r}
      BY <1>2 DEF GateTypeOK, Holders
    <2>4. Cardinality(Holders') = Cardinality(Holders) - 1
      BY <1>1, <2>3, HoldersFinite, FS_RemoveElement
    <2>5. BoundedMemory' /\ NobodyWaitsInVain'
      BY <1>1, <2>1, <2>4, GateAssumption
      DEF BoundedMemory, NobodyWaitsInVain
    <2>6. QueueIsWaiters'
      BY <1>1, <1>2, <2>1 DEF QueueIsWaiters, InQueue, GateTypeOK, Holders
    <2> QED
      BY <2>2, <2>5, <2>6
  <1>3. CASE WakeNext /\ stage' = [stage EXCEPT ![r] = "away", ![Head(waiting)] = "granted"]
    <2> DEFINE h == Head(waiting)
    <2>1. waiting' = Tail(waiting) /\ waiting # <<>> /\ active' = active
      BY <1>1, <1>3 DEF WakeNext, HandBack
    <2>2. h \in Uploads /\ stage[h] = "waiting" /\ h # r /\ h \notin Holders
      BY <1>1, <2>1, QueueTail DEF Holders
    <2>3. GateTypeOK'
      BY <1>3, <2>1, <2>2, QueueTail DEF GateTypeOK, Places
    <2>4. Holders' = (Holders \ {r}) \cup {h}
      BY <1>3, <2>2 DEF GateTypeOK, Holders
    <2>5. Cardinality(Holders') = Cardinality(Holders)
      <3>1. IsFiniteSet(Holders \ {r}) /\ Cardinality(Holders \ {r}) = Cardinality(Holders) - 1
        BY <1>1, HoldersFinite, FS_RemoveElement
      <3>2. Cardinality(Holders') = Cardinality(Holders \ {r}) + 1
        BY <2>2, <2>4, <3>1, FS_AddElement
      <3> QED
        BY <1>1, <3>1, <3>2
    <2>6. BoundedMemory' /\ NobodyWaitsInVain'
      BY <2>1, <2>5, GateAssumption DEF BoundedMemory, NobodyWaitsInVain
    <2>7. QueueIsWaiters'
      <3>1. InQueue' = {q \in Uploads : stage'[q] = "waiting"}
        BY <1>1, <1>3, <2>1, <2>2, QueueTail DEF QueueIsWaiters, GateTypeOK, Holders
      <3>2. DOMAIN waiting = 1 .. Len(waiting) /\ DOMAIN waiting' = 1 .. Len(waiting')
            /\ Len(waiting) \in Nat
        BY <2>3, LenProperties DEF GateTypeOK
      <3>3. ASSUME NEW i \in DOMAIN waiting', NEW j \in DOMAIN waiting',
                   waiting'[i] = waiting'[j]
            PROVE  i = j
        <4>1. waiting[i + 1] = waiting[j + 1] /\ i + 1 \in DOMAIN waiting /\ j + 1 \in DOMAIN waiting
          BY <2>1, <3>2, <3>3, QueueTail
        <4>2. i + 1 = j + 1
          BY <4>1 DEF QueueIsWaiters
        <4> QED
          BY <3>2, <4>2
      <3>4. Len(waiting') <= MaxWaiting
        BY <2>1, <3>2, QueueTail, GateAssumption DEF QueueIsWaiters
      <3> QED
        BY <3>1, <3>3, <3>4 DEF QueueIsWaiters
    <2> QED
      BY <2>3, <2>6, <2>7
  <1> QED
    BY <1>2, <1>3 DEF Release

LEMMA GateNextInv == GateInv /\ [GateNext]_gateVars => GateInv'
  <1> SUFFICES ASSUME GateInv, [GateNext]_gateVars
               PROVE  GateInv'
    OBVIOUS
  <1>1. CASE UNCHANGED gateVars
    BY <1>1 DEF gateVars, GateInv, GateTypeOK, BoundedMemory, NobodyWaitsInVain, QueueIsWaiters,
                InQueue, Holders
  <1>2. ASSUME NEW r \in Uploads, Refuse(r)
        PROVE  GateInv'
    BY <1>1, <1>2 DEF Refuse
  <1> QED
    BY <1>1, <1>2, AcquireInv, EnqueueInv, ResumeInv, ReleaseInv DEF GateNext

\* The gate keeps its counter exact and below its limit, its queue the waiting
\* requests in order, and no free place beside a waiter.
THEOREM GateInvariant == GateSpec => []GateInv
  BY GateInitInv, GateNextInv, PTL DEF GateSpec

\* acquireSlot and releaseSlot bound the models held in memory, whatever the
\* doors do in between.
THEOREM MemoryIsBounded == GateSpec => []BoundedMemory
  BY GateInvariant, PTL DEF GateInv

\* releaseSlot loses no wake-up.
THEOREM NoLostWakeUp == GateSpec => []NobodyWaitsInVain
  BY GateInvariant, PTL DEF GateInv

\* A place goes to the longest waiting, or to a newcomer when nobody waits.
THEOREM FirstComeFirstServed == GateSpec => NoOvertaking
  <1>1. GateInv /\ [GateNext]_gateVars =>
           [\A r \in Uploads :
               r \in Holders' \ Holders =>
                   \/ waiting = <<>>
                   \/ r = Head(waiting)]_gateVars
    <2> SUFFICES ASSUME GateInv, GateNext, NEW r \in Uploads, r \in Holders' \ Holders
                 PROVE  waiting = <<>> \/ r = Head(waiting)
      OBVIOUS
    <2>1. PICK q \in Uploads :
              Acquire(q) \/ Enqueue(q) \/ Refuse(q) \/ Resume(q) \/ Release(q)
      BY DEF GateNext
    <2>2. CASE Acquire(q)
      BY <2>2, GateAssumption DEF Acquire, GateInv, NobodyWaitsInVain, GateTypeOK
    <2>3. CASE Enqueue(q) \/ Resume(q)
      BY <2>3 DEF Enqueue, Resume, Holders, GateInv, GateTypeOK
    <2>4. CASE Refuse(q)
      BY <2>4 DEF Refuse, gateVars, Holders
    <2>5. CASE Release(q)
      BY <2>5 DEF Release, WakeNext, WakeNobody, Holders, GateInv, GateTypeOK
    <2> QED
      BY <2>1, <2>2, <2>3, <2>4, <2>5
  <1> QED
    BY <1>1, GateInvariant, PTL DEF GateSpec, NoOvertaking
=============================================================================
