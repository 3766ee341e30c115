-------------------------------- MODULE Access --------------------------------
(***************************************************************************)
(* Who is let in: suspending and restoring a member (setMemberAccessAction *)
(* of src/app/admin/invites/actions.ts) against the sign-ins and requests  *)
(* under way, the two doors to a model's bytes                             *)
(* (src/app/api/models/[id]/route.ts) and slicer links                     *)
(* (src/lib/slicer-token.ts).                                              *)
(*                                                                         *)
(* Nothing is timed here: a session or a link may lapse at any moment.     *)
(* Better Auth's sign-in is external: its admin plugin looks at `banned`,  *)
(* then the row is inserted.                                               *)
(***************************************************************************)
EXTENDS Tables, FiniteSets, Naturals

CONSTANTS
    Clients,        \* the members ...
    Owner,          \* ... and the one who owns the printer
    Models,         \* the ticket numbers asked for ...
    Filed,          \* ... those of them that exist at first, each with a stored file
    Sessions,       \* BOUND: sign-ins at a time
    MaxLinks,       \* BOUND: unexpired links at a time
    Jobs,           \* BOUND: handlers in flight
    MaxMishaps      \* BOUND: steps that fail by themselves, and crashes

Users == Clients \cup {Owner}

ASSUME AccessAssumption ==
    /\ Owner \notin Clients /\ Filed \subseteq Models
    /\ None \notin Users \cup Models \cup Sessions
    /\ MaxLinks \in Nat /\ MaxMishaps \in Nat

VARIABLES
    banned,     \* user.banned
    session,    \* per token: whose, and (history) whether opened while suspended
    uploader,   \* story.uploaderId, which no operation changes
    story,      \* the tickets that exist
    stored,     \* the tickets whose file is there
    link,       \* what the unexpired links claim: for whom, and for which ticket
    job,        \* the handlers in flight
    trail,      \* the downloads in the audit trail: by whom, of which ticket
    mishaps     \* history: failures and crashes so far

accessVars ==
    <<banned, session, uploader, story, stored, link, job, trail, mishaps>>

NoLink == << >>

\* `user` is who the handler is for, once it knows; `token` and `link` what the
\* request carries.  `shut` is history: who has been suspended ever since the
\* handler began.
Job == [op: {"signIn", "revoke", "restore", "withdraw", "render", "fetch", "refused"},
        pc: {"door", "account", "scope", "open", "record", "stream", "write", "delete"},
        user: Users \cup {None},
        token: Sessions \cup {None}, link: (Users \X Models) \cup {NoLink},
        model: Models \cup {None},
        shut: SUBSET Users]

AccessTypeOK ==
    /\ banned \subseteq Clients
    /\ DOMAIN session \subseteq Sessions
    /\ session \in [DOMAIN session -> [user: Users, late: BOOLEAN]]
    /\ uploader \in [Filed -> Clients]
    /\ story \subseteq stored /\ stored \subseteq Filed
    /\ link \subseteq Users \X Models
    /\ DOMAIN job \subseteq Jobs /\ job \in [DOMAIN job -> Job]
    /\ trail \subseteq Users \X Models
    /\ mishaps \in 0 .. MaxMishaps

AccessInit ==
    /\ banned = {}
    /\ session = Nothing
    /\ uploader \in [Filed -> Clients]
    /\ story = Filed /\ stored = Filed
    /\ link = {}
    /\ job = Nothing
    /\ trail = {}
    /\ mishaps = 0

-----------------------------------------------------------------------------
\* Handlers

Change(op, u) == [op |-> op, pc |-> "write", user |-> u, token |-> None,
                  link |-> NoLink, model |-> None, shut |-> {}]

Asking(op, t, claim, m) == [op |-> op, pc |-> "door", user |-> None, token |-> t,
                            link |-> claim, model |-> m, shut |-> banned]

Start(j, fields) == j \in Jobs \ DOMAIN job /\ job' = Put(job, j, fields)

At(j, pc) == j \in DOMAIN job /\ job[j].pc = pc

GoTo(j, pc) == job' = [job EXCEPT ![j].pc = pc]

\* What the request carried is not looked at again: a session is preferred to a
\* link, and of a link is kept that it was one.
LetIn(j, u, claim) ==
    job' = [job EXCEPT ![j] = [job[j] EXCEPT !.pc = "scope", !.user = u, !.token = None,
                                             !.link = claim, !.shut = @ \cap {u}]]

End(j) == job' = Drop(job, j)

OnlyJobs ==
    UNCHANGED <<banned, session, uploader, story, stored, link, trail, mishaps>>

storyScope(u) == {m \in story : u = Owner \/ uploader[m] = u}

-----------------------------------------------------------------------------
\* Signing in: the plugin's check, and the row, whatever has happened since.

signInAs(j, u) ==
    /\ u \notin banned
    /\ Start(j, Change("signIn", u))
    /\ OnlyJobs

createSession(j) ==
    /\ At(j, "write") /\ job[j].op = "signIn"
    /\ \E t \in Sessions \ DOMAIN session :
          session' = Put(session, t, [user |-> job[j].user, late |-> job[j].user \in banned])
    /\ End(j)
    /\ UNCHANGED <<banned, uploader, story, stored, link, trail, mishaps>>

\* Signed out, or twenty minutes without a request.
endSession(t) ==
    /\ t \in DOMAIN session
    /\ session' = Drop(session, t)
    /\ UNCHANGED <<banned, uploader, story, stored, link, job, trail, mishaps>>

-----------------------------------------------------------------------------
\* setMemberAccessAction: never the owner; `banned`, then the sessions, then
\* the trail.

setMemberAccess(j, u, revoke) ==
    /\ u # Owner
    /\ Start(j, Change(IF revoke THEN "revoke" ELSE "restore", u))
    /\ OnlyJobs

\* Opening a door again ends what `shut` remembers of it.
Reopened(u) == [i \in DOMAIN job |-> [job[i] EXCEPT !.shut = @ \ {u}]]

keepSessions(j) ==
    /\ At(j, "write")
    /\ LET u == job[j].user IN
       \/ /\ job[j].op = "revoke"
          /\ banned' = banned \cup {u}
          /\ GoTo(j, "record")
       \/ /\ job[j].op = "restore"
          /\ banned' = banned \ {u}
          /\ job' = [Reopened(u) EXCEPT ![j].pc = "record"]
    /\ UNCHANGED <<session, uploader, story, stored, link, trail, mishaps>>

updateBanned(j) ==
    /\ At(j, "write")
    /\ LET u == job[j].user IN
       \/ /\ job[j].op = "revoke"
          /\ banned' = banned \cup {u}
          /\ GoTo(j, "delete")
       \/ /\ job[j].op = "restore"
          /\ banned' = banned \ {u}
          /\ job' = [Reopened(u) EXCEPT ![j].pc = "record"]
    /\ UNCHANGED <<session, uploader, story, stored, link, trail, mishaps>>

deleteSessions(j) ==
    /\ At(j, "delete") /\ job[j].op = "revoke"
    /\ session' = Restrict(session, {t \in DOMAIN session : session[t].user # job[j].user})
    /\ GoTo(j, "record")
    /\ UNCHANGED <<banned, uploader, story, stored, link, trail, mishaps>>

-----------------------------------------------------------------------------
\* Requests: the bytes of a model with a session, a link or both; a ticket's
\* page and its withdrawal with a session

GET(j, t, claim, m) ==
    /\ t # None \/ claim # NoLink
    /\ Start(j, Asking("fetch", t, claim, m))
    /\ OnlyJobs

openTicket(j, op, t, m) ==
    /\ Start(j, Asking(op, t, NoLink, m))
    /\ OnlyJobs

\* currentUser: the session's row with its user's, refused if suspended.  What
\* of a live session would do without that last refusal:
sessionAlone(t) == IF t \in DOMAIN session THEN session[t].user ELSE None

currentUser(t) ==
    IF t \in DOMAIN session /\ session[t].user \notin banned THEN session[t].user ELSE None

\* readSlicerToken: whose the link is, if it names this model.
readSlicerToken(claim, m) ==
    IF claim \in link /\ claim[2] = m THEN claim[1] ELSE None

enter(j) ==
    /\ At(j, "door")
    /\ LET u == currentUser(job[j].token)
           subject == readSlicerToken(job[j].link, job[j].model)
       IN CASE u # None -> LetIn(j, u, NoLink)
            [] u = None /\ subject = None -> End(j)
            [] OTHER -> job' = [job EXCEPT ![j].pc = "account", ![j].user = subject]
    /\ OnlyJobs

\* The link's account, loaded and refused if suspended.
findAccount(j) ==
    /\ At(j, "account")
    /\ IF job[j].user \in banned THEN End(j)
                             ELSE LetIn(j, job[j].user, job[j].link)
    /\ OnlyJobs

foreign(j) == uploader[job[j].model] # job[j].user

\* The ticket under the caller's scope; only the uploader withdraws.  A fetch
\* that is refused leaves a trace.
findStory(j) ==
    /\ At(j, "scope")
    /\ LET u == job[j].user
           visible == job[j].model \in storyScope(u)
       IN CASE job[j].op = "fetch" /\ visible -> GoTo(j, "open")
            [] job[j].op = "fetch" /\ ~visible ->
                  job' = [job EXCEPT ![j].op = "refused", ![j].pc = "record"]
            [] job[j].op = "render" /\ visible -> GoTo(j, "write")
            [] job[j].op = "withdraw" /\ visible /\ ~foreign(j) -> GoTo(j, "write")
            [] OTHER -> End(j)
    /\ OnlyJobs

\* The page carries a link for the person looking at it.
mintSlicerToken(j) ==
    /\ At(j, "write") /\ job[j].op = "render"
    /\ Cardinality(link) < MaxLinks
    /\ link' = link \cup {<<job[j].user, job[j].model>>}
    /\ End(j)
    /\ UNCHANGED <<banned, session, uploader, story, stored, trail,
                   mishaps>>

\* Half an hour later.
expire(claim) ==
    /\ claim \in link
    /\ link' = link \ {claim}
    /\ UNCHANGED <<banned, session, uploader, story, stored, job, trail, mishaps>>

\* withdrawStory: the row, then the file.
deleteStory(j) ==
    /\ At(j, "write") /\ job[j].op = "withdraw"
    /\ story' = story \ {job[j].model}
    /\ IF job[j].model \in story THEN GoTo(j, "delete") ELSE End(j)
    /\ UNCHANGED <<banned, session, uploader, stored, link, trail, mishaps>>

deleteModel(j) ==
    /\ At(j, "delete") /\ job[j].op = "withdraw"
    /\ stored' = stored \ {job[j].model}
    /\ End(j)
    /\ UNCHANGED <<banned, session, uploader, story, link, trail, mishaps>>

\* openModel: nothing there is answered 502.  A copy for anybody but the
\* uploader is for the trail, before the bytes.
openModel(j) ==
    /\ At(j, "open")
    /\ IF job[j].model \in stored
       THEN GoTo(j, IF foreign(j) THEN "record" ELSE "stream")
       ELSE End(j)
    /\ OnlyJobs

\* The bytes: the stream opens the file as the answer is written.
stream(j) ==
    /\ At(j, "stream")
    /\ End(j)
    /\ OnlyJobs

-----------------------------------------------------------------------------
\* The trail, for all of them; only downloads are told apart here

AfterRecord(j) == IF job[j].op = "fetch" THEN GoTo(j, "stream") ELSE End(j)

record(j) ==
    /\ At(j, "record")
    /\ trail' = IF job[j].op = "fetch" THEN trail \cup {<<job[j].user, job[j].model>>}
                                       ELSE trail
    /\ AfterRecord(j)
    /\ UNCHANGED <<banned, session, uploader, story, stored, link, mishaps>>

-----------------------------------------------------------------------------
\* What goes wrong

\* The next call of a handler fails by itself.  record swallows that; all the
\* others end the handler where it is.
fail(j) ==
    /\ j \in DOMAIN job
    /\ mishaps < MaxMishaps
    /\ mishaps' = mishaps + 1
    /\ IF job[j].pc = "record" THEN AfterRecord(j) ELSE End(j)
    /\ UNCHANGED <<banned, session, uploader, story, stored, link, trail>>

crash ==
    /\ job # Nothing
    /\ mishaps < MaxMishaps
    /\ mishaps' = mishaps + 1
    /\ job' = Nothing
    /\ UNCHANGED <<banned, session, uploader, story, stored, link, trail>>

-----------------------------------------------------------------------------
AccessNext ==
    \/ \E j \in Jobs :
          \/ \E u \in Users :
                \/ signInAs(j, u)
                \/ \E revoke \in BOOLEAN : setMemberAccess(j, u, revoke)
          \/ \E m \in Models, t \in DOMAIN session :
                \E op \in {"render", "withdraw"} : openTicket(j, op, t, m)
          \/ \E m \in Models, t \in DOMAIN session \cup {None}, claim \in link \cup {NoLink} :
                GET(j, t, claim, m)
          \/ createSession(j) \/ updateBanned(j) \/ deleteSessions(j)
          \/ enter(j) \/ findAccount(j) \/ findStory(j)
          \/ mintSlicerToken(j) \/ deleteStory(j) \/ deleteModel(j)
          \/ openModel(j) \/ stream(j) \/ record(j)
          \/ fail(j)
    \/ \E t \in Sessions : endSession(t)
    \/ \E claim \in link : expire(claim)
    \/ crash

AccessSpec == AccessInit /\ [][AccessNext]_accessVars
-----------------------------------------------------------------------------
\* authz.ts: "a session that somehow survives still resolves to nobody", and a
\* link resolves to nobody either: a request that began while its person was
\* suspended does nothing for them, unless they have been let in again.
ShutOutMeansNothingHappens ==
    \A j \in DOMAIN job :
        job[j].pc \in {"scope", "open", "record", "stream"}
        /\ job[j].op \in {"render", "withdraw", "fetch", "refused"} =>
            job[j].user \notin job[j].shut

\* admin/invites/actions.ts: "the sessions go too".  After a revocation that
\* was not cut short, the only sessions of the suspended are those a sign-in
\* under way opened since, which the door then turns away.
SessionsDieWithAccess ==
    \A t \in DOMAIN session :
        \/ session[t].user \notin banned
        \/ session[t].late
        \/ mishaps > 0
        \/ \E j \in DOMAIN job : At(j, "delete") /\ job[j].user = session[t].user

\* A link opens the ticket it was minted for, to the one it was minted for.
LinkOpensWhatItNames ==
    \A j \in DOMAIN job :
        job[j].pc \in {"open", "record", "stream"} /\ job[j].link # NoLink =>
            job[j].link = <<job[j].user, job[j].model>>
=============================================================================
