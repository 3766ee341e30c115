--------------------------------- MODULE Mail ---------------------------------
(***************************************************************************)
(* The Activity feed and its copies by mail: notify and emailNotification  *)
(* (src/lib/authz.ts), src/lib/notifications.ts and its actions,           *)
(* src/lib/email.ts and the owner's test message.                          *)
(*                                                                         *)
(* The mail is not awaited: the handler that raised the notice has long    *)
(* answered while the copy is still looking its recipient up or talking to *)
(* the mail server, and nobody hears of it if that fails.                  *)
(***************************************************************************)
EXTENDS Handlers, FiniteSets, TLC

CONSTANTS
    Readers,        \* everybody with a feed ...
    Printer,        \* ... and the owner among them
    About,          \* the tickets there are at first
    NoticeIds       \* BOUND: notices ever raised

ASSUME MailAssumption == Printer \in Readers /\ None \notin Readers \cup About \cup NoticeIds

VARIABLES
    transport,      \* whether a mail server is configured; fixed at start
    subscribed,     \* the people with notifyByEmail
    suspended,      \* the people with user.banned
    ticket,         \* table story
    notice,         \* table notification
    mailTrail,      \* table auditEvent: what became of test messages
    raised,         \* history: every notice ever
    mailed          \* history: the mail that was taken: to whom, of which notice

mailVars == <<transport, subscribed, suspended, ticket, notice, mailTrail, raised,
              mailed, job, mishaps>>

Notice == [to: Readers, about: About \cup {None}, read: BOOLEAN]

MailOps == {"notify", "test"}

\* `shut` is history: the recipient has wanted no mail, or been suspended, ever
\* since the notice was raised.
MailJob == [op: MailOps, pc: {"insert", "look", "send", "sent", "refused"},
            by: Readers, to: Readers, about: About \cup {None},
            of: NoticeIds \cup {None}, shut: BOOLEAN]

MailTypeOK ==
    /\ transport \in BOOLEAN
    /\ subscribed \subseteq Readers /\ suspended \subseteq Readers
    /\ ticket \subseteq About
    /\ DOMAIN notice \subseteq raised /\ notice \in [DOMAIN notice -> Notice]
    /\ \A n \in DOMAIN notice : notice[n].about \in ticket \cup {None}
    /\ raised \subseteq NoticeIds
    /\ mailTrail \subseteq {"sent", "failed"}
    /\ mailed \subseteq Readers \X (NoticeIds \cup {None})
    /\ \A q \in InFlight(MailOps) : job[q] \in MailJob

MailInit ==
    /\ transport \in BOOLEAN
    /\ subscribed = Readers /\ suspended = {}
    /\ ticket = About
    /\ notice = Nothing /\ raised = {}
    /\ mailTrail = {} /\ mailed = {}

-----------------------------------------------------------------------------
\* notify

FeedOnly == UNCHANGED <<transport, subscribed, suspended, ticket, mailTrail>>

\* A handler about to tell somebody of a ticket it has read, or of one it has
\* just deleted.
raise(q, by, to, about) ==
    /\ about \in ticket \cup {None}
    /\ Begin(q, [op |-> "notify", pc |-> "insert", by |-> by, to |-> to, about |-> about,
                 of |-> None, shut |-> FALSE])
    /\ UNCHANGED <<notice, raised, mailed, mishaps>> /\ FeedOnly

ShutOut(u) == u \notin subscribed \/ u \in suspended

Copied(q) == transport /\ job[q].to # job[q].by

\* The row; without its ticket it cannot be, and the handler throws.  Then its
\* copy, unless it is about one's own doing or there is nowhere to send it.
insertNotice(q) ==
    /\ At(q, "notify", "insert")
    /\ IF job[q].about \in ticket \cup {None}
       THEN \E n \in NoticeIds \ raised :
               /\ raised' = raised \cup {n}
               /\ notice' = Put(notice, n, [to |-> job[q].to, about |-> job[q].about,
                                            read |-> FALSE])
               /\ IF Copied(q)
                  THEN job' = [job EXCEPT ![q] = [@ EXCEPT !.pc = "look", !.of = n,
                                                           !.shut = ShutOut(job[q].to)]]
                  ELSE End(q)
       ELSE End(q) /\ UNCHANGED <<notice, raised>>
    /\ UNCHANGED <<mailed, mishaps>> /\ FeedOnly

sendToAll(q) ==
    /\ At(q, "notify", "look")
    /\ GoTo(q, "send")
    /\ UNCHANGED <<notice, raised, mailed, mishaps>> /\ FeedOnly

\* emailNotification: the recipient as they are by now
findRecipient(q) ==
    /\ At(q, "notify", "look")
    /\ IF ShutOut(job[q].to) THEN End(q) ELSE GoTo(q, "send")
    /\ UNCHANGED <<notice, raised, mailed, mishaps>> /\ FeedOnly

\* sendMail: the server takes it, or does not, which is for the log alone.
sendMail(q) ==
    /\ At(q, "notify", "send")
    /\ mailed' \in {mailed, mailed \cup {<<job[q].to, job[q].of>>}}
    /\ End(q)
    /\ UNCHANGED <<notice, raised, mishaps>> /\ FeedOnly

-----------------------------------------------------------------------------
\* The feed

\* markNotificationsRead, of one notice or (None) of all there are by now; a
\* session finds only its own.
markNotificationsRead(u, n) ==
    /\ notice' = [i \in DOMAIN notice |->
          IF notice[i].to = u /\ n \in {i, None}
          THEN [notice[i] EXCEPT !.read = TRUE] ELSE notice[i]]
    /\ UNCHANGED <<transport, subscribed, suspended, ticket, mailTrail, raised, mailed,
                   job, mishaps>>

\* Whoever wants mail again, or is let in again, has not been shut out since.
Heard(u) == [q \in DOMAIN job |-> IF job[q].op = "notify" /\ job[q].to = u
                                  THEN [job[q] EXCEPT !.shut = FALSE] ELSE job[q]]

\* (Its row in the trail is left out: no property is about it.)
setNotifyByEmail(u, on) ==
    /\ subscribed' = IF on THEN subscribed \cup {u} ELSE subscribed \ {u}
    /\ job' = IF on /\ u \notin suspended THEN Heard(u) ELSE job
    /\ UNCHANGED <<transport, suspended, ticket, notice, mailTrail, raised, mailed,
                   mishaps>>

\* By the owner, to anybody but the owner: see Access.
suspendReader(u, revoke) ==
    /\ u # Printer
    /\ suspended' = IF revoke THEN suspended \cup {u} ELSE suspended \ {u}
    /\ job' = IF ~revoke /\ u \in subscribed THEN Heard(u) ELSE job
    /\ UNCHANGED <<transport, subscribed, ticket, notice, mailTrail, raised, mailed,
                   mishaps>>

\* Deleting a ticket takes the notices about it along.
deleteTicket(s) ==
    /\ s \in ticket
    /\ ticket' = ticket \ {s}
    /\ notice' = Restrict(notice, {n \in DOMAIN notice : notice[n].about # s})
    /\ UNCHANGED <<transport, subscribed, suspended, mailTrail, raised, mailed,
                   job, mishaps>>

-----------------------------------------------------------------------------
\* sendTestMailAction: awaited, and recorded as it went.

sendTestMail(q) ==
    /\ transport
    /\ \E outcome \in {"sent", "refused"} :
          /\ Begin(q, [op |-> "test", pc |-> outcome, by |-> Printer, to |-> Printer,
                       about |-> None, of |-> None, shut |-> FALSE])
          /\ mailed' = IF outcome = "sent" THEN mailed \cup {<<Printer, None>>} ELSE mailed
    /\ UNCHANGED <<notice, raised, mishaps>> /\ FeedOnly

recordTest(q) ==
    /\ q \in InFlight({"test"})
    /\ mailTrail' = mailTrail \cup {IF job[q].pc = "sent" THEN "sent" ELSE "failed"}
    /\ End(q)
    /\ UNCHANGED <<transport, subscribed, suspended, ticket, notice, raised, mailed,
                   mishaps>>

\* Whatever fails ends that handler, or that copy, and nothing else.
failMail(q) ==
    /\ q \in InFlight(MailOps)
    /\ Mishap
    /\ End(q)
    /\ UNCHANGED <<notice, raised, mailed>> /\ FeedOnly

crashMail ==
    /\ Crash
    /\ UNCHANGED <<notice, raised, mailed>> /\ FeedOnly

MailNext ==
    \/ \E q \in Requests \ DOMAIN job :
          \/ \E by, to \in Readers, about \in About \cup {None} : raise(q, by, to, about)
          \/ sendTestMail(q)
    \/ \E q \in DOMAIN job :
          \/ insertNotice(q) \/ findRecipient(q) \/ sendMail(q) \/ recordTest(q) \/ failMail(q)
    \/ \E u \in Readers :
          \/ \E n \in DOMAIN notice \cup {None} : markNotificationsRead(u, n)
          \/ \E on \in BOOLEAN : setNotifyByEmail(u, on) \/ suspendReader(u, on)
    \/ \E s \in About : deleteTicket(s)
    \/ crashMail

MailSpec == MailInit /\ job = Nothing /\ mishaps = 0 /\ [][MailNext]_mailVars
-----------------------------------------------------------------------------
\* authz.ts: "Somebody whose access was revoked hears nothing more from this
\* app", nor who has switched the mail off: no copy is sent to one who has been
\* so ever since the notice was raised.
NoMailToTheShutOut ==
    \A q \in InFlight({"notify"}) : job[q].pc = "send" => ~job[q].shut
=============================================================================
