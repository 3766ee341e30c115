--------------------------- MODULE PasswordLinks ---------------------------
(***************************************************************************)
(* Links to set a password: minted by the owner for a member who forgot    *)
(* theirs (src/app/admin/invites/actions.ts) or by the seed for the owner  *)
(* (prisma/seed.ts), redeemed on src/app/set-password, kept as rows of the *)
(* verification table (src/lib/password-reset.ts).                         *)
(*                                                                         *)
(* Better Auth's /reset-password is external and taken as its callers      *)
(* describe it: it consumes the token, looks the password up among the     *)
(* breached ones, stores it, and deletes the sessions the old one opened,  *)
(* each a call that may fail; the check and deletion of the token are one. *)
(***************************************************************************)
EXTENDS Tables, Naturals, FiniteSets

CONSTANTS
    Members,      \* people with an account
    Fresh,        \* those seeded without username and password
    Names,        \* usernames to choose from
    Taken,        \* those of them that people outside the instance have
    Tokens,       \* BOUND: tokens minted in one behaviour
    Requests,     \* BOUND: requests in flight at a time
    MaxMishaps    \* BOUND: failures and crashes in one behaviour

ASSUME PasswordLinksAssumption ==
    /\ Fresh \subseteq Members
    /\ Names \cap Members = {}
    /\ Taken \subseteq Names
    /\ None \notin Members \cup Names \cup Tokens
    /\ "first" \notin Tokens
    /\ MaxMishaps \in Nat

VARIABLES
    link,       \* the verification table: whom a token lets set a password
    mintedFor,  \* history: whom a token was minted for
    lapsed,     \* the tokens whose thirty minutes are over
    username,   \* user.username, unique
    password,   \* the credential: the token it was set with (Passwords)
    sessions,   \* the session table: the password that opened each, with the mark late
    trail,      \* the audit table
    job,        \* the handlers in flight
    spent,      \* history: tokens that set a password
    pulled,     \* history: tokens minted before a later reset took them away
    mishaps     \* history: failures and crashes

vars == <<link, mintedFor, lapsed, username, password, sessions, trail, job, spent,
          pulled, mishaps>>

Passwords == Tokens \cup {"first", None}

AllNames == Names \cup Members \cup {None}

(* A handler in flight: a reset by the owner or the seed, a redemption, or  *)
(* a sign-in, whose token is the password it was let through with.          *)
Job == [op: {"reset", "seed", "set", "signIn"},
        pc: {"revoke", "mint", "name", "consume", "hash", "store", "sessions",
             "restore", "recreate", "record", "enter"},
        member: Members, token: Passwords, name: Names \cup {None}]

(* A session.  History: late, if it was inserted after its password had     *)
(* been replaced and with no deletion of sessions still to come.            *)
Session == [password: Passwords \ {None}, late: BOOLEAN]

TypeOK ==
    /\ DOMAIN link \subseteq Tokens
    /\ link \in [DOMAIN link -> Members]
    /\ mintedFor \in [Tokens -> Members \cup {None}]
    /\ lapsed \subseteq Tokens
    /\ username \in [Members -> AllNames]
    /\ password \in [Members -> Passwords]
    /\ sessions \in [Members -> SUBSET Session]
    /\ trail \subseteq [op: {"reset", "set"}, member: Members]
    /\ DOMAIN job \subseteq Requests
    /\ job \in [DOMAIN job -> Job]
    /\ spent \subseteq Tokens
    /\ pulled \subseteq Tokens
    /\ mishaps \in Nat

Init ==
    /\ link = Nothing
    /\ mintedFor = [t \in Tokens |-> None]
    /\ lapsed = {}
    /\ username = [m \in Members |-> IF m \in Fresh THEN None ELSE m]
    /\ password = [m \in Members |-> IF m \in Fresh THEN None ELSE "first"]
    /\ sessions = [m \in Members |-> {}]
    /\ trail = {}
    /\ job = Nothing
    /\ spent = {}
    /\ pulled = {}
    /\ mishaps = 0

-----------------------------------------------------------------------------
links    == <<link, mintedFor, lapsed, pulled>>
accounts == <<username, password, sessions, spent>>

At(r, pc) == r \in DOMAIN job /\ job[r].pc = pc

Begin(r, op, pc, m, t, n) ==
    job' = Put(job, r, [op |-> op, pc |-> pc, member |-> m, token |-> t, name |-> n])

GoTo(r, pc) == job' = [job EXCEPT ![r].pc = pc]

End(r) == job' = Drop(job, r)

-----------------------------------------------------------------------------
\* Minting

\* resetPasswordAction, for anybody.
resetPasswordAction(r, m) ==
    /\ r \in Requests \ DOMAIN job
    /\ Begin(r, "reset", "revoke", m, None, None)
    /\ UNCHANGED <<links, accounts, trail, mishaps>>

\* The seed, re-run while the owner has no password.
seed(r, m) ==
    /\ r \in Requests \ DOMAIN job
    /\ m \in Fresh
    /\ password[m] = None
    /\ Begin(r, "seed", "revoke", m, None, None)
    /\ UNCHANGED <<links, accounts, trail, mishaps>>

LinksOf(m) == {t \in DOMAIN link : link[t] = m}

revokePasswordSetupLinks(r) ==
    /\ At(r, "revoke")
    /\ LET m == job[r].member IN
          /\ link' = Restrict(link, DOMAIN link \ LinksOf(m))
          /\ pulled' = pulled \cup {t \in Tokens : mintedFor[t] = m}
    /\ GoTo(r, "mint")
    /\ UNCHANGED <<mintedFor, lapsed, accounts, trail, mishaps>>

issuePasswordSetupUrl(r) ==
    /\ At(r, "mint")
    /\ \E t \in Tokens :
          /\ mintedFor[t] = None
          /\ mintedFor' = [mintedFor EXCEPT ![t] = job[r].member]
          /\ link' = Put(link, t, job[r].member)
    /\ IF job[r].op = "seed" THEN End(r) ELSE GoTo(r, "record")
    /\ UNCHANGED <<lapsed, pulled, accounts, trail, mishaps>>

\* BOUND: no token is left to mint; the instance's tokens never run out in the
\* code.
nothingLeftToMint(r) ==
    /\ At(r, "mint")
    /\ \A t \in Tokens : mintedFor[t] # None
    /\ End(r)
    /\ UNCHANGED <<links, accounts, trail, mishaps>>

lapse(t) ==
    /\ mintedFor[t] # None
    /\ t \notin lapsed
    /\ lapsed' = lapsed \cup {t}
    /\ UNCHANGED <<link, mintedFor, pulled, accounts, trail, job, mishaps>>

-----------------------------------------------------------------------------
\* Redeeming

\* readResetToken.
Resolves(t) == t \in DOMAIN link /\ t \notin lapsed

setPasswordNameLast(r, t, n) ==
    /\ r \in Requests \ DOMAIN job
    /\ Resolves(t)
    /\ Begin(r, "set", "consume", link[t], t, n)
    /\ UNCHANGED <<links, accounts, trail, mishaps>>

\* setPassword: resolve the link, and see whether the account has a username.
setPassword(r, t, n) ==
    /\ r \in Requests \ DOMAIN job
    /\ Resolves(t)
    /\ LET m == link[t] IN
          Begin(r, "set", IF username[m] = None THEN "name" ELSE "consume", m, t, n)
    /\ UNCHANGED <<links, accounts, trail, mishaps>>

\* The username is written first, unless somebody else has it.
claimUsername(r) ==
    /\ At(r, "name")
    /\ LET m == job[r].member
           n == job[r].name
       IN IF n \in Taken \/ \E x \in Members \ {m} : username[x] = n
          THEN /\ End(r)
               /\ UNCHANGED username
          ELSE /\ username' = [username EXCEPT ![m] = n]
               /\ GoTo(r, "consume")
    /\ UNCHANGED <<links, password, sessions, spent, trail, mishaps>>

peekToken(r) ==
    /\ At(r, "consume")
    /\ IF Resolves(job[r].token) THEN GoTo(r, "hash") ELSE End(r)
    /\ UNCHANGED <<links, accounts, trail, mishaps>>

\* Better Auth: the token is consumed, or INVALID_TOKEN.
consumeToken(r) ==
    /\ At(r, "consume")
    /\ IF Resolves(job[r].token)
       THEN /\ link' = Drop(link, job[r].token)
            /\ GoTo(r, "hash")
       ELSE /\ End(r)
            /\ UNCHANGED link
    /\ UNCHANGED <<mintedFor, lapsed, pulled, accounts, trail, mishaps>>

\* Better Auth: the breach lookup lets the password through or refuses it.
checkPassword(r) ==
    /\ At(r, "hash")
    /\ GoTo(r, "store") \/ GoTo(r, "restore")
    /\ UNCHANGED <<links, accounts, trail, mishaps>>

storePassword(r) ==
    /\ At(r, "store")
    /\ password' = [password EXCEPT ![job[r].member] = job[r].token]
    /\ spent' = spent \cup {job[r].token}
    /\ GoTo(r, "sessions")
    /\ UNCHANGED <<links, username, sessions, trail, mishaps>>

keepSessions(r) ==
    /\ At(r, "sessions")
    /\ GoTo(r, "record")
    /\ UNCHANGED <<links, accounts, trail, mishaps>>

\* revokeSessionsOnPasswordReset.
revokeSessions(r) ==
    /\ At(r, "sessions")
    /\ sessions' = [sessions EXCEPT ![job[r].member] = {}]
    /\ GoTo(r, "record")
    /\ UNCHANGED <<links, username, password, spent, trail, mishaps>>

lookAwayFromLink(r) ==
    /\ At(r, "restore")
    /\ End(r)
    /\ UNCHANGED <<links, accounts, trail, mishaps>>

\* restorePasswordSetupLink looks for the row,
lookForLink(r) ==
    /\ At(r, "restore")
    /\ IF job[r].token \in DOMAIN link THEN End(r) ELSE GoTo(r, "recreate")
    /\ UNCHANGED <<links, accounts, trail, mishaps>>

\* and puts it back with its old expiry.
recreateLink(r) ==
    /\ At(r, "recreate")
    /\ link' = Put(link, job[r].token, job[r].member)
    /\ End(r)
    /\ UNCHANGED <<mintedFor, lapsed, pulled, accounts, trail, mishaps>>

record(r) ==
    /\ At(r, "record")
    /\ trail' = trail \cup {[op |-> job[r].op, member |-> job[r].member]}
    /\ End(r)
    /\ UNCHANGED <<links, accounts, mishaps>>

\* Signing in, Better Auth: the password of the moment lets in,
signInAs(r, m) ==
    /\ r \in Requests \ DOMAIN job
    /\ username[m] # None
    /\ password[m] # None
    /\ Begin(r, "signIn", "enter", m, password[m], None)
    /\ UNCHANGED <<links, accounts, trail, mishaps>>

\* A redemption has stored its password and not yet deleted m's sessions.
Revoking(m) == \E r \in DOMAIN job : job[r].pc = "sessions" /\ job[r].member = m

\* and the session is inserted later, without another look at the password.
createSession(r) ==
    /\ At(r, "enter")
    /\ LET m == job[r].member
           p == job[r].token
       IN sessions' = [sessions EXCEPT ![m] = @ \cup
              {[password |-> p, late |-> password[m] # p /\ ~Revoking(m)]}]
    /\ End(r)
    /\ UNCHANGED <<links, username, password, spent, trail, mishaps>>

-----------------------------------------------------------------------------
\* A call fails by itself.  setPassword takes every error of /reset-password
\* but INVALID_TOKEN for one that came after the token was consumed.
fail(r) ==
    /\ r \in DOMAIN job
    /\ mishaps < MaxMishaps
    /\ IF job[r].pc \in {"consume", "hash", "store", "sessions"}
       THEN GoTo(r, "restore")
       ELSE End(r)
    /\ mishaps' = mishaps + 1
    /\ UNCHANGED <<links, accounts, trail>>

crash ==
    /\ job # Nothing
    /\ mishaps < MaxMishaps
    /\ job' = Nothing
    /\ mishaps' = mishaps + 1
    /\ UNCHANGED <<links, accounts, trail>>

Arrive(r) ==
    \/ \E m \in Members : resetPasswordAction(r, m) \/ seed(r, m) \/ signInAs(r, m)
    \/ \E t \in Tokens, n \in Names : setPassword(r, t, n)

Proceed(r) ==
    \/ revokePasswordSetupLinks(r) \/ issuePasswordSetupUrl(r) \/ nothingLeftToMint(r)
    \/ claimUsername(r) \/ consumeToken(r) \/ checkPassword(r) \/ storePassword(r)
    \/ revokeSessions(r) \/ lookForLink(r) \/ recreateLink(r) \/ record(r)
    \/ createSession(r)

Next ==
    \/ \E r \in Requests : Arrive(r) \/ Proceed(r) \/ fail(r)
    \/ \E t \in Tokens : lapse(t)
    \/ crash

Spec == Init /\ [][Next]_vars
-----------------------------------------------------------------------------
\* Handlers about to put a link back, or holding it consumed.
Redeeming(t) == \E r \in DOMAIN job :
    job[r].token = t /\ job[r].pc \in {"hash", "store", "sessions", "restore", "recreate"}

\* "Single use": as long as no call fails by itself, a link that set a password
\* is gone and no other redemption of it, refused earlier or at the same time,
\* brings it back.
SpentLinkIsGone ==
    mishaps = 0 =>
        \A t \in spent : /\ t \notin DOMAIN link
                         /\ \A r \in DOMAIN job :
                               job[r].token = t => job[r].pc \notin {"restore", "recreate"}

\* A refused password does not burn the link: unless it set a password or was
\* taken away by a later reset, a link is there for the next try.
RefusedLinkComesBack ==
    mishaps = 0 =>
        \A t \in Tokens : \/ mintedFor[t] = None
                          \/ t \in DOMAIN link \cup spent \cup pulled
                          \/ Redeeming(t)

\* "There is no moment where an account has a password and no way to sign in
\* with it."
NoPasswordWithoutUsername ==
    \A m \in Members : password[m] # None => username[m] # None

\* "Setting it revokes every session the old password opened": whatever
\* redemptions and sign-ins overlap, once no redemption is between its store and
\* its deletion, every session is of the password of the moment, those a sign-in
\* in flight inserted between the two included.  Only a sign-in let through before
\* the store that inserts its session after the deletion leaves one behind: the
\* code does not look at the password again.
OldSessionsDie ==
    mishaps = 0 =>
        \A m \in Members : \/ Revoking(m)
                           \/ \A s \in sessions[m] : s.late \/ s.password = password[m]
=============================================================================
