---------------------------- MODULE SessionClock ----------------------------
(***************************************************************************)
(* How long a sign-in lasts: the `session` row and its sliding window      *)
(* (src/lib/auth.ts), the copy of its token in one browser and the         *)
(* re-stamping of that cookie (src/middleware.ts), signing in again for    *)
(* freshness (src/lib/reauth.ts, src/lib/oidc-flow.ts), signing out.       *)
(*                                                                         *)
(* Requests of one browser overlap (tabs, prefetches, the viewer's fetch): *)
(* each leaves with the cookie of the moment, is served in steps, and its  *)
(* answer may arrive after that of a later one; an answer that is lost is  *)
(* one that has not arrived.  Better Auth's getSession is external: it     *)
(* looks the row up and, if a push is due, moves its expiry in a second    *)
(* statement.                                                              *)
(***************************************************************************)
EXTENDS OidcFlow, Tables, FiniteSets

CONSTANTS
    SESSION_IDLE,   \* SESSION_IDLE_SECONDS and the cookie's Max-Age, in units
    UPDATE_AGE,     \* session.updateAge, in units
    Tokens,         \* BOUND: sign-ins in one behaviour
    Requests,       \* BOUND: requests in flight at a time
    MaxOffset,      \* BOUND: how far the provider's clock is from this one, seconds
    MaxTime         \* BOUND: the last instant

ASSUME SessionClockAssumption ==
    /\ SESSION_IDLE \in Nat /\ UPDATE_AGE \in 0 .. SESSION_IDLE
    /\ {None, "keep", "delete"} \cap Tokens = {}
    /\ MaxOffset \in Nat /\ MaxTime \in Nat

VARIABLES
    now,        \* this server's clock
    row,        \* the session table, per token
    cookie,     \* what the browser holds: a token or None, and until when
    req,        \* the requests in flight
    issued,     \* history: the tokens ever handed out
    ended       \* history: tokens signed out

vars == <<now, row, cookie, req, issued, ended>>

Never == -1000          \* proved at no time this server can name

\* `proven` and `used` are history: when somebody last typed something to open
\* this session, and when a request was last let in on it.
Row == [created: Int, expires: Int, proven: Int, used: Int]

\* `sets` is what the answer does to the cookie: a token, "keep" or "delete".
Request == [kind: {"page", "api", "signin", "signout"},
            pc: {"arrived", "slide", "answered"},
            token: Tokens \cup {None},
            sets: Tokens \cup {"keep", "delete"}]

ClockTypeOK ==
    /\ now \in 0 .. MaxTime
    /\ DOMAIN row \subseteq Tokens /\ row \in [DOMAIN row -> Row]
    /\ cookie \in [token: Tokens \cup {None}, until: 0 .. MaxTime + SESSION_IDLE]
    /\ DOMAIN req \subseteq Requests /\ req \in [DOMAIN req -> Request]
    /\ issued \subseteq Tokens
    /\ ended \subseteq issued

ClockInit ==
    /\ now = 0
    /\ row = Nothing
    /\ cookie = [token |-> None, until |-> 0]
    /\ req = Nothing
    /\ issued = {}
    /\ ended = {}

tick ==
    /\ now < MaxTime
    /\ now' = now + 1
    /\ UNCHANGED <<row, cookie, req, issued, ended>>

-----------------------------------------------------------------------------
\* The browser

Held == IF now < cookie.until THEN cookie.token ELSE None

\* middleware: a page is not answered without a cookie, and its answer carries
\* the cookie it came with once more, whatever the page then finds.
restampNothing(kind, token) == "keep"

restampSession(kind, token) == IF kind = "page" THEN token ELSE "keep"

send(r, kind) ==
    /\ r \in Requests \ DOMAIN req
    /\ Held # None
    /\ req' = Put(req, r, [kind |-> kind, pc |-> "arrived", token |-> Held,
                           sets |-> restampSession(kind, Held)])
    /\ UNCHANGED <<now, row, cookie, issued, ended>>

\* The cookie's Max-Age, which is in seconds like the row's window.
cookieUntil == now + SESSION_IDLE

receive(r) ==
    /\ r \in DOMAIN req
    /\ req[r].pc = "answered"
    /\ LET t == req[r].sets IN
          /\ cookie' = CASE t = "keep"   -> cookie
                         [] t = "delete" -> [token |-> None, until |-> 0]
                         [] OTHER        -> [token |-> t, until |-> cookieUntil]
    /\ req' = Drop(req, r)
    /\ UNCHANGED <<now, row, issued, ended>>

-----------------------------------------------------------------------------
\* The server

Answer(r, sets) ==
    req' = [req EXCEPT ![r] = [@ EXCEPT !.pc = "answered", !.token = None, !.sets = sets]]

Live(t) == t \in DOMAIN row /\ now < row[t].expires

\* The window is pushed out when the last push is UPDATE_AGE ago.
neverDue(t) == FALSE

due(t) == row[t].expires - SESSION_IDLE + UPDATE_AGE <= now

\* getSession, first statement.  An expired row is deleted; an API answer then
\* takes the cookie away, which a page cannot.
getSession(r) ==
    /\ r \in DOMAIN req
    /\ req[r].pc = "arrived" /\ req[r].kind \in {"page", "api"}
    /\ LET t == req[r].token IN
       IF Live(t)
       THEN /\ row' = [row EXCEPT ![t].used = now]
            /\ IF due(t) THEN req' = [req EXCEPT ![r].pc = "slide"]
                         ELSE Answer(r, req[r].sets)
       ELSE /\ row' = Drop(row, t)
            /\ Answer(r, IF req[r].kind = "api" THEN "delete" ELSE req[r].sets)
    /\ UNCHANGED <<now, cookie, issued, ended>>

\* An API answer carries the cookie with a new Max-Age; a page's cannot, and
\* has only what the middleware put on it.
SlidCookie(r) == IF req[r].kind = "api" THEN req[r].token ELSE req[r].sets

upsertSession(r) ==
    /\ r \in DOMAIN req
    /\ req[r].pc = "slide"
    /\ LET t == req[r].token IN
          row' = Put(row, t, [created |-> now, expires |-> now + SESSION_IDLE,
                              proven |-> Never, used |-> now])
    /\ Answer(r, SlidCookie(r))
    /\ UNCHANGED <<now, cookie, issued, ended>>

\* getSession, second statement: an update, which finds the row or does
\* nothing.
slideSession(r) ==
    /\ r \in DOMAIN req
    /\ req[r].pc = "slide"
    /\ LET t == req[r].token IN
          row' = IF t \in DOMAIN row
                 THEN [row EXCEPT ![t].expires = now + SESSION_IDLE,
                                  ![t].used = now]
                 ELSE row
    /\ Answer(r, SlidCookie(r))
    /\ UNCHANGED <<now, cookie, issued, ended>>

signOut(r) ==
    /\ r \in DOMAIN req
    /\ req[r].pc = "arrived" /\ req[r].kind = "signout"
    /\ row' = Drop(row, req[r].token)
    /\ ended' = ended \cup {req[r].token}
    /\ Answer(r, "delete")
    /\ UNCHANGED <<now, cookie, issued>>

\* A row dated `at`, opened by somebody who last typed something at `proven`.
OpenSession(r, at, proven) ==
    \E t \in Tokens \ issued :
        /\ row' = Put(row, t, [created |-> at, expires |-> now + SESSION_IDLE,
                               proven |-> proven, used |-> now])
        /\ issued' = issued \cup {t}
        /\ req' = Put(req, r, [kind |-> "signin", pc |-> "answered",
                               token |-> None, sets |-> t])
        /\ UNCHANGED <<now, cookie, ended>>

\* Username and password, or a passkey: at the door or on /reauth.
signIn(r) ==
    /\ r \in Requests \ DOMAIN req
    /\ OpenSession(r, now, now)

\* The provider signs the person in who typed something there at `typed`, now
\* or earlier, and says so by a clock of its own; or it does not say.
Told(typed, off) == [iat |-> (now \div SECOND) + off,
                     auth_time |-> (typed \div SECOND) + off]

Untold(off) ==
    LET iat == (now \div SECOND) + off
    IN {[iat |-> iat, auth_time |-> Missing], [iat |-> iat, auth_time |-> iat + 1]}

\* ssoProfile and session.create.before.  A re-authentication is refused
\* unless its login was just now.
ssoSignIn(r) ==
    /\ r \in Requests \ DOMAIN req
    /\ \E off \in -MaxOffset .. MaxOffset, reauth \in BOOLEAN :
          \/ \E typed \in 0 .. now :
                /\ reauth => authTimeVerdict(Told(typed, off), now) = "fresh"
                /\ OpenSession(r, ssoAuthenticatedAt(Told(typed, off), now), typed)
          \/ \E claims \in Untold(off) :
                /\ reauth => authTimeVerdict(claims, now) = "fresh"
                /\ OpenSession(r, ssoAuthenticatedAt(claims, now), Never)

-----------------------------------------------------------------------------
ClockNext ==
    \/ tick
    \/ \E r \in Requests :
          \/ \E kind \in {"page", "api", "signout"} : send(r, kind)
          \/ receive(r)
          \/ getSession(r) \/ slideSession(r)
          \/ signIn(r) \/ ssoSignIn(r) \/ signOut(r)

ClockSpec == ClockInit /\ [][ClockNext]_vars
-----------------------------------------------------------------------------
\* auth.ts: "the clock only ever runs down when nobody is there".  A session
\* is good for SESSION_IDLE after it was last used and no longer, and for all
\* but UPDATE_AGE of that whatever was used meanwhile.
WindowFollowsUse ==
    \A t \in DOMAIN row :
        /\ row[t].expires <= row[t].used + SESSION_IDLE
        /\ (\A r \in DOMAIN req : req[r].pc = "slide" => req[r].token # t)
              => row[t].expires > row[t].used + SESSION_IDLE - UPDATE_AGE - 1

\* middleware.ts: "the cookie never dies before the row it names", once every
\* answer has arrived: nobody is signed out in the middle of working.
CookieOutlivesItsRow ==
    req = Nothing =>
        \A t \in DOMAIN row \ {None} :
            cookie.token = t => cookie.until >= row[t].expires

\* Freshness is never minted: whatever a session was opened by, slid by or
\* dated by, and whatever the provider's clock says, a session counts as fresh
\* only if somebody typed something within the five minutes, give or take the
\* two roundings to seconds.
FreshMeansProven ==
    \A t \in DOMAIN row :
        isFreshAuth(row[t].created, now) \/ freshEnoughToLink(row[t].created, now) =>
            now - row[t].proven < (FRESH_AUTH_SECONDS + 2) * SECOND

\* Signing out is for good, whatever else of that session is still under way.
SignedOutStaysOut == ended \cap DOMAIN row = {}
=============================================================================
