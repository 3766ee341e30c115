------------------------------ MODULE OidcFlow ------------------------------
(***************************************************************************)
(* The arithmetic of freshness: how long ago somebody proved who they are. *)
(* src/lib/oidc-flow.ts for a sign-in through the provider, whose clock is *)
(* not this server's, src/lib/reauth.ts and the /link-social gate of       *)
(* src/lib/auth.ts for a session.  Time is in units of which SECOND make a *)
(* second; the claims of a token are whole seconds.                        *)
(***************************************************************************)
EXTENDS Integers

CONSTANTS
    SECOND,                     \* 1000, in milliseconds
    FRESH_AUTH_SECONDS,         \* 300
    REAUTH_MAX_AGE_SECONDS,     \* 120
    CLOCK_SKEW_SECONDS          \* 600

ASSUME OidcFlowAssumption ==
    /\ SECOND \in Nat \ {0}
    /\ FRESH_AUTH_SECONDS \in Nat
    /\ REAUTH_MAX_AGE_SECONDS \in 0 .. FRESH_AUTH_SECONDS
    /\ CLOCK_SKEW_SECONDS \in Nat

\* A claim a token does not make, and an age that cannot be told.
Missing == -1

finite(claim) == claim # Missing

\* iat - auth_time, both by the provider's clock, if the token was issued
\* around now by this server's.
authAgeAtIssue(claims, nowMs) ==
    IF \/ ~finite(claims.iat) \/ ~finite(claims.auth_time)
       \/ claims.auth_time > claims.iat
       \/ claims.iat * SECOND - nowMs > CLOCK_SKEW_SECONDS * SECOND
       \/ nowMs - claims.iat * SECOND > CLOCK_SKEW_SECONDS * SECOND
    THEN Missing
    ELSE claims.iat - claims.auth_time

authTimeVerdict(claims, nowMs) ==
    IF ~finite(claims.auth_time) \/ ~finite(claims.iat) THEN "missing"
    ELSE IF authAgeAtIssue(claims, nowMs) \in 0 .. REAUTH_MAX_AGE_SECONDS
         THEN "fresh" ELSE "stale"

\* What dating a session from the server's clock, or from nothing, would do.
datedByThisClock(claims, nowMs) ==
    IF finite(claims.auth_time) THEN claims.auth_time * SECOND ELSE nowMs

\* A sign-in nobody can date is just too old to be fresh.
ssoAuthenticatedAt(claims, nowMs) ==
    LET age == authAgeAtIssue(claims, nowMs)
    IN nowMs - SECOND * (IF age # Missing THEN age ELSE FRESH_AUTH_SECONDS + 1)

\* reauth.ts: rounded down, and no age for a session from the future.
authAgeSeconds(createdAt, nowMs) ==
    IF nowMs < createdAt THEN Missing ELSE (nowMs - createdAt) \div SECOND

isFreshAuth(createdAt, nowMs) ==
    authAgeSeconds(createdAt, nowMs) \in 0 .. FRESH_AUTH_SECONDS

\* hooks.before of /link-social: the same window, not rounded.
freshEnoughToLink(createdAt, nowMs) ==
    nowMs - createdAt \in 0 .. FRESH_AUTH_SECONDS * SECOND
=============================================================================
