SPECIFICATION DoorsSpec
CONSTANTS
    SECOND = 2
    FRESH_AUTH_SECONDS = 1
    REAUTH_MAX_AGE_SECONDS = 0
    CLOCK_SKEW_SECONDS = 2
    SESSION_IDLE = 3
    UPDATE_AGE = 1
    Tokens = {t1, t2}
    Requests = {r1, r2}
    MaxOffset = 3
    MaxTime = 4
    Clients = {c1, c2}
    Owner = owner
    Models = {m1, m2}
    Filed = {m1}
    Sessions = {s1}
    Jobs = {r1, r2}
    MaxLinks = 1
    MaxMishaps = 1
SYMMETRY Symmetry
CHECK_DEADLOCK FALSE
INVARIANTS
    WindowFollowsUse
    CookieOutlivesItsRow
    FreshMeansProven
    SignedOutStaysOut
    ShutOutMeansNothingHappens
    SessionsDieWithAccess
