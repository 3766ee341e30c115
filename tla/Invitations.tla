---------------------------- MODULE Invitations ----------------------------
(***************************************************************************)
(* Who may exist: src/lib/invites.ts, the claim page                       *)
(* (src/app/invite/[token]/actions.ts) and the hooks around the creation   *)
(* of an account in src/lib/auth.ts.  An account is opened in steps, each  *)
(* an `await`: the link is checked, the gate asks for an invitation, the   *)
(* invitation is read again for what it decided, the row is inserted, and  *)
(* the invitations of the address are burnt.  Between any two of them the  *)
(* owner may resend or revoke, time passes, and other requests run.        *)
(*                                                                         *)
(* purgeStaleInvites is called by nothing and is left out.                 *)
(***************************************************************************)
EXTENDS Tables, FiniteSets, Naturals

CONSTANTS
    Emails,        \* addresses
    Invites,       \* BOUND: invitation ids, never handed out twice
    Tokens,        \* BOUND: link tokens in use at a time
    Requests,      \* BOUND: requests in flight at a time
    OidcSignup,    \* null without a provider, else OIDC_SIGNUP
    MaxMishaps     \* BOUND: failures and crashes in one behaviour

ASSUME InvitationsAssumption ==
    /\ OidcSignup \in {None, "invite", "open"}
    /\ MaxMishaps \in Nat
    /\ None \notin Emails \cup Invites \cup Tokens

VARIABLES
    invite,     \* the invite table
    account,    \* the user table by address (unique): who invited them
    job,        \* the handlers in flight
    trail,      \* the audit table: what was done to which invitation
    mishaps     \* history: failures and crashes

vars == <<invite, account, job, trail, mishaps>>

Owner == "owner"

(* `lapsed`: expiresAt has passed.                                          *)
Invite == [email: Emails, token: Tokens, lapsed: BOOLEAN,
           state: {"open", "accepted", "revoked"}]

(* `token` is the link a claim came by, or the one to be written; `inviter` *)
(* is what the stamping hook read.                                          *)
Operations == {"create", "resend", "revoke", "claim", "oidc"}

Job == [op: Operations,
        pc: {"write", "gate", "stamp", "insert", "burn", "record"},
        email: Emails, id: Invites \cup {None}, token: Tokens \cup {None},
        inviter: {Owner, None}]

TypeOK ==
    /\ DOMAIN invite \subseteq Invites
    /\ invite \in [DOMAIN invite -> Invite]
    /\ DOMAIN account \subseteq Emails
    /\ account \in [DOMAIN account -> {Owner, None}]
    /\ DOMAIN job \subseteq Requests
    /\ job \in [DOMAIN job -> Job]
    /\ trail \subseteq [op: Operations, id: Invites \cup {None}, email: Emails]
    /\ mishaps \in Nat

Init ==
    /\ invite = Nothing
    /\ account = Nothing
    /\ job = Nothing
    /\ trail = {}
    /\ mishaps = 0

tables == <<invite, account, trail, mishaps>>

-----------------------------------------------------------------------------
Idle(r) == r \in Requests \ DOMAIN job

At(r, ops, pc) == r \in DOMAIN job /\ job[r].op \in ops /\ job[r].pc = pc

Begin(r, op, pc, e, i, t) ==
    job' = Put(job, r, [op |-> op, pc |-> pc, email |-> e, id |-> i, token |-> t,
                        inviter |-> None])

GoTo(r, pc) == job' = [job EXCEPT ![r].pc = pc]

End(r) == job' = Drop(job, r)

\* Neither accepted nor revoked, whether or not it has lapsed.
Open(i) == i \in DOMAIN invite /\ invite[i].state = "open"

Pending(i) == Open(i) /\ ~invite[i].lapsed

\* pendingInviteFor, as a yes or a no.
pendingInviteFor(e) == \E i \in DOMAIN invite : invite[i].email = e /\ Pending(i)

\* What consumeInvitesFor closes.
OpenFor(e) == {i \in DOMAIN invite : invite[i].email = e /\ Open(i)}

Accept(e) ==
    invite' = [i \in DOMAIN invite |->
                  IF i \in OpenFor(e) THEN [invite[i] EXCEPT !.state = "accepted"]
                                      ELSE invite[i]]

\* generateToken: random, so one that nothing holds is as good as new.
FreshTokens == Tokens \ ({invite[i].token : i \in DOMAIN invite}
                            \cup {job[r].token : r \in DOMAIN job})

-----------------------------------------------------------------------------
\* The owner's side

\* BOUND: an id is left for every invitation that is being created.
IdsLeft ==
    Cardinality({r \in DOMAIN job : At(r, {"create"}, "write")})
        < Cardinality(Invites \ DOMAIN invite)

createInvite(r, e) ==
    /\ Idle(r)
    /\ IdsLeft
    /\ e \notin DOMAIN account
    /\ ~pendingInviteFor(e)
    /\ \E t \in FreshTokens : Begin(r, "create", "write", e, None, t)
    /\ UNCHANGED tables

SlotFreePending(e) == ~pendingInviteFor(e)

\* The unique index invite_one_open_per_email, which knows nothing of expiry.
SlotFree(e) == \A i \in DOMAIN invite : invite[i].email = e => ~Open(i)

insertInvite(r) ==
    /\ At(r, {"create"}, "write")
    /\ LET e == job[r].email IN
       /\ SlotFree(e)
       /\ \E i \in Invites \ DOMAIN invite :
             invite' = Put(invite, i, [email |-> e, token |-> job[r].token,
                                       lapsed |-> FALSE, state |-> "open"])
    /\ GoTo(r, "record")
    /\ UNCHANGED <<account, trail, mishaps>>

\* "That address already has an invite waiting."
insertRefused(r) ==
    /\ At(r, {"create"}, "write")
    /\ ~SlotFree(job[r].email)
    /\ End(r)
    /\ UNCHANGED tables

resendInvite(r, i) ==
    /\ Idle(r)
    /\ Open(i)
    /\ \E t \in FreshTokens : Begin(r, "resend", "write", invite[i].email, i, t)
    /\ UNCHANGED tables

rotateReopening(r) ==
    /\ At(r, {"resend"}, "write")
    /\ invite' = [invite EXCEPT ![job[r].id] =
                     [@ EXCEPT !.token = job[r].token, !.lapsed = FALSE, !.state = "open"]]
    /\ GoTo(r, "record")
    /\ UNCHANGED <<account, trail, mishaps>>

\* The update goes by id alone, whatever the invitation has become.
rotateToken(r) ==
    /\ At(r, {"resend"}, "write")
    /\ invite' = [invite EXCEPT ![job[r].id] =
                     [@ EXCEPT !.token = job[r].token, !.lapsed = FALSE]]
    /\ GoTo(r, "record")
    /\ UNCHANGED <<account, trail, mishaps>>

revokeInviteAction(r, i) ==
    /\ Idle(r)
    /\ i \in DOMAIN invite
    /\ Begin(r, "revoke", "write", invite[i].email, i, None)
    /\ UNCHANGED tables

\* revokeInvite: a conditional update.
revokeInvite(r) ==
    /\ At(r, {"revoke"}, "write")
    /\ LET i == job[r].id IN
       invite' = IF Open(i) THEN [invite EXCEPT ![i].state = "revoked"] ELSE invite
    /\ GoTo(r, "record")
    /\ UNCHANGED <<account, trail, mishaps>>

\* Seven days pass.
lapse(i) ==
    /\ Pending(i)
    /\ invite' = [invite EXCEPT ![i].lapsed = TRUE]
    /\ UNCHANGED <<account, job, trail, mishaps>>

-----------------------------------------------------------------------------
\* The invitee's side

\* acceptInvite: checkInviteToken, and on to the sign-up inside claimingInvite.
acceptInvite(r, t) ==
    /\ Idle(r)
    /\ \E i \in DOMAIN invite :
          /\ invite[i].token = t
          /\ Pending(i)
          /\ Begin(r, "claim", "gate", invite[i].email, i, t)
    /\ UNCHANGED tables

\* A first sign-in through the provider, with an address it has verified and
\* that no account has (otherwise it is not a creation).
oidcSignIn(r, e) ==
    /\ Idle(r)
    /\ OidcSignup # None
    /\ e \notin DOMAIN account
    /\ Begin(r, "oidc", "gate", e, None, None)
    /\ UNCHANGED tables

MayProvisionAnyone(r) == TRUE

\* mayProvision: a claim carries its link, the provider's word stands in for it.
mayProvision(r) ==
    \/ pendingInviteFor(job[r].email)
    \/ job[r].op = "oidc" /\ OidcSignup = "open"

validateUserInfo(r) ==
    /\ At(r, {"claim", "oidc"}, "gate")
    /\ IF mayProvision(r) THEN GoTo(r, "stamp") ELSE End(r)
    /\ UNCHANGED tables

\* user.create.before: the invitation is read a second time.
stampUser(r) ==
    /\ At(r, {"claim", "oidc"}, "stamp")
    /\ LET by == IF pendingInviteFor(job[r].email) THEN Owner ELSE None
       IN job' = [job EXCEPT ![r] = [@ EXCEPT !.pc = "insert", !.inviter = by]]
    /\ UNCHANGED tables

\* The user row; the address is unique.
insertUser(r) ==
    /\ At(r, {"claim", "oidc"}, "insert")
    /\ LET e == job[r].email IN
       IF e \notin DOMAIN account
       THEN /\ account' = Put(account, e, job[r].inviter)
            /\ GoTo(r, "burn")
       ELSE /\ End(r)
            /\ UNCHANGED account
    /\ UNCHANGED <<invite, trail, mishaps>>

burnUnrecorded(r) ==
    /\ At(r, {"claim", "oidc"}, "burn")
    /\ Accept(job[r].email)
    /\ End(r)
    /\ UNCHANGED <<account, trail, mishaps>>

\* user.create.after: consumeInvitesFor.
consumeInvites(r) ==
    /\ At(r, {"claim", "oidc"}, "burn")
    /\ Accept(job[r].email)
    /\ GoTo(r, "record")
    /\ UNCHANGED <<account, trail, mishaps>>

record(r) ==
    /\ r \in DOMAIN job
    /\ job[r].pc = "record"
    /\ trail' = trail \cup {[op |-> job[r].op, id |-> job[r].id, email |-> job[r].email]}
    /\ End(r)
    /\ UNCHANGED <<invite, account, mishaps>>

-----------------------------------------------------------------------------
\* A call fails by itself and the handler ends (an audit row that cannot be
\* written is the handler's last step anyway).
fail(r) ==
    /\ r \in DOMAIN job
    /\ mishaps < MaxMishaps
    /\ End(r)
    /\ mishaps' = mishaps + 1
    /\ UNCHANGED <<invite, account, trail>>

crash ==
    /\ job # Nothing
    /\ mishaps < MaxMishaps
    /\ job' = Nothing
    /\ mishaps' = mishaps + 1
    /\ UNCHANGED <<invite, account, trail>>

Arrive(r) ==
    \/ \E e \in Emails : createInvite(r, e) \/ oidcSignIn(r, e)
    \/ \E i \in Invites : resendInvite(r, i) \/ revokeInviteAction(r, i)
    \/ \E t \in Tokens : acceptInvite(r, t)

Proceed(r) ==
    \/ insertInvite(r) \/ insertRefused(r) \/ rotateToken(r) \/ revokeInvite(r)
    \/ validateUserInfo(r) \/ stampUser(r) \/ insertUser(r) \/ consumeInvites(r)
    \/ record(r)

Next ==
    \/ \E r \in Requests : Arrive(r) \/ Proceed(r) \/ fail(r)
    \/ \E i \in Invites : lapse(i)
    \/ crash

Spec == Init /\ [][Next]_vars
-----------------------------------------------------------------------------
\* "One open invite per address at a time", lapsed ones counted: there is
\* never a question which of two links of an address is the one.
OneOpenPerAddress ==
    \A i, k \in DOMAIN invite :
        (Open(i) /\ Open(k) /\ invite[i].email = invite[k].email) => i = k

\* The guest list and the accounts agree, however the checks interleave with
\* resends and revocations: unless the provider's sign-ups are open, nobody has
\* an account whose address was never invited, and an invitation is burnt only
\* by the account it let in, so a sign-up that fails leaves the link good.
InviteOnly ==
    /\ OidcSignup # "open" =>
          \A e \in DOMAIN account : \E i \in DOMAIN invite : invite[i].email = e
    /\ \A i \in DOMAIN invite :
          invite[i].state = "accepted" => invite[i].email \in DOMAIN account

\* Accepted and revoked are final, and exclude each other: a late resend or a
\* raced revocation does not bring a link back.
ClosedForGood ==
    [][\A i \in DOMAIN invite :
          ~Open(i) => i \in DOMAIN invite' /\ invite'[i].state = invite[i].state]_vars

\* audit.ts: the trail says who did what.  When nothing is under way and nothing
\* failed, whatever closed an invitation is on it, whichever of two requests
\* came first: the revocation of that invitation, or the account it let in.
ClosingIsOnTheTrail ==
    (job = Nothing /\ mishaps = 0) =>
        \A i \in DOMAIN invite :
            CASE invite[i].state = "revoked" ->
                    \E x \in trail : x.op = "revoke" /\ x.id = i
              [] invite[i].state = "accepted" ->
                    \E x \in trail : x.op \in {"claim", "oidc"} /\ x.email = invite[i].email
              [] OTHER -> TRUE
=============================================================================
