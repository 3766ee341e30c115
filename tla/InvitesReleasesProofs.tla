------------------------ MODULE InvitesReleasesProofs -----------------------
(***************************************************************************)
(* What holds of Invitations for any number of addresses, invitations,     *)
(* links, requests and failures: one open invitation per address, nobody   *)
(* in who was not invited, and what is closed stays closed.  And of        *)
(* ReleaseWizard, for any number of clones, versions, commits and wizards: *)
(* what is published is what was merged.  They share nothing.              *)
(***************************************************************************)
EXTENDS Invitations, ReleaseWizard, TablesProofs

-----------------------------------------------------------------------------
\* The guest list

\* What a handler's record `j` says of the guest list `inv` and of the accounts
\* `acc`.  About to write a link, it holds one.
HoldsLink(j) == j.op \in {"create", "resend"} => j.token \in Tokens

\* Past the gate, somebody has invited the address, and that is never undone:
\* no operation deletes an invitation.
Invited(e, inv) == \E i \in DOMAIN inv : inv[i].email = e

PastTheGate(j, inv) ==
    (j.op \in {"claim", "oidc"} /\ j.pc \in {"stamp", "insert"} /\ OidcSignup # "open")
        => Invited(j.email, inv)

\* About to burn, the account is there.
BurnsForAnAccount(j, acc) ==
    (j.op \in {"claim", "oidc"} /\ j.pc = "burn") => j.email \in DOMAIN acc

JobHolds(j, inv, acc) ==
    HoldsLink(j) /\ PastTheGate(j, inv) /\ BurnsForAnAccount(j, acc)

JobsHold == \A r \in DOMAIN job : JobHolds(job[r], invite, account)

\* InviteOnly is about what the hooks have done; that they were right to do it
\* rests on what a handler in flight found at the gate.
Inv == TypeOK /\ JobsHold /\ OneOpenPerAddress /\ InviteOnly

-----------------------------------------------------------------------------
\* The handlers

JobsTyped == DOMAIN job \subseteq Requests /\ job \in [DOMAIN job -> Job]

\* The guest list only grows, its addresses stay, and accounts stay.
NothingForgotten ==
    /\ DOMAIN invite \subseteq DOMAIN invite' /\ DOMAIN account \subseteq DOMAIN account'
    /\ \A i \in DOMAIN invite : invite'[i].email = invite[i].email

LEMMA JobStays ==
    ASSUME NothingForgotten, NEW j, JobHolds(j, invite, account)
    PROVE  JobHolds(j, invite', account')
  BY DEF NothingForgotten, JobHolds, PastTheGate, BurnsForAnAccount, Invited

\* A handler begins: its own record must be right, the others are as they were.
LEMMA BeginKeeps ==
    ASSUME TypeOK, JobsHold, NothingForgotten, NEW r \in Requests,
           NEW op \in Operations, NEW pc \in {"write", "gate"}, NEW e \in Emails,
           NEW i \in Invites \cup {None}, NEW t \in Tokens \cup {None},
           op \in {"create", "resend"} => t \in Tokens,
           Begin(r, op, pc, e, i, t)
    PROVE  JobsTyped' /\ JobsHold'
  <1> DEFINE j == [op |-> op, pc |-> pc, email |-> e, id |-> i, token |-> t,
                   inviter |-> None]
  <1>1. j \in Job /\ JobHolds(j, invite', account')
    BY DEF Job, JobHolds, HoldsLink, PastTheGate, BurnsForAnAccount
  <1>2. job' = Put(job, r, j)
    BY DEF Begin
  <1> HIDE DEF j
  <1>3. /\ DOMAIN job' = DOMAIN job \cup {r} /\ job'[r] = j
        /\ \A y \in DOMAIN job \ {r} : job'[y] = job[y]
    BY <1>2 DEF Put
  <1>5. JobsTyped'
    BY <1>1, <1>2, Extended DEF JobsTyped, TypeOK
  <1>4. ASSUME NEW y \in DOMAIN job'
        PROVE  JobHolds(job'[y], invite', account')
    <2>1. CASE y = r
      BY <2>1, <1>1, <1>3
    <2>2. CASE y # r
      BY <2>2, <1>3, <1>4, JobStays DEF JobsHold
    <2> QED
      BY <2>1, <2>2
  <1> QED
    BY <1>4, <1>5 DEF JobsHold

\* One handler's record changes.
LEMMA ChangeKeeps ==
    ASSUME TypeOK, JobsHold, NothingForgotten, NEW r \in DOMAIN job, NEW j \in Job,
           JobHolds(j, invite', account'), job' = [job EXCEPT ![r] = j]
    PROVE  JobsTyped' /\ JobsHold'
  <1>1. JobsTyped'
    BY DEF JobsTyped, TypeOK
  <1>2. ASSUME NEW y \in DOMAIN job'
        PROVE  JobHolds(job'[y], invite', account')
    <2>1. CASE y = r
      BY <2>1 DEF TypeOK
    <2>2. CASE y # r
      BY <2>2, <1>2, JobStays DEF JobsHold, TypeOK
    <2> QED
      BY <2>1, <2>2
  <1> QED
    BY <1>1, <1>2 DEF JobsHold

\* A handler ends.
LEMMA EndKeeps ==
    ASSUME TypeOK, JobsHold, NothingForgotten, NEW r, End(r)
    PROVE  JobsTyped' /\ JobsHold'
  <1>1. /\ JobsTyped'
        /\ DOMAIN job' \subseteq DOMAIN job
        /\ \A y \in DOMAIN job' : job'[y] = job[y]
    BY Dropped DEF JobsTyped, TypeOK, End
  <1>2. ASSUME NEW y \in DOMAIN job'
        PROVE  JobHolds(job'[y], invite', account')
    BY <1>1, <1>2, JobStays DEF JobsHold
  <1> QED
    BY <1>1, <1>2 DEF JobsHold

-----------------------------------------------------------------------------
\* The tables

Kept == /\ invite' \in [DOMAIN invite' -> Invite] /\ DOMAIN invite' \subseteq Invites
        /\ account' \in [DOMAIN account' -> {Owner, None}] /\ DOMAIN account' \subseteq Emails
        /\ OneOpenPerAddress' /\ InviteOnly'

\* What every step does: the types hold, an address keeps one open invitation,
\* nothing is forgotten, and nothing closed is opened.
StaysClosed ==
    \A i \in DOMAIN invite :
        ~Open(i) => i \in DOMAIN invite' /\ invite'[i].state = invite[i].state

LEMMA TablesUntouched ==
    ASSUME Inv, UNCHANGED <<invite, account>>
    PROVE  Kept /\ NothingForgotten /\ StaysClosed
  BY DEF Inv, TypeOK, Kept, NothingForgotten, StaysClosed, OneOpenPerAddress, InviteOnly,
         Open

\* An invitation is inserted where the index finds none that is open.
LEMMA InsertInviteKeeps ==
    ASSUME Inv, NEW r \in Requests, insertInvite(r)
    PROVE  Kept /\ NothingForgotten /\ StaysClosed
  <1> DEFINE e == job[r].email
             row == [email |-> e, token |-> job[r].token, lapsed |-> FALSE,
                     state |-> "open"]
  <1>1. PICK i \in Invites \ DOMAIN invite : invite' = Put(invite, i, row)
    BY DEF insertInvite
  <1>2. row \in Invite
    BY DEF insertInvite, At, Inv, JobsHold, JobHolds, HoldsLink, TypeOK, Job, Invite
  <1>3. row.email = e /\ row.state = "open"
    OBVIOUS
  <1>4. \A k \in DOMAIN invite : invite[k].email = e => ~Open(k)
    BY DEF insertInvite, SlotFree
  <1>5. account' = account
    BY DEF insertInvite
  <1> HIDE DEF row, e
  <1>6. /\ DOMAIN invite' = DOMAIN invite \cup {i}
        /\ invite'[i] = row
        /\ \A k \in DOMAIN invite \ {i} : invite'[k] = invite[k]
    BY <1>1 DEF Put
  <1>10. DOMAIN invite' \subseteq Invites /\ invite' \in [DOMAIN invite' -> Invite]
    BY <1>1, <1>2, Extended DEF Inv, TypeOK
  <1>7. OneOpenPerAddress'
    BY <1>3, <1>4, <1>6 DEF Inv, OneOpenPerAddress, Open
  <1>8. InviteOnly'
    BY <1>3, <1>5, <1>6 DEF Inv, InviteOnly
  <1>9. NothingForgotten /\ StaysClosed
    BY <1>5, <1>6 DEF NothingForgotten, StaysClosed
  <1> QED
    BY <1>5, <1>7, <1>8, <1>9, <1>10 DEF Kept, Inv, TypeOK

\* Invitations change in their link or are closed, and none of them otherwise.
LEMMA UpdateKeeps ==
    ASSUME Inv, account' = account, DOMAIN invite' = DOMAIN invite,
           invite' \in [DOMAIN invite' -> Invite],
           \A i \in DOMAIN invite :
               /\ invite'[i].email = invite[i].email
               /\ \/ invite'[i].state = invite[i].state
                  \/ Open(i) /\ invite'[i].state = "revoked"
                  \/ /\ Open(i) /\ invite'[i].state = "accepted"
                     /\ invite[i].email \in DOMAIN account
    PROVE  Kept /\ NothingForgotten /\ StaysClosed
  <1>1. OneOpenPerAddress'
    BY DEF Inv, OneOpenPerAddress, Open
  <1>2. InviteOnly'
    BY DEF Inv, InviteOnly
  <1> QED
    BY <1>1, <1>2 DEF Kept, NothingForgotten, StaysClosed, Inv, TypeOK

\* An account is opened for an address that was invited.
LEMMA InsertUserKeeps ==
    ASSUME Inv, NEW r \in Requests, insertUser(r)
    PROVE  Kept /\ NothingForgotten /\ StaysClosed
  <1>1. CASE job[r].email \in DOMAIN account
    BY <1>1, TablesUntouched DEF insertUser
  <1>2. CASE job[r].email \notin DOMAIN account
    <2>1. /\ r \in DOMAIN job /\ job[r] \in Job
          /\ PastTheGate(job[r], invite)
          /\ job[r].op \in {"claim", "oidc"} /\ job[r].pc = "insert"
      BY DEF insertUser, At, Inv, TypeOK, JobsHold, JobHolds
    <2>2. OidcSignup # "open" => \E i \in DOMAIN invite : invite[i].email = job[r].email
      BY <2>1 DEF PastTheGate, Invited
    <2>3. account' = Put(account, job[r].email, job[r].inviter) /\ invite' = invite
      BY <1>2 DEF insertUser
    <2>4. job[r].email \in Emails /\ job[r].inviter \in {Owner, None}
      BY <2>1 DEF Job
    <2>5. DOMAIN account' = DOMAIN account \cup {job[r].email}
      BY <2>3 DEF Put
    <2>7. /\ DOMAIN account' \subseteq Emails
          /\ account' \in [DOMAIN account' -> {Owner, None}]
      BY <2>3, <2>4, <2>5 DEF Put, Inv, TypeOK
    <2>6. InviteOnly'
      BY <2>2, <2>3, <2>5 DEF Inv, InviteOnly
    <2> QED
      BY <2>3, <2>5, <2>6, <2>7 DEF Kept, NothingForgotten, StaysClosed, Inv, TypeOK,
                              OneOpenPerAddress, Open
  <1> QED
    BY <1>1, <1>2

-----------------------------------------------------------------------------
\* The steps

StepKeeps == Inv' /\ StaysClosed

LEMMA Combined ==
    ASSUME Kept, JobsTyped', JobsHold', StaysClosed, UNCHANGED <<trail, mishaps>>, Inv
    PROVE  StepKeeps
  BY DEF Kept, JobsTyped, StepKeeps, Inv, TypeOK

LEMMA ArriveKeeps ==
    ASSUME Inv, NEW r \in Requests, Arrive(r)
    PROVE  StepKeeps
  <1>1. UNCHANGED tables
    BY DEF Arrive, createInvite, oidcSignIn, resendInvite, revokeInviteAction, acceptInvite
  <1>2. Kept /\ NothingForgotten /\ StaysClosed
    BY <1>1, TablesUntouched DEF tables
  <1>3. FreshTokens \subseteq Tokens
    BY DEF FreshTokens
  <1>4. \A i \in DOMAIN invite : i \in Invites /\ invite[i].email \in Emails
    BY DEF Inv, TypeOK, Invite
  <1>5. JobsTyped' /\ JobsHold'
    <2>1. CASE \E e \in Emails : createInvite(r, e)
      BY <1>2, <1>3, <2>1, BeginKeeps DEF createInvite, Operations, Inv
    <2>2. CASE \E e \in Emails : oidcSignIn(r, e)
      BY <1>2, <2>2, BeginKeeps DEF oidcSignIn, Operations, Inv
    <2>3. CASE \E i \in Invites : resendInvite(r, i)
      BY <1>2, <1>3, <1>4, <2>3, BeginKeeps DEF resendInvite, Open, Operations, Inv
    <2>4. CASE \E i \in Invites : revokeInviteAction(r, i)
      BY <1>2, <1>4, <2>4, BeginKeeps DEF revokeInviteAction, Operations, Inv
    <2>5. CASE \E t \in Tokens : acceptInvite(r, t)
      BY <1>2, <1>4, <2>5, BeginKeeps DEF acceptInvite, Operations, Inv
    <2> QED
      BY <2>1, <2>2, <2>3, <2>4, <2>5 DEF Arrive
  <1> QED
    BY <1>1, <1>2, <1>5, Combined DEF tables

\* A handler that has written goes on to the trail; what it holds is still
\* right, for nothing that its record says is taken back.
LEMMA ToTheTrail ==
    ASSUME Inv, NothingForgotten, NEW r \in DOMAIN job, GoTo(r, "record")
    PROVE  JobsTyped' /\ JobsHold'
  <1> DEFINE j == [job[r] EXCEPT !.pc = "record"]
  <1>1. job[r] \in Job /\ HoldsLink(job[r])
    BY DEF Inv, TypeOK, JobsHold, JobHolds
  <1>2. j \in Job /\ JobHolds(j, invite', account')
    BY <1>1 DEF Job, JobHolds, HoldsLink, PastTheGate, BurnsForAnAccount
  <1>3. job' = [job EXCEPT ![r] = j]
    BY DEF GoTo
  <1> HIDE DEF j
  <1> QED
    BY <1>2, <1>3, ChangeKeeps DEF Inv

LEMMA ProceedKeeps ==
    ASSUME Inv, NEW r \in Requests, Proceed(r)
    PROVE  StepKeeps
  <1>0. \A i \in DOMAIN invite : invite[i] \in Invite
    BY DEF Inv, TypeOK
  <1>1. CASE insertInvite(r)
    <2>1. Kept /\ NothingForgotten /\ StaysClosed
      BY <1>1, InsertInviteKeeps
    <2>2. JobsTyped' /\ JobsHold'
      BY <1>1, <2>1, ToTheTrail DEF insertInvite, At
    <2> QED
      BY <1>1, <2>1, <2>2, Combined DEF insertInvite
  <1>2. CASE insertRefused(r)
    <2>1. Kept /\ NothingForgotten /\ StaysClosed
      BY <1>2, TablesUntouched DEF insertRefused, tables
    <2>2. JobsTyped' /\ JobsHold'
      BY <1>2, <2>1, EndKeeps DEF insertRefused, Inv
    <2> QED
      BY <1>2, <2>1, <2>2, Combined DEF insertRefused, tables
  <1>3. CASE rotateToken(r)
    <2>1. job[r].token \in Tokens
      BY <1>3 DEF rotateToken, At, Inv, JobsHold, JobHolds, HoldsLink
    <2>2. Kept /\ NothingForgotten /\ StaysClosed
      BY <1>0, <1>3, <2>1, UpdateKeeps DEF rotateToken, Invite
    <2>3. JobsTyped' /\ JobsHold'
      BY <1>3, <2>2, ToTheTrail DEF rotateToken, At
    <2> QED
      BY <1>3, <2>2, <2>3, Combined DEF rotateToken
  <1>4. CASE revokeInvite(r)
    <2>1. Kept /\ NothingForgotten /\ StaysClosed
      <3>1. CASE ~Open(job[r].id)
        BY <1>4, <3>1, TablesUntouched DEF revokeInvite
      <3>2. CASE Open(job[r].id)
        <4>1. /\ invite' = [invite EXCEPT ![job[r].id].state = "revoked"]
              /\ account' = account
          BY <1>4, <3>2 DEF revokeInvite
        <4>2. DOMAIN invite' = DOMAIN invite /\ invite' \in [DOMAIN invite' -> Invite]
          BY <1>0, <4>1 DEF Invite, Inv, TypeOK
        <4>3. \A i \in DOMAIN invite :
                  /\ invite'[i].email = invite[i].email
                  /\ invite'[i].state = invite[i].state
                        \/ (Open(i) /\ invite'[i].state = "revoked")
          BY <1>0, <3>2, <4>1 DEF Invite
        <4> QED
          BY <4>1, <4>2, <4>3, UpdateKeeps
      <3> QED
        BY <3>1, <3>2
    <2>2. JobsTyped' /\ JobsHold'
      BY <1>4, <2>1, ToTheTrail DEF revokeInvite, At
    <2> QED
      BY <1>4, <2>1, <2>2, Combined DEF revokeInvite
  <1>5. CASE validateUserInfo(r)
    <2>1. Kept /\ NothingForgotten /\ StaysClosed
      BY <1>5, TablesUntouched DEF validateUserInfo, tables
    <2>2. CASE ~mayProvision(r)
      <3>1. JobsTyped' /\ JobsHold'
        BY <1>5, <2>1, <2>2, EndKeeps DEF validateUserInfo, Inv
      <3> QED
        BY <1>5, <2>1, <3>1, Combined DEF validateUserInfo, tables
    <2>3. CASE mayProvision(r)
      <3> DEFINE j == [job[r] EXCEPT !.pc = "stamp"]
      <3>1. r \in DOMAIN job /\ job[r] \in Job /\ HoldsLink(job[r])
        BY <1>5 DEF validateUserInfo, At, Inv, TypeOK, JobsHold, JobHolds
      <3>2. OidcSignup # "open" => Invited(job[r].email, invite)
        BY <2>3 DEF mayProvision, pendingInviteFor, Invited
      <3>3. /\ job' = [job EXCEPT ![r] = j]
            /\ invite' = invite /\ account' = account
        BY <1>5, <2>3 DEF validateUserInfo, GoTo, tables
      <3>4. j \in Job /\ JobHolds(j, invite', account')
        BY <3>1, <3>2, <3>3 DEF Job, JobHolds, HoldsLink, PastTheGate, BurnsForAnAccount
      <3> HIDE DEF j
      <3>5. JobsTyped' /\ JobsHold'
        BY <2>1, <3>1, <3>3, <3>4, ChangeKeeps DEF Inv
      <3> QED
        BY <1>5, <2>1, <3>5, Combined DEF validateUserInfo, tables
    <2> QED
      BY <2>2, <2>3
  <1>6. CASE stampUser(r)
    <2> DEFINE by == IF pendingInviteFor(job[r].email) THEN Owner ELSE None
               j == [job[r] EXCEPT !.pc = "insert", !.inviter = by]
    <2>1. Kept /\ NothingForgotten /\ StaysClosed
      BY <1>6, TablesUntouched DEF stampUser, tables
    <2>2. /\ r \in DOMAIN job /\ job[r] \in Job /\ HoldsLink(job[r])
          /\ PastTheGate(job[r], invite)
          /\ job[r].op \in {"claim", "oidc"} /\ job[r].pc = "stamp"
      BY <1>6 DEF stampUser, At, Inv, TypeOK, JobsHold, JobHolds
    <2>3. /\ job' = [job EXCEPT ![r] = j]
          /\ invite' = invite /\ account' = account
      BY <1>6 DEF stampUser, tables
    <2>4. j \in Job /\ JobHolds(j, invite', account')
      BY <2>2, <2>3 DEF Job, JobHolds, HoldsLink, PastTheGate, BurnsForAnAccount
    <2> HIDE DEF j
    <2>5. JobsTyped' /\ JobsHold'
      BY <2>1, <2>2, <2>3, <2>4, ChangeKeeps DEF Inv
    <2> QED
      BY <1>6, <2>1, <2>5, Combined DEF stampUser, tables
  <1>7. CASE insertUser(r)
    <2>1. Kept /\ NothingForgotten /\ StaysClosed
      BY <1>7, InsertUserKeeps
    <2>2. CASE End(r)
      BY <1>7, <2>1, <2>2, EndKeeps, Combined DEF insertUser, Inv
    <2>3. CASE /\ account' = Put(account, job[r].email, job[r].inviter)
               /\ GoTo(r, "burn")
      <3> DEFINE j == [job[r] EXCEPT !.pc = "burn"]
      <3>1. r \in DOMAIN job /\ job[r] \in Job /\ HoldsLink(job[r])
        BY <1>7 DEF insertUser, At, Inv, TypeOK, JobsHold, JobHolds
      <3>2. job[r].email \in DOMAIN account'
        BY <2>3 DEF Put
      <3>3. job' = [job EXCEPT ![r] = j]
        BY <2>3 DEF GoTo
      <3>4. j \in Job /\ JobHolds(j, invite', account')
        BY <3>1, <3>2 DEF Job, JobHolds, HoldsLink, PastTheGate, BurnsForAnAccount
      <3> HIDE DEF j
      <3>5. JobsTyped' /\ JobsHold'
        BY <2>1, <3>1, <3>3, <3>4, ChangeKeeps DEF Inv
      <3> QED
        BY <1>7, <2>1, <3>5, Combined DEF insertUser
    <2> QED
      BY <1>7, <2>2, <2>3 DEF insertUser
  <1>8. CASE consumeInvites(r)
    <2>1. r \in DOMAIN job /\ job[r].email \in DOMAIN account
      BY <1>8 DEF consumeInvites, At, Inv, JobsHold, JobHolds, BurnsForAnAccount
    <2>2. Kept /\ NothingForgotten /\ StaysClosed
      BY <1>0, <1>8, <2>1, UpdateKeeps DEF consumeInvites, Accept, OpenFor, Invite
    <2>3. JobsTyped' /\ JobsHold'
      BY <1>8, <2>1, <2>2, ToTheTrail DEF consumeInvites
    <2> QED
      BY <1>8, <2>2, <2>3, Combined DEF consumeInvites
  <1>9. CASE record(r)
    <2>1. Kept /\ NothingForgotten /\ StaysClosed
      BY <1>9, TablesUntouched DEF record
    <2>2. JobsTyped' /\ JobsHold'
      BY <1>9, <2>1, EndKeeps DEF record, Inv
    <2>3. job[r] \in Job
      BY <1>9 DEF record, Inv, TypeOK
    <2>4. trail' \subseteq [op: Operations, id: Invites \cup {None}, email: Emails]
      BY <1>9, <2>3 DEF record, Inv, TypeOK, Job
    <2> QED
      BY <1>9, <2>1, <2>2, <2>4 DEF record, Kept, JobsTyped, StepKeeps, Inv, TypeOK
  <1> QED
    BY <1>1, <1>2, <1>3, <1>4, <1>5, <1>6, <1>7, <1>8, <1>9 DEF Proceed

LEMMA MishapsKeep ==
    ASSUME Inv, (\E r \in Requests : fail(r)) \/ crash
    PROVE  StepKeeps
  <1>1. UNCHANGED <<invite, account, trail>> /\ mishaps' \in Nat
    BY DEF fail, crash, Inv, TypeOK
  <1>2. Kept /\ NothingForgotten /\ StaysClosed
    BY <1>1, TablesUntouched
  <1>3. JobsTyped' /\ JobsHold'
    <2>1. CASE \E r \in Requests : fail(r)
      BY <1>2, <2>1, EndKeeps DEF fail, Inv
    <2>2. CASE crash
      BY <2>2 DEF crash, Nothing, JobsTyped, JobsHold
    <2> QED
      BY <2>1, <2>2
  <1> QED
    BY <1>1, <1>2, <1>3 DEF Kept, JobsTyped, StepKeeps, Inv, TypeOK

LEMMA LapseKeeps ==
    ASSUME Inv, NEW i \in Invites, lapse(i)
    PROVE  StepKeeps
  <1>1. invite' = [invite EXCEPT ![i].lapsed = TRUE] /\ UNCHANGED <<account, job>>
    BY DEF lapse
  <1>2. invite' \in [DOMAIN invite' -> Invite]
    BY <1>1 DEF Inv, TypeOK, Invite
  <1>3. Kept /\ NothingForgotten /\ StaysClosed
    BY <1>1, <1>2, UpdateKeeps DEF Inv, TypeOK, Invite
  <1>4. JobsTyped' /\ JobsHold'
    BY <1>1, <1>3, JobStays DEF JobsTyped, JobsHold, Inv, TypeOK
  <1> QED
    BY <1>3, <1>4, Combined DEF lapse

LEMMA NextKeeps ==
    ASSUME Inv, [Next]_vars
    PROVE  StepKeeps
  <1>1. CASE UNCHANGED vars
    <2>1. Kept /\ NothingForgotten /\ StaysClosed
      BY <1>1, TablesUntouched DEF vars
    <2>2. JobsTyped' /\ JobsHold'
      BY <1>1 DEF vars, JobsTyped, JobsHold, Inv, TypeOK
    <2> QED
      BY <1>1, <2>1, <2>2, Combined DEF vars
  <1>2. CASE Next
    BY <1>2, ArriveKeeps, ProceedKeeps, MishapsKeep, LapseKeeps DEF Next
  <1> QED
    BY <1>1, <1>2

-----------------------------------------------------------------------------
\* The invariant holds always.
THEOREM GuestListInvariant == Spec => []Inv
  <1>1. Init => Inv
    BY DEF Init, Nothing, Inv, TypeOK, JobsHold, OneOpenPerAddress, InviteOnly
  <1>2. Inv /\ [Next]_vars => Inv'
    BY NextKeeps DEF StepKeeps
  <1> QED
    BY <1>1, <1>2, PTL DEF Spec

\* createInvite, resendInvite and the index of the migration: however creations,
\* resends, revocations and claims overlap, an address has one open invitation.
THEOREM OneOpenAlways == Spec => []OneOpenPerAddress
  <1>1. Inv => OneOpenPerAddress
    BY DEF Inv
  <1> QED
    BY <1>1, GuestListInvariant, PTL

\* mayProvision and the hooks of auth.ts: unless the provider's sign-ups are
\* open, nobody is in who was never invited; and what is burnt let somebody in.
THEOREM NobodyUninvited == Spec => []InviteOnly
  <1>1. Inv => InviteOnly
    BY DEF Inv
  <1> QED
    BY <1>1, GuestListInvariant, PTL

\* consumeInvitesFor and revokeInvite: accepted and revoked are final.
THEOREM ClosedStaysClosed == Spec => ClosedForGood
  <1>1. Inv /\ [Next]_vars => [StaysClosed]_vars
    BY NextKeeps DEF StepKeeps
  <1>2. StaysClosed <=>
          \A i \in DOMAIN invite :
              ~Open(i) => i \in DOMAIN invite' /\ invite'[i].state = invite[i].state
    BY DEF StaysClosed
  <1> QED
    BY <1>1, <1>2, GuestListInvariant, PTL DEF Spec, ClosedForGood
-----------------------------------------------------------------------------
\* The trail

\* The trail's row of a handler that has done its work.
RowOf(j) == [op |-> j.op, id |-> j.id, email |-> j.email]

\* What speaks of a closed invitation: the rows of the trail, and those that
\* handlers in flight are about to add to it.
Speaking == trail \cup {RowOf(job[r]) : r \in {y \in DOMAIN job : job[y].pc = "record"}}

Revocation(x, i) == x.op = "revoke" /\ x.id = i

Entry(x, e) == x.op \in {"claim", "oidc"} /\ x.email = e

Noted(i) ==
    /\ invite[i].state = "revoked" => \E x \in Speaking : Revocation(x, i)
    /\ invite[i].state = "accepted" => \E x \in Speaking : Entry(x, invite[i].email)

\* At any time, and not only when nothing is under way.
ClosingsNoted == mishaps = 0 => \A i \in DOMAIN invite : Noted(i)

\* Nothing that was said is taken back, and every invitation that a step closes
\* is spoken of after it.
LEMMA NotedStays ==
    ASSUME ClosingsNoted, mishaps' = mishaps, Speaking \subseteq Speaking',
           \A i \in DOMAIN invite' :
               \/ /\ i \in DOMAIN invite
                  /\ invite'[i].state = invite[i].state
                  /\ invite'[i].email = invite[i].email
               \/ invite'[i].state = "open"
               \/ /\ invite'[i].state = "revoked"
                  /\ \E x \in Speaking' : Revocation(x, i)
               \/ /\ invite'[i].state = "accepted"
                  /\ \E x \in Speaking' : Entry(x, invite'[i].email)
    PROVE  ClosingsNoted'
  <1> SUFFICES ASSUME mishaps = 0, NEW i \in DOMAIN invite'
               PROVE  Noted(i)'
    BY DEF ClosingsNoted
  <1>1. CASE /\ i \in DOMAIN invite
             /\ invite'[i].state = invite[i].state
             /\ invite'[i].email = invite[i].email
    <2>1. Noted(i)
      BY <1>1 DEF ClosingsNoted
    <2> QED
      BY <1>1, <2>1 DEF Noted
  <1>2. CASE invite'[i].state = "open"
    BY <1>2 DEF Noted
  <1>3. CASE /\ invite'[i].state = "revoked"
             /\ \E x \in Speaking' : Revocation(x, i)
    BY <1>3 DEF Noted
  <1>4. CASE /\ invite'[i].state = "accepted"
             /\ \E x \in Speaking' : Entry(x, invite'[i].email)
    BY <1>4 DEF Noted
  <1> QED
    BY <1>1, <1>2, <1>3, <1>4

\* A handler begins, goes on or ends short of the trail: what was said stays.
LEMMA BeginSpeaks ==
    ASSUME NEW r, r \notin DOMAIN job, NEW op, NEW pc, NEW e, NEW i, NEW t,
           Begin(r, op, pc, e, i, t), trail' = trail
    PROVE  Speaking \subseteq Speaking'
  <1>1. \A y \in DOMAIN job : y \in DOMAIN job' /\ job'[y] = job[y]
    BY DEF Begin, Put
  <1> QED
    BY <1>1 DEF Speaking

LEMMA OthersSpeak ==
    ASSUME NEW r \in DOMAIN job, job[r].pc # "record", trail \subseteq trail',
           \A y \in DOMAIN job \ {r} : y \in DOMAIN job' /\ job'[y] = job[y]
    PROVE  Speaking \subseteq Speaking'
  BY DEF Speaking

LEMMA Dropping ==
    ASSUME NEW r, End(r)
    PROVE  \A y \in DOMAIN job \ {r} : y \in DOMAIN job' /\ job'[y] = job[y]
  BY DEF End, Drop, Restrict

LEMMA Changing ==
    ASSUME TypeOK, NEW r \in DOMAIN job, NEW j, job' = [job EXCEPT ![r] = j]
    PROVE  \A y \in DOMAIN job \ {r} : y \in DOMAIN job' /\ job'[y] = job[y]
  BY DEF TypeOK

LEMMA GoneToTheTrail ==
    ASSUME TypeOK, NEW r \in DOMAIN job, job[r].pc # "record", GoTo(r, "record"),
           trail' = trail
    PROVE  /\ Speaking \subseteq Speaking'
           /\ RowOf(job[r]) \in Speaking'
  <1>1. /\ DOMAIN job' = DOMAIN job
        /\ \A y \in DOMAIN job \ {r} : job'[y] = job[y]
    BY DEF GoTo, TypeOK
  <1>2. /\ job'[r].pc = "record" /\ job'[r].op = job[r].op
        /\ job'[r].id = job[r].id /\ job'[r].email = job[r].email
    BY DEF GoTo, TypeOK, Job
  <1>3. RowOf(job'[r]) = RowOf(job[r])
    BY <1>2 DEF RowOf
  <1>4. RowOf(job'[r]) \in Speaking'
    BY <1>1, <1>2 DEF Speaking
  <1> QED
    BY <1>1, <1>3, <1>4, OthersSpeak

LEMMA UnclosedStays ==
    ASSUME ClosingsNoted, UNCHANGED <<invite, mishaps>>, Speaking \subseteq Speaking'
    PROVE  ClosingsNoted'
  BY NotedStays

LEMMA ArriveNotes ==
    ASSUME ClosingsNoted, NEW r \in Requests, Arrive(r)
    PROVE  ClosingsNoted'
  <1>1. UNCHANGED tables
    BY DEF Arrive, createInvite, oidcSignIn, resendInvite, revokeInviteAction, acceptInvite
  <1>2. \E op, pc, e, i, t : r \notin DOMAIN job /\ Begin(r, op, pc, e, i, t)
    BY DEF Arrive, createInvite, oidcSignIn, resendInvite, revokeInviteAction, acceptInvite,
           Idle
  <1>3. Speaking \subseteq Speaking'
    BY <1>1, <1>2, BeginSpeaks DEF tables
  <1> QED
    BY <1>1, <1>3, UnclosedStays DEF tables

\* A handler that has closed an invitation is on its way to the trail.
LEMMA ProceedNotes ==
    ASSUME TypeOK, ClosingsNoted, NEW r \in Requests, Proceed(r)
    PROVE  ClosingsNoted'
  <1>0. \A i \in DOMAIN invite : invite[i] \in Invite
    BY DEF TypeOK
  <1>1. CASE insertInvite(r)
    <2>1. Speaking \subseteq Speaking' /\ mishaps' = mishaps
      BY <1>1, GoneToTheTrail DEF insertInvite, At
    <2>2. PICK i \in Invites \ DOMAIN invite :
              invite' = Put(invite, i, [email |-> job[r].email, token |-> job[r].token,
                                        lapsed |-> FALSE, state |-> "open"])
      BY <1>1 DEF insertInvite
    <2>3. \A k \in DOMAIN invite' :
              \/ k \in DOMAIN invite /\ invite'[k] = invite[k]
              \/ invite'[k].state = "open"
      BY <2>2 DEF Put
    <2> QED
      BY <2>1, <2>3, NotedStays
  <1>2. CASE insertRefused(r)
    <2>1. Speaking \subseteq Speaking'
      BY <1>2, Dropping, OthersSpeak DEF insertRefused, At, tables
    <2> QED
      BY <1>2, <2>1, UnclosedStays DEF insertRefused, tables
  <1>3. CASE rotateToken(r)
    <2>1. Speaking \subseteq Speaking' /\ mishaps' = mishaps
      BY <1>3, GoneToTheTrail DEF rotateToken, At
    <2>2. \A k \in DOMAIN invite' :
              /\ k \in DOMAIN invite
              /\ invite'[k].state = invite[k].state
              /\ invite'[k].email = invite[k].email
      BY <1>0, <1>3 DEF rotateToken, Invite, TypeOK
    <2> QED
      BY <2>1, <2>2, NotedStays
  <1>4. CASE revokeInvite(r)
    <2> DEFINE i == job[r].id
    <2>1. /\ Speaking \subseteq Speaking' /\ mishaps' = mishaps
          /\ RowOf(job[r]) \in Speaking'
      BY <1>4, GoneToTheTrail DEF revokeInvite, At
    <2>2. Revocation(RowOf(job[r]), i)
      BY <1>4 DEF revokeInvite, At, Revocation, RowOf
    <2>3. invite' = IF Open(i) THEN [invite EXCEPT ![i].state = "revoked"] ELSE invite
      BY <1>4 DEF revokeInvite
    <2> HIDE DEF i
    <2>4. \A k \in DOMAIN invite' :
              \/ k \in DOMAIN invite /\ invite'[k] = invite[k]
              \/ k = i /\ invite'[k].state = "revoked"
      BY <1>0, <2>3 DEF Invite, TypeOK
    <2> QED
      BY <2>1, <2>2, <2>4, NotedStays
  <1>5. CASE validateUserInfo(r)
    <2>1. Speaking \subseteq Speaking'
      BY <1>5, Dropping, Changing, OthersSpeak DEF validateUserInfo, At, GoTo, tables
    <2> QED
      BY <1>5, <2>1, UnclosedStays DEF validateUserInfo, tables
  <1>6. CASE stampUser(r)
    <2>1. Speaking \subseteq Speaking'
      BY <1>6, Changing, OthersSpeak DEF stampUser, At, tables
    <2> QED
      BY <1>6, <2>1, UnclosedStays DEF stampUser, tables
  <1>7. CASE insertUser(r)
    <2>1. \A y \in DOMAIN job \ {r} : y \in DOMAIN job' /\ job'[y] = job[y]
      BY <1>7, Dropping, Changing DEF insertUser, GoTo
    <2>2. Speaking \subseteq Speaking'
      BY <1>7, <2>1, OthersSpeak DEF insertUser, At
    <2> QED
      BY <1>7, <2>2, UnclosedStays DEF insertUser
  <1>8. CASE consumeInvites(r)
    <2>1. /\ Speaking \subseteq Speaking' /\ mishaps' = mishaps
          /\ RowOf(job[r]) \in Speaking'
      BY <1>8, GoneToTheTrail DEF consumeInvites, At
    <2>2. Entry(RowOf(job[r]), job[r].email)
      BY <1>8 DEF consumeInvites, At, Entry, RowOf
    <2>3. \A k \in DOMAIN invite' :
              /\ k \in DOMAIN invite
              /\ \/ invite'[k] = invite[k]
                 \/ invite'[k].state = "accepted" /\ invite'[k].email = job[r].email
      BY <1>0, <1>8 DEF consumeInvites, Accept, OpenFor, Invite
    <2> QED
      BY <2>1, <2>2, <2>3, NotedStays
  <1>9. CASE record(r)
    <2>1. /\ trail' = trail \cup {RowOf(job[r])}
          /\ \A y \in DOMAIN job \ {r} : y \in DOMAIN job' /\ job'[y] = job[y]
      BY <1>9, Dropping DEF record, RowOf
    <2>2. Speaking \subseteq Speaking'
      BY <2>1 DEF Speaking
    <2> QED
      BY <1>9, <2>2, UnclosedStays DEF record
  <1> QED
    BY <1>1, <1>2, <1>3, <1>4, <1>5, <1>6, <1>7, <1>8, <1>9 DEF Proceed

LEMMA NextNotes ==
    ASSUME TypeOK, ClosingsNoted, [Next]_vars
    PROVE  ClosingsNoted'
  <1>1. CASE UNCHANGED vars
    BY <1>1 DEF vars, ClosingsNoted, Noted, Speaking
  <1>2. ASSUME NEW r \in Requests, fail(r)
        PROVE  ClosingsNoted'
    BY <1>2 DEF fail, ClosingsNoted, TypeOK
  <1>3. CASE crash
    BY <1>3 DEF crash, ClosingsNoted, TypeOK
  <1>4. ASSUME NEW i \in Invites, lapse(i)
        PROVE  ClosingsNoted'
    <2>1. Speaking \subseteq Speaking' /\ mishaps' = mishaps
      BY <1>4 DEF lapse, Speaking
    <2>2. \A k \in DOMAIN invite' :
              /\ k \in DOMAIN invite
              /\ invite'[k].state = invite[k].state
              /\ invite'[k].email = invite[k].email
      BY <1>4 DEF lapse, TypeOK, Invite
    <2> QED
      BY <2>1, <2>2, NotedStays
  <1> QED
    BY <1>1, <1>2, <1>3, <1>4, ArriveNotes, ProceedNotes DEF Next

\* audit.ts and its callers, for every interleaving: once everything under way
\* has ended, and nothing failed, a revoked invitation has the revocation on the
\* trail, and an accepted one the account that it let in.  While handlers run it
\* holds only with what they are about to add, so that is the invariant.
THEOREM ClosingsAreTold == Spec => []ClosingIsOnTheTrail
  <1>1. Init => ClosingsNoted
    BY DEF Init, Nothing, ClosingsNoted
  <1>2. Inv /\ ClosingsNoted /\ [Next]_vars => ClosingsNoted'
    BY NextNotes DEF Inv
  <1>3. ClosingsNoted => ClosingIsOnTheTrail
    <2> SUFFICES ASSUME ClosingsNoted, job = Nothing, mishaps = 0,
                        NEW i \in DOMAIN invite
                 PROVE  CASE invite[i].state = "revoked" ->
                               \E x \in trail : x.op = "revoke" /\ x.id = i
                          [] invite[i].state = "accepted" ->
                               \E x \in trail : x.op \in {"claim", "oidc"}
                                                   /\ x.email = invite[i].email
                          [] OTHER -> TRUE
      BY DEF ClosingIsOnTheTrail
    <2>1. Speaking = trail
      BY DEF Speaking, Nothing
    <2>2. Noted(i)
      BY DEF ClosingsNoted
    <2> QED
      BY <2>1, <2>2 DEF Noted, Revocation, Entry
  <1> QED
    BY <1>1, <1>2, <1>3, GuestListInvariant, PTL DEF Spec

-----------------------------------------------------------------------------
\* The release wizard

\* The versions a release may be told of, and 0.
Known == Versions \cup {0}

\* What GitHub and a clone have, by version.
Commit == [carries: Known, holds: SUBSET Parts]
Branch  == [by: Clones \cup {None}, from: Known, holds: SUBSET Parts]
Pull   == [of: Versions, head: Branch, state: {"OPEN", "MERGED", "CLOSED"}, at: Nat]
Tag    == [at: Nat, by: Clones \cup {None}]

\* A table by version, of rows in S.
ByVersion(S) == UNION {[V -> S] : V \in SUBSET Versions}

\* A clone, and a wizard in it.
Clone == [on: Known, main: Nat, tree: SUBSET Parts,
          branch: ByVersion(Branch), tags: ByVersion(Tag)]
Cut == [of: Known, last: Known, sha: Nat,
        pc: {"version", "branch", "section", "bump", "todo", "commit", "push", "open",
             "merge", "tag", "tagHere", "pushTag", "images", "publish"}]

\* Version w has a tag, on GitHub or in a clone; 0 needs none.
Tagged(w) ==
    w = 0 \/ w \in DOMAIN pushed \/ \E c \in Clones : w \in DOMAIN clone[c].tags

\* Version v was merged, as commit `sha` of main.
MergedAs(v, sha) == \E p \in PullsOf(v) : p.state = "MERGED" /\ p.at = sha
WasMerged(v) == \E sha \in DOMAIN mainLine : MergedAs(v, sha)

\* A release branch of version v is above a version that has a tag, and what is
\* committed on it has nothing left to do.
HeadHolds(v, b) == b.from < v /\ Tagged(b.from) /\ "todo" \notin b.holds

\* GitHub's tables.
GitHubTypes ==
    /\ mainLine \in Seq(Commit) /\ mainLine # << >>
    /\ branches \in ByVersion(Branch) /\ pulls \subseteq Pull
    /\ pushed \in ByVersion(Tag)
    /\ builds \in [DOMAIN pushed -> {"under way", "pushed", "success"}]
    /\ published \subseteq DOMAIN pushed

\* Main goes up, and every version it has gone beyond has a tag.
LineHolds ==
    /\ \A i, k \in DOMAIN mainLine : i < k => mainLine[i].carries <= mainLine[k].carries
    /\ \A i \in DOMAIN mainLine :
          mainLine[i].carries = Tip.carries \/ Tagged(mainLine[i].carries)

\* A merged pull request is the commit it was merged as.
PullHolds(p) ==
    /\ HeadHolds(p.of, p.head)
    /\ p.state = "MERGED" =>
          /\ p.at \in DOMAIN mainLine /\ mainLine[p.at].carries = p.of
          /\ "todo" \notin mainLine[p.at].holds

\* So for all pull requests, and the branches on GitHub.
PullsHold == \A p \in pulls : PullHolds(p)
BranchesHold == \A v \in DOMAIN branches : HeadHolds(v, branches[v])

\* What has a tag was merged, if not as what the tag names; what is published was
\* merged as that.
TagsHold ==
    /\ \A v \in DOMAIN pushed : WasMerged(v)
    /\ \A v \in published : MergedAs(v, pushed[v].at) /\ builds[v] = "success"

\* The five together, of GitHub.
GitHubHolds == GitHubTypes /\ LineHolds /\ PullsHold /\ BranchesHold /\ TagsHold

\* A clone stands on a branch it has, and what it has is as on GitHub.
CloneHolds(k) ==
    /\ k \in Clone
    /\ k.on # 0 => k.on \in DOMAIN k.branch
    /\ k.main \in DOMAIN mainLine
    /\ \A v \in DOMAIN k.branch : HeadHolds(v, k.branch[v])
    /\ \A v \in DOMAIN k.tags : WasMerged(v)

\* A wizard in clone k, by where it is: up to the branch, main's version has a tag;
\* from the tag on, what it is to tag, or the tag it waits for, is the merge.
CutHolds(k, r) ==
    /\ r \in Cut
    /\ r.pc # "version" => r.of \in Versions
    /\ r.pc \in {"version", "branch"} => Tagged(mainLine[k.main].carries)
    /\ r.pc = "branch" => mainLine[k.main].carries < r.of
    /\ r.pc \in {"section", "bump", "todo", "commit", "push"} => r.of \in DOMAIN k.branch
    /\ r.pc \in {"tag", "tagHere", "pushTag"} => MergedAs(r.of, r.sha)
    /\ r.pc = "pushTag" => r.of \in DOMAIN k.tags
    /\ r.pc \in {"tagHere", "pushTag"} /\ r.of \in DOMAIN k.tags => k.tags[r.of].at = r.sha
    /\ r.pc \in {"images", "publish"} =>
          r.of \in DOMAIN pushed /\ MergedAs(r.of, pushed[r.of].at)
    /\ r.pc = "publish" => builds[r.of] = "success"

\* So for all clones, and the wizards under way.
ClonesHold ==
    /\ clone \in [Clones -> Clone]
    /\ \A c \in Clones : CloneHolds(clone[c])
CutsHold ==
    /\ DOMAIN cutting \subseteq Clones /\ cutting \in [DOMAIN cutting -> Cut]
    /\ \A c \in DOMAIN cutting : CutHolds(clone[c], cutting[c])

\* The three together are inductive.
ReleaseInv == GitHubHolds /\ ClonesHold /\ CutsHold
-----------------------------------------------------------------------------
\* Tables by version

\* What is in one.
LEMMA ByVersionIs ==
    ASSUME NEW S, NEW t
    PROVE  t \in ByVersion(S) <=> DOMAIN t \subseteq Versions /\ t \in [DOMAIN t -> S]
  BY DEF ByVersion

\* Table u is t with row x for v, or t without a row for v.
With(u, t, v, x) ==
    /\ DOMAIN u = DOMAIN t \cup {v} /\ u[v] = x
    /\ \A y \in DOMAIN t \ {v} : u[y] = t[y]
Without(u, t, v) ==
    /\ DOMAIN u = DOMAIN t \ {v}
    /\ \A y \in DOMAIN t \ {v} : u[y] = t[y]

\* A row is added or replaced.
LEMMA ByVersionPut ==
    ASSUME NEW S, NEW t, NEW v, NEW x, NEW u,
           t \in ByVersion(S), v \in Versions, x \in S, u = Put(t, v, x)
    PROVE  u \in ByVersion(S) /\ With(u, t, v, x)
  <1>1. DOMAIN t \subseteq Versions /\ t \in [DOMAIN t -> S]
    BY ByVersionIs
  <1>2. /\ DOMAIN u = DOMAIN t \cup {v} /\ u[v] = x
        /\ \A y \in DOMAIN t \ {v} : u[y] = t[y]
        /\ u \in [DOMAIN u -> S]
    BY <1>1 DEF Put
  <1>3. u \in ByVersion(S)
    BY <1>1, <1>2, ByVersionIs
  <1> QED
    BY <1>2, <1>3 DEF With

\* A row is dropped, if there is one.
LEMMA ByVersionDrop ==
    ASSUME NEW S, NEW t, NEW v, NEW u, t \in ByVersion(S), u = Drop(t, v)
    PROVE  u \in ByVersion(S) /\ Without(u, t, v)
  <1>1. DOMAIN t \subseteq Versions /\ t \in [DOMAIN t -> S]
    BY ByVersionIs
  <1>2. /\ DOMAIN u = DOMAIN t \ {v}
        /\ \A y \in DOMAIN t \ {v} : u[y] = t[y]
        /\ u \in [DOMAIN u -> S]
    BY <1>1 DEF Drop, Restrict
  <1>3. u \in ByVersion(S)
    BY <1>1, <1>2, ByVersionIs
  <1> QED
    BY <1>2, <1>3 DEF Without

-----------------------------------------------------------------------------
\* What is never taken back

\* Commits of main, tags, merges and successful builds stay.
Grows ==
    /\ \A i \in DOMAIN mainLine : i \in DOMAIN mainLine' /\ mainLine'[i] = mainLine[i]
    /\ \A v \in DOMAIN pushed : v \in DOMAIN pushed' /\ pushed'[v] = pushed[v]
    /\ \A v \in DOMAIN pushed : builds[v] = "success" => builds'[v] = "success"
    /\ \A p \in pulls : p.state = "MERGED" => p \in pulls'
    /\ \A c \in Clones : DOMAIN clone[c].tags \subseteq DOMAIN clone'[c].tags

\* So what was tagged or merged still is.
LEMMA StillTagged ==
    ASSUME Grows, NEW w, Tagged(w)
    PROVE  Tagged(w)'
  BY DEF Grows, Tagged

LEMMA StillMergedAs ==
    ASSUME Grows, NEW v, NEW sha, MergedAs(v, sha)
    PROVE  MergedAs(v, sha)'
  BY DEF Grows, MergedAs, PullsOf

LEMMA StillMerged ==
    ASSUME Grows, NEW v, WasMerged(v)
    PROVE  WasMerged(v)'
  <1>1. PICK sha \in DOMAIN mainLine : MergedAs(v, sha)
    BY DEF WasMerged
  <1>2. MergedAs(v, sha)' /\ sha \in DOMAIN mainLine'
    BY <1>1, StillMergedAs DEF Grows
  <1> QED
    BY <1>2 DEF WasMerged

\* A branch is as it was.
LEMMA HeadStays ==
    ASSUME Grows, NEW v, NEW b, HeadHolds(v, b)
    PROVE  HeadHolds(v, b)'
  BY StillTagged DEF HeadHolds

\* A clone nobody works in is as it was.
LEMMA CloneStays ==
    ASSUME Grows, NEW k, CloneHolds(k)
    PROVE  CloneHolds(k)'
  <1>1. \A v \in DOMAIN k.branch : HeadHolds(v, k.branch[v])'
    BY HeadStays DEF CloneHolds
  <1>2. \A v \in DOMAIN k.tags : WasMerged(v)'
    BY StillMerged DEF CloneHolds
  <1>3. k.main \in DOMAIN mainLine'
    BY DEF CloneHolds, Grows
  <1> QED
    BY <1>1, <1>2, <1>3 DEF CloneHolds

\* A wizard that waits in one is as it was.
LEMMA CutStays ==
    ASSUME Grows, NEW k, NEW r, CloneHolds(k), CutHolds(k, r)
    PROVE  CutHolds(k, r)'
  <1>1. mainLine'[k.main] = mainLine[k.main]
    BY DEF CloneHolds, Grows
  <1>2. r.pc \in {"version", "branch"} => Tagged(mainLine[k.main].carries)'
    <2> PICK w : w = mainLine[k.main].carries
      OBVIOUS
    <2>1. Tagged(w) => Tagged(w)'
      BY StillTagged
    <2>2. mainLine'[k.main].carries = w
      BY <1>1
    <2> QED
      BY <2>1, <2>2 DEF CutHolds
  <1>3. r.pc \in {"tag", "tagHere", "pushTag"} => MergedAs(r.of, r.sha)'
    BY StillMergedAs DEF CutHolds
  <1>4. r.pc \in {"images", "publish"} =>
          r.of \in DOMAIN pushed' /\ MergedAs(r.of, pushed[r.of].at)'
    <2> SUFFICES ASSUME r.pc \in {"images", "publish"}
                 PROVE  r.of \in DOMAIN pushed' /\ MergedAs(r.of, pushed[r.of].at)'
      OBVIOUS
    <2> PICK t : t = pushed[r.of].at
      OBVIOUS
    <2>1. r.of \in DOMAIN pushed /\ MergedAs(r.of, t)
      BY DEF CutHolds
    <2>2. MergedAs(r.of, t)' /\ r.of \in DOMAIN pushed' /\ pushed'[r.of].at = t
      BY <2>1, StillMergedAs DEF Grows
    <2> QED
      BY <2>2
  <1>5. r.pc = "publish" => builds'[r.of] = "success"
    BY DEF CutHolds, Grows
  <1> QED
    BY <1>1, <1>2, <1>3, <1>4, <1>5 DEF CutHolds

\* The clones and wizards a step does not touch are as they were.
LEMMA StepHolds ==
    ASSUME ReleaseInv, Grows, GitHubHolds', clone' \in [Clones -> Clone],
           \A d \in Clones : clone'[d] = clone[d] \/ CloneHolds(clone[d])',
           cutting' = [d \in DOMAIN cutting' |-> cutting'[d]],
           \A d \in DOMAIN cutting' :
              \/ d \in DOMAIN cutting /\ cutting'[d] = cutting[d] /\ clone'[d] = clone[d]
              \/ d \in Clones /\ CutHolds(clone[d], cutting[d])'
    PROVE  ReleaseInv'
  <1>1. ASSUME NEW d \in Clones
        PROVE  CloneHolds(clone[d])'
    <2> PICK k : k = clone[d]
      OBVIOUS
    <2>1. CloneHolds(k)'
      BY CloneStays DEF ReleaseInv, ClonesHold
    <2> QED
      BY <2>1
  <1>2. ASSUME NEW d \in DOMAIN cutting'
        PROVE  d \in Clones /\ CutHolds(clone[d], cutting[d])'
    <2>1. CASE d \in DOMAIN cutting /\ cutting'[d] = cutting[d] /\ clone'[d] = clone[d]
      <3> PICK k : k = clone[d]
        OBVIOUS
      <3> PICK r : r = cutting[d]
        OBVIOUS
      <3>1. d \in Clones /\ CloneHolds(k) /\ CutHolds(k, r)
        BY <2>1 DEF ReleaseInv, ClonesHold, CutsHold
      <3>2. CutHolds(k, r)'
        BY <3>1, CutStays
      <3> QED
        BY <2>1, <3>1, <3>2
    <2> QED
      BY <1>2, <2>1
  <1>3. \A d \in DOMAIN cutting' : cutting'[d] \in Cut
    BY <1>2 DEF CutHolds
  <1>4. ClonesHold'
    BY <1>1 DEF ClonesHold
  <1>5. CutsHold'
    BY <1>2, <1>3 DEF CutsHold
  <1> QED
    BY <1>4, <1>5 DEF ReleaseInv

-----------------------------------------------------------------------------
\* What a wizard does in its clone

\* Clone c's wizard, if it has one, is r, which may be so in k; the others are as
\* they were.
Goes(c, k, r) ==
    /\ cutting' = [d \in DOMAIN cutting' |-> cutting'[d]]
    /\ \A d \in DOMAIN cutting' \ {c} : d \in DOMAIN cutting /\ cutting'[d] = cutting[d]
    /\ c \in DOMAIN cutting' => cutting'[c] = r /\ CutHolds(k, r)

\* A wizard begins,
LEMMA BeginGoes ==
    ASSUME NEW c, NEW v, NEW pc, NEW last, NEW sha, NEW k, NEW r,
           r = [of |-> v, pc |-> pc, last |-> last, sha |-> sha],
           BeginCutting(c, v, pc, last, sha), CutHolds(k, r)
    PROVE  Goes(c, k, r)
  BY DEF BeginCutting, Put, Goes

\* goes on,
LEMMA OnwardGoes ==
    ASSUME CutsHold, NEW c \in DOMAIN cutting, NEW pc, NEW k, NEW r,
           r = [cutting[c] EXCEPT !.pc = pc], Onward(c, pc), CutHolds(k, r)
    PROVE  Goes(c, k, r)
  <1>1. /\ DOMAIN cutting' = DOMAIN cutting /\ cutting'[c] = r
        /\ \A d \in DOMAIN cutting \ {c} : cutting'[d] = cutting[d]
        /\ cutting' = [d \in DOMAIN cutting' |-> cutting'[d]]
    BY DEF Onward, CutsHold
  <1> QED
    BY <1>1 DEF Goes

\* or ends.
LEMMA DropGoes ==
    ASSUME NEW c, NEW k, NEW r, cutting' = Drop(cutting, c)
    PROVE  Goes(c, k, r)
  <1>1. /\ DOMAIN cutting' = DOMAIN cutting \ {c}
        /\ \A d \in DOMAIN cutting \ {c} : cutting'[d] = cutting[d]
        /\ cutting' = [d \in DOMAIN cutting' |-> cutting'[d]]
    BY DEF Drop, Restrict
  <1> QED
    BY <1>1 DEF Goes

\* Main as it was, but for tags.
LEMMA LineStays ==
    ASSUME LineHolds, Grows, mainLine' = mainLine
    PROVE  LineHolds'
  <1>1. ASSUME NEW i \in DOMAIN mainLine, Tagged(mainLine[i].carries)
        PROVE  Tagged(mainLine[i].carries)'
    <2> PICK w : w = mainLine[i].carries
      OBVIOUS
    <2>1. Tagged(w)' /\ mainLine'[i].carries = w
      BY <1>1, StillTagged
    <2> QED
      BY <2>1
  <1>2. Tip' = Tip
    BY DEF Tip
  <1> QED
    BY <1>1, <1>2 DEF LineHolds

\* The pull requests are as they were, or as they are to be.
LEMMA PullsStay ==
    ASSUME PullsHold, Grows, \A p \in pulls' : p \in pulls \/ PullHolds(p)'
    PROVE  PullsHold'
  <1>1. ASSUME NEW p \in pulls
        PROVE  PullHolds(p)'
    <2>1. HeadHolds(p.of, p.head)'
      BY HeadStays DEF PullsHold, PullHolds
    <2> QED
      BY <2>1 DEF PullsHold, PullHolds, Grows
  <1> QED
    BY <1>1 DEF PullsHold

\* So the branches on GitHub.
LEMMA BranchesStay ==
    ASSUME BranchesHold, Grows,
           \A v \in DOMAIN branches' :
              \/ v \in DOMAIN branches /\ branches'[v] = branches[v]
              \/ HeadHolds(v, branches'[v])
    PROVE  BranchesHold'
  <1>1. ASSUME NEW v \in DOMAIN branches'
        PROVE  HeadHolds(v, branches[v])'
    <2> PICK x : x = branches'[v]
      OBVIOUS
    <2>1. HeadHolds(v, x)
      BY <1>1 DEF BranchesHold
    <2>2. HeadHolds(v, x)'
      BY <2>1, HeadStays
    <2> QED
      BY <2>2
  <1> QED
    BY <1>1 DEF BranchesHold

\* The tags, their builds and the releases as they were.
LEMMA TagsStay ==
    ASSUME TagsHold, Grows, UNCHANGED <<pushed, builds, published>>
    PROVE  TagsHold'
  <1>1. \A v \in DOMAIN pushed : WasMerged(v)'
    BY StillMerged DEF TagsHold
  <1>2. ASSUME NEW v \in published
        PROVE  MergedAs(v, pushed[v].at)'
    <2> PICK sha : sha = pushed[v].at
      OBVIOUS
    <2>1. MergedAs(v, sha)' /\ pushed'[v].at = sha
      BY <1>2, StillMergedAs DEF TagsHold
    <2> QED
      BY <2>1
  <1> QED
    BY <1>1, <1>2 DEF TagsHold

\* GitHub is as it was, but that a clone may have more tags.
LEMMA GitHubStays ==
    ASSUME GitHubHolds, Grows, UNCHANGED OnGitHub
    PROVE  GitHubHolds'
  <1>1. GitHubTypes'
    BY DEF GitHubHolds, GitHubTypes, OnGitHub
  <1>2. LineHolds'
    BY LineStays DEF GitHubHolds, OnGitHub
  <1>3. PullsHold'
    BY PullsStay DEF GitHubHolds, OnGitHub
  <1>4. BranchesHold'
    BY BranchesStay DEF GitHubHolds, OnGitHub
  <1>5. TagsHold'
    BY TagsStay DEF GitHubHolds, OnGitHub
  <1> QED
    BY <1>1, <1>2, <1>3, <1>4, <1>5 DEF GitHubHolds

\* A wizard, or a person, works in one clone: it becomes k.
LEMMA CloneWorks ==
    ASSUME ReleaseInv, UNCHANGED OnGitHub, NEW c \in Clones, NEW k, NEW r,
           clone' = [clone EXCEPT ![c] = k], CloneHolds(k),
           DOMAIN clone[c].tags \subseteq DOMAIN k.tags, Goes(c, k, r)
    PROVE  ReleaseInv'
  <1>1. /\ k \in Clone /\ clone' \in [Clones -> Clone] /\ clone'[c] = k
        /\ \A d \in Clones \ {c} : clone'[d] = clone[d]
    BY DEF ReleaseInv, ClonesHold, CloneHolds
  <1>2. Grows
    BY <1>1 DEF Grows, OnGitHub
  <1>3. GitHubHolds'
    BY <1>2, GitHubStays DEF ReleaseInv
  <1>4. \A d \in Clones : clone'[d] = clone[d] \/ CloneHolds(clone[d])'
    <2>1. CloneHolds(k)'
      BY <1>2, CloneStays
    <2> QED
      BY <1>1, <2>1
  <1>5. \A d \in DOMAIN cutting' :
              \/ d \in DOMAIN cutting /\ cutting'[d] = cutting[d] /\ clone'[d] = clone[d]
              \/ d \in Clones /\ CutHolds(clone[d], cutting[d])'
    <2>1. ASSUME c \in DOMAIN cutting'
          PROVE  CutHolds(clone[c], cutting[c])'
      <3>1. cutting'[c] = r /\ CutHolds(k, r)'
        BY <1>2, <2>1, CutStays DEF Goes
      <3> QED
        BY <1>1, <3>1
    <2>2. \A d \in DOMAIN cutting' \ {c} : d \in DOMAIN cutting /\ cutting'[d] = cutting[d] /\ d \in Clones
      BY DEF Goes, ReleaseInv, CutsHold
    <2> QED
      BY <1>1, <2>1, <2>2
  <1>6. cutting' = [d \in DOMAIN cutting' |-> cutting'[d]]
    BY DEF Goes
  <1> QED
    BY <1>1, <1>2, <1>3, <1>4, <1>5, <1>6, StepHolds

\* A wizard that leaves its clone as it is
LEMMA WizardLooks ==
    ASSUME ReleaseInv, UNCHANGED <<OnGitHub, clone>>, NEW c \in Clones, NEW k, k = clone[c],
           NEW r, Goes(c, k, r)
    PROVE  ReleaseInv'
  <1>1. clone' = [clone EXCEPT ![c] = k] /\ CloneHolds(k) /\ UNCHANGED OnGitHub
    BY DEF ReleaseInv, ClonesHold
  <1>2. DOMAIN clone[c].tags \subseteq DOMAIN k.tags
    OBVIOUS
  <1> QED
    BY <1>1, <1>2, CloneWorks

\* What is known of the wizard in clone c
LEMMA AtWork ==
    ASSUME ReleaseInv, NEW c \in DOMAIN cutting
    PROVE  /\ c \in Clones /\ CloneHolds(clone[c]) /\ CutHolds(clone[c], cutting[c])
           /\ clone[c] \in Clone /\ cutting[c] \in Cut /\ CutsHold
  BY DEF ReleaseInv, ClonesHold, CutsHold, CloneHolds

-----------------------------------------------------------------------------
\* A fresh start

\* The greatest of a set of numbers up to m.
LEMMA MaxIsOne ==
    ASSUME NEW m \in Nat, NEW S \in SUBSET (0 .. m), S # {}
    PROVE  Max(S) \in S
  <1>1. IsFiniteSet(0 .. m)
    BY FS_Interval
  <1>2. IsFiniteSet(S) /\ S \subseteq Int
    <2>1. S \subseteq 0 .. m
      OBVIOUS
    <2>2. IsFiniteSet(S)
      BY ONLY <1>1, <2>1, FS_Subset
    <2> QED
      BY <2>1, <2>2
  <1>3. \E x \in S : \A y \in S : y <= x
    BY <1>2, Greatest
  <1>4. \E x \in S : \A y \in S : x >= y
    BY <1>3
  <1> QED
    BY <1>4 DEF Max

\* What main's commits are.
LEMMA LineIs ==
    ASSUME ReleaseInv
    PROVE  /\ Len(mainLine) \in Nat /\ Len(mainLine) \in DOMAIN mainLine
           /\ Tip = mainLine[Len(mainLine)] /\ Tip \in Commit
           /\ \A i \in DOMAIN mainLine :
                 /\ i \in 1 .. Len(mainLine) /\ mainLine[i] \in Commit
                 /\ mainLine[i].carries \in Known /\ mainLine[i].carries \in Nat
  <1> PICK n : n = Len(mainLine)
    OBVIOUS
  <1>1. mainLine \in Seq(Commit) /\ mainLine # << >>
    BY DEF ReleaseInv, GitHubHolds, GitHubTypes
  <1>2. n \in Nat /\ n # 0 /\ DOMAIN mainLine = 1 .. n
    BY <1>1
  <1>3. \A i \in DOMAIN mainLine : mainLine[i] \in Commit
    BY <1>1
  <1>4. \A x \in Commit : x.carries \in Known /\ x.carries \in Nat
    <2>1. \A x \in Commit : x.carries \in Known
      BY DEF Commit
    <2>2. Known \subseteq Nat
      BY ReleaseAssumption DEF Known
    <2> QED
      BY <2>1, <2>2
  <1> QED
    BY <1>2, <1>3, <1>4 DEF Tip

\* The highest tag is one of them.
LEMMA HighestIsATag ==
    ASSUME ReleaseInv, NEW c \in Clones
    PROVE  highestTag(c) \in {0} \cup DOMAIN pushed \cup DOMAIN clone[c].tags
           /\ \A u \in {0} \cup DOMAIN pushed \cup DOMAIN clone[c].tags : u \in 0 .. Tip.carries
  <1> PICK m : m = Tip.carries
    OBVIOUS
  <1> PICK S : S = {0} \cup DOMAIN pushed \cup DOMAIN clone[c].tags
    OBVIOUS
  <1>1. /\ Len(mainLine) \in DOMAIN mainLine
        /\ m = mainLine[Len(mainLine)].carries /\ m \in Nat
        /\ \A i \in DOMAIN mainLine : mainLine[i].carries \in Nat /\ i \in 1 .. Len(mainLine)
    BY LineIs
  <1>2. ASSUME NEW u \in S, u # 0
        PROVE  u \in 0 .. m
    <2>1. WasMerged(u)
      BY <1>2 DEF ReleaseInv, GitHubHolds, TagsHold, ClonesHold, CloneHolds
    <2>2. PICK i \in DOMAIN mainLine : mainLine[i].carries = u
      BY <2>1 DEF WasMerged, MergedAs, PullsOf, ReleaseInv, GitHubHolds, PullsHold, PullHolds
    <2>3. i = Len(mainLine) \/ i < Len(mainLine)
      BY <1>1
    <2>4. u <= m /\ u \in Nat
      BY <1>1, <2>2, <2>3 DEF ReleaseInv, GitHubHolds, LineHolds
    <2> QED
      BY <1>1, <2>4
  <1>3. S \subseteq 0 .. m /\ S # {}
    <2>1. 0 \in 0 .. m /\ 0 \in S
      BY <1>1
    <2> QED
      BY <1>2, <2>1
  <1>4. Max(S) \in S
    BY <1>1, <1>3, MaxIsOne
  <1> QED
    BY <1>3, <1>4 DEF highestTag

\* Main carries no version above its tip's, and a version that has a tag was
\* merged: so if the highest tag is not below the tip's, it is the tip's.
LEMMA TipIsTagged ==
    ASSUME ReleaseInv, NEW c \in Clones, clone[c].main = Len(mainLine),
           mainLine[clone[c].main].carries <= highestTag(c)
    PROVE  Tagged(mainLine[clone[c].main].carries)
  <1>1. Tip.carries = mainLine[clone[c].main].carries /\ Tip.carries \in Nat
    BY LineIs
  <1>2. Tip.carries = highestTag(c)
    <2>1. highestTag(c) \in 0 .. Tip.carries
      BY HighestIsATag
    <2> QED
      BY <1>1, <2>1
  <1>3. Tip.carries \in {0} \cup DOMAIN pushed \cup DOMAIN clone[c].tags
    BY <1>2, HighestIsATag
  <1> QED
    BY <1>1, <1>3 DEF Tagged

\* git fetch --tags: the clone has GitHub's tags of `vs` beside its own.
LEMMA FetchedTags ==
    ASSUME ReleaseInv, NEW c \in Clones, NEW vs \in SUBSET DOMAIN pushed,
           clone' = WithTags(c, vs)
    PROVE  \E k : /\ clone' = [clone EXCEPT ![c] = k] /\ CloneHolds(k)
                  /\ DOMAIN clone[c].tags \subseteq DOMAIN k.tags
                  /\ k.main = clone[c].main
  <1> PICK old : old = clone[c]
    OBVIOUS
  <1> PICK tags : tags = [v \in DOMAIN old.tags \cup vs |->
                            IF v \in vs THEN pushed[v] ELSE old.tags[v]]
    OBVIOUS
  <1> PICK k : k = [old EXCEPT !.tags = tags]
    OBVIOUS
  <1>1. CloneHolds(old) /\ old \in Clone
    BY DEF ReleaseInv, ClonesHold, CloneHolds
  <1>2. /\ DOMAIN pushed \subseteq Versions /\ pushed \in [DOMAIN pushed -> Tag]
        /\ DOMAIN old.tags \subseteq Versions /\ old.tags \in [DOMAIN old.tags -> Tag]
    BY <1>1, ByVersionIs DEF ReleaseInv, GitHubHolds, GitHubTypes, Clone
  <1>3. tags \in ByVersion(Tag)
    <2>1. DOMAIN tags \subseteq Versions /\ tags \in [DOMAIN tags -> Tag]
      BY <1>2
    <2> QED
      BY <2>1, ByVersionIs
  <1>4. /\ k \in Clone /\ k.on = old.on /\ k.main = old.main /\ k.branch = old.branch
        /\ k.tags = tags
    BY <1>1, <1>3 DEF Clone
  <1>5. \A v \in DOMAIN k.tags : WasMerged(v)
    BY <1>1, <1>4 DEF CloneHolds, ReleaseInv, GitHubHolds, TagsHold
  <1>6. CloneHolds(k)
    BY <1>1, <1>4, <1>5 DEF CloneHolds
  <1>7. clone' = [clone EXCEPT ![c] = k]
    BY DEF WithTags
  <1> QED
    BY <1>4, <1>6, <1>7

\* step_preflight: what the next release is cut from is tagged.
LEMMA PreflightSafe ==
    ASSUME ReleaseInv, NEW c \in Clones, preflight(c)
    PROVE  ReleaseInv'
  <1>1. PICK k : /\ clone' = [clone EXCEPT ![c] = k] /\ CloneHolds(k)
                 /\ DOMAIN clone[c].tags \subseteq DOMAIN k.tags
                 /\ k.main = clone[c].main
    BY FetchedTags DEF preflight
  <1> PICK r : r = [of |-> 0, pc |-> "version", last |-> highestTag(c), sha |-> 0]
    OBVIOUS
  <1>2. highestTag(c) \in Known
    <2>1. {0} \cup DOMAIN pushed \cup DOMAIN clone[c].tags \subseteq Known
      BY ByVersionIs DEF ReleaseInv, GitHubHolds, GitHubTypes, ClonesHold, CloneHolds, Clone, Known
    <2> QED
      BY <2>1, HighestIsATag DEF preflight
  <1>3. Tagged(mainLine[k.main].carries)
    BY <1>1, TipIsTagged DEF preflight
  <1>4. CutHolds(k, r)
    BY <1>2, <1>3 DEF CutHolds, Cut, Known
  <1>5. Goes(c, k, r)
    BY <1>4, BeginGoes DEF preflight
  <1> QED
    BY <1>1, <1>5, CloneWorks DEF preflight

\* step_version: the version is above what main carries.
LEMMA ChooseVersionSafe ==
    ASSUME ReleaseInv, NEW c \in Clones, NEW v \in Versions, chooseVersion(c, v)
    PROVE  ReleaseInv'
  <1> PICK k : k = clone[c]
    OBVIOUS
  <1> PICK r : r = [cutting[c] EXCEPT !.of = v, !.pc = "branch", !.last = 0]
    OBVIOUS
  <1>1. c \in DOMAIN cutting /\ cutting[c] \in Cut /\ cutting[c].pc = "version"
        /\ CutHolds(k, cutting[c]) /\ CutsHold /\ k \in Clone /\ CloneHolds(k)
    BY AtWork DEF chooseVersion, Cutting
  <1>2. /\ r \in Cut /\ r.of = v /\ r.pc = "branch"
    BY <1>1 DEF Cut, Known
  <1>3. mainLine[k.main].carries < v
    <2>1. mainLine[k.main].carries \in Nat /\ v \in Nat
      BY <1>1, LineIs, ReleaseAssumption DEF CloneHolds
    <2> QED
      BY <2>1 DEF chooseVersion, NoTrace
  <1>4. CutHolds(k, r)
    BY <1>1, <1>2, <1>3 DEF CutHolds
  <1>5. Goes(c, k, r)
    <2>1. cutting' = [cutting EXCEPT ![c] = r]
      BY DEF chooseVersion
    <2>2. /\ DOMAIN cutting' = DOMAIN cutting /\ cutting'[c] = r
          /\ \A d \in DOMAIN cutting \ {c} : cutting'[d] = cutting[d]
          /\ cutting' = [d \in DOMAIN cutting' |-> cutting'[d]]
      BY <1>1, <2>1 DEF CutsHold
    <2> QED
      BY <1>4, <2>2 DEF Goes
  <1> QED
    BY <1>5, WizardLooks DEF chooseVersion

-----------------------------------------------------------------------------
\* step_prepare and step_commit_pr

\* A wizard that goes on, in a clone that becomes k.
LEMMA WorksOn ==
    ASSUME ReleaseInv, UNCHANGED OnGitHub, NEW c \in DOMAIN cutting, NEW pc, NEW k, NEW r,
           Onward(c, pc), r = [cutting[c] EXCEPT !.pc = pc], CutHolds(k, r),
           clone' = [clone EXCEPT ![c] = k], CloneHolds(k),
           DOMAIN clone[c].tags \subseteq DOMAIN k.tags
    PROVE  ReleaseInv'
  <1>1. Goes(c, k, r) /\ c \in Clones
    BY AtWork, OnwardGoes
  <1> QED
    BY <1>1, CloneWorks

\* The branch is made from what the clone's main carries.
LEMMA SwitchBranchSafe ==
    ASSUME ReleaseInv, NEW c \in Clones, switchBranch(c)
    PROVE  ReleaseInv'
  <1> PICK old : old = clone[c]
    OBVIOUS
  <1> PICK v : v = cutting[c].of
    OBVIOUS
  <1> PICK b : b = Bare(mainLine[old.main].carries)
    OBVIOUS
  <1> PICK bs : bs = Put(old.branch, v, b)
    OBVIOUS
  <1> PICK k : k = [old EXCEPT !.on = v, !.branch = bs]
    OBVIOUS
  <1> PICK r : r = [cutting[c] EXCEPT !.pc = "section"]
    OBVIOUS
  <1>1. /\ c \in DOMAIN cutting /\ cutting[c].pc = "branch" /\ cutting[c] \in Cut
        /\ CutHolds(old, cutting[c]) /\ old \in Clone /\ CloneHolds(old) /\ v \in Versions
    BY AtWork DEF switchBranch, Cutting, CutHolds
  <1>2. b \in Branch /\ HeadHolds(v, b)
    <2>1. mainLine[old.main].carries \in Known
      BY <1>1, LineIs DEF CloneHolds
    <2>2. /\ b.from = mainLine[old.main].carries /\ b.holds = {} /\ b \in Branch
      BY <2>1 DEF Bare, Branch
    <2> QED
      BY <1>1, <2>2 DEF HeadHolds, CutHolds
  <1>3. /\ bs \in ByVersion(Branch) /\ DOMAIN bs = DOMAIN old.branch \cup {v} /\ bs[v] = b
        /\ \A y \in DOMAIN old.branch \ {v} : bs[y] = old.branch[y]
    <2>1. old.branch \in ByVersion(Branch)
      BY <1>1 DEF Clone
    <2>2. b \in Branch /\ v \in Versions /\ bs = Put(old.branch, v, b)
      BY <1>1, <1>2
    <2>3. bs \in ByVersion(Branch) /\ With(bs, old.branch, v, b)
      BY ONLY <2>1, <2>2, ByVersionPut
    <2> QED
      BY <2>3 DEF With
  <1>4. /\ k \in Clone /\ k.on = v /\ k.main = old.main /\ k.branch = bs /\ k.tags = old.tags
    BY <1>1, <1>3 DEF Clone, Known
  <1>5. CloneHolds(k)
    <2>1. \A y \in DOMAIN k.branch : HeadHolds(y, k.branch[y])
      BY <1>1, <1>2, <1>3, <1>4 DEF CloneHolds
    <2> QED
      BY <1>1, <1>3, <1>4, <2>1 DEF CloneHolds
  <1>6. r \in Cut /\ r.of = v /\ r.pc = "section"
    BY <1>1 DEF Cut
  <1>7. CutHolds(k, r)
    BY <1>1, <1>3, <1>4, <1>6 DEF CutHolds
  <1>8. clone' = [clone EXCEPT ![c] = k] /\ Onward(c, "section") /\ UNCHANGED OnGitHub
    BY DEF switchBranch
  <1> QED
    BY <1>1, <1>4, <1>5, <1>7, <1>8, WorksOn

\* The working tree changes, and nothing that is committed.
LEMMA TreeSafe ==
    ASSUME ReleaseInv, NEW c \in DOMAIN cutting, NEW tree \in SUBSET Parts,
           NEW next \in {"bump", "todo", "commit"},
           cutting[c].pc \in {"section", "bump", "todo"},
           clone' = [clone EXCEPT ![c] = [clone[c] EXCEPT !.tree = tree]],
           Onward(c, next), UNCHANGED OnGitHub
    PROVE  ReleaseInv'
  <1> PICK old : old = clone[c]
    OBVIOUS
  <1> PICK k : k = [old EXCEPT !.tree = tree]
    OBVIOUS
  <1> PICK r : r = [cutting[c] EXCEPT !.pc = next]
    OBVIOUS
  <1>1. cutting[c] \in Cut /\ CutHolds(old, cutting[c]) /\ old \in Clone /\ CloneHolds(old)
    BY AtWork
  <1>2. /\ k \in Clone /\ k.on = old.on /\ k.main = old.main /\ k.branch = old.branch
        /\ k.tags = old.tags
    BY <1>1 DEF Clone
  <1>3. CloneHolds(k)
    BY <1>1, <1>2 DEF CloneHolds
  <1>4. r \in Cut /\ r.of = cutting[c].of /\ r.pc = next
    BY <1>1 DEF Cut
  <1>5. CutHolds(k, r)
    BY <1>1, <1>2, <1>4 DEF CutHolds
  <1>6. clone' = [clone EXCEPT ![c] = k]
    OBVIOUS
  <1> QED
    BY <1>2, <1>3, <1>5, <1>6, WorksOn

\* The changelog, the version, and what was left to do.
LEMMA PrepareSafe ==
    ASSUME ReleaseInv, NEW c \in Clones, rewriteChangelog(c) \/ npmVersion(c) \/ fillIn(c)
    PROVE  ReleaseInv'
  <1>1. c \in DOMAIN cutting /\ clone[c].tree \in SUBSET Parts
    BY AtWork DEF rewriteChangelog, npmVersion, fillIn, Cutting, Clone
  <1>2. CASE rewriteChangelog(c)
    <2>1. PICK stub \in SUBSET {"todo"} : Write(c, {"section"} \cup stub, "bump")
      BY <1>2 DEF rewriteChangelog
    <2> PICK tree : tree = clone[c].tree \cup ({"section"} \cup stub)
      OBVIOUS
    <2>2. tree \in SUBSET Parts
      BY <1>1 DEF Parts
    <2>3. /\ clone' = [clone EXCEPT ![c] = [clone[c] EXCEPT !.tree = tree]]
          /\ Onward(c, "bump") /\ UNCHANGED OnGitHub /\ cutting[c].pc = "section"
      BY <1>2, <2>1 DEF Write, rewriteChangelog, Cutting
    <2> QED
      BY <1>1, <2>2, <2>3, TreeSafe
  <1>3. CASE npmVersion(c)
    <2> PICK tree : tree = clone[c].tree \cup {"bump"}
      OBVIOUS
    <2>1. tree \in SUBSET Parts
      BY <1>1 DEF Parts
    <2>2. /\ clone' = [clone EXCEPT ![c] = [clone[c] EXCEPT !.tree = tree]]
          /\ Onward(c, "todo") /\ UNCHANGED OnGitHub /\ cutting[c].pc = "bump"
      BY <1>3 DEF Write, npmVersion, Cutting
    <2> QED
      BY <1>1, <2>1, <2>2, TreeSafe
  <1>4. CASE fillIn(c)
    <2> PICK tree : tree = clone[c].tree \ {"todo"}
      OBVIOUS
    <2>1. tree \in SUBSET Parts
      BY <1>1 DEF Parts
    <2>2. /\ clone' = [clone EXCEPT ![c] = [clone[c] EXCEPT !.tree = tree]]
          /\ Onward(c, "commit") /\ UNCHANGED OnGitHub /\ cutting[c].pc = "todo"
      BY <1>4 DEF fillIn, Cutting
    <2> QED
      BY <1>1, <2>1, <2>2, TreeSafe
  <1> QED
    BY <1>2, <1>3, <1>4

\* What is committed has nothing left to do.
LEMMA ReleaseCommitSafe ==
    ASSUME ReleaseInv, NEW c \in Clones, commit(c)
    PROVE  ReleaseInv'
  <1> PICK old : old = clone[c]
    OBVIOUS
  <1> PICK v : v = cutting[c].of
    OBVIOUS
  <1> PICK r : r = [cutting[c] EXCEPT !.pc = "push"]
    OBVIOUS
  <1>1. /\ c \in DOMAIN cutting /\ cutting[c].pc = "commit" /\ cutting[c] \in Cut
        /\ CutHolds(old, cutting[c]) /\ old \in Clone /\ CloneHolds(old)
        /\ v \in Versions /\ v \in DOMAIN old.branch
        /\ Onward(c, "push") /\ UNCHANGED OnGitHub
    BY AtWork DEF commit, Cutting, CutHolds
  <1>2. r \in Cut /\ r.of = v /\ r.pc = "push"
    BY <1>1 DEF Cut
  <1>3. CASE old.tree = {}
    <2>1. clone' = [clone EXCEPT ![c] = old]
      BY <1>3 DEF commit, ReleaseInv, ClonesHold
    <2>2. CutHolds(old, r)
      BY <1>1, <1>2 DEF CutHolds
    <2> QED
      BY <1>1, <2>1, <2>2, WorksOn
  <1>4. CASE old.tree # {}
    <2> PICK held : held = InTree(c)
      OBVIOUS
    <2> PICK b : b = [old.branch[v] EXCEPT !.by = c, !.holds = held]
      OBVIOUS
    <2> PICK bs : bs = Put(old.branch, v, b)
      OBVIOUS
    <2> PICK k : k = [old EXCEPT !.tree = {}, !.branch = bs]
      OBVIOUS
    <2>1. /\ old.branch \in ByVersion(Branch) /\ old.branch \in [DOMAIN old.branch -> Branch]
          /\ old.tree \in SUBSET Parts
      BY <1>1, ByVersionIs DEF Clone
    <2>2. held \in SUBSET Parts /\ "todo" \notin held
      <3>1. Here(c) \in SUBSET Parts
        BY <1>1, <2>1 DEF Here, CloneHolds, Branch
      <3> QED
        BY <2>1, <3>1 DEF InTree, commit
    <2>3. b \in Branch /\ HeadHolds(v, b)
      <3>1. old.branch[v] \in Branch /\ HeadHolds(v, old.branch[v])
        BY <1>1, <2>1 DEF CloneHolds
      <3>2. b \in Branch /\ b.from = old.branch[v].from /\ b.holds = held
        BY <2>2, <3>1 DEF Branch
      <3> QED
        BY <2>2, <3>1, <3>2 DEF HeadHolds
    <2>4. /\ bs \in ByVersion(Branch) /\ DOMAIN bs = DOMAIN old.branch /\ bs[v] = b
          /\ \A y \in DOMAIN old.branch \ {v} : bs[y] = old.branch[y]
      <3>1. DOMAIN old.branch \cup {v} = DOMAIN old.branch
        BY <1>1
      <3>2. b \in Branch /\ v \in Versions /\ bs = Put(old.branch, v, b)
        BY <1>1, <2>3
      <3>3. bs \in ByVersion(Branch) /\ With(bs, old.branch, v, b)
        BY ONLY <2>1, <3>2, ByVersionPut
      <3> QED
        BY <3>1, <3>3 DEF With
    <2>5. /\ k \in Clone /\ k.on = old.on /\ k.main = old.main /\ k.branch = bs
          /\ k.tags = old.tags
      BY <1>1, <2>4 DEF Clone
    <2>6. CloneHolds(k)
      <3>1. \A y \in DOMAIN bs : y = v \/ HeadHolds(y, bs[y])
        BY <1>1, <2>4 DEF CloneHolds
      <3>2. \A y \in DOMAIN k.branch : HeadHolds(y, k.branch[y])
        BY ONLY <2>3, <2>4, <2>5, <3>1
      <3> QED
        BY <1>1, <2>4, <2>5, <3>2 DEF CloneHolds
    <2>7. CutHolds(k, r)
      BY <1>1, <1>2, <2>4, <2>5 DEF CutHolds
    <2>8. clone' = [clone EXCEPT ![c] = k]
      BY <1>4 DEF commit
    <2> QED
      BY <1>1, <2>5, <2>6, <2>7, <2>8, WorksOn
  <1> QED
    BY <1>3, <1>4

\* GitHub's tables change, and one wizard goes on.
LEMMA WizardActs ==
    ASSUME ReleaseInv, Grows, GitHubHolds', UNCHANGED clone, NEW c \in DOMAIN cutting,
           NEW pc, NEW k, NEW r, k = clone[c], r = [cutting[c] EXCEPT !.pc = pc],
           Onward(c, pc), CutHolds(k, r)'
    PROVE  ReleaseInv'
  <1>1. /\ DOMAIN cutting' = DOMAIN cutting /\ cutting'[c] = r
        /\ \A d \in DOMAIN cutting \ {c} : cutting'[d] = cutting[d]
        /\ cutting' = [d \in DOMAIN cutting' |-> cutting'[d]]
    BY AtWork DEF Onward, CutsHold
  <1>2. CutHolds(clone[c], cutting[c])'
    BY <1>1
  <1>3. \A d \in DOMAIN cutting' :
              \/ d \in DOMAIN cutting /\ cutting'[d] = cutting[d] /\ clone'[d] = clone[d]
              \/ d \in Clones /\ CutHolds(clone[d], cutting[d])'
    BY <1>1, <1>2, AtWork
  <1>4. clone' \in [Clones -> Clone] /\ \A d \in Clones : clone'[d] = clone[d]
    BY DEF ReleaseInv, ClonesHold
  <1> QED
    BY <1>1, <1>3, <1>4, StepHolds

\* They change, and no wizard does.
LEMMA OthersAct ==
    ASSUME ReleaseInv, Grows, GitHubHolds', UNCHANGED clone, UNCHANGED cutting
    PROVE  ReleaseInv'
  <1>1. /\ clone' \in [Clones -> Clone] /\ \A d \in Clones : clone'[d] = clone[d]
        /\ cutting' = [d \in DOMAIN cutting' |-> cutting'[d]]
    BY DEF ReleaseInv, ClonesHold, CutsHold
  <1>2. \A d \in DOMAIN cutting' :
              \/ d \in DOMAIN cutting /\ cutting'[d] = cutting[d] /\ clone'[d] = clone[d]
              \/ d \in Clones /\ CutHolds(clone[d], cutting[d])'
    OBVIOUS
  <1> QED
    BY <1>1, <1>2, StepHolds

\* The branch goes to GitHub.
LEMMA PushSafe ==
    ASSUME ReleaseInv, NEW c \in Clones, push(c)
    PROVE  ReleaseInv'
  <1> PICK k : k = clone[c]
    OBVIOUS
  <1> PICK v : v = cutting[c].of
    OBVIOUS
  <1> PICK r : r = [cutting[c] EXCEPT !.pc = "open"]
    OBVIOUS
  <1>1. /\ c \in DOMAIN cutting /\ cutting[c].pc = "push" /\ cutting[c] \in Cut
        /\ CutHolds(k, cutting[c]) /\ k \in Clone /\ CloneHolds(k)
        /\ v \in Versions /\ v \in DOMAIN k.branch
        /\ Onward(c, "open")
        /\ UNCHANGED <<mainLine, pulls, pushed, builds, published, clone>>
    BY AtWork DEF push, Cutting, CutHolds
  <1>2. k.branch[v] \in Branch /\ HeadHolds(v, k.branch[v])
    BY <1>1, ByVersionIs DEF Clone, CloneHolds
  <1>3. /\ branches' \in ByVersion(Branch)
        /\ DOMAIN branches' = DOMAIN branches \cup {v} /\ branches'[v] = k.branch[v]
        /\ \A y \in DOMAIN branches \ {v} : branches'[y] = branches[y]
    <2>1. branches' = Put(branches, v, k.branch[v]) /\ branches \in ByVersion(Branch)
      BY DEF push, ReleaseInv, GitHubHolds, GitHubTypes
    <2>2. branches' \in ByVersion(Branch) /\ With(branches', branches, v, k.branch[v])
      BY <1>1, <1>2, <2>1, ByVersionPut
    <2> QED
      BY <2>2 DEF With
  <1>4. Grows
    BY <1>1 DEF Grows
  <1>5. GitHubHolds'
    <2>1. GitHubTypes'
      BY <1>1, <1>3 DEF ReleaseInv, GitHubHolds, GitHubTypes
    <2>2. LineHolds' /\ PullsHold' /\ TagsHold'
      BY <1>1, <1>4, LineStays, PullsStay, TagsStay DEF ReleaseInv, GitHubHolds
    <2>3. BranchesHold'
      BY <1>2, <1>3, <1>4, BranchesStay DEF ReleaseInv, GitHubHolds
    <2> QED
      BY <2>1, <2>2, <2>3 DEF GitHubHolds
  <1>6. CutHolds(k, r)'
    <2>1. r \in Cut /\ r.of = v /\ r.pc = "open"
      BY <1>1 DEF Cut
    <2> QED
      BY <1>1, <2>1 DEF CutHolds
  <1> QED
    BY <1>1, <1>4, <1>5, <1>6, WizardActs

\* The pull requests change in one that is not merged, and in nothing else.
LEMMA PullChanges ==
    ASSUME ReleaseInv, NEW q \in Pull, PullHolds(q), q.state # "MERGED",
           pulls' \subseteq pulls \cup {q},
           \A p \in pulls : p.state = "MERGED" => p \in pulls',
           UNCHANGED <<mainLine, pushed, builds, published, clone>>,
           branches' \in ByVersion(Branch),
           \A v \in DOMAIN branches' : v \in DOMAIN branches /\ branches'[v] = branches[v]
    PROVE  Grows /\ GitHubHolds'
  <1>1. Grows
    BY DEF Grows
  <1>2. GitHubTypes'
    BY DEF ReleaseInv, GitHubHolds, GitHubTypes
  <1>3. PullHolds(q)'
    <2>1. HeadHolds(q.of, q.head)'
      BY <1>1, HeadStays DEF PullHolds
    <2> QED
      BY <2>1 DEF PullHolds
  <1>4. LineHolds' /\ PullsHold' /\ TagsHold' /\ BranchesHold'
    BY <1>1, <1>3, LineStays, PullsStay, TagsStay, BranchesStay DEF ReleaseInv, GitHubHolds
  <1> QED
    BY <1>1, <1>2, <1>4 DEF GitHubHolds

\* A pull request is opened of the branch on GitHub.
LEMMA OpenPullSafe ==
    ASSUME ReleaseInv, NEW c \in Clones, openPull(c)
    PROVE  ReleaseInv'
  <1> PICK k : k = clone[c]
    OBVIOUS
  <1> PICK v : v = cutting[c].of
    OBVIOUS
  <1> PICK r : r = [cutting[c] EXCEPT !.pc = "merge"]
    OBVIOUS
  <1> PICK q : q = [of |-> v, head |-> branches[v], state |-> "OPEN", at |-> 0]
    OBVIOUS
  <1>1. /\ c \in DOMAIN cutting /\ cutting[c].pc = "open" /\ cutting[c] \in Cut
        /\ CutHolds(k, cutting[c]) /\ v \in Versions /\ Onward(c, "merge")
        /\ v \in DOMAIN branches /\ pulls' = pulls \cup {q}
        /\ UNCHANGED <<mainLine, branches, pushed, builds, published, clone>>
    BY AtWork DEF openPull, Cutting, CutHolds
  <1>2. branches \in ByVersion(Branch) /\ branches[v] \in Branch /\ HeadHolds(v, branches[v])
    BY <1>1, ByVersionIs DEF ReleaseInv, GitHubHolds, GitHubTypes, BranchesHold
  <1>3. q \in Pull /\ PullHolds(q) /\ q.state # "MERGED"
    BY <1>1, <1>2 DEF Pull, PullHolds
  <1>4. Grows /\ GitHubHolds'
    BY <1>1, <1>2, <1>3, PullChanges
  <1>5. CutHolds(k, r)'
    <2>1. r \in Cut /\ r.of = v /\ r.pc = "merge"
      BY <1>1 DEF Cut
    <2> QED
      BY <1>1, <2>1 DEF CutHolds
  <1> QED
    BY <1>1, <1>4, <1>5, WizardActs

-----------------------------------------------------------------------------
\* From the merge on

\* What was merged is a commit of main.
LEMMA MergedIsOnMain ==
    ASSUME ReleaseInv, NEW v, NEW sha, MergedAs(v, sha)
    PROVE  WasMerged(v) /\ v \in Versions /\ sha \in DOMAIN mainLine /\ sha \in Nat
  <1>1. PICK p \in pulls : p.of = v /\ p.state = "MERGED" /\ p.at = sha
    BY DEF MergedAs, PullsOf
  <1>2. sha \in DOMAIN mainLine /\ v \in Versions /\ sha \in Nat
    BY <1>1 DEF ReleaseInv, GitHubHolds, GitHubTypes, PullsHold, PullHolds, Pull
  <1> QED
    BY <1>2 DEF WasMerged

\* wait_for_merge
LEMMA SeeMergedSafe ==
    ASSUME ReleaseInv, NEW c \in Clones, seeMerged(c)
    PROVE  ReleaseInv'
  <1> PICK k : k = clone[c]
    OBVIOUS
  <1>1. PICK p \in PullsOf(cutting[c].of) :
           /\ p.state = "MERGED"
           /\ cutting' = [cutting EXCEPT ![c] = [cutting[c] EXCEPT !.pc = "tag", !.sha = p.at]]
    BY DEF seeMerged
  <1> PICK r : r = [cutting[c] EXCEPT !.pc = "tag", !.sha = p.at]
    OBVIOUS
  <1>2. /\ c \in DOMAIN cutting /\ cutting[c].pc = "merge" /\ cutting[c] \in Cut /\ CutsHold
        /\ CutHolds(k, cutting[c]) /\ cutting[c].of \in Versions
    BY AtWork DEF seeMerged, Cutting, CutHolds
  <1>3. MergedAs(cutting[c].of, p.at) /\ p.at \in Nat
    BY <1>1, MergedIsOnMain DEF MergedAs
  <1>4. r \in Cut /\ r.of = cutting[c].of /\ r.pc = "tag" /\ r.sha = p.at
    BY <1>2, <1>3 DEF Cut
  <1>5. CutHolds(k, r)
    BY <1>2, <1>3, <1>4 DEF CutHolds
  <1>6. Goes(c, k, r)
    <2>1. cutting' = [cutting EXCEPT ![c] = r]
      BY <1>1
    <2>2. /\ DOMAIN cutting' = DOMAIN cutting /\ cutting'[c] = r
          /\ \A d \in DOMAIN cutting \ {c} : cutting'[d] = cutting[d]
          /\ cutting' = [d \in DOMAIN cutting' |-> cutting'[d]]
      BY <1>2, <2>1 DEF CutsHold
    <2> QED
      BY <1>5, <2>2 DEF Goes
  <1> QED
    BY <1>6, WizardLooks DEF seeMerged

\* A wizard that goes on, and leaves its clone and GitHub as they are
LEMMA LooksOn ==
    ASSUME ReleaseInv, UNCHANGED <<OnGitHub, clone>>, NEW c \in DOMAIN cutting, NEW pc,
           NEW k, NEW r, k = clone[c], r = [cutting[c] EXCEPT !.pc = pc], Onward(c, pc),
           CutHolds(k, r)
    PROVE  ReleaseInv'
  <1>1. Goes(c, k, r) /\ c \in Clones
    BY AtWork, OnwardGoes
  <1> QED
    BY <1>1, WizardLooks

\* step_tag, up to its question
LEMMA MayTagSafe ==
    ASSUME ReleaseInv, NEW c \in Clones, mayTag(c)
    PROVE  ReleaseInv'
  <1> PICK k : k = clone[c]
    OBVIOUS
  <1> PICK v : v = cutting[c].of
    OBVIOUS
  <1>1. /\ c \in DOMAIN cutting /\ cutting[c].pc = "tag" /\ cutting[c] \in Cut
        /\ CutHolds(k, cutting[c]) /\ v \in Versions /\ MergedAs(v, cutting[c].sha)
        /\ UNCHANGED <<OnGitHub, clone>>
    BY AtWork DEF mayTag, Cutting, CutHolds
  <1>2. CASE v \in DOMAIN pushed
    <2> PICK r : r = [cutting[c] EXCEPT !.pc = "images"]
      OBVIOUS
    <2>1. pushed[v].at = cutting[c].sha /\ Onward(c, "images")
      BY <1>2 DEF mayTag
    <2>2. r \in Cut /\ r.of = v /\ r.pc = "images"
      BY <1>1 DEF Cut
    <2>3. CutHolds(k, r)
      BY <1>1, <1>2, <2>1, <2>2 DEF CutHolds
    <2> QED
      BY <1>1, <2>1, <2>3, LooksOn
  <1>3. CASE v \notin DOMAIN pushed
    <2> PICK r : r = [cutting[c] EXCEPT !.pc = "tagHere"]
      OBVIOUS
    <2>1. (v \in DOMAIN k.tags => k.tags[v].at = cutting[c].sha) /\ Onward(c, "tagHere")
      BY <1>3 DEF mayTag
    <2>2. r \in Cut /\ r.of = v /\ r.pc = "tagHere" /\ r.sha = cutting[c].sha
      BY <1>1 DEF Cut
    <2>3. CutHolds(k, r)
      BY <1>1, <2>1, <2>2 DEF CutHolds
    <2> QED
      BY <1>1, <2>1, <2>3, LooksOn
  <1> QED
    BY <1>2, <1>3

\* The clone has the tag, of the merge.
LEMMA TagHereSafe ==
    ASSUME ReleaseInv, NEW c \in Clones, tagHere(c)
    PROVE  ReleaseInv'
  <1> PICK old : old = clone[c]
    OBVIOUS
  <1> PICK v : v = cutting[c].of
    OBVIOUS
  <1> PICK r : r = [cutting[c] EXCEPT !.pc = "pushTag"]
    OBVIOUS
  <1> PICK made : made = [at |-> cutting[c].sha, by |-> c]
    OBVIOUS
  <1>1. /\ c \in DOMAIN cutting /\ cutting[c].pc = "tagHere" /\ cutting[c] \in Cut
        /\ CutHolds(old, cutting[c]) /\ old \in Clone /\ CloneHolds(old)
        /\ v \in Versions /\ MergedAs(v, cutting[c].sha)
        /\ v \in DOMAIN old.tags => old.tags[v].at = cutting[c].sha
        /\ Onward(c, "pushTag") /\ UNCHANGED OnGitHub
    BY AtWork DEF tagHere, Cutting, CutHolds
  <1>2. r \in Cut /\ r.of = v /\ r.pc = "pushTag" /\ r.sha = cutting[c].sha
    BY <1>1 DEF Cut
  <1>3. CASE v \in DOMAIN old.tags
    <2>1. clone' = [clone EXCEPT ![c] = old]
      BY <1>3 DEF tagHere, ReleaseInv, ClonesHold
    <2>2. CutHolds(old, r)
      BY <1>1, <1>2, <1>3 DEF CutHolds
    <2> QED
      BY <1>1, <2>1, <2>2, WorksOn
  <1>4. CASE v \notin DOMAIN old.tags
    <2> PICK tags : tags = Put(old.tags, v, made)
      OBVIOUS
    <2> PICK k : k = [old EXCEPT !.tags = tags]
      OBVIOUS
    <2>1. WasMerged(v) /\ made \in Tag /\ made.at = cutting[c].sha
      BY <1>1, MergedIsOnMain DEF Tag
    <2>2. /\ tags \in ByVersion(Tag) /\ DOMAIN tags = DOMAIN old.tags \cup {v}
          /\ tags[v] = made
      <3>1. old.tags \in ByVersion(Tag) /\ v \in Versions /\ made \in Tag
        BY <1>1, <2>1 DEF Clone
      <3>2. tags = Put(old.tags, v, made)
        OBVIOUS
      <3>3. tags \in ByVersion(Tag) /\ With(tags, old.tags, v, made)
        BY ONLY <3>1, <3>2, ByVersionPut
      <3> QED
        BY <3>3 DEF With
    <2>3. /\ k \in Clone /\ k.on = old.on /\ k.main = old.main /\ k.branch = old.branch
          /\ k.tags = tags
      BY <1>1, <2>2 DEF Clone
    <2>4. CloneHolds(k)
      <3>1. \A y \in DOMAIN k.tags : WasMerged(y)
        BY <1>1, <2>1, <2>2, <2>3 DEF CloneHolds
      <3> QED
        BY <1>1, <2>3, <3>1 DEF CloneHolds
    <2>5. CutHolds(k, r)
      BY <1>1, <1>2, <2>1, <2>2, <2>3 DEF CutHolds
    <2>6. clone' = [clone EXCEPT ![c] = k] /\ DOMAIN old.tags \subseteq DOMAIN k.tags
      BY <1>4, <2>2, <2>3 DEF tagHere
    <2> QED
      BY <1>1, <2>4, <2>5, <2>6, WorksOn
  <1> QED
    BY <1>3, <1>4

\* A tag of what was merged arrives on GitHub.
LEMMA TagArrivesSafe ==
    ASSUME ReleaseInv, NEW v, v \notin DOMAIN pushed, v \in Versions, WasMerged(v),
           NEW t \in Tag, TagArrives(v, t),
           UNCHANGED <<mainLine, branches, pulls, published, clone>>
    PROVE  Grows /\ GitHubHolds' /\ v \in DOMAIN pushed' /\ pushed'[v] = t
  <1>1. /\ pushed' \in ByVersion(Tag) /\ DOMAIN pushed' = DOMAIN pushed \cup {v}
        /\ pushed'[v] = t /\ \A y \in DOMAIN pushed : pushed'[y] = pushed[y]
    <2>1. pushed' = Put(pushed, v, t) /\ pushed \in ByVersion(Tag)
      BY DEF TagArrives, ReleaseInv, GitHubHolds, GitHubTypes
    <2>2. pushed' \in ByVersion(Tag) /\ With(pushed', pushed, v, t)
      BY <2>1, ByVersionPut
    <2> QED
      BY <2>2 DEF With
  <1>2. /\ builds' \in [DOMAIN pushed' -> {"under way", "pushed", "success"}]
        /\ \A y \in DOMAIN pushed : builds'[y] = builds[y]
    BY <1>1 DEF TagArrives, Put, ReleaseInv, GitHubHolds, GitHubTypes
  <1>3. Grows
    BY <1>1, <1>2 DEF Grows
  <1>4. GitHubTypes'
    BY <1>1, <1>2 DEF ReleaseInv, GitHubHolds, GitHubTypes
  <1>5. LineHolds' /\ PullsHold' /\ BranchesHold'
    BY <1>3, LineStays, PullsStay, BranchesStay DEF ReleaseInv, GitHubHolds
  <1>6. TagsHold'
    <2>1. \A y \in DOMAIN pushed' : WasMerged(y)'
      BY <1>1, <1>3, StillMerged DEF ReleaseInv, GitHubHolds, TagsHold
    <2>2. ASSUME NEW y \in published
          PROVE  MergedAs(y, pushed[y].at)' /\ builds'[y] = "success"
      <3> PICK sha : sha = pushed[y].at
        OBVIOUS
      <3>1. y \in DOMAIN pushed /\ MergedAs(y, sha) /\ builds[y] = "success"
        BY <2>2 DEF ReleaseInv, GitHubHolds, GitHubTypes, TagsHold
      <3>2. MergedAs(y, sha)' /\ pushed'[y].at = sha
        BY <1>1, <1>3, <3>1, StillMergedAs
      <3> QED
        BY <1>2, <3>1, <3>2
    <2> QED
      BY <2>1, <2>2 DEF TagsHold
  <1> QED
    BY <1>1, <1>3, <1>4, <1>5, <1>6 DEF GitHubHolds

\* The clone's tag goes to GitHub, or is there.
LEMMA PushTagSafe ==
    ASSUME ReleaseInv, NEW c \in Clones, pushTag(c)
    PROVE  ReleaseInv'
  <1> PICK k : k = clone[c]
    OBVIOUS
  <1> PICK v : v = cutting[c].of
    OBVIOUS
  <1> PICK sha : sha = cutting[c].sha
    OBVIOUS
  <1> PICK r : r = [cutting[c] EXCEPT !.pc = "images"]
    OBVIOUS
  <1>1. /\ c \in DOMAIN cutting /\ cutting[c].pc = "pushTag" /\ cutting[c] \in Cut
        /\ CutHolds(k, cutting[c]) /\ k \in Clone /\ CloneHolds(k)
        /\ v \in Versions /\ MergedAs(v, sha)
        /\ v \in DOMAIN k.tags /\ k.tags[v].at = sha
        /\ Onward(c, "images")
        /\ UNCHANGED <<mainLine, branches, pulls, published, clone>>
    BY AtWork DEF pushTag, Cutting, CutHolds
  <1>2. r \in Cut /\ r.of = v /\ r.pc = "images"
    BY <1>1 DEF Cut
  <1>3. CASE v \in DOMAIN pushed
    <2>1. pushed[v].at = sha /\ UNCHANGED <<OnGitHub, clone>>
      BY <1>1, <1>3 DEF pushTag, OnGitHub
    <2>2. CutHolds(k, r)
      BY <1>1, <1>2, <1>3, <2>1 DEF CutHolds
    <2> QED
      BY <1>1, <2>1, <2>2, LooksOn
  <1>4. CASE v \notin DOMAIN pushed
    <2> PICK t : t = k.tags[v]
      OBVIOUS
    <2>1. t \in Tag
      BY <1>1, ByVersionIs DEF Clone
    <2>2. TagArrives(v, t)
      BY <1>4 DEF pushTag
    <2>3. WasMerged(v)
      BY <1>1, MergedIsOnMain
    <2>4. Grows /\ GitHubHolds' /\ v \in DOMAIN pushed' /\ pushed'[v] = t
      BY <1>1, <1>4, <2>1, <2>2, <2>3, TagArrivesSafe
    <2>5. MergedAs(v, pushed[v].at)'
      <3>1. MergedAs(v, sha)' /\ pushed'[v].at = sha
        BY <1>1, <2>4, StillMergedAs
      <3> QED
        BY <3>1
    <2>6. CutHolds(k, r)'
      BY <1>1, <1>2, <2>4, <2>5 DEF CutHolds
    <2> QED
      BY <1>1, <2>4, <2>6, WizardActs
  <1> QED
    BY <1>3, <1>4

\* step_wait_images
LEMMA ImagesThereSafe ==
    ASSUME ReleaseInv, NEW c \in Clones, imagesThere(c)
    PROVE  ReleaseInv'
  <1> PICK k : k = clone[c]
    OBVIOUS
  <1> PICK r : r = [cutting[c] EXCEPT !.pc = "publish"]
    OBVIOUS
  <1>1. /\ c \in DOMAIN cutting /\ cutting[c].pc = "images" /\ cutting[c] \in Cut
        /\ CutHolds(k, cutting[c]) /\ builds[cutting[c].of] = "success"
        /\ Onward(c, "publish") /\ UNCHANGED <<OnGitHub, clone>>
    BY AtWork DEF imagesThere, Cutting
  <1>2. r \in Cut /\ r.of = cutting[c].of /\ r.pc = "publish"
    BY <1>1 DEF Cut
  <1>3. CutHolds(k, r)
    BY <1>1, <1>2 DEF CutHolds
  <1> QED
    BY <1>1, <1>3, LooksOn

\* step_publish
LEMMA PublishSafe ==
    ASSUME ReleaseInv, NEW c \in Clones, publish(c)
    PROVE  ReleaseInv'
  <1> PICK v : v = cutting[c].of
    OBVIOUS
  <1>1. /\ c \in DOMAIN cutting /\ CutHolds(clone[c], cutting[c]) /\ cutting[c].pc = "publish"
        /\ v \in DOMAIN pushed /\ published' = published \cup {v}
        /\ cutting' = Drop(cutting, c)
        /\ UNCHANGED <<mainLine, branches, pulls, pushed, builds, clone>>
    BY AtWork DEF publish, Cutting
  <1>2. Grows
    BY <1>1 DEF Grows
  <1>3. GitHubTypes'
    BY <1>1 DEF ReleaseInv, GitHubHolds, GitHubTypes
  <1>4. LineHolds' /\ PullsHold' /\ BranchesHold'
    BY <1>1, <1>2, LineStays, PullsStay, BranchesStay DEF ReleaseInv, GitHubHolds
  <1>5. TagsHold'
    <2>1. MergedAs(v, pushed[v].at) /\ builds[v] = "success"
      BY <1>1 DEF CutHolds
    <2>2. \A y : MergedAs(y, pushed[y].at)' <=> MergedAs(y, pushed[y].at)
      BY <1>1 DEF MergedAs, PullsOf
    <2>3. \A y : WasMerged(y)' <=> WasMerged(y)
      BY <1>1 DEF WasMerged, MergedAs, PullsOf
    <2> QED
      BY <1>1, <2>1, <2>2, <2>3 DEF ReleaseInv, GitHubHolds, TagsHold
  <1>6. GitHubHolds'
    BY <1>3, <1>4, <1>5 DEF GitHubHolds
  <1>7. /\ cutting' = [d \in DOMAIN cutting' |-> cutting'[d]]
        /\ \A d \in DOMAIN cutting' : d \in DOMAIN cutting /\ cutting'[d] = cutting[d]
    BY <1>1 DEF Drop, Restrict
  <1>8. clone' \in [Clones -> Clone] /\ \A d \in Clones : clone'[d] = clone[d]
    BY <1>1 DEF ReleaseInv, ClonesHold
  <1>9. \A d \in DOMAIN cutting' :
              \/ d \in DOMAIN cutting /\ cutting'[d] = cutting[d] /\ clone'[d] = clone[d]
              \/ d \in Clones /\ CutHolds(clone[d], cutting[d])'
    BY <1>1, <1>7
  <1> QED
    BY <1>2, <1>6, <1>7, <1>8, <1>9, StepHolds

\* A wizard ends where it is.
LEMMA StopSafe ==
    ASSUME ReleaseInv, NEW c \in Clones, stopCutting(c)
    PROVE  ReleaseInv'
  <1> PICK k : k = clone[c]
    OBVIOUS
  <1> PICK r : r = cutting[c]
    OBVIOUS
  <1>1. Goes(c, k, r)
    BY DropGoes DEF stopCutting
  <1> QED
    BY <1>1, WizardLooks DEF stopCutting

-----------------------------------------------------------------------------
\* --continue

\* A version that has a tag and no pull request but of the commit the tag names
LEMMA ContinueTaggedSafe ==
    ASSUME ReleaseInv, NEW c \in Clones, NEW v \in Versions, continueTagged(c, v)
    PROVE  ReleaseInv'
  <1> PICK sha : sha = pushed[v].at
    OBVIOUS
  <1> PICK r : r = [of |-> v, pc |-> "images", last |-> 0, sha |-> sha]
    OBVIOUS
  <1>1. /\ v \in DOMAIN pushed /\ clone' = WithTags(c, {v})
        /\ \A p \in Live(v) : p.state = "MERGED" => p.at = sha
        /\ BeginCutting(c, v, "images", 0, sha) /\ UNCHANGED OnGitHub
    BY DEF continueTagged
  <1>2. MergedAs(v, sha) /\ sha \in Nat
    <2>1. WasMerged(v)
      BY <1>1 DEF ReleaseInv, GitHubHolds, TagsHold
    <2>2. MergedAs(v, sha)
      BY <1>1, <2>1 DEF WasMerged, MergedAs, Live
    <2> QED
      BY <2>2, MergedIsOnMain
  <1>3. PICK k : /\ clone' = [clone EXCEPT ![c] = k] /\ CloneHolds(k)
                 /\ DOMAIN clone[c].tags \subseteq DOMAIN k.tags
    <2>1. {v} \in SUBSET DOMAIN pushed
      BY <1>1
    <2> QED
      BY <1>1, <2>1, FetchedTags
  <1>4. CutHolds(k, r)
    BY <1>1, <1>2 DEF CutHolds, Cut, Known
  <1>5. Goes(c, k, r)
    BY <1>1, <1>4, BeginGoes
  <1> QED
    BY <1>1, <1>3, <1>5, CloneWorks

\* One pull request, open or merged
LEMMA ContinuePullSafe ==
    ASSUME ReleaseInv, NEW c \in Clones, NEW v \in Versions, continuePull(c, v)
    PROVE  ReleaseInv'
  <1>1. PICK p \in PullsOf(v) :
           BeginCutting(c, v, IF p.state = "MERGED" THEN "tag" ELSE "merge", 0, p.at)
    BY DEF continuePull
  <1> PICK pc : pc = IF p.state = "MERGED" THEN "tag" ELSE "merge"
    OBVIOUS
  <1> PICK k : k = clone[c]
    OBVIOUS
  <1> PICK r : r = [of |-> v, pc |-> pc, last |-> 0, sha |-> p.at]
    OBVIOUS
  <1>2. p.at \in Nat
    BY <1>1 DEF PullsOf, ReleaseInv, GitHubHolds, GitHubTypes, Pull
  <1>3. r.pc = "tag" => MergedAs(v, p.at)
    BY <1>1 DEF MergedAs
  <1>4. CutHolds(k, r)
    <2>1. r \in Cut /\ r.of = v /\ r.sha = p.at /\ r.pc \in {"tag", "merge"}
      BY <1>2 DEF Cut, Known
    <2> QED
      BY <1>3, <2>1 DEF CutHolds
  <1>5. Goes(c, k, r)
    BY <1>1, <1>4, BeginGoes
  <1> QED
    BY <1>5, WizardLooks DEF continuePull

\* A branch, here or on GitHub
LEMMA ContinueBranchSafe ==
    ASSUME ReleaseInv, NEW c \in Clones, NEW v \in Versions, continueBranch(c, v)
    PROVE  ReleaseInv'
  <1> PICK old : old = clone[c]
    OBVIOUS
  <1> PICK bs : bs = IF v \in DOMAIN old.branch THEN old.branch ELSE Put(old.branch, v, branches[v])
    OBVIOUS
  <1> PICK k : k = [old EXCEPT !.on = v, !.branch = bs]
    OBVIOUS
  <1> PICK r : r = [of |-> v, pc |-> "todo", last |-> 0, sha |-> 0]
    OBVIOUS
  <1>1. CloneHolds(old) /\ old \in Clone /\ old.branch \in ByVersion(Branch)
    BY DEF ReleaseInv, ClonesHold, CloneHolds, Clone
  <1>2. /\ clone' = [clone EXCEPT ![c] = k] /\ UNCHANGED OnGitHub
        /\ v \in DOMAIN old.branch \/ v \in DOMAIN branches
    BY DEF continueBranch
  <1>3. /\ bs \in ByVersion(Branch) /\ v \in DOMAIN bs
        /\ \A y \in DOMAIN bs : HeadHolds(y, bs[y])
    <2>1. CASE v \in DOMAIN old.branch
      BY <1>1, <2>1 DEF CloneHolds
    <2>2. CASE v \notin DOMAIN old.branch
      <3>1. branches[v] \in Branch /\ HeadHolds(v, branches[v])
        BY <1>2, <2>2, ByVersionIs DEF ReleaseInv, GitHubHolds, GitHubTypes, BranchesHold
      <3>2. bs = Put(old.branch, v, branches[v])
        BY <2>2
      <3>4. v \in Versions
        OBVIOUS
      <3>3. bs \in ByVersion(Branch) /\ With(bs, old.branch, v, branches[v])
        BY ONLY <1>1, <3>1, <3>2, <3>4, ByVersionPut
      <3> QED
        BY <1>1, <3>1, <3>3 DEF CloneHolds, With
    <2> QED
      BY <2>1, <2>2
  <1>4. /\ k \in Clone /\ k.on = v /\ k.main = old.main /\ k.branch = bs
        /\ k.tags = old.tags
    BY <1>1, <1>3 DEF Clone, Known
  <1>5. CloneHolds(k)
    BY <1>1, <1>3, <1>4 DEF CloneHolds
  <1>6. CutHolds(k, r)
    BY <1>3, <1>4 DEF CutHolds, Cut, Known
  <1>7. Goes(c, k, r)
    <2>1. CASE BeginCutting(c, v, "todo", 0, 0)
      BY <1>6, <2>1, BeginGoes
    <2>2. CASE c \notin DOMAIN cutting /\ UNCHANGED cutting
      BY <2>2 DEF Goes, ReleaseInv, CutsHold
    <2> QED
      BY <2>1, <2>2 DEF continueBranch
  <1> QED
    BY <1>2, <1>4, <1>5, <1>7, CloneWorks

\* Back to main
LEMMA TidySafe ==
    ASSUME ReleaseInv, NEW c \in Clones, tidy(c)
    PROVE  ReleaseInv'
  <1> PICK old : old = clone[c]
    OBVIOUS
  <1>1. PICK drop \in BOOLEAN :
           clone' = [clone EXCEPT ![c] = [clone[c] EXCEPT
                          !.on = 0, !.main = Len(mainLine), !.tree = {},
                          !.branch = IF drop THEN Drop(clone[c].branch, clone[c].on)
                                     ELSE clone[c].branch]]
    BY DEF tidy
  <1> PICK bs : bs = IF drop THEN Drop(old.branch, old.on) ELSE old.branch
    OBVIOUS
  <1> PICK k : k = [old EXCEPT !.on = 0, !.main = Len(mainLine), !.tree = {}, !.branch = bs]
    OBVIOUS
  <1> PICK r : r = cutting[c]
    OBVIOUS
  <1>2. CloneHolds(old) /\ old \in Clone /\ old.branch \in ByVersion(Branch)
    BY DEF ReleaseInv, ClonesHold, CloneHolds, Clone
  <1>3. /\ bs \in ByVersion(Branch)
        /\ \A y \in DOMAIN bs : y \in DOMAIN old.branch /\ bs[y] = old.branch[y]
    <2>1. CASE drop
      <3>1. bs = Drop(old.branch, old.on) /\ old.branch \in ByVersion(Branch)
        BY <1>2, <2>1
      <3>2. bs \in ByVersion(Branch) /\ Without(bs, old.branch, old.on)
        BY ONLY <3>1, ByVersionDrop
      <3> QED
        BY <3>2 DEF Without
    <2> QED
      BY <1>2, <2>1
  <1>4. Len(mainLine) \in DOMAIN mainLine /\ Len(mainLine) \in Nat
    BY LineIs
  <1>5. /\ k \in Clone /\ k.on = 0 /\ k.main = Len(mainLine) /\ k.branch = bs
        /\ k.tags = old.tags
    BY <1>2, <1>3, <1>4 DEF Clone, Known
  <1>6. CloneHolds(k)
    BY <1>2, <1>3, <1>4, <1>5 DEF CloneHolds
  <1>7. Goes(c, k, r)
    BY DEF tidy, NotTheWizards, Goes, ReleaseInv, CutsHold
  <1>8. clone' = [clone EXCEPT ![c] = k] /\ UNCHANGED OnGitHub
    BY <1>1 DEF tidy
  <1> QED
    BY <1>5, <1>6, <1>7, <1>8, CloneWorks

-----------------------------------------------------------------------------
\* The owner, others and the image workflow

\* Branches as they were, or without the one.
LEMMA GoesOrStaysIs ==
    ASSUME ReleaseInv, NEW v, GoesOrStays(v)
    PROVE  /\ branches' \in ByVersion(Branch)
           /\ \A y \in DOMAIN branches' : y \in DOMAIN branches /\ branches'[y] = branches[y]
  <1>1. branches \in ByVersion(Branch)
    BY DEF ReleaseInv, GitHubHolds, GitHubTypes
  <1>2. CASE branches' = branches
    BY <1>1, <1>2
  <1>3. CASE branches' = Drop(branches, v)
    <2>1. branches' \in ByVersion(Branch) /\ Without(branches', branches, v)
      BY ONLY <1>1, <1>3, ByVersionDrop
    <2> QED
      BY <2>1 DEF Without
  <1> QED
    BY <1>2, <1>3 DEF GoesOrStays

\* The tip of main after one more commit, and what was below.
LEMMA LineGrows ==
    ASSUME ReleaseInv, NEW x \in Commit, mainLine' = Append(mainLine, x)
    PROVE  /\ Len(mainLine) \in Nat /\ Len(mainLine) \in DOMAIN mainLine
           /\ Tip = mainLine[Len(mainLine)] /\ Tip \in Commit /\ Tip' = x
           /\ DOMAIN mainLine' = DOMAIN mainLine \cup {Len(mainLine) + 1}
           /\ Len(mainLine') = Len(mainLine) + 1
           /\ mainLine'[Len(mainLine) + 1] = x
           /\ mainLine' \in Seq(Commit) /\ mainLine' # << >>
           /\ \A i \in DOMAIN mainLine : /\ mainLine'[i] = mainLine[i] /\ mainLine[i] \in Commit
                                         /\ i # Len(mainLine) + 1 /\ i \in 1 .. Len(mainLine)
  <1>1. mainLine \in Seq(Commit) /\ mainLine # << >>
    BY DEF ReleaseInv, GitHubHolds, GitHubTypes
  <1> QED
    BY <1>1 DEF Tip

\* One more commit, not below the tip, and above it only if the tip is tagged.
LEMMA LineHoldsOn ==
    ASSUME ReleaseInv, Grows, NEW x \in Commit, mainLine' = Append(mainLine, x),
           \/ Tip.carries = x.carries
           \/ Tip.carries < x.carries /\ Tagged(Tip.carries)
    PROVE  LineHolds'
  <1> PICK n : n = Len(mainLine)
    OBVIOUS
  <1> PICK m : m = Tip.carries
    OBVIOUS
  <1>1. /\ n \in Nat /\ n \in DOMAIN mainLine /\ m = mainLine[n].carries /\ m \in Nat
        /\ Tip' = x /\ DOMAIN mainLine' = DOMAIN mainLine \cup {n + 1}
        /\ mainLine'[n + 1] = x
        /\ \A i \in DOMAIN mainLine : /\ mainLine'[i] = mainLine[i]
                                      /\ mainLine[i].carries \in Nat
                                      /\ i # n + 1 /\ i \in 1 .. n
    BY LineGrows, LineIs
  <1>2. m \in Nat /\ x.carries \in Nat /\ m <= x.carries
    <2>1. x.carries \in Known
      BY DEF Commit
    <2>2. Known \subseteq Nat
      BY ReleaseAssumption DEF Known
    <2>3. x.carries \in Nat
      BY ONLY <2>1, <2>2
    <2> QED
      BY <1>1, <2>3
  <1>3. \A i, j \in DOMAIN mainLine : i < j => mainLine[i].carries <= mainLine[j].carries
    BY DEF ReleaseInv, GitHubHolds, LineHolds
  <1>4. \A i \in DOMAIN mainLine : mainLine[i].carries <= m
    <2>1. ASSUME NEW i \in DOMAIN mainLine
          PROVE  mainLine[i].carries <= m
      <3>1. i = n \/ i < n
        BY <1>1, <2>1
      <3> QED
        BY <1>1, <1>2, <1>3, <3>1
    <2> QED
      BY <2>1
  <1>5. ASSUME NEW i \in DOMAIN mainLine', NEW j \in DOMAIN mainLine', i < j
        PROVE  mainLine'[i].carries <= mainLine'[j].carries
    <2>1. i \in DOMAIN mainLine
      BY <1>1, <1>5
    <2>2. CASE j \in DOMAIN mainLine
      BY <1>1, <1>3, <1>5, <2>1, <2>2
    <2>3. CASE j = n + 1
      <3>1. mainLine[i].carries <= m /\ mainLine[i].carries \in Nat
        BY <1>1, <1>4, <2>1
      <3> QED
        BY <1>1, <1>2, <2>1, <2>3, <3>1
    <2> QED
      BY <1>1, <2>2, <2>3
  <1>6. ASSUME NEW i \in DOMAIN mainLine'
        PROVE  mainLine'[i].carries = x.carries \/ Tagged(mainLine[i].carries)'
    <2> PICK w : w = mainLine'[i].carries
      OBVIOUS
    <2>1. CASE i = n + 1
      BY <1>1, <2>1
    <2>2. CASE i \in DOMAIN mainLine
      <3>1. w = m \/ Tagged(w)
        BY <1>1, <2>2 DEF ReleaseInv, GitHubHolds, LineHolds
      <3>2. w = x.carries \/ Tagged(w)
        BY <3>1
      <3>3. Tagged(w) => Tagged(w)'
        BY StillTagged
      <3> QED
        BY <3>2, <3>3
    <2> QED
      BY <1>1, <2>1, <2>2
  <1> QED
    BY <1>1, <1>5, <1>6 DEF LineHolds

\* The owner merges: main's version is the branch's own, or the tagged one the
\* branch was made from.
LEMMA MergeSafe ==
    ASSUME ReleaseInv, NEW p \in pulls, merge(p)
    PROVE  ReleaseInv'
  <1> PICK n : n = Len(mainLine)
    OBVIOUS
  <1> PICK x : x = [carries |-> p.of, holds |-> p.head.holds]
    OBVIOUS
  <1> PICK q : q = [p EXCEPT !.state = "MERGED", !.at = Len(mainLine')]
    OBVIOUS
  <1>1. /\ p \in Pull /\ p.head \in Branch /\ p.of \in Versions /\ p.state = "OPEN"
        /\ p.head.from < p.of /\ Tagged(p.head.from) /\ "todo" \notin p.head.holds
    BY DEF merge, ReleaseInv, GitHubHolds, GitHubTypes, PullsHold, PullHolds, HeadHolds, Pull
  <1>2. /\ mainLine' = Append(mainLine, x) /\ pulls' = (pulls \ {p}) \cup {q}
        /\ GoesOrStays(p.of) /\ Tip.carries \in {p.head.from, p.of}
        /\ UNCHANGED <<pushed, builds, published, clone, cutting>>
    BY DEF merge, NotTheWizards
  <1>3. x \in Commit /\ x.carries = p.of /\ x.holds = p.head.holds
    BY <1>1 DEF Branch, Commit, Known
  <1>4. /\ n \in Nat /\ Len(mainLine') = n + 1
        /\ DOMAIN mainLine' = DOMAIN mainLine \cup {n + 1} /\ mainLine'[n + 1] = x
        /\ mainLine' \in Seq(Commit) /\ mainLine' # << >>
        /\ \A i \in DOMAIN mainLine : mainLine'[i] = mainLine[i]
    BY <1>2, <1>3, LineGrows
  <1>5. Grows
    BY <1>1, <1>2, <1>4 DEF Grows
  <1>6. /\ q \in Pull /\ q.of = p.of /\ q.head = p.head /\ q.at = n + 1
    <2>1. q = [p EXCEPT !.state = "MERGED", !.at = n + 1] /\ n + 1 \in Nat
      BY <1>4
    <2> QED
      BY <1>1, <2>1 DEF Pull
  <1>7. PullHolds(q)'
    <2>1. HeadHolds(q.of, q.head)
      BY <1>1, <1>6 DEF HeadHolds
    <2>2. HeadHolds(q.of, q.head)'
      BY <1>5, <2>1, HeadStays
    <2> QED
      BY <1>1, <1>3, <1>4, <1>6, <2>2 DEF PullHolds
  <1>8. LineHolds'
    <2>1. \/ Tip.carries = x.carries
          \/ Tip.carries < x.carries /\ Tagged(Tip.carries)
      BY <1>1, <1>2, <1>3
    <2> QED
      BY <1>2, <1>3, <1>5, <2>1, LineHoldsOn
  <1>9. /\ branches' \in ByVersion(Branch)
        /\ \A y \in DOMAIN branches' : y \in DOMAIN branches /\ branches'[y] = branches[y]
    BY <1>2, GoesOrStaysIs
  <1>10. GitHubTypes'
    BY <1>2, <1>4, <1>6, <1>9 DEF ReleaseInv, GitHubHolds, GitHubTypes
  <1>11. PullsHold' /\ BranchesHold' /\ TagsHold'
    BY <1>2, <1>5, <1>7, <1>9, PullsStay, BranchesStay, TagsStay DEF ReleaseInv, GitHubHolds
  <1>12. GitHubHolds'
    BY <1>8, <1>10, <1>11 DEF GitHubHolds
  <1> QED
    BY <1>2, <1>5, <1>12, OthersAct

\* Anybody's commit on main
LEMMA OthersWorkSafe ==
    ASSUME ReleaseInv, othersWork
    PROVE  ReleaseInv'
  <1> PICK x : x = Tip
    OBVIOUS
  <1>1. /\ mainLine' = Append(mainLine, x)
        /\ UNCHANGED <<branches, pulls, pushed, builds, published, clone, cutting>>
    BY DEF othersWork, NotTheWizards
  <1>2. x \in Commit
    BY LineIs
  <1>3. /\ mainLine' \in Seq(Commit) /\ mainLine' # << >>
        /\ \A i \in DOMAIN mainLine : i \in DOMAIN mainLine' /\ mainLine'[i] = mainLine[i]
    BY <1>1, <1>2, LineGrows
  <1>4. Grows
    BY <1>1, <1>3 DEF Grows
  <1>5. LineHolds'
    BY <1>1, <1>2, <1>4, LineHoldsOn
  <1>6. GitHubTypes'
    BY <1>1, <1>3 DEF ReleaseInv, GitHubHolds, GitHubTypes
  <1>7. PullsHold' /\ BranchesHold' /\ TagsHold'
    BY <1>1, <1>4, PullsStay, BranchesStay, TagsStay DEF ReleaseInv, GitHubHolds
  <1>8. GitHubHolds'
    BY <1>5, <1>6, <1>7 DEF GitHubHolds
  <1> QED
    BY <1>1, <1>4, <1>8, OthersAct

\* A pull request is closed or opened again.
LEMMA CloseSafe ==
    ASSUME ReleaseInv, NEW p \in pulls, close(p) \/ reopen(p)
    PROVE  ReleaseInv'
  <1>1. PICK q : /\ \E s \in {"OPEN", "CLOSED"} : q = [p EXCEPT !.state = s]
                 /\ pulls' = (pulls \ {p}) \cup {q}
    BY DEF close, reopen
  <1>2. /\ p.state # "MERGED" /\ GoesOrStays(p.of)
        /\ UNCHANGED <<mainLine, pushed, builds, published, clone, cutting>>
    BY DEF close, reopen, GoesOrStays, NotTheWizards
  <1>3. p \in Pull /\ PullHolds(p)
    BY DEF ReleaseInv, GitHubHolds, GitHubTypes, PullsHold
  <1>4. q \in Pull /\ q.of = p.of /\ q.head = p.head /\ q.state # "MERGED"
    BY <1>1, <1>3 DEF Pull
  <1>5. PullHolds(q)
    BY <1>3, <1>4 DEF PullHolds
  <1>6. /\ pulls' \subseteq pulls \cup {q}
        /\ \A o \in pulls : o.state = "MERGED" => o \in pulls'
    BY <1>1, <1>2
  <1>7. Grows /\ GitHubHolds'
    BY <1>2, <1>4, <1>5, <1>6, GoesOrStaysIs, PullChanges
  <1> QED
    BY <1>2, <1>7, OthersAct

\* A tag by hand, of what was merged
LEMMA HandTagSafe ==
    ASSUME ReleaseInv, NEW v \in Versions, NEW at \in 0 .. Len(mainLine), handTag(v, at)
    PROVE  ReleaseInv'
  <1> PICK t : t = [at |-> at, by |-> None]
    OBVIOUS
  <1>1. /\ v \notin DOMAIN pushed /\ TagArrives(v, t)
        /\ UNCHANGED <<mainLine, branches, pulls, published, clone, cutting>>
    BY DEF handTag, NotTheWizards
  <1>2. PICK p \in PullsOf(v) : p.state = "MERGED"
    BY DEF handTag
  <1>3. WasMerged(v)
    <2>1. MergedAs(v, p.at)
      BY <1>2 DEF MergedAs
    <2> QED
      BY <2>1, MergedIsOnMain
  <1>4. t \in Tag
    BY DEF Tag
  <1>5. Grows /\ GitHubHolds'
    BY <1>1, <1>3, <1>4, TagArrivesSafe
  <1> QED
    BY <1>1, <1>5, OthersAct

\* The image workflow goes on.
LEMMA BuildSafe ==
    ASSUME ReleaseInv, NEW v \in DOMAIN builds, build(v)
    PROVE  ReleaseInv'
  <1>1. /\ builds[v] # "success"
        /\ \E s \in {"pushed", "success"} : builds' = [builds EXCEPT ![v] = s]
        /\ UNCHANGED <<mainLine, branches, pulls, pushed, published, clone, cutting>>
    BY DEF build, NotTheWizards
  <1>2. /\ builds' \in [DOMAIN pushed -> {"under way", "pushed", "success"}]
        /\ \A y \in DOMAIN pushed : builds[y] = "success" => builds'[y] = "success"
    BY <1>1 DEF ReleaseInv, GitHubHolds, GitHubTypes
  <1>3. Grows
    BY <1>1, <1>2 DEF Grows
  <1>4. GitHubTypes'
    BY <1>1, <1>2 DEF ReleaseInv, GitHubHolds, GitHubTypes
  <1>5. LineHolds' /\ PullsHold' /\ BranchesHold'
    BY <1>1, <1>3, LineStays, PullsStay, BranchesStay DEF ReleaseInv, GitHubHolds
  <1>6. TagsHold'
    <2>1. \A y : MergedAs(y, pushed[y].at)' <=> MergedAs(y, pushed[y].at)
      BY <1>1 DEF MergedAs, PullsOf
    <2>2. \A y : WasMerged(y)' <=> WasMerged(y)
      BY <1>1 DEF WasMerged, MergedAs, PullsOf
    <2> QED
      BY <1>1, <1>2, <2>1, <2>2 DEF ReleaseInv, GitHubHolds, GitHubTypes, TagsHold
  <1>7. GitHubHolds'
    BY <1>4, <1>5, <1>6 DEF GitHubHolds
  <1> QED
    BY <1>1, <1>3, <1>7, OthersAct

-----------------------------------------------------------------------------
\* Every reachable state

\* Nothing happens.
LEMMA NothingReleased ==
    ASSUME ReleaseInv, UNCHANGED releaseVars
    PROVE  ReleaseInv'
  <1>1. UNCHANGED <<OnGitHub, clone, cutting>>
    BY DEF releaseVars, OnGitHub
  <1>2. Grows
    BY <1>1 DEF Grows, OnGitHub
  <1>3. GitHubHolds'
    BY <1>1, <1>2, GitHubStays DEF ReleaseInv
  <1> QED
    BY <1>1, <1>2, <1>3, OthersAct

\* release-wizard.sh: what GitHub, the clones and the wizards under way know of one
\* another agrees wherever a wizard stopped and whoever went on with it.
THEOREM ReleaseInvariant == ReleaseSpec => []ReleaseInv
  <1>1. ReleaseInit => ReleaseInv
    <2> SUFFICES ASSUME ReleaseInit
                 PROVE  ReleaseInv
      OBVIOUS
    <2> PICK x : x = [carries |-> 0, holds |-> {}]
      OBVIOUS
    <2> PICK k : k = [on |-> 0, main |-> 1, tree |-> {}, branch |-> Nothing, tags |-> Nothing]
      OBVIOUS
    <2>1. x \in Commit /\ x.carries = 0
      BY DEF Commit, Known
    <2>2. /\ mainLine = <<x>> /\ mainLine \in Seq(Commit) /\ DOMAIN mainLine = {1}
          /\ mainLine[1] = x /\ Tip = x /\ mainLine # << >>
      BY <2>1 DEF ReleaseInit, Tip
    <2>3. DOMAIN Nothing = {} /\ Nothing \in ByVersion(Branch) /\ Nothing \in ByVersion(Tag)
      <3>1. DOMAIN Nothing = {} /\ Nothing \in [DOMAIN Nothing -> Branch]
            /\ Nothing \in [DOMAIN Nothing -> Tag]
        BY DEF Nothing
      <3> QED
        BY <3>1, ByVersionIs
    <2>4. GitHubTypes
      <3>1. Nothing \in [DOMAIN Nothing -> {"under way", "pushed", "success"}]
        BY DEF Nothing
      <3> QED
        BY <2>2, <2>3, <3>1 DEF ReleaseInit, GitHubTypes
    <2>5. LineHolds /\ PullsHold /\ BranchesHold /\ TagsHold
      BY <2>1, <2>2, <2>3 DEF ReleaseInit, LineHolds, PullsHold, BranchesHold, TagsHold
    <2>6. /\ k \in Clone /\ k.on = 0 /\ k.main = 1 /\ k.branch = Nothing /\ k.tags = Nothing
      BY <2>3 DEF Clone, Known
    <2>7. CloneHolds(k)
      BY <2>2, <2>3, <2>6 DEF CloneHolds
    <2>8. ClonesHold
      BY <2>6, <2>7 DEF ReleaseInit, ClonesHold
    <2>9. CutsHold
      BY <2>3 DEF ReleaseInit, CutsHold, Nothing
    <2> QED
      BY <2>4, <2>5, <2>8, <2>9 DEF ReleaseInv, GitHubHolds
  <1>2. ReleaseInv /\ [ReleaseNext]_releaseVars => ReleaseInv'
    <2> SUFFICES ASSUME ReleaseInv, [ReleaseNext]_releaseVars
                 PROVE  ReleaseInv'
      OBVIOUS
    <2>1. CASE UNCHANGED releaseVars
      BY <2>1, NothingReleased
    <2>2. ASSUME NEW c \in Clones,
                 \/ preflight(c) \/ switchBranch(c) \/ rewriteChangelog(c)
                 \/ npmVersion(c) \/ fillIn(c) \/ commit(c)
          PROVE  ReleaseInv'
      BY <2>2, PreflightSafe, SwitchBranchSafe, PrepareSafe, ReleaseCommitSafe
    <2>3. ASSUME NEW c \in Clones,
                 \/ push(c) \/ openPull(c) \/ seeMerged(c) \/ mayTag(c) \/ tagHere(c)
                 \/ pushTag(c)
          PROVE  ReleaseInv'
      BY <2>3, PushSafe, OpenPullSafe, SeeMergedSafe, MayTagSafe, TagHereSafe, PushTagSafe
    <2>4. ASSUME NEW c \in Clones,
                 imagesThere(c) \/ publish(c) \/ stopCutting(c) \/ tidy(c)
          PROVE  ReleaseInv'
      BY <2>4, ImagesThereSafe, PublishSafe, StopSafe, TidySafe
    <2>5. ASSUME NEW c \in Clones, NEW v \in Versions,
                 \/ chooseVersion(c, v)
                 \/ continueTagged(c, v) \/ continuePull(c, v) \/ continueBranch(c, v)
          PROVE  ReleaseInv'
      BY <2>5, ChooseVersionSafe, ContinueTaggedSafe, ContinuePullSafe, ContinueBranchSafe
    <2>6. ASSUME NEW p \in pulls, merge(p) \/ close(p) \/ reopen(p)
          PROVE  ReleaseInv'
      BY <2>6, MergeSafe, CloseSafe
    <2>7. CASE othersWork
      BY <2>7, OthersWorkSafe
    <2>8. ASSUME NEW v \in Versions, NEW at \in 0 .. Len(mainLine), handTag(v, at)
          PROVE  ReleaseInv'
      BY <2>8, HandTagSafe
    <2>9. ASSUME NEW v \in DOMAIN builds, build(v)
          PROVE  ReleaseInv'
      BY <2>9, BuildSafe
    <2> QED
      BY <2>1, <2>2, <2>3, <2>4, <2>5, <2>6, <2>7, <2>8, <2>9 DEF ReleaseNext
  <1> QED
    BY <1>1, <1>2, PTL DEF ReleaseSpec

\* release-wizard.sh: whatever was cut short and gone on with, and whatever was
\* merged or tagged by hand meanwhile, a published version names the merge of its
\* pull request, with its images, and no version below it is without a tag.
THEOREM EveryReleaseIsAsMerged == ReleaseSpec => []ReleasedAsMerged
  <1>1. ReleaseInv => ReleasedAsMerged
    <2> SUFFICES ASSUME ReleaseInv, NEW v \in published
                 PROVE  LET sha == pushed[v].at IN
                        /\ \E p \in PullsOf(v) : p.state = "MERGED" /\ p.at = sha
                        /\ mainLine[sha].carries = v /\ "todo" \notin mainLine[sha].holds
                        /\ builds[v] = "success"
                        /\ \A i \in 1 .. sha :
                              \/ mainLine[i].carries \in {0} \cup DOMAIN pushed
                              \/ \E c \in Clones : mainLine[i].carries \in DOMAIN clone[c].tags
      BY DEF ReleasedAsMerged
    <2> PICK sha : sha = pushed[v].at
      OBVIOUS
    <2>1. v \in DOMAIN pushed /\ MergedAs(v, sha) /\ builds[v] = "success"
      BY DEF ReleaseInv, GitHubHolds, GitHubTypes, TagsHold
    <2>2. PICK p \in PullsOf(v) : p.state = "MERGED" /\ p.at = sha
      BY <2>1 DEF MergedAs
    <2>3. sha \in DOMAIN mainLine /\ mainLine[sha].carries = v /\ "todo" \notin mainLine[sha].holds
      BY <2>2 DEF PullsOf, ReleaseInv, GitHubHolds, PullsHold, PullHolds
    <2>4. /\ Len(mainLine) \in Nat
          /\ DOMAIN mainLine = 1 .. Len(mainLine) /\ Tip = mainLine[Len(mainLine)]
          /\ \A i \in DOMAIN mainLine : mainLine[i].carries \in Nat
      <3>0. mainLine \in Seq(Commit)
        BY DEF ReleaseInv, GitHubHolds, GitHubTypes
      <3>1. DOMAIN mainLine = 1 .. Len(mainLine)
        BY ONLY <3>0
      <3> QED
        BY <3>1, LineIs
    <2>5. \A i, k \in DOMAIN mainLine : i < k => mainLine[i].carries <= mainLine[k].carries
      BY DEF ReleaseInv, GitHubHolds, LineHolds
    <2>6. ASSUME NEW i \in 1 .. sha
          PROVE  Tagged(mainLine[i].carries)
      <3>1. i \in DOMAIN mainLine /\ (i = sha \/ i < sha)
        BY <2>3, <2>4
      <3>2. CASE Tagged(mainLine[i].carries)
        BY <3>2
      <3>3. CASE mainLine[i].carries = Tip.carries
        <4>1. mainLine[i].carries <= v
          BY <2>3, <2>4, <2>5, <3>1
        <4>2. Len(mainLine) \in DOMAIN mainLine /\ (sha = Len(mainLine) \/ sha < Len(mainLine))
          BY <2>3, <2>4
        <4>3. v <= mainLine[i].carries
          BY <2>3, <2>4, <2>5, <3>3, <4>2
        <4>4. mainLine[i].carries = v
          BY <2>3, <2>4, <3>1, <4>1, <4>3
        <4> QED
          BY <2>1, <4>4 DEF Tagged
      <3> QED
        BY <3>1, <3>2, <3>3 DEF ReleaseInv, GitHubHolds, LineHolds
    <2> QED
      BY <2>1, <2>2, <2>3, <2>6 DEF Tagged
  <1> QED
    BY <1>1, ReleaseInvariant, PTL
=============================================================================
