------------------------- MODULE PasswordLinksProofs -------------------------
(***************************************************************************)
(* What holds of PasswordLinks for any number of members, names, tokens,   *)
(* handlers and failures: no password without a username; and, as long as  *)
(* no call fails by itself, a link is single use, a refused password does  *)
(* not burn it, and the sessions an old password opened die.               *)
(***************************************************************************)
EXTENDS PasswordLinks, TablesProofs

\* What a handler's record says of the links minted and the usernames: a
\* redemption is for whom its link was minted, and past the first question its
\* account has a username.
JobHolds(x, minted, names) ==
    /\ x \in Job
    /\ x.pc \in {"revoke", "mint"} => x.op \in {"reset", "seed"}
    /\ x.pc = "record" => x.op # "seed"
    /\ x.pc = "record" => x.op # "signIn"
    /\ x.pc \notin {"revoke", "mint", "record", "enter"} => x.op = "set"
    /\ x.pc = "enter" => x.op = "signIn" /\ x.token # None
    /\ x.op = "set" => /\ x.token \in Tokens /\ x.name \in Names
                       /\ minted[x.token] = x.member
                       /\ x.pc # "name" => names[x.member] # None

JobsHold ==
    /\ DOMAIN job \subseteq Requests /\ job \in [DOMAIN job -> Job]
    /\ \A r \in DOMAIN job : JobHolds(job[r], mintedFor, username)

\* Links and spent tokens were minted, a link for the one it now names.
LinksHold ==
    /\ \A t \in DOMAIN link : link[t] = mintedFor[t]
    /\ \A t \in spent : mintedFor[t] # None

Inv == TypeOK /\ JobsHold /\ LinksHold /\ NoPasswordWithoutUsername

\* Nothing minted is minted again, and nobody loses a username.
NothingForgotten ==
    /\ \A t \in Tokens : mintedFor[t] # None => mintedFor'[t] = mintedFor[t]
    /\ \A m \in Members : username[m] # None => username'[m] # None

-----------------------------------------------------------------------------
\* The handlers

LEMMA JobStays ==
    ASSUME NothingForgotten, NEW x, JobHolds(x, mintedFor, username)
    PROVE  JobHolds(x, mintedFor', username')
  BY PasswordLinksAssumption DEF NothingForgotten, JobHolds, Job

LEMMA Begun ==
    ASSUME JobsHold, NothingForgotten, NEW r \in Requests \ DOMAIN job, NEW op, NEW pc,
           NEW m, NEW t, NEW n, Begin(r, op, pc, m, t, n),
           JobHolds([op |-> op, pc |-> pc, member |-> m, token |-> t, name |-> n],
                    mintedFor', username')
    PROVE  /\ JobsHold'
           /\ DOMAIN job' = DOMAIN job \cup {r}
           /\ job'[r] = [op |-> op, pc |-> pc, member |-> m, token |-> t, name |-> n]
           /\ \A s \in DOMAIN job : job'[s] = job[s]
  <1> DEFINE x == [op |-> op, pc |-> pc, member |-> m, token |-> t, name |-> n]
  <1>1. job' = Put(job, r, x) /\ JobHolds(x, mintedFor', username')
    BY DEF Begin
  <1> HIDE DEF x
  <1>2. /\ DOMAIN job' = DOMAIN job \cup {r} /\ job'[r] = x
        /\ \A s \in DOMAIN job : job'[s] = job[s]
    BY <1>1 DEF Put
  <1>3. DOMAIN job' \subseteq Requests /\ job' \in [DOMAIN job' -> Job]
    BY <1>1, Extended DEF JobsHold, JobHolds
  <1>4. ASSUME NEW s \in DOMAIN job' PROVE JobHolds(job'[s], mintedFor', username')
    <2>1. CASE s = r
      BY <1>1, <1>2, <2>1
    <2>2. CASE s \in DOMAIN job
      BY <1>2, <2>2, JobStays DEF JobsHold
    <2> QED
      BY <1>2, <2>1, <2>2
  <1> QED
    BY <1>2, <1>3, <1>4 DEF JobsHold, x

LEMMA Gone ==
    ASSUME JobsHold, NothingForgotten, NEW r \in DOMAIN job, NEW pc, GoTo(r, pc),
           JobHolds([job[r] EXCEPT !.pc = pc], mintedFor', username')
    PROVE  /\ JobsHold'
           /\ DOMAIN job' = DOMAIN job
           /\ job'[r] = [job[r] EXCEPT !.pc = pc]
           /\ job'[r].op = job[r].op /\ job'[r].pc = pc
           /\ job'[r].token = job[r].token /\ job'[r].member = job[r].member
           /\ \A s \in DOMAIN job \ {r} : job'[s] = job[s]
  <1> DEFINE x == [job[r] EXCEPT !.pc = pc]
  <1>1. job' = [job EXCEPT ![r] = x] /\ JobHolds(x, mintedFor', username')
    BY DEF GoTo
  <1>2. job[r] \in Job
    BY DEF JobsHold
  <1>3. x.op = job[r].op /\ x.pc = pc /\ x.token = job[r].token /\ x.member = job[r].member
    BY <1>2 DEF Job
  <1> HIDE DEF x
  <1>4. /\ DOMAIN job' = DOMAIN job /\ job'[r] = x /\ job' \in [DOMAIN job' -> Job]
        /\ \A s \in DOMAIN job \ {r} : job'[s] = job[s]
    BY <1>1 DEF JobsHold, JobHolds
  <1>5. ASSUME NEW s \in DOMAIN job' PROVE JobHolds(job'[s], mintedFor', username')
    <2>1. CASE s = r
      BY <1>1, <1>4, <2>1
    <2>2. CASE s # r
      BY <1>4, <2>2, JobStays DEF JobsHold
    <2> QED
      BY <2>1, <2>2
  <1> QED
    BY <1>3, <1>4, <1>5 DEF JobsHold, x

\* A redemption past the first question goes on.
LEMMA GoesOn ==
    ASSUME JobsHold, UNCHANGED <<mintedFor, username>>, NEW r \in DOMAIN job,
           job[r].op = "set", job[r].pc # "name",
           NEW pc \in {"hash", "store", "sessions", "restore", "recreate", "record"},
           GoTo(r, pc)
    PROVE  /\ JobsHold'
           /\ DOMAIN job' = DOMAIN job
           /\ job'[r].op = job[r].op /\ job'[r].pc = pc
           /\ job'[r].token = job[r].token /\ job'[r].member = job[r].member
           /\ \A s \in DOMAIN job \ {r} : job'[s] = job[s]
  <1> DEFINE x == [job[r] EXCEPT !.pc = pc]
  <1>1. JobHolds(job[r], mintedFor, username) /\ job[r] \in Job
    BY DEF JobsHold
  <1>2. x \in Job /\ x.op = job[r].op /\ x.pc = pc /\ x.token = job[r].token
        /\ x.member = job[r].member /\ x.name = job[r].name
    BY <1>1 DEF Job
  <1> HIDE DEF x
  <1>3. JobHolds(x, mintedFor', username')
    BY <1>1, <1>2 DEF JobHolds
  <1> QED
    BY <1>3, Gone DEF NothingForgotten, x

LEMMA Over ==
    ASSUME JobsHold, NothingForgotten, NEW r \in DOMAIN job, End(r)
    PROVE  /\ JobsHold'
           /\ DOMAIN job' = DOMAIN job \ {r}
           /\ \A s \in DOMAIN job' : job'[s] = job[s]
  <1>1. job' = Drop(job, r)
    BY DEF End
  <1>2. /\ DOMAIN job' = DOMAIN job \ {r}
        /\ \A s \in DOMAIN job' : job'[s] = job[s]
    BY <1>1 DEF Drop, Restrict
  <1>3. DOMAIN job' \subseteq Requests /\ job' \in [DOMAIN job' -> Job]
    BY <1>1, Dropped DEF JobsHold
  <1>4. \A s \in DOMAIN job' : JobHolds(job'[s], mintedFor', username')
    BY <1>2, JobStays DEF JobsHold
  <1> QED
    BY <1>2, <1>3, <1>4 DEF JobsHold

LEMMA AtJob ==
    ASSUME Inv, NEW r, NEW pc, At(r, pc)
    PROVE  r \in DOMAIN job /\ job[r].pc = pc /\ job[r] \in Job
           /\ JobHolds(job[r], mintedFor, username)
  BY DEF Inv, JobsHold, At

-----------------------------------------------------------------------------
\* The invariant, one operation after another

\* Everything but the handlers has its type.
DataTyped ==
    /\ DOMAIN link \subseteq Tokens
    /\ link \in [DOMAIN link -> Members]
    /\ mintedFor \in [Tokens -> Members \cup {None}]
    /\ lapsed \subseteq Tokens
    /\ username \in [Members -> AllNames]
    /\ password \in [Members -> Passwords]
    /\ sessions \in [Members -> SUBSET Session]
    /\ trail \subseteq [op: {"reset", "set"}, member: Members]
    /\ spent \subseteq Tokens
    /\ pulled \subseteq Tokens
    /\ mishaps \in Nat

LEMMA Typed ==
    ASSUME JobsHold
    PROVE  TypeOK <=> DataTyped
  BY DEF JobsHold, TypeOK, DataTyped

LEMMA TypedLater ==
    ASSUME JobsHold'
    PROVE  TypeOK' <=> DataTyped'
  BY DEF JobsHold, TypeOK, DataTyped

\* A step of a handler that touches neither links nor accounts.
LEMMA NothingElse ==
    ASSUME Inv, JobsHold', UNCHANGED <<links, accounts>>,
           trail' \subseteq [op: {"reset", "set"}, member: Members], mishaps' \in Nat
    PROVE  Inv'
  <1>1. DataTyped'
    BY DEF Inv, TypeOK, DataTyped, links, accounts
  <1> QED
    BY <1>1, TypedLater DEF Inv, LinksHold, NoPasswordWithoutUsername, links, accounts

LEMMA ResetSafe ==
    ASSUME Inv, NEW r, NEW m \in Members, resetPasswordAction(r, m) \/ seed(r, m)
    PROVE  Inv'
  <1>1. PICK op \in {"reset", "seed"} :
           /\ r \in Requests \ DOMAIN job /\ Begin(r, op, "revoke", m, None, None)
           /\ UNCHANGED <<links, accounts, trail, mishaps>>
    BY DEF resetPasswordAction, seed
  <1> DEFINE x == [op |-> op, pc |-> "revoke", member |-> m, token |-> None, name |-> None]
  <1>2. x \in Job
    BY DEF Job, Passwords
  <1>3. JobHolds(x, mintedFor', username')
    BY <1>2 DEF JobHolds
  <1>4. JobsHold'
    BY <1>1, <1>3, Begun DEF Inv, NothingForgotten, links, accounts
  <1> QED
    BY <1>1, <1>4, NothingElse DEF Inv, TypeOK

LEMMA SetPasswordSafe ==
    ASSUME Inv, NEW r, NEW t \in Tokens, NEW n \in Names, setPassword(r, t, n)
    PROVE  Inv'
  <1> DEFINE m == link[t]
             pc == IF username[m] = None THEN "name" ELSE "consume"
             x == [op |-> "set", pc |-> pc, member |-> m, token |-> t, name |-> n]
  <1>1. t \in DOMAIN link /\ m \in Members /\ m = mintedFor[t]
    BY DEF setPassword, Resolves, Inv, TypeOK, LinksHold
  <1>2. x \in Job
    BY <1>1 DEF Job, Passwords
  <1>3. JobHolds(x, mintedFor, username)
    BY <1>1, <1>2 DEF JobHolds
  <1>4. /\ r \in Requests \ DOMAIN job /\ Begin(r, "set", pc, m, t, n)
        /\ UNCHANGED <<links, accounts, trail, mishaps>>
    BY DEF setPassword
  <1>5. JobHolds(x, mintedFor', username')
    BY <1>3, <1>4 DEF links, accounts
  <1> HIDE DEF m, pc
  <1>6. JobsHold'
    BY <1>4, <1>5, Begun DEF Inv, NothingForgotten, links, accounts
  <1> QED
    BY <1>4, <1>6, NothingElse DEF Inv, TypeOK

LEMMA RevokeLinksSafe ==
    ASSUME Inv, NEW r, revokePasswordSetupLinks(r)
    PROVE  Inv'
  <1> DEFINE x == [job[r] EXCEPT !.pc = "mint"]
             kept == DOMAIN link \ LinksOf(job[r].member)
  <1>1. r \in DOMAIN job /\ job[r].pc = "revoke" /\ job[r] \in Job
        /\ JobHolds(job[r], mintedFor, username)
    BY AtJob DEF revokePasswordSetupLinks
  <1>2. x \in Job /\ x.pc = "mint" /\ x.op = job[r].op /\ x.member = job[r].member
        /\ x.token = job[r].token /\ x.name = job[r].name
    BY <1>1 DEF Job
  <1>3. UNCHANGED <<mintedFor, lapsed, username, password, sessions, spent, trail, mishaps>>
        /\ pulled' \subseteq pulled \cup Tokens /\ link' = Restrict(link, kept)
        /\ kept \subseteq DOMAIN link
    BY DEF revokePasswordSetupLinks, accounts
  <1> HIDE DEF x, kept
  <1>4. JobHolds(x, mintedFor', username')
    BY <1>1, <1>2, <1>3 DEF JobHolds
  <1>5. JobsHold'
    BY <1>1, <1>3, <1>4, Gone DEF Inv, NothingForgotten, revokePasswordSetupLinks, x
  <1>6. DOMAIN link' = kept /\ \A t \in kept : link'[t] = link[t]
    BY <1>3 DEF Restrict
  <1>7. link' \in [DOMAIN link' -> Members]
    BY <1>3, <1>6 DEF Restrict, Inv, TypeOK
  <1>8. DataTyped'
    BY <1>3, <1>6, <1>7 DEF Inv, TypeOK, DataTyped
  <1>9. LinksHold' /\ NoPasswordWithoutUsername'
    BY <1>3, <1>6 DEF Inv, LinksHold, NoPasswordWithoutUsername
  <1> QED
    BY <1>5, <1>8, <1>9, TypedLater DEF Inv

LEMMA IssueSafe ==
    ASSUME Inv, NEW r, issuePasswordSetupUrl(r)
    PROVE  Inv' /\ NothingForgotten
  <1> USE PasswordLinksAssumption
  <1> DEFINE x == [job[r] EXCEPT !.pc = "record"]
  <1>1. r \in DOMAIN job /\ job[r].pc = "mint" /\ job[r] \in Job
        /\ JobHolds(job[r], mintedFor, username)
    BY AtJob DEF issuePasswordSetupUrl
  <1>2. x \in Job /\ x.pc = "record" /\ x.op = job[r].op /\ x.member = job[r].member
        /\ x.token = job[r].token /\ x.name = job[r].name /\ job[r].member \in Members
    BY <1>1 DEF Job
  <1>3. PICK t \in Tokens : /\ mintedFor[t] = None
                            /\ mintedFor' = [mintedFor EXCEPT ![t] = job[r].member]
                            /\ link' = Put(link, t, job[r].member)
    BY DEF issuePasswordSetupUrl
  <1>4. UNCHANGED <<lapsed, pulled, username, password, sessions, spent, trail, mishaps>>
    BY DEF issuePasswordSetupUrl, accounts
  <1>5. /\ mintedFor' \in [Tokens -> Members \cup {None}] /\ mintedFor'[t] = job[r].member
        /\ \A s \in Tokens \ {t} : mintedFor'[s] = mintedFor[s]
    BY <1>2, <1>3 DEF Inv, TypeOK
  <1>6. NothingForgotten
    BY <1>3, <1>4, <1>5 DEF NothingForgotten
  <1> HIDE DEF x
  <1>7. job[r].op # "seed" => JobHolds(x, mintedFor', username')
    BY <1>1, <1>2 DEF JobHolds
  <1>8. JobsHold'
    <2>1. CASE End(r)
      BY <1>1, <1>6, <2>1, Over DEF Inv
    <2>2. CASE job[r].op # "seed" /\ GoTo(r, "record")
      BY <1>1, <1>6, <1>7, <2>2, Gone DEF Inv, x
    <2> QED
      BY <2>1, <2>2 DEF issuePasswordSetupUrl
  <1>9. /\ DOMAIN link' = DOMAIN link \cup {t} /\ link'[t] = job[r].member
        /\ \A s \in DOMAIN link \ {t} : link'[s] = link[s]
    BY <1>3 DEF Put
  <1>12. DOMAIN link \subseteq Tokens /\ link \in [DOMAIN link -> Members]
    BY DEF Inv, TypeOK
  <1>13. link' \in [DOMAIN link' -> Members]
    BY <1>2, <1>3, <1>12 DEF Put
  <1>10. DataTyped'
    BY <1>4, <1>5, <1>9, <1>13 DEF Inv, TypeOK, DataTyped
  <1>11. LinksHold' /\ NoPasswordWithoutUsername'
    BY <1>2, <1>4, <1>5, <1>9 DEF Inv, TypeOK, LinksHold, NoPasswordWithoutUsername
  <1> QED
    BY <1>6, <1>8, <1>10, <1>11, TypedLater DEF Inv

LEMMA NothingLeftSafe ==
    ASSUME Inv, NEW r, nothingLeftToMint(r)
    PROVE  Inv'
  <1>1. JobsHold'
    BY AtJob, Over DEF nothingLeftToMint, Inv, NothingForgotten, links, accounts
  <1> QED
    BY <1>1, NothingElse DEF nothingLeftToMint, Inv, TypeOK

LEMMA ClaimUsernameSafe ==
    ASSUME Inv, NEW r, claimUsername(r)
    PROVE  Inv'
  <1> USE PasswordLinksAssumption
  <1> DEFINE x == [job[r] EXCEPT !.pc = "consume"]
             m == job[r].member
             n == job[r].name
  <1>1. r \in DOMAIN job /\ job[r].pc = "name" /\ job[r] \in Job
        /\ JobHolds(job[r], mintedFor, username)
    BY AtJob DEF claimUsername
  <1>2. x \in Job /\ x.pc = "consume" /\ x.op = job[r].op /\ x.member = m
        /\ x.token = job[r].token /\ x.name = n /\ m \in Members
    BY <1>1 DEF Job
  <1>3. n \in Names /\ n # None
    BY <1>1 DEF JobHolds
  <1>4. UNCHANGED <<link, mintedFor, lapsed, pulled, password, sessions, spent, trail, mishaps>>
    BY DEF claimUsername, links
  <1>5. CASE End(r) /\ UNCHANGED username
    <2>1. JobsHold'
      BY <1>1, <1>4, <1>5, Over DEF Inv, NothingForgotten
    <2> QED
      BY <1>4, <1>5, <2>1, NothingElse DEF Inv, TypeOK, links, accounts
  <1>6. CASE username' = [username EXCEPT ![m] = n] /\ GoTo(r, "consume")
    <2>1. username' \in [Members -> AllNames] /\ username'[m] = n
          /\ \A y \in Members \ {m} : username'[y] = username[y]
      BY <1>2, <1>3, <1>6 DEF Inv, TypeOK, AllNames
    <2>2. NothingForgotten
      BY <1>3, <1>4, <2>1 DEF NothingForgotten
    <2> HIDE DEF x, n
    <2>3. JobHolds(x, mintedFor', username')
      BY <1>1, <1>2, <1>3, <1>4, <2>1 DEF JobHolds
    <2>4. JobsHold'
      BY <1>1, <1>6, <2>2, <2>3, Gone DEF Inv, x
    <2>5. DataTyped'
      BY <1>4, <2>1 DEF Inv, TypeOK, DataTyped
    <2>6. LinksHold' /\ NoPasswordWithoutUsername'
      BY <1>3, <1>4, <2>1 DEF Inv, LinksHold, NoPasswordWithoutUsername
    <2> QED
      BY <2>4, <2>5, <2>6, TypedLater DEF Inv
  <1> QED
    BY <1>5, <1>6 DEF claimUsername

LEMMA ConsumeTokenSafe ==
    ASSUME Inv, NEW r, consumeToken(r)
    PROVE  Inv'
  <1>1. r \in DOMAIN job /\ job[r].pc = "consume" /\ job[r].op = "set"
    BY AtJob DEF consumeToken, JobHolds
  <1>2. UNCHANGED <<mintedFor, lapsed, pulled, username, password, sessions, spent, trail, mishaps>>
    BY DEF consumeToken, accounts
  <1>3. JobsHold'
    <2>1. CASE GoTo(r, "hash")
      BY <1>1, <1>2, <2>1, GoesOn DEF Inv
    <2>2. CASE End(r)
      BY <1>1, <1>2, <2>2, Over DEF Inv, NothingForgotten
    <2> QED
      BY <2>1, <2>2 DEF consumeToken
  <1>4. /\ DOMAIN link \subseteq Tokens /\ link \in [DOMAIN link -> Members]
        /\ link' = link \/ link' = Drop(link, job[r].token)
    BY DEF consumeToken, Inv, TypeOK
  <1>5. /\ DOMAIN link' \subseteq DOMAIN link /\ \A t \in DOMAIN link' : link'[t] = link[t]
        /\ link' \in [DOMAIN link' -> Members]
    BY <1>4 DEF Drop, Restrict
  <1>6. DataTyped'
    BY <1>2, <1>5 DEF Inv, TypeOK, DataTyped
  <1>7. LinksHold' /\ NoPasswordWithoutUsername'
    BY <1>2, <1>5 DEF Inv, LinksHold, NoPasswordWithoutUsername
  <1> QED
    BY <1>3, <1>6, <1>7, TypedLater DEF Inv

LEMMA CheckPasswordSafe ==
    ASSUME Inv, NEW r, checkPassword(r)
    PROVE  Inv'
  <1>1. r \in DOMAIN job /\ job[r].pc = "hash" /\ job[r].op = "set"
    BY AtJob DEF checkPassword, JobHolds
  <1>2. JobsHold'
    BY <1>1, GoesOn DEF checkPassword, Inv, links, accounts
  <1> QED
    BY <1>2, NothingElse DEF checkPassword, Inv, TypeOK

LEMMA StorePasswordSafe ==
    ASSUME Inv, NEW r, storePassword(r)
    PROVE  Inv'
  <1> USE PasswordLinksAssumption
  <1>1. r \in DOMAIN job /\ job[r].pc = "store" /\ job[r].op = "set"
        /\ job[r].member \in Members /\ job[r].token \in Tokens
        /\ username[job[r].member] # None /\ mintedFor[job[r].token] = job[r].member
    BY AtJob DEF storePassword, JobHolds, Job
  <1>2. UNCHANGED <<links, username, sessions, trail, mishaps>>
    BY DEF storePassword
  <1>3. JobsHold'
    BY <1>1, <1>2, GoesOn DEF storePassword, Inv, links
  <1>4. /\ password' \in [Members -> Passwords]
        /\ \A m \in Members \ {job[r].member} : password'[m] = password[m]
    BY <1>1 DEF storePassword, Inv, TypeOK, Passwords
  <1>5. spent' = spent \cup {job[r].token}
    BY DEF storePassword
  <1>6. DataTyped'
    BY <1>1, <1>2, <1>4, <1>5 DEF Inv, TypeOK, DataTyped, links
  <1>7. LinksHold' /\ NoPasswordWithoutUsername'
    BY <1>1, <1>2, <1>4, <1>5 DEF Inv, LinksHold, NoPasswordWithoutUsername, links
  <1> QED
    BY <1>3, <1>6, <1>7, TypedLater DEF Inv

LEMMA RevokeSessionsSafe ==
    ASSUME Inv, NEW r, revokeSessions(r)
    PROVE  Inv'
  <1>1. r \in DOMAIN job /\ job[r].pc = "sessions" /\ job[r].op = "set"
    BY AtJob DEF revokeSessions, JobHolds
  <1>2. UNCHANGED <<links, username, password, spent, trail, mishaps>>
        /\ sessions' = [sessions EXCEPT ![job[r].member] = {}]
    BY DEF revokeSessions
  <1>3. JobsHold'
    BY <1>1, <1>2, GoesOn DEF revokeSessions, Inv, links
  <1>4. DataTyped'
    BY <1>2 DEF Inv, TypeOK, DataTyped, links
  <1>5. LinksHold' /\ NoPasswordWithoutUsername'
    BY <1>2 DEF Inv, LinksHold, NoPasswordWithoutUsername, links
  <1> QED
    BY <1>3, <1>4, <1>5, TypedLater DEF Inv

LEMMA LookForLinkSafe ==
    ASSUME Inv, NEW r, lookForLink(r)
    PROVE  Inv'
  <1>1. r \in DOMAIN job /\ job[r].pc = "restore" /\ job[r].op = "set"
    BY AtJob DEF lookForLink, JobHolds
  <1>2. JobsHold'
    BY <1>1, GoesOn, Over DEF lookForLink, Inv, links, accounts, NothingForgotten
  <1> QED
    BY <1>2, NothingElse DEF lookForLink, Inv, TypeOK

LEMMA RecreateLinkSafe ==
    ASSUME Inv, NEW r, recreateLink(r)
    PROVE  Inv'
  <1>1. r \in DOMAIN job /\ job[r].pc = "recreate" /\ job[r].op = "set"
        /\ job[r].member \in Members /\ job[r].token \in Tokens
        /\ mintedFor[job[r].token] = job[r].member
    BY AtJob DEF recreateLink, JobHolds, Job
  <1>2. UNCHANGED <<mintedFor, lapsed, pulled, username, password, sessions, spent, trail, mishaps>>
        /\ link' = Put(link, job[r].token, job[r].member)
    BY DEF recreateLink, accounts
  <1>3. JobsHold'
    BY <1>1, <1>2, Over DEF recreateLink, Inv, NothingForgotten
  <1>4. DOMAIN link \subseteq Tokens /\ link \in [DOMAIN link -> Members]
    BY DEF Inv, TypeOK
  <1>5. DOMAIN link' \subseteq Tokens /\ link' \in [DOMAIN link' -> Members]
    BY <1>1, <1>2, <1>4 DEF Put
  <1>6. DataTyped'
    BY <1>2, <1>5 DEF Inv, TypeOK, DataTyped
  <1>7. LinksHold' /\ NoPasswordWithoutUsername'
    BY <1>1, <1>2 DEF Inv, LinksHold, NoPasswordWithoutUsername, Put
  <1> QED
    BY <1>3, <1>6, <1>7, TypedLater DEF Inv

LEMMA RecordSafe ==
    ASSUME Inv, NEW r, record(r)
    PROVE  Inv'
  <1>1. r \in DOMAIN job /\ job[r].op \in {"reset", "set"} /\ job[r].member \in Members
    BY AtJob DEF record, JobHolds, Job
  <1>2. JobsHold'
    BY <1>1, Over DEF record, Inv, NothingForgotten, links, accounts
  <1> QED
    BY <1>1, <1>2, NothingElse DEF record, Inv, TypeOK

-----------------------------------------------------------------------------
\* What happens by itself, and what goes wrong

LEMMA LapseSafe ==
    ASSUME Inv, NEW t \in Tokens, lapse(t)
    PROVE  Inv'
  BY DEF Inv, TypeOK, JobsHold, LinksHold, NoPasswordWithoutUsername, lapse, accounts

LEMMA SignInSafe ==
    ASSUME Inv, NEW r, NEW m \in Members, signInAs(r, m)
    PROVE  Inv'
  <1> DEFINE p == password[m]
             x == [op |-> "signIn", pc |-> "enter", member |-> m, token |-> p, name |-> None]
  <1>1. /\ r \in Requests \ DOMAIN job /\ Begin(r, "signIn", "enter", m, p, None)
        /\ UNCHANGED <<links, accounts, trail, mishaps>>
        /\ p \in Passwords /\ p # None
    BY DEF signInAs, Inv, TypeOK
  <1> HIDE DEF p
  <1>2. x \in Job
    BY <1>1 DEF Job
  <1>3. JobHolds(x, mintedFor', username')
    BY <1>1, <1>2 DEF JobHolds
  <1>4. JobsHold'
    BY <1>1, <1>3, Begun DEF Inv, NothingForgotten, links, accounts
  <1> QED
    BY <1>1, <1>4, NothingElse DEF Inv, TypeOK

LEMMA CreateSessionSafe ==
    ASSUME Inv, NEW r, createSession(r)
    PROVE  Inv'
  <1>1. r \in DOMAIN job /\ job[r].op = "signIn"
        /\ job[r].member \in Members /\ job[r].token \in Passwords \ {None}
    BY AtJob DEF createSession, JobHolds, Job
  <1>2. UNCHANGED <<links, username, password, spent, trail, mishaps>>
    BY DEF createSession
  <1>3. JobsHold'
    BY <1>1, <1>2, Over DEF createSession, Inv, NothingForgotten, links
  <1>4. PICK late \in BOOLEAN : sessions' =
           [sessions EXCEPT ![job[r].member] = @ \cup {[password |-> job[r].token, late |-> late]}]
    BY DEF createSession
  <1>5. [password |-> job[r].token, late |-> late] \in Session
    BY <1>1 DEF Session
  <1>6. sessions' \in [Members -> SUBSET Session]
    BY <1>1, <1>4, <1>5 DEF Inv, TypeOK
  <1>7. DataTyped'
    BY <1>2, <1>6 DEF Inv, TypeOK, DataTyped, links
  <1>8. LinksHold' /\ NoPasswordWithoutUsername'
    BY <1>2 DEF Inv, LinksHold, NoPasswordWithoutUsername, links
  <1> QED
    BY <1>3, <1>7, <1>8, TypedLater DEF Inv

LEMMA FailSafe ==
    ASSUME Inv, NEW r, fail(r)
    PROVE  Inv'
  <1>1. JobsHold'
    <2>1. CASE job[r].pc \in {"consume", "hash", "store", "sessions"} /\ GoTo(r, "restore")
      <3>1. r \in DOMAIN job /\ job[r].op = "set"
        BY <2>1 DEF fail, Inv, JobsHold, JobHolds
      <3> QED
        BY <2>1, <3>1, GoesOn DEF fail, Inv, links, accounts
    <2>2. CASE End(r)
      BY <2>2, Over DEF fail, Inv, NothingForgotten, links, accounts
    <2> QED
      BY <2>1, <2>2 DEF fail
  <1> QED
    BY <1>1, NothingElse DEF fail, Inv, TypeOK

LEMMA CrashSafe ==
    ASSUME Inv, crash
    PROVE  Inv'
  <1>1. JobsHold'
    BY DEF crash, JobsHold, Nothing
  <1> QED
    BY <1>1, NothingElse DEF crash, Inv, TypeOK

LEMMA InitSafe ==
    ASSUME Init
    PROVE  Inv
  BY PasswordLinksAssumption
     DEF Init, Inv, TypeOK, JobsHold, LinksHold, NoPasswordWithoutUsername, Nothing,
         AllNames, Passwords

LEMMA StepSafe ==
    ASSUME Inv, [Next]_vars
    PROVE  Inv'
  <1>1. ASSUME NEW r \in Requests, Arrive(r)
        PROVE  Inv'
    BY <1>1, ResetSafe, SetPasswordSafe, SignInSafe DEF Arrive
  <1>2. ASSUME NEW r \in Requests, Proceed(r)
        PROVE  Inv'
    BY <1>2, RevokeLinksSafe, IssueSafe, NothingLeftSafe, ClaimUsernameSafe,
       ConsumeTokenSafe, CheckPasswordSafe, StorePasswordSafe, RevokeSessionsSafe,
       LookForLinkSafe, RecreateLinkSafe, RecordSafe, CreateSessionSafe DEF Proceed
  <1>3. CASE UNCHANGED vars
    BY <1>3 DEF vars, Inv, TypeOK, JobsHold, LinksHold, NoPasswordWithoutUsername
  <1> QED
    BY <1>1, <1>2, <1>3, FailSafe, LapseSafe, CrashSafe DEF Next

\* The invariant on which the rest stands.
THEOREM LinksInvariant == Spec => []Inv
  <1>1. Init => Inv
    BY InitSafe
  <1>2. Inv /\ [Next]_vars => Inv'
    BY StepSafe
  <1> QED
    BY <1>1, <1>2, PTL DEF Spec

\* Everything has its type.
THEOREM LinksTyped == Spec => []TypeOK
  <1>1. Inv => TypeOK
    BY DEF Inv
  <1> QED
    BY <1>1, LinksInvariant, PTL

\* set-password/actions.ts, setPassword: "there is no moment where an account
\* has a password and no way to sign in with it".
THEOREM PasswordNeedsUsername == Spec => []NoPasswordWithoutUsername
  <1>1. Inv => NoPasswordWithoutUsername
    BY DEF Inv
  <1> QED
    BY <1>1, LinksInvariant, PTL

-----------------------------------------------------------------------------
\* As long as no call fails by itself, a link is in one place: in the table, in
\* the hands of the one redemption that consumed it, or spent.

Held(x) == x.pc \in {"hash", "store", "restore", "recreate"}

Exclusive ==
    /\ \A t \in spent : t \notin DOMAIN link
    /\ \A r \in DOMAIN job : Held(job[r]) => job[r].token \notin DOMAIN link \cup spent
    /\ \A r, s \in DOMAIN job :
          Held(job[r]) /\ Held(job[s]) /\ job[r].token = job[s].token => r = s
    /\ \A r \in DOMAIN job : job[r].pc = "sessions" => job[r].token \in spent

\* None is lost: unless taken away by a later reset.
Accounted ==
    \A t \in Tokens : \/ mintedFor[t] = None
                      \/ t \in DOMAIN link \cup spent \cup pulled
                      \/ \E r \in DOMAIN job : Held(job[r]) /\ job[r].token = t

\* Sessions of another password wait for the redemption that stored this one,
\* but for those inserted when it was over.
Current ==
    \A m \in Members :
        Revoking(m) \/ \A s \in sessions[m] : s.late \/ s.password = password[m]

Whole == Exclusive /\ Accounted /\ Current

\* A step in which no handler takes or gives up a link.
LEMMA Calm ==
    ASSUME Inv, Whole, UNCHANGED <<mintedFor, spent, password>>,
           \A t \in DOMAIN link : t \in DOMAIN link' \cup pulled',
           DOMAIN link' \subseteq DOMAIN link, pulled \subseteq pulled',
           \A m \in Members : Revoking(m) \/ \A s \in sessions'[m] :
               s \in sessions[m] \/ s.late \/ s.password = password[m],
           \A r \in DOMAIN job' : Held(job'[r]) \/ job'[r].pc = "sessions" =>
               r \in DOMAIN job /\ (Held(job'[r]) => Held(job[r]))
               /\ (job'[r].pc = "sessions" => job[r].pc = "sessions")
               /\ job'[r].token = job[r].token,
           \A r \in DOMAIN job : Held(job[r]) \/ job[r].pc = "sessions" =>
               /\ r \in DOMAIN job'
               /\ job'[r].token = job[r].token /\ job'[r].member = job[r].member
               /\ Held(job[r]) => Held(job'[r])
               /\ job[r].pc = "sessions" => job'[r].pc = "sessions"
    PROVE  Whole'
  <1>1. Exclusive'
    BY DEF Whole, Exclusive
  <1>2. Accounted'
    BY DEF Whole, Accounted
  <1>3. Current'
    BY DEF Whole, Current, Revoking
  <1> QED
    BY <1>1, <1>2, <1>3 DEF Whole

LEMMA CalmBegin ==
    ASSUME Inv, Whole, UNCHANGED <<links, accounts>>,
           NEW r \in Requests \ DOMAIN job, NEW op, NEW pc \in {"revoke", "name", "consume", "enter"},
           NEW m, NEW t, NEW n, Begin(r, op, pc, m, t, n)
    PROVE  Whole'
  <1>1. /\ DOMAIN job' = DOMAIN job \cup {r} /\ job'[r].pc = pc
        /\ \A s \in DOMAIN job : job'[s] = job[s]
    BY DEF Begin, Put
  <1> QED
    BY <1>1, Calm DEF Held, links, accounts

LEMMA CalmEnd ==
    ASSUME Inv, Whole, UNCHANGED <<links, accounts>>, NEW r \in DOMAIN job,
           ~Held(job[r]), job[r].pc # "sessions", End(r)
    PROVE  Whole'
  <1>1. DOMAIN job' = DOMAIN job \ {r} /\ \A s \in DOMAIN job' : job'[s] = job[s]
    BY DEF End, Drop, Restrict
  <1> QED
    BY <1>1, Calm DEF links, accounts

LEMMA RevokeLinksWhole ==
    ASSUME Inv, Whole, NEW r, revokePasswordSetupLinks(r)
    PROVE  Whole'
  <1> DEFINE m == job[r].member
  <1>1. r \in DOMAIN job /\ job[r].pc = "revoke" /\ job[r] \in Job
    BY AtJob DEF revokePasswordSetupLinks
  <1>2. /\ DOMAIN job' = DOMAIN job /\ job'[r].pc = "mint"
        /\ \A s \in DOMAIN job \ {r} : job'[s] = job[s]
    BY <1>1 DEF revokePasswordSetupLinks, GoTo, Job
  <1>3. DOMAIN link' = DOMAIN link \ LinksOf(m) /\ pulled \subseteq pulled'
        /\ UNCHANGED <<mintedFor, spent, password, sessions>>
    BY DEF revokePasswordSetupLinks, Restrict, accounts
  <1>4. \A t \in LinksOf(m) : t \in pulled'
    BY DEF revokePasswordSetupLinks, LinksOf, Inv, LinksHold, TypeOK
  <1> HIDE DEF m
  <1>5. \A t \in DOMAIN link : t \in DOMAIN link' \cup pulled'
    BY <1>3, <1>4
  <1> QED
    BY <1>1, <1>2, <1>3, <1>5, Calm DEF Held

\* A new token is nobody's yet.
LEMMA IssueWhole ==
    ASSUME Inv, Whole, NEW r, issuePasswordSetupUrl(r)
    PROVE  Whole'
  <1> USE PasswordLinksAssumption
  <1>1. r \in DOMAIN job /\ job[r].pc = "mint" /\ job[r] \in Job /\ job[r].member \in Members
    BY AtJob DEF issuePasswordSetupUrl, Job
  <1>2. PICK t \in Tokens : /\ mintedFor[t] = None
                            /\ mintedFor' = [mintedFor EXCEPT ![t] = job[r].member]
                            /\ link' = Put(link, t, job[r].member)
    BY DEF issuePasswordSetupUrl
  <1>3. DOMAIN link' = DOMAIN link \cup {t} /\ \A s \in Tokens \ {t} : mintedFor'[s] = mintedFor[s]
    BY <1>2 DEF Put, Inv, TypeOK
  <1>4. UNCHANGED <<pulled, spent, password, sessions>>
    BY DEF issuePasswordSetupUrl, accounts
  <1>5. /\ DOMAIN job' \subseteq DOMAIN job
        /\ r \in DOMAIN job' => job'[r].pc = "record"
        /\ \A s \in DOMAIN job \ {r} : s \in DOMAIN job' /\ job'[s] = job[s]
    BY <1>1 DEF issuePasswordSetupUrl, GoTo, End, Drop, Restrict, Job
  <1>6. \A s \in DOMAIN job : Held(job[s]) => job[s].token # t
    BY <1>2 DEF Inv, JobsHold, JobHolds, Held, Job
  <1>7. t \notin spent
    BY <1>2 DEF Inv, LinksHold
  <1>8. Exclusive'
    BY <1>3, <1>4, <1>5, <1>6, <1>7 DEF Whole, Exclusive, Held
  <1>9. Accounted'
    BY <1>1, <1>3, <1>4, <1>5 DEF Whole, Accounted, Held
  <1>10. Current'
    BY <1>1, <1>4, <1>5 DEF Whole, Current, Revoking
  <1> QED
    BY <1>8, <1>9, <1>10 DEF Whole

\* Only one redemption gets the token.
LEMMA ConsumeWhole ==
    ASSUME Inv, Whole, NEW r, consumeToken(r)
    PROVE  Whole'
  <1>1. r \in DOMAIN job /\ job[r].pc = "consume" /\ job[r].op = "set"
    BY AtJob DEF consumeToken, JobHolds
  <1>2. UNCHANGED <<mintedFor, pulled, spent, password, sessions>>
    BY DEF consumeToken, accounts
  <1>3. CASE End(r) /\ UNCHANGED link
    BY <1>1, <1>3, CalmEnd DEF Held, consumeToken, links
  <1>4. CASE job[r].token \in DOMAIN link /\ link' = Drop(link, job[r].token) /\ GoTo(r, "hash")
    <2>1. /\ DOMAIN job' = DOMAIN job /\ job'[r].pc = "hash" /\ job'[r].token = job[r].token
          /\ \A s \in DOMAIN job \ {r} : job'[s] = job[s]
      BY <1>1, <1>2, <1>4, GoesOn DEF Inv, consumeToken, accounts
    <2>2. DOMAIN link' = DOMAIN link \ {job[r].token}
      BY <1>4 DEF Drop, Restrict
    <2>3. Exclusive'
      BY <1>1, <1>2, <1>4, <2>1, <2>2 DEF Whole, Exclusive, Held
    <2>4. Accounted'
      BY <1>1, <1>2, <2>1, <2>2 DEF Whole, Accounted, Held
    <2>5. Current'
      BY <1>1, <1>2, <2>1 DEF Whole, Current, Revoking
    <2> QED
      BY <2>3, <2>4, <2>5 DEF Whole
  <1> QED
    BY <1>3, <1>4 DEF consumeToken, Resolves

LEMMA CheckWhole ==
    ASSUME Inv, Whole, NEW r, checkPassword(r)
    PROVE  Whole'
  <1>1. r \in DOMAIN job /\ job[r].pc = "hash" /\ job[r].op = "set"
    BY AtJob DEF checkPassword, JobHolds
  <1>2. /\ DOMAIN job' = DOMAIN job /\ job'[r].pc \in {"store", "restore"}
        /\ job'[r].token = job[r].token /\ job'[r].member = job[r].member
        /\ \A s \in DOMAIN job \ {r} : job'[s] = job[s]
    BY <1>1, GoesOn DEF Inv, checkPassword, links, accounts
  <1> QED
    BY <1>1, <1>2, Calm DEF checkPassword, Held, links, accounts

LEMMA StoreWhole ==
    ASSUME Inv, Whole, NEW r, storePassword(r)
    PROVE  Whole'
  <1>1. r \in DOMAIN job /\ job[r].pc = "store" /\ job[r].op = "set"
        /\ job[r].token \in Tokens /\ job[r].member \in Members
    BY AtJob DEF storePassword, JobHolds, Job
  <1>2. UNCHANGED <<link, mintedFor, pulled, sessions>> /\ spent' = spent \cup {job[r].token}
    BY DEF storePassword, links
  <1>3. /\ DOMAIN job' = DOMAIN job /\ job'[r].pc = "sessions"
        /\ job'[r].token = job[r].token /\ job'[r].member = job[r].member
        /\ \A s \in DOMAIN job \ {r} : job'[s] = job[s]
    BY <1>1, GoesOn DEF Inv, storePassword, links
  <1>4. \A m \in Members \ {job[r].member} : password'[m] = password[m]
    BY DEF storePassword, Inv, TypeOK
  <1>5. Exclusive'
    BY <1>1, <1>2, <1>3 DEF Whole, Exclusive, Held
  <1>6. Accounted'
    BY <1>1, <1>2, <1>3 DEF Whole, Accounted, Held
  <1>7. Current'
    BY <1>1, <1>2, <1>3, <1>4 DEF Whole, Current, Revoking
  <1> QED
    BY <1>5, <1>6, <1>7 DEF Whole

LEMMA RevokeSessionsWhole ==
    ASSUME Inv, Whole, NEW r, revokeSessions(r)
    PROVE  Whole'
  <1>1. r \in DOMAIN job /\ job[r].pc = "sessions" /\ job[r].op = "set"
        /\ job[r].member \in Members
    BY AtJob DEF revokeSessions, JobHolds, Job
  <1>2. UNCHANGED <<link, mintedFor, pulled, spent, password>>
    BY DEF revokeSessions, links
  <1>3. /\ DOMAIN job' = DOMAIN job /\ job'[r].pc = "record"
        /\ \A s \in DOMAIN job \ {r} : job'[s] = job[s]
    BY <1>1, GoesOn DEF Inv, revokeSessions, links
  <1>4. sessions'[job[r].member] = {}
        /\ \A m \in Members \ {job[r].member} : sessions'[m] = sessions[m]
    BY <1>1 DEF revokeSessions, Inv, TypeOK
  <1>5. Exclusive'
    BY <1>1, <1>2, <1>3 DEF Whole, Exclusive, Held
  <1>6. Accounted'
    BY <1>1, <1>2, <1>3 DEF Whole, Accounted, Held
  <1>7. Current'
    BY <1>1, <1>2, <1>3, <1>4 DEF Whole, Current, Revoking
  <1> QED
    BY <1>5, <1>6, <1>7 DEF Whole

\* The link a redemption holds is not in the table, so it goes on to put it back.
LEMMA LookWhole ==
    ASSUME Inv, Whole, NEW r, lookForLink(r)
    PROVE  Whole'
  <1>1. r \in DOMAIN job /\ job[r].pc = "restore" /\ job[r].op = "set"
    BY AtJob DEF lookForLink, JobHolds
  <1>2. GoTo(r, "recreate")
    BY <1>1 DEF lookForLink, Whole, Exclusive, Held
  <1>3. /\ DOMAIN job' = DOMAIN job /\ job'[r].pc = "recreate"
        /\ job'[r].token = job[r].token /\ job'[r].member = job[r].member
        /\ \A s \in DOMAIN job \ {r} : job'[s] = job[s]
    BY <1>1, <1>2, GoesOn DEF Inv, lookForLink, links, accounts
  <1> QED
    BY <1>1, <1>3, Calm DEF lookForLink, Held, links, accounts

LEMMA RecreateWhole ==
    ASSUME Inv, Whole, NEW r, recreateLink(r)
    PROVE  Whole'
  <1>1. r \in DOMAIN job /\ job[r].pc = "recreate"
    BY DEF recreateLink, At
  <1>2. UNCHANGED <<mintedFor, pulled, password, sessions, spent>>
        /\ DOMAIN link' = DOMAIN link \cup {job[r].token}
    BY DEF recreateLink, accounts, Put
  <1>3. DOMAIN job' = DOMAIN job \ {r} /\ \A s \in DOMAIN job' : job'[s] = job[s]
    BY DEF recreateLink, End, Drop, Restrict
  <1>4. Exclusive'
    BY <1>1, <1>2, <1>3 DEF Whole, Exclusive, Held
  <1>5. Accounted'
    BY <1>1, <1>2, <1>3 DEF Whole, Accounted, Held
  <1>6. Current'
    BY <1>1, <1>2, <1>3 DEF Whole, Current, Revoking
  <1> QED
    BY <1>4, <1>5, <1>6 DEF Whole

LEMMA ClaimWhole ==
    ASSUME Inv, Whole, NEW r, claimUsername(r)
    PROVE  Whole'
  <1>1. r \in DOMAIN job /\ job[r].pc = "name" /\ job[r] \in Job
    BY AtJob DEF claimUsername
  <1>2. UNCHANGED <<link, mintedFor, pulled, password, sessions, spent>>
    BY DEF claimUsername, links
  <1>3. /\ DOMAIN job' \subseteq DOMAIN job
        /\ r \in DOMAIN job' => job'[r].pc = "consume"
        /\ \A s \in DOMAIN job \ {r} : s \in DOMAIN job' /\ job'[s] = job[s]
    BY <1>1 DEF claimUsername, GoTo, End, Drop, Restrict, Job
  <1> QED
    BY <1>1, <1>2, <1>3, Calm DEF Held

\* A session is of the password of the moment, or is still to be deleted, or late.
LEMMA CreateSessionWhole ==
    ASSUME Inv, Whole, NEW r, createSession(r)
    PROVE  Whole'
  <1> DEFINE m == job[r].member
             p == job[r].token
             late == password[m] # p /\ ~Revoking(m)
             new == [password |-> p, late |-> late]
  <1>1. r \in DOMAIN job /\ job[r].pc = "enter" /\ m \in Members
    BY AtJob DEF createSession, Job
  <1>2. sessions' = [sessions EXCEPT ![m] = @ \cup {new}]
        /\ UNCHANGED <<links, password, spent>>
    BY DEF createSession
  <1>3. DOMAIN job' = DOMAIN job \ {r} /\ \A s \in DOMAIN job' : job'[s] = job[s]
    BY DEF createSession, End, Drop, Restrict
  <1>4. Revoking(m) \/ new.late \/ new.password = password[m]
    OBVIOUS
  <1> HIDE DEF m, new
  <1>5. sessions'[m] = sessions[m] \cup {new}
        /\ \A x \in Members \ {m} : sessions'[x] = sessions[x]
    BY <1>1, <1>2 DEF Inv, TypeOK
  <1>6. \A x \in Members : Revoking(x) \/ \A s \in sessions'[x] :
           s \in sessions[x] \/ s.late \/ s.password = password[x]
    BY <1>4, <1>5
  <1> QED
    BY <1>1, <1>2, <1>3, <1>6, Calm DEF Held, links

LEMMA WholeStep ==
    ASSUME Inv, mishaps = 0 => Whole, [Next]_vars
    PROVE  mishaps' = 0 => Whole'
  <1>1. ASSUME mishaps = 0, NEW r \in Requests, Arrive(r)
        PROVE  Whole'
    BY <1>1, CalmBegin DEF Arrive, resetPasswordAction, seed, setPassword, signInAs
  <1>2. ASSUME mishaps = 0, NEW r \in Requests, nothingLeftToMint(r) \/ record(r)
        PROVE  Whole'
    BY <1>2, CalmEnd DEF nothingLeftToMint, record, At, Held
  <1>3. ASSUME mishaps = 0, NEW r \in Requests, Proceed(r)
        PROVE  Whole'
    BY <1>2, <1>3, RevokeLinksWhole, IssueWhole, ClaimWhole, ConsumeWhole, CheckWhole,
       StoreWhole, RevokeSessionsWhole, LookWhole, RecreateWhole, CreateSessionWhole DEF Proceed
  <1>4. ASSUME mishaps = 0, NEW t \in Tokens, lapse(t)
        PROVE  Whole'
    BY <1>4 DEF Whole, Exclusive, Accounted, Current, Revoking, lapse, accounts
  <1>5. ASSUME mishaps = 0, UNCHANGED vars
        PROVE  Whole'
    BY <1>5 DEF Whole, Exclusive, Accounted, Current, Revoking, vars
  <1>6. ASSUME NEW r, fail(r) \/ crash
        PROVE  mishaps' # 0
    BY <1>6 DEF fail, crash, Inv, TypeOK
  <1>7. CASE \E r \in Requests : fail(r)
    BY <1>6, <1>7
  <1>8. CASE crash
    BY <1>6, <1>8
  <1>9. CASE UNCHANGED mishaps
    <2>1. SUFFICES ASSUME mishaps = 0
                   PROVE  Whole'
      BY <1>9
    <2>2. CASE \E r \in Requests : Arrive(r) \/ Proceed(r)
      BY <1>1, <1>3, <2>1, <2>2
    <2>3. CASE \E t \in Tokens : lapse(t)
      BY <1>4, <2>1, <2>3
    <2> QED
      BY <1>5, <1>7, <1>8, <1>9, <2>1, <2>2, <2>3 DEF Next
  <1>10. ASSUME NEW r \in Requests, Arrive(r) \/ Proceed(r)
         PROVE  UNCHANGED mishaps
    <2>1. CASE Arrive(r)
      BY <2>1 DEF Arrive, resetPasswordAction, seed, setPassword, signInAs
    <2>2. CASE \/ revokePasswordSetupLinks(r) \/ issuePasswordSetupUrl(r)
               \/ nothingLeftToMint(r) \/ claimUsername(r) \/ consumeToken(r)
               \/ checkPassword(r)
      BY <2>2 DEF revokePasswordSetupLinks, issuePasswordSetupUrl, nothingLeftToMint,
                  claimUsername, consumeToken, checkPassword
    <2>3. CASE \/ storePassword(r) \/ revokeSessions(r) \/ lookForLink(r)
               \/ recreateLink(r) \/ record(r) \/ createSession(r)
      BY <2>3 DEF storePassword, revokeSessions, lookForLink, recreateLink, record,
                  createSession
    <2> QED
      BY <1>10, <2>1, <2>2, <2>3 DEF Proceed
  <1>11. CASE (\E t \in Tokens : lapse(t)) \/ UNCHANGED vars
    BY <1>9, <1>11 DEF lapse, vars
  <1> QED
    BY <1>7, <1>8, <1>9, <1>10, <1>11 DEF Next

\* The induction for the properties of a link's one life.
LEMMA WholeAlways == Spec => [](Inv /\ (mishaps = 0 => Whole))
  <1>1. Init => Whole
    BY DEF Init, Whole, Exclusive, Accounted, Current, Nothing
  <1>2. Inv /\ (mishaps = 0 => Whole) /\ [Next]_vars => (mishaps = 0 => Whole)'
    BY WholeStep
  <1> QED
    BY <1>1, <1>2, LinksInvariant, PTL DEF Spec

\* /reset-password consumes the token, setPassword restores it only for the one
\* that was refused: "single use", whatever redemptions overlap.
THEOREM SingleUse == Spec => []SpentLinkIsGone
  <1>1. Inv /\ (mishaps = 0 => Whole) => SpentLinkIsGone
    BY DEF Whole, Exclusive, Held, SpentLinkIsGone
  <1> QED
    BY <1>1, WholeAlways, PTL

\* restorePasswordSetupLink: a refused password does not burn the link.
THEOREM RefusalIsNoLoss == Spec => []RefusedLinkComesBack
  <1>1. Inv /\ (mishaps = 0 => Whole) => RefusedLinkComesBack
    BY DEF Whole, Accounted, Held, RefusedLinkComesBack, Redeeming
  <1> QED
    BY <1>1, WholeAlways, PTL

\* revokeSessionsOnPasswordReset: once no redemption is between its store and its
\* deletion, only sessions of the password of the moment are left, and those that
\* a sign-in let through before the store inserted after the deletion.
THEOREM NewPasswordEndsOldSessions == Spec => []OldSessionsDie
  <1>1. Inv /\ (mishaps = 0 => Whole) => OldSessionsDie
    BY DEF Whole, Current, OldSessionsDie
  <1> QED
    BY <1>1, WholeAlways, PTL
=============================================================================
