# Verification of Pretty Please Print

TLA+ models of this repository's operations, checked by TLC on small instances,
and theorems about them proved by TLAPS for every value of the constants.
Paths below are relative to the repository's root.

## 1. The system

A web application (Next.js, one Node process, PostgreSQL, a directory of model
files) in which the people of one office ask the owner of one 3D printer to
print something. Nearly every operation is a *handler*: it reads rows, checks
what it read, and then does its writes one `await` at a time, usually the
change, the notification and the audit row. Hardly anything runs in a database
transaction, so handlers interleave between any two awaits, a call between two
others may fail by itself, and the process may end anywhere. That is what the
modules model.

### Inventory

| Component | State it keeps | Operations | Talks to | What is hard, and what makes it correct |
| --- | --- | --- | --- | --- |
| Status flow (`src/lib/scope.ts`) | none | `nextStatus`, `assertTransition`, `storyScope` | tickets | forwards, one step, `Declined` only from `Requested` |
| Tickets (`src/lib/stories.ts`, `src/lib/intake.ts`, API routes, server actions) | `story`, `comment`, `notification`, `auditEvent`; files | upload, re-queue, advance, decline, flag, clear, re-prioritise, comment, withdraw | storage, notifications, audit, catalog, mail | check and write are two statements; row and file are two stores; every change is told and recorded; only the two sides of a ticket act on it |
| Upload gate (`src/lib/upload-slots.ts`) | a counter and a queue in memory | `acquireSlot`, `releaseSlot` | `/api/upload`, `/api/import` | bounded memory, no lost wake-up, first come first served, everybody gets in |
| Invitations (`src/lib/invites.ts`, claim page, hooks of `src/lib/auth.ts`) | `invite`, `user` | create, resend, revoke, claim, first sign-in through the provider | Better Auth, mail, audit | four reads and writes per account, against resends and revocations; one open invitation per address; invite-only |
| Password links (`src/lib/password-reset.ts`, `src/app/set-password`, `prisma/seed.ts`) | `verification`, the credential, `user.username`, `session` | mint, pull, redeem, restore | Better Auth, mail, audit | single use although a refused password gives the link back; old sessions die; no password without a username |
| Sessions, suspension, re-authentication (`src/lib/auth.ts`, `src/lib/reauth.ts`, `src/middleware.ts`, `setMemberAccessAction`) | `session`, `user.banned`, a cookie in each browser | sign in, slide, sign out, suspend, restore, ask again | Better Auth | suspension against a sign-in in flight; five minutes of freshness; a cookie that outlives its row or the reverse |
| Single sign-on (`src/lib/oidc-flow.ts`) | per-request state, `account` | start, come back, link, confirm again | the identity provider | two clocks; freshness that a held session at the provider must not mint |
| Feature requests (`src/lib/features.ts`) | `featureRequest`, `featureComment` | file, withdraw, advance, decline, re-prioritise, comment | notifications, audit | as tickets, with other rules and no file |
| Model storage (`src/lib/storage.ts`, `scripts/export-storage.ts`) | files | `putModel`, `copyModel`, `openModel`, `deleteModel`; the move from an object store | the file system | whole or not at all, across a power cut |
| Model download (`src/app/api/models/[id]`, `src/lib/slicer-token.ts`) | none (signed link) | mint, read, stream | storage, audit | a link against suspension, withdrawal and expiry |
| Instance settings (`src/lib/settings.ts`, `src/app/admin/settings`) | one row | save, resolve | environment, audit | the one change that is a transaction with its audit row, under a row lock |
| Catalog, benefits (`src/lib/catalog.ts`, `src/lib/benefits.ts`, admin actions) | materials, colours, benefits, their order | add, edit, toggle, remove, move | audit | positions computed from a list that may no longer be the list |
| Notifications, mail (`src/lib/authz.ts`, `src/lib/notifications.ts`, `src/lib/email.ts`) | `notification` | notify, mark read, send | transports | the mail is detached from the handler |
| Audit trail (`src/lib/audit.ts`) | `auditEvent`, append only | `record`, `auditRow` | everything | best effort, after the change: a row may be missing, never false |
| Import (`src/lib/import.ts`) | none | list, fetch | a model site | time limits, capped reads, under a place of the gate |
| Deploy wizard (`scripts/deploy-wizard.sh`) | `PPP_TAG` in `.env.docker`, the containers | choose, search the releases, swap, roll back | GitHub, Docker | a search that is right on one line of history only; a swap that stops half way |
| Release wizard (`scripts/release-wizard.sh`) | git: a clone's branch, tree and tags; GitHub: `main`, branches, pull requests, tags, releases | prepare, commit, open, tag, wait, publish, go on | git, GitHub, the image workflow | ends anywhere and goes on from what is there, in any clone, while others merge and tag |
| Upload form (`src/app/upload/upload-form.tsx`) | React state in a browser: `file`, `linked`, `phase` | choose, drop, look a link up, pick, send | `/api/upload`, `/api/import`, requeue | answers come late; one model per ticket |
| Model inspection (`src/lib/models.ts`) | none | `inspectModel`, `measure3mf` | intake | the order of transforms, units and parts; measured as it will be built |
| Full test (`scripts/full-test.sh`) | `.env`, `.env.backup`, `.env.docker`; the copies and the list in the git directory; the containers | preflight, save, set aside, raise, clean up, `--restore` | Docker, the suites | what a developer had there comes back, wherever a run ends |
| HTTP surface, other pages, i18n, other scripts, suites | none of their own | | | not modelled but for the cookie in `src/middleware.ts`, see section 7 |

## 2. The modules

| Module | Models | Extends / uses |
| --- | --- | --- |
| `Tables` | a database table as a function: `Put`, `Drop`, `None` | |
| `StatusFlow` | `FLOW`, `isTerminal`, `nextStatus`, `assertTransition` of `scope.ts` | |
| `Tickets` | every operation on a ticket, handler by handler | `StatusFlow`, `Tables` |
| `TicketLifecycle` | abstract: what `stories.ts` promises of a ticket's life, each change one step | `StatusFlow`; `Tickets` instantiates it |
| `UploadSlots` | the gate and its two doors | |
| `Invitations` | the guest list, the gate, the account hooks | `Tables` |
| `PasswordLinks` | minting, redeeming and restoring links | `Tables` |
| `OidcFlow` | the arithmetic of freshness: `authAgeAtIssue`, `authTimeVerdict`, `ssoAuthenticatedAt`, `isFreshAuth`, the gate of `/link-social` | |
| `SessionClock` | the session row, its sliding window, the browser's cookie and its re-stamping, signing in through either door, signing out | `OidcFlow`, `Tables` |
| `Access` | suspending and restoring against sign-ins, ticket pages, withdrawals and downloads; slicer links | `Tables` |
| `Handlers` | what the modules below share: the table of handlers in flight, failures and crashes | `Tables` |
| `FeatureFlow`, `Features` | the feature requests: flow, the five operations, notices and trail | `Handlers` |
| `Settings` | what is in force, and the save under the row's lock | `Handlers` |
| `Catalog` | adding, editing, toggling, removing and moving materials and colours, with PostgreSQL's row locks under a move | `Handlers` |
| `Benefits` | adding and patching | `Handlers` |
| `Mail` | the feed, reading it, and the detached copies by mail; the test message | `Handlers` |
| `ModelStore` | abstract: "an object appears whole or not at all", and stays once promised | `Storage` instantiates it |
| `Storage` | the atomic write call by call, copies, deletions and the move from an object store, under power cuts | `Handlers` |
| `DeployWizard` | `scripts/deploy-wizard.sh`: the choice, the search, the swap and the way back | `Handlers` |
| `ReleaseWizard` | `scripts/release-wizard.sh` in several clones: a release from the preflight to the publishing, `--continue`, and what the owner, other people and the image workflow do meanwhile | `Tables` |
| `FullTest` | `scripts/full-test.sh`: a run from the preflight to the cleanup, and `--restore` after runs that were killed | `Handlers` |
| `UploadForm` | the form a request is written in: the choices made in it and the answers that come back meanwhile | `Tables` |
| `ModelInspection` | what a model file is measured as, and why it is turned away | `Tables` |
| `…Proofs` | theorems: `TicketsProofs`, `PasswordLinksProofs`, of one model each; `InvitesReleasesProofs` of `Invitations` and `ReleaseWizard`; `DoorsProofs` of `UploadSlots`, `SessionClock` and `Access`; `HostProofs` of `Storage`, `DeployWizard` and `FullTest`; `DeskProofs` of the modules from `Features` to `Mail`, of `UploadForm` and of `ModelInspection`; `MCDeskProofs` of these ten in one instance, `MCDesk`; `TablesProofs` has what they share: `Put` and `Drop`, counting through a finite order, and induction | `TLAPS` |
| `MC…` | the instances for TLC: symmetry sets where there is one; the constants are in the `.cfg` files. `MCDoors` puts `SessionClock` and `Access` side by side, `MCInvitesReleases` `Invitations` and `ReleaseWizard`, `MCDesk` the other modules from `Features` on | |

### How state and actions correspond to the code

* A **table** is a function from the ids that exist to their rows. Columns no
  property can tell apart (titles, notes, colours, times) are left out.
* A **handler in flight** is a record of the variable `job`: which operation,
  for whom, what it read (`seen`, `row`, `token`, `inviter`) and where it is
  (`pc`). What the code holds in a local variable across an `await` is a field
  of that record, never read again from the table, so a stale read stays stale.
* Each operation begins with an action of its own that reads and checks
  (`advanceStory`, `createInvite`, `setPassword`); a refusal writes nothing and
  is the absence of a step. The database and file calls that follow are one
  action each (`updateStatus`, `deleteModel`, `rotateToken`, `recreateLink`).
  Guards such as unique indexes and foreign keys sit in the action that runs
  into them.
* `fail` (in each desk's module under its own name) lets the next call of a
  handler fail by itself, with what the handler does about it: usually it throws
  and ends; removing a file is swallowed; a redemption of a password link tries
  to put the link back; a transaction is undone. `crash` ends the process with
  everything in flight. Tables and files survive. `powerCut` in `Storage` also
  ends the machine: what `disk` allows may be left of each name.
* Where the code opens a **transaction**, the module says what others see of it
  and when: `Settings` holds the row's lock from the read to the commit, and
  `Catalog` locks the rows of a move one by one and lets two moves that wait for
  each other be aborted.
* Variables and fields marked *history* (`been`, `revoked`, `spent`, `pulled`,
  `mintedFor`, `proven`, `used`, `issued`, `ended`, `late`, `shut`, `filed`,
  `saved`, `arranged`, `lastWord`, `raised`, `mailed`, `given`, `kept`, `ran`,
  `told`, `original`, `theirs`, `leftWhole`, `mishaps`, and `was` in the trail) are written and never read by an
  action, except to bound the instance or to keep an id from being handed out
  twice.

`UploadSlots` has no awaits inside `acquireSlot` and `releaseSlot`, so each is
one action, the waiter's callback included; what interleaves is the handlers'
code between them. Better Auth is external: its steps (look a session up, push
its expiry, delete it; consume a token, look the password up, store it, delete
the sessions; sign in) are taken from what the calling code and its comments say
of them. So are the browser, which sends the cookie of the moment and takes
answers in any order, and the file system.

`SessionClock` and `Access` share the session row and split its questions:
`SessionClock` has a clock and one browser, `Access` has no clock (a session or
a link may lapse at any moment), several people and what they reach.

## 3. What the runs show

| Run | Bounds | Shows |
| --- | --- | --- |
| `slots` | 6 requests, 2 places, queue of 3 | the gate: bounded, no overtaking; one request more than places and queue hold is refused; whoever waits gets in |
| `tickets_moves` | 1 ticket, 2 clients and the owner, 2 requests | no status skipped, every surviving move told and recorded, the trail invents nothing, nobody fails but by a withdrawal |
| `tickets_files` | 3 tickets and files, 2 requests, 2 failures | every ticket has a file of its own; without failures none is left over |
| `tickets_serial` | 1 ticket, 2 requests that do not overlap, 2 failures or crashes | the handlers implement `TicketLifecycle`; the trail is exact |
| `invites_releases` | 1 address, 2 invitations, 3 links, 2 requests, 1 failure; or 2 clones, 2 versions, 4 commits of `main`, 2 wizards begun, 1 tag by hand | one open invitation, closed stays closed, every closing is on the trail, invite-only; a published release is the merge commit of its one pull request, its images built, with no version before it left untagged |
| `links` | 1 fresh account, 2 links, 2 usernames of which 1 is taken, 3 requests, 1 failure or crash; a sign-in looks at the password in one step and inserts its session in another | single use, refused links come back, old sessions die but for those of a sign-in the new password overtook, no password without a username |
| `doors` | a clock: 2 sign-ins, 2 requests at a time, 2 seconds in instants of a half, a provider up to 3 seconds off; or people: 2 members and the owner, 1 session at a time, 1 link, 2 handlers, 1 failure or crash, 1 ticket and a number that is nobody's | a session lapses its window after its last use, neither sooner nor later; the cookie lives as long as the row; nothing is fresh that nobody proved; signing out is for good; the suspended get nothing from session or link; suspension takes the sessions |
| `desk` | one of 17 desks at a time, 2 handlers, 1 failure or crash; for the directory 2 tickets, 2 new keys, 2 failures, crashes or power cuts; for the wizard 2 commits on the line and a hotfix beside one; for the full test 2 containers, 3 env files, 2 failures or kills, one run or `--restore` at a time; for the form 2 files, 2 links, 2 requests in flight; for the inspection 2 parts, 2 ids, 1 object in each part, 2 build items, 1 component each, a walk of 2 references | features' notices and trail, settings' chain, catalog's order and trail, benefits' patches, mail to nobody shut out, whole files for every row, `Storage` implements `ModelStore`, no release unread, one failure of a deployment is undone, what was there before a full test comes back, one model per ticket, a 3MF is measured as it is built |

Two requests are enough for every race of one check against one write; three
are used where a third changes the outcome (a redemption, a reset and a second
redemption). One ticket is enough for the moves, because no handler reads
another ticket; three for the files, because a re-queue of a re-queue and a
withdrawal involve three. One address is enough for the invitations: every
condition of theirs is per address. Ids and tokens bound how long a history a
run explores, not what can happen in it: two invitations give a lapsed one
beside a new one, three links two rotations in flight. `tickets_moves` has no
failures, so that all its operations fit into one instance; `tickets_files` and
`tickets_serial` have them, and `NoStepSkipped` and `TrailNeverInvents` are
proved with them (section 5).

`doors` looks at the clock or at the people, never at both: one module is about
the times of the session row, the other about its owner. It makes every constant of time as small as it can be with its role kept:
the window longer than the push's interval, two instants to a second so that
rounding to seconds matters, a skew that the provider's offset can exceed, a
re-authentication limit under the freshness window. Its last instant bounds
behaviours, which is why deadlock is not checked there; nor is it in `desk`,
`storage_stopped` and `wizard_cut`, whose ids, keys and saves run out, and in
`invites_releases`, whose wizards and commits do.

`invites_releases` looks at the guest list or at a release, never at both, which
share nothing. Of the wizard: a version is a number, and a step up is any
greater one; four commits of `main` are room for two merges and somebody else's
work around them; two wizards are one that was cut short and one that goes on,
or two at once in two clones. A tag by hand is of a version that was merged, on
any commit, of `main` or not; tags by hand of versions that no pull request
brought to `main` are left out.

In `desk` every behaviour stays at one desk (`desk` is chosen at the start and
kept): the desks share no row, so a product of them would show nothing more. A
catalog desk has two or three operations that can meet; two moves at once are
looked at beside removals, and one at a time beside additions, which lengthen
the list. Of the settings, the environment says something of at least one, and a
row that is found has something for both or for neither; of two benefits the ids
are handed out in one order. Bounds of the storage desk: the migration ends between calls but not
between a rename and the sync of its directory (`StoppedAtSync = FALSE`; the
other case is `storage_stopped`); once something in a new month's directory is
synced the directory itself counts as durable; the temporary files a crash
leaves are nobody's and not followed. Of the wizard: one at a time, one released
hotfix at most beside the line, the schema's migrations and the list's limit of a
hundred images left out. Of the inspection: space has one dimension, where a matrix has a
factor and an offset; two transforms, one that moves and one that scales, are
enough for their order to matter, and an object has at most one vertex and one
component (`MaxVertices`, `MaxParts`). Each part has an object, of the same id;
a component names it there or in the other part, or an id that nothing has. The
depth cap of 50 is 2 and binds: the circles among the two objects' references are
cut off there, and are to be measured as far as it goes. Of the full
test: `.env` and `.env.backup` are both there or neither; runs and restorations
follow one another, each from whatever a killed one left (two at once are
`full_tests_at_once`); two failures are a run cut short and a restoration that
fails as well.

Symmetry is over values that carry no order; it is not used in `slots`, which
checks liveness.

### Where the code does otherwise than it says

Four disagreements are runs in which TLC finds the statement violated.

| Run | The statement | What happens |
| --- | --- | --- |
| `tickets_forwards` | "only forwards, only one step at a time" (`scope.ts:86`, `stories.ts:40`) | advance and decline both pass their check on `Requested`; the later write takes `Accepted` to `Declined` or back |
| `storage_stopped` | "idempotent … can be re-run after a partial failure" (`export-storage.ts:36`) | a migration ends between a rename and the sync of the directory; the second run looks at the file, finds it good and reports success; a power cut then takes the name |
| `wizard_cut` | "rolls back to the previous tag" (`deploy-wizard.sh:30`, `docs/deployment.md:202`) | a wizard cut short during the pull leaves the tag it wrote; the next one takes it for what is live and rolls back to an image that never ran |
| `full_tests_at_once` | "puts the three env files back exactly as they were … on success, on failure and on Ctrl-C" (`full-test.sh:28`); "the half-made copies are of no use to anyone" (`full-test.sh:456`) | two full tests of one checkout pass the preflight before either has saved; the second cannot make the directory for the copies and removes the first's, whole as they are |

The unguarded write of `tickets_forwards` is also why `tickets_serial` asks that
requests on one ticket do not overlap: with `Overlap = TRUE` both of its
properties fail.

The others came up while modelling and have no run of their own:

* "Only before it reaches the bed" (`stories.ts:529`): a withdrawal that read
  `Accepted` deletes a ticket that is `Printing` by then.
* "cannot claim something that did not happen" (`audit.ts`): a revocation of an
  invitation that matched nothing is recorded (`admin/invites/actions.ts:111`).
* "spent when a password is actually set" (`password-reset.ts:93`): an error
  after the password was stored puts the link back.
* "exactly one live link" (`admin/invites/actions.ts:153`): two resets at once
  leave two.
* An old link "stops working the moment a resend happens" (`invites.ts:141`): a
  claim past its check opens the account with the old link
  (`invite/[token]/actions.ts:117`).
* "the notification survives the ticket" (`api.ts:236`): notifications are
  deleted with their ticket by the foreign key; only a withdrawal's own notice,
  which never named one, survives.
* "every session opened with the old password dies with it" (`auth.ts:195`): a
  sign-in that had it accepted before the new one was stored, and inserts its
  session after the deletion, keeps it. `OldSessionsDie` speaks of the others.
* A priority may be changed by the requester on a request that is "own, still
  live" (`actions/features.ts:98`); `features.ts:275` says, and does, "in any
  status".
* "the cookie never dies before the row it names" (`middleware.ts`): a page's
  answer that arrives after later ones puts an older cookie back, of a session
  that was signed out or replaced meanwhile. One that was signed out opens
  nothing (`SignedOutStaysOut`); `CookieOutlivesItsRow` speaks of the moment all
  answers are in.
* "A file from disk replaces a file picked from a link" (`upload-form.tsx:201`): a
  file chosen while a link is being looked up is taken away by the listing that
  arrives, even an empty one (`upload-form.tsx:240`).
* A file dropped on the form while an upload is under way (the input is disabled,
  the drop is not), or a lookup that fails meanwhile, sets the phase back; the
  button works again and a second ticket may be sent. No sentence rules it out.
* "A visited set … plus a depth cap" (`models.ts:319`): there is only the cap.
* "leave the first forever untagged" (`release-wizard.sh:709`): the check against
  it counts the clone's own tags too (`highest_tag`). A wizard that ended between
  `git tag` and `git push` lets a fresh start of the next version in that clone
  past it, and the first stays untagged on GitHub. `ReleasedAsMerged` therefore
  counts the tags of the clones.
* "A version is prepared once" (`docs/development.md:351`): two clones past the
  check at once can each open its pull request, if the first is merged and its
  branch deleted before the second pushes.
* `--continue` after a wizard that ended between `npm version` and the example
  tags goes on without moving them (`release-wizard.sh:806`, `:1197`).
* The notes of a hotfix beside the line are shown only if the search comes
  across it; `NoReleaseGoesUnread` speaks of the releases of the line.
* A stack's name is the machine's, the copies are a checkout's: `--restore` in one
  checkout removes the test stack that a run in another has up.

Most need two requests of the same few people within milliseconds. None breaks
what the passing runs show: no status is jumped, no file lost, no uninvited
account opened.

## 4. Fairness

Only `UploadSlots` states liveness. `FairGateSpec` asks two things of every request
separately: that a request whose promise resolved resumes, which the event loop
guarantees, and that one that holds a place gives it back. The code justifies
the second: both doors release in a `finally`; reading the body is bounded by
Node's request timeout, and every fetch of an import by an `AbortSignal.timeout`
(`src/lib/import.ts`). Nothing is assumed of requests that have not come in.
Nowhere else does the code wait for another request: every other handler runs to
its end or fails, and nothing retries.

## 5. What is proved

TLAPS proves the following for any sets of people, ids, keys, requests and any
bounds (assumptions: the named `ASSUME` of each module, which TLC evaluates on
every run). Each model has an inductive invariant, a theorem of its own
(`Inv`, or `FileInv` and `HistoryInv` in `TicketsProofs`; `AccessInv`,
`ClockInv`, `FeaturesInv`, `DirectoryInv` and so on where a module proves about several
models), that says what a handler in flight still knows of the tables; the
properties follow from it. Two models stand side by side in a proof module
only to share its lemmas: no step of one is used for the other.

*`DoorsProofs`*, of `UploadSlots`. The counter is the number of requests granted or working,
the queue holds exactly the waiting requests, each once, and while anybody waits
every place is taken. From it: `MemoryIsBounded`, `NoLostWakeUp`, and
`FirstComeFirstServed` as an action property. The last conjunct is what makes
the wake-up argument inductive: a release hands its place to the head of the
queue in the same step. `NoLostWakeUp` has no run of its own; `WaiterGetsIn`, which
TLC checks, could not hold without it.

*`TicketsProofs`.* `TypesHold` is the type invariant.
`NoTicketLosesItsFile`: every ticket has a file of its own. Not inductive alone:
a deletion in flight must not hold the key of an existing ticket, nor an
insertion one that is used or not yet stored. `FileInv` adds this for every pair
of a job and a ticket and of two jobs.
`FlowIsNeverJumped` and `TrailIsTrue` rest on `HistoryInv`: a job about to write
a status has read its predecessor (`KnowsWhy`), and `been` remembers every
status a row has had (`StatusesHaveBeen`). What a row of the trail says a ticket
came from may be stale when requests overlap, but it is a status the ticket had, and
the step from there one that the rules allow (`Happened`); once true this stays
true (`HappenedStays`).
`NoFileIsLeaked`: while nothing fails, every file has a keeper: a ticket, or
a handler about to insert the row or to remove the file (`Keeper`).
`NobodyMakesMeFail`, an action property: a handler ends early only by a failure
or because its ticket was withdrawn; for a re-queue because the ticket it copies
still names the file it read (`SourceIsStill`).
`EveryMoveIsTold`: while nothing fails, each status a ticket was moved to is in
the uploader's inbox and on the trail, or the handler that wrote it is on its
way to put it there (`Told`, `Recorded`); the handler tells the right person
because a row's uploader never changes (`UploaderKnown`).
Under `~Overlap` (requests on one ticket take turns; when they overlap, TLC shows
that it fails), one more. `Serial`: a handler at a ticket is alone there, so
its row and what it checked are still what it read. Hence
`HandlersImplementLifecycle`: under the mapping of `Tickets`, inserting is
`File`, the three kinds of update are `StepForward`, `Decline` and
`Reprioritise`, deleting is `Withdraw`, and every other step, every failure and
every crash leaves the life of each ticket alone.

*`InvitesReleasesProofs`*, of `Invitations`: `OneOpenAlways` (the index decides, whatever was read),
`NobodyUninvited` (past the gate somebody has invited the address, and no
operation deletes an invitation), and `ClosedStaysClosed` as an action property
(accepting and revoking ask for an open invitation; a resend asks for nothing,
but writes the link and the expiry alone). `ClosingIsOnTheTrail`
(theorem `ClosingsAreTold`): while nothing fails, each invitation that is closed
is named by a row of the trail or by a handler that is about to write one
(`ClosingsNoted`); two requests that close one invitation cannot leave it to each
other, for only the one whose update found it open goes on to the trail.
Of `ReleaseWizard`: `EveryReleaseIsAsMerged`, from `ReleaseInv`, which says of
GitHub, the clones and the wizards what they know of each other. The version
that main carries never goes down, and each one main has gone beyond has a tag
somewhere (`LineHolds`); what has a tag was merged (`TagsHold`); a release branch was
made above a version that has one (`HeadHolds`), since the preflight compares main
with the highest tag of the clone; and from the tag on a wizard holds the merge
commit of its version, or waits for a tag that names it (`CutHolds`). Commits,
merges and tags are never taken back (`Grows`), so a step of one wizard leaves
what the invariant says of the others, and what a stopped wizard left behind is as
good as what a running one knows; that is why `--continue`, in whichever clone, may
rely on it. The number of clones, versions, commits and wizards plays no part.

*`PasswordLinksProofs`.* `PasswordNeedsUsername` by the order of the writes.
While nothing fails a link is in one place, the table, the hands of the one
redemption that consumed it, or spent (`Exclusive`), and none is lost
(`Accounted`): hence `SingleUse` and `RefusalIsNoLoss`. `NewPasswordEndsOldSessions`:
a session of another password waits for the redemption that stored this one to
delete it, or is marked `late`: its sign-in had looked at the old password before
the new one was stored, and inserted it when no redemption was left to delete it.
Without the mark TLC finds that session; no later step looks at its password again.

*`DoorsProofs`*, of `SessionClock`, which shares nothing with the gate: `FreshnessIsNeverMinted`: every row is dated
within a second after a proof, or too far back to be fresh (`RowHolds`); that
rounding and the two clocks cannot break this is the arithmetic of the lemmas on
`OidcFlow`. `WindowExact`: a row's expiry is its window after its last use, less
at most the push's interval unless a push is on its way. `OutForGood`: the push
is an update and finds no row. `CookieLasts`: a cookie that falls short of its
row has an answer on its way that sets it anew (`CookieCovers`), since whatever
pushes a row's expiry answers with a cookie (`Carries`) and an answer is stamped
when it arrives, not when the row was read. All for any values of the times.
Of `Access`: `NobodyShutOutIsServed`: past the door, the person of a handler
is not among those suspended ever since it began. `LinkOpensItsTicket` has no
run of its own: a link names one ticket in its claims, and every route looks at them.
`AccessTakesItsSessions`: while a session of somebody suspended is there that no
late sign-in opened, the revocation that will delete it is under way (`Doomed`).

*`HostProofs`*, of what a script or a power cut can do to the machine. `Storage`:
no file is renamed before its bytes were synced, a writer's key is no other
writer's, and what anybody was told of stands on the disk whatever becomes of
the directory (`DirectoryInv`). Hence `EveryRowKeepsItsModel`, and the refinement
`TheCallsKeepThePromise`: the rename is `Store`, the end of a handler's last sync
`Promise`, a withdrawal `GiveUp` and then `Remove`, and a power cut `Lose`, each
shown for its step. Both theorems have the hypothesis `~StoppedAtSync`, that a
migration is not stopped between the rename and the sync of the directory:
`storage_stopped` shows that without it they are false.
`DeployWizard`: at each step of the search, what was passed is contained in the
image's commit and what was cut off is not (`SearchHolds`), so it ends at the last
release the image contains, and the notes gathered cover every release between
the two (`Covers`): `EveryNoteIsRead`, for a list of any length. `TheWayBackHolds`
from what the file, docker and the wizard know of each other while at most one
thing has failed (`SwapHolds`).
`FullTest`: SAVED holds only originals, and what it lacks is still in place
(`EnvHolds`); a container that is not as it was is on the list, with how it ran
(`NameHolds`); and a process that has not recorded a failure has still to do
whatever is not yet back (`EnvJob`, `UnparkHolds`). Since none of this speaks of
which process does it, a killed run leaves just what `--restore` needs:
`AllComesBack`. Its hypothesis `~AtOnce`, one run at a time, is the one that
`full_tests_at_once` shows to be needed.

*`DeskProofs`.* Of `Features`: `NoStationSkipped`, which has no run of its own, by
the argument of `FlowIsNeverJumped`: what a request has been is a chain of the
flow, and a handler about to move it has seen it at the station before.
`FeatureChangesAreTold`: while nothing fails, each status, priority and withdrawal
is in its feed and on the trail, or with the handler that owes it (`IsTold`).
Of `Benefits`: `PatchesStayApart`: a patch's update writes the fields it was
given, so the row is at all times what each field was last asked to be, and what
is not on the trail a handler past its write is about to put there.
Of `Mail`: `TheShutOutHearNothing`: a copy whose recipient has been shut out
ever since it was raised is not past its look at the account (`CopyHolds`).
Of `Settings`: `EverySettingIsAccountedFor`. The chain is said position by
position (what was put in force at a row of the trail is what the next row that
names the field found, and after the last such row is what is in force), so one
more row adds one position and no induction over the trail is needed.
It rests on the lock: from its `SELECT` to its commit a save has the row alone,
and what it read is what is there (`SaveHolds`).
Of `Catalog`: `OrderHolds`: the listing a move works through has each row once
(`WorkHolds`), ids are never used twice and stay in their list, so the commit
numbers what is left of it in that order, and no other handler writes a number of
a row that is there. That sorting by number, then by name, gives each
row of a list once is shown by counting the rows before each (`Ranking` of
`TablesProofs`, `InOrderListsAll`). `AvailabilityIsTold` as the closings of `Invitations`.
Of `UploadForm`: `OneModelAtATime`: a file from the disk leaves no listing beside
it (`FormHolds`), and a request to import names a file of its own link
(`CallsHold`) whatever arrives while it is out.

Of `ModelInspection`: `MeasuredWhereBuilt`, for any number of parts, objects,
components, build items and transforms and any depth cap, in one dimension. It is
about what the walk reaches: `Chains` are the lists of as many references as the cap
allows, in whichever part, around a circle or not. The walk is a recursive function
of the depth, what it is compared with another of the chain; both are shown to exist
(`LevelsAre`, `Iterates` of `TablesProofs`), and to agree by induction over the depth
(`ChainIsWalked`, `VisitHasChain`) and over the length of a chain (`ThroughIs`): the
product of the matrices takes a vertex where they take it one by one, the last
reference's first; and `childOf` finds what a component refers to, in the part it
names or its own (`ChildIs`).

Induction itself is a lemma, `UpTo`: the library's theorem takes an operator for
its parameter, which the provers cannot instantiate, so `TablesProofs` derives
induction over a set of numbers from the facts about finite sets.

*`MCDeskProofs`*, of the ten modules in `desk`'s one instance. A behaviour of it
is one of the module at whose desk it is, while the variables of the other nine
stay as they were at first (`BehaviourFeature` and its nine sisters); and what is in
flight is of that desk alone (`AllOfOneKind`). So every property of the run holds
of the instance: `DeskTypes` of `DeskTypeOK`, `EveryDeskKeepsItsPromises`,
`TheFeedAndTheHostKeepTheirs` and, with the hypotheses named above,
`TheFilesKeepTheirs`, the refinement of `ModelStore` included. `DeskTypes` has no
hypothesis: types keep whatever the migration does and however full tests overlap
(`StorageTypes`, `OnlyTests`), which the two properties do not.

Every safety property that a passing run checks is so proved, for every value of
the constants its hypotheses leave, but `TrailClaimsWhatHappened`, which holds only
where requests on one ticket take turns, as the code does not make them. Left to
TLC besides: liveness (`WaiterGetsIn`), and what the four runs that expect a violation find.

## 6. What could come next

Colours beside materials in `desk`, at the cost of a larger run; the flow of an
account linked at `/me`.

## 7. What is not modelled, and why

* Finding triangles, objects and transforms in the bytes of an STL, a zip and its
  XML (what is then made of them is `ModelInspection`), e-mail layout, translations, the OpenAPI
  document, content security policy, pages and components but the upload form: functions of one
  value, without interleavings; the repository's suites test them. Whether a
  file or a wish is accepted is a free choice in `Tickets`.
* Better Auth's inside, PostgreSQL's inside (each statement is one step, as
  read committed gives it for single-row statements; the locks of the two
  transactions are modelled), the browser beyond its cookie. The redirect to the
  provider with its state and PKCE is Better Auth's.
* Of the release wizard: drafts of a release, the example tags in the documents,
  the full test and the answer of CI (which let it go on or not), the wording of
  notes, pull requests into another branch or from a fork, `--status` and
  `--dry-run`.
* Of the full test: the ports, the throwaway data directory, other checkouts of
  the machine, `--preflight`, logs and verdicts. A kill in the middle of a
  statement is one before or after it, but for copying and removing, which may be
  half done.
* The helpers for a desktop, which open a file; the suites
  and probes, which call the operations one at a time; the design handoff, which
  is no part of the program.
* The audit row of the mail switch in `Mail`, the order and `preferred` in
  `Benefits`, codes and styles of colours in `Catalog`: written as a field that
  is modelled is written, and read by nothing.
* `purgeStaleInvites`, which nothing calls.

The modelled lines are a small share of the repository's: more than half of it
is pages and components, tests and probes, generated or static documents and
parsing, which have no state to model, and of the rest much is wording,
validation of one value and comments. What changes state and can meet something
else changing state is modelled.
