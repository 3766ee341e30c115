----------------------------- MODULE DeployWizard -----------------------------
(***************************************************************************)
(* scripts/deploy-wizard.sh: choosing an image, the upgrade notes of the   *)
(* releases in between, the swap, and the way back.                        *)
(*                                                                         *)
(* A place in the history is the last commit of the main line it contains, *)
(* and whether it has left that line since.  Releases are commits of the   *)
(* line, or one commit beside it: a hotfix, whose version comes before the *)
(* next of the line.  What asks GitHub is the binary search for the newest *)
(* release a commit contains.  The image is taken from PPP_TAG of          *)
(* .env.docker, by the wizard and by docker compose alike.                 *)
(***************************************************************************)
EXTENDS Handlers, Sequences, FiniteSets, TLC

CONSTANT
    Line            \* BOUND: commits of the main line

ASSUME WizardAssumption == Line \in Nat

VARIABLES
    releases,       \* GitHub: the places released, in the order of their versions
    tag,            \* PPP_TAG in .env.docker
    running,        \* the image the containers run, or Down
    ran,            \* history: what ran when the last wizard began
    told            \* history: how the last one ended, or None if it was cut short

wizardVars == <<releases, tag, running, ran, told, job, mishaps>>

Place == [on: 1 .. Line, off: BOOLEAN]

\* A version is the image of a tagged place, released or not; a SHA that of any
\* commit.  "other" is a moving tag, such as latest, which no menu offers.
Image == [kind: {"version"}, on: 1 .. Line, off: BOOLEAN]
         \cup [kind: {"sha"}, on: 0 .. Line, off: BOOLEAN]
         \cup [kind: {"other"}, on: {Line}, off: {FALSE}]

Down == [kind |-> "none", on |-> 0, off |-> FALSE]

\* `lo`, `hi` and `base` are indexes into the releases: base_of has found that
\* `base` is contained, and what comes from `hi` + 1 is not.
WizardJob == [op: {"deploy"},
              pc: {"current", "target", "read", "confirm", "swap", "pull", "up", "upAgain",
                   "health", "back"},
              current: Image, target: Image, lo: 1 .. 2 * Line + 1,
              hi: 0 .. 2 * Line, base: 0 .. 2 * Line, baseCurrent: 0 .. 2 * Line,
              whyNot: BOOLEAN, blind: BOOLEAN, shown: SUBSET Place]

WizardTypeOK ==
    /\ releases \in Seq(Place) /\ Len(releases) <= 2 * Line
    /\ tag \in Image /\ running \in Image \cup {Down} /\ ran \in Image \cup {Down}
    /\ told \in {"live and healthy", "failed", None}
    /\ \A q \in InFlight({"deploy"}) : job[q] \in WizardJob

\* BOUND: no two releases beside the line at one place.
WizardInit ==
    /\ releases \in {s \in UNION {[1 .. n -> Place] : n \in 0 .. 2 * Line} :
                        \A i, k \in DOMAIN s : i < k =>
                            \/ s[i].on < s[k].on
                            \/ s[i].on = s[k].on /\ ~s[i].off /\ s[k].off}
    /\ tag \in Image
    /\ running = tag /\ ran = tag /\ told = "live and healthy"

-----------------------------------------------------------------------------
OnlyTheWizard == UNCHANGED <<releases, tag, running, ran, told>>

IsOf(i, r) == i.kind = "version" /\ i.on = r.on /\ i.off = r.off

Released(i) == \E k \in DOMAIN releases : IsOf(i, releases[k])

\* With a token the menu has every image, without one the releases.  A redeploy
\* crosses nothing and asks GitHub nothing; without a list there is nothing to
\* search.  BOUND: one wizard at a time.
chooseTarget(q, target, token, listed) ==
    /\ job = Nothing
    /\ target.kind # "other"
    /\ token \/ (listed /\ Released(target))
    /\ LET redeploy == target = tag IN
       Begin(q, [op |-> "deploy", current |-> tag, target |-> target,
                 pc |-> IF redeploy THEN "confirm" ELSE IF listed THEN "current" ELSE "read",
                 lo |-> 1, hi |-> Len(releases), base |-> 0, baseCurrent |-> 0,
                 whyNot |-> ~redeploy /\ ~listed, blind |-> FALSE, shown |-> {}])
    /\ ran' = running
    /\ UNCHANGED <<releases, tag, running, told, mishaps>>

-----------------------------------------------------------------------------
\* base_of, of CURRENT and then of TARGET

Placing(q) == q \in InFlight({"deploy"}) /\ job[q].pc \in {"current", "target"}

OneToPlace(j) == IF j.pc = "current" THEN j.current ELSE j.target

\* The base is known: to the next end, or to the releases crossed.
Crossed(baseCurrent, baseTarget) ==
    IF baseTarget > baseCurrent THEN baseCurrent + 1 .. baseTarget
                                ELSE baseTarget + 1 .. baseCurrent

FromTheMiddle(j) == [j EXCEPT !.lo = 1, !.hi = Len(releases), !.base = 0]

ToTarget(j, base) == [FromTheMiddle(j) EXCEPT !.pc = "target", !.baseCurrent = base]

ToNotes(j, crossed) ==
    [FromTheMiddle(j) EXCEPT !.pc = IF crossed = {} THEN "confirm" ELSE "read",
                             !.baseCurrent = 0,
                             !.shown = {releases[k] : k \in crossed}]

Placed(q, base) ==
    LET j == job[q] IN
    job' = [job EXCEPT ![q] = IF j.pc = "current" THEN ToTarget(j, base)
                              ELSE ToNotes(j, Crossed(j.baseCurrent, base))]

Unplaced(j) == [FromTheMiddle(j) EXCEPT !.pc = "read", !.baseCurrent = 0, !.whyNot = TRUE]

CouldNotTell(q) == job' = [job EXCEPT ![q] = Unplaced(job[q])]

\* Its own index, a release that is listed; no commit at all, only if there is
\* nothing it could lie between.
placeByName(q) ==
    /\ Placing(q) /\ OneToPlace(job[q]).kind # "sha"
    /\ LET x == OneToPlace(job[q]) IN
       IF Released(x)
       THEN Placed(q, CHOOSE k \in DOMAIN releases : IsOf(x, releases[k]))
       ELSE IF x.kind = "other" /\ releases = << >> THEN Placed(q, 0) ELSE CouldNotTell(q)
    /\ OnlyTheWizard /\ UNCHANGED mishaps

\* A commit x has release r in its history; and what GitHub says of the two.
Contains(x, r) == r.on <= x.on /\ ~r.off

compare(r, x) ==
    IF Contains(x, r) THEN "ahead"
    ELSE IF ~x.off /\ x.on <= r.on THEN "behind" ELSE "diverged"

divergedIsBehind(q) ==
    /\ Placing(q) /\ OneToPlace(job[q]).kind = "sha" /\ job[q].lo <= job[q].hi
    /\ LET mid == (job[q].lo + job[q].hi) \div 2
           status == compare(releases[mid], OneToPlace(job[q])) IN
       IF status = "ahead"
       THEN job' = [job EXCEPT ![q].base = mid, ![q].lo = mid + 1]
       ELSE job' = [job EXCEPT ![q].hi = mid - 1]
    /\ OnlyTheWizard /\ UNCHANGED mishaps

\* One question of the binary search; no answer, or one that is not of
\* one line, ends it.
askGitHub(q) ==
    /\ Placing(q) /\ OneToPlace(job[q]).kind = "sha" /\ job[q].lo <= job[q].hi
    /\ LET mid == (job[q].lo + job[q].hi) \div 2 IN
       \E status \in {compare(releases[mid], OneToPlace(job[q])), None} :
          CASE status = "ahead"  -> job' = [job EXCEPT ![q].base = mid, ![q].lo = mid + 1]
            [] status = "behind" -> job' = [job EXCEPT ![q].hi = mid - 1]
            [] OTHER             -> CouldNotTell(q)
    /\ OnlyTheWizard /\ UNCHANGED mishaps

searchEnds(q) ==
    /\ Placing(q) /\ OneToPlace(job[q]).kind = "sha" /\ job[q].lo > job[q].hi
    /\ Placed(q, job[q].base)
    /\ OnlyTheWizard /\ UNCHANGED mishaps

\* The notes are shown, or cannot be (read reliably), and the owner is asked;
\* of releases that have none it is said, and nothing asked.
readNotes(q) ==
    /\ At(q, "deploy", "read")
    /\ \E blind \in {job[q].whyNot, TRUE} :
          job' = [job EXCEPT ![q] =
                    [@ EXCEPT !.pc = "confirm", !.blind = blind,
                              !.shown = IF blind THEN {} ELSE job[q].shown]]
    /\ OnlyTheWizard /\ UNCHANGED mishaps

\* "Deploy anyway?", "Deploy ...?"; every image signed, or no cosign and one more
\* yes; and the registry's login.
confirm(q) ==
    /\ At(q, "deploy", "confirm")
    /\ GoTo(q, "swap")
    /\ OnlyTheWizard /\ UNCHANGED mishaps

\* A no, no answer, an image not published, not signed, or no login: nothing
\* has been changed.
giveUp(q) ==
    /\ q \in InFlight({"deploy"})
    /\ job[q].pc \in {"read", "confirm"}
    /\ End(q)
    /\ OnlyTheWizard /\ UNCHANGED mishaps

-----------------------------------------------------------------------------
\* The swap.  Each step that fails by itself is a mishap.

writeTag(q) ==
    /\ At(q, "deploy", "swap")
    /\ tag' = job[q].target
    /\ told' = None
    /\ GoTo(q, "pull")
    /\ UNCHANGED <<releases, running, ran, mishaps>>

pull(q) ==
    /\ At(q, "deploy", "pull")
    /\ GoTo(q, "up")
    /\ OnlyTheWizard /\ UNCHANGED mishaps

pullFailsTagStays(q) ==
    /\ At(q, "deploy", "pull")
    /\ Mishap
    /\ told' = "failed"
    /\ End(q)
    /\ UNCHANGED <<releases, tag, running, ran>>

pullFails(q) ==
    /\ At(q, "deploy", "pull")
    /\ Mishap
    /\ tag' = job[q].current
    /\ told' = "failed"
    /\ End(q)
    /\ UNCHANGED <<releases, running, ran>>

\* docker compose brings up what the file names, or stops on the way there.
OnTheWay == {running, Down, tag}

composeUp(q) ==
    /\ At(q, "deploy", "up")
    /\ running' = tag
    /\ GoTo(q, "health")
    /\ UNCHANGED <<releases, tag, ran, told, mishaps>>

composeUpFails(q) ==
    /\ At(q, "deploy", "up")
    /\ Mishap
    /\ running' \in OnTheWay
    /\ tag' = job[q].current
    /\ GoTo(q, "upAgain")
    /\ UNCHANGED <<releases, ran, told>>

\* Two answers of 200 in a row before the deadline, or not.
healthy(q) ==
    /\ At(q, "deploy", "health")
    /\ told' = "live and healthy"
    /\ End(q)
    /\ UNCHANGED <<releases, tag, running, ran, mishaps>>

unhealthy(q) ==
    /\ At(q, "deploy", "health")
    /\ Mishap
    /\ tag' = job[q].current
    /\ GoTo(q, "back")
    /\ UNCHANGED <<releases, running, ran, told>>

\* The way back, after a failed start or a failed health check.
rollBack(q) ==
    /\ q \in InFlight({"deploy"}) /\ job[q].pc \in {"upAgain", "back"}
    /\ running' = tag
    /\ told' = "failed"
    /\ End(q)
    /\ UNCHANGED <<releases, tag, ran, mishaps>>

rollBackFails(q) ==
    /\ q \in InFlight({"deploy"}) /\ job[q].pc \in {"upAgain", "back"}
    /\ Mishap
    /\ running' \in OnTheWay
    /\ told' = "failed"
    /\ End(q)
    /\ UNCHANGED <<releases, tag, ran>>

\* Ctrl-C, a lost connection, a host that restarts: what is written stays.
cutShort(q) ==
    /\ q \in InFlight({"deploy"})
    /\ job[q].pc \in {"pull", "up", "upAgain", "health", "back"}
    /\ Mishap
    /\ running' \in IF job[q].pc = "pull" THEN {running} ELSE OnTheWay
    /\ End(q)
    /\ UNCHANGED <<releases, tag, ran, told>>

WizardNext ==
    \/ \E q \in Requests, target \in Image, token, listed \in BOOLEAN :
          chooseTarget(q, target, token, listed)
    \/ \E q \in DOMAIN job :
          \/ placeByName(q) \/ askGitHub(q) \/ searchEnds(q)
          \/ readNotes(q) \/ confirm(q) \/ giveUp(q)
          \/ writeTag(q) \/ pull(q) \/ pullFails(q) \/ composeUp(q) \/ composeUpFails(q)
          \/ healthy(q) \/ unhealthy(q) \/ rollBack(q) \/ rollBackFails(q)
          \/ cutShort(q)

WizardSpec ==
    WizardInit /\ job = Nothing /\ mishaps = 0 /\ [][WizardNext]_wizardVars
-----------------------------------------------------------------------------
\* "Could not find out" is never "nothing to read": what a commit contains, on
\* the line or off it, and with hotfixes among the releases, is worked out
\* exactly or not at all.  By the time of the swap the owner has seen the notes
\* of every release of the line between what is deployed and what was chosen,
\* or has agreed to go on without.
NoReleaseGoesUnread ==
    \A q \in InFlight({"deploy"}) :
        LET j == job[q] IN
        j.pc \in {"confirm", "swap"} /\ ~j.blind =>
            \A k \in DOMAIN releases :
                LET r == releases[k] IN
                (~r.off /\ (r.on <= j.current.on) # (r.on <= j.target.on)) => r \in j.shown

\* If at most one thing fails, the pull, the start or the new image's health,
\* then a wizard that came to its end has left .env.docker naming what runs, and
\* that is what it said: the image chosen if "live and healthy", and what ran
\* before if it failed.
OneFailureIsUndone ==
    (Quiet({"deploy"}) /\ mishaps <= 1 /\ told # None) =>
        /\ running = tag
        /\ told = "failed" => running = ran

\* "Rolls back to the previous tag automatically if it does not come good": to
\* what was running.
RollsBackToWhatRan ==
    \A q \in InFlight({"deploy"}) : job[q].pc = "back" => tag = ran \/ ran = Down
=============================================================================
