---------------------------- MODULE ReleaseWizard ----------------------------
(***************************************************************************)
(* scripts/release-wizard.sh: cutting a release from a clone, in steps that *)
(* a person confirms, beside other clones, the owner who merges, and hands  *)
(* that push a tag or tidy a clone.  Where a release has got to is read     *)
(* from git and GitHub, so a wizard may stop anywhere and another go on.    *)
(*                                                                         *)
(* A release is a version that a commit of main carries in package.json and *)
(* the changelog.  Commits of main are numbered; 0 is a commit beside it.   *)
(* Every refusal of the wizard, every no, every failed command, and Ctrl-C  *)
(* end it where it is, which is stopCutting.  Left out: the wording of notes   *)
(* and questions, the example tags in the documents, drafts of a release,   *)
(* the full test and CI on the merge commit, which let a wizard go on or    *)
(* not, and --status and --dry-run, which change nothing.                   *)
(***************************************************************************)
EXTENDS Tables, Naturals, Sequences, FiniteSetsExt

CONSTANTS
    Clones,         \* clones of the repository, each with a person
    Versions,       \* the versions to be released, after version 0
    MaxMain,        \* BOUND: commits of main
    MaxBegun        \* BOUND: wizards begun

ASSUME ReleaseAssumption ==
    /\ Versions \subseteq Nat \ {0}
    /\ MaxMain \in Nat /\ MaxBegun \in Nat
    /\ None \notin Clones

VARIABLES
    mainLine,       \* GitHub: the commits of main: the version each carries, and
                    \* the parts of its release commit
    branches,       \* GitHub: the release branches, by version: who committed the
                    \* release, what main carried below it, and its parts
    pulls,          \* GitHub: the release pull requests: their version, the head of
                    \* their branch, and the commit of main they were merged as
    pushed,         \* GitHub: the tags, by version: the commit, and who made the
                    \* tag, which is None by hand
    builds,         \* GitHub: the release-images run of a tag: its images exist
                    \* once "pushed", and are signed and scanned on "success"
    published,      \* GitHub: the versions released
    clone,          \* the clones: the branch they are on, the commit of main they
                    \* are level with, their working tree, branches and tags
    cutting,        \* the wizards under way, by clone: where they are, the version,
                    \* the last one read and the commit to be tagged
    begun           \* BOUND: how many were begun

releaseVars == <<mainLine, branches, pulls, pushed, builds, published, clone, cutting,
                 begun>>

\* What step_prepare writes: the changelog section, perhaps with a stub that is
\* still to do, and the version in package.json.
Parts == {"section", "todo", "bump"}

\* HEAD of clone c is on a release branch, or on its main, which is 0; `tree` is
\* what the working tree has that HEAD has not.
Here(c) == IF clone[c].on = 0 THEN {} ELSE clone[c].branch[clone[c].on].holds
InTree(c) == Here(c) \cup clone[c].tree

Bare(carried) == [by |-> None, from |-> carried, holds |-> {}]

ReleaseInit ==
    /\ mainLine = <<[carries |-> 0, holds |-> {}]>>
    /\ branches = Nothing /\ pulls = {} /\ pushed = Nothing /\ builds = Nothing
    /\ published = {}
    /\ clone = [c \in Clones |-> [on |-> 0, main |-> 1, tree |-> {}, branch |-> Nothing,
                                  tags |-> Nothing]]
    /\ cutting = Nothing /\ begun = 0

Tip == mainLine[Len(mainLine)]

PullsOf(v) == {p \in pulls : p.of = v}

\* pr_pick: an open or merged pull request is the release's, if there is but one.
Live(v) == {p \in PullsOf(v) : p.state \in {"OPEN", "MERGED"}}
TheOne(v, p) == Live(v) = {p}

Cutting(c, pc) == c \in DOMAIN cutting /\ cutting[c].pc = pc
Onward(c, pc) == cutting' = [cutting EXCEPT ![c].pc = pc]

BeginCutting(c, v, pc, last, sha) ==
    /\ c \notin DOMAIN cutting /\ begun < MaxBegun
    /\ cutting' = Put(cutting, c, [of |-> v, pc |-> pc, last |-> last, sha |-> sha])
    /\ begun' = begun + 1

OnGitHub == <<mainLine, branches, pulls, pushed, builds, published>>
-----------------------------------------------------------------------------
\* A fresh start.

\* git fetch --tags refuses to change a tag of the clone.
TagsAgree(c, vs) == \A v \in vs \cap DOMAIN clone[c].tags : clone[c].tags[v] = pushed[v]

WithTags(c, vs) ==
    LET tags == [v \in DOMAIN clone[c].tags \cup vs |->
                    IF v \in vs THEN pushed[v] ELSE clone[c].tags[v]] IN
    [clone EXCEPT ![c] = [clone[c] EXCEPT !.tags = tags]]

\* Of the remote's tags and the clone's.
highestTag(c) == Max({0} \cup DOMAIN pushed \cup DOMAIN clone[c].tags)

\* step_preflight, and step_version up to its question.
preflight(c) ==
    /\ clone[c].tree = {} /\ clone[c].on = 0
    /\ clone[c].main = Len(mainLine)
    /\ TagsAgree(c, DOMAIN pushed)
    /\ mainLine[clone[c].main].carries <= highestTag(c)
    /\ BeginCutting(c, 0, "version", highestTag(c), 0)
    /\ clone' = WithTags(c, DOMAIN pushed)
    /\ UNCHANGED OnGitHub

\* "Every trace an earlier attempt at this version can have left."
NoTrace(c, v) ==
    /\ v \notin DOMAIN clone[c].tags \cup DOMAIN pushed
    /\ v \notin DOMAIN clone[c].branch \cup DOMAIN branches
    /\ PullsOf(v) = {}
    /\ v > mainLine[clone[c].main].carries
    /\ v \notin published

chooseVersion(c, v) ==
    /\ Cutting(c, "version")
    /\ v > cutting[c].last
    /\ NoTrace(c, v)
    /\ cutting' = [cutting EXCEPT ![c] = [cutting[c] EXCEPT !.of = v, !.pc = "branch",
                                                           !.last = 0]]
    /\ UNCHANGED <<OnGitHub, clone, begun>>

\* step_prepare
switchBranch(c) ==
    /\ Cutting(c, "branch")
    /\ LET v == cutting[c].of
           bare == Bare(mainLine[clone[c].main].carries) IN
       clone' = [clone EXCEPT ![c] = [clone[c] EXCEPT
                    !.on = v, !.branch = Put(clone[c].branch, v, bare)]]
    /\ Onward(c, "section")
    /\ UNCHANGED <<OnGitHub, begun>>

Write(c, parts, next) ==
    /\ clone' = [clone EXCEPT ![c] = [clone[c] EXCEPT !.tree = clone[c].tree \cup parts]]
    /\ Onward(c, next)
    /\ UNCHANGED <<OnGitHub, begun>>

\* With new migrations and no upgrade notes, a stub that is a TODO.
rewriteChangelog(c) ==
    /\ Cutting(c, "section")
    /\ \E stub \in SUBSET {"todo"} : Write(c, {"section"} \cup stub, "bump")

npmVersion(c) == Cutting(c, "bump") /\ Write(c, {"bump"}, "todo")

\* The example tags, the summary, and ensure_no_todo, which asks until it is done
fillIn(c) ==
    /\ Cutting(c, "todo")
    /\ clone' = [clone EXCEPT ![c] = [clone[c] EXCEPT !.tree = clone[c].tree \ {"todo"}]]
    /\ Onward(c, "commit")
    /\ UNCHANGED <<OnGitHub, begun>>

\* step_commit_pr
commit(c) ==
    /\ Cutting(c, "commit")
    /\ "todo" \notin InTree(c)
    /\ LET v == cutting[c].of
           committed == [clone[c].branch[v] EXCEPT !.by = c, !.holds = InTree(c)] IN
       clone' = IF clone[c].tree = {} THEN clone
                ELSE [clone EXCEPT ![c] = [clone[c] EXCEPT
                         !.tree = {}, !.branch = Put(clone[c].branch, v, committed)]]
    /\ Onward(c, "push")
    /\ UNCHANGED <<OnGitHub, begun>>

\* A branch that another clone has pushed is not overwritten.
push(c) ==
    /\ Cutting(c, "push")
    /\ LET v == cutting[c].of
           ours == clone[c].branch[v] IN
       /\ v \in DOMAIN branches => branches[v] = ours
       /\ branches' = Put(branches, v, ours)
    /\ Onward(c, "open")
    /\ UNCHANGED <<mainLine, pulls, pushed, builds, published, clone, begun>>

\* GitHub has one open pull request of a branch.
openPull(c) ==
    /\ Cutting(c, "open")
    /\ LET v == cutting[c].of IN
       /\ v \in DOMAIN branches
       /\ \A p \in PullsOf(v) : p.state # "OPEN"
       /\ pulls' = pulls \cup {[of |-> v, head |-> branches[v], state |-> "OPEN", at |-> 0]}
    /\ Onward(c, "merge")
    /\ UNCHANGED <<mainLine, branches, pushed, builds, published, clone, begun>>

-----------------------------------------------------------------------------
\* From the merge on

\* wait_for_merge: polled until the owner has merged it.
seeMerged(c) ==
    /\ Cutting(c, "merge")
    /\ \E p \in PullsOf(cutting[c].of) :
          /\ TheOne(cutting[c].of, p) /\ p.state = "MERGED"
          /\ cutting' = [cutting EXCEPT ![c] = [cutting[c] EXCEPT !.pc = "tag", !.sha = p.at]]
    /\ UNCHANGED <<OnGitHub, clone, begun>>

\* release_commit_ok: on main, and it carries the bump.
ReleaseCommitOk(sha, v) ==
    /\ sha \in DOMAIN mainLine
    /\ mainLine[sha].carries = v
    /\ "section" \in mainLine[sha].holds

\* step_tag, up to its question: the tag is pushed already, or may be made.
mayTag(c) ==
    /\ Cutting(c, "tag")
    /\ LET v == cutting[c].of
           sha == cutting[c].sha IN
       /\ ReleaseCommitOk(sha, v)
       /\ IF v \in DOMAIN pushed
          THEN pushed[v].at = sha /\ Onward(c, "images")
          ELSE /\ v \in DOMAIN clone[c].tags => clone[c].tags[v].at = sha
               /\ Onward(c, "tagHere")
    /\ UNCHANGED <<OnGitHub, clone, begun>>

tagHere(c) ==
    /\ Cutting(c, "tagHere")
    /\ LET v == cutting[c].of
           made == [at |-> cutting[c].sha, by |-> c] IN
       clone' = IF v \in DOMAIN clone[c].tags THEN clone
                ELSE [clone EXCEPT ![c] = [clone[c] EXCEPT
                         !.tags = Put(clone[c].tags, v, made)]]
    /\ Onward(c, "pushTag")
    /\ UNCHANGED <<OnGitHub, begun>>

\* A tag that is there is not moved; a new one starts the image build.
TagArrives(v, t) ==
    /\ pushed' = Put(pushed, v, t)
    /\ builds' = Put(builds, v, "under way")

pushTag(c) ==
    /\ Cutting(c, "pushTag")
    /\ LET v == cutting[c].of
           ours == clone[c].tags[v] IN
       IF v \in DOMAIN pushed THEN pushed[v] = ours /\ UNCHANGED <<pushed, builds>>
                              ELSE TagArrives(v, ours)
    /\ Onward(c, "images")
    /\ UNCHANGED <<mainLine, branches, pulls, published, clone, begun>>

\* step_wait_images: the run has succeeded and every image exists.
imagesThere(c) ==
    /\ Cutting(c, "images")
    /\ LET v == cutting[c].of IN
       v \in DOMAIN builds /\ builds[v] = "success"
    /\ Onward(c, "publish")
    /\ UNCHANGED <<OnGitHub, clone, begun>>

\* step_publish; gh creates no second release, and none without its tag.
publish(c) ==
    /\ Cutting(c, "publish")
    /\ LET v == cutting[c].of IN
       v \in DOMAIN pushed \ published /\ published' = published \cup {v}
    /\ cutting' = Drop(cutting, c)
    /\ UNCHANGED <<mainLine, branches, pulls, pushed, builds, clone, begun>>

stopCutting(c) ==
    /\ c \in DOMAIN cutting
    /\ cutting' = Drop(cutting, c)
    /\ UNCHANGED <<OnGitHub, clone, begun>>
-----------------------------------------------------------------------------
\* --continue: the furthest thing that exists decides.

continueAnyTag(c, v) ==
    /\ v \in DOMAIN pushed \ published
    /\ TagsAgree(c, {v}) /\ clone' = WithTags(c, {v})
    /\ ReleaseCommitOk(pushed[v].at, v)
    /\ BeginCutting(c, v, "images", 0, pushed[v].at)
    /\ UNCHANGED OnGitHub

continueTagged(c, v) ==
    /\ v \in DOMAIN pushed \ published
    /\ TagsAgree(c, {v}) /\ clone' = WithTags(c, {v})
    /\ Cardinality(Live(v)) <= 1
    /\ \A p \in Live(v) : p.state = "MERGED" => p.at = pushed[v].at
    /\ ReleaseCommitOk(pushed[v].at, v)
    /\ BeginCutting(c, v, "images", 0, pushed[v].at)
    /\ UNCHANGED OnGitHub

continuePull(c, v) ==
    /\ v \notin DOMAIN pushed
    /\ \E p \in PullsOf(v) :
          /\ TheOne(v, p)
          /\ BeginCutting(c, v, IF p.state = "MERGED" THEN "tag" ELSE "merge", 0, p.at)
    /\ UNCHANGED <<OnGitHub, clone>>

\* The branch is all there is, here or on the remote.
continueBranch(c, v) ==
    LET here == v \in DOMAIN clone[c].branch IN
    /\ v \notin DOMAIN pushed /\ PullsOf(v) = {}
    /\ here \/ v \in DOMAIN branches
    /\ (here /\ clone[c].on = v) \/ clone[c].tree = {}
    /\ clone' = [clone EXCEPT ![c] = [clone[c] EXCEPT
                    !.on = v, !.branch = IF here THEN clone[c].branch
                                         ELSE Put(clone[c].branch, v, branches[v])]]
    /\ IF {"section", "bump"} \subseteq InTree(c)'
       THEN BeginCutting(c, v, "todo", 0, 0)
       ELSE c \notin DOMAIN cutting /\ UNCHANGED <<cutting, begun>>
    /\ UNCHANGED OnGitHub
-----------------------------------------------------------------------------
\* Everyone else

NotTheWizards == UNCHANGED <<cutting, begun>>

\* The owner merges what GitHub can merge: package.json is changed on one side
\* only, or on both alike.  The branch may go with it.
GoesOrStays(v) == branches' \in {branches, Drop(branches, v)}

merge(p) ==
    /\ p.state = "OPEN" /\ Len(mainLine) < MaxMain
    /\ Tip.carries \in {p.head.from, p.of}
    /\ mainLine' = Append(mainLine, [carries |-> p.of, holds |-> p.head.holds])
    /\ pulls' = (pulls \ {p}) \cup {[p EXCEPT !.state = "MERGED", !.at = Len(mainLine')]}
    /\ GoesOrStays(p.of)
    /\ NotTheWizards /\ UNCHANGED <<pushed, builds, published, clone>>

close(p) ==
    /\ p.state = "OPEN"
    /\ pulls' = (pulls \ {p}) \cup {[p EXCEPT !.state = "CLOSED"]}
    /\ GoesOrStays(p.of)
    /\ NotTheWizards /\ UNCHANGED <<mainLine, pushed, builds, published, clone>>

reopen(p) ==
    /\ p.state = "CLOSED" /\ p.of \in DOMAIN branches
    /\ \A o \in PullsOf(p.of) : o.state # "OPEN"
    /\ pulls' = (pulls \ {p}) \cup {[p EXCEPT !.state = "OPEN"]}
    /\ NotTheWizards /\ UNCHANGED <<mainLine, branches, pushed, builds, published, clone>>

othersWork ==
    /\ Len(mainLine) < MaxMain
    /\ mainLine' = Append(mainLine, Tip)
    /\ NotTheWizards /\ UNCHANGED <<branches, pulls, pushed, builds, published, clone>>

\* "A tag can be put on anything."  BOUND: one by
\* hand, of a version that has been merged.
handTag(v, at) ==
    /\ v \notin DOMAIN pushed
    /\ \E p \in PullsOf(v) : p.state = "MERGED"
    /\ \A w \in DOMAIN pushed : pushed[w].by # None
    /\ TagArrives(v, [at |-> at, by |-> None])
    /\ NotTheWizards /\ UNCHANGED <<mainLine, branches, pulls, published, clone>>

\* The workflow pushes, then signs, then scans; one that fails can be run again,
\* and is as one under way to a wizard that asks.
build(v) ==
    /\ \/ builds[v] = "under way" /\ builds' = [builds EXCEPT ![v] = "pushed"]
       \/ builds[v] = "pushed" /\ builds' = [builds EXCEPT ![v] = "success"]
    /\ NotTheWizards /\ UNCHANGED <<mainLine, branches, pulls, pushed, published, clone>>

\* Back to main, level with the remote; a branch not prepared to the end is
\* deleted with what the tree had of it.
tidy(c) ==
    /\ c \notin DOMAIN cutting /\ begun < MaxBegun
    /\ \E drop \in BOOLEAN :
          /\ drop \/ clone[c].tree = {}
          /\ clone' = [clone EXCEPT ![c] = [clone[c] EXCEPT
                          !.on = 0, !.main = Len(mainLine), !.tree = {},
                          !.branch = IF drop THEN Drop(clone[c].branch, clone[c].on)
                                     ELSE clone[c].branch]]
    /\ NotTheWizards /\ UNCHANGED OnGitHub

ReleaseNext ==
    \/ \E c \in Clones :
          \/ preflight(c) \/ switchBranch(c) \/ rewriteChangelog(c)
          \/ npmVersion(c) \/ fillIn(c) \/ commit(c)
          \/ push(c) \/ openPull(c) \/ seeMerged(c) \/ mayTag(c) \/ tagHere(c) \/ pushTag(c)
          \/ imagesThere(c) \/ publish(c) \/ stopCutting(c) \/ tidy(c)
          \/ \E v \in Versions :
                \/ chooseVersion(c, v)
                \/ continueTagged(c, v) \/ continuePull(c, v) \/ continueBranch(c, v)
    \/ \E p \in pulls : merge(p) \/ close(p) \/ reopen(p)
    \/ othersWork
    \/ \E v \in Versions : \E at \in 0 .. Len(mainLine) : handTag(v, at)
    \/ \E v \in DOMAIN builds : build(v)

ReleaseSpec == ReleaseInit /\ [][ReleaseNext]_releaseVars
-----------------------------------------------------------------------------
\* Whatever was prepared, cut short and gone on with, in whichever clone, and
\* whatever was merged or tagged by hand meanwhile: a published version names the
\* merge commit of its one pull request, on main, carrying it, with no upgrade
\* notes left to do; its image run has succeeded; and no version that main
\* carried before it is without a tag, on GitHub or in the clone that made it.
ReleasedAsMerged ==
    \A v \in published :
        LET sha == pushed[v].at IN
        /\ \E p \in PullsOf(v) : p.state = "MERGED" /\ p.at = sha
        /\ mainLine[sha].carries = v /\ "todo" \notin mainLine[sha].holds
        /\ builds[v] = "success"
        /\ \A i \in 1 .. sha :
              \/ mainLine[i].carries \in {0} \cup DOMAIN pushed
              \/ \E c \in Clones : mainLine[i].carries \in DOMAIN clone[c].tags
=============================================================================
