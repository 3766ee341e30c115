------------------------------ MODULE FullTest ------------------------------
(***************************************************************************)
(* scripts/full-test.sh: a throwaway stack under the one set of container  *)
(* names a machine has, on generated env files, beside what a developer    *)
(* had there before, which is to be put back however the run ends.         *)
(*                                                                         *)
(* What is written to the git directory (the copies of the env files, the  *)
(* list of the containers set aside) is all that outlives a killed run.    *)
(* Left out: ports, the data directory, logs and verdicts; whether a step  *)
(* passes is a free choice.                                                *)
(***************************************************************************)
EXTENDS Handlers, Sequences, FiniteSets

Seqs == INSTANCE SequencesExt

CONSTANTS
    StackNames,     \* STACK_NAMES, the container names of the compose files
    App,            \* ... and the one that answers on :3000
    AtOnce          \* whether runs in one checkout may overlap

ASSUME FullTestAssumption ==
    IsFiniteSet(StackNames) /\ App \in StackNames /\ AtOnce \in BOOLEAN

VARIABLES
    envFile,        \* the env files: "mine", "made" or "half", or None
    original,       \* history: what the developer had there
    copies,         \* SAVED: a copy, or the mark that there was none, per file
    container,      \* docker: whose each container is, and whether it runs
    theirs,         \* history: the names that were taken, and whether they ran
    parked,         \* PARKED: the containers set aside, and whether they ran
    leftWhole       \* history: whoever ended last was neither killed nor did a
                    \* step of its putting back fail

testVars == <<envFile, original, copies, container, theirs, parked, leftWhole>>

ENV_FILES == <<".env", ".env.backup", ".env.docker">>

SAVED == "ppp-full-test-saved"      \* the directory itself

Own(n) == <<n, "">>
Aside(n) == <<n, "-parked-by-full-test">>

Of(owner) == {x \in DOMAIN container : container[x].of = owner}
Without(xs) == Restrict(container, DOMAIN container \ xs)
Renamed(x, y) == Put(Drop(container, x), y, container[x])

FullTestInit ==
    /\ original \in [Range(ENV_FILES) -> {"mine", None}] /\ envFile = original
    /\ copies = Nothing /\ parked = << >>
    /\ theirs \in UNION {[names -> BOOLEAN] : names \in SUBSET StackNames}
    /\ container = [x \in {Own(n) : n \in DOMAIN theirs} |->
                       [of |-> "theirs", running |-> theirs[x[1]]]]
    /\ leftWhole = TRUE

Is(q, pc) == q \in DOMAIN job /\ job[q].pc = pc
Rest(q) == Tail(job[q].todo)
Current(q) == Head(job[q].todo)
Goes(q, pc, todo) == job' = [job EXCEPT ![q] = [job[q] EXCEPT !.pc = pc, !.todo = todo]]
Onwards(q, todo) == Goes(q, job[q].pc, todo)

Known == UNCHANGED <<original, theirs>>
Quietly == UNCHANGED <<mishaps, leftWhole>>

Leaves(q, whole) == End(q) /\ leftWhole' = whole

Process(op, pc, aside) ==
    [op |-> op, pc |-> pc, todo |-> << >>, aside |-> aside,
     saving |-> op = "fullTest", raised |-> FALSE, bad |-> FALSE, hurt |-> FALSE]
-----------------------------------------------------------------------------
\* A run, up to the suites.  `saving` holds until save_env has returned.

\* What a killed run left is --restore's.  Any other stack is to be set aside.
preflight(q) ==
    /\ AtOnce \/ job = Nothing
    /\ copies = Nothing /\ parked = << >>
    /\ \A n \in StackNames : Own(n) \notin Of("test")
    /\ LET taken == {n \in StackNames : Own(n) \in DOMAIN container} IN
       \E aside \in Bijection(1 .. Cardinality(taken), taken) :
          Begin(q, Process("fullTest", "gates", aside))
    /\ Quietly /\ UNCHANGED testVars

\* save_env: mkdir, after the static gates.  It fails if somebody has saved since.
makeSaved(q) ==
    /\ Is(q, "gates")
    /\ IF copies = Nothing
       THEN copies' = Put(copies, SAVED, "directory") /\ Goes(q, "save", ENV_FILES)
       ELSE UNCHANGED copies /\ Goes(q, "down", << >>)
    /\ Known /\ Quietly /\ UNCHANGED <<envFile, container, parked>>

\* A copy under its name is whole; no file leaves the mark `.absent`.
saveFile(q) ==
    /\ Is(q, "save") /\ job[q].todo # << >>
    /\ IF copies = Nothing
       THEN UNCHANGED copies /\ Goes(q, "down", << >>)
       ELSE copies' = Put(copies, Current(q), envFile[Current(q)]) /\ Onwards(q, Rest(q))
    /\ Known /\ Quietly /\ UNCHANGED <<envFile, container, parked>>

allSaved(q) ==
    /\ Is(q, "save") /\ job[q].todo = << >>
    /\ job' = [job EXCEPT ![q] = [job[q] EXCEPT !.saving = FALSE, !.pc = "clear",
                                           !.todo = ENV_FILES]]
    /\ Quietly /\ UNCHANGED testVars

clearFile(q) ==
    /\ Is(q, "clear") /\ job[q].todo # << >>
    /\ envFile' = [envFile EXCEPT ![Current(q)] = None]
    /\ Onwards(q, Rest(q))
    /\ Known /\ Quietly /\ UNCHANGED <<copies, container, parked>>

writeEnv(q) ==
    /\ Is(q, "clear") /\ job[q].todo = << >>
    /\ envFile' = [envFile EXCEPT ![".env.docker"] = "made"]
    /\ Goes(q, "park", job[q].aside)
    /\ Known /\ Quietly /\ UNCHANGED <<copies, container, parked>>

\* park: listed, stopped if it runs, renamed; one container after another
listContainer(q) ==
    /\ Is(q, "park") /\ job[q].todo # << >>
    /\ LET x == Own(Current(q)) IN
       IF x \in DOMAIN container
       THEN /\ parked' = Append(parked, [name |-> x[1], ran |-> container[x].running])
            /\ GoTo(q, "stop")
       ELSE UNCHANGED parked /\ Onwards(q, Rest(q))
    /\ Known /\ Quietly /\ UNCHANGED <<envFile, copies, container>>

stopContainer(q) ==
    /\ Is(q, "stop") /\ Own(Current(q)) \in DOMAIN container
    /\ container' = [container EXCEPT ![Own(Current(q))].running = FALSE]
    /\ GoTo(q, "rename")
    /\ Known /\ Quietly /\ UNCHANGED <<envFile, copies, parked>>

renameAside(q) ==
    /\ Is(q, "rename")
    /\ LET x == Own(Current(q))
           y == Aside(Current(q)) IN
       /\ x \in DOMAIN container /\ y \notin DOMAIN container
       /\ container' = Renamed(x, y)
    /\ Goes(q, "park", Rest(q))
    /\ Known /\ Quietly /\ UNCHANGED <<envFile, copies, parked>>

\* compose up: a name that somebody else holds stops it; it, or the wait for
\* health, may stop by itself.
bringUp(q) ==
    /\ Is(q, "park") /\ job[q].todo = << >>
    /\ \E made \in SUBSET {x \in {Own(n) : n \in StackNames} : x \notin DOMAIN container} :
          container' = [x \in DOMAIN container \cup made |->
                           IF x \in made THEN [of |-> "test", running |-> TRUE]
                                         ELSE container[x]]
    /\ \E next \in {"own", "down"} :
          /\ next = "own" => \A n \in StackNames : Own(n) \in DOMAIN container'
                                                   /\ container'[Own(n)].of = "test"
          /\ job' = [job EXCEPT ![q] = [job[q] EXCEPT !.raised = TRUE, !.pc = next]]
    /\ Known /\ Quietly /\ UNCHANGED <<envFile, copies, parked>>

\* owns_the_stack
ownStack(q) ==
    /\ Is(q, "own")
    /\ GoTo(q, IF Own(App) \in Of("test") THEN "point" ELSE "down")
    /\ Quietly /\ UNCHANGED testVars

\* env:container, which keeps an .env that is there as .env.backup
pointEnv(q) ==
    /\ Is(q, "point")
    /\ envFile' = [envFile EXCEPT ![".env"] = "made",
                                  ![".env.backup"] = IF envFile[".env"] = None THEN @
                                                     ELSE envFile[".env"]]
    /\ GoTo(q, "suites")
    /\ Known /\ Quietly /\ UNCHANGED <<copies, container, parked>>

\* The end of the suites, or of a step that fails.
finish(q) ==
    /\ Is(q, "suites") \/ Is(q, "point")
    /\ GoTo(q, "down")
    /\ Quietly /\ UNCHANGED testVars

\* A full disk while copying, or docker refusing to stop or to rename; it does,
\* when the container has gone or its other name is taken.
Refused(q) ==
    \/ (Is(q, "stop") \/ Is(q, "rename")) /\ Own(Current(q)) \notin DOMAIN container
    \/ Is(q, "rename") /\ Aside(Current(q)) \in DOMAIN container

prepareFails(q) ==
    /\ Is(q, "save") \/ Is(q, "stop") \/ Is(q, "rename")
    /\ Mishap \/ (Refused(q) /\ UNCHANGED mishaps)
    /\ Goes(q, "down", << >>)
    /\ UNCHANGED testVars

\* Ctrl-C, from anywhere but the cleanup: the trap is set when the gates are passed.
interrupt(q) ==
    /\ q \in DOMAIN job /\ job[q].op = "fullTest"
    /\ \/ Is(q, "gates") /\ End(q)
       \/ /\ job[q].pc \in {"save", "clear", "park", "stop", "rename", "own", "point", "suites"}
          /\ Goes(q, "down", << >>)
    /\ Quietly /\ UNCHANGED testVars
-----------------------------------------------------------------------------
\* cleanup, and what it shares with --restore

\* The list is read once, and gone through backwards.
Unparking(q) == Goes(q, "unpark", Seqs!Reverse(parked))

takeDown(q) ==
    /\ Is(q, "down")
    /\ container' = IF job[q].raised THEN Without(Of("test")) ELSE container
    /\ Unparking(q)
    /\ Known /\ Quietly /\ UNCHANGED <<envFile, copies, parked>>

takeDownFails(q) ==
    /\ Is(q, "down") /\ job[q].raised /\ Mishap
    /\ \E gone \in SUBSET Of("test") : container' = Without(gone)
    /\ job' = [job EXCEPT ![q] = [job[q] EXCEPT !.pc = "unpark", !.todo = Seqs!Reverse(parked),
                                           !.hurt = TRUE]]
    /\ Known /\ UNCHANGED <<envFile, copies, parked, leftWhole>>

\* --restore, "for the run that was killed with -9 or lost its terminal"
beginRestore(q) ==
    /\ AtOnce \/ job = Nothing
    /\ Begin(q, Process("restore", "remove", << >>))
    /\ Quietly /\ UNCHANGED testVars

removeTest(q) ==
    /\ Is(q, "remove")
    /\ container' = Without(Of("test"))
    /\ Unparking(q)
    /\ Known /\ Quietly /\ UNCHANGED <<envFile, copies, parked>>

removeTestFails(q) ==
    /\ Is(q, "remove") /\ Mishap
    /\ \E gone \in SUBSET Of("test") : container' = Without(gone)
    /\ Leaves(q, FALSE)
    /\ Known /\ UNCHANGED <<envFile, copies, parked>>

NotBackUnmarked(q) ==
    job' = [job EXCEPT ![q] = [job[q] EXCEPT !.pc = "unpark", !.todo = Rest(q)]]

NotBack(q) == job' = [job EXCEPT ![q] = [job[q] EXCEPT !.pc = "unpark", !.todo = Rest(q),
                                                 !.bad = TRUE]]

giveNameBack(q) ==
    /\ Is(q, "unpark") /\ job[q].todo # << >>
    /\ LET x == Aside(Current(q).name)
           y == Own(Current(q).name) IN
       IF x \in DOMAIN container /\ y \in DOMAIN container
       THEN NotBack(q) /\ UNCHANGED container
       ELSE /\ container' = IF x \in DOMAIN container THEN Renamed(x, y) ELSE container
            /\ GoTo(q, "start")
    /\ Known /\ Quietly /\ UNCHANGED <<envFile, copies, parked>>

startAgain(q) ==
    /\ Is(q, "start")
    /\ LET y == Own(Current(q).name) IN
       IF Current(q).ran /\ y \notin DOMAIN container
       THEN NotBack(q) /\ UNCHANGED container
       ELSE /\ container' = IF Current(q).ran THEN [container EXCEPT ![y].running = TRUE]
                            ELSE container
            /\ Goes(q, "unpark", Rest(q))
    /\ Known /\ Quietly /\ UNCHANGED <<envFile, copies, parked>>

giveBackFails(q) ==
    /\ (Is(q, "unpark") /\ job[q].todo # << >>) \/ Is(q, "start")
    /\ Mishap /\ NotBack(q)
    /\ UNCHANGED testVars

\* The list is kept if anything could not be put back; --restore then ends.
unparked(q) ==
    /\ Is(q, "unpark") /\ job[q].todo = << >>
    /\ parked' = IF job[q].bad THEN parked ELSE << >>
    /\ IF job[q].bad /\ job[q].op = "restore" THEN Leaves(q, FALSE)
       ELSE /\ job' = [job EXCEPT ![q] = [job[q] EXCEPT
                          !.pc = IF job[q].saving THEN "discard" ELSE "restore",
                          !.todo = ENV_FILES, !.bad = FALSE,
                          !.hurt = job[q].hurt \/ job[q].bad]]
            /\ UNCHANGED leftWhole
    /\ Known /\ UNCHANGED <<envFile, copies, container, mishaps>>

\* restore_env; a file save_env never reached is left alone.
restoreFile(q) ==
    /\ Is(q, "restore") /\ job[q].todo # << >> /\ copies # Nothing
    /\ envFile' = IF Current(q) \in DOMAIN copies
                  THEN [envFile EXCEPT ![Current(q)] = copies[Current(q)]] ELSE envFile
    /\ Onwards(q, Rest(q))
    /\ Known /\ Quietly /\ UNCHANGED <<copies, container, parked>>

\* A copy stopped on its way leaves a part of the file, or of the old one.
PartOf(f) ==
    IF f \in DOMAIN copies /\ copies[f] # None
    THEN {envFile, [envFile EXCEPT ![f] = "half"]} ELSE {envFile}

restoreFails(q) ==
    /\ Is(q, "restore") /\ job[q].todo # << >> /\ copies # Nothing
    /\ Mishap
    /\ envFile' \in PartOf(Current(q))
    /\ job' = [job EXCEPT ![q] = [job[q] EXCEPT !.todo = Rest(q), !.bad = TRUE]]
    /\ Known /\ UNCHANGED <<copies, container, parked, leftWhole>>

restored(q) ==
    /\ Is(q, "restore")
    /\ job[q].todo = << >> \/ copies = Nothing
    /\ IF copies = Nothing \/ job[q].bad
       THEN Leaves(q, ~job[q].bad /\ ~job[q].hurt)
       ELSE GoTo(q, "discard") /\ UNCHANGED leftWhole
    /\ Known /\ UNCHANGED <<envFile, copies, container, parked, mishaps>>

\* rm -rf SAVED: once all is back, or if it was never finished
discard(q) ==
    /\ Is(q, "discard")
    /\ copies' = Nothing
    /\ Leaves(q, ~job[q].hurt)
    /\ Known /\ UNCHANGED <<envFile, container, parked, mishaps>>

\* kill -9, anywhere: copying and removing may be half done.
kill(q) ==
    /\ q \in DOMAIN job /\ Mishap
    /\ Leaves(q, FALSE)
    /\ IF Is(q, "restore") /\ job[q].todo # << >> THEN envFile' \in PartOf(Current(q))
       ELSE UNCHANGED envFile
    /\ IF Is(q, "discard") /\ copies # Nothing
       THEN \E left \in SUBSET DOMAIN copies :
               SAVED \in left /\ copies' = Restrict(copies, left)
       ELSE UNCHANGED copies
    /\ Known /\ UNCHANGED <<container, parked>>

FullTestNext ==
    \E q \in Requests :
       \/ preflight(q) \/ makeSaved(q) \/ saveFile(q) \/ allSaved(q) \/ clearFile(q)
       \/ writeEnv(q) \/ listContainer(q) \/ stopContainer(q) \/ renameAside(q)
       \/ bringUp(q) \/ ownStack(q) \/ pointEnv(q) \/ finish(q) \/ prepareFails(q)
       \/ interrupt(q) \/ takeDown(q) \/ takeDownFails(q)
       \/ beginRestore(q) \/ removeTest(q) \/ removeTestFails(q)
       \/ giveNameBack(q) \/ startAgain(q) \/ giveBackFails(q) \/ unparked(q)
       \/ restoreFile(q) \/ restoreFails(q) \/ restored(q) \/ discard(q) \/ kill(q)

FullTestSpec ==
    FullTestInit /\ job = Nothing /\ mishaps = 0
    /\ [][FullTestNext]_<<job, mishaps, testVars>>
-----------------------------------------------------------------------------
\* Each env file is as it was, or a copy of it waits in SAVED.
EnvFilesAreSafe ==
    \A f \in Range(ENV_FILES) :
       envFile[f] = original[f] \/ (f \in DOMAIN copies /\ copies[f] = original[f])

\* Each container of another stack is there once; it is as it was, or on the list
\* as it was.
TheirStackIsSafe ==
    \A n \in DOMAIN theirs :
       /\ Cardinality({Own(n), Aside(n)} \cap Of("theirs")) = 1
       /\ \/ /\ Own(n) \in Of("theirs") /\ container[Own(n)].running = theirs[n]
          \/ [name |-> n, ran |-> theirs[n]] \in Range(parked)

\* "The suites wipe users and tickets."
SuitesMeetTheTest ==
    \A q \in DOMAIN job : Is(q, "suites") =>
       envFile[".env"] = "made" /\ \A n \in StackNames : Own(n) \in Of("test")

AllIsBack ==
    /\ envFile = original /\ copies = Nothing
    /\ parked = << >> /\ Of("test") = {}

\* Whatever fails, is interrupted or is killed, in however many runs and
\* restorations one after another: nothing a developer had is lost, the suites
\* meet nothing but the stack raised for them, and whoever ends without being
\* killed and without a failure of its own putting back leaves all as it was.
WhatWasThereComesBack ==
    /\ EnvFilesAreSafe /\ TheirStackIsSafe /\ SuitesMeetTheTest
    /\ job = Nothing /\ leftWhole => AllIsBack

\* "puts the three env files back exactly as they were ... on success, on failure
\* and on Ctrl-C" (full-test.sh:28).
PutBackExactly == job = Nothing /\ mishaps = 0 => envFile = original
=============================================================================
