------------------------------ MODULE Handlers ------------------------------
(***************************************************************************)
(* What the modules of the owner's and requesters' desks share: the table  *)
(* of the handlers in flight, each a record of what it does (`op`), where  *)
(* it is (`pc`) and what it holds in local variables across its awaits.    *)
(***************************************************************************)
EXTENDS Tables, Integers

CONSTANTS
    Requests,       \* BOUND: handlers in flight at a time
    MaxMishaps      \* BOUND: steps that fail by themselves, and crashes

ASSUME HandlersAssumption == MaxMishaps \in Nat

VARIABLES
    job,            \* the handlers in flight
    mishaps         \* history: failures and crashes so far

Begin(q, record) == q \in Requests \ DOMAIN job /\ job' = Put(job, q, record)

At(q, op, pc) == q \in DOMAIN job /\ job[q].op = op /\ job[q].pc = pc

GoTo(q, pc) == job' = [job EXCEPT ![q].pc = pc]

End(q) == job' = Drop(job, q)

InFlight(ops) == {q \in DOMAIN job : job[q].op \in ops}

Quiet(ops) == InFlight(ops) = {}

\* A call that fails by itself; the caller says what its handler does about it.
Mishap == mishaps < MaxMishaps /\ mishaps' = mishaps + 1

\* The process ends, and every handler in flight with it.
Crash == job # Nothing /\ Mishap /\ job' = Nothing
=============================================================================
