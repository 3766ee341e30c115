---------------------------- MODULE UploadSlots ----------------------------
(***************************************************************************)
(* The gate of src/lib/upload-slots.ts: at most MaxActive models are held  *)
(* in memory by one process, at most MaxWaiting more requests wait for a   *)
(* place, and the two doors that hold a model (src/app/api/upload/route.ts *)
(* and src/app/api/import/route.ts) share it.                              *)
(*                                                                         *)
(* JavaScript runs acquireSlot, releaseSlot and the waiter's callback      *)
(* without interruption, so each is one action.  What interleaves is the   *)
(* code between them: a request whose promise was resolved by a release    *)
(* runs its body later.                                                    *)
(***************************************************************************)
EXTENDS Integers, Sequences, FiniteSets

CONSTANTS
    Uploads,      \* the uploads and imports that come in at one process
    MaxActive,    \* MAX_CONCURRENT_UPLOADS
    MaxWaiting    \* MAX_QUEUED_UPLOADS

ASSUME GateAssumption ==
    /\ IsFiniteSet(Uploads)
    /\ MaxActive \in Nat \ {0}
    /\ MaxWaiting \in Nat

VARIABLES
    active,    \* gate.active, a plain number
    waiting,   \* gate.waiting, the queue of callbacks, one per request
    stage      \* where each request is

gateVars == <<active, waiting, stage>>

(* "away"    : no request, or one that has been answered                   *)
(* "waiting" : its promise is pending, its callback is in gate.waiting     *)
(* "granted" : its promise resolved to true, the handler is still to resume *)
(* "working" : inside try { ... }: reading the body, fetching, storing     *)
Places == {"away", "waiting", "granted", "working"}

GateTypeOK ==
    /\ active \in Nat
    /\ waiting \in Seq(Uploads)
    /\ stage \in [Uploads -> Places]

GateInit ==
    /\ active = 0
    /\ waiting = <<>>
    /\ stage = [r \in Uploads |-> "away"]

-----------------------------------------------------------------------------

\* acquireSlot: a slot is free, whoever waits or does not.
Acquire(r) ==
    /\ stage[r] = "away"
    /\ active < MaxActive
    /\ active' = active + 1
    /\ stage' = [stage EXCEPT ![r] = "granted"]
    /\ UNCHANGED waiting

\* acquireSlot: every slot is taken but the queue has room.
Enqueue(r) ==
    /\ stage[r] = "away"
    /\ active >= MaxActive
    /\ Len(waiting) < MaxWaiting
    /\ waiting' = Append(waiting, r)
    /\ stage' = [stage EXCEPT ![r] = "waiting"]
    /\ UNCHANGED active

\* acquireSlot: slots and queue are full; the door answers 503 and the
\* request is over.  Nothing changes.
Refuse(r) ==
    /\ stage[r] = "away"
    /\ active >= MaxActive
    /\ Len(waiting) >= MaxWaiting
    /\ UNCHANGED gateVars

\* The handler goes on after `await acquireSlot()`.  Also when its client has
\* long gone: nothing takes a waiter out of the queue but its turn.
Resume(r) ==
    /\ stage[r] = "granted"
    /\ stage' = [stage EXCEPT ![r] = "working"]
    /\ UNCHANGED <<active, waiting>>

\* releaseSlot: the place is given back and, when somebody waits, handed to
\* the longest waiting in the same turn; that callback counts it again.
HandBack == active - 1

WakeNextUncounted ==
    /\ waiting # <<>>
    /\ active' = HandBack
    /\ waiting' = Tail(waiting)

WakeNext ==
    /\ waiting # <<>>
    /\ active' = HandBack + 1
    /\ waiting' = Tail(waiting)

WakeNobody ==
    /\ waiting = <<>>
    /\ active' = HandBack
    /\ UNCHANGED waiting

ReleaseWithoutWaking(r) ==
    /\ stage[r] = "working"
    /\ active' = HandBack
    /\ stage' = [stage EXCEPT ![r] = "away"]
    /\ UNCHANGED waiting

ReleaseToLast(r) ==
    /\ stage[r] = "working"
    /\ \/ /\ waiting # <<>>
          /\ waiting' = SubSeq(waiting, 1, Len(waiting) - 1)
          /\ stage' = [stage EXCEPT ![r] = "away", ![waiting[Len(waiting)]] = "granted"]
          /\ UNCHANGED active
       \/ /\ WakeNobody
          /\ stage' = [stage EXCEPT ![r] = "away"]

\* `finally { releaseSlot() }`: however the body of try ended.
Release(r) ==
    /\ stage[r] = "working"
    /\ \/ /\ WakeNext
          /\ stage' = [stage EXCEPT ![r] = "away", ![Head(waiting)] = "granted"]
       \/ /\ WakeNobody
          /\ stage' = [stage EXCEPT ![r] = "away"]

GateNext ==
    \E r \in Uploads :
        Acquire(r) \/ Enqueue(r) \/ Refuse(r) \/ Resume(r) \/ Release(r)

GateSpec == GateInit /\ [][GateNext]_gateVars

\* What the code justifies: a resolved promise resumes its handler, and a
\* handler inside try ends (the body arrives or the server's request timeout
\* ends it, a fetch carries AbortSignal.timeout), so that finally runs.
Fairness == \A r \in Uploads : WF_gateVars(Resume(r)) /\ WF_gateVars(Release(r))

FairGateSpec == GateSpec /\ Fairness

-----------------------------------------------------------------------------
\* The requests that hold a place in memory, or have been promised one.
Holders == {r \in Uploads : stage[r] \in {"granted", "working"}}

InQueue == {waiting[i] : i \in DOMAIN waiting}

\* The counter is the number of holders and never passes the limit: the
\* bound on memory the gate exists for.  A release that hands a place over
\* must neither lose it nor count it twice.
BoundedMemory ==
    /\ active = Cardinality(Holders)
    /\ active <= MaxActive

\* No lost wake-up: nobody waits while a place is free, so a waiter can
\* always count on some holder's release to let it in.
NobodyWaitsInVain == waiting # <<>> => active = MaxActive

\* The queue holds exactly the waiting requests, each once, and is bounded.
QueueIsWaiters ==
    /\ InQueue = {r \in Uploads : stage[r] = "waiting"}
    /\ \A i, j \in DOMAIN waiting : waiting[i] = waiting[j] => i = j
    /\ Len(waiting) <= MaxWaiting

\* First come, first served across both doors: a request that gets a place
\* either finds nobody waiting, or was the longest waiting.
NoOvertaking ==
    [][\A r \in Uploads :
          r \in Holders' \ Holders =>
              \/ waiting = <<>>
              \/ r = Head(waiting)]_gateVars

\* "A late arrival waits rather than being refused": whoever queued is let
\* in sooner or later.
WaiterGetsIn ==
    \A r \in Uploads : stage[r] = "waiting" ~> stage[r] = "working"
=============================================================================
