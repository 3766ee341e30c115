-------------------------- MODULE TicketLifecycle --------------------------
(***************************************************************************)
(* What src/lib/stories.ts promises about the life of a ticket, each       *)
(* change in one step: filed as Requested, moved forwards one status at a  *)
(* time, declined from Requested alone, withdrawn only before it reaches   *)
(* the bed, reordered only while it is on the rail.                        *)
(***************************************************************************)
EXTENDS StatusFlow, Naturals, Sequences

CONSTANTS Ids, Priorities

VARIABLES
    state,    \* per ticket: a status, "unfiled" before and "withdrawn" after
    prio      \* per ticket: its priority, "none" while there is no ticket

lvars == <<state, prio>>

NoPriority == "none"

LTypeOK ==
    /\ state \in [Ids -> Statuses \cup {"unfiled", "withdrawn"}]
    /\ prio \in [Ids -> Priorities \cup {NoPriority}]

LInit ==
    /\ state = [i \in Ids |-> "unfiled"]
    /\ prio = [i \in Ids |-> NoPriority]

File(i) ==
    /\ state[i] = "unfiled"
    /\ state' = [state EXCEPT ![i] = "Requested"]
    /\ \E p \in Priorities : prio' = [prio EXCEPT ![i] = p]

\* Forwards, one step of the flow.
StepForward(i) ==
    /\ \E k \in 1 .. Len(FLOW) - 1 :
          /\ state[i] = FLOW[k]
          /\ state' = [state EXCEPT ![i] = FLOW[k + 1]]
    /\ UNCHANGED prio

Decline(i) ==
    /\ state[i] = "Requested"
    /\ state' = [state EXCEPT ![i] = "Declined"]
    /\ UNCHANGED prio

Withdraw(i) ==
    /\ state[i] \in {"Requested", "Accepted", "Declined"}
    /\ state' = [state EXCEPT ![i] = "withdrawn"]
    /\ prio' = [prio EXCEPT ![i] = NoPriority]

Reprioritise(i) ==
    /\ state[i] \in Statuses
    /\ ~isTerminal(state[i])
    /\ \E p \in Priorities : prio' = [prio EXCEPT ![i] = p]
    /\ UNCHANGED state

LNext == \E i \in Ids : \/ File(i) \/ StepForward(i) \/ Decline(i)
                      \/ Withdraw(i) \/ Reprioritise(i)

LSpec == LInit /\ [][LNext]_lvars
=============================================================================
