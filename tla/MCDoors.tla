------------------------------- MODULE MCDoors -------------------------------
(***************************************************************************)
(* Who is let in, and for how long, for TLC: the clock a session runs by   *)
(* and the access a person has.  The two share the session table; one is   *)
(* about its times, the other about its owners, so each behaviour looks at *)
(* one of them.                                                            *)
(***************************************************************************)
EXTENDS SessionClock, Access, TLC

VARIABLE door       \* what is looked at

\* What is in flight goes by the same names on both sides.
ASSUME DoorsAssumption == Jobs = Requests /\ Sessions \cap Tokens = {}

Symmetry == Permutations(Tokens) \cup Permutations(Requests) \cup Permutations(Clients)

DoorsInit ==
    /\ ClockInit /\ AccessInit
    /\ door \in {"clock", "access"}

doorsVars == <<door, vars, accessVars>>

AtTheClock  == door = "clock" /\ ClockNext /\ UNCHANGED <<door, accessVars>>
AtTheAccess == door = "access" /\ AccessNext /\ UNCHANGED <<door, vars>>

DoorsSpec == DoorsInit /\ [][AtTheClock \/ AtTheAccess]_doorsVars
=============================================================================
