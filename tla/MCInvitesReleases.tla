-------------------------- MODULE MCInvitesReleases --------------------------
(***************************************************************************)
(* The guest list and the release wizard for TLC.  They share nothing, and *)
(* each is small: a behaviour is about one of them.  Addresses, ids,       *)
(* requests and clones carry no order and no meaning of their own; nor do  *)
(* the tokens, but to permute them too costs a release more than it saves. *)
(***************************************************************************)
EXTENDS Invitations, ReleaseWizard, TLC

VARIABLE about      \* what the behaviour is about

\* A request on the one side is a clone on the other.
ASSUME SidesAssumption == Clones = Requests

Symmetry == Permutations(Emails) \cup Permutations(Invites)
                \cup Permutations(Requests)

SidesInit == Init /\ ReleaseInit /\ about \in {"invites", "releases"}

sidesVars == <<about, vars, releaseVars>>

TheInvites  == about = "invites" /\ Next /\ UNCHANGED <<about, releaseVars>>
TheReleases == about = "releases" /\ ReleaseNext /\ UNCHANGED <<about, vars>>

SidesSpec == SidesInit /\ [][TheInvites \/ TheReleases]_sidesVars
=============================================================================
