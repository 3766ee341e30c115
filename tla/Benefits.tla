------------------------------- MODULE Benefits -------------------------------
(***************************************************************************)
(* The benefits a requester can offer: src/lib/benefits.ts behind          *)
(* src/app/admin/benefits/actions.ts.  A change names one field, and       *)
(* nothing is written if the row as it was read has that value already.    *)
(* (`preferred` is written as `active` is, and left out, as is the order,  *)
(* which nothing but an addition changes.)                                 *)
(***************************************************************************)
EXTENDS Handlers, FiniteSets, TLC

CONSTANTS
    BenefitIds,     \* BOUND: benefits ever created
    Labels          \* what they may be called

ASSUME BenefitsAssumption ==
    None \notin BenefitIds \cup Labels /\ Labels \cap {"active", "retired"} = {}

VARIABLES
    benefit,        \* table benefit
    benefitTrail,   \* table auditEvent: what the rows say a field was changed to
    lastWord        \* history: what was last asked for of each field

benefitVars == <<benefit, benefitTrail, lastWord, job, mishaps>>

Benefit == [label: Labels, active: {"active", "retired"}]

BenefitOps == {"createBenefit", "updateBenefit"}

Fields == {"label", "active"}

BenefitJob == [op: BenefitOps, pc: {"write", "record"}, of: BenefitIds \cup {None},
               seen: Benefit, field: Fields, to: Labels \cup {"active", "retired"}]

\* No two of one name, whatever was looked at before.
BenefitTypeOK ==
    /\ DOMAIN benefit \subseteq BenefitIds
    /\ benefit \in [DOMAIN benefit -> Benefit]
    /\ \A b, c \in DOMAIN benefit : b # c => benefit[b].label # benefit[c].label
    /\ benefitTrail \subseteq [of: BenefitIds, field: Fields,
                               to: Labels \cup {"active", "retired"}]
    /\ lastWord \in [DOMAIN benefit -> Benefit]
    /\ \A q \in InFlight(BenefitOps) : job[q] \in BenefitJob

BenefitInit == benefit = Nothing /\ benefitTrail = {} /\ lastWord = Nothing

-----------------------------------------------------------------------------
createBenefit(q, label) ==
    /\ Begin(q, [op |-> "createBenefit", pc |-> "write", of |-> None,
                 seen |-> [label |-> label, active |-> "active"],
                 field |-> "label", to |-> label])
    /\ UNCHANGED <<benefit, benefitTrail, lastWord, mishaps>>

updateBenefit(q, b, field, to) ==
    /\ b \in DOMAIN benefit
    /\ to # benefit[b][field]
    /\ Begin(q, [op |-> "updateBenefit", pc |-> "write", of |-> b, seen |-> benefit[b],
                 field |-> field, to |-> to])
    /\ UNCHANGED <<benefit, benefitTrail, lastWord, mishaps>>

labelFree(j) == FALSE

LabelTaken(j) ==
    j.field = "label" /\ \E b \in DOMAIN benefit \ {j.of} : benefit[b].label = j.to

\* Any error of the insertion is told as a name already on the list.
insertBenefit(q) ==
    /\ At(q, "createBenefit", "write")
    /\ IF LabelTaken(job[q])
       THEN End(q) /\ UNCHANGED <<benefit, lastWord>>
       ELSE \E b \in BenefitIds \ DOMAIN benefit :
               /\ benefit' = Put(benefit, b, job[q].seen)
               /\ lastWord' = Put(lastWord, b, job[q].seen)
               /\ job' = [job EXCEPT ![q].pc = "record", ![q].of = b]
    /\ UNCHANGED <<benefitTrail, mishaps>>

\* The fields of the update: only what was asked for, over the row there is.
writtenBack(j) == [j.seen EXCEPT ![j.field] = j.to]

patched(j) == [benefit[j.of] EXCEPT ![j.field] = j.to]

writeBenefit(q) ==
    /\ At(q, "updateBenefit", "write")
    /\ LET j == job[q] IN
       IF LabelTaken(j)
       THEN End(q) /\ UNCHANGED <<benefit, lastWord>>
       ELSE /\ benefit' = [benefit EXCEPT ![j.of] = patched(j)]
            /\ lastWord' = [lastWord EXCEPT ![j.of][j.field] = j.to]
            /\ GoTo(q, "record")
    /\ UNCHANGED <<benefitTrail, mishaps>>

recordBenefit(q) ==
    /\ q \in InFlight(BenefitOps) /\ job[q].pc = "record"
    /\ benefitTrail' = benefitTrail \cup
          {[of |-> job[q].of, field |-> job[q].field, to |-> job[q].to]}
    /\ End(q)
    /\ UNCHANGED <<benefit, lastWord, mishaps>>

failBenefit(q) ==
    /\ q \in InFlight(BenefitOps)
    /\ Mishap
    /\ End(q)
    /\ UNCHANGED <<benefit, benefitTrail, lastWord>>

crashBenefits ==
    /\ Crash
    /\ UNCHANGED <<benefit, benefitTrail, lastWord>>

BenefitNext ==
    \/ \E q \in Requests \ DOMAIN job :
          \/ \E label \in Labels : createBenefit(q, label)
          \/ \E b \in BenefitIds :
                \/ \E label \in Labels : updateBenefit(q, b, "label", label)
                \/ \E to \in {"active", "retired"} : updateBenefit(q, b, "active", to)
    \/ \E q \in DOMAIN job :
          \/ insertBenefit(q) \/ writeBenefit(q) \/ recordBenefit(q) \/ failBenefit(q)
    \/ crashBenefits

BenefitSpec ==
    BenefitInit /\ job = Nothing /\ mishaps = 0 /\ [][BenefitNext]_benefitVars
-----------------------------------------------------------------------------
\* benefits.ts: a patch writes the fields it names.  However renaming, retiring
\* and bringing back overlap, no change undoes another field's: every field is
\* as it was last asked to be, and unless something failed the trail says so.
NoPatchUndoesAnother ==
    \A b \in DOMAIN benefit : \A field \in Fields :
        /\ benefit[b][field] = lastWord[b][field]
        /\ (Quiet(BenefitOps) /\ mishaps = 0 /\ benefit[b][field] # "active") =>
              [of |-> b, field |-> field, to |-> benefit[b][field]] \in benefitTrail
=============================================================================
