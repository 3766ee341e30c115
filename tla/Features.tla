------------------------------- MODULE Features -------------------------------
(***************************************************************************)
(* Feature requests: src/lib/features.ts behind src/app/actions/features.ts *)
(* The same board as a print's, with a flow of its own, no file, and rules *)
(* of its own for taking back and re-ranking.  Each operation reads and    *)
(* checks in its first step, and then writes one await at a time: the row, *)
(* the notice to the other side, the trail.                                *)
(***************************************************************************)
EXTENDS Handlers, FeatureFlow, Sequences, FiniteSets, TLC

CONSTANTS
    Members,        \* the people with an account ...
    PrinterOwner,   \* ... of whom one has the role admin
    FeatureIds      \* BOUND: requests ever filed

ASSUME FeaturesAssumption ==
    PrinterOwner \in Members /\ None \notin Members \cup FeatureIds

VARIABLES
    feature,        \* table featureRequest
    featureComment, \* table featureComment: about what, by whom
    featureNotice,  \* table notification: to whom, about what, which row it hangs on
    featureTrail,   \* table auditEvent: the rows about feature requests
    filed           \* history: every request ever filed, as long as it lived

featureVars ==
    <<feature, featureComment, featureNotice, featureTrail, filed, job, mishaps>>

FEATURE_PRIORITIES == {"low", "high"}

Feature == [requester: Members, status: FeatureStatuses, priority: FEATURE_PRIORITIES]

\* `hangs` is the foreign key, None for the one notice that has none.
FeatureNotice == [to: Members, of: FeatureIds, hangs: FeatureIds \cup {None},
                  what: {"filed", "withdrawn", "priority", "comment"} \cup FeatureStatuses]

FeatureClaim == [of: FeatureIds, by: Members,
                 what: {"created", "withdrawn", "priority", "comment"} \cup FeatureStatuses,
                 to: FEATURE_PRIORITIES \cup FeatureStatuses \cup {None}]

FeatureOps == {"createFeature", "withdrawFeature", "changeFeaturePriority",
               "moveFeature", "addFeatureComment"}

\* `seen` is the row as the handler read it; `to` the status or priority it is
\* about to write.
FeatureJob == [op: FeatureOps, pc: {"write", "notify", "record"}, by: Members,
               of: FeatureIds, seen: Feature,
               to: FEATURE_PRIORITIES \cup FeatureStatuses \cup {None}]

FeatureTypeOK ==
    /\ DOMAIN feature \subseteq FeatureIds /\ feature \in [DOMAIN feature -> Feature]
    /\ featureComment \subseteq [of: FeatureIds, by: Members]
    /\ featureNotice \subseteq FeatureNotice
    /\ featureTrail \subseteq FeatureClaim
    /\ \A q \in InFlight(FeatureOps) : job[q] \in FeatureJob
    /\ DOMAIN filed \subseteq FeatureIds
    /\ filed \in [DOMAIN filed -> [by: Members, been: SUBSET FeatureStatuses,
                                   ranked: FEATURE_PRIORITIES]]

FeatureInit ==
    /\ feature = Nothing
    /\ featureComment = {} /\ featureNotice = {} /\ featureTrail = {}
    /\ filed = Nothing

-----------------------------------------------------------------------------
\* Who sees what, and who is told

featureScope(u) == {f \in DOMAIN feature : u = PrinterOwner \/ feature[f].requester = u}

\* The other side, and nobody if that is oneself.
OtherSide(u, requester) ==
    (IF u = PrinterOwner THEN {requester} ELSE {PrinterOwner}) \ {u}

\* A move is told to the requester, be it the owner; a withdrawal to the owner
\* if nobody had looked at the request; all else to the other side.
Recipients(j) ==
    CASE j.op = "moveFeature"     -> {j.seen.requester}
      [] j.op = "createFeature"   -> {PrinterOwner} \ {j.by}
      [] j.op = "withdrawFeature" ->
            IF j.seen.status = "Requested" THEN {PrinterOwner} \ {j.by} ELSE {}
      [] OTHER                    -> OtherSide(j.by, j.seen.requester)

-----------------------------------------------------------------------------
\* Reading and checking

FeatureWork(q, op, u, f, to) ==
    Begin(q, [op |-> op, pc |-> "write", by |-> u, of |-> f, seen |-> feature[f], to |-> to])

NoFeatureRow ==
    UNCHANGED <<feature, featureComment, featureNotice, featureTrail, filed, mishaps>>

createFeature(q, u, priority) ==
    \E f \in FeatureIds \ DOMAIN filed :
        LET row == [requester |-> u, status |-> "Requested", priority |-> priority] IN
        /\ Begin(q, [op |-> "createFeature", pc |-> "notify", by |-> u, of |-> f,
                     seen |-> row, to |-> None])
        /\ feature' = Put(feature, f, row)
        /\ filed' = Put(filed, f, [by |-> u, been |-> {"Requested"}, ranked |-> priority])
        /\ UNCHANGED <<featureComment, featureNotice, featureTrail, mishaps>>

\* loadForAdmin, then the transition.
advanceFeature(q, f) ==
    /\ f \in DOMAIN feature
    /\ feature[f].status \in DOMAIN nextFeatureStatus
    /\ LET next == nextFeatureStatus[feature[f].status] IN
          /\ assertFeatureTransition(feature[f].status, next)
          /\ FeatureWork(q, "moveFeature", PrinterOwner, f, next)
    /\ NoFeatureRow

declineFeature(q, f) ==
    /\ f \in DOMAIN feature
    /\ assertFeatureTransition(feature[f].status, "Declined")
    /\ FeatureWork(q, "moveFeature", PrinterOwner, f, "Declined")
    /\ NoFeatureRow

withdrawUnacted(status) == status \in {"Requested", "Declined"}

withdrawFeature(q, u, f) ==
    /\ f \in featureScope(u)
    /\ feature[f].requester = u
    /\ withdrawUnacted(feature[f].status)
    /\ FeatureWork(q, "withdrawFeature", u, f, None)
    /\ NoFeatureRow

\* Whatever the status; what it already is, is not an event.
changeFeaturePriority(q, u, f, priority) ==
    /\ f \in featureScope(u)
    /\ feature[f].priority # priority
    /\ FeatureWork(q, "changeFeaturePriority", u, f, priority)
    /\ NoFeatureRow

addFeatureComment(q, u, f) ==
    /\ f \in featureScope(u)
    /\ FeatureWork(q, "addFeatureComment", u, f, None)
    /\ NoFeatureRow

-----------------------------------------------------------------------------
\* The writes.  Each names the row by its id alone; without the row it throws.

Written(q) ==
    IF job[q].of \in DOMAIN feature THEN GoTo(q, "notify") ELSE End(q)

updateFeature(q) ==
    /\ At(q, "moveFeature", "write")
    /\ LET f == job[q].of IN
       IF f \in DOMAIN feature
       THEN /\ feature' = [feature EXCEPT ![f].status = job[q].to]
            /\ filed' = [filed EXCEPT ![f].been = @ \cup {job[q].to}]
       ELSE UNCHANGED <<feature, filed>>
    /\ Written(q)
    /\ UNCHANGED <<featureComment, featureNotice, featureTrail, mishaps>>

updatePriority(q) ==
    /\ At(q, "changeFeaturePriority", "write")
    /\ feature' = [f \in DOMAIN feature |->
          IF f = job[q].of THEN [feature[f] EXCEPT !.priority = job[q].to] ELSE feature[f]]
    /\ Written(q)
    /\ UNCHANGED <<featureComment, featureNotice, featureTrail, filed, mishaps>>

\* The database takes the comments and the notices that hang on the row along.
deleteFeature(q) ==
    /\ At(q, "withdrawFeature", "write")
    /\ feature' = Drop(feature, job[q].of)
    /\ featureComment' = {c \in featureComment : c.of # job[q].of}
    /\ featureNotice' = {n \in featureNotice : n.hangs # job[q].of}
    /\ Written(q)
    /\ UNCHANGED <<featureTrail, filed, mishaps>>

insertComment(q) ==
    /\ At(q, "addFeatureComment", "write")
    /\ featureComment' =
          IF job[q].of \in DOMAIN feature
          THEN featureComment \cup {[of |-> job[q].of, by |-> job[q].by]}
          ELSE featureComment
    /\ Written(q)
    /\ UNCHANGED <<feature, featureNotice, featureTrail, filed, mishaps>>

-----------------------------------------------------------------------------
\* What follows a write

NoticeOf(j, u) ==
    [to |-> u, of |-> j.of, hangs |-> IF j.op = "withdrawFeature" THEN None ELSE j.of,
     what |-> CASE j.op = "createFeature"         -> "filed"
                [] j.op = "withdrawFeature"       -> "withdrawn"
                [] j.op = "changeFeaturePriority" -> "priority"
                [] j.op = "addFeatureComment"     -> "comment"
                [] OTHER                          -> j.to]

ClaimOf(j) ==
    [of |-> j.of, by |-> j.by, to |-> j.to,
     what |-> CASE j.op = "createFeature"         -> "created"
                [] j.op = "withdrawFeature"       -> "withdrawn"
                [] j.op = "changeFeaturePriority" -> "priority"
                [] j.op = "addFeatureComment"     -> "comment"
                [] OTHER                          -> j.to]

\* A notice about a request that has gone cannot be inserted, and throws; that
\* of a withdrawal hangs on nothing.
Inserted(q, notices) ==
    IF \A n \in notices : n.hangs \in DOMAIN feature \cup {None}
    THEN featureNotice' = featureNotice \cup notices /\ GoTo(q, "record")
    ELSE End(q) /\ UNCHANGED featureNotice

notifyHanging(q) ==
    /\ q \in InFlight(FeatureOps) /\ job[q].pc = "notify"
    /\ Inserted(q, {[NoticeOf(job[q], u) EXCEPT !.hangs = job[q].of] : u \in Recipients(job[q])})
    /\ UNCHANGED <<feature, featureComment, featureTrail, filed, mishaps>>

notifyFeature(q) ==
    /\ q \in InFlight(FeatureOps) /\ job[q].pc = "notify"
    /\ Inserted(q, {NoticeOf(job[q], u) : u \in Recipients(job[q])})
    /\ UNCHANGED <<feature, featureComment, featureTrail, filed, mishaps>>

recordFeature(q) ==
    /\ q \in InFlight(FeatureOps) /\ job[q].pc = "record"
    /\ featureTrail' = featureTrail \cup {ClaimOf(job[q])}
    /\ End(q)
    /\ UNCHANGED <<feature, featureComment, featureNotice, filed, mishaps>>

\* Every call but the trail's throws; that one is swallowed and is the last.
failFeature(q) ==
    /\ q \in InFlight(FeatureOps)
    /\ Mishap
    /\ End(q)
    /\ UNCHANGED <<feature, featureComment, featureNotice, featureTrail, filed>>

crashFeatures ==
    /\ Crash
    /\ UNCHANGED <<feature, featureComment, featureNotice, featureTrail, filed>>

-----------------------------------------------------------------------------
FeatureNext ==
    \/ \E q \in Requests \ DOMAIN job :
          \/ \E u \in Members, priority \in FEATURE_PRIORITIES : createFeature(q, u, priority)
          \/ \E f \in FeatureIds : advanceFeature(q, f) \/ declineFeature(q, f)
          \/ \E u \in Members, f \in FeatureIds :
                \/ withdrawFeature(q, u, f) \/ addFeatureComment(q, u, f)
                \/ \E priority \in FEATURE_PRIORITIES : changeFeaturePriority(q, u, f, priority)
    \/ \E q \in DOMAIN job :
          \/ updateFeature(q) \/ updatePriority(q) \/ deleteFeature(q) \/ insertComment(q)
          \/ notifyFeature(q) \/ recordFeature(q) \/ failFeature(q)
    \/ crashFeatures

FeatureSpec ==
    FeatureInit /\ job = Nothing /\ mishaps = 0 /\ [][FeatureNext]_featureVars
-----------------------------------------------------------------------------
\* Although a status is written unguarded to what it was checked against
\* earlier, no request ever has a status without having had the one before it:
\* whatever overlaps, it was seen at every station (FEATURE_FLOW).
NoFeatureStepSkipped ==
    \A f \in DOMAIN filed : \A i \in 2 .. Len(FEATURE_FLOW) :
        FEATURE_FLOW[i] \in filed[f].been => FEATURE_FLOW[i - 1] \in filed[f].been

\* features.ts: "The owner is told, and it is audited", and so for every write.
\* When nothing is under way and nothing failed: every status a request has had
\* is in its requester's feed and on the trail, as long as it exists; a priority
\* other than the one it was filed with is on the trail, and in the feed of one
\* of the two; and one taken back before anybody acted on it is in the owner's
\* feed, if that is somebody else.
FeatureChangesToldAndRecorded ==
    (Quiet(FeatureOps) /\ mishaps = 0) => \A f \in DOMAIN filed :
        IF f \in DOMAIN feature
        THEN /\ \A s \in filed[f].been \ {"Requested"} :
                   /\ \E n \in featureNotice : n.of = f /\ n.what = s /\ n.to = filed[f].by
                   /\ \E c \in featureTrail : c.of = f /\ c.what = s
             /\ feature[f].priority # filed[f].ranked =>
                   /\ \E c \in featureTrail : c.of = f /\ c.to = feature[f].priority
                   /\ filed[f].by # PrinterOwner =>
                         \E n \in featureNotice : n.of = f /\ n.what = "priority"
        ELSE /\ \E c \in featureTrail : c.of = f /\ c.what = "withdrawn"
             /\ (filed[f].been = {"Requested"} /\ filed[f].by # PrinterOwner) =>
                   \E n \in featureNotice :
                      n.of = f /\ n.what = "withdrawn" /\ n.to = PrinterOwner
=============================================================================
