------------------------------ MODULE DeskProofs -----------------------------
(***************************************************************************)
(* What holds at the desks for any number of requests in flight, rows,     *)
(* names and failures: the feature requests, the benefits, the feed and    *)
(* its mail, the instance settings, the catalog and the upload form. They  *)
(* share the table of the handlers and no row of the database; each has an *)
(* invariant of its own, named for it.  And what the walk through a 3MF    *)
(* comes to, for any number of objects, matrices and vertices.             *)
(***************************************************************************)
EXTENDS Features, Benefits, Mail, Settings, Catalog, UploadForm, ModelInspection, TablesProofs

-----------------------------------------------------------------------------
\* Feature requests

\* Every station of FEATURE_FLOW comes after the one before it.
Chain(been) ==
    /\ "Accepted" \in been => "Requested" \in been
    /\ "InProgress" \in been => "Accepted" \in been
    /\ "Shipped" \in been => "InProgress" \in been
    /\ "Done" \in been => "Shipped" \in been

\* What is remembered of a request: whose it was, where it has been, and at
\* what priority it was last ranked.
FiledAs == [by: Members, been: SUBSET FeatureStatuses, ranked: FEATURE_PRIORITIES]

\* The statuses a request has been in are a chain from the first.
FiledHolds ==
    /\ DOMAIN filed \subseteq FeatureIds /\ filed \in [DOMAIN filed -> FiledAs]
    /\ \A f \in DOMAIN filed : Chain(filed[f].been)

\* A request's status is among those it has had, and it is still whose it was.
FeatureRowsHold ==
    /\ DOMAIN feature \subseteq DOMAIN filed /\ feature \in [DOMAIN feature -> Feature]
    /\ \A f \in DOMAIN feature :
          feature[f].status \in filed[f].been /\ feature[f].requester = filed[f].by

\* A handler about to move a request saw it, at some time, at the station before.
MoveHolds(x, history) ==
    x.op = "moveFeature" =>
        /\ x.of \in DOMAIN history
        /\ x.to = "Declined"
           \/ \E s \in DOMAIN nextFeatureStatus :
                 s \in history[x.of].been /\ nextFeatureStatus[s] = x.to

\* What any handler read was so once, and is its requester's.
SeenHolds(x, history) ==
    /\ x.of \in DOMAIN history
    /\ x.seen.requester = history[x.of].by /\ x.seen.status \in history[x.of].been
    /\ x.op = "withdrawFeature" => x.by = history[x.of].by

\* One about to write a priority has one to write.
FeatureJobHolds(x, history) ==
    /\ x \in FeatureJob /\ MoveHolds(x, history) /\ SeenHolds(x, history)
    /\ x.op = "changeFeaturePriority" => x.to \in FEATURE_PRIORITIES

\* Every handler in flight holds what its own step needs.
FeatureJobsHold ==
    /\ DOMAIN job \subseteq Requests /\ job \in [DOMAIN job -> FeatureJob]
    /\ \A q \in DOMAIN job : FeatureJobHolds(job[q], filed)

FeaturesInv == FiledHolds /\ FeatureRowsHold /\ FeatureJobsHold

\* What a request has been, it has been.
NothingForgotten ==
    \A f \in DOMAIN filed :
       /\ f \in DOMAIN filed'
       /\ filed[f].been \subseteq filed'[f].been /\ filed'[f].by = filed[f].by

\* What a handler holds is not taken from it: requests are filed and never
\* unfiled.
LEMMA FeatureJobStays ==
    ASSUME NothingForgotten, NEW x, FeatureJobHolds(x, filed)
    PROVE  FeatureJobHolds(x, filed')
  BY DEF NothingForgotten, FeatureJobHolds, MoveHolds, SeenHolds

\* A handler begins.
LEMMA FeatureJobBegins ==
    ASSUME FeatureJobsHold, NothingForgotten, NEW q, NEW x, FeatureJobHolds(x, filed'), Begin(q, x)
    PROVE  FeatureJobsHold'
  <1>1. q \in Requests /\ q \notin DOMAIN job /\ job' = Put(job, q, x)
    BY DEF Begin
  <1>2. /\ DOMAIN job' = DOMAIN job \cup {q} /\ job'[q] = x
        /\ \A s \in DOMAIN job : job'[s] = job[s]
    BY <1>1 DEF Put
  <1>3. DOMAIN job' \subseteq Requests /\ job' \in [DOMAIN job' -> FeatureJob]
    BY <1>1, Extended DEF FeatureJobsHold, FeatureJobHolds
  <1>4. ASSUME NEW s \in DOMAIN job' PROVE FeatureJobHolds(job'[s], filed')
    <2>1. CASE s = q
      BY <1>2, <2>1
    <2>2. CASE s \in DOMAIN job
      BY <1>2, <2>2, FeatureJobStays DEF FeatureJobsHold
    <2> QED
      BY <1>2, <2>1, <2>2
  <1> QED
    BY <1>3, <1>4 DEF FeatureJobsHold

\* A handler goes on to tell or to record.
LEMMA FeatureJobGoesOn ==
    ASSUME FeatureJobsHold, NothingForgotten, NEW q \in DOMAIN job,
           NEW pc \in {"notify", "record"}, GoTo(q, pc)
    PROVE  FeatureJobsHold'
  <1> DEFINE x == [job[q] EXCEPT !.pc = pc]
  <1>1. job' = [job EXCEPT ![q] = x]
    BY DEF GoTo
  <1>2. job[q] \in FeatureJob /\ FeatureJobHolds(job[q], filed')
    BY FeatureJobStays DEF FeatureJobsHold
  <1>3. x \in FeatureJob /\ x.op = job[q].op /\ x.of = job[q].of /\ x.to = job[q].to
        /\ x.seen = job[q].seen /\ x.by = job[q].by
    BY <1>2 DEF FeatureJob
  <1> HIDE DEF x
  <1>4. FeatureJobHolds(x, filed')
    BY <1>2, <1>3 DEF FeatureJobHolds, MoveHolds, SeenHolds
  <1>5. /\ DOMAIN job' = DOMAIN job /\ job'[q] = x /\ job' \in [DOMAIN job' -> FeatureJob]
        /\ \A s \in DOMAIN job \ {q} : job'[s] = job[s]
    BY <1>1, <1>3 DEF FeatureJobsHold
  <1>6. ASSUME NEW s \in DOMAIN job' PROVE FeatureJobHolds(job'[s], filed')
    <2>1. CASE s = q
      BY <1>4, <1>5, <2>1
    <2>2. CASE s # q
      BY <1>5, <2>2, FeatureJobStays DEF FeatureJobsHold
    <2> QED
      BY <2>1, <2>2
  <1> QED
    BY <1>5, <1>6 DEF FeatureJobsHold

\* A handler ends.
LEMMA FeatureJobEnds ==
    ASSUME FeatureJobsHold, NothingForgotten, NEW q \in DOMAIN job, End(q)
    PROVE  FeatureJobsHold'
  <1>1. job' = Drop(job, q)
    BY DEF End
  <1>2. DOMAIN job' = DOMAIN job \ {q} /\ \A s \in DOMAIN job' : job'[s] = job[s]
    BY <1>1 DEF Drop, Restrict
  <1>3. DOMAIN job' \subseteq Requests /\ job' \in [DOMAIN job' -> FeatureJob]
    BY <1>1, Dropped DEF FeatureJobsHold
  <1> QED
    BY <1>2, <1>3, FeatureJobStays DEF FeatureJobsHold

\* A handler has written, and goes on or ends.
LEMMA WrittenKeeps ==
    ASSUME FeatureJobsHold, NothingForgotten, NEW q \in DOMAIN job, Written(q)
    PROVE  FeatureJobsHold'
  BY FeatureJobGoesOn, FeatureJobEnds DEF Written

-----------------------------------------------------------------------------
\* The invariant, one operation after another

\* A step that touches neither the requests nor their histories.
LEMMA OnlyHandlersMove ==
    ASSUME FeaturesInv, FeatureJobsHold', UNCHANGED <<feature, filed>>
    PROVE  FeaturesInv'
  BY DEF FeaturesInv, FiledHolds, FeatureRowsHold

\* createFeature: a request is filed as requested.
LEMMA CreateFeatureSafe ==
    ASSUME FeaturesInv, NEW q, NEW u \in Members, NEW priority \in FEATURE_PRIORITIES,
           createFeature(q, u, priority)
    PROVE  FeaturesInv'
  <1> DEFINE row == [requester |-> u, status |-> "Requested", priority |-> priority]
             first == [by |-> u, been |-> {"Requested"}, ranked |-> priority]
  <1>1. PICK f \in FeatureIds \ DOMAIN filed :
           /\ Begin(q, [op |-> "createFeature", pc |-> "notify", by |-> u, of |-> f,
                        seen |-> row, to |-> None])
           /\ feature' = Put(feature, f, row)
           /\ filed' = Put(filed, f, first)
    BY DEF createFeature
  <1> DEFINE x == [op |-> "createFeature", pc |-> "notify", by |-> u, of |-> f,
                   seen |-> row, to |-> None]
  <1>2. row \in Feature /\ row.status = "Requested"
    BY DEF Feature, FeatureStatuses
  <1>3. first \in FiledAs /\ first.been = {"Requested"} /\ first.by = row.requester
    BY DEF FiledAs, FeatureStatuses
  <1>4. x \in FeatureJob /\ x.op = "createFeature" /\ x.of = f /\ x.seen = row
    BY <1>2 DEF FeatureJob, FeatureOps
  <1> HIDE DEF row, first, x
  <1>5. /\ DOMAIN filed' = DOMAIN filed \cup {f} /\ filed'[f] = first
        /\ \A g \in DOMAIN filed : filed'[g] = filed[g]
    BY <1>1 DEF Put
  <1>6. DOMAIN filed' \subseteq FeatureIds /\ filed' \in [DOMAIN filed' -> FiledAs]
    <2>1. DOMAIN filed \subseteq FeatureIds /\ filed \in [DOMAIN filed -> FiledAs]
      BY DEF FeaturesInv, FiledHolds
    <2> QED
      BY <1>1, <1>3, <2>1, Extended
  <1>7. FiledHolds'
    BY <1>3, <1>5, <1>6 DEF FeaturesInv, FiledHolds, Chain
  <1>8. /\ DOMAIN feature' = DOMAIN feature \cup {f} /\ feature'[f] = row
        /\ \A g \in DOMAIN feature \ {f} : feature'[g] = feature[g]
    BY <1>1 DEF Put
  <1>9. feature' \in [DOMAIN feature' -> Feature]
    BY <1>1, <1>2 DEF Put, FeaturesInv, FeatureRowsHold
  <1>10. FeatureRowsHold'
    BY <1>2, <1>3, <1>5, <1>8, <1>9 DEF FeaturesInv, FeatureRowsHold
  <1>11. NothingForgotten
    BY <1>5 DEF NothingForgotten
  <1>12. FeatureJobHolds(x, filed')
    BY <1>2, <1>3, <1>4, <1>5 DEF FeatureJobHolds, MoveHolds, SeenHolds
  <1>13. FeatureJobsHold'
    BY <1>1, <1>11, <1>12, FeatureJobBegins DEF FeaturesInv, x
  <1> QED
    BY <1>7, <1>10, <1>13 DEF FeaturesInv

\* What was read and checked, for every operation on a request.
LEMMA FeatureWorkBegins ==
    ASSUME FeaturesInv, UNCHANGED <<feature, filed>>, NEW q, NEW op \in FeatureOps,
           NEW u \in Members, NEW f \in DOMAIN feature,
           NEW to \in FEATURE_PRIORITIES \cup FeatureStatuses \cup {None},
           op = "changeFeaturePriority" => to \in FEATURE_PRIORITIES,
           op = "moveFeature" =>
               to = "Declined"
               \/ (feature[f].status \in DOMAIN nextFeatureStatus
                   /\ nextFeatureStatus[feature[f].status] = to),
           op = "withdrawFeature" => feature[f].requester = u,
           FeatureWork(q, op, u, f, to)
    PROVE  FeaturesInv'
  <1> DEFINE x == [op |-> op, pc |-> "write", by |-> u, of |-> f, seen |-> feature[f], to |-> to]
  <1>1. Begin(q, x)
    BY DEF FeatureWork
  <1>2. feature[f] \in Feature /\ f \in DOMAIN filed /\ f \in FeatureIds
        /\ feature[f].status \in filed[f].been /\ feature[f].requester = filed[f].by
    BY DEF FeaturesInv, FeatureRowsHold, FiledHolds
  <1>3. x \in FeatureJob /\ x.op = op /\ x.of = f /\ x.to = to /\ x.by = u
        /\ x.seen = feature[f]
    BY <1>2 DEF FeatureJob
  <1> HIDE DEF x
  <1>4. FeatureJobHolds(x, filed')
    BY <1>2, <1>3 DEF FeatureJobHolds, MoveHolds, SeenHolds
  <1>5. FeatureJobsHold'
    BY <1>1, <1>4, FeatureJobBegins DEF FeaturesInv, NothingForgotten
  <1> QED
    BY <1>5, OnlyHandlersMove

\* A handler reads the request it is about.
LEMMA ReadFeatureSafe ==
    ASSUME FeaturesInv, NEW q, NEW f \in FeatureIds,
           \/ advanceFeature(q, f) \/ declineFeature(q, f)
           \/ \E u \in Members :
                 \/ withdrawFeature(q, u, f) \/ addFeatureComment(q, u, f)
                 \/ \E priority \in FEATURE_PRIORITIES : changeFeaturePriority(q, u, f, priority)
    PROVE  FeaturesInv'
  <1> USE FeaturesAssumption
  <1>1. CASE advanceFeature(q, f)
    <2> DEFINE next == nextFeatureStatus[feature[f].status]
    <2>1. next \in FeatureStatuses
      BY <1>1 DEF advanceFeature, nextFeatureStatus, FeatureStatuses
    <2>2. f \in DOMAIN feature /\ feature[f].status \in DOMAIN nextFeatureStatus
          /\ FeatureWork(q, "moveFeature", PrinterOwner, f, next) /\ UNCHANGED <<feature, filed>>
      BY <1>1 DEF advanceFeature, NoFeatureRow
    <2> QED
      BY <2>1, <2>2, FeatureWorkBegins DEF FeatureOps
  <1>2. CASE declineFeature(q, f)
    BY <1>2, FeatureWorkBegins DEF declineFeature, NoFeatureRow, FeatureOps, FeatureStatuses
  <1>3. ASSUME NEW u \in Members, withdrawFeature(q, u, f)
        PROVE  FeaturesInv'
    BY <1>3, FeatureWorkBegins DEF withdrawFeature, NoFeatureRow, FeatureOps, featureScope
  <1>4. ASSUME NEW u \in Members, addFeatureComment(q, u, f)
        PROVE  FeaturesInv'
    BY <1>4, FeatureWorkBegins DEF addFeatureComment, NoFeatureRow, FeatureOps, featureScope
  <1>5. ASSUME NEW u \in Members, NEW priority \in FEATURE_PRIORITIES,
               changeFeaturePriority(q, u, f, priority)
        PROVE  FeaturesInv'
    BY <1>5, FeatureWorkBegins DEF changeFeaturePriority, NoFeatureRow, FeatureOps, featureScope
  <1> QED
    BY <1>1, <1>2, <1>3, <1>4, <1>5

\* The status goes to what was checked, of whatever the row is by now; what it
\* was checked against is in the request's history, and so is all that is before.
LEMMA MoveFeatureSafe ==
    ASSUME FeaturesInv, NEW q, updateFeature(q)
    PROVE  FeaturesInv'
  <1> DEFINE f == job[q].of
             to == job[q].to
             first == [filed[f] EXCEPT !.been = @ \cup {to}]
             row == [feature[f] EXCEPT !.status = to]
  <1>1. q \in DOMAIN job /\ job[q].op = "moveFeature" /\ Written(q)
        /\ FeatureJobHolds(job[q], filed)
    BY DEF updateFeature, At, FeaturesInv, FeatureJobsHold
  <1>2. CASE f \notin DOMAIN feature /\ UNCHANGED <<feature, filed>>
    BY <1>1, <1>2, WrittenKeeps, OnlyHandlersMove DEF FeaturesInv, NothingForgotten
  <1>3. CASE /\ f \in DOMAIN feature /\ feature' = [feature EXCEPT ![f] = row]
             /\ filed' = [filed EXCEPT ![f] = first]
    <2>1. f \in DOMAIN filed /\ filed[f] \in FiledAs /\ feature[f] \in Feature
          /\ Chain(filed[f].been)
      BY <1>3 DEF FeaturesInv, FeatureRowsHold, FiledHolds
    <2>2. to = "Declined" \/ \E s \in DOMAIN nextFeatureStatus :
                                s \in filed[f].been /\ nextFeatureStatus[s] = to
      BY <1>1 DEF FeatureJobHolds, MoveHolds
    <2>3. to \in FeatureStatuses
      BY <2>2 DEF nextFeatureStatus, FeatureStatuses
    <2>4. first \in FiledAs /\ first.been = filed[f].been \cup {to} /\ first.by = filed[f].by
      BY <2>1, <2>3 DEF FiledAs
    <2>5. row \in Feature /\ row.status = to /\ row.requester = feature[f].requester
      BY <2>1, <2>3 DEF Feature
    <2>6. Chain(filed[f].been \cup {to})
      BY <2>1, <2>2 DEF Chain, nextFeatureStatus
    <2> HIDE DEF first, row, to, f
    <2>7. /\ DOMAIN filed' = DOMAIN filed /\ filed'[f] = first
          /\ \A g \in DOMAIN filed \ {f} : filed'[g] = filed[g]
          /\ filed' \in [DOMAIN filed' -> FiledAs]
      BY <1>3, <2>1, <2>4 DEF FeaturesInv, FiledHolds
    <2>8. FiledHolds'
      BY <2>4, <2>6, <2>7 DEF FeaturesInv, FiledHolds
    <2>9. /\ DOMAIN feature' = DOMAIN feature /\ feature'[f] = row
          /\ \A g \in DOMAIN feature \ {f} : feature'[g] = feature[g]
          /\ feature' \in [DOMAIN feature' -> Feature]
      BY <1>3, <2>5 DEF FeaturesInv, FeatureRowsHold
    <2>10. FeatureRowsHold'
      BY <2>4, <2>5, <2>7, <2>9 DEF FeaturesInv, FeatureRowsHold
    <2>11. NothingForgotten
      BY <2>4, <2>7 DEF NothingForgotten
    <2>12. FeatureJobsHold'
      BY <1>1, <2>11, WrittenKeeps DEF FeaturesInv
    <2> QED
      BY <2>8, <2>10, <2>12 DEF FeaturesInv
  <1> QED
    BY <1>2, <1>3 DEF updateFeature

\* The priority is written where the status has not moved.
LEMMA PrioritySafe ==
    ASSUME FeaturesInv, NEW q, updatePriority(q)
    PROVE  FeaturesInv'
  <1>1. q \in DOMAIN job /\ Written(q) /\ job[q].to \in FEATURE_PRIORITIES
        /\ UNCHANGED filed
    BY DEF updatePriority, At, FeaturesInv, FeatureJobsHold, FeatureJobHolds
  <1>2. FeatureJobsHold'
    BY <1>1, WrittenKeeps DEF FeaturesInv, NothingForgotten
  <1>3. ASSUME NEW f \in DOMAIN feature
        PROVE  /\ feature'[f] \in Feature
               /\ feature'[f].status = feature[f].status
               /\ feature'[f].requester = feature[f].requester
    <2>1. feature[f] \in Feature
      BY DEF FeaturesInv, FeatureRowsHold
    <2>2. feature'[f] = feature[f] \/ feature'[f] = [feature[f] EXCEPT !.priority = job[q].to]
      BY DEF updatePriority
    <2> QED
      BY <1>1, <2>1, <2>2 DEF Feature
  <1>4. DOMAIN feature' = DOMAIN feature /\ feature' = [f \in DOMAIN feature' |-> feature'[f]]
    BY DEF updatePriority
  <1>5. FeatureRowsHold'
    BY <1>1, <1>3, <1>4 DEF FeaturesInv, FeatureRowsHold
  <1> QED
    BY <1>1, <1>2, <1>5 DEF FeaturesInv, FiledHolds

\* A withdrawal deletes what is still withdrawable.
LEMMA DeleteFeatureSafe ==
    ASSUME FeaturesInv, NEW q, deleteFeature(q)
    PROVE  FeaturesInv'
  <1>1. q \in DOMAIN job /\ Written(q) /\ UNCHANGED filed
        /\ feature' = Drop(feature, job[q].of)
    BY DEF deleteFeature, At
  <1>2. FeatureJobsHold'
    BY <1>1, WrittenKeeps DEF FeaturesInv, NothingForgotten
  <1>3. FeatureRowsHold'
    BY <1>1 DEF FeaturesInv, FeatureRowsHold, Drop, Restrict
  <1> QED
    BY <1>1, <1>2, <1>3 DEF FeaturesInv, FiledHolds

\* A comment changes neither status nor priority.
LEMMA CommentSafe ==
    ASSUME FeaturesInv, NEW q, insertComment(q)
    PROVE  FeaturesInv'
  BY WrittenKeeps, OnlyHandlersMove DEF insertComment, At, FeaturesInv, NothingForgotten

\* Telling, recording and failing change no request.
LEMMA AfterwardsSafe ==
    ASSUME FeaturesInv, NEW q, notifyFeature(q) \/ recordFeature(q) \/ failFeature(q)
    PROVE  FeaturesInv'
  <1>1. q \in DOMAIN job /\ UNCHANGED <<feature, filed>> /\ (GoTo(q, "record") \/ End(q))
    BY DEF notifyFeature, recordFeature, failFeature, InFlight, Inserted
  <1> QED
    BY <1>1, FeatureJobGoesOn, FeatureJobEnds, OnlyHandlersMove DEF FeaturesInv, NothingForgotten

\* Nothing is filed yet.
LEMMA FeatureInitSafe ==
    ASSUME FeatureInit, job = Nothing
    PROVE  FeaturesInv
  BY DEF FeatureInit, FeaturesInv, FiledHolds, FeatureRowsHold, FeatureJobsHold, Nothing

\* Every step keeps the invariant.
LEMMA FeatureStepSafe ==
    ASSUME FeaturesInv, [FeatureNext]_featureVars
    PROVE  FeaturesInv'
  <1>1. CASE UNCHANGED featureVars
    BY <1>1 DEF featureVars, FeaturesInv, FiledHolds, FeatureRowsHold, FeatureJobsHold
  <1>2. CASE crashFeatures
    BY <1>2, OnlyHandlersMove DEF crashFeatures, Crash, FeatureJobsHold, Nothing
  <1>3. ASSUME NEW q \in DOMAIN job,
               \/ updateFeature(q) \/ updatePriority(q) \/ deleteFeature(q) \/ insertComment(q)
               \/ notifyFeature(q) \/ recordFeature(q) \/ failFeature(q)
        PROVE  FeaturesInv'
    BY <1>3, MoveFeatureSafe, PrioritySafe, DeleteFeatureSafe, CommentSafe, AfterwardsSafe
  <1> QED
    BY <1>1, <1>2, <1>3, CreateFeatureSafe, ReadFeatureSafe DEF FeatureNext

\* The invariant on which the rest stands.
THEOREM FeatureInvariant == FeatureSpec => []FeaturesInv
  <1>1. FeatureInit /\ job = Nothing => FeaturesInv
    BY FeatureInitSafe
  <1>2. FeaturesInv /\ [FeatureNext]_featureVars => FeaturesInv'
    BY FeatureStepSafe
  <1> QED
    BY <1>1, <1>2, PTL DEF FeatureSpec

\* features.ts, advanceFeature and declineFeature: whatever moves and
\* withdrawals overlap, a request was seen at every station.
THEOREM NoStationSkipped == FeatureSpec => []NoFeatureStepSkipped
  <1>1. FeaturesInv => NoFeatureStepSkipped
    <2>1. SUFFICES ASSUME FeaturesInv, NEW f \in DOMAIN filed, NEW i \in 2 .. 5,
                          FEATURE_FLOW[i] \in filed[f].been
                   PROVE  FEATURE_FLOW[i - 1] \in filed[f].been
      BY DEF NoFeatureStepSkipped, FEATURE_FLOW
    <2>2. Chain(filed[f].been)
      BY <2>1 DEF FeaturesInv, FiledHolds
    <2>3. i = 2 \/ i = 3 \/ i = 4 \/ i = 5
      BY <2>1
    <2> QED
      BY <2>1, <2>2, <2>3 DEF Chain, FEATURE_FLOW
  <1> QED
    BY <1>1, FeatureInvariant, PTL

\* What hangs on the requests is of the kinds there are.
FeatureTablesTyped ==
    /\ featureComment \subseteq [of: FeatureIds, by: Members]
    /\ featureNotice \subseteq FeatureNotice
    /\ featureTrail \subseteq FeatureClaim

\* Where a request is moved to is a status.
LEMMA MovesToAStatus ==
    ASSUME NEW j, FeatureJobHolds(j, filed), j.op = "moveFeature"
    PROVE  j.to \in FeatureStatuses
  <1>1. \A s \in DOMAIN nextFeatureStatus : nextFeatureStatus[s] \in FeatureStatuses
    BY DEF nextFeatureStatus, FeatureStatuses
  <1>2. "Declined" \in FeatureStatuses
    BY DEF FeatureStatuses
  <1> QED
    BY <1>1, <1>2 DEF FeatureJobHolds, MoveHolds

\* What a handler tells, and what it records, is of these kinds.
LEMMA NoticeTyped ==
    ASSUME NEW j, FeatureJobHolds(j, filed), NEW u \in Recipients(j)
    PROVE  NoticeOf(j, u) \in FeatureNotice
  <1>1. j \in FeatureJob /\ j.of \in FeatureIds /\ j.by \in Members /\ j.seen.requester \in Members
        /\ j.op \in FeatureOps
    BY DEF FeatureJobHolds, FeatureJob, Feature
  <1>2. u \in Members
    BY <1>1, FeaturesAssumption DEF Recipients, OtherSide
  <1>3. j.op = "moveFeature" => j.to \in FeatureStatuses
    BY MovesToAStatus
  <1> QED
    BY <1>1, <1>2, <1>3 DEF NoticeOf, FeatureNotice, FeatureOps

LEMMA ClaimTyped ==
    ASSUME NEW j, FeatureJobHolds(j, filed)
    PROVE  ClaimOf(j) \in FeatureClaim
  <1>1. j \in FeatureJob /\ j.of \in FeatureIds /\ j.by \in Members /\ j.op \in FeatureOps
        /\ j.to \in FEATURE_PRIORITIES \cup FeatureStatuses \cup {None}
    BY DEF FeatureJobHolds, FeatureJob
  <1>2. j.op = "moveFeature" => j.to \in FeatureStatuses
    BY MovesToAStatus
  <1> QED
    BY <1>1, <1>2 DEF ClaimOf, FeatureClaim, FeatureOps

\* Each step adds only what is.
LEMMA FeatureTablesStay ==
    ASSUME FeaturesInv, FeatureTablesTyped, [FeatureNext]_featureVars
    PROVE  FeatureTablesTyped'
  <1>1. CASE UNCHANGED <<featureComment, featureNotice, featureTrail>>
    BY <1>1 DEF FeatureTablesTyped
  <1>2. ASSUME NEW q \in DOMAIN job, notifyFeature(q)
        PROVE  FeatureTablesTyped'
    <2>1. FeatureJobHolds(job[q], filed)
      BY DEF FeaturesInv, FeatureJobsHold
    <2>2. \A u \in Recipients(job[q]) : NoticeOf(job[q], u) \in FeatureNotice
      BY <2>1, NoticeTyped
    <2> QED
      BY <1>2, <2>2 DEF notifyFeature, Inserted, FeatureTablesTyped
  <1>3. ASSUME NEW q \in DOMAIN job, recordFeature(q)
        PROVE  FeatureTablesTyped'
    <2>1. ClaimOf(job[q]) \in FeatureClaim
      BY ClaimTyped DEF FeaturesInv, FeatureJobsHold
    <2> QED
      BY <1>3, <2>1 DEF recordFeature, FeatureTablesTyped
  <1>4. ASSUME NEW q \in DOMAIN job, insertComment(q)
        PROVE  FeatureTablesTyped'
    <2>1. job[q].of \in FeatureIds /\ job[q].by \in Members
      BY DEF FeaturesInv, FeatureJobsHold, FeatureJobHolds, FeatureJob
    <2> QED
      BY <1>4, <2>1 DEF insertComment, FeatureTablesTyped
  <1>5. ASSUME NEW q \in DOMAIN job, deleteFeature(q)
        PROVE  FeatureTablesTyped'
    BY <1>5 DEF deleteFeature, FeatureTablesTyped
  <1>6. ASSUME NEW q \in DOMAIN job, updateFeature(q) \/ updatePriority(q) \/ failFeature(q)
        PROVE  FeatureTablesTyped'
    BY <1>1, <1>6 DEF updateFeature, updatePriority, failFeature
  <1>7. CASE crashFeatures
    BY <1>1, <1>7 DEF crashFeatures
  <1>8. ASSUME NEW q \in Requests \ DOMAIN job,
               \/ \E u \in Members, priority \in FEATURE_PRIORITIES : createFeature(q, u, priority)
               \/ \E f \in FeatureIds : advanceFeature(q, f) \/ declineFeature(q, f)
               \/ \E u \in Members, f \in FeatureIds :
                     \/ withdrawFeature(q, u, f) \/ addFeatureComment(q, u, f)
                     \/ \E priority \in FEATURE_PRIORITIES :
                           changeFeaturePriority(q, u, f, priority)
        PROVE  FeatureTablesTyped'
    BY <1>1, <1>8 DEF createFeature, advanceFeature, declineFeature, withdrawFeature,
                      addFeatureComment, changeFeaturePriority, NoFeatureRow
  <1>9. CASE UNCHANGED featureVars
    BY <1>1, <1>9 DEF featureVars
  <1> QED
    BY <1>2, <1>3, <1>4, <1>5, <1>6, <1>7, <1>8, <1>9 DEF FeatureNext

\* The tables and the handlers of the feature requests keep their types.
THEOREM FeatureTypes == FeatureSpec => []FeatureTypeOK
  <1>1. FeatureInit => FeatureTablesTyped
    BY DEF FeatureInit, FeatureTablesTyped
  <1>2. FeaturesInv /\ FeatureTablesTyped /\ [FeatureNext]_featureVars => FeatureTablesTyped'
    BY FeatureTablesStay
  <1>3. FeaturesInv /\ FeatureTablesTyped => FeatureTypeOK
    <2> SUFFICES ASSUME FeaturesInv, FeatureTablesTyped
                 PROVE  FeatureTypeOK
      OBVIOUS
    <2>1. DOMAIN feature \subseteq FeatureIds /\ feature \in [DOMAIN feature -> Feature]
      BY DEF FeaturesInv, FiledHolds, FeatureRowsHold
    <2>2. \A q \in InFlight(FeatureOps) : job[q] \in FeatureJob
      BY DEF FeaturesInv, FeatureJobsHold, InFlight
    <2>3. DOMAIN filed \subseteq FeatureIds /\ filed \in [DOMAIN filed -> FiledAs]
      BY DEF FeaturesInv, FiledHolds
    <2> QED
      BY <2>1, <2>2, <2>3 DEF FeatureTypeOK, FeatureTablesTyped, FiledAs
  <1> QED
    BY <1>1, <1>2, <1>3, FeatureInvariant, PTL DEF FeatureSpec

-----------------------------------------------------------------------------
\* As long as nothing failed, what a handler has written and not yet told or
\* recorded it still carries.

\* Where a handler that has written is, before its row is on the trail.
Waiting == {"notify", "record"}

\* A handler in flight that is still to tell, or to record, that.
Carries(op, f, pcs, to) ==
    \E q \in DOMAIN job : /\ job[q].op = op /\ job[q].of = f /\ job[q].pc \in pcs
                          /\ to # None => job[q].to = to

\* The requester has the notice of a move, and the trail its row, or a handler
\* is about to write them.
MoveTold(f, s) ==
    /\ \/ \E n \in featureNotice :
             n.of = f /\ n.what = s /\ n.to = filed[f].by /\ n.hangs = f
       \/ Carries("moveFeature", f, {"notify"}, s)
    /\ \/ \E c \in featureTrail : c.of = f /\ c.what = s
       \/ Carries("moveFeature", f, Waiting, s)

\* So for the priority a request has, if it is not the one it was filed with.
PriorityTold(f) ==
    feature[f].priority # filed[f].ranked =>
        /\ \/ \E c \in featureTrail : c.of = f /\ c.to = feature[f].priority
           \/ Carries("changeFeaturePriority", f, Waiting, feature[f].priority)
        /\ filed[f].by # PrinterOwner =>
              \/ \E n \in featureNotice : n.of = f /\ n.what = "priority" /\ n.hangs = f
              \/ Carries("changeFeaturePriority", f, {"notify"}, None)

\* So for a request that is gone.
WithdrawalTold(f) ==
    /\ \/ \E c \in featureTrail : c.of = f /\ c.what = "withdrawn"
       \/ Carries("withdrawFeature", f, Waiting, None)
    /\ (filed[f].been = {"Requested"} /\ filed[f].by # PrinterOwner) =>
          \/ \E n \in featureNotice :
                n.of = f /\ n.what = "withdrawn" /\ n.to = PrinterOwner /\ n.hangs = None
          \/ Carries("withdrawFeature", f, {"notify"}, None)

\* What is to be told of a request, by where it is.
IsTold(f) ==
    IF f \in DOMAIN feature
    THEN (\A s \in filed[f].been \ {"Requested"} : MoveTold(f, s)) /\ PriorityTold(f)
    ELSE WithdrawalTold(f)

\* Of every request ever filed.
AllTold == \A f \in DOMAIN filed : IsTold(f)

\* A step that leaves a request, what hangs on it and its handlers alone.
LEMMA StaysTold ==
    ASSUME NEW f \in DOMAIN filed, IsTold(f), filed'[f] = filed[f],
           f \in DOMAIN feature <=> f \in DOMAIN feature',
           f \in DOMAIN feature => feature'[f] = feature[f],
           \A n \in featureNotice :
              n.of = f /\ n.hangs \in DOMAIN feature' \cup {None} => n \in featureNotice',
           featureTrail \subseteq featureTrail',
           \A q \in DOMAIN job : job[q].of = f /\ job[q].pc \in Waiting
                                 => q \in DOMAIN job' /\ job'[q] = job[q]
    PROVE  IsTold(f)'
  <1>1. ASSUME NEW op, NEW pcs \in SUBSET Waiting, NEW to, Carries(op, f, pcs, to)
        PROVE  Carries(op, f, pcs, to)'
    BY <1>1 DEF Carries
  <1>2. {"notify"} \in SUBSET Waiting /\ Waiting \in SUBSET Waiting
    BY DEF Waiting
  <1>3. CASE f \in DOMAIN feature
    <2>1. ASSUME NEW s \in filed'[f].been \ {"Requested"}
          PROVE  MoveTold(f, s)'
      <3>1. MoveTold(f, s)
        BY <1>3 DEF IsTold
      <3> QED
        BY <1>1, <1>2, <1>3, <3>1 DEF MoveTold
    <2>2. PriorityTold(f)'
      <3>1. PriorityTold(f) /\ feature'[f].priority = feature[f].priority
        BY <1>3 DEF IsTold
      <3> QED
        BY <1>1, <1>2, <1>3, <3>1 DEF PriorityTold
    <2> QED
      BY <1>3, <2>1, <2>2 DEF IsTold
  <1>4. CASE f \notin DOMAIN feature
    BY <1>1, <1>2, <1>4 DEF IsTold, WithdrawalTold
  <1> QED
    BY <1>3, <1>4

\* A handler goes on, and no other.
LEMMA JobMoved ==
    ASSUME FeatureJobsHold, NEW q \in DOMAIN job, NEW pc \in {"notify", "record"}, GoTo(q, pc)
    PROVE  /\ DOMAIN job' = DOMAIN job /\ \A r \in DOMAIN job \ {q} : job'[r] = job[r]
           /\ job'[q].pc = pc /\ job'[q].op = job[q].op /\ job'[q].of = job[q].of
           /\ job'[q].to = job[q].to
  BY DEF GoTo, FeatureJobsHold, FeatureJob

\* A handler that goes on or ends leaves the others what they carry.
LEMMA OthersWait ==
    ASSUME FeatureJobsHold, NEW q \in DOMAIN job, Written(q) \/ GoTo(q, "record") \/ End(q)
    PROVE  \A r \in DOMAIN job \ {q} : r \in DOMAIN job' /\ job'[r] = job[r]
  <1>1. CASE End(q)
    BY <1>1 DEF End, Drop, Restrict
  <1>2. CASE GoTo(q, "notify") \/ GoTo(q, "record")
    BY <1>2, JobMoved
  <1> QED
    BY <1>1, <1>2 DEF Written

\* Nothing is told of a request nobody has written to.
LEMMA BegunTold ==
    ASSUME FeaturesInv, AllTold, NEW q, NEW x, Begin(q, x), UNCHANGED <<feature, filed>>,
           featureNotice \subseteq featureNotice', featureTrail \subseteq featureTrail'
    PROVE  AllTold'
  <1>1. \A r \in DOMAIN job : r \in DOMAIN job' /\ job'[r] = job[r]
    BY DEF Begin, Put
  <1> QED
    BY <1>1, StaysTold DEF AllTold

\* Reading tells nothing and takes nothing back.
LEMMA ReadTold ==
    ASSUME FeaturesInv, AllTold, NEW q, NEW f,
           \/ advanceFeature(q, f) \/ declineFeature(q, f)
           \/ \E u \in Members :
                 \/ withdrawFeature(q, u, f) \/ addFeatureComment(q, u, f)
                 \/ \E priority \in FEATURE_PRIORITIES : changeFeaturePriority(q, u, f, priority)
    PROVE  AllTold' /\ mishaps' = mishaps
  <1>1. UNCHANGED <<feature, filed, featureNotice, featureTrail, mishaps>> /\ \E x : Begin(q, x)
    BY DEF advanceFeature, declineFeature, withdrawFeature, addFeatureComment,
           changeFeaturePriority, FeatureWork, NoFeatureRow
  <1> QED
    BY <1>1, BegunTold

\* There is nothing to be told of a new request.
LEMMA CreateTold ==
    ASSUME FeaturesInv, AllTold, NEW q, NEW u, NEW priority, createFeature(q, u, priority)
    PROVE  AllTold'
  <1>1. PICK f, opened, first :
           /\ f \in FeatureIds \ DOMAIN filed
           /\ feature' = Put(feature, f, opened) /\ filed' = Put(filed, f, first)
           /\ first.been = {"Requested"} /\ opened.priority = first.ranked
           /\ \E x : Begin(q, x)
           /\ UNCHANGED <<featureNotice, featureTrail>>
    BY DEF createFeature
  <1>2. \A r \in DOMAIN job : r \in DOMAIN job' /\ job'[r] = job[r]
    BY <1>1 DEF Begin, Put
  <1>3. f \in DOMAIN feature' /\ feature'[f] = opened /\ filed'[f] = first
        /\ DOMAIN filed' = DOMAIN filed \cup {f}
    BY <1>1 DEF Put
  <1>4. \A g \in DOMAIN filed : /\ g # f /\ filed'[g] = filed[g]
                                /\ g \in DOMAIN feature <=> g \in DOMAIN feature'
                                /\ g \in DOMAIN feature => feature'[g] = feature[g]
    BY <1>1 DEF Put
  <1>5. IsTold(f)'
    BY <1>1, <1>3 DEF IsTold, PriorityTold
  <1>6. \A g \in DOMAIN filed : IsTold(g)'
    BY <1>1, <1>2, <1>4, StaysTold DEF AllTold
  <1> QED
    BY <1>3, <1>5, <1>6 DEF AllTold

\* What is written of no row changes nothing.
LEMMA UnwrittenTold ==
    ASSUME FeaturesInv, AllTold, NEW q \in DOMAIN job, job[q].pc = "write",
           Written(q), UNCHANGED <<feature, filed>>,
           featureNotice \subseteq featureNotice', featureTrail \subseteq featureTrail'
    PROVE  AllTold'
  <1>1. \A r \in DOMAIN job : job[r].pc \in Waiting => r \in DOMAIN job' /\ job'[r] = job[r]
    BY OthersWait DEF FeaturesInv, Waiting
  <1> QED
    BY <1>1, StaysTold DEF AllTold

\* Who has moved a request carries the news.
LEMMA MoveTells ==
    ASSUME FeaturesInv, AllTold, NEW q, updateFeature(q)
    PROVE  AllTold'
  <1> PICK f : f = job[q].of
    OBVIOUS
  <1>1. /\ q \in DOMAIN job /\ job[q].op = "moveFeature" /\ job[q].pc = "write"
        /\ Written(q) /\ UNCHANGED <<featureNotice, featureTrail>>
    BY DEF updateFeature, At
  <1>2. CASE f \notin DOMAIN feature
    BY <1>1, <1>2, UnwrittenTold DEF updateFeature
  <1>3. CASE f \in DOMAIN feature
    <2> PICK s : s = job[q].to
      OBVIOUS
    <2>1. f \in DOMAIN filed /\ filed[f] \in FiledAs /\ feature[f] \in Feature
      BY <1>3 DEF FeaturesInv, FeatureRowsHold, FiledHolds
    <2>2. /\ feature' = [feature EXCEPT ![f].status = s]
          /\ filed' = [filed EXCEPT ![f].been = @ \cup {s}]
      BY <1>3 DEF updateFeature
    <2>3. /\ DOMAIN feature' = DOMAIN feature /\ DOMAIN filed' = DOMAIN filed
          /\ \A g \in DOMAIN filed \ {f} : filed'[g] = filed[g]
          /\ \A g \in DOMAIN feature \ {f} : feature'[g] = feature[g]
          /\ filed'[f].been = filed[f].been \cup {s} /\ filed'[f].by = filed[f].by
          /\ filed'[f].ranked = filed[f].ranked /\ feature'[f].priority = feature[f].priority
      BY <1>3, <2>1, <2>2 DEF FeaturesInv, FeatureRowsHold, FiledHolds, FiledAs, Feature
    <2>4. GoTo(q, "notify")
      BY <1>1, <1>3 DEF Written
    <2>5. /\ DOMAIN job' = DOMAIN job /\ \A r \in DOMAIN job \ {q} : job'[r] = job[r]
          /\ job'[q].pc = "notify" /\ job'[q].op = "moveFeature" /\ job'[q].of = f
          /\ job'[q].to = s
      BY <1>1, <2>4, JobMoved DEF FeaturesInv
    <2>6. \A r \in DOMAIN job : job[r].pc \in Waiting => job'[r] = job[r]
      BY <1>1, <2>5 DEF Waiting
    <2>7. ASSUME NEW g \in DOMAIN filed, g # f
          PROVE  IsTold(g)'
      BY <1>1, <2>3, <2>5, <2>6, <2>7, StaysTold DEF AllTold
    <2>8. IsTold(f)
      BY <2>1 DEF AllTold
    <2>9. ASSUME NEW t \in filed'[f].been \ {"Requested"}
          PROVE  MoveTold(f, t)'
      <3>1. CASE t = s
        <4>1. Carries("moveFeature", f, {"notify"}, t)' /\ Carries("moveFeature", f, Waiting, t)'
          BY <1>1, <2>5, <3>1 DEF Carries, Waiting
        <4> QED
          BY <4>1 DEF MoveTold
      <3>2. CASE t # s
        <4>1. MoveTold(f, t)
          BY <1>3, <2>3, <2>8, <3>2 DEF IsTold
        <4> QED
          BY <1>1, <2>3, <2>5, <2>6, <4>1 DEF MoveTold, Carries, Waiting
      <3> QED
        BY <3>1, <3>2
    <2>10. PriorityTold(f)'
      <3>1. PriorityTold(f)
        BY <1>3, <2>8 DEF IsTold
      <3> QED
        BY <1>1, <2>3, <2>5, <2>6, <3>1 DEF PriorityTold, Carries, Waiting
    <2>11. IsTold(f)'
      BY <1>3, <2>3, <2>9, <2>10 DEF IsTold
    <2> QED
      BY <2>3, <2>7, <2>11 DEF AllTold
  <1> QED
    BY <1>2, <1>3

\* Who has ranked it anew carries the news.
LEMMA PriorityTells ==
    ASSUME FeaturesInv, AllTold, NEW q, updatePriority(q)
    PROVE  AllTold'
  <1> PICK f : f = job[q].of
    OBVIOUS
  <1>1. /\ q \in DOMAIN job /\ job[q].op = "changeFeaturePriority" /\ job[q].pc = "write"
        /\ Written(q) /\ UNCHANGED <<featureNotice, featureTrail, filed>>
        /\ feature' = [g \in DOMAIN feature |->
              IF g = f THEN [feature[g] EXCEPT !.priority = job[q].to] ELSE feature[g]]
    BY DEF updatePriority, At
  <1>2. CASE f \notin DOMAIN feature
    <2>1. feature' = feature
      BY <1>1, <1>2 DEF FeaturesInv, FeatureRowsHold
    <2> QED
      BY <1>1, <2>1, UnwrittenTold
  <1>3. CASE f \in DOMAIN feature
    <2> PICK p : p = job[q].to
      OBVIOUS
    <2>1. f \in DOMAIN filed /\ feature[f] \in Feature /\ p \in FEATURE_PRIORITIES
      BY <1>1, <1>3 DEF FeaturesInv, FeatureRowsHold, FeatureJobsHold, FeatureJobHolds
    <2>2. /\ DOMAIN feature' = DOMAIN feature /\ feature'[f].priority = p
          /\ \A g \in DOMAIN feature \ {f} : feature'[g] = feature[g]
      BY <1>1, <1>3, <2>1 DEF Feature
    <2>4. GoTo(q, "notify")
      BY <1>1, <1>3 DEF Written
    <2>5. /\ DOMAIN job' = DOMAIN job /\ \A r \in DOMAIN job \ {q} : job'[r] = job[r]
          /\ job'[q].pc = "notify" /\ job'[q].op = "changeFeaturePriority" /\ job'[q].of = f
          /\ job'[q].to = p
      BY <1>1, <2>4, JobMoved DEF FeaturesInv
    <2>6. \A r \in DOMAIN job : job[r].pc \in Waiting => job'[r] = job[r]
      BY <1>1, <2>5 DEF Waiting
    <2>7. ASSUME NEW g \in DOMAIN filed, g # f
          PROVE  IsTold(g)'
      BY <1>1, <2>2, <2>5, <2>6, <2>7, StaysTold DEF AllTold
    <2>8. IsTold(f)
      BY <2>1 DEF AllTold
    <2>9. ASSUME NEW t \in filed'[f].been \ {"Requested"}
          PROVE  MoveTold(f, t)'
      <3>1. MoveTold(f, t)
        BY <1>1, <1>3, <2>8 DEF IsTold
      <3> QED
        BY <1>1, <2>5, <2>6, <3>1 DEF MoveTold, Carries, Waiting
    <2>10. PriorityTold(f)'
      <3>1. /\ Carries("changeFeaturePriority", f, {"notify"}, None)'
            /\ Carries("changeFeaturePriority", f, Waiting, p)'
        BY <1>1, <2>5 DEF Carries, Waiting
      <3> QED
        BY <2>2, <3>1 DEF PriorityTold
    <2>11. IsTold(f)'
      BY <1>3, <2>2, <2>9, <2>10 DEF IsTold
    <2> QED
      BY <1>1, <2>7, <2>11 DEF AllTold
  <1> QED
    BY <1>2, <1>3

\* With the row go the comments and the notices that hang on it; that of the
\* withdrawal hangs on nothing.
LEMMA DeletionTells ==
    ASSUME FeaturesInv, AllTold, NEW q, deleteFeature(q)
    PROVE  AllTold'
  <1> USE FeaturesAssumption
  <1> PICK f : f = job[q].of
    OBVIOUS
  <1>1. /\ q \in DOMAIN job /\ job[q].op = "withdrawFeature" /\ job[q].pc = "write"
        /\ Written(q) /\ UNCHANGED <<featureTrail, filed>>
        /\ feature' = Drop(feature, f)
        /\ featureNotice' = {n \in featureNotice : n.hangs # f}
    BY DEF deleteFeature, At
  <1>2. /\ DOMAIN feature' = DOMAIN feature \ {f}
        /\ \A g \in DOMAIN feature' : feature'[g] = feature[g]
    BY <1>1 DEF Drop, Restrict
  <1>3. f \in FeatureIds /\ f # None
    BY <1>1 DEF FeaturesInv, FeatureJobsHold, FeatureJobHolds, FeatureJob
  <1>4. \A r \in DOMAIN job \ {q} : r \in DOMAIN job' /\ job'[r] = job[r]
    BY <1>1, OthersWait DEF FeaturesInv
  <1>5. ASSUME NEW g \in DOMAIN filed, g # f \/ f \notin DOMAIN feature
        PROVE  IsTold(g)'
    <2>1. \A n \in featureNotice : n.hangs \in DOMAIN feature' \cup {None} => n \in featureNotice'
      BY <1>1, <1>2, <1>3
    <2>2. \A r \in DOMAIN job : job[r].pc \in Waiting => r \in DOMAIN job' /\ job'[r] = job[r]
      BY <1>1, <1>4 DEF Waiting
    <2>3. g \in DOMAIN feature <=> g \in DOMAIN feature'
      BY <1>2, <1>5
    <2> QED
      BY <1>1, <1>2, <1>5, <2>1, <2>2, <2>3, StaysTold DEF AllTold
  <1>6. CASE f \in DOMAIN feature
    <2>1. GoTo(q, "notify")
      BY <1>1, <1>6 DEF Written
    <2>2. /\ DOMAIN job' = DOMAIN job
          /\ job'[q].pc = "notify" /\ job'[q].op = "withdrawFeature" /\ job'[q].of = f
      BY <1>1, <2>1, JobMoved DEF FeaturesInv
    <2>3. /\ Carries("withdrawFeature", f, {"notify"}, None)'
          /\ Carries("withdrawFeature", f, Waiting, None)'
      BY <1>1, <2>2 DEF Carries, Waiting
    <2>4. IsTold(f)'
      BY <1>2, <2>3 DEF IsTold, WithdrawalTold
    <2> QED
      BY <1>1, <1>5, <2>4 DEF AllTold
  <1> QED
    BY <1>1, <1>5, <1>6 DEF AllTold

\* A comment is not of those changes.
LEMMA CommentTells ==
    ASSUME FeaturesInv, AllTold, NEW q, insertComment(q)
    PROVE  AllTold'
  BY UnwrittenTold DEF insertComment, At

\* A notice takes its handler's place, or cannot be inserted since the request
\* has been taken back, and then it is not missed.
LEMMA NotifyingTells ==
    ASSUME FeaturesInv, AllTold, NEW q, notifyFeature(q)
    PROVE  AllTold'
  <1> USE FeaturesAssumption
  <1> PICK f : f = job[q].of
    OBVIOUS
  <1>1. /\ q \in DOMAIN job /\ job[q].pc = "notify" /\ FeatureJobHolds(job[q], filed)
        /\ UNCHANGED <<feature, filed, featureTrail>>
        /\ Inserted(q, {NoticeOf(job[q], u) : u \in Recipients(job[q])})
    BY DEF notifyFeature, InFlight, FeaturesInv, FeatureJobsHold
  <1>2. \A r \in DOMAIN job \ {q} : r \in DOMAIN job' /\ job'[r] = job[r]
    BY <1>1, OthersWait DEF Inserted, FeaturesInv
  <1>3. featureNotice \subseteq featureNotice'
    BY <1>1 DEF Inserted
  <1>4. ASSUME NEW g \in DOMAIN filed, g # f
        PROVE  IsTold(g)'
    BY <1>1, <1>2, <1>3, <1>4, StaysTold DEF AllTold
  <1>5. f \in DOMAIN filed /\ IsTold(f)
    BY <1>1 DEF FeatureJobHolds, SeenHolds, AllTold
  <1>6. CASE GoTo(q, "record")
            /\ \A u \in Recipients(job[q]) : NoticeOf(job[q], u) \in featureNotice'
    <2>1. /\ DOMAIN job' = DOMAIN job /\ job'[q].pc = "record" /\ job'[q].op = job[q].op
          /\ job'[q].of = f /\ job'[q].to = job[q].to
      BY <1>1, <1>6, JobMoved DEF FeaturesInv
    <2>2. ASSUME NEW op, NEW to, Carries(op, f, Waiting, to)
          PROVE  Carries(op, f, Waiting, to)'
      BY <1>2, <2>1, <2>2 DEF Carries, Waiting
    <2>3. ASSUME NEW op, NEW to, Carries(op, f, {"notify"}, to)
          PROVE  \/ Carries(op, f, {"notify"}, to)'
                 \/ job[q].op = op /\ (to # None => job[q].to = to)
      BY <1>2, <2>1, <2>3 DEF Carries
    <2>4. ASSUME f \in DOMAIN feature
          PROVE  IsTold(f)'
      <3>1. ASSUME NEW s \in filed'[f].been \ {"Requested"}
            PROVE  MoveTold(f, s)'
        <4>1. MoveTold(f, s) /\ s # None
          BY <1>1, <1>5, <2>4 DEF IsTold, FeaturesInv, FiledHolds, FiledAs, FeatureStatuses, None
        <4>2. CASE job[q].op = "moveFeature" /\ job[q].to = s
          <5>1. Recipients(job[q]) = {filed[f].by}
            BY <1>1, <4>2 DEF Recipients, FeatureJobHolds, SeenHolds
          <5>2. NoticeOf(job[q], filed[f].by) \in featureNotice'
            BY <1>6, <5>1
          <5>3. LET n == NoticeOf(job[q], filed[f].by) IN
                n.of = f /\ n.what = s /\ n.to = filed[f].by /\ n.hangs = f
            BY <4>2 DEF NoticeOf
          <5> HIDE DEF NoticeOf
          <5>4. \E n \in featureNotice' : n.of = f /\ n.what = s /\ n.to = filed'[f].by /\ n.hangs = f
            BY <1>1, <5>2, <5>3
          <5> QED
            BY <1>1, <2>2, <4>1, <5>4 DEF MoveTold
        <4>3. CASE ~(job[q].op = "moveFeature" /\ job[q].to = s)
          BY <1>1, <1>3, <2>2, <2>3, <4>1, <4>3 DEF MoveTold
        <4> QED
          BY <4>2, <4>3
      <3>2. PriorityTold(f)'
        <4>1. PriorityTold(f)
          BY <1>5, <2>4 DEF IsTold
        <4>2. CASE job[q].op = "changeFeaturePriority" /\ filed[f].by # PrinterOwner
          <5>1. PICK u : u \in Recipients(job[q])
            BY <1>1, <4>2 DEF Recipients, OtherSide, FeatureJobHolds, SeenHolds
          <5>2. NoticeOf(job[q], u) \in featureNotice'
            BY <1>6, <5>1
          <5>3. LET n == NoticeOf(job[q], u) IN n.of = f /\ n.what = "priority" /\ n.hangs = f
            BY <4>2 DEF NoticeOf
          <5>4. \E n \in featureNotice' : n.of = f /\ n.what = "priority" /\ n.hangs = f
            BY <5>2, <5>3
          <5> QED
            BY <1>1, <2>2, <4>1, <5>4 DEF PriorityTold
        <4>3. CASE ~(job[q].op = "changeFeaturePriority" /\ filed[f].by # PrinterOwner)
          BY <1>1, <1>3, <2>2, <2>3, <4>1, <4>3 DEF PriorityTold
        <4> QED
          BY <4>2, <4>3
      <3> QED
        BY <1>1, <2>4, <3>1, <3>2 DEF IsTold
    <2>5. ASSUME f \notin DOMAIN feature
          PROVE  IsTold(f)'
      <3>1. WithdrawalTold(f)
        BY <1>5, <2>5 DEF IsTold
      <3>2. CASE /\ job[q].op = "withdrawFeature"
                 /\ filed[f].been = {"Requested"} /\ filed[f].by # PrinterOwner
        <4>1. PrinterOwner \in Recipients(job[q])
          BY <1>1, <3>2 DEF Recipients, FeatureJobHolds, SeenHolds
        <4>2. NoticeOf(job[q], PrinterOwner) \in featureNotice'
          BY <1>6, <4>1
        <4>3. LET n == NoticeOf(job[q], PrinterOwner) IN
              n.of = f /\ n.what = "withdrawn" /\ n.to = PrinterOwner /\ n.hangs = None
          BY <3>2 DEF NoticeOf
        <4>4. \E n \in featureNotice' :
                 n.of = f /\ n.what = "withdrawn" /\ n.to = PrinterOwner /\ n.hangs = None
          BY <4>2, <4>3
        <4>5. WithdrawalTold(f)'
          BY <1>1, <2>2, <3>1, <4>4 DEF WithdrawalTold
        <4> QED
          BY <1>1, <2>5, <4>5 DEF IsTold
      <3>3. CASE ~(/\ job[q].op = "withdrawFeature"
                   /\ filed[f].been = {"Requested"} /\ filed[f].by # PrinterOwner)
        <4>1. WithdrawalTold(f)'
          BY <1>1, <1>3, <2>2, <2>3, <3>1, <3>3 DEF WithdrawalTold
        <4> QED
          BY <1>1, <2>5, <4>1 DEF IsTold
      <3> QED
        BY <3>2, <3>3
    <2>6. IsTold(f)'
      BY <2>4, <2>5
    <2> QED
      BY <1>1, <1>4, <2>6 DEF AllTold
  <1>7. CASE End(q) /\ \E u \in Recipients(job[q]) :
                          NoticeOf(job[q], u).hangs \notin DOMAIN feature \cup {None}
    <2>1. job[q].op # "withdrawFeature" /\ f \notin DOMAIN feature
      BY <1>7 DEF NoticeOf
    <2>2. ASSUME NEW pcs, NEW to, Carries("withdrawFeature", f, pcs, to)
          PROVE  Carries("withdrawFeature", f, pcs, to)'
      BY <1>2, <2>1, <2>2 DEF Carries
    <2>3. IsTold(f)'
      BY <1>1, <1>3, <1>5, <2>1, <2>2 DEF IsTold, WithdrawalTold
    <2> QED
      BY <1>1, <1>4, <2>3 DEF AllTold
  <1> QED
    BY <1>1, <1>6, <1>7 DEF Inserted

\* The trail's row takes the handler's place.
LEMMA RecordingTells ==
    ASSUME FeaturesInv, AllTold, NEW q, recordFeature(q)
    PROVE  AllTold'
  <1> PICK f : f = job[q].of
    OBVIOUS
  <1> PICK c : c = ClaimOf(job[q])
    OBVIOUS
  <1>1. /\ q \in DOMAIN job /\ job[q].pc = "record" /\ FeatureJobHolds(job[q], filed) /\ End(q)
        /\ UNCHANGED <<feature, filed, featureNotice>>
        /\ featureTrail' = featureTrail \cup {c}
    BY DEF recordFeature, InFlight, FeaturesInv, FeatureJobsHold
  <1>2. \A r \in DOMAIN job \ {q} : r \in DOMAIN job' /\ job'[r] = job[r]
    BY <1>1, OthersWait DEF FeaturesInv
  <1>3. /\ c.of = f /\ c.to = job[q].to
        /\ job[q].op = "moveFeature" => c.what = job[q].to
        /\ job[q].op = "withdrawFeature" => c.what = "withdrawn"
    BY DEF ClaimOf
  <1>4. ASSUME NEW g \in DOMAIN filed, g # f
        PROVE  IsTold(g)'
    BY <1>1, <1>2, <1>4, StaysTold DEF AllTold
  <1>5. f \in DOMAIN filed /\ IsTold(f)
    BY <1>1 DEF FeatureJobHolds, SeenHolds, AllTold
  <1>6. ASSUME NEW op, NEW to, Carries(op, f, {"notify"}, to)
        PROVE  Carries(op, f, {"notify"}, to)'
    BY <1>1, <1>2, <1>6 DEF Carries
  <1>7. ASSUME NEW op, NEW to, Carries(op, f, Waiting, to)
        PROVE  Carries(op, f, Waiting, to)' \/ (job[q].op = op /\ (to # None => job[q].to = to))
    BY <1>2, <1>7 DEF Carries
  <1>8. CASE f \in DOMAIN feature
    <2>1. ASSUME NEW s \in filed'[f].been \ {"Requested"}
          PROVE  MoveTold(f, s)'
      <3>1. MoveTold(f, s) /\ s # None
        BY <1>1, <1>5, <1>8 DEF IsTold, FeaturesInv, FiledHolds, FiledAs, FeatureStatuses, None
      <3> QED
        BY <1>1, <1>3, <1>6, <1>7, <3>1 DEF MoveTold
    <2>2. PriorityTold(f)'
      <3>1. PriorityTold(f)
        BY <1>5, <1>8 DEF IsTold
      <3>2. feature[f].priority # None
        BY <1>8 DEF FeaturesInv, FeatureRowsHold, Feature, FEATURE_PRIORITIES, None
      <3> QED
        BY <1>1, <1>3, <1>6, <1>7, <3>1, <3>2 DEF PriorityTold
    <2> QED
      BY <1>1, <1>4, <1>8, <2>1, <2>2 DEF AllTold, IsTold
  <1>9. CASE f \notin DOMAIN feature
    <2>1. WithdrawalTold(f)
      BY <1>5, <1>9 DEF IsTold
    <2>2. WithdrawalTold(f)'
      BY <1>1, <1>3, <1>6, <1>7, <2>1 DEF WithdrawalTold
    <2> QED
      BY <1>1, <1>4, <1>9, <2>2 DEF AllTold, IsTold
  <1> QED
    BY <1>8, <1>9

\* Without a failure, every step keeps everything told.
LEMMA FeatureStepTells ==
    ASSUME FeaturesInv, mishaps \in Nat, mishaps = 0 => AllTold, [FeatureNext]_featureVars
    PROVE  mishaps' \in Nat /\ (mishaps' = 0 => AllTold')
  <1>1. CASE UNCHANGED featureVars
    <2>1. AllTold => AllTold'
      BY <1>1, StaysTold DEF featureVars, AllTold
    <2> QED
      BY <1>1, <2>1 DEF featureVars
  <1>2. ASSUME NEW q, crashFeatures \/ failFeature(q)
        PROVE  mishaps' \in Nat /\ mishaps' # 0
    BY <1>2 DEF crashFeatures, failFeature, Crash, Mishap
  <1>3. ASSUME NEW q, NEW u, NEW priority, createFeature(q, u, priority)
        PROVE  mishaps' = mishaps /\ (AllTold => AllTold')
    BY <1>3, CreateTold DEF createFeature
  <1>4. ASSUME NEW q,
               \/ updateFeature(q) \/ updatePriority(q) \/ deleteFeature(q) \/ insertComment(q)
               \/ notifyFeature(q) \/ recordFeature(q)
        PROVE  mishaps' = mishaps /\ (AllTold => AllTold')
    <2>1. AllTold => AllTold'
      BY <1>4, MoveTells, PriorityTells, DeletionTells, CommentTells, NotifyingTells,
         RecordingTells
    <2> QED
      BY <1>4, <2>1 DEF updateFeature, updatePriority, deleteFeature, insertComment,
                        notifyFeature, recordFeature
  <1>5. ASSUME NEW q, NEW f,
               \/ advanceFeature(q, f) \/ declineFeature(q, f)
               \/ \E u \in Members :
                     \/ withdrawFeature(q, u, f) \/ addFeatureComment(q, u, f)
                     \/ \E priority \in FEATURE_PRIORITIES : changeFeaturePriority(q, u, f, priority)
        PROVE  mishaps' = mishaps /\ (AllTold => AllTold')
    <2>1. mishaps' = mishaps
      BY <1>5 DEF advanceFeature, declineFeature, withdrawFeature, addFeatureComment,
                  changeFeaturePriority, NoFeatureRow
    <2> QED
      BY <1>5, <2>1, ReadTold
  <1> QED
    BY <1>1, <1>2, <1>3, <1>4, <1>5 DEF FeatureNext

\* features.ts: "The owner is told, and it is audited", of every move, every
\* priority and every withdrawal, whatever overlaps, as long as nothing failed.
THEOREM FeatureChangesAreTold == FeatureSpec => []FeatureChangesToldAndRecorded
  <1>1. FeatureInit /\ mishaps = 0 => mishaps \in Nat /\ AllTold
    BY DEF FeatureInit, AllTold, Nothing
  <1>2. FeaturesInv /\ mishaps \in Nat /\ (mishaps = 0 => AllTold) /\ [FeatureNext]_featureVars
           => (mishaps \in Nat /\ (mishaps = 0 => AllTold))'
    BY FeatureStepTells
  <1>3. FeaturesInv /\ (mishaps = 0 => AllTold) => FeatureChangesToldAndRecorded
    <2>1. SUFFICES ASSUME FeaturesInv, AllTold, Quiet(FeatureOps), NEW f \in DOMAIN filed
                   PROVE  IF f \in DOMAIN feature
                          THEN /\ \A s \in filed[f].been \ {"Requested"} :
                                     /\ \E n \in featureNotice :
                                           n.of = f /\ n.what = s /\ n.to = filed[f].by
                                     /\ \E c \in featureTrail : c.of = f /\ c.what = s
                               /\ feature[f].priority # filed[f].ranked =>
                                     /\ \E c \in featureTrail :
                                           c.of = f /\ c.to = feature[f].priority
                                     /\ filed[f].by # PrinterOwner =>
                                           \E n \in featureNotice : n.of = f /\ n.what = "priority"
                          ELSE /\ \E c \in featureTrail : c.of = f /\ c.what = "withdrawn"
                               /\ (filed[f].been = {"Requested"} /\ filed[f].by # PrinterOwner) =>
                                     \E n \in featureNotice :
                                        n.of = f /\ n.what = "withdrawn" /\ n.to = PrinterOwner
      BY DEF FeatureChangesToldAndRecorded
    <2>2. \A q \in DOMAIN job : job[q].op \in FeatureOps
      BY <2>1 DEF FeaturesInv, FeatureJobsHold, FeatureJob
    <2>3. \A op, pcs, to : ~Carries(op, f, pcs, to)
      BY <2>1, <2>2 DEF Carries, Quiet, InFlight
    <2> QED
      BY <2>1, <2>3 DEF AllTold, IsTold, MoveTold, PriorityTold, WithdrawalTold
  <1> QED
    BY <1>1, <1>2, <1>3, FeatureInvariant, PTL DEF FeatureSpec

-----------------------------------------------------------------------------
\* Benefits

\* A field is what was last asked of it, and no two benefits have one name.
BenefitsHold ==
    /\ DOMAIN benefit \subseteq BenefitIds /\ benefit \in [DOMAIN benefit -> Benefit]
    /\ lastWord = benefit
    /\ \A b, c \in DOMAIN benefit : b # c => benefit[b].label # benefit[c].label

\* A name is given to a name, and a state to a state.
ChangeHolds(x) ==
    IF x.field = "label" THEN x.to \in Labels ELSE x.to \in {"active", "retired"}

\* A handler past its read has found the benefit, and a creation has yet to.
BenefitJobHolds(x) ==
    /\ x \in BenefitJob /\ ChangeHolds(x)
    /\ IF x.op = "createBenefit" /\ x.pc = "write"
       THEN /\ x.of = None /\ x.field = "label"
            /\ x.seen.label = x.to /\ x.seen.active = "active"
       ELSE x.of \in DOMAIN benefit

\* So for every handler in flight.
BenefitJobsHold ==
    /\ job \in [DOMAIN job -> BenefitJob]
    /\ \A q \in DOMAIN job : BenefitJobHolds(job[q])

\* As long as nothing failed, what is not in the trail yet its handler carries.
OnBenefitTrail(b, field) ==
    benefit[b][field] # "active" =>
        \/ [of |-> b, field |-> field, to |-> benefit[b][field]] \in benefitTrail
        \/ \E q \in DOMAIN job : /\ job[q].pc = "record" /\ job[q].of = b
                                 /\ job[q].field = field /\ job[q].to = benefit[b][field]

\* Without a failure, what a benefit says is on the trail, or on its way
\* there.
BenefitTrailHolds ==
    /\ benefitTrail \subseteq [of: BenefitIds, field: Fields, to: Labels \cup {"active", "retired"}]
    /\ mishaps \in Nat
    /\ mishaps = 0 => \A b \in DOMAIN benefit, field \in Fields : OnBenefitTrail(b, field)

\* The three together are inductive.
BenefitInv == BenefitsHold /\ BenefitJobsHold /\ BenefitTrailHolds

\* A handler begins.
LEMMA BenefitBegins ==
    ASSUME BenefitInv, NEW q, NEW x, Begin(q, x), BenefitJobHolds(x),
           UNCHANGED <<benefit, benefitTrail, lastWord, mishaps>>
    PROVE  BenefitInv'
  <1>1. /\ DOMAIN job' = DOMAIN job \cup {q} /\ job'[q] = x /\ q \notin DOMAIN job
        /\ \A r \in DOMAIN job : job'[r] = job[r]
        /\ job' = [r \in DOMAIN job' |-> job'[r]]
    BY DEF Begin, Put
  <1>2. \A r \in DOMAIN job' : job'[r] \in BenefitJob /\ BenefitJobHolds(job[r])'
    BY <1>1 DEF BenefitInv, BenefitJobsHold, BenefitJobHolds, ChangeHolds
  <1>3. BenefitJobsHold'
    BY <1>1, <1>2 DEF BenefitJobsHold
  <1>4. BenefitTrailHolds'
    BY <1>1 DEF BenefitInv, BenefitTrailHolds, OnBenefitTrail
  <1> QED
    BY <1>3, <1>4 DEF BenefitInv, BenefitsHold

\* createBenefit and updateBenefit, up to the write: what is read is what is
\* there.
LEMMA BenefitReadSafe ==
    ASSUME BenefitInv, NEW q,
           \/ \E label \in Labels : createBenefit(q, label)
           \/ \E b \in BenefitIds :
                 \/ \E label \in Labels : updateBenefit(q, b, "label", label)
                 \/ \E to \in {"active", "retired"} : updateBenefit(q, b, "active", to)
    PROVE  BenefitInv'
  <1> USE BenefitsAssumption
  <1>1. ASSUME NEW label \in Labels, createBenefit(q, label)
        PROVE  BenefitInv'
    <2> PICK x : /\ x = [op |-> "createBenefit", pc |-> "write", of |-> None,
                         seen |-> [label |-> label, active |-> "active"],
                         field |-> "label", to |-> label]
                 /\ Begin(q, x)
      BY <1>1 DEF createBenefit
    <2>1. BenefitJobHolds(x)
      BY DEF BenefitJobHolds, ChangeHolds, BenefitJob, BenefitOps, Benefit, Fields
    <2> QED
      BY <1>1, <2>1, BenefitBegins DEF createBenefit
  <1>2. ASSUME NEW b \in BenefitIds, NEW field \in Fields, NEW to,
               IF field = "label" THEN to \in Labels ELSE to \in {"active", "retired"},
               updateBenefit(q, b, field, to)
        PROVE  BenefitInv'
    <2> PICK x : /\ x = [op |-> "updateBenefit", pc |-> "write", of |-> b, seen |-> benefit[b],
                         field |-> field, to |-> to]
                 /\ Begin(q, x)
      BY <1>2 DEF updateBenefit
    <2>1. b \in DOMAIN benefit /\ benefit[b] \in Benefit
      BY <1>2 DEF updateBenefit, BenefitInv, BenefitsHold
    <2>2. BenefitJobHolds(x)
      BY <1>2, <2>1 DEF BenefitJobHolds, ChangeHolds, BenefitJob, BenefitOps, Fields
    <2> QED
      BY <1>2, <2>2, BenefitBegins DEF updateBenefit
  <1> QED
    BY <1>1, <1>2 DEF Fields

\* A handler that ends, having written nothing that was still to be recorded.
LEMMA BenefitEnds ==
    ASSUME BenefitInv, NEW q \in DOMAIN job, End(q), UNCHANGED <<benefit, lastWord>>,
           mishaps' = mishaps \/ (mishaps' \in Nat /\ mishaps' # 0),
           \/ UNCHANGED benefitTrail /\ (mishaps' # 0 \/ job[q].pc # "record")
           \/ benefitTrail' = benefitTrail \cup
                 {[of |-> job[q].of, field |-> job[q].field, to |-> job[q].to]}
              /\ job[q].pc = "record"
    PROVE  BenefitInv'
  <1>1. /\ DOMAIN job' = DOMAIN job \ {q} /\ \A r \in DOMAIN job' : job'[r] = job[r]
        /\ job' = [r \in DOMAIN job' |-> job'[r]]
    BY DEF End, Drop, Restrict
  <1>2. \A r \in DOMAIN job' : job'[r] \in BenefitJob /\ BenefitJobHolds(job[r])'
    BY <1>1 DEF BenefitInv, BenefitJobsHold, BenefitJobHolds, ChangeHolds
  <1>3. BenefitJobsHold'
    BY <1>1, <1>2 DEF BenefitJobsHold
  <1>4. job[q] \in BenefitJob /\ BenefitJobHolds(job[q])
    BY DEF BenefitInv, BenefitJobsHold
  <1>5. benefitTrail' \subseteq
           [of: BenefitIds, field: Fields, to: Labels \cup {"active", "retired"}]
    <2>1. job[q].pc = "record" => job[q].of \in BenefitIds
      BY <1>4 DEF BenefitJobHolds, BenefitInv, BenefitsHold
    <2> QED
      BY <1>4, <2>1 DEF BenefitJob, BenefitInv, BenefitTrailHolds
  <1>6. ASSUME mishaps' = 0, NEW b \in DOMAIN benefit, NEW field \in Fields
        PROVE  OnBenefitTrail(b, field)'
    <2>1. OnBenefitTrail(b, field)
      BY <1>6 DEF BenefitInv, BenefitTrailHolds
    <2> QED
      BY <1>1, <1>6, <2>1 DEF OnBenefitTrail
  <1> QED
    BY <1>3, <1>5, <1>6 DEF BenefitInv, BenefitsHold, BenefitTrailHolds

\* What changed but y's field of its benefit is in force, as all is at first.
OnlyWrites(y) ==
    \A b \in DOMAIN benefit', field \in Fields :
       \/ b \in DOMAIN benefit /\ benefit'[b][field] = benefit[b][field]
       \/ benefit'[b][field] = "active"
       \/ b = y.of /\ field = y.field /\ benefit'[b][field] = y.to

\* A handler that has written a field carries what it wrote.
LEMMA BenefitWritten ==
    ASSUME BenefitInv, BenefitsHold', NEW q \in DOMAIN job, job[q].pc = "write",
           NEW y, job' = [job EXCEPT ![q] = y], BenefitJobHolds(y)', y.pc = "record",
           y.field = job[q].field, y.to = job[q].to,
           DOMAIN benefit \subseteq DOMAIN benefit', OnlyWrites(y),
           UNCHANGED <<benefitTrail, mishaps>>
    PROVE  BenefitInv'
  <1>1. /\ DOMAIN job' = DOMAIN job /\ job'[q] = y
        /\ \A r \in DOMAIN job \ {q} : job'[r] = job[r]
        /\ job' = [r \in DOMAIN job' |-> job'[r]]
    BY DEF BenefitInv, BenefitJobsHold
  <1>2. \A r \in DOMAIN job' : job'[r] \in BenefitJob /\ BenefitJobHolds(job[r])'
    BY <1>1 DEF BenefitInv, BenefitJobsHold, BenefitJobHolds, ChangeHolds
  <1>3. BenefitJobsHold'
    BY <1>1, <1>2 DEF BenefitJobsHold
  <1>4. ASSUME mishaps = 0, NEW b \in DOMAIN benefit', NEW field \in Fields
        PROVE  OnBenefitTrail(b, field)'
    <2>1. CASE b \in DOMAIN benefit /\ benefit'[b][field] = benefit[b][field]
      <3>1. OnBenefitTrail(b, field)
        BY <1>4, <2>1 DEF BenefitInv, BenefitTrailHolds
      <3> QED
        BY <1>1, <2>1, <3>1 DEF OnBenefitTrail
    <2>2. CASE b = y.of /\ field = y.field /\ benefit'[b][field] = y.to
      BY <1>1, <2>2 DEF OnBenefitTrail
    <2> QED
      BY <1>4, <2>1, <2>2 DEF OnBenefitTrail, OnlyWrites
  <1> QED
    BY <1>3, <1>4 DEF BenefitInv, BenefitTrailHolds

\* A benefit is created under an id that was free.
LEMMA InsertBenefitSafe ==
    ASSUME BenefitInv, NEW q, insertBenefit(q)
    PROVE  BenefitInv'
  <1> USE BenefitsAssumption
  <1>1. /\ q \in DOMAIN job /\ job[q].op = "createBenefit" /\ job[q].pc = "write"
        /\ UNCHANGED <<benefitTrail, mishaps>>
    BY DEF insertBenefit, At
  <1>2. job[q] \in BenefitJob /\ BenefitJobHolds(job[q])
    BY <1>1 DEF BenefitInv, BenefitJobsHold
  <1>3. CASE LabelTaken(job[q])
    BY <1>1, <1>3, BenefitEnds DEF insertBenefit
  <1>4. CASE ~LabelTaken(job[q])
    <2>1. PICK b \in BenefitIds \ DOMAIN benefit :
             /\ benefit' = Put(benefit, b, job[q].seen)
             /\ lastWord' = Put(lastWord, b, job[q].seen)
             /\ job' = [job EXCEPT ![q].pc = "record", ![q].of = b]
      BY <1>4 DEF insertBenefit
    <2> PICK y : y = [job[q] EXCEPT !.pc = "record", !.of = b]
      OBVIOUS
    <2>2. job' = [job EXCEPT ![q] = y]
      BY <1>1, <2>1 DEF BenefitInv, BenefitJobsHold
    <2>3. /\ y \in BenefitJob /\ y.pc = "record" /\ y.of = b
          /\ y.field = job[q].field /\ y.to = job[q].to
      BY <1>2 DEF BenefitJob
    <2>4. /\ DOMAIN benefit' = DOMAIN benefit \cup {b} /\ benefit'[b] = job[q].seen
          /\ \A c \in DOMAIN benefit : benefit'[c] = benefit[c]
          /\ benefit' = [c \in DOMAIN benefit' |-> benefit'[c]]
      BY <2>1 DEF Put
    <2>5. /\ job[q].seen \in Benefit /\ job[q].seen["active"] = "active"
          /\ job[q].seen["label"] = job[q].to /\ job[q].field = "label" /\ job[q].of = None
      BY <1>1, <1>2 DEF BenefitJobHolds, BenefitJob, Benefit
    <2>6. \A c \in DOMAIN benefit : benefit[c].label # job[q].to
      BY <1>4, <2>5 DEF LabelTaken, BenefitInv, BenefitsHold
    <2>7. BenefitsHold'
      <3>1. \A c \in DOMAIN benefit' : benefit'[c] \in Benefit
        BY <2>4, <2>5 DEF BenefitInv, BenefitsHold
      <3>2. benefit'[b].label = job[q].to
        BY <2>4, <2>5 DEF Benefit
      <3>3. \A c, d \in DOMAIN benefit' : c # d => benefit'[c].label # benefit'[d].label
        BY <2>4, <2>6, <3>2 DEF BenefitInv, BenefitsHold
      <3> QED
        BY <2>1, <2>4, <3>1, <3>3 DEF BenefitInv, BenefitsHold
    <2>8. BenefitJobHolds(y)'
      BY <1>2, <2>3, <2>4 DEF BenefitJobHolds, ChangeHolds
    <2>9. OnlyWrites(y)
      <3> SUFFICES ASSUME NEW c \in DOMAIN benefit', NEW field \in Fields
                   PROVE  \/ c \in DOMAIN benefit /\ benefit'[c][field] = benefit[c][field]
                          \/ benefit'[c][field] = "active"
                          \/ c = y.of /\ field = y.field /\ benefit'[c][field] = y.to
        BY DEF OnlyWrites
      <3> QED
        BY <2>3, <2>4, <2>5 DEF Fields
    <2>10. DOMAIN benefit \subseteq DOMAIN benefit'
      BY <2>4
    <2> QED
      BY <1>1, <2>2, <2>3, <2>7, <2>8, <2>9, <2>10, BenefitWritten
  <1> QED
    BY <1>3, <1>4

\* A patch writes its field over the row there is, whatever was read.
LEMMA WriteBenefitSafe ==
    ASSUME BenefitInv, NEW q, writeBenefit(q)
    PROVE  BenefitInv'
  <1> USE BenefitsAssumption
  <1>1. /\ q \in DOMAIN job /\ job[q].op = "updateBenefit" /\ job[q].pc = "write"
        /\ UNCHANGED <<benefitTrail, mishaps>>
    BY DEF writeBenefit, At
  <1>2. job[q] \in BenefitJob /\ BenefitJobHolds(job[q])
    BY <1>1 DEF BenefitInv, BenefitJobsHold
  <1>3. CASE LabelTaken(job[q])
    BY <1>1, <1>3, BenefitEnds DEF writeBenefit
  <1>4. CASE ~LabelTaken(job[q])
    <2> PICK b, field, to : b = job[q].of /\ field = job[q].field /\ to = job[q].to
      OBVIOUS
    <2> PICK row : row = [benefit[b] EXCEPT ![field] = to]
      OBVIOUS
    <2> PICK y : y = [job[q] EXCEPT !.pc = "record"]
      OBVIOUS
    <2>1. /\ b \in DOMAIN benefit /\ benefit[b] \in Benefit /\ field \in Fields
          /\ IF field = "label" THEN to \in Labels ELSE to \in {"active", "retired"}
      BY <1>1, <1>2 DEF BenefitJobHolds, ChangeHolds, BenefitJob, BenefitInv, BenefitsHold
    <2>2. /\ benefit' = [benefit EXCEPT ![b] = row] /\ lastWord' = benefit'
          /\ job' = [job EXCEPT ![q] = y]
      BY <1>4, <2>1 DEF writeBenefit, patched, GoTo, BenefitInv, BenefitsHold
    <2>3. /\ y \in BenefitJob /\ y.pc = "record" /\ y.of = b /\ y.field = field /\ y.to = to
      BY <1>2 DEF BenefitJob
    <2>4. row \in Benefit /\ row[field] = to /\ \A g \in Fields \ {field} : row[g] = benefit[b][g]
      BY <2>1 DEF Benefit, Fields
    <2>5. /\ DOMAIN benefit' = DOMAIN benefit /\ benefit'[b] = row
          /\ \A c \in DOMAIN benefit \ {b} : benefit'[c] = benefit[c]
          /\ benefit' = [c \in DOMAIN benefit' |-> benefit'[c]]
      BY <2>1, <2>2 DEF BenefitInv, BenefitsHold
    <2>6. ASSUME NEW c \in DOMAIN benefit \ {b}
          PROVE  benefit[c].label # row.label
      <3>1. CASE field = "label"
        BY <1>4, <2>4, <3>1 DEF LabelTaken, Benefit
      <3>2. CASE field = "active"
        BY <2>1, <2>4, <3>2 DEF BenefitInv, BenefitsHold, Benefit, Fields
      <3> QED
        BY <2>1, <3>1, <3>2 DEF Fields
    <2>7. BenefitsHold'
      <3>1. \A c \in DOMAIN benefit' : benefit'[c] \in Benefit
        BY <2>4, <2>5 DEF BenefitInv, BenefitsHold
      <3>2. ASSUME NEW c \in DOMAIN benefit', NEW d \in DOMAIN benefit', c # d
            PROVE  benefit'[c].label # benefit'[d].label
        <4>1. CASE c = b
          BY <2>5, <2>6, <3>2, <4>1
        <4>2. CASE d = b
          BY <2>5, <2>6, <3>2, <4>2
        <4>3. CASE c # b /\ d # b
          BY <2>5, <3>2, <4>3 DEF BenefitInv, BenefitsHold
        <4> QED
          BY <4>1, <4>2, <4>3
      <3> QED
        BY <2>2, <2>5, <3>1, <3>2 DEF BenefitInv, BenefitsHold
    <2>8. BenefitJobHolds(y)'
      BY <1>1, <1>2, <2>1, <2>3, <2>5 DEF BenefitJobHolds, ChangeHolds
    <2>9. OnlyWrites(y)
      <3> SUFFICES ASSUME NEW c \in DOMAIN benefit', NEW g \in Fields
                   PROVE  \/ c \in DOMAIN benefit /\ benefit'[c][g] = benefit[c][g]
                          \/ c = y.of /\ g = y.field /\ benefit'[c][g] = y.to
        BY DEF OnlyWrites
      <3>1. CASE c # b
        BY <2>5, <3>1
      <3>2. CASE c = b /\ g = field
        BY <2>3, <2>4, <2>5, <3>2
      <3>3. CASE c = b /\ g # field
        BY <2>4, <2>5, <3>3
      <3> QED
        BY <3>1, <3>2, <3>3
    <2>10. DOMAIN benefit \subseteq DOMAIN benefit'
      BY <2>5
    <2> QED
      BY <1>1, <2>2, <2>3, <2>7, <2>8, <2>9, <2>10, BenefitWritten
  <1> QED
    BY <1>3, <1>4

\* Every step keeps the invariant.
LEMMA BenefitStep ==
    ASSUME BenefitInv, [BenefitNext]_benefitVars
    PROVE  BenefitInv'
  <1>1. CASE UNCHANGED benefitVars
    BY <1>1 DEF benefitVars, BenefitInv, BenefitsHold, BenefitJobsHold, BenefitTrailHolds,
                OnBenefitTrail, BenefitJobHolds, ChangeHolds
  <1>2. CASE crashBenefits
    <2>1. job' = Nothing /\ mishaps' \in Nat /\ mishaps' # 0
          /\ UNCHANGED <<benefit, benefitTrail, lastWord>>
      BY <1>2 DEF crashBenefits, Crash, Mishap, BenefitInv, BenefitTrailHolds
    <2>2. DOMAIN job' = {} /\ job' = [q \in DOMAIN job' |-> job'[q]]
      BY <2>1 DEF Nothing
    <2> QED
      BY <2>1, <2>2 DEF BenefitInv, BenefitsHold, BenefitJobsHold, BenefitTrailHolds
  <1>3. ASSUME NEW q, failBenefit(q)
        PROVE  BenefitInv'
    <2>1. q \in DOMAIN job /\ End(q) /\ mishaps' \in Nat /\ mishaps' # 0
          /\ UNCHANGED <<benefit, benefitTrail, lastWord>>
      BY <1>3 DEF failBenefit, InFlight, Mishap, BenefitInv, BenefitTrailHolds
    <2> QED
      BY <2>1, BenefitEnds
  <1>4. ASSUME NEW q, recordBenefit(q)
        PROVE  BenefitInv'
    BY <1>4, BenefitEnds DEF recordBenefit, InFlight
  <1> QED
    BY <1>1, <1>2, <1>3, <1>4, BenefitReadSafe, InsertBenefitSafe, WriteBenefitSafe
       DEF BenefitNext

\* The invariant holds always.
THEOREM BenefitInvariant == BenefitSpec => []BenefitInv
  <1>1. BenefitInit /\ job = Nothing /\ mishaps = 0 => BenefitInv
    <2> SUFFICES ASSUME BenefitInit, job = Nothing, mishaps = 0
                 PROVE  BenefitInv
      OBVIOUS
    <2>1. DOMAIN job = {} /\ DOMAIN benefit = {} /\ lastWord = benefit /\ benefitTrail = {}
          /\ job = [q \in DOMAIN job |-> job[q]]
          /\ benefit = [b \in DOMAIN benefit |-> benefit[b]]
      BY DEF BenefitInit, Nothing
    <2> QED
      BY <2>1 DEF BenefitInv, BenefitsHold, BenefitJobsHold, BenefitTrailHolds
  <1>2. BenefitInv /\ [BenefitNext]_benefitVars => BenefitInv'
    BY BenefitStep
  <1> QED
    BY <1>1, <1>2, PTL DEF BenefitSpec

\* benefits.ts: however renaming, retiring and bringing back overlap, every
\* field is as it was last asked to be, and unless something failed the trail
\* says so.
THEOREM PatchesStayApart == BenefitSpec => []NoPatchUndoesAnother
  <1>1. BenefitInv => NoPatchUndoesAnother
    <2> SUFFICES ASSUME BenefitInv, NEW b \in DOMAIN benefit, NEW field \in Fields
                 PROVE  /\ benefit[b][field] = lastWord[b][field]
                        /\ (Quiet(BenefitOps) /\ mishaps = 0 /\ benefit[b][field] # "active") =>
                              [of |-> b, field |-> field, to |-> benefit[b][field]] \in benefitTrail
      BY DEF NoPatchUndoesAnother
    <2>1. Quiet(BenefitOps) => DOMAIN job = {}
      BY DEF BenefitInv, BenefitJobsHold, BenefitJob, Quiet, InFlight
    <2>2. mishaps = 0 => OnBenefitTrail(b, field)
      BY DEF BenefitInv, BenefitTrailHolds
    <2> QED
      BY <2>1, <2>2 DEF BenefitInv, BenefitsHold, OnBenefitTrail
  <1> QED
    BY <1>1, BenefitInvariant, PTL

\* schema.prisma, Benefit.label is unique: no two benefits have one name,
\* whatever was looked at before the write, and the types.
THEOREM BenefitTypes == BenefitSpec => []BenefitTypeOK
  <1>1. BenefitInv => BenefitTypeOK
    BY DEF BenefitInv, BenefitsHold, BenefitJobsHold, BenefitTrailHolds, BenefitTypeOK, InFlight
  <1> QED
    BY <1>1, BenefitInvariant, PTL

-----------------------------------------------------------------------------
\* The feed and its mail

\* A copy that is looking its recipient up, and has been shut out of the mail
\* ever since, is still shut out; one that has looked was let through then.
CopyHolds(x) ==
    /\ x \in MailJob
    /\ x.op = "notify" /\ x.shut => ShutOut(x.to) /\ x.pc # "send"
    /\ x.op = "notify" /\ x.pc = "insert" => ~x.shut

\* What every copy on its way rests on.
CopiesHold ==
    /\ job \in [DOMAIN job -> MailJob]
    /\ \A q \in DOMAIN job : CopyHolds(job[q])

\* The tables: a notice hangs on a ticket that is there, or on none.
FeedHolds ==
    /\ transport \in BOOLEAN
    /\ subscribed \subseteq Readers /\ suspended \subseteq Readers /\ ticket \subseteq About
    /\ raised \subseteq NoticeIds
    /\ DOMAIN notice \subseteq raised /\ notice \in [DOMAIN notice -> Notice]
    /\ \A n \in DOMAIN notice : notice[n].about \in ticket \cup {None}
    /\ mailTrail \subseteq {"sent", "failed"}
    /\ mailed \subseteq Readers \X (NoticeIds \cup {None})

\* The two together are inductive.
MailInv == FeedHolds /\ CopiesHold

\* A copy is begun.
LEMMA CopyBegins ==
    ASSUME MailInv, NEW q, NEW x, Begin(q, x), CopyHolds(x), UNCHANGED <<subscribed, suspended>>
    PROVE  CopiesHold'
  <1>1. /\ DOMAIN job' = DOMAIN job \cup {q} /\ job'[q] = x /\ q \notin DOMAIN job
        /\ \A r \in DOMAIN job : job'[r] = job[r]
        /\ job' = [r \in DOMAIN job' |-> job'[r]]
    BY DEF Begin, Put
  <1>2. \A r \in DOMAIN job' : job'[r] \in MailJob /\ CopyHolds(job[r])'
    BY <1>1 DEF MailInv, CopiesHold, CopyHolds, ShutOut
  <1> QED
    BY <1>1, <1>2 DEF CopiesHold

\* A copy ends.
LEMMA CopyEnds ==
    ASSUME MailInv, NEW q \in DOMAIN job, End(q), UNCHANGED <<subscribed, suspended>>
    PROVE  CopiesHold'
  <1>1. /\ DOMAIN job' = DOMAIN job \ {q} /\ \A r \in DOMAIN job' : job'[r] = job[r]
        /\ job' = [r \in DOMAIN job' |-> job'[r]]
    BY DEF End, Drop, Restrict
  <1>2. \A r \in DOMAIN job' : job'[r] \in MailJob /\ CopyHolds(job[r])'
    BY <1>1 DEF MailInv, CopiesHold, CopyHolds, ShutOut
  <1> QED
    BY <1>1, <1>2 DEF CopiesHold

\* A copy goes on.
LEMMA CopyGoesOn ==
    ASSUME MailInv, NEW q \in DOMAIN job, NEW y, job' = [job EXCEPT ![q] = y], CopyHolds(y),
           UNCHANGED <<subscribed, suspended>>
    PROVE  CopiesHold'
  <1>1. /\ DOMAIN job' = DOMAIN job /\ job'[q] = y
        /\ \A r \in DOMAIN job \ {q} : job'[r] = job[r]
        /\ job' = [r \in DOMAIN job' |-> job'[r]]
    BY DEF MailInv, CopiesHold
  <1>2. \A r \in DOMAIN job' : job'[r] \in MailJob /\ CopyHolds(job[r])'
    BY <1>1 DEF MailInv, CopiesHold, CopyHolds, ShutOut
  <1> QED
    BY <1>1, <1>2 DEF CopiesHold

\* raise: whom a notice is for is read when it is raised.
LEMMA RaiseNoticeSafe ==
    ASSUME MailInv, NEW q, NEW by \in Readers, NEW to \in Readers,
           NEW about \in About \cup {None}, raise(q, by, to, about)
    PROVE  MailInv'
  <1> PICK x : /\ x = [op |-> "notify", pc |-> "insert", by |-> by, to |-> to, about |-> about,
                       of |-> None, shut |-> FALSE]
               /\ Begin(q, x)
    BY DEF raise
  <1>1. CopyHolds(x)
    BY DEF CopyHolds, MailJob, MailOps
  <1>2. CopiesHold'
    BY <1>1, CopyBegins DEF raise, FeedOnly
  <1> QED
    BY <1>2 DEF MailInv, FeedHolds, raise, FeedOnly

\* The mail of the test button is to the owner alone.
LEMMA TestMailSafe ==
    ASSUME MailInv, NEW q, sendTestMail(q)
    PROVE  MailInv'
  <1> USE MailAssumption
  <1>1. PICK outcome \in {"sent", "refused"} :
          /\ Begin(q, [op |-> "test", pc |-> outcome, by |-> Printer, to |-> Printer,
                       about |-> None, of |-> None, shut |-> FALSE])
          /\ mailed' = IF outcome = "sent" THEN mailed \cup {<<Printer, None>>} ELSE mailed
    BY DEF sendTestMail
  <1> PICK x : x = [op |-> "test", pc |-> outcome, by |-> Printer, to |-> Printer,
                    about |-> None, of |-> None, shut |-> FALSE]
    OBVIOUS
  <1>2. CopyHolds(x)
    BY DEF CopyHolds, MailJob, MailOps
  <1>3. CopiesHold'
    BY <1>1, <1>2, CopyBegins DEF sendTestMail, FeedOnly
  <1> QED
    BY <1>1, <1>3 DEF MailInv, FeedHolds, sendTestMail, FeedOnly

\* The notice is inserted, and whether its copy goes out is decided.
LEMMA InsertNoticeSafe ==
    ASSUME MailInv, NEW q, insertNotice(q)
    PROVE  MailInv'
  <1>1. q \in DOMAIN job /\ CopyHolds(job[q]) /\ FeedOnly /\ UNCHANGED mailed
        /\ job[q].op = "notify" /\ job[q].pc = "insert"
    BY DEF insertNotice, At, MailInv, CopiesHold
  <1>2. CASE job[q].about \notin ticket \cup {None}
    <2>1. End(q) /\ UNCHANGED <<notice, raised>>
      BY <1>2 DEF insertNotice
    <2> QED
      BY <1>1, <2>1, CopyEnds DEF MailInv, FeedHolds, FeedOnly
  <1>3. CASE job[q].about \in ticket \cup {None}
    <2> PICK row : row = [to |-> job[q].to, about |-> job[q].about, read |-> FALSE]
      OBVIOUS
    <2>1. PICK n \in NoticeIds \ raised :
             /\ raised' = raised \cup {n} /\ notice' = Put(notice, n, row)
             /\ IF Copied(q)
                THEN job' = [job EXCEPT ![q] = [@ EXCEPT !.pc = "look", !.of = n,
                                                         !.shut = ShutOut(job[q].to)]]
                ELSE End(q)
      BY <1>3 DEF insertNotice
    <2>2. row \in Notice /\ row.about = job[q].about
      BY <1>1, <1>3 DEF Notice, CopyHolds, MailJob
    <2>3. FeedHolds'
      <3>1. /\ DOMAIN notice' = DOMAIN notice \cup {n} /\ notice'[n] = row
            /\ \A m \in DOMAIN notice : m # n /\ notice'[m] = notice[m]
            /\ notice' = [m \in DOMAIN notice' |-> notice'[m]]
        BY <2>1 DEF Put, MailInv, FeedHolds
      <3>2. \A m \in DOMAIN notice' : notice'[m] \in Notice /\ notice'[m].about \in ticket \cup {None}
        BY <1>3, <2>2, <3>1 DEF MailInv, FeedHolds
      <3> QED
        BY <1>1, <2>1, <3>1, <3>2 DEF MailInv, FeedHolds, FeedOnly
    <2>4. CopiesHold'
      <3>1. CASE Copied(q)
        <4> PICK shut \in BOOLEAN : shut = ShutOut(job[q].to)
          BY DEF ShutOut
        <4> PICK y : y = [job[q] EXCEPT !.pc = "look", !.of = n, !.shut = shut]
          OBVIOUS
        <4>1. job' = [job EXCEPT ![q] = y]
          BY <2>1, <3>1
        <4>2. y \in MailJob /\ y.pc = "look" /\ y.shut = shut /\ y.to = job[q].to
          BY <1>1 DEF CopyHolds, MailJob
        <4>3. CopyHolds(y)
          BY <4>2 DEF CopyHolds
        <4> QED
          BY <1>1, <4>1, <4>3, CopyGoesOn DEF FeedOnly
      <3>2. CASE ~Copied(q)
        BY <1>1, <2>1, <3>2, CopyEnds DEF FeedOnly
      <3> QED
        BY <3>1, <3>2
    <2> QED
      BY <2>3, <2>4 DEF MailInv
  <1> QED
    BY <1>2, <1>3

\* Whoever is not shut out when looked up has not been so ever since.
LEMMA FindSafe ==
    ASSUME MailInv, NEW q, findRecipient(q)
    PROVE  MailInv'
  <1>1. /\ q \in DOMAIN job /\ CopyHolds(job[q]) /\ FeedOnly
        /\ UNCHANGED <<notice, raised, mailed>> /\ job[q].op = "notify"
    BY DEF findRecipient, At, MailInv, CopiesHold
  <1>2. CASE ShutOut(job[q].to)
    BY <1>1, <1>2, CopyEnds DEF findRecipient, MailInv, FeedHolds, FeedOnly
  <1>3. CASE ~ShutOut(job[q].to)
    <2> PICK y : y = [job[q] EXCEPT !.pc = "send"]
      OBVIOUS
    <2>1. job' = [job EXCEPT ![q] = y]
      BY <1>3 DEF findRecipient, GoTo
    <2>2. y \in MailJob /\ y.pc = "send" /\ y.op = "notify" /\ ~y.shut
      BY <1>1, <1>3 DEF CopyHolds, MailJob
    <2>3. CopyHolds(y)
      BY <2>2 DEF CopyHolds
    <2>4. CopiesHold'
      BY <1>1, <2>1, <2>3, CopyGoesOn DEF FeedOnly
    <2> QED
      BY <1>1, <2>4 DEF MailInv, FeedHolds, FeedOnly
  <1> QED
    BY <1>2, <1>3

\* A copy is sent, noted, or fails.
LEMMA MailedSafe ==
    ASSUME MailInv, NEW q, sendMail(q) \/ recordTest(q) \/ failMail(q)
    PROVE  MailInv'
  <1>1. q \in DOMAIN job /\ CopyHolds(job[q]) /\ End(q)
        /\ UNCHANGED <<transport, subscribed, suspended, ticket, notice, raised>>
    BY DEF sendMail, recordTest, failMail, At, InFlight, FeedOnly, MailInv, CopiesHold
  <1>2. mailTrail' \subseteq {"sent", "failed"}
    BY DEF sendMail, recordTest, failMail, FeedOnly, MailInv, FeedHolds
  <1>3. mailed' \subseteq Readers \X (NoticeIds \cup {None})
    BY <1>1 DEF sendMail, recordTest, failMail, MailInv, FeedHolds, CopyHolds, MailJob
  <1> QED
    BY <1>1, <1>2, <1>3, CopyEnds DEF MailInv, FeedHolds

\* The feed's own steps leave the handlers alone, or let one be heard again.
LEMMA ReaderSafe ==
    ASSUME MailInv, NEW u \in Readers,
           \/ \E n : markNotificationsRead(u, n)
           \/ \E on \in BOOLEAN : setNotifyByEmail(u, on) \/ suspendReader(u, on)
    PROVE  MailInv'
  <1>1. CASE \E n : markNotificationsRead(u, n)
    <2>1. PICK n : markNotificationsRead(u, n)
      BY <1>1
    <2>2. \A i \in DOMAIN notice : notice[i] \in Notice
      BY DEF MailInv, FeedHolds
    <2>3. DOMAIN notice' = DOMAIN notice /\ notice' = [i \in DOMAIN notice' |-> notice'[i]]
      BY <2>1 DEF markNotificationsRead
    <2>4. \A i \in DOMAIN notice : notice'[i] \in Notice /\ notice'[i].about = notice[i].about
      BY <2>1, <2>2 DEF markNotificationsRead, Notice
    <2> QED
      BY <2>1, <2>3, <2>4 DEF markNotificationsRead, MailInv, FeedHolds, CopiesHold,
                              CopyHolds, ShutOut
  <1>2. ASSUME NEW on \in BOOLEAN, setNotifyByEmail(u, on) \/ suspendReader(u, on)
        PROVE  MailInv'
    <2>1. /\ subscribed' \subseteq Readers /\ suspended' \subseteq Readers
          /\ UNCHANGED <<transport, ticket, notice, mailTrail, raised, mailed>>
      BY <1>2 DEF setNotifyByEmail, suspendReader, MailInv, FeedHolds
    <2>2. \A v : ShutOut(v) => ShutOut(v)' \/ (v = u /\ job' = Heard(u))
      BY <1>2 DEF setNotifyByEmail, suspendReader, ShutOut
    <2>3. job' = job \/ job' = Heard(u)
      BY <1>2 DEF setNotifyByEmail, suspendReader
    <2>4. CASE job' = Heard(u)
      <3>1. DOMAIN job' = DOMAIN job /\ job' = [q \in DOMAIN job' |-> job'[q]]
        BY <2>4 DEF Heard
      <3>2. ASSUME NEW q \in DOMAIN job
            PROVE  job'[q] \in MailJob /\ CopyHolds(job[q])'
        <4>1. CopyHolds(job[q]) /\ job[q] \in MailJob
          BY DEF MailInv, CopiesHold
        <4>2. CASE job[q].op = "notify" /\ job[q].to = u
          <5>1. job'[q] = [job[q] EXCEPT !.shut = FALSE]
            BY <2>4, <4>2 DEF Heard
          <5>2. job'[q] \in MailJob /\ ~job'[q].shut
            BY <4>1, <5>1 DEF MailJob
          <5> QED
            BY <5>2 DEF CopyHolds
        <4>3. CASE ~(job[q].op = "notify" /\ job[q].to = u)
          <5>1. job'[q] = job[q]
            BY <2>4, <4>3 DEF Heard
          <5> QED
            BY <2>2, <4>1, <4>3, <5>1 DEF CopyHolds
        <4> QED
          BY <4>2, <4>3
      <3> QED
        BY <2>1, <3>1, <3>2 DEF MailInv, FeedHolds, CopiesHold
    <2>5. CASE job' = job /\ ~(job' = Heard(u))
      BY <2>1, <2>2, <2>5 DEF MailInv, FeedHolds, CopiesHold, CopyHolds
    <2> QED
      BY <2>3, <2>4, <2>5
  <1> QED
    BY <1>1, <1>2

\* A ticket is deleted, and its notices with it.
LEMMA DeleteTicketSafe ==
    ASSUME MailInv, NEW s, deleteTicket(s)
    PROVE  MailInv'
  <1>1. /\ DOMAIN notice' = {n \in DOMAIN notice : notice[n].about # s}
        /\ notice' = [n \in DOMAIN notice' |-> notice'[n]]
        /\ \A n \in DOMAIN notice' : notice'[n] = notice[n]
    BY DEF deleteTicket, Restrict
  <1> QED
    BY <1>1 DEF deleteTicket, MailInv, FeedHolds, CopiesHold, CopyHolds, ShutOut

\* The invariant holds always.
THEOREM MailInvariant == MailSpec => []MailInv
  <1>1. MailInit /\ job = Nothing => MailInv
    <2> SUFFICES ASSUME MailInit, job = Nothing
                 PROVE  MailInv
      OBVIOUS
    <2>1. /\ DOMAIN job = {} /\ job = [q \in DOMAIN job |-> job[q]]
          /\ DOMAIN notice = {} /\ notice = [n \in DOMAIN notice |-> notice[n]]
      BY DEF MailInit, Nothing
    <2> QED
      BY <2>1 DEF MailInit, MailInv, FeedHolds, CopiesHold
  <1>2. MailInv /\ [MailNext]_mailVars => MailInv'
    <2> SUFFICES ASSUME MailInv, [MailNext]_mailVars
                 PROVE  MailInv'
      OBVIOUS
    <2>1. CASE UNCHANGED mailVars
      BY <2>1 DEF mailVars, MailInv, FeedHolds, CopiesHold, CopyHolds, ShutOut
    <2>2. CASE crashMail
      <3>1. /\ DOMAIN job' = {} /\ job' = [q \in DOMAIN job' |-> job'[q]]
            /\ UNCHANGED <<notice, raised, mailed>> /\ FeedOnly
        BY <2>2 DEF crashMail, Crash, Nothing
      <3> QED
        BY <3>1 DEF MailInv, FeedHolds, CopiesHold, FeedOnly
    <2> QED
      BY <2>1, <2>2, RaiseNoticeSafe, TestMailSafe, InsertNoticeSafe, FindSafe, MailedSafe, ReaderSafe,
         DeleteTicketSafe DEF MailNext
  <1> QED
    BY <1>1, <1>2, PTL DEF MailSpec

\* authz.ts: "Somebody whose access was revoked hears nothing more from this
\* app", nor who has switched the mail off, however late the copy is looked up.
THEOREM TheShutOutHearNothing == MailSpec => []NoMailToTheShutOut
  <1>1. MailInv => NoMailToTheShutOut
    BY DEF MailInv, CopiesHold, CopyHolds, NoMailToTheShutOut, InFlight
  <1> QED
    BY <1>1, MailInvariant, PTL

\* schema.prisma, Notification.story with onDelete Cascade: no notice is left of
\* a ticket that is gone, and the types.
THEOREM MailTypes == MailSpec => []MailTypeOK
  <1>1. MailInv => MailTypeOK
    BY DEF MailInv, FeedHolds, CopiesHold, MailTypeOK, InFlight
  <1> QED
    BY <1>1, MailInvariant, PTL

-----------------------------------------------------------------------------
\* The instance settings

\* From its SELECT on, a save has the row locked and what it read is the row.  A
\* row that is not there yet is locked by whoever inserted it.
SaveHolds(q, j) ==
    /\ j \in SaveJob
    /\ j.inserted => locked = q
    /\ j.pc # "insert" /\ settingsRow = NoRow => j.inserted
    /\ j.pc \in {"update", "record", "commit"} => locked = q /\ j.before = FoundRow
    /\ j.pc \in {"record", "commit"} => changedFields(j) # {}

\* So for every save in flight.
SavesHold == \A q \in InFlight({"saveSettings"}) : q \in Requests /\ SaveHolds(q, job[q])

\* The row, its lock, and whose it is.
SettingsRowHolds ==
    /\ env \in [SETTING_KEYS -> UNION {EnvSays(f) : f \in SETTING_KEYS}]
    /\ settingsRow \in [SETTING_KEYS -> Stored] \cup {NoRow}
    /\ locked \in Requests \cup {None}
    /\ \A q \in DOMAIN job : job[q].op = "saveSettings"

\* The trail has no empty rows, and is the chain it is meant to be.
SettingsTrailHolds ==
    /\ settingsTrail \in Seq(UNION {[fs -> Changes] : fs \in (SUBSET SETTING_KEYS) \ {{}}})
    /\ TrailIsAnUnbrokenChain

\* The three together are inductive.
SettingsInv == SettingsRowHolds /\ SavesHold /\ SettingsTrailHolds

\* A row that is not there reads as one of defaults.
LEMMA FoundRowType ==
    ASSUME SettingsRowHolds
    PROVE  FoundRow \in [SETTING_KEYS -> Stored]
  BY DEF SettingsRowHolds, FoundRow, Empty, Stored

\* What a save writes has a value for every field.
LEMMA SavingType ==
    ASSUME NEW j \in SaveJob
    PROVE  Saving(j) \in [SETTING_KEYS -> Stored]
  <1>1. PICK fs \in SUBSET SETTING_KEYS : j.input \in [fs -> Given \cup {None}]
    BY DEF SaveJob
  <1>2. j.before \in [SETTING_KEYS -> Stored]
    BY DEF SaveJob
  <1> QED
    BY <1>1, <1>2 DEF Saving, Stored

\* A field takes effect as its value, the environment or the default has it.
LEMMA EffectiveType ==
    ASSUME NEW f, NEW stored
    PROVE  effective(f, stored) \in Effective
  BY DEF effective, Effective, defaultOf

\* What the trail says does not depend on what nobody writes.
LEMMA ToldTheSame ==
    ASSUME SettingsInv, UNCHANGED <<env, settingsRow, saved, settingsTrail>>
    PROVE  SettingsTrailHolds'
  <1>1. /\ FoundRow' = FoundRow
        /\ \A f : Tells(f)' = Tells(f) /\ First(f)' = First(f)
        /\ \A f, v : effective(f, v)' = effective(f, v)
    BY DEF FoundRow, Empty, Tells, First, effective, NoRow
  <1>2. \A f, i, v : Told(f, i, v) => Told(f, i, v)'
    BY <1>1 DEF Told
  <1>3. TrailIsAnUnbrokenChain'
    BY <1>1, <1>2 DEF SettingsInv, SettingsTrailHolds, TrailIsAnUnbrokenChain
  <1> QED
    BY <1>3 DEF SettingsInv, SettingsTrailHolds

\* A handler's step other than a commit: its own record is right, nobody else's
\* is disturbed.
LEMMA SaveGoesOn ==
    ASSUME SettingsInv, NEW q \in Requests, NEW y, SaveHolds(q, y)', y.op = "saveSettings",
           UNCHANGED <<env, settingsRow, saved, settingsTrail>>,
           job' = Put(job, q, y),
           locked' = locked \/ (locked' = q /\ locked \in {None, q})
             \/ (locked' = q /\ settingsRow = NoRow /\ ~Inserting)
    PROVE  SettingsInv'
  <1> USE SettingsAssumption
  <1>1. /\ DOMAIN job' = DOMAIN job \cup {q} /\ job'[q] = y
        /\ \A r \in DOMAIN job \ {q} : job'[r] = job[r]
    BY DEF Put
  <1>2. FoundRow' = FoundRow
    BY DEF FoundRow, Empty
  <1>3. ASSUME NEW r \in InFlight({"saveSettings"})', r # q
        PROVE  r \in Requests /\ SaveHolds(r, job[r])'
    <2>1. r \in DOMAIN job /\ job'[r] = job[r] /\ r \in Requests /\ SaveHolds(r, job[r])
          /\ r \in InFlight({"saveSettings"})
      BY <1>1, <1>3 DEF InFlight, SettingsInv, SavesHold
    <2>2. r # None /\ (job[r].inserted \/ job[r].pc \in {"update", "record", "commit"} => locked' = r)
      <3>1. CASE locked' = locked
        BY <2>1, <3>1 DEF SaveHolds
      <3>2. CASE locked' = q /\ locked \in {None, q}
        BY <2>1, <3>2, <1>3 DEF SaveHolds
      <3>3. CASE settingsRow = NoRow /\ ~Inserting
        BY <2>1, <3>3 DEF SaveHolds, Inserting, InFlight
      <3> QED
        BY <3>1, <3>2, <3>3
    <2>3. changedFields(job[r]) = changedFields(job[r])'
      BY <2>1 DEF changedFields, Saving
    <2> QED
      BY <1>2, <2>1, <2>2, <2>3 DEF SaveHolds
  <1>4. SavesHold'
    BY <1>1, <1>3 DEF SavesHold
  <1>5. SettingsRowHolds'
    BY <1>1 DEF SettingsInv, SettingsRowHolds
  <1> QED
    BY <1>4, <1>5, ToldTheSame DEF SettingsInv

\* A transaction that ends takes its lock with it.
LEMMA SaveEnds ==
    ASSUME SettingsInv, NEW q \in InFlight({"saveSettings"}), Unlock(q), End(q),
           UNCHANGED <<env, settingsRow, saved, settingsTrail>>
    PROVE  SettingsInv'
  <1>1. DOMAIN job' = DOMAIN job \ {q} /\ \A r \in DOMAIN job' : job'[r] = job[r]
    BY DEF End, Drop, Restrict
  <1>2. FoundRow' = FoundRow
    BY DEF FoundRow, Empty
  <1>3. ASSUME NEW r \in InFlight({"saveSettings"})'
        PROVE  r \in Requests /\ SaveHolds(r, job[r])'
    <2>1. r # q /\ r \in DOMAIN job /\ job'[r] = job[r] /\ r \in Requests /\ SaveHolds(r, job[r])
      BY <1>1, <1>3 DEF InFlight, SettingsInv, SavesHold
    <2>2. changedFields(job[r]) = changedFields(job[r])'
      BY <2>1 DEF changedFields, Saving
    <2> QED
      BY <1>2, <2>1, <2>2 DEF SaveHolds, Unlock
  <1>4. SettingsRowHolds'
    BY <1>1 DEF SettingsInv, SettingsRowHolds, Unlock
  <1> QED
    BY <1>3, <1>4, ToldTheSame DEF SettingsInv, SavesHold

\* saveSettings: the input is parsed, nothing is locked.
LEMMA SaveBegins ==
    ASSUME SettingsInv, NEW q, NEW fields \in SUBSET SETTING_KEYS,
           NEW input \in [fields -> Given \cup {None}], saveSettings(q, fields, input)
    PROVE  SettingsInv'
  <1> PICK y : y = [op |-> "saveSettings", pc |-> "insert", input |-> input,
                    inserted |-> FALSE, before |-> Empty]
    OBVIOUS
  <1>1. q \in Requests \ DOMAIN job /\ job' = Put(job, q, y) /\ NothingSaved
    BY DEF saveSettings, Begin
  <1>2. y \in SaveJob
    BY DEF SaveJob, Empty, Stored
  <1> QED
    BY <1>1, <1>2, SaveGoesOn DEF SaveHolds, NothingSaved

\* The insertion, the lock and the two steps after it
LEMMA InsertRowSafe ==
    ASSUME SettingsInv, NEW q, insertRow(q)
    PROVE  SettingsInv'
  <1>1. /\ q \in DOMAIN job /\ job[q].pc = "insert" /\ q \in Requests /\ SaveHolds(q, job[q])
        /\ job[q].op = "saveSettings" /\ ~Inserting
        /\ UNCHANGED <<env, settingsRow, saved, settingsTrail>>
    BY DEF insertRow, At, SettingsInv, SavesHold, InFlight
  <1>2. CASE settingsRow = NoRow
    <2> PICK y : y = [job[q] EXCEPT !.pc = "lock", !.inserted = TRUE]
      OBVIOUS
    <2>1. y \in SaveJob /\ y.pc = "lock" /\ y.inserted /\ y.op = "saveSettings"
      BY <1>1 DEF SaveHolds, SaveJob
    <2>2. job' = Put(job, q, y) /\ locked' = q
      BY <1>1, <1>2 DEF insertRow, Put
    <2> QED
      BY <1>1, <1>2, <2>1, <2>2, SaveGoesOn DEF SaveHolds
  <1>3. CASE settingsRow # NoRow
    <2> PICK y : y = [job[q] EXCEPT !.pc = "lock"]
      OBVIOUS
    <2>1. y \in SaveJob /\ y.pc = "lock" /\ y.inserted = job[q].inserted /\ y.op = "saveSettings"
      BY <1>1 DEF SaveHolds, SaveJob
    <2>2. job' = Put(job, q, y) /\ locked' = locked
      BY <1>1, <1>3 DEF insertRow, GoTo, Put
    <2> QED
      BY <1>1, <1>3, <2>1, <2>2, SaveGoesOn DEF SaveHolds
  <1> QED
    BY <1>2, <1>3

\* SELECT ... FOR UPDATE: what is read is the row, and stays it.
LEMMA LockSafe ==
    ASSUME SettingsInv, NEW q, lockRow(q)
    PROVE  SettingsInv'
  <1> PICK y : y = [job[q] EXCEPT !.pc = "update", !.before = FoundRow]
    OBVIOUS
  <1>1. /\ q \in DOMAIN job /\ job[q].pc = "lock" /\ q \in Requests /\ SaveHolds(q, job[q])
        /\ job[q].op = "saveSettings" /\ locked \in {None, q} /\ locked' = q
        /\ UNCHANGED <<env, settingsRow, saved, settingsTrail>>
        /\ job' = Put(job, q, y)
    BY DEF lockRow, At, SettingsInv, SavesHold, InFlight, Put
  <1>2. FoundRow' = FoundRow
    BY <1>1 DEF FoundRow, Empty
  <1>3. y \in SaveJob /\ y.pc = "update" /\ y.inserted = job[q].inserted /\ y.op = "saveSettings"
        /\ y.before = FoundRow
    BY <1>1, FoundRowType DEF SaveHolds, SaveJob, SettingsInv
  <1>4. SaveHolds(q, y)'
    BY <1>1, <1>2, <1>3 DEF SaveHolds
  <1> QED
    BY <1>1, <1>3, <1>4, SaveGoesOn

\* The update and the trail are one transaction, undone together.
LEMMA RecordSafe ==
    ASSUME SettingsInv, NEW q, updateSettings(q) \/ recordSettings(q) \/ rollback(q)
    PROVE  SettingsInv'
  <1>1. /\ q \in InFlight({"saveSettings"}) /\ q \in Requests /\ SaveHolds(q, job[q])
        /\ q \in DOMAIN job /\ job[q].op = "saveSettings"
        /\ UNCHANGED <<env, settingsRow, saved, settingsTrail>>
    BY DEF updateSettings, recordSettings, rollback, At, NothingSaved, SettingsInv, SavesHold,
           InFlight
  <1>2. CASE Unlock(q) /\ End(q)
    BY <1>1, <1>2, SaveEnds
  <1>3. ASSUME NEW pc \in {"record", "commit"}, GoTo(q, pc), UNCHANGED locked,
               changedFields(job[q]) # {}, job[q].pc \in {"update", "record"}
        PROVE  SettingsInv'
    <2> PICK y : y = [job[q] EXCEPT !.pc = pc]
      OBVIOUS
    <2>1. y \in SaveJob /\ y.pc = pc /\ y.inserted = job[q].inserted /\ y.op = "saveSettings"
          /\ y.before = job[q].before /\ y.input = job[q].input
      BY <1>1 DEF SaveHolds, SaveJob
    <2>2. job' = Put(job, q, y)
      BY <1>1, <1>3 DEF GoTo, Put
    <2>3. FoundRow' = FoundRow
      BY <1>1 DEF FoundRow, Empty
    <2>4. changedFields(y)' # {}
      BY <1>3, <2>1 DEF changedFields, Saving
    <2>5. SaveHolds(q, y)'
      BY <1>1, <1>3, <2>1, <2>3, <2>4 DEF SaveHolds
    <2> QED
      BY <1>1, <1>3, <2>1, <2>2, <2>5, SaveGoesOn
  <1>4. CASE updateSettings(q)
    <2>1. CASE changedFields(job[q]) = {}
      BY <1>2, <1>4, <2>1 DEF updateSettings
    <2>2. CASE changedFields(job[q]) # {}
      BY <1>3, <1>4, <2>2 DEF updateSettings, At
    <2> QED
      BY <2>1, <2>2
  <1>5. CASE recordSettings(q)
    <2>1. job[q].pc = "record"
      BY <1>5 DEF recordSettings, At
    <2> QED
      BY <1>1, <1>3, <1>5, <2>1 DEF recordSettings, NothingSaved, SaveHolds
  <1> QED
    BY <1>2, <1>4, <1>5 DEF rollback

\* A commit writes what was read and what was entered, and says so: under the
\* lock, what was read is still what is there.
LEMMA CommitSafe ==
    ASSUME SettingsInv, NEW q, commitSettings(q)
    PROVE  SettingsInv'
  <1> USE SettingsAssumption
  <1> PICK j : j = job[q]
    OBVIOUS
  <1> PICK n : n = Len(settingsTrail) + 1
    OBVIOUS
  <1>1. /\ q \in DOMAIN job /\ job[q].pc = "commit" /\ q \in Requests /\ SaveHolds(q, j)
        /\ job[q].op = "saveSettings" /\ q \in InFlight({"saveSettings"})
        /\ Unlock(q) /\ End(q) /\ UNCHANGED <<env, saved>>
        /\ settingsRow' = Saving(j) /\ settingsTrail' = Append(settingsTrail, changesOf(j))
    BY DEF commitSettings, At, SettingsInv, SavesHold, InFlight
  <1>2. /\ locked = q /\ j.before = FoundRow /\ changedFields(j) # {} /\ j \in SaveJob
    BY <1>1 DEF SaveHolds
  <1>3. Saving(j) \in [SETTING_KEYS -> Stored] /\ FoundRow \in [SETTING_KEYS -> Stored]
    BY <1>2, SavingType, FoundRowType DEF SettingsInv
  <1>4. changedFields(j) \in (SUBSET SETTING_KEYS) \ {{}}
    <2>1. PICK fs \in SUBSET SETTING_KEYS : j.input \in [fs -> Given \cup {None}]
      BY <1>2 DEF SaveJob
    <2> QED
      BY <1>2, <2>1 DEF changedFields
  <1>5. settingsRow' # NoRow /\ FoundRow' = Saving(j)
    <2>1. DOMAIN Saving(j) = SETTING_KEYS /\ SETTING_KEYS # {}
      BY <1>4 DEF Saving
    <2>2. Saving(j) # NoRow
      BY <2>1 DEF NoRow
    <2>3. NoRow' = NoRow
      BY DEF NoRow
    <2> QED
      BY <1>1, <2>2, <2>3 DEF FoundRow
  <1>6. SettingsRowHolds'
    <2>1. DOMAIN job' \subseteq DOMAIN job /\ \A r \in DOMAIN job' : job'[r] = job[r]
      BY <1>1 DEF End, Drop, Restrict
    <2> QED
      BY <1>1, <1>3, <2>1 DEF SettingsInv, SettingsRowHolds, Unlock
  <1>7. SavesHold'
    <2>1. DOMAIN job' = DOMAIN job \ {q} /\ \A r \in DOMAIN job' : job'[r] = job[r]
      BY <1>1 DEF End, Drop, Restrict
    <2>2. ASSUME NEW r \in InFlight({"saveSettings"})'
          PROVE  r \in Requests /\ SaveHolds(r, job[r])'
      <3>1. r # q /\ r \in DOMAIN job /\ job'[r] = job[r] /\ r \in Requests /\ SaveHolds(r, job[r])
        BY <2>1, <2>2 DEF InFlight, SettingsInv, SavesHold
      <3>2. ~job[r].inserted /\ job[r].pc \notin {"update", "record", "commit"}
        BY <1>2, <3>1 DEF SaveHolds
      <3> QED
        BY <1>5, <3>1, <3>2 DEF SaveHolds
    <2> QED
      BY <2>2 DEF SavesHold
  <1>8. changesOf(j) \in [changedFields(j) -> Changes]
    <2>1. \A f \in changedFields(j) : ignored(j.before[f]) \in {None, Unusable}
      BY DEF ignored
    <2> QED
      BY <2>1, EffectiveType DEF changesOf, Changes
  <1>9. settingsTrail' \in Seq(UNION {[fs -> Changes] : fs \in (SUBSET SETTING_KEYS) \ {{}}})
    <2> DEFINE S == UNION {[fs -> Changes] : fs \in (SUBSET SETTING_KEYS) \ {{}}}
    <2>1. changesOf(j) \in S
      BY <1>4, <1>8
    <2>2. settingsTrail \in Seq(S)
      BY DEF SettingsInv, SettingsTrailHolds
    <2> HIDE DEF S
    <2>3. settingsTrail' \in Seq(S)
      BY <1>1, <2>1, <2>2
    <2> QED
      BY <2>3 DEF S
  <1>10. /\ Len(settingsTrail) \in Nat /\ n \in Nat \ {0} /\ DOMAIN settingsTrail = 1 .. n - 1
         /\ DOMAIN settingsTrail' = 1 .. n /\ settingsTrail'[n] = changesOf(j)
         /\ Len(settingsTrail') = n /\ n \notin DOMAIN settingsTrail
         /\ \A i \in 1 .. n - 1 : settingsTrail'[i] = settingsTrail[i]
    BY <1>1 DEF SettingsInv, SettingsTrailHolds
  <1>11. ASSUME NEW f \in SETTING_KEYS
         PROVE  /\ \A i \in Tells(f)' : Told(f, i, settingsTrail[i][f].from)'
                /\ Told(f, n + 1, effective(f, FoundRow[f]))'
                /\ First(f)' = Unusable /\ FoundRow'[f] # Unusable =>
                      \E i \in Tells(f)' : settingsTrail'[i][f].cleared = Unusable
    <2>1. /\ \A i \in Tells(f) : Told(f, i, settingsTrail[i][f].from)
          /\ Told(f, n, effective(f, FoundRow[f]))
          /\ First(f) = Unusable /\ FoundRow[f] # Unusable =>
                \E i \in Tells(f) : settingsTrail[i][f].cleared = Unusable
      BY DEF SettingsInv, SettingsTrailHolds, TrailIsAnUnbrokenChain
    <2>2. First(f)' = First(f) /\ \A v : effective(f, v)' = effective(f, v)
      BY <1>1 DEF First, effective, NoRow
    <2>3. /\ Tells(f) \subseteq 1 .. n - 1
          /\ Tells(f)' = Tells(f) \cup (IF f \in changedFields(j) THEN {n} ELSE {})
      BY <1>10 DEF Tells, changesOf
    <2>4. ASSUME NEW i \in 1 .. n, NEW v, Told(f, i, v)
          PROVE  Told(f, i, v)'
      <3>1. {k \in Tells(f)' : k < i} = {k \in Tells(f) : k < i}
        BY <1>10, <2>3
      <3>2. \A k \in Tells(f) : settingsTrail'[k] = settingsTrail[k]
        BY <1>10, <2>3
      <3> QED
        BY <2>2, <2>4, <3>1, <3>2 DEF Told
    <2>5. \A i \in Tells(f) : Told(f, i, settingsTrail[i][f].from)'
      BY <1>10, <2>1, <2>3, <2>4
    <2>6. CASE f \in changedFields(j)
      <3>1. /\ settingsTrail'[n][f].from = effective(f, FoundRow[f])
            /\ settingsTrail'[n][f].to = effective(f, Saving(j)[f])
            /\ settingsTrail'[n][f].cleared = ignored(FoundRow[f])
        BY <1>2, <1>10, <2>6 DEF changesOf
      <3>2. n \in Tells(f)' /\ Tells(f)' = Tells(f) \cup {n}
        BY <2>3, <2>6
      <3>3. ASSUME NEW v, v = settingsTrail'[n][f].from
            PROVE  Told(f, n, v)'
        BY <1>10, <2>1, <2>4, <3>1, <3>3
      <3>4. \A i \in Tells(f)' : Told(f, i, settingsTrail[i][f].from)'
        BY <1>10, <2>3, <2>5, <3>2, <3>3
      <3>5. Told(f, n + 1, effective(f, FoundRow[f]))'
        <4>1. n \in {k \in Tells(f)' : k < n + 1} /\ \A k \in Tells(f)' : k <= n
          BY <1>10, <2>3, <3>2
        <4>2. effective(f, FoundRow[f])' = settingsTrail'[n][f].to
          BY <1>5, <2>2, <3>1
        <4> QED
          BY <4>1, <4>2 DEF Told
      <3>6. First(f)' = Unusable /\ FoundRow'[f] # Unusable =>
               \E i \in Tells(f)' : settingsTrail'[i][f].cleared = Unusable
        <4>1. CASE FoundRow[f] = Unusable
          BY <3>1, <3>2, <4>1 DEF ignored
        <4>2. CASE FoundRow[f] # Unusable
          BY <1>10, <2>1, <2>2, <2>3, <3>2, <4>2
        <4> QED
          BY <4>1, <4>2
      <3> QED
        BY <3>4, <3>5, <3>6
    <2>7. CASE f \notin changedFields(j)
      <3>1. Tells(f)' = Tells(f)
        BY <2>3, <2>7
      <3>2. Saving(j)[f] = FoundRow[f]
        BY <1>2, <2>7 DEF changedFields, Saving
      <3>3. Told(f, n, effective(f, FoundRow[f]))'
        BY <1>5, <1>10, <2>1, <2>2, <2>4, <3>2
      <3>4. {k \in Tells(f)' : k < n + 1} = {k \in Tells(f)' : k < n}
        BY <1>10, <2>3, <3>1
      <3>5. Told(f, n + 1, effective(f, FoundRow[f]))'
        BY <3>3, <3>4 DEF Told
      <3>6. First(f)' = Unusable /\ FoundRow'[f] # Unusable =>
               \E i \in Tells(f)' : settingsTrail'[i][f].cleared = Unusable
        BY <1>5, <1>10, <2>1, <2>2, <2>3, <3>1, <3>2
      <3> QED
        BY <2>5, <3>1, <3>5, <3>6
    <2> QED
      BY <2>6, <2>7
  <1>12. TrailIsAnUnbrokenChain'
    BY <1>10, <1>11 DEF TrailIsAnUnbrokenChain
  <1> QED
    BY <1>6, <1>7, <1>9, <1>12 DEF SettingsInv, SettingsTrailHolds

\* Nothing has been saved yet, and the trail says so.
LEMMA SettingsStart ==
    ASSUME SettingsInit
    PROVE  SettingsTrailHolds
  <1>1. DOMAIN settingsTrail = {} /\ Len(settingsTrail) = 0
    BY DEF SettingsInit
  <1>2. \A f \in SETTING_KEYS : FoundRow[f] = First(f) /\ Tells(f) = {}
    BY <1>1 DEF SettingsInit, FoundRow, First, Empty, Tells
  <1>3. \A f \in SETTING_KEYS : Told(f, 1, effective(f, First(f)))
    BY <1>2 DEF Told
  <1> QED
    BY <1>1, <1>2, <1>3 DEF SettingsTrailHolds, TrailIsAnUnbrokenChain, SettingsInit

\* The invariant holds always.
THEOREM SettingsInvariant == SettingsSpec => []SettingsInv
  <1>1. SettingsInit /\ job = Nothing => SettingsInv
    <2> SUFFICES ASSUME SettingsInit, job = Nothing
                 PROVE  SettingsInv
      OBVIOUS
    <2>1. DOMAIN job = {}
      BY DEF Nothing
    <2>2. SettingsRowHolds
      BY <2>1 DEF SettingsInit, SettingsRowHolds, Stored
    <2> QED
      BY <2>1, <2>2, SettingsStart DEF SettingsInv, SavesHold, InFlight
  <1>2. SettingsInv /\ [SettingsNext]_settingsVars => SettingsInv'
    <2> SUFFICES ASSUME SettingsInv, [SettingsNext]_settingsVars
                 PROVE  SettingsInv'
      OBVIOUS
    <2>1. CASE UNCHANGED settingsVars
      <3>1. UNCHANGED <<env, settingsRow, saved, settingsTrail, locked, job>>
        BY <2>1 DEF settingsVars
      <3>2. FoundRow' = FoundRow /\ InFlight({"saveSettings"})' = InFlight({"saveSettings"})
        BY <3>1 DEF FoundRow, Empty, InFlight
      <3>3. \A j : changedFields(j)' = changedFields(j)
        BY DEF changedFields, Saving
      <3> QED
        BY <3>1, <3>2, <3>3, ToldTheSame DEF SettingsInv, SettingsRowHolds, SavesHold, SaveHolds
    <2>2. CASE crashSettings
      <3>1. DOMAIN job' = {} /\ locked' = None
            /\ UNCHANGED <<env, settingsRow, saved, settingsTrail>>
        BY <2>2 DEF crashSettings, Crash, Nothing
      <3> QED
        BY <3>1, ToldTheSame DEF SettingsInv, SettingsRowHolds, SavesHold, InFlight
    <2> QED
      BY <2>1, <2>2, SaveBegins, InsertRowSafe, LockSafe, RecordSafe, CommitSafe DEF SettingsNext
  <1> QED
    BY <1>1, <1>2, PTL DEF SettingsSpec

\* admin/settings/actions.ts, "the trail's 'from' values form an unbroken chain":
\* whoever saves at once, whatever fails, and whatever was stored before.
THEOREM EverySettingIsAccountedFor == SettingsSpec => []TrailIsAnUnbrokenChain
  <1>1. SettingsInv => TrailIsAnUnbrokenChain
    BY DEF SettingsInv, SettingsTrailHolds
  <1> QED
    BY <1>1, SettingsInvariant, PTL

\* The types of the table, the lock, the handlers and the trail.
THEOREM SettingsTypes == SettingsSpec => []SettingsTypeOK
  <1>1. SettingsInv => SettingsTypeOK
    BY DEF SettingsInv, SettingsRowHolds, SavesHold, SaveHolds, SettingsTrailHolds, SettingsTypeOK
  <1> QED
    BY <1>1, SettingsInvariant, PTL

-----------------------------------------------------------------------------
\* The catalog

\* A handler at work has read ids that were given out, and an id stays in its
\* list; a move has every row once.
WorkHolds(j) ==
    /\ j \in [op: CatalogOps, pc: {"write", "record"}, of: Ids \cup {0}, list: Lists,
              name: 0 .. Names, active: BOOLEAN, place: Nat, rows: Seq(Ids), done: Nat]
    /\ j.op \in {"add", "edit"} => j.name # 0
    /\ IF j.op = "add" THEN j.of = 0 ELSE j.of \in used
    /\ j.op # "add" /\ j.of \in DOMAIN entry => entry[j.of].list = j.list
    /\ \A i, k \in DOMAIN j.rows : i # k => j.rows[i] # j.rows[k]
    /\ \A i \in DOMAIN j.rows :
          /\ j.rows[i] \in used
          /\ j.rows[i] \in DOMAIN entry => entry[j.rows[i]].list = j.list

\* So for every handler in flight.
AllAtWorkHold == \A q \in DOMAIN job : WorkHolds(job[q])

\* The entries, under ids never used twice, with names unique in their list.
EntriesHold ==
    /\ DOMAIN entry \subseteq used /\ used \subseteq Ids
    /\ entry \in [DOMAIN entry ->
                    [list: Lists, name: 1 .. Names, active: BOOLEAN, sortOrder: Nat]]
    /\ \A e \in DOMAIN entry : entry[e].list \in {Top} \cup Siblings(Top)
    /\ \A d, e \in DOMAIN entry :
          d # e /\ entry[d].list = entry[e].list => entry[d].name # entry[e].name

\* What a move arranged is of its own list alone.
ArrangedHold ==
    /\ \A list \in DOMAIN arranged :
          /\ arranged[list] \in Seq(Ids)
          /\ \A i \in DOMAIN arranged[list] :
                /\ arranged[list][i] \in used
                /\ arranged[list][i] \in DOMAIN entry =>
                      entry[arranged[list][i]].list = list
    /\ OrderIsTheLastMoves

\* As long as nothing failed: what is not on offer is on the trail, or about to be.
AvailabilityHolds ==
    /\ mishaps \in Nat
    /\ mishaps = 0 => \A e \in DOMAIN entry :
          entry[e].active \/ <<e, FALSE>> \in catalogTrail
            \/ \E q \in DOMAIN job : /\ job[q].op = "toggle" /\ job[q].pc = "record"
                                     /\ job[q].of = e /\ ~job[q].active

\* The four together are inductive.
CatalogInv == EntriesHold /\ AllAtWorkHold /\ ArrangedHold /\ AvailabilityHolds

\* A list is finite: its names are numbered and unique.
LEMMA SiblingsFinite ==
    ASSUME EntriesHold, NEW list
    PROVE  IsFiniteSet(Siblings(list))
  <1>1. IsFiniteSet(Ids)
    BY CatalogAssumption, FS_Interval DEF Ids
  <1>2. Siblings(list) \subseteq Ids
    BY DEF EntriesHold, Siblings
  <1> QED
    BY <1>1, <1>2, FS_Subset

\* InOrder lists every row of a list once.
LEMMA InOrderListsAll ==
    ASSUME EntriesHold, NEW list
    PROVE  InOrder(list) \in Bijection(1 .. Cardinality(Siblings(list)), Siblings(list))
  <1> PICK S : S = Siblings(list)
    OBVIOUS
  <1> PICK n : n = Cardinality(S)
    OBVIOUS
  <1> PICK R : R = {p \in S \X S : Before(p[1], p[2])}
    OBVIOUS
  <1>1. IsFiniteSet(S) /\ n \in Nat
    BY SiblingsFinite, FS_CardinalityType
  <1>2. /\ \A x \in S : <<x, x>> \notin R
        /\ \A x, y \in S : x # y => <<x, y>> \in R \/ <<y, x>> \in R
        /\ \A x, y, z \in S : <<x, y>> \in R /\ <<y, z>> \in R => <<x, z>> \in R
    <2>1. \A x \in S : entry[x].sortOrder \in Int /\ entry[x].name \in Int
      BY DEF EntriesHold, Siblings
    <2>2. \A x, y \in S : x # y => entry[x].name # entry[y].name
      BY DEF EntriesHold, Siblings
    <2>3. \A x, y \in S : <<x, y>> \in R <=> Before(x, y)
      OBVIOUS
    <2>4. \A x \in S : ~Before(x, x)
      BY <2>1 DEF Before
    <2>5. \A x, y \in S : x # y => Before(x, y) \/ Before(y, x)
      BY <2>1, <2>2 DEF Before
    <2>6. \A x, y, z \in S : Before(x, y) /\ Before(y, z) => Before(x, z)
      BY <2>1 DEF Before
    <2> QED
      BY ONLY <2>3, <2>4, <2>5, <2>6
  <1>3. RankIn(S, R) \in Bijection(S, 0 .. n - 1)
    BY <1>1, <1>2, Ranking
  <1>4. \A e \in S : RankIn(S, R)[e] = Rank(list, e)
    <2>1. \A e \in S : Below(S, R, e) = {d \in Siblings(list) : Before(d, e)}
      BY DEF Below
    <2> QED
      BY <2>1 DEF RankIn, Rank
  <1>5. ASSUME NEW i \in 1 .. n
        PROVE  InOrder(list)[i] \in S /\ Rank(list, InOrder(list)[i]) = i - 1
    <2>1. PICK d \in S : Rank(list, d) = i - 1
      BY <1>1, <1>3, <1>4 DEF Bijection, Surjection
    <2>2. InOrder(list)[i] = CHOOSE e \in S : Rank(list, e) = i - 1
      BY DEF InOrder
    <2> QED
      BY <2>1, <2>2
  <1>6. ASSUME NEW e \in S
        PROVE  \E i \in 1 .. n : InOrder(list)[i] = e
    <2>1. Rank(list, e) \in 0 .. n - 1
      BY <1>3, <1>4 DEF Bijection, Injection
    <2>2. PICK i \in 1 .. n : i - 1 = Rank(list, e)
      BY <1>1, <2>1
    <2>3. Rank(list, InOrder(list)[i]) = Rank(list, e) /\ InOrder(list)[i] \in S
      BY <1>5, <2>2
    <2> QED
      BY <1>3, <1>4, <2>3 DEF Bijection, Injection, IsInjective
  <1>7. InOrder(list) \in [1 .. n -> S]
    BY <1>5 DEF InOrder
  <1>8. \A i, k \in 1 .. n : InOrder(list)[i] = InOrder(list)[k] => i = k
    BY <1>1, <1>5
  <1> QED
    BY <1>6, <1>7, <1>8 DEF Bijection, Injection, Surjection, IsInjective

\* A new row is placed behind the last.
LEMMA LastPlaceType ==
    ASSUME EntriesHold, NEW list
    PROVE  LastPlace(list) \in Nat
  <1> PICK taken : taken = {entry[e].sortOrder : e \in Siblings(list)}
    OBVIOUS
  <1>1. taken \subseteq Nat
    BY DEF EntriesHold, Siblings
  <1>2. IsFiniteSet(taken)
    <2> PICK f : f = [e \in Siblings(list) |-> entry[e].sortOrder]
      OBVIOUS
    <2>1. f \in Surjection(Siblings(list), taken)
      BY DEF Surjection
    <2> QED
      BY <2>1, SiblingsFinite, FS_Surjection
  <1>3. CASE taken = {}
    BY <1>3 DEF LastPlace
  <1>4. CASE taken # {}
    <2>1. \E m \in taken : \A k \in taken : k <= m
      <3>1. taken \subseteq Int
        BY <1>1
      <3> QED
        BY ONLY <3>1, <1>2, <1>4, Greatest
    <2>2. (CHOOSE n \in taken : \A k \in taken : k <= n) \in Nat
      BY <1>1, <2>1
    <2> QED
      BY <1>4, <2>2 DEF LastPlace
  <1> QED
    BY <1>3, <1>4

\* What every write but a move's leaves alone: a row stays in its list, and a
\* new one has an id of its own.
RowsStay ==
    /\ used \subseteq used'
    /\ \A e \in DOMAIN entry' : e \in used =>
          e \in DOMAIN entry /\ entry'[e].list = entry[e].list

\* What a handler rests on outlives what the others write.
LEMMA WorkStays ==
    ASSUME NEW j, WorkHolds(j), RowsStay
    PROVE  WorkHolds(j)'
  BY DEF WorkHolds, RowsStay

\* One handler changes and the others are as they were.
LEMMA AtWorkStay ==
    ASSUME AllAtWorkHold, RowsStay, NEW q,
           \A r \in DOMAIN job' \ {q} : r \in DOMAIN job /\ job'[r] = job[r],
           q \in DOMAIN job' => WorkHolds(job[q])'
    PROVE  AllAtWorkHold'
  <1>1. ASSUME NEW r \in DOMAIN job', r # q
        PROVE  WorkHolds(job[r])'
    <2> PICK j : j = job[r]
      OBVIOUS
    <2>1. WorkHolds(j) /\ job'[r] = j
      BY <1>1 DEF AllAtWorkHold
    <2>2. WorkHolds(j)'
      BY <2>1, WorkStays
    <2> QED
      BY <2>1, <2>2
  <1> QED
    BY <1>1 DEF AllAtWorkHold

\* Nobody has renumbered a list.
LEMMA ArrangedStays ==
    ASSUME ArrangedHold, RowsStay, arranged' = arranged,
           \A e \in DOMAIN entry' : e \in used => entry'[e].sortOrder = entry[e].sortOrder
    PROVE  ArrangedHold'
  <1>1. \A list \in DOMAIN arranged : \A i \in DOMAIN arranged[list] :
           /\ arranged[list][i] \in used'
           /\ arranged[list][i] \in DOMAIN entry' =>
                 /\ arranged[list][i] \in DOMAIN entry
                 /\ entry'[arranged[list][i]].list = list
                 /\ entry'[arranged[list][i]].sortOrder = entry[arranged[list][i]].sortOrder
    BY DEF ArrangedHold, RowsStay
  <1>2. OrderIsTheLastMoves'
    BY <1>1 DEF ArrangedHold, OrderIsTheLastMoves
  <1> QED
    BY <1>1, <1>2 DEF ArrangedHold

\* A handler that begins, goes on or ends, and writes nothing
LEMMA NothingWritten ==
    ASSUME CatalogInv, NEW q, UNCHANGED <<entry, arranged, used>>,
           \A r \in DOMAIN job' \ {q} : r \in DOMAIN job /\ job'[r] = job[r],
           q \in DOMAIN job' => WorkHolds(job[q])'
    PROVE  EntriesHold' /\ AllAtWorkHold' /\ ArrangedHold'
  <1>1. RowsStay
    BY DEF RowsStay
  <1> QED
    BY <1>1, AtWorkStay, ArrangedStays DEF CatalogInv, EntriesHold, Siblings

\* Who is about to record that an entry is off still is, unless it is q; and what
\* q switches off it is about to record.
OffBy(q, e) ==
    /\ q \in DOMAIN job /\ job[q].op = "toggle" /\ job[q].pc = "record"
    /\ job[q].of = e /\ ~job[q].active

\* Nobody has switched an entry but who is about to say so.
LEMMA AvailabilityStays ==
    ASSUME CatalogInv, NEW q, mishaps' = mishaps, catalogTrail' = catalogTrail,
           \A r \in DOMAIN job \ {q} : r \in DOMAIN job' /\ job'[r] = job[r],
           q \in DOMAIN job => job[q].op # "toggle" \/ job[q].pc # "record",
           \A e \in DOMAIN entry' :
              \/ entry'[e].active \/ OffBy(q, e)'
              \/ e \in DOMAIN entry /\ entry'[e].active = entry[e].active
    PROVE  AvailabilityHolds'
  <1>1. ASSUME NEW e, NEW r, OffBy(r, e)
        PROVE  OffBy(r, e)'
    <2>1. r # q
      BY <1>1 DEF OffBy
    <2> QED
      BY <1>1, <2>1 DEF OffBy
  <1>2. ASSUME mishaps = 0, NEW e \in DOMAIN entry'
        PROVE  entry'[e].active \/ <<e, FALSE>> \in catalogTrail' \/ \E r : OffBy(r, e)'
    <2>1. CASE e \in DOMAIN entry /\ entry'[e].active = entry[e].active
      <3>1. entry[e].active \/ <<e, FALSE>> \in catalogTrail \/ \E r : OffBy(r, e)
        BY <1>2, <2>1 DEF CatalogInv, AvailabilityHolds, OffBy
      <3> QED
        BY <1>1, <2>1, <3>1
    <2> QED
      BY <2>1
  <1> QED
    BY <1>2 DEF CatalogInv, AvailabilityHolds, OffBy

\* A handler begins.
LEMMA WorkBegins ==
    ASSUME CatalogInv, NEW q, NEW x, CatalogWork(q, x), WorkHolds(x)
    PROVE  CatalogInv'
  <1>1. /\ DOMAIN job' = DOMAIN job \cup {q} /\ job'[q] = x /\ q \notin DOMAIN job
        /\ \A r \in DOMAIN job : job'[r] = job[r]
        /\ UNCHANGED <<entry, catalogTrail, arranged, used, mishaps>>
    BY DEF CatalogWork, Begin, Put
  <1>2. WorkHolds(x)'
    BY <1>1, WorkStays DEF RowsStay
  <1> QED
    BY <1>1, <1>2, NothingWritten, AvailabilityStays DEF CatalogInv

\* A handler that has read nothing yet.
LEMMA BlankType ==
    /\ Blank \in [op: CatalogOps, pc: {"write", "record"}, of: Ids \cup {0}, list: Lists,
                  name: 0 .. Names, active: BOOLEAN, place: Nat, rows: Seq(Ids), done: Nat]
    /\ Blank.rows = << >> /\ DOMAIN Blank.rows = {} /\ Blank.op = "add" /\ Blank.of = 0
  BY CatalogAssumption DEF Blank, CatalogOps, Lists, Top

\* The operations of one row, as they begin
LEMMA BeginSafe ==
    ASSUME CatalogInv, NEW q, NEW e, NEW list \in Lists, NEW name \in 1 .. Names,
           addEntry(q, list, name) \/ editEntry(q, e, name) \/ toggleEntry(q, e)
              \/ removeEntry(q, e)
    PROVE  CatalogInv'
  <1> USE CatalogAssumption
  <1>1. e \in DOMAIN entry => /\ e \in Ids /\ e \in used /\ entry[e].list \in Lists
                              /\ entry[e].active \in BOOLEAN
    BY DEF CatalogInv, EntriesHold
  <1>2. name \in 0 .. Names /\ name # 0
    OBVIOUS
  <1>3. CASE addEntry(q, list, name)
    <2> PICK place : place = LastPlace(list)
      OBVIOUS
    <2> PICK x : x = [Blank EXCEPT !.list = list, !.name = name, !.place = place]
      OBVIOUS
    <2>1. place \in Nat
      BY LastPlaceType DEF CatalogInv
    <2>2. WorkHolds(x)
      BY <1>2, <2>1, BlankType DEF WorkHolds
    <2> QED
      BY <1>3, <2>2, WorkBegins DEF addEntry
  <1>4. CASE editEntry(q, e, name)
    <2> PICK x : x = [Blank EXCEPT !.op = "edit", !.of = e, !.list = entry[e].list, !.name = name]
      OBVIOUS
    <2>1. WorkHolds(x)
      BY <1>1, <1>2, <1>4, BlankType DEF WorkHolds, CatalogOps, editEntry
    <2> QED
      BY <1>4, <2>1, WorkBegins DEF editEntry
  <1>5. CASE toggleEntry(q, e)
    <2> PICK active \in BOOLEAN : active = ~entry[e].active
      OBVIOUS
    <2> PICK x : x = [Blank EXCEPT !.op = "toggle", !.of = e, !.list = entry[e].list,
                                   !.active = active]
      OBVIOUS
    <2>1. WorkHolds(x)
      BY <1>1, <1>5, BlankType DEF WorkHolds, CatalogOps, toggleEntry
    <2> QED
      BY <1>5, <2>1, WorkBegins DEF toggleEntry
  <1>6. CASE removeEntry(q, e)
    <2> PICK x : x = [Blank EXCEPT !.op = "remove", !.of = e, !.list = entry[e].list]
      OBVIOUS
    <2>1. WorkHolds(x)
      BY <1>1, <1>6, BlankType DEF WorkHolds, CatalogOps, removeEntry
    <2> QED
      BY <1>6, <2>1, WorkBegins DEF removeEntry
  <1> QED
    BY <1>3, <1>4, <1>5, <1>6

\* Two places of a list swapped leave it without repetitions.
LEMMA Swapped ==
    ASSUME NEW S, NEW n \in Nat, NEW s \in [1 .. n -> S],
           \A i, k \in 1 .. n : s[i] = s[k] => i = k,
           NEW a \in 1 .. n, NEW b \in 1 .. n, a # b,
           NEW rows, rows = [s EXCEPT ![a] = s[b], ![b] = s[a]]
    PROVE  /\ rows \in Seq(S) /\ DOMAIN rows = 1 .. n
           /\ \A i \in 1 .. n : rows[i] \in S
           /\ \A i, k \in 1 .. n : i # k => rows[i] # rows[k]
  <1>1. /\ rows \in [1 .. n -> S]
        /\ \A i \in 1 .. n : rows[i] = IF i = b THEN s[a] ELSE IF i = a THEN s[b] ELSE s[i]
    OBVIOUS
  <1> PICK p : p = [i \in 1 .. n |-> IF i = b THEN a ELSE IF i = a THEN b ELSE i]
    OBVIOUS
  <1>2. \A i \in 1 .. n : p[i] \in 1 .. n /\ rows[i] = s[p[i]]
    BY <1>1
  <1>3. \A i, k \in 1 .. n : i # k => p[i] # p[k]
    OBVIOUS
  <1>4. \A i, k \in 1 .. n : i # k => rows[i] # rows[k]
    BY <1>2, <1>3
  <1> QED
    BY <1>1, <1>4

\* A move has read its whole list, and swaps two neighbours of it.
LEMMA MoveBegins ==
    ASSUME CatalogInv, NEW q, NEW e, NEW by \in {-1, 1}, moveEntry(q, e, by)
    PROVE  CatalogInv'
  <1> PICK list : list = entry[e].list
    OBVIOUS
  <1> PICK s : s = InOrder(list)
    OBVIOUS
  <1> PICK n : n = Cardinality(Siblings(list))
    OBVIOUS
  <1> PICK from : from = CHOOSE i \in DOMAIN s : s[i] = e
    OBVIOUS
  <1> PICK rows : rows = [s EXCEPT ![from] = s[from + by], ![from + by] = e]
    OBVIOUS
  <1>1. e \in DOMAIN entry /\ from + by \in DOMAIN s
        /\ CatalogWork(q, [Blank EXCEPT !.op = "move", !.of = e, !.list = list, !.rows = rows])
    BY DEF moveEntry
  <1>2. e \in Siblings(list) /\ n \in Nat /\ e \in Ids /\ e \in used /\ list \in Lists
    BY <1>1, SiblingsFinite, FS_CardinalityType DEF Siblings, CatalogInv, EntriesHold
  <1>3. s \in Bijection(1 .. n, Siblings(list))
    BY InOrderListsAll DEF CatalogInv
  <1>4. /\ s \in [1 .. n -> Siblings(list)]
        /\ \A i, k \in 1 .. n : s[i] = s[k] => i = k
        /\ \E i \in 1 .. n : s[i] = e
    BY <1>2, <1>3 DEF Bijection, Injection, Surjection, IsInjective
  <1>5. from \in 1 .. n /\ s[from] = e
    <2>1. \E i \in DOMAIN s : s[i] = e
      BY <1>4
    <2> QED
      BY <1>4, <2>1
  <1>6. from + by \in 1 .. n /\ from + by # from
    <2>1. from \in Int /\ by \in Int /\ by # 0
      BY <1>5
    <2>2. DOMAIN s = 1 .. n
      BY <1>4
    <2>3. from + by \in DOMAIN s
      BY <1>1
    <2> QED
      BY ONLY <2>1, <2>2, <2>3
  <1>7. rows = [s EXCEPT ![from] = s[from + by], ![from + by] = s[from]]
    BY <1>5
  <1>8. /\ rows \in Seq(Siblings(list)) /\ DOMAIN rows = 1 .. n
        /\ \A i \in 1 .. n : rows[i] \in Siblings(list)
        /\ \A i, k \in 1 .. n : i # k => rows[i] # rows[k]
    BY ONLY <1>2, <1>4, <1>5, <1>6, <1>7, Swapped
  <1>9. Siblings(list) \subseteq Ids /\ Siblings(list) \subseteq used
        /\ \A d \in Siblings(list) : entry[d].list = list
    BY DEF Siblings, CatalogInv, EntriesHold
  <1>10. rows \in Seq(Ids)
    <2>1. n \in Nat
      BY <1>2
    <2> QED
      BY ONLY <1>8, <1>9, <2>1
  <1> PICK x : x = [Blank EXCEPT !.op = "move", !.of = e, !.list = list, !.rows = rows]
    OBVIOUS
  <1>11. /\ x \in [op: CatalogOps, pc: {"write", "record"}, of: Ids \cup {0}, list: Lists,
                   name: 0 .. Names, active: BOOLEAN, place: Nat, rows: Seq(Ids), done: Nat]
         /\ x.op = "move" /\ x.of = e /\ x.list = list /\ x.rows = rows
    BY <1>2, <1>10, BlankType DEF CatalogOps
  <1>12. WorkHolds(x)
    <2>1. /\ \A i \in DOMAIN rows : rows[i] \in used /\ entry[rows[i]].list = list
          /\ \A i, k \in DOMAIN rows : i # k => rows[i] # rows[k]
      BY ONLY <1>8, <1>9
    <2>2. e \in used /\ e \in DOMAIN entry /\ entry[e].list = list
      BY <1>1, <1>2
    <2> QED
      BY ONLY <1>11, <2>1, <2>2 DEF WorkHolds
  <1> QED
    BY <1>1, <1>12, WorkBegins

\* A handler at work that goes on to record what it has written
LEMMA WorkRecords ==
    ASSUME NEW j, WorkHolds(j), NEW y, y = [j EXCEPT !.pc = "record"]
    PROVE  /\ WorkHolds(y) /\ y.pc = "record" /\ y.op = j.op /\ y.of = j.of
           /\ y.active = j.active
  <1>1. /\ y \in [op: CatalogOps, pc: {"write", "record"}, of: Ids \cup {0}, list: Lists,
                  name: 0 .. Names, active: BOOLEAN, place: Nat, rows: Seq(Ids), done: Nat]
        /\ y.pc = "record" /\ y.op = j.op /\ y.of = j.of /\ y.active = j.active
        /\ y.list = j.list /\ y.rows = j.rows /\ y.name = j.name
    BY DEF WorkHolds
  <1> QED
    BY <1>1 DEF WorkHolds

\* A handler at the writing that ends or stays where it is, having written nothing
LEMMA RefusedSafe ==
    ASSUME CatalogInv, NEW q \in DOMAIN job, job[q].pc = "write", End(q),
           UNCHANGED <<entry, catalogTrail, arranged, used, mishaps>>
    PROVE  CatalogInv'
  <1>1. DOMAIN job' = DOMAIN job \ {q} /\ \A r \in DOMAIN job' : job'[r] = job[r]
    BY DEF End, Drop, Restrict
  <1> QED
    BY <1>1, NothingWritten, AvailabilityStays DEF CatalogInv

\* addMaterialAction and its like: an entry is inserted.
LEMMA InsertEntrySafe ==
    ASSUME CatalogInv, NEW q, insertEntry(q)
    PROVE  CatalogInv'
  <1> USE CatalogAssumption
  <1> PICK j : j = job[q]
    OBVIOUS
  <1>1. q \in DOMAIN job /\ j.op = "add" /\ j.pc = "write" /\ WorkHolds(j)
        /\ UNCHANGED <<catalogTrail, arranged, mishaps>>
    BY DEF insertEntry, MayWrite, At, CatalogInv, AllAtWorkHold
  <1>2. CASE NameTaken(q) \/ j.list \notin {Top} \cup Siblings(Top)
    BY <1>1, <1>2, RefusedSafe DEF insertEntry
  <1>3. CASE ~NameTaken(q) /\ j.list \in {Top} \cup Siblings(Top)
    <2>1. PICK e \in Ids \ used : /\ entry' = Put(entry, e, NewEntry(j))
                                  /\ used' = used \cup {e} /\ GoTo(q, "record")
      BY <1>3 DEF insertEntry
    <2> PICK row : row = NewEntry(j)
      OBVIOUS
    <2>2. /\ row \in [list: Lists, name: 1 .. Names, active: BOOLEAN, sortOrder: Nat]
          /\ row.active /\ row.list = j.list /\ row.name = j.name
      BY <1>1 DEF NewEntry, WorkHolds
    <2>3. /\ DOMAIN entry' = DOMAIN entry \cup {e} /\ entry'[e] = row /\ e \notin DOMAIN entry
          /\ \A d \in DOMAIN entry : entry'[d] = entry[d]
          /\ entry' = [d \in DOMAIN entry' |-> entry'[d]]
      BY <2>1 DEF Put, CatalogInv, EntriesHold
    <2>4. EntriesHold'
      <3>1. \A d \in DOMAIN entry : entry[d].list = j.list => entry[d].name # j.name
        <4>1. j.of \notin DOMAIN entry
          BY <1>1 DEF WorkHolds, CatalogInv, EntriesHold, Ids
        <4> QED
          BY <1>3, <4>1 DEF NameTaken, Siblings
      <3>2. DOMAIN entry' \subseteq used' /\ used' \subseteq Ids
        BY <2>1, <2>3 DEF CatalogInv, EntriesHold
      <3>3. Siblings(Top) \subseteq Siblings(Top)'
        BY <2>3 DEF Siblings
      <3>4. \A d \in DOMAIN entry' :
               /\ entry'[d] \in [list: Lists, name: 1 .. Names, active: BOOLEAN, sortOrder: Nat]
               /\ entry'[d].list \in {Top} \cup Siblings(Top)'
        BY <1>3, <2>2, <2>3, <3>3 DEF CatalogInv, EntriesHold
      <3>5. \A d, c \in DOMAIN entry' :
               d # c /\ entry'[d].list = entry'[c].list => entry'[d].name # entry'[c].name
        BY <2>2, <2>3, <3>1 DEF CatalogInv, EntriesHold
      <3> QED
        BY <2>3, <3>2, <3>4, <3>5 DEF EntriesHold
    <2>5. RowsStay /\ \A d \in DOMAIN entry' : d \in used => entry'[d] = entry[d]
      BY <2>1, <2>3 DEF RowsStay
    <2> PICK y : y = [j EXCEPT !.pc = "record"]
      OBVIOUS
    <2>6. WorkHolds(y) /\ y.op = "add"
      BY <1>1, WorkRecords
    <2>7. /\ DOMAIN job' = DOMAIN job /\ job'[q] = y
          /\ \A r \in DOMAIN job \ {q} : job'[r] = job[r]
      BY <1>1, <2>1 DEF GoTo
    <2>8. AllAtWorkHold'
      <3>1. WorkHolds(y)'
        BY <2>5, <2>6, WorkStays
      <3> QED
        BY <2>5, <2>7, <3>1, AtWorkStay DEF CatalogInv
    <2>9. ArrangedHold'
      BY <1>1, <2>5, ArrangedStays DEF CatalogInv
    <2>10. AvailabilityHolds'
      <3>1. \A d \in DOMAIN entry' : entry'[d].active \/ (/\ d \in DOMAIN entry
                                                          /\ entry'[d].active = entry[d].active)
        BY <2>2, <2>3
      <3> QED
        BY <1>1, <2>7, <3>1, AvailabilityStays
    <2> QED
      BY <2>4, <2>8, <2>9, <2>10 DEF CatalogInv
  <1> QED
    BY <1>2, <1>3

\* A row that is rewritten in its list: its name is still nobody else's.
LEMMA RewriteSafe ==
    ASSUME CatalogInv, NEW q, NEW row, q \in DOMAIN job, WorkHolds(job[q]),
           job[q].pc = "write", job[q].op # "add", Wrote(q, row),
           UNCHANGED <<catalogTrail, arranged, used, mishaps>>,
           job[q].of \in DOMAIN entry =>
              /\ row \in [list: Lists, name: 1 .. Names, active: BOOLEAN, sortOrder: Nat]
              /\ row.list = entry[job[q].of].list
              /\ row.sortOrder = entry[job[q].of].sortOrder
              /\ \A d \in DOMAIN entry \ {job[q].of} :
                    entry[d].list = row.list => entry[d].name # row.name
              /\ \/ row.active = entry[job[q].of].active
                 \/ job[q].op = "toggle" /\ row.active = job[q].active
    PROVE  CatalogInv'
  <1> PICK j : j = job[q]
    OBVIOUS
  <1> PICK o : o = j.of
    OBVIOUS
  <1>1. CASE o \notin DOMAIN entry
    BY <1>1, RefusedSafe DEF Wrote
  <1>2. CASE o \in DOMAIN entry
    <2>1. entry' = [entry EXCEPT ![o] = row] /\ GoTo(q, "record")
      BY <1>2 DEF Wrote
    <2>2. /\ DOMAIN entry' = DOMAIN entry /\ entry'[o] = row
          /\ \A d \in DOMAIN entry \ {o} : entry'[d] = entry[d]
          /\ entry' = [d \in DOMAIN entry' |-> entry'[d]]
      BY <1>2, <2>1 DEF CatalogInv, EntriesHold
    <2>3. \A d \in DOMAIN entry : /\ entry'[d].list = entry[d].list
                                  /\ entry'[d].sortOrder = entry[d].sortOrder
      BY <1>2, <2>2
    <2>4. RowsStay
      BY <2>2, <2>3 DEF RowsStay
    <2>5. EntriesHold'
      <3>1. Siblings(Top)' = Siblings(Top)
        BY <2>2, <2>3 DEF Siblings
      <3>2. \A d \in DOMAIN entry' :
               /\ entry'[d] \in [list: Lists, name: 1 .. Names, active: BOOLEAN, sortOrder: Nat]
               /\ entry'[d].list \in {Top} \cup Siblings(Top)'
        BY <1>2, <2>2, <2>3, <3>1 DEF CatalogInv, EntriesHold
      <3>3. \A d, c \in DOMAIN entry' :
               d # c /\ entry'[d].list = entry'[c].list => entry'[d].name # entry'[c].name
        BY <1>2, <2>2, <2>3 DEF CatalogInv, EntriesHold
      <3> QED
        BY <2>2, <3>2, <3>3 DEF CatalogInv, EntriesHold
    <2> PICK y : y = [j EXCEPT !.pc = "record"]
      OBVIOUS
    <2>6. WorkHolds(y) /\ y.pc = "record" /\ y.op = j.op /\ y.of = o /\ y.active = j.active
      BY WorkRecords
    <2>7. /\ DOMAIN job' = DOMAIN job /\ job'[q] = y
          /\ \A r \in DOMAIN job \ {q} : job'[r] = job[r]
      BY <2>1 DEF GoTo
    <2>8. AllAtWorkHold'
      <3>1. WorkHolds(y)'
        BY <2>4, <2>6, WorkStays
      <3> QED
        BY <2>4, <2>7, <3>1, AtWorkStay DEF CatalogInv
    <2>9. ArrangedHold'
      BY <2>2, <2>3, <2>4, ArrangedStays DEF CatalogInv
    <2>10. AvailabilityHolds'
      <3>1. \A d \in DOMAIN entry' :
               \/ entry'[d].active \/ OffBy(q, d)'
               \/ d \in DOMAIN entry /\ entry'[d].active = entry[d].active
        BY <1>2, <2>2, <2>6, <2>7 DEF OffBy
      <3> QED
        BY <2>7, <3>1, AvailabilityStays
    <2> QED
      BY <2>5, <2>8, <2>9, <2>10 DEF CatalogInv
  <1> QED
    BY <1>1, <1>2

\* An entry takes a name that is free.
LEMMA RenameEntrySafe ==
    ASSUME CatalogInv, NEW q, renameEntry(q)
    PROVE  CatalogInv'
  <1> PICK o : o = job[q].of
    OBVIOUS
  <1> PICK row : row = [entry[o] EXCEPT !.name = job[q].name]
    OBVIOUS
  <1>1. q \in DOMAIN job /\ job[q].op = "edit" /\ job[q].pc = "write" /\ WorkHolds(job[q])
        /\ UNCHANGED <<catalogTrail, arranged, used, mishaps>>
    BY DEF renameEntry, MayWrite, At, CatalogInv, AllAtWorkHold
  <1>2. CASE NameTaken(q)
    BY <1>1, <1>2, RefusedSafe DEF renameEntry
  <1>3. CASE ~NameTaken(q)
    <2>1. Wrote(q, row)
      BY <1>3 DEF renameEntry
    <2>2. ASSUME o \in DOMAIN entry
          PROVE  /\ row \in [list: Lists, name: 1 .. Names, active: BOOLEAN, sortOrder: Nat]
                 /\ row.list = entry[o].list /\ row.sortOrder = entry[o].sortOrder
                 /\ row.active = entry[o].active
                 /\ \A d \in DOMAIN entry \ {o} :
                       entry[d].list = row.list => entry[d].name # row.name
      <3>1. entry[o] \in [list: Lists, name: 1 .. Names, active: BOOLEAN, sortOrder: Nat]
        BY <2>2 DEF CatalogInv, EntriesHold
      <3>2. job[q].name \in 1 .. Names /\ job[q].list = entry[o].list
        BY <1>1, <2>2, CatalogAssumption DEF WorkHolds
      <3>3. /\ row \in [list: Lists, name: 1 .. Names, active: BOOLEAN, sortOrder: Nat]
            /\ row.list = entry[o].list /\ row.sortOrder = entry[o].sortOrder
            /\ row.active = entry[o].active /\ row.name = job[q].name
        BY <3>1, <3>2
      <3> QED
        BY <1>3, <3>2, <3>3 DEF NameTaken, Siblings
    <2> QED
      BY <1>1, <2>1, <2>2, RewriteSafe
  <1> QED
    BY <1>2, <1>3

\* An entry is switched, whatever it was.
LEMMA ToggleEntrySafe ==
    ASSUME CatalogInv, NEW q, setActive(q)
    PROVE  CatalogInv'
  <1> PICK o : o = job[q].of
    OBVIOUS
  <1> PICK row : row = [entry[o] EXCEPT !.active = job[q].active]
    OBVIOUS
  <1>1. q \in DOMAIN job /\ job[q].op = "toggle" /\ job[q].pc = "write" /\ WorkHolds(job[q])
        /\ UNCHANGED <<catalogTrail, arranged, used, mishaps>> /\ Wrote(q, row)
    BY DEF setActive, MayWrite, At, CatalogInv, AllAtWorkHold
  <1>2. ASSUME o \in DOMAIN entry
        PROVE  /\ row \in [list: Lists, name: 1 .. Names, active: BOOLEAN, sortOrder: Nat]
               /\ row.list = entry[o].list /\ row.sortOrder = entry[o].sortOrder
               /\ row.active = job[q].active
               /\ \A d \in DOMAIN entry \ {o} :
                     entry[d].list = row.list => entry[d].name # row.name
    <2>1. entry[o] \in [list: Lists, name: 1 .. Names, active: BOOLEAN, sortOrder: Nat]
      BY <1>2 DEF CatalogInv, EntriesHold
    <2>2. job[q].active \in BOOLEAN
      BY <1>1 DEF WorkHolds
    <2>3. /\ row \in [list: Lists, name: 1 .. Names, active: BOOLEAN, sortOrder: Nat]
          /\ row.list = entry[o].list /\ row.sortOrder = entry[o].sortOrder
          /\ row.active = job[q].active /\ row.name = entry[o].name
      BY <2>1, <2>2
    <2> QED
      BY <1>2, <2>3 DEF CatalogInv, EntriesHold
  <1> QED
    BY <1>1, <1>2, RewriteSafe

\* A row that goes takes its colours along, and only them: the others' list is
\* still there.
LEMMA DeleteEntrySafe ==
    ASSUME CatalogInv, NEW q, deleteEntry(q)
    PROVE  CatalogInv'
  <1> PICK o : o = job[q].of
    OBVIOUS
  <1>1. q \in DOMAIN job /\ job[q].op = "remove" /\ job[q].pc = "write" /\ WorkHolds(job[q])
        /\ UNCHANGED <<catalogTrail, arranged, used, mishaps>> /\ o # Top
    <2>1. q \in DOMAIN job /\ job[q].op = "remove" /\ job[q].pc = "write" /\ WorkHolds(job[q])
          /\ UNCHANGED <<catalogTrail, arranged, used, mishaps>>
      BY DEF deleteEntry, MayWrite, At, CatalogInv, AllAtWorkHold
    <2>2. o \in Ids
      BY <2>1 DEF WorkHolds, CatalogInv, EntriesHold
    <2> QED
      BY <2>1, <2>2 DEF Ids, Top
  <1>2. /\ DOMAIN entry' = {e \in DOMAIN entry : o \notin {e, entry[e].list}}
        /\ \A e \in DOMAIN entry' : entry'[e] = entry[e]
        /\ entry' = [e \in DOMAIN entry' |-> entry'[e]]
    BY DEF deleteEntry, Restrict
  <1>3. RowsStay
    BY <1>1, <1>2 DEF RowsStay
  <1>4. EntriesHold'
    <2>1. \A e \in DOMAIN entry' : entry'[e].list \in {Top} \cup Siblings(Top)'
      BY <1>1, <1>2 DEF CatalogInv, EntriesHold, Siblings
    <2> QED
      BY <1>1, <1>2, <2>1 DEF CatalogInv, EntriesHold
  <1>5. ArrangedHold'
    BY <1>1, <1>2, <1>3, ArrangedStays DEF CatalogInv
  <1>6. CASE o \notin DOMAIN entry
    <2>1. End(q)
      BY <1>6 DEF deleteEntry
    <2>2. DOMAIN job' = DOMAIN job \ {q} /\ \A r \in DOMAIN job' : job'[r] = job[r]
      BY <2>1 DEF End, Drop, Restrict
    <2>3. AllAtWorkHold' /\ AvailabilityHolds'
      BY <1>1, <1>2, <1>3, <2>2, AtWorkStay, AvailabilityStays DEF CatalogInv
    <2> QED
      BY <1>4, <1>5, <2>3 DEF CatalogInv
  <1>7. CASE o \in DOMAIN entry
    <2> PICK y : y = [job[q] EXCEPT !.pc = "record"]
      OBVIOUS
    <2>1. WorkHolds(y)
      BY <1>1, WorkRecords
    <2>2. WorkHolds(y)'
      BY <1>3, <2>1, WorkStays
    <2>3. /\ DOMAIN job' = DOMAIN job /\ job'[q] = y
          /\ \A r \in DOMAIN job \ {q} : job'[r] = job[r]
      BY <1>1, <1>7 DEF deleteEntry, GoTo
    <2>4. AllAtWorkHold' /\ AvailabilityHolds'
      BY <1>1, <1>2, <1>3, <2>2, <2>3, AtWorkStay, AvailabilityStays DEF CatalogInv
    <2> QED
      BY <1>4, <1>5, <2>4 DEF CatalogInv
  <1> QED
    BY <1>6, <1>7

\* A move numbers one row, if it is there.
LEMMA NumberSafe ==
    ASSUME CatalogInv, NEW q, numberRow(q)
    PROVE  CatalogInv'
  <1>1. q \in DOMAIN job /\ job[q].op = "move" /\ job[q].pc = "write" /\ WorkHolds(job[q])
        /\ UNCHANGED <<entry, catalogTrail, arranged, used, mishaps>>
    BY DEF numberRow, MayWrite, At, CatalogInv, AllAtWorkHold
  <1>2. CASE End(q)
    BY <1>1, <1>2, RefusedSafe
  <1>3. CASE job' = [job EXCEPT ![q].done = @ + 1]
    <2> PICK done : done = job[q].done + 1
      OBVIOUS
    <2> PICK y : y = [job[q] EXCEPT !.done = done]
      OBVIOUS
    <2>1. /\ y \in [op: CatalogOps, pc: {"write", "record"}, of: Ids \cup {0}, list: Lists,
                    name: 0 .. Names, active: BOOLEAN, place: Nat, rows: Seq(Ids), done: Nat]
          /\ y.op = job[q].op /\ y.of = job[q].of /\ y.list = job[q].list
          /\ y.rows = job[q].rows /\ y.name = job[q].name
      BY <1>1 DEF WorkHolds
    <2>2. WorkHolds(y)
      BY <1>1, <2>1 DEF WorkHolds
    <2>3. WorkHolds(y)'
      BY <1>1, <2>2, WorkStays DEF RowsStay
    <2>4. /\ DOMAIN job' = DOMAIN job /\ job'[q] = y
          /\ \A r \in DOMAIN job \ {q} : job'[r] = job[r]
      BY <1>1, <1>3
    <2> QED
      BY <1>1, <2>3, <2>4, NothingWritten, AvailabilityStays DEF CatalogInv
  <1> QED
    BY <1>2, <1>3 DEF numberRow

\* A list without repetitions has each of its rows in one place.
LEMMA PlaceOf ==
    ASSUME NEW S, NEW rows \in Seq(S), \A i, k \in DOMAIN rows : i # k => rows[i] # rows[k],
           NEW i \in DOMAIN rows
    PROVE  (CHOOSE k \in DOMAIN rows : rows[k] = rows[i]) = i /\ i \in Nat \ {0}
  OBVIOUS

\* A move that is saved numbers its rows in their order; every other list, and
\* what the database holds to, is as it was.
LEMMA MoveEntrySafe ==
    ASSUME CatalogInv, NEW q, commitMove(q)
    PROVE  CatalogInv'
  <1> DEFINE Row == [list: Lists, name: 1 .. Names, active: BOOLEAN, sortOrder: Nat]
  <1>1. q \in DOMAIN job /\ job[q].op = "move" /\ job[q].pc = "write" /\ WorkHolds(job[q])
        /\ UNCHANGED <<catalogTrail, used, mishaps>>
    BY DEF commitMove, At, CatalogInv, AllAtWorkHold
  <1> PICK list : list = job[q].list
    OBVIOUS
  <1>2. PICK rows : rows = job[q].rows
    OBVIOUS
  <1>3. /\ rows \in Seq(Ids) /\ \A i, k \in DOMAIN rows : i # k => rows[i] # rows[k]
        /\ \A i \in DOMAIN rows :
              rows[i] \in used /\ (rows[i] \in DOMAIN entry => entry[rows[i]].list = list)
    BY <1>1, <1>2 DEF WorkHolds
  <1>4. /\ DOMAIN entry' = DOMAIN entry /\ entry' = [e \in DOMAIN entry' |-> entry'[e]]
        /\ \A e \in DOMAIN entry : (\A i \in DOMAIN rows : rows[i] # e) => entry'[e] = entry[e]
        /\ \A i \in DOMAIN rows : rows[i] \in DOMAIN entry =>
              entry'[rows[i]] = [entry[rows[i]] EXCEPT !.sortOrder =
                                   (CHOOSE k \in DOMAIN rows : rows[k] = rows[i]) - 1]
    BY <1>2 DEF commitMove
  <1>5. \A e \in DOMAIN entry : entry[e] \in Row
    BY DEF CatalogInv, EntriesHold
  <1>6. ASSUME NEW i \in DOMAIN rows, NEW e \in DOMAIN entry, rows[i] = e
        PROVE  /\ entry'[e] \in Row
               /\ entry'[e].list = entry[e].list /\ entry'[e].name = entry[e].name
               /\ entry'[e].active = entry[e].active /\ entry'[e].sortOrder = i - 1
    <2>1. (CHOOSE k \in DOMAIN rows : rows[k] = rows[i]) = i /\ i \in Nat \ {0}
      BY <1>3, PlaceOf
    <2>2. entry'[e] = [entry[e] EXCEPT !.sortOrder = i - 1]
      BY ONLY <1>4, <1>6, <2>1
    <2>3. entry[e] \in Row /\ i - 1 \in Nat
      BY <1>5, <2>1
    <2> QED
      BY ONLY <2>2, <2>3
  <1>7. \A e \in DOMAIN entry :
           /\ entry'[e] \in Row
           /\ entry'[e].list = entry[e].list /\ entry'[e].name = entry[e].name
           /\ entry'[e].active = entry[e].active
    <2> HIDE DEF Row
    <2> QED
      BY ONLY <1>4, <1>5, <1>6
  <1>8. EntriesHold'
    <2>1. Siblings(Top)' = Siblings(Top)
      BY <1>4, <1>7 DEF Siblings
    <2>2. \A e \in DOMAIN entry' : entry'[e].list \in {Top} \cup Siblings(Top)'
      BY <1>4, <1>7, <2>1 DEF CatalogInv, EntriesHold
    <2>3. \A d, e \in DOMAIN entry' :
             d # e /\ entry'[d].list = entry'[e].list => entry'[d].name # entry'[e].name
      BY <1>4, <1>7 DEF CatalogInv, EntriesHold
    <2>4. entry' \in [DOMAIN entry' -> Row]
      <3> HIDE DEF Row
      <3> QED
        BY ONLY <1>4, <1>7
    <2> QED
      BY <1>1, <1>4, <2>2, <2>3, <2>4 DEF CatalogInv, EntriesHold
  <1>9. RowsStay
    BY <1>1, <1>4, <1>7 DEF RowsStay
  <1> PICK y : y = [job[q] EXCEPT !.pc = "record", !.rows = << >>, !.done = 0]
    OBVIOUS
  <1>10. WorkHolds(y) /\ y.op = "move"
    <2>1. /\ y \in [op: CatalogOps, pc: {"write", "record"}, of: Ids \cup {0}, list: Lists,
                    name: 0 .. Names, active: BOOLEAN, place: Nat, rows: Seq(Ids), done: Nat]
          /\ y.op = "move" /\ y.of = job[q].of /\ y.list = job[q].list
          /\ y.rows = << >> /\ DOMAIN y.rows = {}
      <3>1. << >> \in Seq(Ids) /\ DOMAIN << >> = {} /\ 0 \in Nat
        OBVIOUS
      <3> QED
        BY <1>1, <3>1 DEF WorkHolds
    <2> QED
      BY <1>1, <2>1 DEF WorkHolds
  <1>11. /\ DOMAIN job' = DOMAIN job /\ job'[q] = y
         /\ \A r \in DOMAIN job \ {q} : job'[r] = job[r]
    BY <1>1 DEF commitMove
  <1>12. AllAtWorkHold'
    <2>1. WorkHolds(y)'
      BY <1>9, <1>10, WorkStays
    <2> QED
      BY <1>9, <1>11, <2>1, AtWorkStay DEF CatalogInv
  <1>13. AvailabilityHolds'
    <2>1. \A e \in DOMAIN entry' : e \in DOMAIN entry /\ entry'[e].active = entry[e].active
      BY <1>4, <1>7
    <2> QED
      BY <1>1, <1>11, <2>1, AvailabilityStays
  <1>14. /\ DOMAIN arranged' = DOMAIN arranged \cup {list} /\ arranged'[list] = rows
         /\ \A l \in DOMAIN arranged \ {list} : arranged'[l] = arranged[l]
    BY <1>2 DEF commitMove, Put
  <1>15. ASSUME NEW l \in DOMAIN arranged', NEW s, s = arranged'[l]
         PROVE  /\ s \in Seq(Ids)
                /\ \A i \in DOMAIN s :
                      s[i] \in used' /\ (s[i] \in DOMAIN entry' => entry'[s[i]].list = l)
                /\ \A i, k \in DOMAIN s :
                      i < k /\ {s[i], s[k]} \subseteq DOMAIN entry' =>
                         entry'[s[i]].sortOrder < entry'[s[k]].sortOrder
    <2>1. CASE l = list
      <3>1. s = rows
        BY <1>14, <1>15, <2>1
      <3>2. \A i \in DOMAIN rows : i \in Int
        BY <1>3
      <3>3. \A i \in DOMAIN rows : rows[i] \in DOMAIN entry => entry'[rows[i]].sortOrder = i - 1
        BY <1>6
      <3>4. \A i, k \in DOMAIN rows : i < k /\ {rows[i], rows[k]} \subseteq DOMAIN entry =>
               entry'[rows[i]].sortOrder < entry'[rows[k]].sortOrder
        BY ONLY <3>2, <3>3
      <3>5. \A i \in DOMAIN rows :
               rows[i] \in used' /\ (rows[i] \in DOMAIN entry => entry'[rows[i]].list = list)
        BY <1>1, <1>3, <1>7
      <3> QED
        BY ONLY <1>3, <1>4, <2>1, <3>1, <3>4, <3>5
    <2>2. CASE l # list
      <3>1. /\ l \in DOMAIN arranged /\ arranged[l] = s
            /\ s \in Seq(Ids)
            /\ \A i \in DOMAIN s : s[i] \in used /\ (s[i] \in DOMAIN entry => entry[s[i]].list = l)
            /\ \A i, k \in DOMAIN s : i < k /\ {s[i], s[k]} \subseteq DOMAIN entry =>
                  entry[s[i]].sortOrder < entry[s[k]].sortOrder
        BY <1>14, <1>15, <2>2 DEF CatalogInv, ArrangedHold, OrderIsTheLastMoves
      <3>2. \A i \in DOMAIN s : s[i] \in DOMAIN entry => entry'[s[i]] = entry[s[i]]
        BY ONLY <1>3, <1>4, <2>2, <3>1
      <3> QED
        BY <1>1, <1>4, <3>1, <3>2
    <2> QED
      BY <2>1, <2>2
  <1>16. ArrangedHold'
    BY <1>15 DEF ArrangedHold, OrderIsTheLastMoves
  <1> QED
    BY <1>8, <1>12, <1>13, <1>16 DEF CatalogInv

\* A row is added to the trail.
LEMMA RecordedSafe ==
    ASSUME CatalogInv, NEW q, recordCatalog(q)
    PROVE  CatalogInv'
  <1>1. q \in DOMAIN job /\ job[q].pc = "record" /\ UNCHANGED <<entry, arranged, used, mishaps>>
        /\ catalogTrail \subseteq catalogTrail' /\ WorkHolds(job[q])
    BY DEF recordCatalog, InFlight, CatalogInv, AllAtWorkHold
  <1>2. DOMAIN job' = DOMAIN job \ {q} /\ \A r \in DOMAIN job' : job'[r] = job[r]
    BY DEF recordCatalog, End, Drop, Restrict
  <1>3. ASSUME mishaps = 0, NEW e \in DOMAIN entry
        PROVE  entry[e].active \/ <<e, FALSE>> \in catalogTrail'
                 \/ \E r \in DOMAIN job' : OffBy(r, e)'
    <2>1. entry[e].active \/ <<e, FALSE>> \in catalogTrail \/ \E r \in DOMAIN job : OffBy(r, e)
      BY <1>3 DEF CatalogInv, AvailabilityHolds, OffBy
    <2>2. ASSUME OffBy(q, e)
          PROVE  <<e, FALSE>> \in catalogTrail'
      <3>1. job[q].active = FALSE /\ job[q].of = e /\ job[q].op = "toggle"
        BY <1>1, <2>2 DEF OffBy, WorkHolds
      <3> QED
        BY <3>1 DEF recordCatalog
    <2>3. ASSUME NEW r \in DOMAIN job, OffBy(r, e), r # q
          PROVE  r \in DOMAIN job' /\ OffBy(r, e)'
      BY <1>2, <2>3 DEF OffBy
    <2> QED
      BY <1>1, <2>1, <2>2, <2>3
  <1>4. AvailabilityHolds'
    BY <1>1, <1>3 DEF CatalogInv, AvailabilityHolds, OffBy
  <1> QED
    BY <1>1, <1>2, <1>4, NothingWritten DEF CatalogInv

\* A handler fails, or all of them do.
LEMMA MishapSafe ==
    ASSUME CatalogInv, (\E q : failCatalog(q)) \/ crashCatalog
    PROVE  CatalogInv'
  <1>1. UNCHANGED <<entry, arranged, used>> /\ mishaps' = mishaps + 1
    BY DEF failCatalog, crashCatalog, Crash, Mishap
  <1>2. AvailabilityHolds'
    <2>1. mishaps \in Nat
      BY DEF CatalogInv, AvailabilityHolds
    <2>2. mishaps' \in Nat /\ mishaps' # 0
      BY <1>1, <2>1
    <2> QED
      BY <2>2 DEF AvailabilityHolds
  <1>3. \A r \in DOMAIN job' : r \in DOMAIN job /\ job'[r] = job[r]
    BY DEF failCatalog, crashCatalog, Crash, End, Drop, Restrict, Nothing
  <1>4. RowsStay
    BY <1>1 DEF RowsStay
  <1>5. AllAtWorkHold'
    <2>1. ASSUME NEW r \in DOMAIN job'
          PROVE  WorkHolds(job[r])'
      <3> PICK j : j = job[r]
        OBVIOUS
      <3>1. WorkHolds(j) /\ job'[r] = j
        BY <1>3 DEF CatalogInv, AllAtWorkHold
      <3> QED
        BY <1>4, <3>1, WorkStays
    <2> QED
      BY <2>1 DEF AllAtWorkHold
  <1> QED
    BY <1>1, <1>2, <1>4, <1>5, ArrangedStays DEF CatalogInv, EntriesHold, Siblings

\* The catalog as it is seeded, everything on offer
LEMMA CatalogStart ==
    ASSUME CatalogInit
    PROVE  /\ EntriesHold /\ ArrangedHold
           /\ \A e \in DOMAIN entry : entry[e].active
  <1> USE CatalogAssumption
  <1>1. /\ DOMAIN entry = 1 .. Materials + Colours
        /\ entry = [e \in DOMAIN entry |-> entry[e]]
        /\ \A e \in DOMAIN entry :
              entry[e] = [list |-> IF e <= Materials THEN Top ELSE 1,
                          name |-> IF e <= Materials THEN e ELSE e - Materials,
                          active |-> TRUE,
                          sortOrder |-> (IF e <= Materials THEN e ELSE e - Materials) - 1]
    BY DEF CatalogInit
  <1>2. \A e \in DOMAIN entry :
           /\ entry[e] \in [list: Lists, name: 1 .. Names, active: BOOLEAN, sortOrder: Nat]
           /\ entry[e].list = IF e <= Materials THEN Top ELSE 1
           /\ entry[e].name = IF e <= Materials THEN e ELSE e - Materials
           /\ entry[e].active
    <2>1. ASSUME NEW e \in 1 .. Materials + Colours
          PROVE  /\ (IF e <= Materials THEN e ELSE e - Materials) \in 1 .. Names
                 /\ (IF e <= Materials THEN e ELSE e - Materials) - 1 \in Nat
      OBVIOUS
    <2>2. 0 \in Lists /\ 1 \in Lists
      BY DEF Lists, Ids, Top
    <2>3. ASSUME NEW e \in 1 .. Materials + Colours, NEW list \in Lists,
                 NEW name \in 1 .. Names, name - 1 \in Nat,
                 entry[e] = [list |-> list, name |-> name, active |-> TRUE,
                             sortOrder |-> name - 1]
          PROVE  /\ entry[e] \in [list: Lists, name: 1 .. Names, active: BOOLEAN, sortOrder: Nat]
                 /\ entry[e].list = list /\ entry[e].name = name /\ entry[e].active
      BY ONLY <2>3
    <2> QED
      BY <1>1, <2>1, <2>2, <2>3 DEF Top
  <1>3. 1 \in Siblings(Top)
    BY <1>1, <1>2 DEF Siblings
  <1>4. EntriesHold
    BY <1>1, <1>2, <1>3 DEF CatalogInit, EntriesHold, Ids, Top
  <1>5. DOMAIN arranged = {}
    BY DEF CatalogInit, Nothing
  <1>6. ArrangedHold
    BY <1>5 DEF ArrangedHold, OrderIsTheLastMoves
  <1> QED
    BY <1>2, <1>4, <1>6

\* The invariant holds always.
THEOREM CatalogInvariant == CatalogSpec => []CatalogInv
  <1>1. CatalogInit /\ job = Nothing /\ mishaps = 0 => CatalogInv
    <2> SUFFICES ASSUME CatalogInit, job = Nothing, mishaps = 0
                 PROVE  CatalogInv
      OBVIOUS
    <2>1. DOMAIN job = {}
      BY DEF Nothing
    <2>2. AllAtWorkHold /\ AvailabilityHolds
      BY <2>1, CatalogStart DEF AllAtWorkHold, AvailabilityHolds
    <2> QED
      BY <2>2, CatalogStart DEF CatalogInv
  <1>2. CatalogInv /\ [CatalogNext]_catalogVars => CatalogInv'
    <2> SUFFICES ASSUME CatalogInv, [CatalogNext]_catalogVars
                 PROVE  CatalogInv'
      OBVIOUS
    <2>1. CASE UNCHANGED catalogVars
      <3>1. UNCHANGED <<entry, catalogTrail, arranged, used, job, mishaps>>
        BY <2>1 DEF catalogVars
      <3>2. EntriesHold'
        BY <3>1 DEF CatalogInv, EntriesHold, Siblings
      <3>3. ArrangedHold' /\ AvailabilityHolds'
        BY <3>1, ArrangedStays DEF CatalogInv, RowsStay, AvailabilityHolds
      <3>4. AllAtWorkHold'
        BY <3>1 DEF CatalogInv, AllAtWorkHold, WorkHolds
      <3> QED
        BY <3>2, <3>3, <3>4 DEF CatalogInv
    <2>2. ASSUME NEW q, abortMove(q)
          PROVE  CatalogInv'
      BY <2>2, RefusedSafe DEF abortMove, At
    <2>3. ASSUME NEW q, BeginCatalog(q)
          PROVE  CatalogInv'
      <3>1. 1 \in 1 .. Names /\ Top \in Lists
        BY CatalogAssumption DEF Lists
      <3> QED
        BY <2>3, <3>1, BeginSafe, MoveBegins DEF BeginCatalog
    <2> QED
      BY <2>1, <2>2, <2>3, InsertEntrySafe, RenameEntrySafe, ToggleEntrySafe, DeleteEntrySafe, NumberSafe,
         MoveEntrySafe, RecordedSafe, MishapSafe DEF CatalogNext
  <1> QED
    BY <1>1, <1>2, PTL DEF CatalogSpec

\* moveMaterialAction, moveColorAction: the rows of every list, however long it
\* is, stand in the order of the last move that was saved.
THEOREM OrderHolds == CatalogSpec => []OrderIsTheLastMoves
  <1>1. CatalogInv => OrderIsTheLastMoves
    BY DEF CatalogInv, ArrangedHold
  <1> QED
    BY <1>1, CatalogInvariant, PTL

\* toggleMaterialAction, toggleColorAction: what is off is on the trail, however
\* many are at the catalog at once.
THEOREM AvailabilityIsTold == CatalogSpec => []AvailabilityIsOnTheTrail
  <1>1. CatalogInv => AvailabilityIsOnTheTrail
    <2> SUFFICES ASSUME CatalogInv, Quiet(CatalogOps), mishaps = 0,
                        NEW e \in DOMAIN entry, ~entry[e].active
                 PROVE  <<e, FALSE>> \in catalogTrail
      BY DEF AvailabilityIsOnTheTrail
    <2>1. DOMAIN job = {}
      BY DEF CatalogInv, AllAtWorkHold, WorkHolds, Quiet, InFlight
    <2> QED
      BY <2>1 DEF CatalogInv, AvailabilityHolds
  <1> QED
    BY <1>1, CatalogInvariant, PTL

\* Nobody stands behind more than was ever added, no move has numbered more rows
\* than it has, and the trail is about entries.
PlacesHold ==
    /\ catalogTrail \subseteq Ids \X BOOLEAN
    /\ \A e \in DOMAIN entry : entry[e].sortOrder < Cardinality(used)
    /\ \A q \in DOMAIN job :
          job[q].place <= Cardinality(used) /\ job[q].done <= Len(job[q].rows)

\* There are only so many ids.
LEMMA IdsAreCounted ==
    ASSUME NEW S \in SUBSET Ids
    PROVE  /\ IsFiniteSet(S) /\ Cardinality(S) \in Nat
           /\ Cardinality(S) <= Materials + Colours + Spare
  <1>1. IsFiniteSet(Ids) /\ Cardinality(Ids) = Materials + Colours + Spare
    BY CatalogAssumption, FS_Interval DEF Ids
  <1> QED
    BY <1>1, FS_Subset, FS_CardinalityType

\* Nor were more ids given out than that.
LEMMA UsedIsCounted ==
    ASSUME EntriesHold
    PROVE  /\ IsFiniteSet(used) /\ Cardinality(used) \in Nat
           /\ Cardinality(used) <= Materials + Colours + Spare
  BY IdsAreCounted DEF EntriesHold

\* A new row stands behind no more than were added before it.
LEMMA PlaceWithinUsed ==
    ASSUME EntriesHold, PlacesHold, NEW list
    PROVE  LastPlace(list) <= Cardinality(used)
  <1> PICK taken : taken = {entry[e].sortOrder : e \in Siblings(list)}
    OBVIOUS
  <1>1. Cardinality(used) \in Nat
    BY UsedIsCounted
  <1>2. \A k \in taken : k \in Nat /\ k < Cardinality(used)
    BY DEF EntriesHold, PlacesHold, Siblings
  <1>3. CASE taken = {}
    BY <1>1, <1>3 DEF LastPlace
  <1>4. CASE taken # {}
    <2>1. IsFiniteSet(taken)
      <3> PICK f : f = [e \in Siblings(list) |-> entry[e].sortOrder]
        OBVIOUS
      <3>1. f \in Surjection(Siblings(list), taken)
        BY DEF Surjection
      <3> QED
        BY <3>1, SiblingsFinite, FS_Surjection
    <2>2. \E m \in taken : \A k \in taken : k <= m
      <3>1. taken \subseteq Int
        BY <1>2
      <3> QED
        BY ONLY <3>1, <1>4, <2>1, Greatest
    <2>3. PICK m \in taken : m = CHOOSE n \in taken : \A k \in taken : k <= n
      BY <2>2
    <2>4. LastPlace(list) = 1 + m
      BY <1>4, <2>3 DEF LastPlace
    <2>5. m \in Nat /\ m < Cardinality(used)
      BY ONLY <1>2, <2>3
    <2> QED
      BY ONLY <1>1, <2>4, <2>5
  <1> QED
    BY <1>3, <1>4

\* A move has read no more rows than were added.
LEMMA RowsWithinUsed ==
    ASSUME EntriesHold, NEW j, WorkHolds(j)
    PROVE  Len(j.rows) \in Nat /\ Len(j.rows) <= Cardinality(used)
  <1> PICK rows : rows = j.rows
    OBVIOUS
  <1> PICK n : n = Len(rows)
    OBVIOUS
  <1>1. /\ rows \in Seq(Ids) /\ \A i, k \in DOMAIN rows : i # k => rows[i] # rows[k]
        /\ \A i \in DOMAIN rows : rows[i] \in used
    BY DEF WorkHolds
  <1>2. n \in Nat /\ DOMAIN rows = 1 .. n /\ rows \in [1 .. n -> Ids]
    BY <1>1
  <1>3. rows \in Injection(1 .. n, used)
    BY <1>1, <1>2 DEF Injection, IsInjective
  <1>4. Cardinality(1 .. n) <= Cardinality(used)
    BY <1>3, UsedIsCounted, FS_Injection
  <1>5. Cardinality(1 .. n) = n
    BY <1>2, FS_Interval
  <1> QED
    BY <1>2, <1>4, <1>5

\* One handler changes; no id is given back.
LEMMA PlacesStay ==
    ASSUME CatalogInv, CatalogInv', PlacesHold, used \subseteq used',
           catalogTrail' \subseteq Ids \X BOOLEAN,
           \A e \in DOMAIN entry' : entry'[e].sortOrder < Cardinality(used'),
           NEW q, \A r \in DOMAIN job' \ {q} : r \in DOMAIN job /\ job'[r] = job[r],
           q \in DOMAIN job' => /\ job'[q].place <= Cardinality(used)
                                /\ job'[q].done <= Len(job'[q].rows)
    PROVE  PlacesHold'
  <1>1. Cardinality(used) \in Nat /\ Cardinality(used') \in Nat /\ IsFiniteSet(used')
    <2>1. used \in SUBSET Ids /\ used' \in SUBSET Ids
      BY DEF CatalogInv, EntriesHold
    <2> QED
      BY <2>1, IdsAreCounted
  <1>2. Cardinality(used) <= Cardinality(used')
    BY <1>1, FS_Subset
  <1>3. ASSUME NEW r \in DOMAIN job'
        PROVE  job'[r].place <= Cardinality(used') /\ job'[r].done <= Len(job'[r].rows)
    <2>1. job'[r].place \in Nat
      BY <1>3 DEF CatalogInv, AllAtWorkHold, WorkHolds
    <2>2. job'[r].place <= Cardinality(used) /\ job'[r].done <= Len(job'[r].rows)
      BY <1>3 DEF PlacesHold
    <2> QED
      BY <1>1, <1>2, <2>1, <2>2
  <1> QED
    BY <1>3 DEF PlacesHold

\* A handler begins where it stands last, at most.
LEMMA PlacesBegin ==
    ASSUME CatalogInv, CatalogInv', PlacesHold, NEW q, BeginCatalog(q)
    PROVE  PlacesHold'
  <1>1. PICK x : CatalogWork(q, x) /\ x.done = 0 /\ (x.place = 0 \/ \E l : x.place = LastPlace(l))
    <2>1. ASSUME NEW list, NEW name, addEntry(q, list, name)
          PROVE  \E x : /\ CatalogWork(q, x) /\ x.done = 0
                        /\ x.place = 0 \/ \E l : x.place = LastPlace(l)
      <3> PICK x : x = [Blank EXCEPT !.list = list, !.name = name, !.place = LastPlace(list)]
        OBVIOUS
      <3>1. x.done = 0 /\ x.place = LastPlace(list)
        BY DEF Blank
      <3> QED
        BY <2>1, <3>1 DEF addEntry
    <2>2. ASSUME NEW e, NEW name, editEntry(q, e, name)
          PROVE  \E x : CatalogWork(q, x) /\ x.done = 0 /\ x.place = 0
      <3> PICK x : x = [Blank EXCEPT !.op = "edit", !.of = e, !.list = entry[e].list,
                                     !.name = name]
        OBVIOUS
      <3>1. x.done = 0 /\ x.place = 0
        BY DEF Blank
      <3> QED
        BY <2>2, <3>1 DEF editEntry
    <2>3. ASSUME NEW e, toggleEntry(q, e)
          PROVE  \E x : CatalogWork(q, x) /\ x.done = 0 /\ x.place = 0
      <3> PICK x : x = [Blank EXCEPT !.op = "toggle", !.of = e, !.list = entry[e].list,
                                     !.active = ~entry[e].active]
        OBVIOUS
      <3>1. x.done = 0 /\ x.place = 0
        BY DEF Blank
      <3> QED
        BY <2>3, <3>1 DEF toggleEntry
    <2>4. ASSUME NEW e, removeEntry(q, e)
          PROVE  \E x : CatalogWork(q, x) /\ x.done = 0 /\ x.place = 0
      <3> PICK x : x = [Blank EXCEPT !.op = "remove", !.of = e, !.list = entry[e].list]
        OBVIOUS
      <3>1. x.done = 0 /\ x.place = 0
        BY DEF Blank
      <3> QED
        BY <2>4, <3>1 DEF removeEntry
    <2>5. ASSUME NEW e, NEW by, moveEntry(q, e, by)
          PROVE  \E x : CatalogWork(q, x) /\ x.done = 0 /\ x.place = 0
      <3>1. PICK rows : CatalogWork(q, [Blank EXCEPT !.op = "move", !.of = e,
                                          !.list = entry[e].list, !.rows = rows])
        BY <2>5 DEF moveEntry
      <3> PICK x : x = [Blank EXCEPT !.op = "move", !.of = e, !.list = entry[e].list,
                                     !.rows = rows]
        OBVIOUS
      <3>2. x.done = 0 /\ x.place = 0
        BY DEF Blank
      <3> QED
        BY <3>1, <3>2
    <2> QED
      BY <2>1, <2>2, <2>3, <2>4, <2>5 DEF BeginCatalog
  <1>2. /\ DOMAIN job' = DOMAIN job \cup {q} /\ job'[q] = x /\ q \notin DOMAIN job
        /\ \A r \in DOMAIN job : job'[r] = job[r]
        /\ UNCHANGED <<entry, catalogTrail, used>>
    BY <1>1 DEF CatalogWork, Begin, Put
  <1>3. x.place <= Cardinality(used)
    BY <1>1, PlaceWithinUsed, UsedIsCounted DEF CatalogInv
  <1>4. x.done <= Len(x.rows)
    <2>1. x.rows \in Seq(Ids)
      BY <1>2 DEF CatalogInv, AllAtWorkHold, WorkHolds
    <2>2. Len(x.rows) \in Nat
      BY <2>1
    <2> QED
      BY <1>1, <2>2
  <1> QED
    BY <1>2, <1>3, <1>4, PlacesStay DEF PlacesHold

\* A new row is one more.
LEMMA PlacesInsert ==
    ASSUME CatalogInv, CatalogInv', PlacesHold, NEW q, insertEntry(q)
    PROVE  PlacesHold'
  <1>1. q \in DOMAIN job /\ UNCHANGED catalogTrail
    BY DEF insertEntry, MayWrite, At
  <1>2. CASE End(q) /\ UNCHANGED <<entry, used>>
    <2>1. DOMAIN job' = DOMAIN job \ {q} /\ \A r \in DOMAIN job' : job'[r] = job[r]
      BY <1>2 DEF End, Drop, Restrict
    <2> QED
      BY <1>1, <1>2, <2>1, PlacesStay DEF PlacesHold
  <1>3. ASSUME NEW e \in Ids \ used, entry' = Put(entry, e, NewEntry(job[q])),
               used' = used \cup {e}, GoTo(q, "record")
        PROVE  PlacesHold'
    <2>1. Cardinality(used') = Cardinality(used) + 1 /\ Cardinality(used) \in Nat
      BY <1>3, UsedIsCounted, FS_AddElement DEF CatalogInv
    <2>2. job[q].place <= Cardinality(used) /\ job[q].place \in Nat
      BY <1>1 DEF CatalogInv, AllAtWorkHold, WorkHolds, PlacesHold
    <2>3. \A d \in DOMAIN entry : entry[d].sortOrder \in Nat
      BY DEF CatalogInv, EntriesHold
    <2>4. /\ DOMAIN entry' = DOMAIN entry \cup {e} /\ entry'[e].sortOrder = job[q].place
          /\ \A d \in DOMAIN entry \ {e} : entry'[d] = entry[d]
      BY <1>3 DEF Put, NewEntry
    <2>5. \A d \in DOMAIN entry' : entry'[d].sortOrder < Cardinality(used')
      BY <2>1, <2>2, <2>3, <2>4 DEF PlacesHold
    <2>6. /\ DOMAIN job' = DOMAIN job /\ \A r \in DOMAIN job \ {q} : job'[r] = job[r]
          /\ job'[q] = [job[q] EXCEPT !.pc = "record"]
      BY <1>1, <1>3 DEF GoTo
    <2>7. job'[q].place = job[q].place /\ job'[q].done = job[q].done /\ job'[q].rows = job[q].rows
      BY <2>6
    <2> QED
      BY <1>1, <1>3, <2>5, <2>6, <2>7, PlacesStay DEF PlacesHold
  <1> QED
    BY <1>2, <1>3 DEF insertEntry

\* A row rewritten or removed stands where it stood; a handler that has written
\* goes on to record it, or ends.
LEMMA PlacesRewrite ==
    ASSUME CatalogInv, CatalogInv', PlacesHold, NEW q \in DOMAIN job, End(q) \/ GoTo(q, "record"),
           UNCHANGED <<catalogTrail, used>>,
           \A e \in DOMAIN entry' :
              e \in DOMAIN entry /\ entry'[e].sortOrder = entry[e].sortOrder
    PROVE  PlacesHold'
  <1>1. \A r \in DOMAIN job' \ {q} : r \in DOMAIN job /\ job'[r] = job[r]
    BY DEF End, Drop, Restrict, GoTo
  <1>2. q \in DOMAIN job' => job'[q] = [job[q] EXCEPT !.pc = "record"]
    BY DEF End, Drop, Restrict, GoTo
  <1>3. q \in DOMAIN job' => /\ job'[q].place = job[q].place /\ job'[q].done = job[q].done
                             /\ job'[q].rows = job[q].rows
    BY <1>2 DEF CatalogInv, AllAtWorkHold, WorkHolds
  <1> QED
    BY <1>1, <1>3, PlacesStay DEF PlacesHold

\* So for a new name, a switch and a removal.
LEMMA PlacesOneRow ==
    ASSUME CatalogInv, CatalogInv', PlacesHold, NEW q \in DOMAIN job,
           renameEntry(q) \/ setActive(q) \/ deleteEntry(q)
    PROVE  PlacesHold'
  <1>1. End(q) \/ GoTo(q, "record")
    BY DEF renameEntry, setActive, deleteEntry, Wrote
  <1>2. UNCHANGED <<catalogTrail, used>>
    BY DEF renameEntry, setActive, deleteEntry
  <1>3. \A e \in DOMAIN entry :
           entry[e] \in [list: Lists, name: 1 .. Names, active: BOOLEAN, sortOrder: Nat]
    BY DEF CatalogInv, EntriesHold
  <1>4. ASSUME NEW row, Wrote(q, row), job[q].of \in DOMAIN entry =>
                                         row.sortOrder = entry[job[q].of].sortOrder
        PROVE  \A e \in DOMAIN entry' :
                  e \in DOMAIN entry /\ entry'[e].sortOrder = entry[e].sortOrder
    BY <1>4 DEF Wrote
  <1>5. CASE renameEntry(q)
    <2>1. CASE UNCHANGED entry
      BY <1>1, <1>2, <2>1, PlacesRewrite
    <2>2. CASE Wrote(q, [entry[job[q].of] EXCEPT !.name = job[q].name])
      BY <1>1, <1>2, <1>3, <1>4, <2>2, PlacesRewrite
    <2> QED
      BY <1>5, <2>1, <2>2 DEF renameEntry
  <1>6. CASE setActive(q)
    <2>1. Wrote(q, [entry[job[q].of] EXCEPT !.active = job[q].active])
      BY <1>6 DEF setActive
    <2> QED
      BY <1>1, <1>2, <1>3, <1>4, <2>1, PlacesRewrite
  <1>7. CASE deleteEntry(q)
    <2>1. \A e \in DOMAIN entry' :
             e \in DOMAIN entry /\ entry'[e].sortOrder = entry[e].sortOrder
      BY <1>7 DEF deleteEntry, Restrict
    <2> QED
      BY <1>1, <1>2, <2>1, PlacesRewrite
  <1> QED
    BY <1>5, <1>6, <1>7

\* A move numbers its rows from nothing to their number.
LEMMA PlacesMove ==
    ASSUME CatalogInv, CatalogInv', PlacesHold, NEW q \in DOMAIN job,
           numberRow(q) \/ commitMove(q)
    PROVE  PlacesHold'
  <1> PICK j : j = job[q]
    OBVIOUS
  <1>1. /\ WorkHolds(j) /\ Len(j.rows) \in Nat /\ Len(j.rows) <= Cardinality(used)
        /\ j.done \in Nat /\ j.place <= Cardinality(used) /\ Cardinality(used) \in Nat
    <2>1. WorkHolds(j)
      BY DEF CatalogInv, AllAtWorkHold
    <2> QED
      BY <2>1, RowsWithinUsed, UsedIsCounted DEF CatalogInv, WorkHolds, PlacesHold
  <1>2. CASE numberRow(q) /\ End(q)
    BY <1>2, PlacesRewrite DEF numberRow
  <1>3. CASE numberRow(q) /\ job' = [job EXCEPT ![q].done = @ + 1]
    <2>1. j.done < Len(j.rows) /\ UNCHANGED <<entry, catalogTrail, used>>
      BY <1>3 DEF numberRow
    <2>2. /\ DOMAIN job' = DOMAIN job /\ \A r \in DOMAIN job \ {q} : job'[r] = job[r]
          /\ job'[q] = [j EXCEPT !.done = j.done + 1]
      BY <1>3
    <2>3. job'[q].place = j.place /\ job'[q].rows = j.rows /\ job'[q].done = j.done + 1
      BY <1>1, <2>2 DEF WorkHolds
    <2>4. j.done + 1 <= Len(j.rows)
      BY <1>1, <2>1
    <2> QED
      BY <1>1, <2>1, <2>2, <2>3, <2>4, PlacesStay DEF PlacesHold
  <1>4. CASE commitMove(q)
    <2> PICK rows : rows = j.rows
      OBVIOUS
    <2>1. rows \in Seq(Ids) /\ \A i, k \in DOMAIN rows : i # k => rows[i] # rows[k]
      BY <1>1 DEF WorkHolds
    <2>2. UNCHANGED <<catalogTrail, used>> /\ DOMAIN entry' = DOMAIN entry
      BY <1>4 DEF commitMove
    <2>3. ASSUME NEW e \in DOMAIN entry
          PROVE  entry'[e].sortOrder < Cardinality(used)
      <3>1. entry[e] \in [list: Lists, name: 1 .. Names, active: BOOLEAN, sortOrder: Nat]
        BY DEF CatalogInv, EntriesHold
      <3>2. ASSUME NEW i \in DOMAIN rows, rows[i] = e
            PROVE  entry'[e].sortOrder < Cardinality(used)
        <4>1. (CHOOSE k \in DOMAIN rows : rows[k] = e) = i /\ i \in Nat \ {0}
          BY ONLY <2>1, <3>2, PlaceOf
        <4>2. entry'[e] = [entry[e] EXCEPT !.sortOrder = i - 1]
          BY <1>4, <3>2, <4>1 DEF commitMove
        <4>3. entry'[e].sortOrder = i - 1
          BY <3>1, <4>2
        <4>4. i <= Len(rows)
          BY <2>1, <3>2
        <4> QED
          BY <1>1, <4>1, <4>3, <4>4
      <3>3. ASSUME \A i \in DOMAIN rows : rows[i] # e
            PROVE  entry'[e] = entry[e]
        BY <1>4, <3>3 DEF commitMove
      <3> QED
        BY <3>2, <3>3 DEF PlacesHold
    <2>4. /\ DOMAIN job' = DOMAIN job /\ \A r \in DOMAIN job \ {q} : job'[r] = job[r]
          /\ job'[q] = [j EXCEPT !.pc = "record", !.rows = << >>, !.done = 0]
      BY <1>4 DEF commitMove
    <2>5. job'[q].place = j.place /\ job'[q].rows = << >> /\ job'[q].done = 0
      BY <1>1, <2>4 DEF WorkHolds
    <2>6. Len(<< >>) = 0
      OBVIOUS
    <2>7. job'[q].place <= Cardinality(used) /\ job'[q].done <= Len(job'[q].rows)
      BY <1>1, <2>5, <2>6
    <2>8. \A e \in DOMAIN entry' : entry'[e].sortOrder < Cardinality(used')
      BY <2>2, <2>3
    <2>9. \A r \in DOMAIN job' \ {q} : r \in DOMAIN job /\ job'[r] = job[r]
      BY <2>4
    <2> QED
      BY <2>2, <2>7, <2>8, <2>9, PlacesStay DEF PlacesHold
  <1> QED
    BY <1>2, <1>3, <1>4 DEF numberRow

\* The trail is told of the entry that was switched.
LEMMA PlacesRecord ==
    ASSUME CatalogInv, CatalogInv', PlacesHold, NEW q \in DOMAIN job, recordCatalog(q)
    PROVE  PlacesHold'
  <1>1. \A r \in DOMAIN job' \ {q} : r \in DOMAIN job /\ job'[r] = job[r]
    BY DEF recordCatalog, End, Drop, Restrict
  <1>2. q \notin DOMAIN job'
    BY DEF recordCatalog, End, Drop, Restrict
  <1>3. UNCHANGED <<entry, used>>
    BY DEF recordCatalog
  <1>4. job[q].op = "toggle" => job[q].of \in Ids /\ job[q].active \in BOOLEAN
    BY DEF CatalogInv, AllAtWorkHold, WorkHolds, EntriesHold
  <1>5. catalogTrail' \subseteq Ids \X BOOLEAN
    BY <1>4 DEF recordCatalog, PlacesHold
  <1> QED
    BY <1>1, <1>2, <1>3, <1>5, PlacesStay DEF PlacesHold

\* The catalog as it is seeded is numbered from nothing.
LEMMA SeededPlaces ==
    ASSUME CatalogInit
    PROVE  \A e \in DOMAIN entry : entry[e].sortOrder < Cardinality(used)
  <1> USE CatalogAssumption
  <1>1. Cardinality(used) = Materials + Colours
    BY FS_Interval DEF CatalogInit
  <1>2. ASSUME NEW e \in DOMAIN entry
        PROVE  entry[e].sortOrder < Materials + Colours
    <2>1. e \in 1 .. Materials + Colours
      BY DEF CatalogInit
    <2>2. entry[e].sortOrder = (IF e <= Materials THEN e ELSE e - Materials) - 1
      BY <2>1 DEF CatalogInit
    <2> QED
      BY <2>1, <2>2
  <1> QED
    BY <1>1, <1>2

\* An entry that stands within what was added has its type.
LEMMA EntryType ==
    ASSUME EntriesHold, \A e \in DOMAIN entry : entry[e].sortOrder < Cardinality(used),
           NEW e \in DOMAIN entry
    PROVE  entry[e] \in Entry
  <1>1. entry[e] \in [list: Lists, name: 1 .. Names, active: BOOLEAN, sortOrder: Nat]
    BY DEF EntriesHold
  <1>2. entry[e].sortOrder \in Places
    BY <1>1, UsedIsCounted, CatalogAssumption DEF Places
  <1> QED
    BY <1>1, <1>2 DEF Entry

\* Types, and what the database holds to: a colour has its material, and no name
\* is twice in a list, whoever adds, renames, moves and removes at once.
THEOREM CatalogTypes == CatalogSpec => []CatalogTypeOK
  <1>1. CatalogInit /\ job = Nothing /\ mishaps = 0 => PlacesHold
    <2> SUFFICES ASSUME CatalogInit, job = Nothing
                 PROVE  PlacesHold
      OBVIOUS
    <2>1. DOMAIN job = {} /\ catalogTrail = {}
      BY DEF CatalogInit, Nothing
    <2> QED
      BY <2>1, SeededPlaces DEF PlacesHold
  <1>2. CatalogInv /\ CatalogInv' /\ PlacesHold /\ [CatalogNext]_catalogVars => PlacesHold'
    <2> SUFFICES ASSUME CatalogInv, CatalogInv', PlacesHold, [CatalogNext]_catalogVars
                 PROVE  PlacesHold'
      OBVIOUS
    <2>1. CASE UNCHANGED catalogVars
      BY <2>1 DEF catalogVars, PlacesHold
    <2>2. CASE \E q \in Requests \ DOMAIN job : BeginCatalog(q)
      BY <2>2, PlacesBegin
    <2>3. ASSUME NEW q \in DOMAIN job, abortMove(q) \/ failCatalog(q)
          PROVE  PlacesHold'
      BY <2>3, PlacesRewrite DEF abortMove, failCatalog
    <2>4. CASE crashCatalog
      BY <2>4 DEF crashCatalog, Crash, PlacesHold, Nothing
    <2> QED
      BY <2>1, <2>2, <2>3, <2>4, PlacesInsert, PlacesOneRow, PlacesMove, PlacesRecord
      DEF CatalogNext
  <1>3. CatalogInv /\ PlacesHold => CatalogTypeOK
    <2> SUFFICES ASSUME CatalogInv, PlacesHold
                 PROVE  CatalogTypeOK
      OBVIOUS
    <2> PICK c : c = Cardinality(used)
      OBVIOUS
    <2>1. c \in Nat /\ c <= Materials + Colours + Spare
      BY UsedIsCounted DEF CatalogInv
    <2>2. ASSUME NEW n \in Nat, n <= c
          PROVE  n \in Places
      BY <2>1, <2>2, CatalogAssumption DEF Places
    <2>3. \A e \in DOMAIN entry : entry[e] \in Entry
      BY EntryType DEF CatalogInv, PlacesHold
    <2>4. ASSUME NEW q \in DOMAIN job
          PROVE  job[q] \in CatalogJob
      <3>1. WorkHolds(job[q])
        BY DEF CatalogInv, AllAtWorkHold
      <3>2. job[q] \in [op: CatalogOps, pc: {"write", "record"}, of: Ids \cup {0}, list: Lists,
                        name: 0 .. Names, active: BOOLEAN, place: Nat, rows: Seq(Ids), done: Nat]
        BY <3>1 DEF WorkHolds
      <3>3. Len(job[q].rows) \in Nat /\ Len(job[q].rows) <= c
        BY <3>1, RowsWithinUsed DEF CatalogInv
      <3>4. job[q].place <= c /\ job[q].done <= Len(job[q].rows)
        BY DEF PlacesHold
      <3>5. job[q].place \in Places /\ job[q].done \in Places
        BY <2>1, <2>2, <3>2, <3>3, <3>4
      <3> QED
        BY <3>2, <3>5 DEF CatalogJob
    <2>5. InFlight(CatalogOps) \subseteq DOMAIN job
      BY DEF InFlight
    <2> QED
      BY <2>3, <2>4, <2>5 DEF CatalogInv, EntriesHold, ArrangedHold, PlacesHold, CatalogTypeOK, Siblings
  <1>4. CatalogSpec => []PlacesHold
    <2>1. CatalogSpec => []CatalogInv
      BY CatalogInvariant
    <2> QED
      BY <1>1, <1>2, <2>1, PTL DEF CatalogSpec
  <1> QED
    BY <1>3, <1>4, CatalogInvariant, PTL

-----------------------------------------------------------------------------
\* The upload form

\* What may still be answered while a link is looked up.
Answerable == [kind |-> "looking"]

\* A list of files, and the one of them that is chosen.
Listing(l) ==
    \E url, large : \E files \in SUBSET FilesOf(url) : \E id \in files \cup {None} :
        l = Listed(url, files, large, id)

\* A file from the disk leaves no listing beside it, and what is chosen of a
\* listing is a file of the model that was looked up.
FormHolds ==
    /\ linked = Idle \/ linked = Answerable \/ Listing(linked)
    /\ onDisk # None => linked.kind # "listed"

\* An import that has been sent names a file of its own link.
CallsHold ==
    \A c \in DOMAIN call :
        call[c].kind = "import" => call[c].what \in FilesOf(call[c].url)

\* The form and the calls it has out are inductive together.
FormInv == FormHolds /\ CallsHold

\* An answer arrives.
LEMMA AnswerSafe ==
    ASSUME CallsHold, NEW c, NEW kinds, Answers(c, kinds)
    PROVE  CallsHold'
  <1>1. /\ DOMAIN call' = DOMAIN call \ {c}
        /\ \A d \in DOMAIN call' : call'[d] = call[d]
    BY DEF Answers, Drop, Restrict
  <1> QED
    BY <1>1 DEF CallsHold, FilesOf

\* A call goes out.
LEMMA CallSafe ==
    ASSUME CallsHold, NEW c, NEW x, Ask(c, x), x.kind = "import" => x.what \in FilesOf(x.url)
    PROVE  CallsHold'
  <1>1. /\ DOMAIN call' = DOMAIN call \cup {c} /\ call'[c] = x
        /\ \A d \in DOMAIN call \ {c} : call'[d] = call[d]
    BY DEF Ask, Put
  <1> QED
    BY <1>1 DEF CallsHold, FilesOf

\* A file, a link or a refusal replaces what was there.
LEMMA LinkSafe ==
    ASSUME FormInv, NEW url,
           (\E chosen \in DiskFiles \cup {None, Unprintable} : accept(chosen))
              \/ setLink(url) \/ refuseLink
    PROVE  FormInv'
  <1>1. CallsHold'
    BY DEF accept, setLink, refuseLink, FormInv, CallsHold, FilesOf
  <1>2. Idle.kind # "listed"
    BY DEF Idle
  <1>3. FormHolds'
    BY <1>2 DEF accept, setLink, refuseLink, FormInv, FormHolds, Listing, FilesOf, Listed
  <1> QED
    BY <1>1, <1>3 DEF FormInv

\* A link is looked up.
LEMMA LookSafe ==
    ASSUME FormInv, NEW c, lookUp(c)
    PROVE  FormInv'
  <1> PICK x : x = [kind |-> "lookup", url |-> linkBox, what |-> None]
    OBVIOUS
  <1>1. Ask(c, x) /\ x.kind # "import" /\ linked' = Answerable
    BY DEF lookUp, Answerable
  <1>2. CallsHold'
    BY <1>1, CallSafe DEF FormInv
  <1> QED
    BY <1>1, <1>2 DEF FormInv, FormHolds, Answerable

\* A listing takes the place of the file from the disk.
LEMMA ListingSafe ==
    ASSUME FormInv, NEW c, listingArrives(c)
    PROVE  FormInv'
  <1>1. PICK files \in SUBSET FilesOf(call[c].url) : \E large \in SUBSET files :
           showListing(c, files, large,
                       IF Cardinality(files) = 1 /\ files \ large # {}
                       THEN CHOOSE f \in files : TRUE ELSE None)
    BY DEF listingArrives
  <1>2. PICK large \in SUBSET files, only \in files \cup {None} :
           showListing(c, files, large, only)
    <2>1. PICK large \in SUBSET files :
             showListing(c, files, large,
                         IF Cardinality(files) = 1 /\ files \ large # {}
                         THEN CHOOSE f \in files : TRUE ELSE None)
      BY <1>1
    <2>2. files \ large # {} => (CHOOSE f \in files : TRUE) \in files
      OBVIOUS
    <2> QED
      BY <2>1, <2>2
  <1>3. Listing(linked')
    BY <1>2 DEF showListing, Listing
  <1>4. CallsHold' /\ onDisk' = None
    BY <1>2, AnswerSafe DEF showListing, FormInv
  <1> QED
    BY <1>3, <1>4 DEF FormInv, FormHolds, Listing, Listed, FilesOf

\* One of its files is chosen.
LEMMA ChooseSafe ==
    ASSUME FormInv, NEW f, chooseListed(f)
    PROVE  FormInv'
  <1>1. linked.kind = "listed" /\ UNCHANGED <<onDisk, call>>
        /\ f \in linked.files /\ linked' = [linked EXCEPT !.fileId = f]
    BY DEF chooseListed
  <1>2. Listing(linked)
    BY <1>1 DEF FormInv, FormHolds, Idle, Answerable
  <1>3. PICK url, large : \E files \in SUBSET FilesOf(url) : \E id \in files \cup {None} :
           linked = Listed(url, files, large, id)
    BY <1>2 DEF Listing
  <1>4. PICK files \in SUBSET FilesOf(url) : \E id \in files \cup {None} :
           linked = Listed(url, files, large, id)
    BY <1>3
  <1>5. f \in files /\ linked' = Listed(url, files, large, f)
    BY <1>1, <1>4 DEF Listed
  <1>6. Listing(linked')
    BY <1>5 DEF Listing
  <1> QED
    BY <1>1, <1>6 DEF FormInv, FormHolds, CallsHold, Listing, Listed, FilesOf

\* The form is sent.
LEMMA SubmitSafe ==
    ASSUME FormInv, NEW c, submit(c)
    PROVE  FormInv'
  <1>1. PICK kind, url, what : /\ sending(c, kind, url, what)
                               /\ kind = "import" => url = linked.url /\ what = picked
                                                     /\ picked # None
    BY DEF submit
  <1> PICK x : x = [kind |-> kind, url |-> url, what |-> what]
    OBVIOUS
  <1>2. Ask(c, x)
    BY <1>1 DEF sending
  <1>3. ASSUME kind = "import"
        PROVE  what \in FilesOf(url)
    <2>1. linked.kind = "listed" /\ picked = linked.fileId /\ picked # None
      BY <1>1, <1>3 DEF picked
    <2>2. Listing(linked)
      BY <2>1 DEF FormInv, FormHolds, Idle, Answerable
    <2>3. linked.fileId \in FilesOf(linked.url) \cup {None}
      BY <2>2 DEF Listing, Listed
    <2> QED
      BY <1>1, <1>3, <2>1, <2>3
  <1>4. CallsHold'
    BY <1>2, <1>3, CallSafe DEF FormInv
  <1> QED
    BY <1>1, <1>4 DEF FormInv, FormHolds, sending, Listing, Listed, FilesOf

\* The calls that end, and what leaves the form as it is.
LEMMA AnsweredSafe ==
    ASSUME FormInv, NEW c, lookUpFails(c) \/ progress(c) \/ sent(c) \/ refused(c) \/ cancelForm
    PROVE  FormInv'
  <1>1. CallsHold'
    BY AnswerSafe DEF lookUpFails, progress, sent, refused, cancelForm, FormInv, CallsHold,
                      FilesOf
  <1>2. Idle.kind # "listed"
    BY DEF Idle
  <1>3. FormHolds'
    BY <1>2 DEF lookUpFails, progress, sent, refused, cancelForm, FormInv, FormHolds,
                Listing, FilesOf, Listed
  <1> QED
    BY <1>1, <1>3 DEF FormInv

\* The invariant holds always.
THEOREM FormInvariant == FormSpec => []FormInv
  <1>1. FormInit => FormInv
    BY DEF FormInit, FormInv, FormHolds, CallsHold, Idle, Nothing
  <1>2. FormInv /\ [FormNext]_formVars => FormInv'
    <2>1. UNCHANGED formVars /\ FormInv => FormInv'
      BY DEF formVars, FormInv, FormHolds, CallsHold, Listing, Listed, FilesOf
    <2> QED
      BY <2>1, LinkSafe, LookSafe, ListingSafe, ChooseSafe, SubmitSafe, AnsweredSafe DEF FormNext
  <1> QED
    BY <1>1, <1>2, PTL DEF FormSpec

\* upload-form.tsx, "One model per ticket": for every number of files, links and
\* requests in flight, however late a listing comes.
THEOREM OneModelAtATime == FormSpec => []OneModelPerTicket
  <1>1. FormInv => OneModelPerTicket
    BY DEF FormInv, FormHolds, CallsHold, OneModelPerTicket, picked
  <1> QED
    BY <1>1, FormInvariant, PTL

-----------------------------------------------------------------------------
\* The inspection of a model

\* What the walk comes to: a part and an id, where an object may be, and a matrix.
Matrix == Int \X Int
Site == Parts \X ObjectIds
Visit == Site \X Matrix

\* A 3MF: its components and build items refer to objects that are there or not.
MeshHolds(f) ==
    /\ \A o \in Objects : f.verts[o] \subseteq Seq(Int)
    /\ f.components \in [Objects -> SUBSET Components]
    /\ f.items \subseteq Built \X Transforms

\* A component refers to one site, with a matrix.
LEMMA ChildIs ==
    ASSUME NEW o \in Site, NEW c \in Components
    PROVE  /\ childOf(o, c) \in Site /\ c.tf \in Transforms /\ c.tf \in Matrix
           /\ \A x \in Site : Refers(o, c, x) <=> x = childOf(o, c)
  <1>1. PICK ref \in Referred, t \in Transforms : c = [path |-> ref[1], id |-> ref[2], tf |-> t]
    BY DEF Components
  <1>2. c.path \in Parts \cup {None} /\ c.id \in ObjectIds /\ c.tf \in Transforms
    BY <1>1, InspectionAssumption
  <1>3. childOf(o, c) \in Site
    BY <1>2 DEF childOf, Site
  <1>4. c.tf \in Matrix
    BY <1>2, InspectionAssumption DEF Matrix
  <1>5. ASSUME NEW x \in Site
        PROVE  Refers(o, c, x) <=> x = childOf(o, c)
    <2>1. x[1] \in Parts /\ x[1] # None /\ x = <<x[1], x[2]>>
      BY InspectionAssumption DEF Site
    <2> QED
      BY <1>2, <2>1 DEF Refers, childOf
  <1> QED
    BY <1>2, <1>3, <1>4, <1>5

LEMMA ObjectsAreSites == Objects \subseteq Site /\ Built \subseteq Site
  BY InspectionAssumption DEF Site

\* From a visit the walk goes on to visits.
LEMMA IntoIs ==
    ASSUME NEW f, MeshHolds(f), NEW v \in Visit
    PROVE  Into(f, v) \subseteq Visit
  <1>1. ASSUME v[1] \in Objects, NEW c \in f.components[v[1]]
        PROVE  <<childOf(v[1], c), matMul(c.tf, v[2])>> \in Visit
    <2>1. c \in Components
      BY <1>1 DEF MeshHolds
    <2>2. v[1] \in Site /\ v[2] \in Matrix
      BY DEF Visit
    <2>3. childOf(v[1], c) \in Site /\ c.tf \in Matrix
      BY <2>1, <2>2, ChildIs
    <2>4. matMul(c.tf, v[2]) \in Matrix
      BY ONLY <2>2, <2>3 DEF matMul, Matrix
    <2> QED
      BY <2>3, <2>4 DEF Visit
  <1> QED
    BY <1>1 DEF Into

\* The levels of the walk are one recursive function, which exists.
LEMMA LevelsAre ==
    ASSUME NEW f, MeshHolds(f), NEW starts \in SUBSET Visit
    PROVE  LET level == levels(f, starts) IN
           /\ level[0] = starts
           /\ \A d \in 1 .. MaxDepth : level[d] = UNION {Into(f, v) : v \in level[d - 1]}
           /\ \A d \in 0 .. MaxDepth : level[d] \subseteq Visit
  <1> PICK st : st = [p \in Nat \X SUBSET Visit |-> UNION {Into(f, v) : v \in p[2]}]
    OBVIOUS
  <1>1. st \in [Nat \X SUBSET Visit -> SUBSET Visit]
    BY IntoIs
  <1>2. MaxDepth \in Nat
    BY InspectionAssumption
  <1>3. PICK g \in [0 .. MaxDepth -> SUBSET Visit] :
           g[0] = starts /\ \A d \in 1 .. MaxDepth : g[d] = st[<<d, g[d - 1]>>]
    <2>1. \E g : IsRun(g, SUBSET Visit, st, starts, MaxDepth)
      BY <1>1, <1>2, Iterates
    <2> QED
      BY <2>1 DEF IsRun
  <1>4. \A d \in 1 .. MaxDepth : g[d] = UNION {Into(f, v) : v \in g[d - 1]}
    <2> TAKE d \in 1 .. MaxDepth
    <2>1. d - 1 \in 0 .. MaxDepth /\ d \in Nat
      BY <1>2
    <2>2. g[d - 1] \in SUBSET Visit
      BY <1>3, <2>1
    <2> QED
      BY <1>3, <2>1, <2>2
  <1>5. g = [d \in 0 .. MaxDepth |->
                IF d = 0 THEN starts ELSE UNION {Into(f, v) : v \in g[d - 1]}]
    BY <1>2, <1>3, <1>4
  <1> PICK level : level = levels(f, starts)
    OBVIOUS
  <1>6. level = [d \in 0 .. MaxDepth |->
                    IF d = 0 THEN starts ELSE UNION {Into(f, v) : v \in level[d - 1]}]
    BY <1>5 DEF levels
  <1>7. level[0] = starts /\ \A d \in 1 .. MaxDepth : level[d] = UNION {Into(f, v) : v \in level[d - 1]}
    <2>1. 0 \in 0 .. MaxDepth
      BY <1>2
    <2>2. level[0] = starts
      BY <1>6, <2>1
    <2>3. ASSUME NEW d \in 1 .. MaxDepth
          PROVE  level[d] = UNION {Into(f, v) : v \in level[d - 1]}
      <3>1. d \in 0 .. MaxDepth /\ d # 0
        BY <1>2
      <3> QED
        BY <1>6, <3>1
    <2> QED
      BY <2>2, <2>3
  <1> PICK S : S = {d \in 0 .. MaxDepth : level[d] \subseteq Visit}
    OBVIOUS
  <1>8. 0 \in S
    BY <1>2, <1>7
  <1>9. ASSUME NEW d \in 0 .. MaxDepth - 1, d \in S
        PROVE  d + 1 \in S
    <2>1. d + 1 \in 1 .. MaxDepth /\ d + 1 \in 0 .. MaxDepth /\ (d + 1) - 1 = d
      BY <1>2
    <2>2. level[d + 1] = UNION {Into(f, v) : v \in level[d]}
      BY <1>7, <2>1
    <2>3. level[d + 1] \subseteq Visit
      BY <1>9, <2>2, IntoIs
    <2> QED
      BY <2>1, <2>3
  <1>10. 0 .. MaxDepth \subseteq S
    BY <1>2, <1>8, <1>9, UpTo
  <1> QED
    BY <1>7, <1>10

\* What is referred to, and the transform of the reference.
Hops == Site \X (Transforms \cup {IDENTITY_MAT})

\* A component of the object h has led to refers to g.
Follows(f, h, g) ==
    /\ h[1] \in Objects
    /\ \E c \in f.components[h[1]] : g = <<childOf(h[1], c), c.tf>>

\* The first n of s lead from a start, each from the object before it.
IsChain(f, starts, s, n) ==
    /\ n \in Nat \ {0} /\ s \in [1 .. n -> Hops] /\ s[1] \in starts
    /\ \A i \in 1 .. n - 1 : Follows(f, s[i], s[i + 1])

\* ms is what the walk composes along s.
Composed(s, ms, n) ==
    /\ ms \in [1 .. n -> Matrix] /\ ms[1] = s[1][2]
    /\ \A i \in 1 .. n - 1 : ms[i + 1] = matMul(s[i + 1][2], ms[i])

HasChain(f, starts, v, n) ==
    \E s, ms : /\ IsChain(f, starts, s, n) /\ Composed(s, ms, n)
               /\ v = <<s[n][1], ms[n]>>

\* A hop is a visit, by its own matrix.
LEMMA HopIs ==
    ASSUME NEW h \in Hops
    PROVE  h \in Visit /\ h[2] \in Matrix /\ h[1] \in Site /\ h = <<h[1], h[2]>>
  <1>1. IDENTITY_MAT \in Matrix /\ Transforms \subseteq Matrix
    BY InspectionAssumption DEF IDENTITY_MAT, Matrix
  <1> QED
    BY <1>1 DEF Hops, Visit

\* Matrices compose to matrices.
LEMMA MatMulIs ==
    ASSUME NEW a \in Matrix, NEW b \in Matrix
    PROVE  matMul(a, b) \in Matrix
  BY DEF matMul, Matrix

\* What the walk composes along a chain is there.
LEMMA ChainComposes ==
    ASSUME NEW f, NEW starts, NEW s, NEW n, IsChain(f, starts, s, n)
    PROVE  \E ms : Composed(s, ms, n)
  <1>1. n \in Nat /\ n >= 1 /\ s \in [1 .. n -> Hops]
    BY DEF IsChain
  <1>2. \A i \in 1 .. n : s[i][2] \in Matrix
    BY <1>1, HopIs
  <1> PICK st : st = [p \in Nat \X Matrix |-> IF p[1] \in 1 .. n - 1
                                               THEN matMul(s[p[1] + 1][2], p[2]) ELSE p[2]]
    OBVIOUS
  <1>3. st \in [Nat \X Matrix -> Matrix]
    <2>1. ASSUME NEW p \in Nat \X Matrix, p[1] \in 1 .. n - 1
          PROVE  matMul(s[p[1] + 1][2], p[2]) \in Matrix
      <3>1. p[1] + 1 \in 1 .. n /\ p[2] \in Matrix
        BY <1>1, <2>1
      <3> QED
        BY <1>2, <3>1, MatMulIs
    <2> QED
      BY <2>1
  <1>4. PICK g : IsRun(g, Matrix, st, s[1][2], n - 1)
    <2>1. s[1][2] \in Matrix /\ n - 1 \in Nat
      BY <1>1, <1>2
    <2> QED
      BY <1>3, <2>1, Iterates
  <1> PICK ms : ms = [i \in 1 .. n |-> g[i - 1]]
    OBVIOUS
  <1>5. ms \in [1 .. n -> Matrix] /\ ms[1] = s[1][2]
    <2>1. \A i \in 1 .. n : i - 1 \in 0 .. n - 1
      BY <1>1
    <2>2. 1 \in 1 .. n /\ 1 - 1 = 0
      BY <1>1
    <2> QED
      BY <1>4, <2>1, <2>2 DEF IsRun
  <1>6. ASSUME NEW i \in 1 .. n - 1
        PROVE  ms[i + 1] = matMul(s[i + 1][2], ms[i])
    <2>1. i \in 1 .. n /\ i + 1 \in 1 .. n /\ (i + 1) - 1 = i /\ i \in Nat /\ i - 1 \in 0 .. n - 1
      BY <1>1
    <2>2. ms[i + 1] = g[i] /\ ms[i] = g[i - 1] /\ g[i - 1] \in Matrix
      BY <1>4, <2>1 DEF IsRun
    <2>3. g[i] = st[<<i, g[i - 1]>>]
      BY <1>4 DEF IsRun
    <2>4. st[<<i, g[i - 1]>>] = matMul(s[i + 1][2], g[i - 1])
      BY <2>1, <2>2
    <2> QED
      BY <2>2, <2>3, <2>4
  <1> QED
    BY <1>5, <1>6 DEF Composed

\* The walk follows every chain, as deep as it goes.
LEMMA ChainIsWalked ==
    ASSUME NEW f, MeshHolds(f), NEW starts \in SUBSET Visit,
           NEW s, NEW n, IsChain(f, starts, s, n), NEW ms, Composed(s, ms, n),
           n <= MaxDepth + 1
    PROVE  <<s[n][1], ms[n]>> \in levels(f, starts)[n - 1]
  <1> PICK level : level = levels(f, starts)
    OBVIOUS
  <1>1. /\ n \in Nat /\ n >= 1 /\ s \in [1 .. n -> Hops] /\ s[1] \in starts
        /\ MaxDepth \in Nat /\ n - 1 \in Nat
    BY InspectionAssumption DEF IsChain
  <1>2. /\ level[0] = starts
        /\ \A d \in 1 .. MaxDepth : level[d] = UNION {Into(f, v) : v \in level[d - 1]}
    BY LevelsAre
  <1> PICK S : S = {d \in 0 .. n - 1 : <<s[d + 1][1], ms[d + 1]>> \in level[d]}
    OBVIOUS
  <1>3. 0 \in S
    <2>1. 0 \in 0 .. n - 1 /\ 0 + 1 = 1 /\ 1 \in 1 .. n
      BY <1>1
    <2>2. s[1] = <<s[1][1], s[1][2]>>
      BY <1>1, <2>1, HopIs
    <2> QED
      BY <1>1, <1>2, <2>1, <2>2 DEF Composed
  <1>4. ASSUME NEW d \in 0 .. (n - 1) - 1, d \in S
        PROVE  d + 1 \in S
    <2>1. /\ d + 1 \in 1 .. n - 1 /\ d + 1 \in 0 .. n - 1 /\ d + 1 \in 1 .. MaxDepth
          /\ (d + 1) - 1 = d
      BY <1>1
    <2> PICK e : e = d + 1
      OBVIOUS
    <2> PICK v : v = <<s[e][1], ms[e]>>
      OBVIOUS
    <2>2. v \in level[d] /\ v[1] = s[e][1] /\ v[2] = ms[e]
      BY <1>4
    <2>3. s[e][1] \in Objects
          /\ \E c \in f.components[s[e][1]] : s[e + 1] = <<childOf(s[e][1], c), c.tf>>
      BY <2>1 DEF IsChain, Follows
    <2>4. ms[e + 1] = matMul(s[e + 1][2], ms[e])
      BY <2>1 DEF Composed
    <2>5. <<s[e + 1][1], ms[e + 1]>> \in Into(f, v)
      BY <2>2, <2>3, <2>4 DEF Into
    <2>6. level[e] = UNION {Into(f, w) : w \in level[d]}
      BY <1>2, <2>1
    <2>7. <<s[e + 1][1], ms[e + 1]>> \in level[e]
      BY <2>2, <2>5, <2>6
    <2> QED
      BY <2>1, <2>7
  <1>5. 0 .. n - 1 \subseteq S
    BY <1>1, <1>3, <1>4, UpTo
  <1> QED
    <2>1. n - 1 \in S /\ (n - 1) + 1 = n
      BY <1>1, <1>5
    <2> QED
      BY <2>1

\* What the walk comes to, it comes to along a chain.
LEMMA VisitHasChain ==
    ASSUME NEW f, MeshHolds(f), NEW starts \in SUBSET Hops, NEW d \in 0 .. MaxDepth,
           NEW v \in levels(f, starts)[d]
    PROVE  HasChain(f, starts, v, d + 1)
  <1> PICK level : level = levels(f, starts)
    OBVIOUS
  <1>1. MaxDepth \in Nat
    BY InspectionAssumption
  <1>2. starts \subseteq Visit
    BY HopIs
  <1>3. /\ level[0] = starts
        /\ \A e \in 1 .. MaxDepth : level[e] = UNION {Into(f, w) : w \in level[e - 1]}
    BY <1>2, LevelsAre
  <1> PICK S : S = {e \in 0 .. MaxDepth : \A w \in level[e] : HasChain(f, starts, w, e + 1)}
    OBVIOUS
  <1>4. 0 \in S
    <2>1. ASSUME NEW w \in starts
          PROVE  HasChain(f, starts, w, 1)
      <3> PICK s : s = [i \in 1 .. 1 |-> w]
        OBVIOUS
      <3> PICK ms : ms = [i \in 1 .. 1 |-> w[2]]
        OBVIOUS
      <3>1. w \in Hops /\ w[2] \in Matrix /\ w = <<w[1], w[2]>>
        BY HopIs
      <3>2. 1 \in 1 .. 1 /\ 1 .. 1 - 1 = {} /\ 1 \in Nat \ {0}
        OBVIOUS
      <3>3. s[1] = w /\ ms[1] = w[2] /\ s \in [1 .. 1 -> Hops] /\ ms \in [1 .. 1 -> Matrix]
        BY <3>1, <3>2
      <3>4. IsChain(f, starts, s, 1)
        BY <3>2, <3>3 DEF IsChain
      <3>5. Composed(s, ms, 1)
        BY <3>2, <3>3 DEF Composed
      <3> QED
        BY <3>1, <3>3, <3>4, <3>5 DEF HasChain
    <2> QED
      BY <1>1, <1>3, <2>1
  <1>5. ASSUME NEW e \in 0 .. MaxDepth - 1, e \in S
        PROVE  e + 1 \in S
    <2>1. e + 1 \in 1 .. MaxDepth /\ e + 1 \in 0 .. MaxDepth /\ (e + 1) - 1 = e /\ e \in 0 .. MaxDepth
      BY <1>1
    <2> PICK n : n = e + 1
      OBVIOUS
    <2>2. n \in Nat \ {0} /\ n + 1 \in Nat \ {0} /\ (n + 1) - 1 = n
      BY <2>1
    <2>3. ASSUME NEW w \in level[n]
          PROVE  HasChain(f, starts, w, n + 1)
      <3>1. PICK u \in level[e] : w \in Into(f, u)
        BY <1>3, <2>1, <2>3
      <3>2. PICK s, ms : IsChain(f, starts, s, n) /\ Composed(s, ms, n) /\ u = <<s[n][1], ms[n]>>
        BY <1>5 DEF HasChain
      <3>3. u[1] = s[n][1] /\ u[2] = ms[n]
        BY <3>2
      <3>4. s[n][1] \in Objects
        BY <3>1, <3>3 DEF Into
      <3>5. PICK c \in f.components[s[n][1]] : w = <<childOf(s[n][1], c), matMul(c.tf, ms[n])>>
        BY <3>1, <3>3, <3>4 DEF Into
      <3> PICK h : h = <<childOf(s[n][1], c), c.tf>>
        OBVIOUS
      <3>6. h \in Hops
        <4>1. c \in Components /\ s[n][1] \in Site
          BY <3>4, ObjectsAreSites DEF MeshHolds
        <4> QED
          BY <4>1, ChildIs DEF Hops
      <3>7. h[2] \in Matrix /\ n \in 1 .. n /\ ms[n] \in Matrix
        BY <2>2, <3>2, <3>6, HopIs DEF Composed
      <3> PICK m : m = matMul(h[2], ms[n])
        OBVIOUS
      <3>8. m \in Matrix
        BY <3>7, MatMulIs
      <3> PICK s2 : s2 = [i \in 1 .. n + 1 |-> IF i = n + 1 THEN h ELSE s[i]]
        OBVIOUS
      <3> PICK m2 : m2 = [i \in 1 .. n + 1 |-> IF i = n + 1 THEN m ELSE ms[i]]
        OBVIOUS
      <3>9. s \in [1 .. n -> Hops] /\ ms \in [1 .. n -> Matrix]
        BY <3>2 DEF IsChain, Composed
      <3>10. /\ \A i \in 1 .. n + 1 : i # n + 1 => i \in 1 .. n
             /\ n + 1 \in 1 .. n + 1 /\ 1 \in 1 .. n /\ 1 # n + 1 /\ 1 \in 1 .. n + 1
             /\ \A i \in 1 .. n : i # n + 1 /\ i \in 1 .. n + 1 /\ i + 1 \in 1 .. n + 1
        BY <2>2
      <3>11. s2 \in [1 .. n + 1 -> Hops] /\ m2 \in [1 .. n + 1 -> Matrix]
        BY <3>6, <3>8, <3>9, <3>10
      <3>12. /\ \A i \in 1 .. n : s2[i] = s[i] /\ m2[i] = ms[i]
             /\ s2[n + 1] = h /\ m2[n + 1] = m
        BY <3>10
      <3>13. ASSUME NEW i \in 1 .. n
             PROVE  /\ Follows(f, s2[i], s2[i + 1])
                    /\ m2[i + 1] = matMul(s2[i + 1][2], m2[i])
        <4>1. CASE i = n
          BY <3>4, <3>12, <4>1 DEF Follows
        <4>2. CASE i # n
          <5>1. i \in 1 .. n - 1 /\ i + 1 \in 1 .. n
            BY <2>2, <4>2
          <5> QED
            BY <3>2, <3>12, <5>1 DEF IsChain, Composed
        <4> QED
          BY <4>1, <4>2
      <3>14. IsChain(f, starts, s2, n + 1)
        <4>1. s2[1] \in starts
          BY <3>2, <3>10, <3>12 DEF IsChain
        <4> QED
          BY <2>2, <3>11, <3>13, <4>1 DEF IsChain
      <3>15. Composed(s2, m2, n + 1)
        <4>1. m2[1] = s2[1][2]
          BY <3>2, <3>10, <3>12 DEF Composed
        <4> QED
          BY <2>2, <3>11, <3>13, <4>1 DEF Composed
      <3>16. w = <<s2[n + 1][1], m2[n + 1]>>
        BY <3>5, <3>12
      <3> QED
        BY <3>14, <3>15, <3>16 DEF HasChain
    <2> QED
      BY <2>1, <2>3
  <1>6. 0 .. MaxDepth \subseteq S
    BY <1>1, <1>4, <1>5, UpTo
  <1> QED
    BY <1>6

\* A point, or NaN, has an image.
LEMMA ApplyIs ==
    ASSUME NEW a \in Matrix, NEW x \in Seq(Int)
    PROVE  /\ Apply(a, x) \in [1 .. Len(x) -> Int] /\ Apply(a, x) \in Seq(Int)
           /\ DOMAIN Apply(a, x) = DOMAIN x
           /\ \A i \in DOMAIN x : Apply(a, x)[i] = x[i] * a[1] + a[2]
  <1>1. a[1] \in Int /\ a[2] \in Int
    BY DEF Matrix
  <1>2. Len(x) \in Nat /\ DOMAIN x = 1 .. Len(x) /\ \A i \in DOMAIN x : x[i] \in Int
    OBVIOUS
  <1>3. Apply(a, x) \in [1 .. Len(x) -> Int]
    BY <1>1, <1>2 DEF Apply
  <1>4. Apply(a, x) \in Seq(Int)
    BY <1>2, <1>3
  <1> QED
    BY <1>2, <1>3, <1>4 DEF Apply

\* A product takes a point where one factor, and then the other, takes it.
LEMMA ApplyComposes ==
    ASSUME NEW a \in Matrix, NEW b \in Matrix, NEW x \in Seq(Int)
    PROVE  Apply(matMul(a, b), x) = Apply(b, Apply(a, x))
  <1> PICK y : y = Apply(a, x)
    OBVIOUS
  <1> PICK z : z = Apply(b, y)
    OBVIOUS
  <1> PICK w : w = Apply(matMul(a, b), x)
    OBVIOUS
  <1>1. matMul(a, b) \in Matrix
    BY MatMulIs
  <1>2. y \in Seq(Int) /\ DOMAIN y = DOMAIN x /\ \A i \in DOMAIN x : y[i] = x[i] * a[1] + a[2]
    BY ApplyIs
  <1>3. z \in [1 .. Len(y) -> Int] /\ DOMAIN z = DOMAIN x /\ \A i \in DOMAIN x : z[i] = y[i] * b[1] + b[2]
    BY <1>2, ApplyIs
  <1>4. /\ w \in [1 .. Len(x) -> Int] /\ DOMAIN w = DOMAIN x
        /\ \A i \in DOMAIN x : w[i] = x[i] * matMul(a, b)[1] + matMul(a, b)[2]
    BY <1>1, ApplyIs
  <1>5. ASSUME NEW i \in DOMAIN x
        PROVE  w[i] = z[i]
    <2>1. x[i] \in Int /\ a[1] \in Int /\ a[2] \in Int /\ b[1] \in Int /\ b[2] \in Int
      BY DEF Matrix
    <2>2. matMul(a, b)[1] = a[1] * b[1] /\ matMul(a, b)[2] = a[2] * b[1] + b[2]
      BY DEF matMul
    <2>3. w[i] = x[i] * (a[1] * b[1]) + (a[2] * b[1] + b[2])
      BY <1>4, <2>2
    <2>4. z[i] = (x[i] * a[1] + a[2]) * b[1] + b[2]
      BY <1>2, <1>3
    <2>5. ASSUME NEW p \in Int, NEW q \in Int, NEW r \in Int, NEW s \in Int, NEW t \in Int
          PROVE  p * (q * r) + (s * r + t) = (p * q + s) * r + t
      OBVIOUS
    <2>6. x[i] * (a[1] * b[1]) + (a[2] * b[1] + b[2]) = (x[i] * a[1] + a[2]) * b[1] + b[2]
      BY ONLY <2>1, <2>5
    <2> QED
      BY <2>3, <2>4, <2>6
  <1> QED
    BY <1>3, <1>4, <1>5

\* The matrix composed along a chain takes a point through its references, one by
\* one, the last first.
LEMMA ThroughIs ==
    ASSUME NEW n \in Nat \ {0}, NEW s \in [1 .. n -> Hops], NEW ms, Composed(s, ms, n),
           NEW x \in Seq(Int)
    PROVE  Apply(ms[n], x) = Through(s, x)
  <1>1. n \in Nat /\ n >= 1 /\ Len(s) = n
    OBVIOUS
  <1>2. \A i \in 1 .. n : s[i][2] \in Matrix /\ ms[i] \in Matrix
    BY HopIs DEF Composed
  <1> PICK st : st = [p \in Nat \X Seq(Int) |->
                        IF p[1] \in 1 .. n THEN Apply(s[n + 1 - p[1]][2], p[2]) ELSE p[2]]
    OBVIOUS
  <1>3. st \in [Nat \X Seq(Int) -> Seq(Int)]
    <2>1. ASSUME NEW p \in Nat \X Seq(Int), p[1] \in 1 .. n
          PROVE  Apply(s[n + 1 - p[1]][2], p[2]) \in Seq(Int)
      <3>1. n + 1 - p[1] \in 1 .. n /\ p[2] \in Seq(Int)
        BY <1>1, <2>1
      <3> QED
        BY <1>2, <3>1, ApplyIs
    <2> QED
      BY <2>1
  <1>4. PICK g : IsRun(g, Seq(Int), st, x, n)
    BY <1>1, <1>3, Iterates
  <1>5. g \in [0 .. n -> Seq(Int)] /\ g[0] = x
    BY <1>4 DEF IsRun
  <1>6. ASSUME NEW k \in 1 .. n
        PROVE  g[k] = Apply(s[n + 1 - k][2], g[k - 1])
    <2>1. k - 1 \in 0 .. n /\ k \in Nat
      BY <1>1
    <2>2. g[k - 1] \in Seq(Int)
      BY <1>5, <2>1
    <2>3. g[k] = st[<<k, g[k - 1]>>]
      BY <1>4 DEF IsRun
    <2> QED
      BY <2>1, <2>2, <2>3
  <1>7. g = [k \in 0 .. Len(s) |->
                IF k = 0 THEN x ELSE Apply(s[Len(s) + 1 - k][2], g[k - 1])]
    BY <1>1, <1>5, <1>6
  <1> PICK moved : moved = CHOOSE h : h = [k \in 0 .. Len(s) |->
                       IF k = 0 THEN x ELSE Apply(s[Len(s) + 1 - k][2], h[k - 1])]
    OBVIOUS
  <1>8. /\ moved = [k \in 0 .. Len(s) |->
                       IF k = 0 THEN x ELSE Apply(s[Len(s) + 1 - k][2], moved[k - 1])]
        /\ Through(s, x) = moved[Len(s)]
    <2>1. moved = [k \in 0 .. Len(s) |->
                       IF k = 0 THEN x ELSE Apply(s[Len(s) + 1 - k][2], moved[k - 1])]
      BY <1>7
    <2>2. Through(s, x) = moved[Len(s)]
      BY DEF Through
    <2> QED
      BY <2>1, <2>2
  <1>9. moved[0] = x /\ \A k \in 1 .. n : moved[k] = Apply(s[n + 1 - k][2], moved[k - 1])
    <2>1. 0 \in 0 .. n /\ \A k \in 1 .. n : k \in 0 .. n /\ k # 0
      BY <1>1
    <2> QED
      BY <1>1, <1>8, <2>1
  <1> PICK S : S = {k \in 0 .. n - 1 : /\ moved[k] \in Seq(Int)
                                        /\ Apply(ms[n - k], moved[k]) = Apply(ms[n], x)}
    OBVIOUS
  <1>10. 0 \in S
    BY <1>1, <1>9
  <1>11. ASSUME NEW k \in 0 .. (n - 1) - 1, k \in S
         PROVE  k + 1 \in S
    <2> PICK j : j = n - (k + 1)
      OBVIOUS
    <2>1. /\ j \in 1 .. n - 1 /\ j \in 1 .. n /\ j + 1 \in 1 .. n /\ n - k = j + 1
          /\ k + 1 \in 1 .. n /\ k + 1 \in 0 .. n - 1 /\ n + 1 - (k + 1) = j + 1 /\ (k + 1) - 1 = k
      BY <1>1
    <2>2. moved[k] \in Seq(Int) /\ Apply(ms[j + 1], moved[k]) = Apply(ms[n], x)
      BY <1>11, <2>1
    <2>3. moved[k + 1] = Apply(s[j + 1][2], moved[k])
      BY <1>9, <2>1
    <2>4. ms[j + 1] = matMul(s[j + 1][2], ms[j])
      BY <2>1 DEF Composed
    <2>5. s[j + 1][2] \in Matrix /\ ms[j] \in Matrix
      BY <1>2, <2>1
    <2>6. moved[k + 1] \in Seq(Int)
      BY <2>2, <2>3, <2>5, ApplyIs
    <2>7. Apply(ms[j + 1], moved[k]) = Apply(ms[j], moved[k + 1])
      BY <2>2, <2>3, <2>4, <2>5, ApplyComposes
    <2> QED
      BY <2>1, <2>2, <2>6, <2>7
  <1>12. 0 .. n - 1 \subseteq S
    <2>1. n - 1 \in Nat
      BY <1>1
    <2> QED
      BY <1>10, <1>11, <2>1, UpTo
  <1> QED
    <2>1. n - 1 \in 0 .. n - 1 /\ n - (n - 1) = 1 /\ n \in 1 .. n /\ n + 1 - n = 1
      BY <1>1
    <2>2. Apply(ms[1], moved[n - 1]) = Apply(ms[n], x)
      BY <1>12, <2>1
    <2>3. moved[n] = Apply(s[1][2], moved[n - 1])
      BY <1>9, <2>1
    <2>4. ms[1] = s[1][2]
      BY DEF Composed
    <2> QED
      BY <1>1, <1>8, <2>2, <2>3, <2>4

\* The chains of a file, and the length of each.
LEMMA ChainsAre ==
    ASSUME NEW f, MeshHolds(f), NEW s
    PROVE  s \in Chains(f) <=>
           \E n \in 1 .. MaxDepth + 1 :
               IsChain(f, Starts(f), s, n) /\ s[n][1] \in Objects
  <1> PICK K : K = MaxDepth + 1
    OBVIOUS
  <1> PICK H : H = Objects \X (Transforms \cup {IDENTITY_MAT})
    OBVIOUS
  <1>1. K \in Nat
    BY InspectionAssumption
  <1>2. H \subseteq Hops /\ \A h \in H : h[1] \in Objects /\ h = <<h[1], h[2]>>
    BY ObjectsAreSites DEF Hops
  <1>3. ASSUME NEW h, NEW g, h[1] \in Objects, g[1] \in Objects, g = <<g[1], g[2]>>
        PROVE  Follows(f, h, g) <=>
               \E c \in f.components[h[1]] : Refers(h[1], c, g[1]) /\ g[2] = c.tf
    <2>1. \A c \in f.components[h[1]] : Refers(h[1], c, g[1]) <=> g[1] = childOf(h[1], c)
      <3> TAKE c \in f.components[h[1]]
      <3>1. c \in Components /\ h[1] \in Site /\ g[1] \in Site
        BY <1>3, ObjectsAreSites DEF MeshHolds
      <3> QED
        BY <3>1, ChildIs
    <2>2. \A y, t : g = <<y, t>> <=> g[1] = y /\ g[2] = t
      BY <1>3
    <2> QED
      BY <1>3, <2>1, <2>2 DEF Follows
  <1>4. ASSUME s \in Chains(f)
        PROVE  \E n \in 1 .. K : IsChain(f, Starts(f), s, n) /\ s[n][1] \in Objects
    <2>1. /\ s \in FewInARow(H) /\ s[1] \in Starts(f)
          /\ \A i \in 1 .. Len(s) - 1 : \E c \in f.components[s[i][1]] :
                Refers(s[i][1], c, s[i + 1][1]) /\ s[i + 1][2] = c.tf
      BY <1>4 DEF Chains
    <2>2. PICK n \in 1 .. K : s \in [1 .. n -> H]
      BY <2>1 DEF FewInARow
    <2>3. n \in Nat \ {0} /\ Len(s) = n /\ n \in 1 .. n /\ s \in [1 .. n -> Hops]
      BY <1>1, <1>2, <2>2
    <2>4. ASSUME NEW i \in 1 .. n - 1
          PROVE  Follows(f, s[i], s[i + 1])
      <3>1. i \in 1 .. n /\ i + 1 \in 1 .. n
        BY <2>3
      <3>2. s[i] \in H /\ s[i + 1] \in H
        BY <2>2, <3>1
      <3>3. s[i][1] \in Objects /\ s[i + 1][1] \in Objects /\ s[i + 1] = <<s[i + 1][1], s[i + 1][2]>>
        BY <1>2, <3>2
      <3> QED
        BY <1>3, <2>1, <2>3, <3>3
    <2>5. s[n] \in H
      BY <2>2, <2>3
    <2> QED
      BY <1>2, <2>1, <2>3, <2>4, <2>5 DEF IsChain
  <1>5. ASSUME NEW n \in 1 .. K, IsChain(f, Starts(f), s, n), s[n][1] \in Objects
        PROVE  s \in Chains(f)
    <2>1. n \in Nat \ {0} /\ s \in [1 .. n -> Hops] /\ s[1] \in Starts(f)
      BY <1>5 DEF IsChain
    <2>2. Len(s) = n /\ \A i \in 1 .. n : i = n \/ i \in 1 .. n - 1
      BY <2>1
    <2>3. \A i \in 1 .. n - 1 : Follows(f, s[i], s[i + 1])
      BY <1>5 DEF IsChain
    <2>4. \A i \in 1 .. n : s[i][1] \in Objects
      BY <1>5, <2>2, <2>3 DEF Follows
    <2>5. \A i \in 1 .. n : s[i] \in H
      <3> TAKE i \in 1 .. n
      <3>1. s[i] \in Hops /\ s[i][1] \in Objects
        BY <2>1, <2>4
      <3> QED
        BY <3>1 DEF Hops
    <2>6. s \in FewInARow(H)
      <3>1. s \in [1 .. n -> H]
        BY <2>1, <2>5
      <3> QED
        BY <3>1 DEF FewInARow
    <2>7. ASSUME NEW i \in 1 .. Len(s) - 1
          PROVE  \E c \in f.components[s[i][1]] : Refers(s[i][1], c, s[i + 1][1]) /\ s[i + 1][2] = c.tf
      <3>1. i \in 1 .. n - 1 /\ i \in 1 .. n /\ i + 1 \in 1 .. n
        BY <2>1, <2>2
      <3>2. s[i][1] \in Objects /\ s[i + 1][1] \in Objects /\ s[i + 1] = <<s[i + 1][1], s[i + 1][2]>>
        BY <1>2, <2>4, <2>5, <3>1
      <3> QED
        BY <1>3, <2>3, <3>1, <3>2
    <2> QED
      BY <2>1, <2>6, <2>7 DEF Chains
  <1> QED
    BY <1>4, <1>5

\* The walk starts from hops.
LEMMA StartsAre ==
    ASSUME NEW f, MeshHolds(f)
    PROVE  Starts(f) \subseteq Hops /\ Starts(f) \subseteq Visit
  <1>1. Starts(f) \subseteq Hops
    BY ObjectsAreSites DEF Starts, MeshHolds, Hops, AtIdentity
  <1> QED
    BY <1>1, HopIs

\* Where the walk puts a vertex is where the chain that it came along takes it.
LEMMA PlacedAlong ==
    ASSUME NEW f, MeshHolds(f), NEW s, NEW n, IsChain(f, Starts(f), s, n), s[n][1] \in Objects,
           NEW ms, Composed(s, ms, n)
    PROVE  /\ ObjectAt(s) = s[n][1]
           /\ \A x \in f.verts[s[n][1]] :
                 PlacedAt(f, s, x) = Apply(<<f.unit[s[n][1][1]], 0>>, Apply(ms[n], x))
  <1>1. n \in Nat \ {0} /\ s \in [1 .. n -> Hops]
    BY DEF IsChain
  <1>2. Len(s) = n
    BY <1>1
  <1>3. ASSUME NEW x \in f.verts[s[n][1]]
        PROVE  Apply(ms[n], x) = Through(s, x)
    <2>1. x \in Seq(Int)
      BY <1>3 DEF MeshHolds
    <2> QED
      BY <1>1, <2>1, ThroughIs
  <1> QED
    BY <1>2, <1>3 DEF PlacedAt, ObjectAt

\* The walk places a vertex where a chain of references takes it, and the other
\* way round.
LEMMA WalkIsBuilt ==
    ASSUME NEW f, MeshHolds(f)
    PROVE  walk(f, Starts(f)) =
           UNION {{PlacedAt(f, s, x) : x \in f.verts[ObjectAt(s)]} : s \in Chains(f)}
  <1> PICK K : K = MaxDepth + 1
    OBVIOUS
  <1> PICK level : level = levels(f, Starts(f))
    OBVIOUS
  <1> PICK W : W = UNION {level[d] : d \in 0 .. MaxDepth}
    OBVIOUS
  <1>1. MaxDepth \in Nat /\ K = MaxDepth + 1
    BY InspectionAssumption
  <1>2. Starts(f) \subseteq Hops /\ Starts(f) \subseteq Visit
    BY StartsAre
  <1>3. walk(f, Starts(f)) = Vertices(f, W)
    BY DEF walk
  <1>5. ASSUME NEW v \in W, v[1] \in Objects, NEW x \in f.verts[v[1]]
        PROVE  \E s \in Chains(f) :
                  /\ x \in f.verts[ObjectAt(s)]
                  /\ Apply(<<f.unit[v[1][1]], 0>>, Apply(v[2], x)) = PlacedAt(f, s, x)
    <2>1. PICK d \in 0 .. MaxDepth : v \in level[d]
      BY <1>5
    <2>2. PICK n : n = d + 1 /\ HasChain(f, Starts(f), v, n)
      BY <1>2, <2>1, VisitHasChain
    <2>3. PICK s, ms : IsChain(f, Starts(f), s, n) /\ Composed(s, ms, n) /\ v = <<s[n][1], ms[n]>>
      BY <2>2 DEF HasChain
    <2>4. v[1] = s[n][1] /\ v[2] = ms[n] /\ s[n][1] \in Objects
      BY <1>5, <2>3
    <2>5. n \in 1 .. K
      BY <1>1, <2>1, <2>2
    <2>6. s \in Chains(f)
      BY <2>3, <2>4, <2>5, ChainsAre
    <2>7. x \in f.verts[s[n][1]]
      BY <1>5, <2>4
    <2>8. /\ ObjectAt(s) = s[n][1]
          /\ PlacedAt(f, s, x) = Apply(<<f.unit[s[n][1][1]], 0>>, Apply(ms[n], x))
      <3>1. \A y \in f.verts[s[n][1]] :
               PlacedAt(f, s, y) = Apply(<<f.unit[s[n][1][1]], 0>>, Apply(ms[n], y))
        BY ONLY MeshHolds(f), <2>3, <2>4, PlacedAlong
      <3> QED
        BY <2>3, <2>4, <2>7, <3>1, PlacedAlong
    <2> QED
      BY <2>4, <2>6, <2>7, <2>8
  <1>6. ASSUME NEW s \in Chains(f), NEW x \in f.verts[ObjectAt(s)]
        PROVE  \E v \in W :
                  /\ v[1] \in Objects /\ x \in f.verts[v[1]]
                  /\ Apply(<<f.unit[v[1][1]], 0>>, Apply(v[2], x)) = PlacedAt(f, s, x)
    <2>1. PICK n \in 1 .. K : IsChain(f, Starts(f), s, n) /\ s[n][1] \in Objects
      BY ChainsAre
    <2>2. PICK ms : Composed(s, ms, n)
      BY <2>1, ChainComposes
    <2>3. n <= MaxDepth + 1 /\ n - 1 \in 0 .. MaxDepth
      BY <1>1
    <2> PICK v : v = <<s[n][1], ms[n]>>
      OBVIOUS
    <2>4. v \in level[n - 1]
      BY <1>2, <2>1, <2>2, <2>3, ChainIsWalked
    <2>5. v \in W /\ v[1] = s[n][1] /\ v[2] = ms[n]
      BY <2>3, <2>4
    <2>6. ObjectAt(s) = s[n][1]
      BY <2>1, <2>2, PlacedAlong
    <2>7. x \in f.verts[s[n][1]]
      BY <2>6
    <2>8. PlacedAt(f, s, x) = Apply(<<f.unit[s[n][1][1]], 0>>, Apply(ms[n], x))
      <3>1. \A y \in f.verts[s[n][1]] :
               PlacedAt(f, s, y) = Apply(<<f.unit[s[n][1][1]], 0>>, Apply(ms[n], y))
        BY <2>1, <2>2, PlacedAlong
      <3> QED
        BY <2>1, <2>2, <2>7, <3>1, PlacedAlong
    <2> QED
      BY <2>1, <2>5, <2>7, <2>8
  <1>7. ASSUME NEW p \in Vertices(f, W)
        PROVE  \E s \in Chains(f) : \E x \in f.verts[ObjectAt(s)] : p = PlacedAt(f, s, x)
    <2>1. PICK v \in W : v[1] \in Objects /\ \E x \in f.verts[v[1]] :
                              p = Apply(<<f.unit[v[1][1]], 0>>, Apply(v[2], x))
      BY <1>7 DEF Vertices
    <2>2. PICK x \in f.verts[v[1]] : p = Apply(<<f.unit[v[1][1]], 0>>, Apply(v[2], x))
      BY <2>1
    <2>3. PICK s \in Chains(f) :
            /\ x \in f.verts[ObjectAt(s)]
            /\ Apply(<<f.unit[v[1][1]], 0>>, Apply(v[2], x)) = PlacedAt(f, s, x)
      BY <1>5, <2>1
    <2> QED
      BY <2>2, <2>3
  <1>8. ASSUME NEW s \in Chains(f), NEW x \in f.verts[ObjectAt(s)]
        PROVE  PlacedAt(f, s, x) \in Vertices(f, W)
    <2>1. PICK v \in W :
            /\ v[1] \in Objects /\ x \in f.verts[v[1]]
            /\ Apply(<<f.unit[v[1][1]], 0>>, Apply(v[2], x)) = PlacedAt(f, s, x)
      BY <1>6
    <2>2. v \in {w \in W : w[1] \in Objects}
      BY <2>1
    <2>3. PlacedAt(f, s, x) \in
              {Apply(<<f.unit[v[1][1]], 0>>, Apply(v[2], y)) : y \in f.verts[v[1]]}
      BY <2>1
    <2> QED
      BY ONLY <2>2, <2>3 DEF Vertices
  <1> QED
    BY <1>3, <1>7, <1>8

\* Where there is a mesh, the files that arrive keep it in the form the walk reads.
LEMMA UploadsHoldMeshes ==
    ASSUME NEW u \in Uploads
    PROVE  MeshHolds(u.mesh)
  <1>1. \A T \in SUBSET Points : T \subseteq Seq(Int)
    <2>1. \A i \in Int : <<i>> \in Seq(Int)
      OBVIOUS
    <2>2. \A i \in Coordinates : i \in Int
      BY InspectionAssumption
    <2>3. << >> \in Seq(Int)
      OBVIOUS
    <2> QED
      BY ONLY <2>1, <2>2, <2>3 DEF Points, NaN
  <1>2. ASSUME NEW points \in SUBSET Points
        PROVE  MeshHolds(Flat(points))
    <2>1. points \subseteq Seq(Int)
      BY <1>1
    <2> QED
      BY <2>1 DEF Flat, MeshHolds
  <1>3. ASSUME NEW f \in ThreeMF
        PROVE  MeshHolds(f)
    <2>1. \A o \in Objects : f.verts[o] \in SUBSET Points
      BY DEF ThreeMF, FewOf
    <2>2. \A o \in Objects : f.verts[o] \subseteq Seq(Int)
      BY <1>1, <2>1
    <2>3. f.components \in [Objects -> SUBSET Components] /\ f.items \subseteq Built \X Transforms
      BY DEF ThreeMF, FewOf
    <2> QED
      BY <2>2, <2>3 DEF MeshHolds
  <1>4. CASE u.mesh \in {Flat(points) : points \in FewOf(Points, 1)}
    <2>1. PICK points \in SUBSET Points : u.mesh = Flat(points)
      BY <1>4 DEF FewOf
    <2> QED
      BY <1>2, <2>1
  <1>5. CASE u.mesh \in ThreeMF
    BY <1>3, <1>5
  <1> QED
    BY <1>4, <1>5 DEF Uploads

\* What a file is measured as.
InspectionInv == upload \in Uploads /\ (inspection = Pending \/ inspection = inspectModel(upload))

LEMMA InspectionMeasures == InspectionInv => MeasuredAsBuilt
  <1> SUFFICES ASSUME InspectionInv, inspection # Pending, upload.looks = "zip"
               PROVE  LET f      == upload.mesh
                          built  == UNION {{PlacedAt(f, s, x) : x \in f.verts[ObjectAt(s)]} : s \in Chains(f)}
                          points == (IF built # {} THEN built ELSE Vertices(f, AtIdentity)) \ {NaN}
                      IN  /\ inspection.ok => inspection.size = Extent(points)
                          /\ Sound(upload) => (inspection.ok <=> points # {})
    BY DEF MeasuredAsBuilt
  <1> DEFINE f == upload.mesh
             built == UNION {{PlacedAt(f, s, x) : x \in f.verts[ObjectAt(s)]} : s \in Chains(f)}
             placed == IF built # {} THEN built ELSE Vertices(f, AtIdentity)
             points == placed \ {NaN}
  <1>1. upload \in Uploads /\ inspection = inspectModel(upload)
    BY DEF InspectionInv
  <1>2. walk(f, Starts(f)) = built
    BY <1>1, UploadsHoldMeshes, WalkIsBuilt
  <1>3. measure3mf(f) = placed
    BY <1>2 DEF measure3mf
  <1>4. inspection =
          CASE upload.size = "none" -> Reject("empty")
            [] upload.size = "over MAX_BYTES" -> Reject("too_large")
            [] upload.size = "some" /\ upload.ext = "other" -> Reject("bad_extension")
            [] OTHER ->
               IF upload.opens = "throws" THEN Reject("corrupt")
               ELSE IF upload.opens = "no" \/ placed = {} THEN Reject("not_a_model")
               ELSE IF upload.ext = ".stl" THEN Reject("not_a_model")
               ELSE IF upload.triangles = 0 \/ points = {} THEN Reject("no_geometry")
               ELSE Accept(Extent(points))
    BY <1>1, <1>3 DEF inspectModel
  <1>5. upload.size \in {"none", "some", "over MAX_BYTES"} /\ upload.triangles \in {0, 1}
    BY <1>1 DEF Uploads
  <1>6. \A reason : Reject(reason).ok = FALSE
    BY DEF Reject
  <1>7. Accept(Extent(points)).ok = TRUE /\ Accept(Extent(points)).size = Extent(points)
    BY DEF Accept
  <1>8. inspection.ok => inspection.size = Extent(points)
    BY <1>4, <1>5, <1>6, <1>7
  <1>9. Sound(upload) => (inspection.ok <=> points # {})
    <2> SUFFICES ASSUME Sound(upload)
                 PROVE  inspection.ok <=> points # {}
      OBVIOUS
    <2>1. /\ upload.size = "some" /\ upload.ext = ".3mf" /\ upload.opens = "yes"
          /\ upload.triangles # 0
      BY <1>5 DEF Sound
    <2> HIDE DEF placed
    <2>2. inspection = IF points = {} THEN IF placed = {} THEN Reject("not_a_model") ELSE Reject("no_geometry")
                       ELSE Accept(Extent(points))
      BY <1>4, <2>1
    <2> QED
      BY <1>6, <1>7, <2>2
  <1> QED
    BY <1>8, <1>9

\* A 3MF is measured by where its build puts its vertices.
THEOREM MeasuredWhereBuilt == InspectionSpec => []MeasuredAsBuilt
  <1>1. InspectionInit => InspectionInv
    BY DEF InspectionInit, InspectionInv
  <1>2. InspectionInv /\ [inspect]_<<upload, inspection>> => InspectionInv'
    BY DEF InspectionInv, inspect
  <1> QED
    BY <1>1, <1>2, InspectionMeasures, PTL DEF InspectionSpec
=============================================================================
