------------------------------- MODULE Catalog -------------------------------
(***************************************************************************)
(* The material catalog: src/app/admin/catalog/actions.ts on the tables    *)
(* catalogMaterial and catalogColor.  Both are lists in an order of their  *)
(* own, the materials one list and the colours of each material one more,  *)
(* with the same five operations; one table holds them here.               *)
(*                                                                         *)
(* A move is the one operation of several writes: a transaction that       *)
(* numbers the rows of the list as it read it, one update at a time.  Each *)
(* update locks its row until the end, and nothing is seen before.         *)
(***************************************************************************)
EXTENDS Handlers, Sequences, FiniteSets, Relation

CONSTANTS
    Materials,      \* how many materials there are at first ...
    Colours,        \* ... and how many colours of the first of them
    Spare,          \* BOUND: how many of either may be added
    Names           \* how many names there are, in alphabetical order

ASSUME CatalogAssumption ==
    /\ Materials \in Nat \ {0} /\ Colours \in Nat /\ Spare \in Nat
    /\ Names \in Nat /\ Names >= Materials /\ Names >= Colours

\* 0 stands for no id, no name, and for the list of the materials.
Ids == 1 .. Materials + Colours + Spare

VARIABLES
    entry,          \* the materials and colours, per id
    catalogTrail,   \* table auditEvent: what the rows say of availability
    arranged,       \* history: per list, the order of its last move
    used            \* history: ids given out

catalogVars == <<entry, catalogTrail, arranged, used, job, mishaps>>

Places == 0 .. Materials + Colours + Spare

Top == 0

Lists == {Top} \cup Ids

Entry == [list: Lists, name: 1 .. Names, active: BOOLEAN, sortOrder: Places]

CatalogOps == {"add", "edit", "toggle", "remove", "move"}

\* `rows` is the list a move numbers, `done` how many it has; `seen` what else
\* was read: an availability, or the place for a new row.
CatalogJob == [op: CatalogOps, pc: {"write", "record"}, of: Ids \cup {0},
               list: Lists, name: 0 .. Names, active: BOOLEAN,
               place: Places, rows: Seq(Ids), done: Places]

Siblings(list) == {e \in DOMAIN entry : entry[e].list = list}

\* Beyond types, what the database itself holds to: a colour has a material,
\* and no name is twice in a list, whatever was looked at before.
CatalogTypeOK ==
    /\ DOMAIN entry \subseteq used /\ used \subseteq Ids
    /\ \A e \in DOMAIN entry :
          /\ entry[e] \in Entry
          /\ entry[e].list \in {Top} \cup Siblings(Top)
          /\ \A d \in Siblings(entry[e].list) \ {e} : entry[d].name # entry[e].name
    /\ catalogTrail \subseteq Ids \X BOOLEAN
    /\ \A q \in InFlight(CatalogOps) : job[q] \in CatalogJob
    /\ \A list \in DOMAIN arranged : arranged[list] \in Seq(Ids)

CatalogInit ==
    /\ entry = [e \in 1 .. Materials + Colours |->
                  LET i == IF e <= Materials THEN e ELSE e - Materials IN
                  [list |-> IF e <= Materials THEN Top ELSE 1, name |-> i,
                   active |-> TRUE, sortOrder |-> i - 1]]
    /\ catalogTrail = {}
    /\ arranged = Nothing
    /\ used = 1 .. Materials + Colours

-----------------------------------------------------------------------------
\* Reading and checking

\* A handler's record before it has read anything
Blank == [op |-> "add", pc |-> "write", of |-> 0, list |-> Top, name |-> 0,
          active |-> TRUE, place |-> 0, rows |-> << >>, done |-> 0]

CatalogWork(q, work) ==
    /\ Begin(q, work)
    /\ UNCHANGED <<entry, catalogTrail, arranged, used, mishaps>>

\* One more than the greatest, and 0 in an empty list.
LastPlace(list) ==
    LET taken == {entry[e].sortOrder : e \in Siblings(list)}
    IN IF taken = {} THEN 0 ELSE 1 + CHOOSE n \in taken : \A k \in taken : k <= n

\* addMaterialAction, and addColorAction under a material that is there
addEntry(q, list, name) ==
    /\ list \in {Top} \cup Siblings(Top)
    /\ CatalogWork(q, [Blank EXCEPT !.list = list, !.name = name, !.place = LastPlace(list)])

editEntry(q, e, name) ==
    /\ e \in DOMAIN entry
    /\ CatalogWork(q, [Blank EXCEPT !.op = "edit", !.of = e, !.list = entry[e].list,
                                  !.name = name])

toggleEntry(q, e) ==
    /\ e \in DOMAIN entry
    /\ CatalogWork(q, [Blank EXCEPT !.op = "toggle", !.of = e, !.list = entry[e].list,
                                  !.active = ~entry[e].active])

removeEntry(q, e) ==
    /\ e \in DOMAIN entry
    /\ CatalogWork(q, [Blank EXCEPT !.op = "remove", !.of = e, !.list = entry[e].list])

\* By sortOrder and then by name, which is never twice in a list.
Before(d, e) ==
    \/ entry[d].sortOrder < entry[e].sortOrder
    \/ entry[d].sortOrder = entry[e].sortOrder /\ entry[d].name < entry[e].name

Rank(list, e) == Cardinality({d \in Siblings(list) : Before(d, e)})

InOrder(list) ==
    [i \in 1 .. Cardinality(Siblings(list)) |->
        CHOOSE e \in Siblings(list) : Rank(list, e) = i - 1]

\* Up is -1 and down is +1; at either end there is nowhere to go.
moveEntry(q, e, by) ==
    /\ e \in DOMAIN entry
    /\ LET s == InOrder(entry[e].list)
           from == CHOOSE i \in DOMAIN s : s[i] = e IN
          /\ from + by \in DOMAIN s
          /\ CatalogWork(q, [Blank EXCEPT !.op = "move", !.of = e, !.list = entry[e].list,
                 !.rows = [s EXCEPT ![from] = s[from + by], ![from + by] = e]])

-----------------------------------------------------------------------------
\* The writes.  One that needs a row another transaction has locked waits.

LockedBy(q) ==
    IF job[q].op = "move" THEN {job[q].rows[i] : i \in 1 .. job[q].done} ELSE {}

Needs(q) ==
    LET j == job[q] IN
    IF j.pc # "write" THEN {}
    ELSE CASE j.op = "add"    -> {}
           [] j.op = "move"   -> IF j.done < Len(j.rows) THEN {j.rows[j.done + 1]} ELSE {}
           [] j.op = "remove" -> {j.of} \cup Siblings(j.of)
           [] OTHER           -> {j.of}

Waits ==
    [q, r \in Requests |->
        /\ q # r /\ {q, r} \subseteq InFlight(CatalogOps)
        /\ Needs(q) \cap LockedBy(r) # {}]

MayWrite(q, op) == At(q, op, "write") /\ \A r \in Requests : ~Waits[q, r]

\* Every write but a move's is one statement, and without its row it throws.
Wrote(q, row) ==
    IF job[q].of \in DOMAIN entry
    THEN entry' = [entry EXCEPT ![job[q].of] = row] /\ GoTo(q, "record")
    ELSE UNCHANGED entry /\ End(q)

NameTaken(q) ==
    \E d \in Siblings(job[q].list) \ {job[q].of} : entry[d].name = job[q].name

NewEntry(j) == [list |-> j.list, name |-> j.name, active |-> TRUE, sortOrder |-> j.place]

\* A taken name, and a material that has gone meanwhile, are refused.
insertEntry(q) ==
    /\ MayWrite(q, "add")
    /\ IF NameTaken(q) \/ job[q].list \notin {Top} \cup Siblings(Top)
       THEN End(q) /\ UNCHANGED <<entry, used>>
       ELSE \E e \in Ids \ used :
               /\ entry' = Put(entry, e, NewEntry(job[q]))
               /\ used' = used \cup {e}
               /\ GoTo(q, "record")
    /\ UNCHANGED <<catalogTrail, arranged, mishaps>>

renameEntry(q) ==
    /\ MayWrite(q, "edit")
    /\ IF NameTaken(q) THEN End(q) /\ UNCHANGED entry
                       ELSE Wrote(q, [entry[job[q].of] EXCEPT !.name = job[q].name])
    /\ UNCHANGED <<catalogTrail, arranged, used, mishaps>>

setActive(q) ==
    /\ MayWrite(q, "toggle")
    /\ Wrote(q, [entry[job[q].of] EXCEPT !.active = job[q].active])
    /\ UNCHANGED <<catalogTrail, arranged, used, mishaps>>

\* A material takes its colours along.
deleteEntry(q) ==
    /\ MayWrite(q, "remove")
    /\ entry' = Restrict(entry, {e \in DOMAIN entry : job[q].of \notin {e, entry[e].list}})
    /\ IF job[q].of \in DOMAIN entry THEN GoTo(q, "record") ELSE End(q)
    /\ UNCHANGED <<catalogTrail, arranged, used, mishaps>>

\* One update of the transaction: a row that has gone undoes all of them.
numberAtOnce(q) ==
    /\ MayWrite(q, "move") /\ job[q].done < Len(job[q].rows)
    /\ LET e == job[q].rows[job[q].done + 1] IN
       IF e \in DOMAIN entry
       THEN /\ entry' = [entry EXCEPT ![e].sortOrder = job[q].done]
            /\ job' = [job EXCEPT ![q].done = @ + 1]
       ELSE End(q) /\ UNCHANGED entry
    /\ UNCHANGED <<catalogTrail, arranged, used, mishaps>>

numberRow(q) ==
    /\ MayWrite(q, "move") /\ job[q].done < Len(job[q].rows)
    /\ IF job[q].rows[job[q].done + 1] \in DOMAIN entry
       THEN job' = [job EXCEPT ![q].done = @ + 1]
       ELSE End(q)
    /\ UNCHANGED <<entry, catalogTrail, arranged, used, mishaps>>

commitMove(q) ==
    /\ At(q, "move", "write") /\ job[q].done = Len(job[q].rows)
    /\ LET rows == job[q].rows IN
          /\ entry' = [e \in DOMAIN entry |->
                IF \E i \in DOMAIN rows : rows[i] = e
                THEN [entry[e] EXCEPT !.sortOrder = (CHOOSE i \in DOMAIN rows : rows[i] = e) - 1]
                ELSE entry[e]]
          /\ arranged' = Put(arranged, job[q].list, rows)
    /\ job' = [job EXCEPT ![q].pc = "record", ![q].rows = << >>, ![q].done = 0]
    /\ UNCHANGED <<catalogTrail, used, mishaps>>

\* PostgreSQL ends one of the transactions that wait for each other.
abortMove(q) ==
    /\ At(q, "move", "write") /\ \E r \in Requests : Waits[q, r]
    /\ TransitiveClosure(Waits, Requests)[q, q]
    /\ End(q)
    /\ UNCHANGED <<entry, catalogTrail, arranged, used, mishaps>>

\* The trail: of a toggle, what the row says once it is written.
recordWhatWas(q) ==
    /\ q \in InFlight(CatalogOps) /\ job[q].pc = "record"
    /\ catalogTrail' = IF job[q].op = "toggle"
                       THEN catalogTrail \cup {<<job[q].of, ~job[q].active>>}
                       ELSE catalogTrail
    /\ End(q)
    /\ UNCHANGED <<entry, arranged, used, mishaps>>

recordCatalog(q) ==
    /\ q \in InFlight(CatalogOps) /\ job[q].pc = "record"
    /\ catalogTrail' = IF job[q].op = "toggle"
                       THEN catalogTrail \cup {<<job[q].of, job[q].active>>}
                       ELSE catalogTrail
    /\ End(q)
    /\ UNCHANGED <<entry, arranged, used, mishaps>>

failCatalog(q) ==
    /\ q \in InFlight(CatalogOps)
    /\ Mishap
    /\ End(q)
    /\ UNCHANGED <<entry, catalogTrail, arranged, used>>

crashCatalog ==
    /\ Crash
    /\ UNCHANGED <<entry, catalogTrail, arranged, used>>

BeginCatalog(q) ==
    \/ \E list \in Lists, name \in 1 .. Names : addEntry(q, list, name)
    \/ \E e \in Ids :
          \/ \E name \in 1 .. Names : editEntry(q, e, name)
          \/ \E by \in {-1, 1} : moveEntry(q, e, by)
          \/ toggleEntry(q, e) \/ removeEntry(q, e)

CatalogNext ==
    \/ \E q \in Requests \ DOMAIN job : BeginCatalog(q)
    \/ \E q \in DOMAIN job :
          \/ insertEntry(q) \/ renameEntry(q) \/ setActive(q) \/ deleteEntry(q)
          \/ numberRow(q) \/ commitMove(q) \/ abortMove(q)
          \/ recordCatalog(q) \/ failCatalog(q)
    \/ crashCatalog

CatalogSpec ==
    CatalogInit /\ job = Nothing /\ mishaps = 0 /\ [][CatalogNext]_catalogVars
-----------------------------------------------------------------------------
\* moveMaterialAction, moveColorAction: a move is all or nothing.  Whatever
\* else moved, went or was added at the same time, or failed half way, the rows
\* of a list stand in the order of the last move that was saved, and no two of
\* them in the same place.
OrderIsTheLastMoves ==
    \A list \in DOMAIN arranged : LET rows == arranged[list] IN
        \A i, k \in DOMAIN rows :
            i < k /\ {rows[i], rows[k]} \subseteq DOMAIN entry =>
                entry[rows[i]].sortOrder < entry[rows[k]].sortOrder

\* toggleMaterialAction, toggleColorAction: two at once may count as one, but
\* the trail then tells it so: what is not as it was added has a row that says
\* how it is, and the requesters' form offers what the trail says is on offer.
AvailabilityIsOnTheTrail ==
    (Quiet(CatalogOps) /\ mishaps = 0) =>
        \A e \in DOMAIN entry : ~entry[e].active => <<e, FALSE>> \in catalogTrail
=============================================================================
