-------------------------- MODULE ModelInspection --------------------------
(***************************************************************************)
(* What a model file is measured as, src/lib/models.ts.  The bytes are     *)
(* abstracted to what sniffing and parsing find in them; a 3MF is its      *)
(* parts, objects, components and build items; an object is known by its   *)
(* part and its id there.  Space has one dimension: a coordinate is <<x>>  *)
(* or NaN, a transform <<a, b>> takes x to a * x + b, and two of them, like *)
(* matrices, do not commute.                                               *)
(***************************************************************************)
EXTENDS Tables, Integers, Sequences, FiniteSets
Sets == INSTANCE FiniteSetsExt

CONSTANTS
    Parts,        \* the *.model parts of a 3MF
    ObjectIds,    \* ids of objects, each part's own
    Objects,      \* the objects that are there, as <<part, id>>
    Referred,     \* BOUND: what components name, a part or None, and an id
    Built,        \* BOUND: what the build items of a part name, as <<part, id>>
    MaxDepth,     \* 50: how deep the walk follows components
    Transforms,   \* BOUND: the matrices of components and build items
    Coordinates,  \* BOUND: those of vertices
    MaxVertices,  \* BOUND: vertices of an object
    MaxParts,     \* BOUND: components of an object
    MaxItems      \* BOUND: build items

ASSUME InspectionAssumption ==
    /\ None \notin Parts
    /\ Objects \subseteq Parts \X ObjectIds /\ Built \subseteq Parts \X ObjectIds
    /\ Referred \subseteq (Parts \cup {None}) \X ObjectIds
    /\ MaxDepth \in Nat
    /\ Transforms \subseteq Int \X Int /\ Coordinates \subseteq Int

VARIABLES
    upload,       \* the file that arrived
    inspection    \* what inspectModel said of it, or Pending

NaN == << >>
IDENTITY_MAT == <<1, 0>>
UNIT_TO_MM == {1, 10}                       \* BOUND: millimetre, centimetre

Components == {[path |-> r[1], id |-> r[2], tf |-> t] : r \in Referred, t \in Transforms}

FewOf(S, n) == {T \in SUBSET S : Cardinality(T) <= n}

Points == {<<x>> : x \in Coordinates} \cup {NaN}

ThreeMF == [unit: [Parts -> UNIT_TO_MM],
            verts: [Objects -> FewOf(Points, MaxVertices)],
            components: [Objects -> FewOf(Components, MaxParts)],
            items: FewOf(Built \X Transforms, MaxItems)]

Flat(points) == [unit |-> [p \in Parts |-> 1],
                 verts |-> [o \in Objects |-> points],
                 components |-> [o \in Objects |-> {}], items |-> {}]

(* `looks` is what the bytes are sniffed as; `opens` whether parsing gets   *)
(* through: a zip may be damaged, without a model part or too large when    *)
(* inflated, and a part too long for a string.  The 3MF's inside is varied  *)
(* where all else is well.                                                  *)
Uploads ==
    {u \in [size: {"none", "some", "over MAX_BYTES"}, ext: {".stl", ".3mf", "other"},
            looks: {"binary STL", "ASCII STL", "zip", "nothing"},
            opens: {"yes", "no", "throws"}, triangles: {0, 1},
            mesh: {Flat(points) : points \in FewOf(Points, 1)}] :
        u.looks # "zip" => u.opens = "yes"}
    \cup
    [size: {"some"}, ext: {".3mf"}, looks: {"zip"}, opens: {"yes"}, triangles: {1},
     mesh: ThreeMF]
-----------------------------------------------------------------------------
\* Measuring a 3MF

Apply(m, x) == [i \in DOMAIN x |-> x[i] * m[1] + m[2]]

parentFirst(a, b) == <<a[1] * b[1], b[2] * a[1] + a[2]>>

\* The point p . A . B: the child's transform first, then its parent's.
matMul(a, b) == <<a[1] * b[1], a[2] * b[1] + b[2]>>

\* The vertices of the objects, where these matrices put them, in millimetres
Vertices(f, visits) ==
    UNION {{Apply(<<f.unit[v[1][1]], 0>>, Apply(v[2], x)) : x \in f.verts[v[1]]} :
              v \in {w \in visits : w[1] \in Objects}}

ofItsOwnPart(o, c) == <<o[1], c.id>>

\* childKey: the object a component of o refers to, in the part of its path or,
\* without one, in o's own.
childOf(o, c) == <<IF c.path = None THEN o[1] ELSE c.path, c.id>>

\* From an object and a matrix to those of its components.  What is not there has
\* nothing below it.
Into(f, v) ==
    IF v[1] \in Objects
    THEN {<<childOf(v[1], c), matMul(c.tf, v[2])>> : c \in f.components[v[1]]}
    ELSE {}

\* What the walk comes to, by how deep it is
levels(f, starts) ==
    LET level[d \in 0 .. MaxDepth] ==
            IF d = 0 THEN starts ELSE UNION {Into(f, v) : v \in level[d - 1]}
    IN  level

\* walk: down to the depth cap.
walk(f, starts) ==
    LET level == levels(f, starts)
    IN  Vertices(f, UNION {level[d] : d \in 0 .. MaxDepth})

AtIdentity == Objects \X {IDENTITY_MAT}

\* The build items; a file without any has every object at identity.
Starts(f) == IF f.items # {} THEN f.items ELSE AtIdentity

\* measure3mf, what it placed: down from the starts, and if that places nothing,
\* each vertex as it is.
measure3mf(f) ==
    LET placed == walk(f, Starts(f))
    IN  IF placed # {} THEN placed ELSE Vertices(f, AtIdentity)

Extent(points) == LET xs == {x[1] : x \in points} IN Sets!Max(xs) - Sets!Min(xs)

Reject(reason) == [ok |-> FALSE, reason |-> reason]
Pending        == Reject("pending")
Accept(size)   == [ok |-> TRUE, size |-> size]

\* expand leaves out what is not finite; the box is empty if nothing is.
inspectModel(u) ==
    LET placed == IF u.looks = "zip" THEN measure3mf(u.mesh) ELSE Vertices(u.mesh, AtIdentity)
        finite == placed \ {NaN}
    IN  CASE u.size = "none" -> Reject("empty")
          [] u.size = "over MAX_BYTES" -> Reject("too_large")
          [] u.size = "some" /\ u.ext = "other" -> Reject("bad_extension")
          [] OTHER ->
             IF u.looks = "nothing" THEN Reject("not_a_model")
             ELSE IF u.opens = "throws" THEN Reject("corrupt")
             ELSE IF u.looks = "zip" /\ (u.opens = "no" \/ placed = {}) THEN Reject("not_a_model")
             ELSE IF (u.ext = ".stl") # (u.looks # "zip") THEN Reject("not_a_model")
             ELSE IF u.triangles = 0 \/ finite = {} THEN Reject("no_geometry")
             ELSE Accept(Extent(finite))

InspectionInit == upload \in Uploads /\ inspection = Pending

inspect ==
    /\ inspection = Pending
    /\ inspection' = inspectModel(upload)
    /\ UNCHANGED upload

InspectionSpec == InspectionInit /\ [][inspect]_<<upload, inspection>>
-----------------------------------------------------------------------------
\* A component of o refers to x: by its part, which a path may name, and its id.
Refers(o, c, x) ==
    /\ x[2] = c.id
    /\ \/ x[1] = c.path
       \/ c.path = None /\ x[1] = o[1]

\* Lists of members of S, of a build item and as many components as the walk may
\* follow
FewInARow(S) == UNION {[1 .. n -> S] : n \in 1 .. MaxDepth + 1}

\* The chains of references that lead from a build item, if there are any, to an
\* object: what is referred to, and the transform of the reference.
Chains(f) ==
    {s \in FewInARow(Objects \X (Transforms \cup {IDENTITY_MAT})) :
        /\ s[1] \in Starts(f)
        /\ \A i \in 1 .. Len(s) - 1 : \E c \in f.components[s[i][1]] :
               Refers(s[i][1], c, s[i + 1][1]) /\ s[i + 1][2] = c.tf}

\* Where a vertex ends up: through the transform of the last reference that led
\* to it, then that of the one before, up to the build item's, in the unit of its
\* own part.
Through(s, x) ==
    LET moved[k \in 0 .. Len(s)] ==
            IF k = 0 THEN x ELSE Apply(s[Len(s) + 1 - k][2], moved[k - 1])
    IN  moved[Len(s)]

ObjectAt(s) == s[Len(s)][1]
PlacedAt(f, s, x) == Apply(<<f.unit[ObjectAt(s)[1]], 0>>, Through(s, x))

\* Nothing is wrong with the file but, perhaps, its geometry.
Sound(u) == /\ u.size = "some" /\ u.ext = ".3mf" /\ u.looks = "zip"
            /\ u.opens = "yes" /\ u.triangles > 0

\* "Applying the transforms is what turns that back into the real dimensions",
\* and "a printable file is still accepted": whatever refers to whatever, in its
\* own part or another, in a circle or to nothing, a 3MF is measured by where its
\* build puts its vertices, by as many components as the walk goes deep; as they
\* are if it puts none anywhere; and turned away only if it has none, or none that
\* is a number.
MeasuredAsBuilt ==
    (inspection # Pending /\ upload.looks = "zip") =>
        LET f      == upload.mesh
            built  == UNION {{PlacedAt(f, s, x) : x \in f.verts[ObjectAt(s)]} : s \in Chains(f)}
            points == (IF built # {} THEN built ELSE Vertices(f, AtIdentity)) \ {NaN}
        IN  /\ inspection.ok => inspection.size = Extent(points)
            /\ Sound(upload) => (inspection.ok <=> points # {})
=============================================================================
