----------------------------- MODULE ModelStore -----------------------------
(***************************************************************************)
(* What src/lib/storage.ts promises, "an object appears whole or not at    *)
(* all": a key has its whole model or nothing, and a model somebody was    *)
(* told is stored stays, across a power cut, until it is given up.         *)
(***************************************************************************)
CONSTANT Keys

VARIABLES
    stored,         \* the keys that open
    kept            \* those somebody relies on

msVars == <<stored, kept>>

MSInit == stored \in SUBSET Keys /\ kept = {}

Store(k) == stored' = stored \cup {k} /\ UNCHANGED kept

Promise(ks) == ks \subseteq stored /\ kept' = kept \cup ks /\ UNCHANGED stored

GiveUp(k) == kept' = kept \ {k} /\ UNCHANGED stored

Remove(k) == k \notin kept /\ stored' = stored \ {k} /\ UNCHANGED kept

\* What nobody was told of may go, and what was removed may be back.
Lose == stored' \in {s \in SUBSET Keys : kept \subseteq s} /\ UNCHANGED kept

MSNext ==
    \/ \E k \in Keys : GiveUp(k) \/ Store(k) \/ Remove(k)
    \/ \E ks \in SUBSET Keys : Promise(ks)
    \/ Lose

MSSpec == MSInit /\ [][MSNext]_msVars
=============================================================================
