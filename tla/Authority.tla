------------------------------ MODULE Authority ------------------------------
(***************************************************************************)
(* Authority vectors and their comparison (authority.hpp, authority.cpp).  *)
(*                                                                         *)
(* A plan is bound to the exact inputs it was derived from: five bare      *)
(* generations (fabric epoch, topology, ...), five references (capacity,   *)
(* reservations, policy, objective, candidate set), each an identity with  *)
(* a generation, and six content digests.  The three groups are kept, the  *)
(* members of each are a parameter.  A generation of 0 is an absent one;   *)
(* digests are model values, so two contents have the same digest only     *)
(* when they are equal (SHA-256 collisions are left out).                  *)
(***************************************************************************)
EXTENDS Naturals

CONSTANTS
    GenerationFields,   \* bare generations: fabric_epoch, topology_generation, ...
    RefFields,          \* references: capacity, reservations, policy, ...
    ContentFields,      \* digests: demand_set, candidate_set_content, ...
    NoId,               \* the identity of an absent reference
    ZeroDigest          \* the all-zero digest

\* AuthorityVector::valid - every generation and every reference is present.
valid(a) ==
    /\ \A f \in GenerationFields : a.generation[f] > 0
    /\ \A r \in RefFields : a.ref[r].id # NoId /\ a.ref[r].generation > 0

\* The two generation tests: an absent generation is never compared.
advanced(live, bound) == live > 0 /\ bound > 0 /\ bound < live
regressed(live, bound) == live > 0 /\ bound > 0 /\ live < bound

RefPresent(ref) == ref.id # NoId /\ ref.generation > 0

\* The three ways one input can differ (compare_ref, compare_digest and the
\* bare generations of compare_authority).
FieldsAdvanced(bound, live) ==
    {f \in GenerationFields : advanced(live.generation[f], bound.generation[f])}
    \cup {r \in RefFields : /\ RefPresent(bound.ref[r]) /\ RefPresent(live.ref[r])
                            /\ advanced(live.ref[r].generation, bound.ref[r].generation)}

FieldsRegressed(bound, live) ==
    {f \in GenerationFields : regressed(live.generation[f], bound.generation[f])}
    \cup {r \in RefFields : /\ RefPresent(bound.ref[r]) /\ RefPresent(live.ref[r])
                            /\ regressed(live.ref[r].generation, bound.ref[r].generation)}

FieldsConflicting(bound, live) ==
    {r \in RefFields : /\ RefPresent(bound.ref[r])
                       /\ ~RefPresent(live.ref[r]) \/ live.ref[r].id # bound.ref[r].id}
    \cup {c \in ContentFields : /\ ~(bound.digest[c] = ZeroDigest /\ live.digest[c] = ZeroDigest)
                                /\ live.digest[c] # bound.digest[c]}

compare_authority(bound, live) ==
    [advanced    |-> FieldsAdvanced(bound, live),
     regressed   |-> FieldsRegressed(bound, live),
     conflicting |-> FieldsConflicting(bound, live)]

\* The judgements the engine draws from a comparison.
identical(delta) == delta.advanced = {} /\ delta.regressed = {} /\ delta.conflicting = {}
stale(delta) == delta.advanced # {}
contradictory(delta) == delta.regressed # {} \/ delta.conflicting # {}

\* A vector with the shape of authority_of(snapshot).
IsVector(a) ==
    /\ a = [generation |-> a.generation, ref |-> a.ref, digest |-> a.digest]
    /\ a.generation \in [GenerationFields -> Nat]
    /\ a.ref = [r \in RefFields |-> [id |-> a.ref[r].id, generation |-> a.ref[r].generation]]
    /\ \A r \in RefFields : a.ref[r].generation \in Nat
    /\ a.digest = [c \in ContentFields |-> a.digest[c]]
==============================================================================
