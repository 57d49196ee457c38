---------------------------- MODULE DeclaredCluster ----------------------------
(***************************************************************************)
(* What an operator promises the users of a declarative resource: they     *)
(* declare specs, each of a new generation; the operator changes what      *)
(* there is, perhaps by way of outdated specs; it names a generation as    *)
(* observed only when everything is as that generation declares it, and    *)
(* changes nothing from then on until users declare something else.        *)
(***************************************************************************)
EXTENDS Naturals

CONSTANTS
    Specs           \* what can be declared, and be there in part

VARIABLES
    declared,       \* the spec
    generation,     \* its number
    observed,       \* the generation reported, 0 if there is none
    actual          \* what there is

vars == <<declared, generation, observed, actual>>

Init ==
    /\ declared \in Specs /\ generation = 1
    /\ actual \in Specs /\ observed = 0

Declare ==
    /\ generation' = generation + 1
    /\ declared' \in Specs
    /\ UNCHANGED <<observed, actual>>

Apply ==
    /\ observed # generation
    /\ actual' \in Specs
    /\ UNCHANGED <<declared, generation, observed>>

Observe ==
    /\ actual = declared
    /\ observed' = generation
    /\ UNCHANGED <<declared, generation, actual>>

Next == Declare \/ Apply \/ Observe

Spec == Init /\ [][Next]_vars
=============================================================================
