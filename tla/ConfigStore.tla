----------------------------- MODULE ConfigStore -----------------------------
(***************************************************************************)
(* What the configuration of WebPA promises, whatever happens while its    *)
(* file is rewritten: parameters are written one at a time, nothing is     *)
(* ever a mixture of two configurations, and a configuration that is lost  *)
(* stays lost until the next start has put the factory's in its place.     *)
(***************************************************************************)
EXTENDS Naturals

CONSTANTS
    Params,    \* the parameters kept in the configuration
    Values,    \* their values
    Factory    \* the configuration the device is delivered with

VARIABLES
    contents,  \* parameter -> value, or Lost
    running,   \* whether WebPA runs
    reliable   \* whether it can only be lost in a crash

Lost == [p \in {} |-> p]

\* The device is delivered without one: the first start makes it.
Init == contents = Lost /\ running = FALSE /\ reliable \in BOOLEAN

Write(p, v) ==
    /\ running
    /\ contents # Lost
    /\ contents' = [contents EXCEPT ![p] = v]
    /\ UNCHANGED <<running, reliable>>

Lose ==
    /\ running
    /\ ~reliable
    /\ contents' = Lost
    /\ UNCHANGED <<running, reliable>>

Stop ==
    /\ running' = FALSE
    /\ contents' \in {contents, Lost}
    /\ UNCHANGED reliable

Restore ==
    /\ ~running
    /\ contents = Lost
    /\ contents' = Factory
    /\ UNCHANGED <<running, reliable>>

Start ==
    /\ ~running
    /\ contents # Lost
    /\ running' = TRUE
    /\ UNCHANGED <<contents, reliable>>

Next ==
    \/ \E p \in Params, v \in Values : Write(p, v)
    \/ Lose \/ Stop \/ Restore \/ Start

Spec == Init /\ [][Next]_<<contents, running, reliable>>
==============================================================================
