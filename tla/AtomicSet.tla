------------------------------ MODULE AtomicSet ------------------------------
(***************************************************************************)
(* What an atomic SET promises, when every request is one step: all of its *)
(* components are given its values, or none is.  Two exceptions are        *)
(* admitted: a component whose restoring failed, after a failure, and the  *)
(* components besides WiFi, when the WiFi component was busy.              *)
(***************************************************************************)
EXTENDS Naturals

CONSTANTS
    Components,  \* the components a request may touch
    Wifi,        \* the one that may be busy
    MaxRequests  \* bound: requests

VARIABLES
    values,   \* component -> the request whose values it has
    request,  \* the number of the request
    groups,   \* the components it touches, none between two requests
    result,   \* its result, or "none"
    stuck     \* the components that could not be restored

vars == <<values, request, groups, result, stuck>>

Init ==
    /\ values = [c \in Components |-> 0]
    /\ request = 0
    /\ groups = {}
    /\ result = "none"
    /\ stuck = {}

\* A request arrives; it may be refused at once.
Accept ==
    /\ groups = {}
    /\ request < MaxRequests
    /\ request' = request + 1
    /\ groups' \in (SUBSET Components) \ {{}}
    /\ result' \in {"none", "FAILURE"}
    /\ UNCHANGED <<values, stuck>>

IsServed == groups # {} /\ result = "none"

Succeed ==
    /\ IsServed
    /\ values' = [c \in Components |-> IF c \in groups THEN request ELSE values[c]]
    /\ result' = "SUCCESS"
    /\ UNCHANGED <<request, groups, stuck>>

\* Only the components in S may have been given the values of the request.
OnlyIn(S) ==
    /\ values' \in [Components -> {request} \cup {values[c] : c \in Components}]
    /\ \A c \in Components :
           values'[c] = values[c] \/ (c \in S /\ values'[c] = request)

Fail ==
    /\ IsServed
    /\ stuck' \in SUBSET groups
    /\ OnlyIn(stuck')
    /\ result' = "FAILURE"
    /\ UNCHANGED <<request, groups>>

Refuse ==
    /\ IsServed
    /\ Wifi \in groups
    /\ OnlyIn(groups \ {Wifi})
    /\ result' = "WIFI_BUSY"
    /\ UNCHANGED <<request, groups, stuck>>

Finish ==
    /\ result # "none"
    /\ groups' = {}
    /\ result' = "none"
    /\ stuck' = {}
    /\ UNCHANGED <<values, request>>

Next == Accept \/ Succeed \/ Fail \/ Refuse \/ Finish

Spec == Init /\ [][Next]_vars
==============================================================================
