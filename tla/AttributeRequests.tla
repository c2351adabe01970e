--------------------------- MODULE AttributeRequests ---------------------------
(***************************************************************************)
(* SET of attributes (wal/wal.c).  setAtomicParamAttributes makes one call,*)
(* to the component of the first name, and refuses names of others.  Before*)
(* that it goes through the names, and for each that asks for notifications*)
(* it registers for the event of the component (in a build without         *)
(* USE_NOTIFY_COMPONENT).                                                  *)
(***************************************************************************)
EXTENDS GetRequests

\* compName[0]; a parameter has one component.
CompName(name) == CHOOSE c \in getComponentDetails(name) : TRUE

\* Mutant: the components are not compared.
AnyOwner(first, name) == TRUE

IsOfComponent(first, name) == CompName(first) = CompName(name)

IsSupported(name) == getComponentDetails(name) # {}

\* unmapped is the index of a name that IndexMpa_WEBPAtoCPE refuses, or 0.
RefusedAt(names, unmapped) ==
    {k \in DOMAIN names : \/ ~IsSupported(names[k])
                          \/ ~IsOfComponent(names[1], names[k])
                          \/ k = unmapped}

\* The names that are prepared: those before the first that is refused.
Prepared(names, unmapped) ==
    {k \in DOMAIN names : \A j \in RefusedAt(names, unmapped) : k < j}

\* Which components the event is registered for and the attributes are sent to.
\* on is the set of indices whose notification is turned on.
setAttributes(names, on, unmapped) ==
    [events |-> {CompName(names[1]) : k \in on \cap Prepared(names, unmapped)},
     sentTo |-> IF RefusedAt(names, unmapped) = {} THEN {CompName(names[1])} ELSE {}]

------------------------------------------------------------------------------
\* The attributes of a request are all set by one call of the component that has
\* every one of its parameters, or none is; a request that is refused at a later
\* name leaves an event registered only for a component that has a parameter
\* whose notification the request turned on.  This is so whatever WALInit's
\* caches lack.
AttributesReachOwner ==
    pc = "ready" /\ OneOwner =>
        \A names \in [1..2 -> Parameters] :
            LET owners == {owner[names[k]] : k \in 1..2}
            IN  \A on \in SUBSET (1..2), unmapped \in {0, 2} :
                    LET result == setAttributes(names, on, unmapped)
                    IN  /\ result.sentTo = IF Cardinality(owners) = 1 /\ unmapped = 0
                                           THEN owners ELSE {}
                        /\ result.events \subseteq {owner[names[k]] : k \in on}
==============================================================================
