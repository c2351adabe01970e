---------------------------- MODULE ComponentLookup ----------------------------
(***************************************************************************)
(* Which component owns a parameter (wal/wal.c).                           *)
(*                                                                         *)
(* At start WALInit asks the component registrar who supports each of a    *)
(* list of objects, and caches the answers in ComponentValArray, then the  *)
(* same for a list of sub-objects.  A request then looks its parameters up *)
(* in the caches, asks the registrar about those it cannot find there, and *)
(* groups the parameters by component.                                     *)
(*                                                                         *)
(* A name is an object, a sub-object and a leaf: "" for the last parts of  *)
(* the name of a whole object or sub-object, and for the sub-object of a   *)
(* parameter that is directly below its object.                            *)
(***************************************************************************)
EXTENDS Naturals, Sequences, FiniteSets, SequencesExt

CONSTANTS
    objectList,     \* the objects, in the order of the array
    subObjectList,  \* the sub-objects: names with an empty leaf
    Parameters,     \* the names of all parameters there are
    Components,     \* the components
    RETRY_COUNT     \* WAL_COMPONENT_INIT_RETRY_COUNT

object(o) == [obj |-> o, sub |-> "", leaf |-> ""]

ASSUME LookupAssumption ==
    /\ objectList \in Seq(STRING)
    /\ subObjectList \in Seq([obj : STRING, sub : STRING \ {""}, leaf : {""}])
    /\ Parameters \subseteq [obj : STRING, sub : STRING, leaf : STRING \ {""}]
    /\ IsFiniteSet(Parameters)
    /\ RETRY_COUNT \in Nat \ {0}

VARIABLES
    owner,      \* parameter -> the component that has it
    pc,         \* "objects", "subobjects" or "ready"
    i,          \* index in the list of objects or sub-objects
    retryCount,
    ComponentValArray,      \* the entries filled so far
    SubComponentValArray

vars == <<owner, pc, i, retryCount, ComponentValArray, SubComponentValArray>>

------------------------------------------------------------------------------
(***************************************************************************)
(* Names and the registrar                                                 *)
(***************************************************************************)
Below(name, p) ==
    /\ p.obj = name.obj
    /\ name.sub # "" => p.sub = name.sub
    /\ name.leaf # "" => p = name

\* The components that support the namespace of a name.
Owners(name) == {owner[p] : p \in {q \in Parameters : Below(name, q)}}

\* What the registrar may answer: its components in some order, at least one.
Answers(name) == {s \in SetToSeqs(Owners(name)) : s # <<>>}

\* The part of a name that getObjectName returns: at level 2 of a name without
\* sub-object it leaves the object of level 1 there.
getObjectName(name, objectLevel) ==
    [name EXCEPT !.leaf = "", !.sub = IF objectLevel = 2 THEN name.sub ELSE ""]

------------------------------------------------------------------------------
(***************************************************************************)
(* WALInit                                                                 *)
(***************************************************************************)
Init ==
    /\ owner \in [Parameters -> Components]
    /\ pc = "objects"
    /\ i = 1
    /\ retryCount = 0
    /\ ComponentValArray = <<>>
    /\ SubComponentValArray = <<>>

\* Mutant: the entry is given the index of its object.
IndexInList(cache) == i - 1

NextFree(cache) == Len(cache)

Entry(name, answer, cache) ==
    [comp_id |-> NextFree(cache), comp_size |-> Len(answer),
     obj_name |-> name, comp_name |-> Head(answer)]

\* Mutant: the count starts again before it is full.
StartsAgain(k) == IF k + 1 = RETRY_COUNT THEN 1 ELSE k + 1

NextCount(k) == k + 1

RetriesAfter(k) == k >= 1 /\ k <= RETRY_COUNT - 1

\* The registrar answers: the entry is filled.
ObjectFound ==
    /\ pc = "objects"
    /\ i <= Len(objectList)
    /\ \E answer \in Answers(object(objectList[i])) :
          ComponentValArray' =
              Append(ComponentValArray, Entry(object(objectList[i]), answer, ComponentValArray))
    /\ retryCount' = 0
    /\ i' = i + 1
    /\ UNCHANGED <<owner, pc, SubComponentValArray>>

\* The call fails, for this time or because nobody supports the object.  The
\* count goes on from the object given up before: it is only reset by a success.
ObjectNotFound ==
    /\ pc = "objects"
    /\ i <= Len(objectList)
    /\ retryCount' = NextCount(retryCount)
    /\ i' = IF RetriesAfter(retryCount') THEN i ELSE i + 1
    /\ UNCHANGED <<owner, pc, ComponentValArray, SubComponentValArray>>

ObjectsEnd ==
    /\ pc = "objects"
    /\ i > Len(objectList)
    /\ pc' = "subobjects"
    /\ i' = 1
    /\ retryCount' = 0
    /\ UNCHANGED <<owner, ComponentValArray, SubComponentValArray>>

SubObjectFound ==
    /\ pc = "subobjects"
    /\ i <= Len(subObjectList)
    /\ \E answer \in Answers(subObjectList[i]) :
          SubComponentValArray' =
              Append(SubComponentValArray, Entry(subObjectList[i], answer, SubComponentValArray))
    /\ retryCount' = 0
    /\ i' = i + 1
    /\ UNCHANGED <<owner, pc, ComponentValArray>>

SubObjectNotFound ==
    /\ pc = "subobjects"
    /\ i <= Len(subObjectList)
    /\ retryCount' = NextCount(retryCount)
    /\ i' = IF RetriesAfter(retryCount') THEN i ELSE i + 1
    /\ UNCHANGED <<owner, pc, ComponentValArray, SubComponentValArray>>

SubObjectsEnd ==
    /\ pc = "subobjects"
    /\ i > Len(subObjectList)
    /\ pc' = "ready"
    /\ UNCHANGED <<owner, i, retryCount, ComponentValArray, SubComponentValArray>>

Next == ObjectFound \/ ObjectNotFound \/ ObjectsEnd
        \/ SubObjectFound \/ SubObjectNotFound \/ SubObjectsEnd

Spec == Init /\ [][Next]_vars
FairSpec == Spec /\ WF_vars(Next)

------------------------------------------------------------------------------
(***************************************************************************)
(* Looking a name up                                                       *)
(***************************************************************************)
None == Len(objectList) + Len(subObjectList)

\* The comp_id of the first entry of an object, None if there is none.
MatchingIndex(cache, name) ==
    LET found == {k \in DOMAIN cache : cache[k].obj_name = name}
    IN  IF found = {} THEN None
        ELSE cache[CHOOSE k \in found : \A l \in found : k <= l].comp_id

\* The C arrays are indexed from 0, and have comp_size 0 where nothing was filled.
CompSize(index) ==
    IF index < Len(ComponentValArray) THEN ComponentValArray[index + 1].comp_size ELSE 0

\* The index it returns, which may be one of either array, and what it copied.
getComponentInfoFromCache(name) ==
    LET index == MatchingIndex(ComponentValArray, getObjectName(name, 1))
        subIndex == MatchingIndex(SubComponentValArray, getObjectName(name, 2))
    IN  IF index = None \/ CompSize(index) \notin {1, 2}
        THEN [index |-> index, comps |-> {}]
        ELSE IF CompSize(index) = 1
        THEN [index |-> index, comps |-> {ComponentValArray[index + 1].comp_name}]
        ELSE [index |-> subIndex,
              comps |-> {SubComponentValArray[k].comp_name :
                            k \in {subIndex + 1} \cap DOMAIN SubComponentValArray}]

\* The registrar is asked when the cache does not tell; the size is that of the
\* entry of ComponentValArray, even if the index is one of the other array.
getComponentDetails(name) ==
    LET info == getComponentInfoFromCache(name)
    IN  IF info.index = None \/ CompSize(info.index) > 2 THEN Owners(name)
        ELSE info.comps

------------------------------------------------------------------------------
(***************************************************************************)
(* Grouping the parameters of a request                                    *)
(***************************************************************************)
\* Mutant: only the last group is looked at.
OnlyLastGroup(groups, comp) ==
    groups # <<>> /\ groups[Len(groups)].comp_name = comp

HasGroup(groups, comp) == \E k \in DOMAIN groups : groups[k].comp_name = comp

prepareParamGroups(groups, paramName, comp) ==
    IF HasGroup(groups, comp)
    THEN [k \in DOMAIN groups |->
             IF groups[k].comp_name = comp
             THEN [groups[k] EXCEPT !.parameterName = Append(@, paramName)]
             ELSE groups[k]]
    ELSE Append(groups, [comp_name |-> comp, parameterName |-> <<paramName>>])

\* One parameter, added to the group of each of its components.
AddParameter(paramName, groups) ==
    LET comps == SetToSeq(getComponentDetails(paramName))
        after[k \in 0..Len(comps)] ==
            IF k = 0 THEN groups ELSE prepareParamGroups(after[k - 1], paramName, comps[k])
    IN  after[Len(comps)]

ParamGroup(names) ==
    LET after[k \in 0..Len(names)] ==
            IF k = 0 THEN <<>> ELSE AddParameter(names[k], after[k - 1])
    IN  after[Len(names)]

------------------------------------------------------------------------------
(***************************************************************************)
(* Properties                                                              *)
(***************************************************************************)
\* The names of parameters, and of the objects and sub-objects that have any.
Names ==
    {name \in Parameters \cup {object(objectList[k]) : k \in DOMAIN objectList}
                         \cup {subObjectList[k] : k \in DOMAIN subObjectList} :
        \E p \in Parameters : Below(name, p)}

\* The cached sub-objects are supported by one component each.
OneOwner == \A k \in DOMAIN subObjectList : Cardinality(Owners(subObjectList[k])) <= 1

\* Whichever of WALInit's calls have failed, and so whatever indices the entries
\* have in the two caches, a name leads to the components that have parameters
\* below it, and to no other.
LookupFindsOwners ==
    pc = "ready" /\ OneOwner =>
        \A name \in Names : getComponentDetails(name) = Owners(name)

\* A group has the names of the request that lead to its component, in their order.
HasItsNames(group, names) ==
    \E f \in [DOMAIN group.parameterName -> DOMAIN names] :
        /\ \A x, y \in DOMAIN group.parameterName : x < y => f[x] < f[y]
        /\ \A x \in DOMAIN group.parameterName : group.parameterName[x] = names[f[x]]
        /\ Range(f) = {k \in DOMAIN names : group.comp_name \in getComponentDetails(names[k])}

\* The groups of a request of two names are one for each component that a name leads
\* to, and a name is in the groups of exactly the components it leads to, in the
\* order of the request.
GroupsArePartition ==
    pc = "ready" =>
        \A names \in {s \in [1..2 -> Names] : s[1] # s[2]} :
            LET groups == ParamGroup(names)
            IN  /\ \A k, l \in DOMAIN groups : groups[k].comp_name = groups[l].comp_name => k = l
                /\ {groups[k].comp_name : k \in DOMAIN groups}
                       = UNION {getComponentDetails(names[k]) : k \in 1..2}
                /\ \A k \in DOMAIN groups : HasItsNames(groups[k], names)

\* WALInit ends, though the registrar may fail for ever.
InitEnds == <>(pc = "ready")

\* "Component cache index 0 maps to "Device.WiFi."" (wal.c, where the task that
\* restarts the radios takes its component from that entry).  When the WiFi
\* component is late, entry 0 is that of the first object found.
CacheStartsWithWiFi ==
    pc = "ready" /\ ComponentValArray # <<>>
        => ComponentValArray[1].obj_name = object("WiFi")
==============================================================================
