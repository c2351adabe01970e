------------------------- MODULE ComponentLookup_proofs -------------------------
(***************************************************************************)
(* Theorems about the component caches and the requests that go through    *)
(* them, for any objects, parameters, components and owners, and whatever  *)
(* calls of WALInit have failed; and about the mapping of the names of     *)
(* requests, for whatever numbers the server and the device use.           *)
(***************************************************************************)
EXTENDS AttributeRequests, NameMapping, SequenceTheorems, FiniteSetTheorems,
        WellFoundedInduction, TLAPS

\* What Entry makes of a name that is supported.
EntryOK(cache, k) ==
    /\ cache[k].comp_id = k - 1
    /\ cache[k].comp_size = Cardinality(Owners(cache[k].obj_name))
    /\ cache[k].comp_name \in Owners(cache[k].obj_name)

Entries(names) ==
    [comp_id : Nat, comp_size : Nat, comp_name : Components, obj_name : names]

ObjectNames == {object(objectList[k]) : k \in 1..Len(objectList)}
SubObjectNames == {subObjectList[k] : k \in 1..Len(subObjectList)}

\* There are no more entries than objects have been gone through.
CacheInv ==
    /\ owner \in [Parameters -> Components]
    /\ pc \in {"objects", "subobjects", "ready"}
    /\ i \in Nat \ {0}
    /\ ComponentValArray \in Seq(Entries(ObjectNames))
    /\ SubComponentValArray \in Seq(Entries(SubObjectNames))
    /\ \A k \in 1..Len(ComponentValArray) : EntryOK(ComponentValArray, k)
    /\ \A k \in 1..Len(SubComponentValArray) : EntryOK(SubComponentValArray, k)
    /\ Len(ComponentValArray) <= Len(objectList)
    /\ pc = "objects" => Len(ComponentValArray) <= i - 1 /\ SubComponentValArray = <<>>
    /\ Len(SubComponentValArray) <= Len(subObjectList)
    /\ pc = "subobjects" => Len(SubComponentValArray) <= i - 1

------------------------------------------------------------------------------
(***************************************************************************)
(* The registrar                                                           *)
(***************************************************************************)
\* There are finitely many components with parameters below a name.
LEMMA OwnersFinite ==
    ASSUME owner \in [Parameters -> Components], NEW name
    PROVE  IsFiniteSet(Owners(name)) /\ Owners(name) \subseteq Components
<1> DEFINE Q == {q \in Parameters : Below(name, q)}
           f == [q \in Q |-> owner[q]]
<1>1. IsFiniteSet(Q)
  BY LookupAssumption, FS_Subset
<1>2. Owners(name) = {owner[q] : q \in Q}
  BY DEF Owners
<1>3. f \in Surjection(Q, Owners(name))
  BY <1>2 DEF Surjection
<1>4. IsFiniteSet(Owners(name))
  <2> HIDE DEF f, Q
  <2> QED
    BY <1>1, <1>3, FS_Surjection
<1>5. Owners(name) \subseteq Components
  BY <1>2
<1> QED
  BY <1>4, <1>5

\* An answer has each of the components once.
LEMMA AnswerOf ==
    ASSUME owner \in [Parameters -> Components], NEW name, NEW answer \in Answers(name)
    PROVE  /\ Len(answer) = Cardinality(Owners(name))
           /\ Len(answer) \in Nat
           /\ Head(answer) \in Owners(name)
<1> DEFINE n == Cardinality(Owners(name))
<1>1. n \in Nat
  BY OwnersFinite, FS_CardinalityType
<1>2. answer \in [1..n -> Owners(name)] /\ answer # <<>>
  BY DEF Answers, SetToSeqs
<1> HIDE DEF n
<1>3. answer \in Seq(Owners(name)) /\ Len(answer) = n
  <2>1. answer \in Seq(Owners(name))
    BY <1>1, <1>2, SeqDef
  <2>2. DOMAIN answer = 1..Len(answer) /\ Len(answer) \in Nat
    BY <2>1, LenProperties
  <2>3. DOMAIN answer = 1..n
    BY <1>2
  <2>4. \A x \in Nat : x \in 1..Len(answer) <=> x \in 1..n
    BY <2>2, <2>3
  <2>5. (n # 0 => n \in 1..Len(answer)) /\ (Len(answer) # 0 => Len(answer) \in 1..n)
    BY <2>2, <2>4, <1>1
  <2>6. Len(answer) = n
    <3>1. \A x, y \in Nat : (x # 0 => x \in 1..y) /\ (y # 0 => y \in 1..x) => x = y
      OBVIOUS
    <3> QED
      BY <2>2, <2>5, <3>1, <1>1
  <2> QED
    BY <2>1, <2>6
<1>4. Head(answer) \in Owners(name)
  BY <1>2, <1>3, HeadTailProperties
<1> QED
  BY <1>1, <1>3, <1>4 DEF n

------------------------------------------------------------------------------
(***************************************************************************)
(* WALInit                                                                 *)
(***************************************************************************)
\* Filling the next entry of a cache.
LEMMA Filled ==
    ASSUME owner \in [Parameters -> Components],
           NEW names, NEW cache \in Seq(Entries(names)),
           \A k \in 1..Len(cache) : EntryOK(cache, k),
           NEW name \in names, NEW answer \in Answers(name), NEW filled,
           filled = Append(cache, Entry(name, answer, cache))
    PROVE  /\ filled \in Seq(Entries(names))
           /\ Len(filled) = Len(cache) + 1
           /\ \A k \in 1..Len(filled) : EntryOK(filled, k)
<1> DEFINE e == Entry(name, answer, cache)
<1>1. Len(cache) \in Nat
  BY LenProperties
<1>2. /\ e.comp_id = Len(cache) /\ e.comp_size = Len(answer) /\ e.obj_name = name
      /\ e.comp_name = Head(answer)
  BY DEF Entry, NextFree
<1>3. Len(answer) = Cardinality(Owners(name)) /\ Len(answer) \in Nat /\ Head(answer) \in Owners(name)
  BY AnswerOf
<1>4. e \in Entries(names)
  <2>1. Head(answer) \in Components
    BY <1>3, OwnersFinite
  <2> QED
    BY <1>1, <1>3, <2>1 DEF Entry, NextFree, Entries
<1> HIDE DEF e
<1>5. /\ filled \in Seq(Entries(names)) /\ Len(filled) = Len(cache) + 1
      /\ \A k \in 1..Len(cache) : filled[k] = cache[k]
      /\ filled[Len(cache) + 1] = e
  <2>1. filled = Append(cache, e)
    BY DEF e
  <2> QED
    BY <1>4, <2>1, AppendProperties
<1>6. \A k \in 1..Len(filled) : EntryOK(filled, k)
  <2> SUFFICES ASSUME NEW k \in 1..Len(filled) PROVE EntryOK(filled, k)
    OBVIOUS
  <2>1. CASE k \in 1..Len(cache)
    BY <2>1, <1>5 DEF EntryOK
  <2>2. CASE k = Len(cache) + 1
    BY <2>2, <1>1, <1>2, <1>3, <1>5 DEF EntryOK
  <2> QED
    BY <2>1, <2>2, <1>1, <1>5
<1> QED
  BY <1>5, <1>6

LEMMA InitCache == Init => CacheInv
<1> SUFFICES ASSUME Init PROVE CacheInv
  OBVIOUS
<1>1. Len(objectList) \in Nat /\ Len(subObjectList) \in Nat
  BY LookupAssumption, LenProperties
<1>2. <<>> \in Seq(Entries(ObjectNames)) /\ <<>> \in Seq(Entries(SubObjectNames)) /\ Len(<<>>) = 0
  BY EmptySeq
<1>3. \A k \in 1..0 : FALSE
  OBVIOUS
<1> QED
  BY <1>1, <1>2, <1>3 DEF Init, CacheInv

LEMMA NextCache == CacheInv /\ [Next]_vars => CacheInv'
<1> SUFFICES ASSUME CacheInv, [Next]_vars PROVE CacheInv'
  OBVIOUS
<1>1. /\ Len(objectList) \in Nat /\ Len(subObjectList) \in Nat
      /\ Len(ComponentValArray) \in Nat /\ Len(SubComponentValArray) \in Nat
  BY LookupAssumption, LenProperties DEF CacheInv
<1>2. owner' = owner /\ \A name : Owners(name)' = Owners(name)
  BY DEF Next, vars, ObjectFound, ObjectNotFound, ObjectsEnd, SubObjectFound,
         SubObjectNotFound, SubObjectsEnd, Owners
<1>3. (ComponentValArray' = ComponentValArray =>
          \A k \in 1..Len(ComponentValArray) : EntryOK(ComponentValArray, k)')
      /\ (SubComponentValArray' = SubComponentValArray =>
          \A k \in 1..Len(SubComponentValArray) : EntryOK(SubComponentValArray, k)')
  BY <1>2 DEF CacheInv, EntryOK
<1>4. CASE ObjectFound
  <2>1. PICK answer \in Answers(object(objectList[i])) :
           ComponentValArray' =
               Append(ComponentValArray, Entry(object(objectList[i]), answer, ComponentValArray))
    BY <1>4 DEF ObjectFound
  <2>2. object(objectList[i]) \in ObjectNames
    BY <1>1, <1>4 DEF ObjectFound, CacheInv, ObjectNames
  <2>3. /\ ComponentValArray' \in Seq(Entries(ObjectNames))
        /\ Len(ComponentValArray') = Len(ComponentValArray) + 1
        /\ \A k \in 1..Len(ComponentValArray') : EntryOK(ComponentValArray', k)
    <3>1. PICK name \in ObjectNames : name = object(objectList[i])
      BY <2>2
    <3>2. PICK cache \in Seq(Entries(ObjectNames)) : cache = ComponentValArray
      BY DEF CacheInv
    <3>3. PICK filled : filled = Append(cache, Entry(name, answer, cache))
      OBVIOUS
    <3>4. /\ answer \in Answers(name) /\ owner \in [Parameters -> Components]
          /\ \A k \in 1..Len(cache) : EntryOK(cache, k)
      BY <3>1, <3>2 DEF CacheInv
    <3>5. filled \in Seq(Entries(ObjectNames))
      BY <3>3, <3>4, Filled
    <3>6. Len(filled) = Len(cache) + 1
      BY <3>3, <3>4, Filled
    <3>7. \A k \in 1..Len(filled) : EntryOK(filled, k)
      BY <3>3, <3>4, Filled, Zenon
    <3> QED
      BY <2>1, <3>1, <3>2, <3>3, <3>5, <3>6, <3>7
  <2>4. \A k \in 1..Len(ComponentValArray') : EntryOK(ComponentValArray, k)'
    BY <2>3, <1>2 DEF EntryOK
  <2> QED
    BY <2>3, <2>4, <1>1, <1>2, <1>3, <1>4 DEF ObjectFound, CacheInv
<1>5. CASE ObjectNotFound
  BY <1>1, <1>2, <1>3, <1>5 DEF ObjectNotFound, CacheInv
<1>6. CASE ObjectsEnd
  BY <1>1, <1>2, <1>3, <1>6, EmptySeq DEF ObjectsEnd, CacheInv
<1>7. CASE SubObjectFound
  <2>1. PICK answer \in Answers(subObjectList[i]) :
           SubComponentValArray' =
               Append(SubComponentValArray, Entry(subObjectList[i], answer, SubComponentValArray))
    BY <1>7 DEF SubObjectFound
  <2>2. subObjectList[i] \in SubObjectNames
    BY <1>1, <1>7 DEF SubObjectFound, CacheInv, SubObjectNames
  <2>3. /\ SubComponentValArray' \in Seq(Entries(SubObjectNames))
        /\ Len(SubComponentValArray') = Len(SubComponentValArray) + 1
        /\ \A k \in 1..Len(SubComponentValArray') : EntryOK(SubComponentValArray', k)
    <3>1. PICK name \in SubObjectNames : name = subObjectList[i]
      BY <2>2
    <3>2. PICK cache \in Seq(Entries(SubObjectNames)) : cache = SubComponentValArray
      BY DEF CacheInv
    <3>3. PICK filled : filled = Append(cache, Entry(name, answer, cache))
      OBVIOUS
    <3>4. /\ answer \in Answers(name) /\ owner \in [Parameters -> Components]
          /\ \A k \in 1..Len(cache) : EntryOK(cache, k)
      BY <3>1, <3>2 DEF CacheInv
    <3>5. filled \in Seq(Entries(SubObjectNames))
      BY <3>3, <3>4, Filled
    <3>6. Len(filled) = Len(cache) + 1
      BY <3>3, <3>4, Filled
    <3>7. \A k \in 1..Len(filled) : EntryOK(filled, k)
      BY <3>3, <3>4, Filled, Zenon
    <3> QED
      BY <2>1, <3>1, <3>2, <3>3, <3>5, <3>6, <3>7
  <2>4. \A k \in 1..Len(SubComponentValArray') : EntryOK(SubComponentValArray, k)'
    BY <2>3, <1>2 DEF EntryOK
  <2> QED
    BY <2>3, <2>4, <1>1, <1>2, <1>3, <1>7 DEF SubObjectFound, CacheInv
<1>8. CASE SubObjectNotFound
  BY <1>1, <1>2, <1>3, <1>8 DEF SubObjectNotFound, CacheInv
<1>9. CASE SubObjectsEnd
  BY <1>1, <1>2, <1>3, <1>9 DEF SubObjectsEnd, CacheInv
<1>10. CASE UNCHANGED vars
  BY <1>1, <1>2, <1>3, <1>10 DEF vars, CacheInv
<1> QED
  BY <1>4, <1>5, <1>6, <1>7, <1>8, <1>9, <1>10 DEF Next

\* The entries of both caches are those of the objects they are for, at the index
\* they give, whichever calls have failed.
THEOREM CachesCorrect == Spec => []CacheInv
BY InitCache, NextCache, PTL DEF Spec
------------------------------------------------------------------------------
(***************************************************************************)
(* Looking a name up                                                       *)
(***************************************************************************)
LEMMA LeastNat ==
    ASSUME NEW T \in SUBSET Nat, T # {}
    PROVE  \E m \in T : \A k \in T : m <= k
<1>1. IsWellFoundedOn(OpToRel(<, Nat), Nat)
  BY NatLessThanWellFounded
<1>2. \E x \in T : \A y \in T : ~(<<y, x>> \in OpToRel(<, Nat))
  BY <1>1, WFMin
<1>3. \A x, y \in T : y < x => <<y, x>> \in OpToRel(<, Nat)
  BY DEF OpToRel
<1>4. \E x \in T : \A y \in T : ~(y < x)
  BY <1>2, <1>3, Zenon
<1>5. \A x, y \in T : ~(y < x) => x <= y
  OBVIOUS
<1> QED
  BY <1>4, <1>5

\* The index of a name is that of an entry of its own, if there is one.
LEMMA Matching ==
    ASSUME NEW names, NEW cache \in Seq(Entries(names)),
           \A k \in 1..Len(cache) : EntryOK(cache, k), NEW name
    PROVE  \/ MatchingIndex(cache, name) = None
           \/ \E m \in 1..Len(cache) :
                 cache[m].obj_name = name /\ MatchingIndex(cache, name) = m - 1
<1> DEFINE found == {k \in DOMAIN cache : cache[k].obj_name = name}
           m == CHOOSE k \in found : \A l \in found : k <= l
<1>1. DOMAIN cache = 1..Len(cache) /\ Len(cache) \in Nat
  BY LenProperties
<1>2. CASE found = {}
  BY <1>2 DEF MatchingIndex
<1>3. CASE found # {}
  <2>1. found \in SUBSET Nat
    BY <1>1
  <2>2. \E k \in found : \A l \in found : k <= l
    <3> HIDE DEF found
    <3> QED
      BY <1>3, <2>1, LeastNat
  <2>3. m \in found
    BY <2>2
  <2>4. m \in 1..Len(cache) /\ cache[m].obj_name = name
    BY <2>3, <1>1
  <2>5. cache[m].comp_id = m - 1
    BY <2>4 DEF EntryOK
  <2>6. MatchingIndex(cache, name) = cache[m].comp_id
    BY <1>3 DEF MatchingIndex
  <2> HIDE DEF m, found
  <2> QED
    BY <2>4, <2>5, <2>6
<1> QED
  BY <1>2, <1>3

IsName(n) == n = [obj |-> n.obj, sub |-> n.sub, leaf |-> n.leaf]

\* What is below a name is below its object, and below its sub-object.
LEMMA OwnersAbove ==
    ASSUME NEW name, IsName(name), NEW level
    PROVE  Owners(name) \subseteq Owners(getObjectName(name, level))
<1> DEFINE above == getObjectName(name, level)
<1>1. above.obj = name.obj /\ above.sub \in {"", name.sub} /\ above.leaf = ""
  BY DEF getObjectName, IsName
<1>2. \A q \in Parameters : Below(name, q) => Below(above, q)
  <2> HIDE DEF above
  <2> QED
    BY <1>1 DEF Below
<1> QED
  BY <1>2 DEF Owners

\* Of one component there is no other.
LEMMA OnlyOwner ==
    ASSUME owner \in [Parameters -> Components], NEW name, NEW above, NEW c \in Owners(above),
           Cardinality(Owners(above)) <= 1, Owners(name) \subseteq Owners(above),
           Owners(name) # {}
    PROVE  Owners(name) = {c}
<1>1. IsFiniteSet(Owners(above)) /\ Cardinality(Owners(above)) \in Nat
  BY OwnersFinite, FS_CardinalityType
<1>2. Cardinality(Owners(above)) = 1
  BY <1>1, FS_EmptySet
<1>3. \E x : Owners(above) = {x}
  BY <1>1, <1>2, FS_Singleton
<1> QED
  BY <1>3

LEMMA NamesAreNames ==
    ASSUME NEW name \in Names
    PROVE  IsName(name) /\ Owners(name) # {}
<1>1. Owners(name) # {}
  BY DEF Names, Owners
<1>2. IsName(name)
  <2>1. CASE name \in Parameters
    <3>1. name \in [obj : STRING, sub : STRING, leaf : STRING \ {""}]
      BY <2>1, LookupAssumption
    <3> QED
      BY <3>1 DEF IsName
  <2>2. CASE name \in {object(objectList[k]) : k \in DOMAIN objectList}
    <3>1. PICK k \in DOMAIN objectList : name = object(objectList[k])
      BY <2>2
    <3>2. name = [obj |-> objectList[k], sub |-> "", leaf |-> ""]
      BY <3>1 DEF object
    <3> QED
      BY <3>2 DEF IsName
  <2>3. CASE name \in {subObjectList[k] : k \in DOMAIN subObjectList}
    <3>1. PICK k \in DOMAIN subObjectList : name = subObjectList[k]
      BY <2>3
    <3>2. subObjectList \in Seq([obj : STRING, sub : STRING \ {""}, leaf : {""}])
      BY LookupAssumption
    <3>3. k \in 1..Len(subObjectList)
      BY <3>2, LenProperties
    <3>4. subObjectList[k] \in [obj : STRING, sub : STRING \ {""}, leaf : {""}]
      BY <3>2, <3>3, ElementOfSeq
    <3> QED
      BY <3>1, <3>4 DEF IsName
  <2> QED
    BY <2>1, <2>2, <2>3 DEF Names
<1> QED
  BY <1>1, <1>2

LEMMA LookupCorrect ==
    ASSUME CacheInv, OneOwner, NEW name \in Names
    PROVE  getComponentDetails(name) = Owners(name)
<1> DEFINE index == MatchingIndex(ComponentValArray, getObjectName(name, 1))
           subIndex == MatchingIndex(SubComponentValArray, getObjectName(name, 2))
           info == getComponentInfoFromCache(name)
<1>1. /\ owner \in [Parameters -> Components]
      /\ ComponentValArray \in Seq(Entries(ObjectNames))
      /\ SubComponentValArray \in Seq(Entries(SubObjectNames))
      /\ \A k \in 1..Len(ComponentValArray) : EntryOK(ComponentValArray, k)
      /\ \A k \in 1..Len(SubComponentValArray) : EntryOK(SubComponentValArray, k)
      /\ Len(ComponentValArray) <= Len(objectList)
      /\ Len(SubComponentValArray) <= Len(subObjectList)
  BY DEF CacheInv
<1>2. /\ Len(objectList) \in Nat /\ Len(subObjectList) \in Nat
      /\ Len(ComponentValArray) \in Nat /\ Len(SubComponentValArray) \in Nat
      /\ DOMAIN SubComponentValArray = 1..Len(SubComponentValArray)
  BY LookupAssumption, LenProperties, <1>1
<1>3. /\ Owners(name) # {}
      /\ Owners(name) \subseteq Owners(getObjectName(name, 1))
      /\ Owners(name) \subseteq Owners(getObjectName(name, 2))
  BY NamesAreNames, OwnersAbove
<1>4. info = IF index = None \/ CompSize(index) \notin {1, 2}
             THEN [index |-> index, comps |-> {}]
             ELSE IF CompSize(index) = 1
             THEN [index |-> index, comps |-> {ComponentValArray[index + 1].comp_name}]
             ELSE [index |-> subIndex,
                   comps |-> {SubComponentValArray[k].comp_name :
                                 k \in {subIndex + 1} \cap DOMAIN SubComponentValArray}]
  BY DEF getComponentInfoFromCache
<1>5. getComponentDetails(name) = IF info.index = None \/ CompSize(info.index) > 2
                                  THEN Owners(name) ELSE info.comps
  BY DEF getComponentDetails
<1>6. \/ index = None
      \/ \E m \in 1..Len(ComponentValArray) :
            ComponentValArray[m].obj_name = getObjectName(name, 1) /\ index = m - 1
  BY <1>1, Matching
<1>7. \/ subIndex = None
      \/ \E m \in 1..Len(SubComponentValArray) :
            SubComponentValArray[m].obj_name = getObjectName(name, 2) /\ subIndex = m - 1
  BY <1>1, Matching
<1> HIDE DEF index, subIndex, info
<1>8. CASE index = None
  BY <1>4, <1>5, <1>8
<1>9. CASE index # None
  <2>1. PICK m \in 1..Len(ComponentValArray) :
           ComponentValArray[m].obj_name = getObjectName(name, 1) /\ index = m - 1
    BY <1>6, <1>9
  <2>2. /\ ComponentValArray[m].comp_size = Cardinality(Owners(getObjectName(name, 1)))
        /\ ComponentValArray[m].comp_name \in Owners(getObjectName(name, 1))
    BY <1>1, <2>1 DEF EntryOK
  <2>3. CompSize(index) = Cardinality(Owners(getObjectName(name, 1))) /\ index + 1 = m
    BY <1>2, <2>1, <2>2 DEF CompSize
  <2>4. CompSize(index) \in Nat \ {0}
    BY <1>1, <2>2, <2>3, OwnersFinite, FS_CardinalityType, FS_EmptySet
  <2>5. CASE CompSize(index) > 2
    BY <1>4, <1>5, <1>9, <2>5
  <2>6. CASE CompSize(index) = 1
    <3>1. Owners(name) = {ComponentValArray[m].comp_name}
      BY <1>1, <1>3, <2>2, <2>3, <2>6, OnlyOwner
    <3> QED
      BY <1>4, <1>5, <1>9, <2>3, <2>6, <3>1
  <2>7. CASE CompSize(index) = 2
    <3>1. info = [index |-> subIndex,
                  comps |-> {SubComponentValArray[k].comp_name :
                                k \in {subIndex + 1} \cap DOMAIN SubComponentValArray}]
      BY <1>4, <1>9, <2>7
    <3>2. CASE subIndex = None
      BY <1>5, <3>1, <3>2
    <3>3. CASE subIndex # None
      <4>1. PICK l \in 1..Len(SubComponentValArray) :
               SubComponentValArray[l].obj_name = getObjectName(name, 2) /\ subIndex = l - 1
        BY <1>7, <3>3
      <4>2. SubComponentValArray[l].comp_name \in Owners(getObjectName(name, 2))
        BY <1>1, <4>1 DEF EntryOK
      <4>3. \E k \in 1..Len(subObjectList) : getObjectName(name, 2) = subObjectList[k]
        <5>1. SubComponentValArray[l] \in Entries(SubObjectNames)
          BY <1>1, ElementOfSeq
        <5> QED
          BY <4>1, <5>1 DEF Entries, SubObjectNames
      <4>4. Cardinality(Owners(getObjectName(name, 2))) <= 1
        BY <4>3, LookupAssumption, LenProperties DEF OneOwner
      <4>5. Owners(name) = {SubComponentValArray[l].comp_name}
        BY <1>1, <1>3, <4>2, <4>4, OnlyOwner
      <4>6. info.comps = {SubComponentValArray[l].comp_name}
        BY <1>2, <3>1, <4>1
      <4> QED
        BY <1>5, <4>5, <4>6
    <3> QED
      BY <3>2, <3>3
  <2> QED
    BY <2>4, <2>5, <2>6, <2>7
<1> QED
  BY <1>8, <1>9

\* Through the caches and the registrar, a name leads to the components that have
\* parameters below it, whichever objects WALInit could not find.
THEOREM LookupRight == Spec => []LookupFindsOwners
<1>1. CacheInv => LookupFindsOwners
  BY LookupCorrect DEF LookupFindsOwners
<1> QED
  BY <1>1, CachesCorrect, PTL
------------------------------------------------------------------------------
(***************************************************************************)
(* Setting attributes                                                      *)
(***************************************************************************)
\* A parameter leads to its component.
LEMMA ParameterOwner ==
    ASSUME CacheInv, OneOwner, NEW p \in Parameters
    PROVE  /\ Owners(p) = {owner[p]} /\ getComponentDetails(p) = {owner[p]}
           /\ CompName(p) = owner[p] /\ IsSupported(p)
<1>1. p.leaf # ""
  BY LookupAssumption
<1>2. \A q \in Parameters : Below(p, q) <=> q = p
  BY <1>1 DEF Below
<1>3. Owners(p) = {owner[p]}
  BY <1>2 DEF Owners
<1>4. p \in Names
  BY <1>2 DEF Names
<1>5. getComponentDetails(p) = {owner[p]}
  BY <1>3, <1>4, LookupCorrect
<1> QED
  BY <1>3, <1>5 DEF CompName, IsSupported

\* The components of the parameters whose notification is turned on.
TurnedOn(names, on) == {owner[names[k]] : k \in on}

\* The attributes of any number of parameters go to their component, or nowhere.
LEMMA AttributesOf ==
    ASSUME CacheInv, OneOwner, NEW n \in Nat \ {0}, NEW names \in [1..n -> Parameters],
           NEW on \in SUBSET (1..n), NEW unmapped \in 0..n
    PROVE  /\ setAttributes(names, on, unmapped).sentTo
                 = IF /\ \A k \in 1..n : owner[names[k]] = owner[names[1]]
                      /\ unmapped = 0
                   THEN {owner[names[1]]} ELSE {}
           /\ setAttributes(names, on, unmapped).events \subseteq TurnedOn(names, on)
<1>1. \A k \in 1..n : CompName(names[k]) = owner[names[k]] /\ IsSupported(names[k])
  BY ParameterOwner
<1>2. 1 \in 1..n /\ DOMAIN names = 1..n
  OBVIOUS
<1>3. RefusedAt(names, unmapped)
          = {k \in 1..n : owner[names[1]] # owner[names[k]] \/ k = unmapped}
  BY <1>1, <1>2 DEF RefusedAt, IsOfComponent
<1>4. RefusedAt(names, unmapped) = {}
          <=> (\A k \in 1..n : owner[names[k]] = owner[names[1]]) /\ unmapped = 0
  BY <1>3
<1>5. \A k \in Prepared(names, unmapped) : owner[names[k]] = owner[names[1]]
  <2> SUFFICES ASSUME NEW k \in Prepared(names, unmapped),
                      owner[names[k]] # owner[names[1]]
               PROVE  FALSE
    OBVIOUS
  <2>1. k \in 1..n
    BY <1>2 DEF Prepared
  <2>2. k \in RefusedAt(names, unmapped)
    BY <2>1, <1>3
  <2>3. k < k
    BY <2>2 DEF Prepared
  <2> QED
    BY <2>1, <2>3
<1>6. setAttributes(names, on, unmapped).sentTo
          = IF RefusedAt(names, unmapped) = {} THEN {owner[names[1]]} ELSE {}
  BY <1>1, <1>2 DEF setAttributes
<1>7. setAttributes(names, on, unmapped).events
          = {CompName(names[1]) : k \in on \cap Prepared(names, unmapped)}
  BY DEF setAttributes
<1>8. setAttributes(names, on, unmapped).events \subseteq TurnedOn(names, on)
  BY <1>1, <1>2, <1>5, <1>7 DEF TurnedOn
<1> QED
  BY <1>4, <1>6, <1>8

\* A call that sets attributes goes to the component that has every one of the
\* parameters, or there is none, and the events registered on the way are those
\* of components whose notification the request turned on.
THEOREM AttributesSetAtOwner == Spec => []AttributesReachOwner
<1>1. CacheInv => AttributesReachOwner
  <2> SUFFICES ASSUME CacheInv, OneOwner, NEW names \in [1..2 -> Parameters],
                      NEW on \in SUBSET (1..2), NEW unmapped \in {0, 2}
               PROVE  LET owners == {owner[names[k]] : k \in 1..2}
                          result == setAttributes(names, on, unmapped)
                      IN  /\ result.sentTo = IF Cardinality(owners) = 1 /\ unmapped = 0
                                             THEN owners ELSE {}
                          /\ result.events \subseteq {owner[names[k]] : k \in on}
    BY DEF AttributesReachOwner
  <2> DEFINE owners == {owner[names[k]] : k \in 1..2}
             result == setAttributes(names, on, unmapped)
  <2>1. 2 \in Nat \ {0} /\ unmapped \in 0..2
    OBVIOUS
  <2>2. /\ result.sentTo = IF /\ \A k \in 1..2 : owner[names[k]] = owner[names[1]]
                              /\ unmapped = 0
                           THEN {owner[names[1]]} ELSE {}
        /\ result.events \subseteq {owner[names[k]] : k \in on}
    <3>1. PICK n \in Nat \ {0} : n = 2
      OBVIOUS
    <3>2. names \in [1..n -> Parameters] /\ on \in SUBSET (1..n) /\ unmapped \in 0..n
      BY <2>1, <3>1
    <3>3. result.sentTo = IF /\ \A k \in 1..n : owner[names[k]] = owner[names[1]]
                             /\ unmapped = 0
                          THEN {owner[names[1]]} ELSE {}
      BY <3>2, AttributesOf
    <3>4. result.events \subseteq TurnedOn(names, on)
      BY <3>2, AttributesOf
    <3> QED
      BY <3>1, <3>3, <3>4 DEF TurnedOn
  <2>3. 1..2 = {1, 2}
    OBVIOUS
  <2>4. owners = {owner[names[1]], owner[names[2]]}
    BY <2>3
  <2>5. Cardinality(owners) = 1 <=> owner[names[1]] = owner[names[2]]
    <3>1. IsFiniteSet(owners)
      <4>1. IsFiniteSet({owner[names[1]]})
        BY FS_Singleton
      <4>2. owners = {owner[names[1]]} \cup {owner[names[2]]}
        BY <2>4
      <4> HIDE DEF owners
      <4> QED
        BY <4>1, <4>2, FS_AddElement
    <3> HIDE DEF owners
    <3>2. Cardinality(owners) = 1 <=> \E x : owners = {x}
      BY <3>1, FS_Singleton
    <3> QED
      BY <2>4, <3>2
  <2>6. (\A k \in 1..2 : owner[names[k]] = owner[names[1]]) <=> owner[names[1]] = owner[names[2]]
    BY <2>3
  <2> HIDE DEF owners, result
  <2>7. result.sentTo = IF Cardinality(owners) = 1 /\ unmapped = 0 THEN owners ELSE {}
    BY <2>2, <2>4, <2>5, <2>6
  <2> QED
    BY <2>2, <2>7 DEF owners, result
<1> QED
  BY <1>1, CachesCorrect, PTL

------------------------------------------------------------------------------
(***************************************************************************)
(* Loops and sequences                                                     *)
(***************************************************************************)
\* The results of repeating a step, from the first on.
IsLoop(f, X, base, n, step) ==
    /\ f \in [0..n -> X]
    /\ f[0] = base
    /\ \A k \in 1..n : f[k] = step[k][f[k - 1]]

\* Repeating a step n times makes a sequence of results.
LEMMA Iterates ==
    ASSUME NEW X, NEW base \in X, NEW n \in Nat, NEW step \in [1..n -> [X -> X]]
    PROVE  \E f : IsLoop(f, X, base, n, step)
<1> DEFINE Has(m) == \E f \in [0..m -> X] :
                         f[0] = base /\ \A k \in 1..m : f[k] = step[k][f[k - 1]]
           T == {m \in 0..n : ~Has(m)}
<1>1. SUFFICES ASSUME T # {} PROVE FALSE
  <2>1. n \in 0..n
    OBVIOUS
  <2>2. Has(n)
    BY <2>1
  <2> QED
    BY <2>2 DEF IsLoop
<1>2. T \in SUBSET Nat
  OBVIOUS
<1>3. PICK m \in T : \A k \in T : m <= k
  <2> HIDE DEF T
  <2> QED
    BY <1>1, <1>2, LeastNat
<1>4. m \in 0..n /\ ~Has(m)
  OBVIOUS
<1>5. CASE m = 0
  <2> DEFINE f == [k \in 0..0 |-> base]
  <2>1. f \in [0..m -> X] /\ f[0] = base /\ \A k \in 1..m : f[k] = step[k][f[k - 1]]
    BY <1>5
  <2> QED
    BY <1>4, <2>1
<1>6. CASE m # 0
  <2>1. m - 1 \in 0..n /\ ~(m <= m - 1) /\ m \in 1..n
    BY <1>4, <1>6
  <2>2. Has(m - 1)
    BY <1>3, <2>1
  <2>3. PICK f \in [0..(m - 1) -> X] :
           f[0] = base /\ \A k \in 1..(m - 1) : f[k] = step[k][f[k - 1]]
    BY <2>2
  <2> DEFINE g == [k \in 0..m |-> IF k = m THEN step[m][f[m - 1]] ELSE f[k]]
  <2>4. step[m] \in [X -> X] /\ f[m - 1] \in X
    BY <2>1, <2>3
  <2>5. g \in [0..m -> X]
    BY <2>1, <2>3, <2>4
  <2>6. g[0] = base
    BY <2>1, <2>3
  <2>7. \A k \in 1..m : g[k] = step[k][g[k - 1]]
    <3> TAKE k \in 1..m
    <3>1. k - 1 \in 0..(m - 1) /\ k - 1 # m /\ k \in 0..m /\ k - 1 \in 0..m
      BY <2>1
    <3>2. g[k - 1] = f[k - 1]
      BY <3>1
    <3>3. CASE k = m
      BY <3>1, <3>2, <3>3
    <3>4. CASE k # m
      <4>1. k \in 1..(m - 1)
        BY <3>4, <2>1
      <4> QED
        BY <4>1, <3>1, <3>2, <3>4, <2>3
    <3> QED
      BY <3>3, <3>4
  <2> QED
    BY <1>4, <2>5, <2>6, <2>7
<1> QED
  BY <1>5, <1>6

\* How long a sequence is.
LEMMA LengthIs ==
    ASSUME NEW S, NEW n \in Nat, NEW s \in [1..n -> S]
    PROVE  s \in Seq(S) /\ Len(s) = n
<1>1. s \in Seq(S)
  BY SeqDef
<1>2. 1..Len(s) = 1..n /\ Len(s) \in Nat
  BY <1>1, LenProperties
<1>3. \A x, y \in Nat : 1..x = 1..y => x = y
  <2> SUFFICES ASSUME NEW x \in Nat, NEW y \in Nat, 1..x = 1..y
               PROVE  x = y
    OBVIOUS
  <2>1. x # 0 => x \in 1..y
    OBVIOUS
  <2>2. y # 0 => y \in 1..x
    OBVIOUS
  <2> QED
    BY <2>1, <2>2
<1> QED
  BY <1>1, <1>2, <1>3

\* A finite set as a sequence of its elements.
LEMMA InSequence ==
    ASSUME NEW S, IsFiniteSet(S)
    PROVE  /\ SetToSeq(S) \in Seq(S)
           /\ Len(SetToSeq(S)) = Cardinality(S)
           /\ \A x \in S : \E k \in 1..Len(SetToSeq(S)) : x = SetToSeq(S)[k]
           /\ \A k, l \in 1..Len(SetToSeq(S)) : SetToSeq(S)[k] = SetToSeq(S)[l] => k = l
<1> DEFINE n == Cardinality(S)
           s == SetToSeq(S)
<1>1. n \in Nat /\ ExistsBijection(1..n, S)
  BY FS_CardinalityType
<1>2. \E f \in [1..n -> S] : IsInjective(f)
  BY <1>1 DEF ExistsBijection, Bijection, Injection
<1>3. s \in [1..n -> S] /\ IsInjective(s)
  BY <1>2 DEF SetToSeq
<1> HIDE DEF n, s
<1>4. s \in Seq(S)
  BY <1>1, <1>3, LengthIs
<1>5. Len(s) = n
  BY <1>1, <1>3, LengthIs
<1>6. S = {s[k] : k \in 1..n}
  <2>1. IsFiniteSet(1..n) /\ Cardinality(1..n) = n
    BY <1>1, FS_Interval
  <2>2. s \in Injection(1..n, S)
    BY <1>3 DEF Injection
  <2>3. s \in Surjection(1..n, S)
    BY <2>1, <2>2, FS_Injection DEF n
  <2> QED
    BY <2>3 DEF Surjection
<1>7. \A k, l \in 1..n : s[k] = s[l] => k = l
  BY <1>3 DEF IsInjective
<1> QED
  BY <1>4, <1>5, <1>6, <1>7 DEF s, n

------------------------------------------------------------------------------
(***************************************************************************)
(* Grouping                                                                *)
(***************************************************************************)
Groups(names) == [comp_name : Components, parameterName : Seq(names)]

OneEach(groups) ==
    \A k, l \in DOMAIN groups : groups[k].comp_name = groups[l].comp_name => k = l

\* The names in the group of a component, none if it has no group.
NamesOf(groups, comp) ==
    IF HasGroup(groups, comp)
    THEN groups[CHOOSE k \in DOMAIN groups : groups[k].comp_name = comp].parameterName
    ELSE <<>>

LEMMA NamesOfGroup ==
    ASSUME NEW groups, OneEach(groups), NEW k \in DOMAIN groups
    PROVE  /\ HasGroup(groups, groups[k].comp_name)
           /\ NamesOf(groups, groups[k].comp_name) = groups[k].parameterName
<1> DEFINE c == groups[k].comp_name
           l == CHOOSE x \in DOMAIN groups : groups[x].comp_name = c
<1>1. HasGroup(groups, c)
  BY DEF HasGroup
<1>2. l \in DOMAIN groups /\ groups[l].comp_name = c
  OBVIOUS
<1>3. l = k
  BY <1>2 DEF OneEach
<1>4. NamesOf(groups, c) = groups[l].parameterName
  BY <1>1 DEF NamesOf
<1> HIDE DEF l
<1> QED
  BY <1>1, <1>3, <1>4

\* r has, beside what groups has, the name in the groups of some components.
Adds(r, groups, name, comps) ==
    /\ \A d : HasGroup(r, d) <=> HasGroup(groups, d) \/ d \in comps
    /\ \A d : d \in comps => NamesOf(r, d) = Append(NamesOf(groups, d), name)
    /\ \A d : d \notin comps => NamesOf(r, d) = NamesOf(groups, d)

\* Adding a name to the group of one component changes the others in nothing.
LEMMA GroupAdded ==
    ASSUME NEW names, NEW groups \in Seq(Groups(names)), OneEach(groups),
           NEW name \in names, NEW c \in Components
    PROVE  LET r == prepareParamGroups(groups, name, c)
           IN  /\ r \in Seq(Groups(names))
               /\ OneEach(r)
               /\ Adds(r, groups, name, {c})
<1> DEFINE r == prepareParamGroups(groups, name, c)
           n == Len(groups)
<1>1. n \in Nat /\ DOMAIN groups = 1..n /\ groups \in [1..n -> Groups(names)]
  BY LenProperties
<1>2. CASE HasGroup(groups, c)
  <2>1. r = [k \in DOMAIN groups |->
                IF groups[k].comp_name = c
                THEN [groups[k] EXCEPT !.parameterName = Append(@, name)]
                ELSE groups[k]]
    BY <1>2 DEF prepareParamGroups
  <2> HIDE DEF r, n
  <2>2. \A k \in 1..n :
           /\ groups[k] \in Groups(names)
           /\ groups[k].comp_name \in Components /\ groups[k].parameterName \in Seq(names)
    BY <1>1 DEF Groups
  <2>3. \A k \in 1..n :
           /\ r[k] \in Groups(names)
           /\ r[k].comp_name = groups[k].comp_name
           /\ r[k].parameterName = IF groups[k].comp_name = c
                                   THEN Append(groups[k].parameterName, name)
                                   ELSE groups[k].parameterName
    <3> TAKE k \in 1..n
    <3>1. CASE groups[k].comp_name = c
      <4>1. r[k] = [groups[k] EXCEPT !.parameterName = Append(@, name)]
        BY <1>1, <2>1, <3>1
      <4>2. Append(groups[k].parameterName, name) \in Seq(names)
        BY <2>2, AppendProperties
      <4> QED
        BY <2>2, <3>1, <4>1, <4>2 DEF Groups
    <3>2. CASE groups[k].comp_name # c
      BY <1>1, <2>1, <2>2, <3>2
    <3> QED
      BY <3>1, <3>2
  <2>4. DOMAIN r = 1..n
    BY <1>1, <2>1
  <2>5. r \in Seq(Groups(names))
    <3>1. r \in [1..n -> Groups(names)]
      BY <1>1, <2>1, <2>3
    <3> QED
      BY <1>1, <3>1, LengthIs
  <2>6. OneEach(r)
    BY <1>1, <2>3, <2>4 DEF OneEach
  <2>7. \A d : HasGroup(r, d) <=> HasGroup(groups, d)
    BY <1>1, <2>3, <2>4 DEF HasGroup
  <2>8. \A d : NamesOf(r, d) = IF d = c THEN Append(NamesOf(groups, d), name)
                               ELSE NamesOf(groups, d)
    <3> TAKE d
    <3>1. CASE HasGroup(groups, d)
      <4>1. PICK k \in 1..n : groups[k].comp_name = d
        BY <1>1, <3>1 DEF HasGroup
      <4>2. NamesOf(groups, d) = groups[k].parameterName
        BY <1>1, <4>1, NamesOfGroup
      <4>3. NamesOf(r, d) = r[k].parameterName
        BY <2>3, <2>4, <2>6, <4>1, NamesOfGroup
      <4> QED
        BY <2>3, <4>1, <4>2, <4>3
    <3>2. CASE ~HasGroup(groups, d)
      BY <1>2, <2>7, <3>2 DEF NamesOf
    <3> QED
      BY <3>1, <3>2
  <2> QED
    BY <1>2, <2>5, <2>6, <2>7, <2>8 DEF r, Adds
<1>3. CASE ~HasGroup(groups, c)
  <2> DEFINE new == [comp_name |-> c, parameterName |-> <<name>>]
  <2>1. r = Append(groups, new)
    BY <1>3 DEF prepareParamGroups
  <2>2. new \in Groups(names) /\ new.comp_name = c /\ new.parameterName = <<name>>
    BY DEF Groups
  <2> HIDE DEF r, n, new
  <2>3. /\ r \in Seq(Groups(names))
        /\ DOMAIN r = 1..(n + 1)
        /\ \A k \in 1..n : r[k] = groups[k]
        /\ r[n + 1] = new
    <3>1. r \in Seq(Groups(names)) /\ Len(r) = n + 1
      BY <2>1, <2>2, AppendProperties DEF n
    <3>2. \A k \in 1..(n + 1) : r[k] = IF k <= n THEN groups[k] ELSE new
      BY <1>1, <2>1, <2>2, AppendProperties DEF n
    <3>3. DOMAIN r = 1..(n + 1)
      BY <3>1, LenProperties
    <3> QED
      BY <1>1, <3>1, <3>2, <3>3
  <2>4. \A k \in 1..n : groups[k].comp_name # c
    BY <1>1, <1>3 DEF HasGroup
  <2>5. OneEach(r)
    <3> SUFFICES ASSUME NEW k \in 1..(n + 1), NEW l \in 1..(n + 1),
                        r[k].comp_name = r[l].comp_name
                 PROVE  k = l
      BY <2>3 DEF OneEach
    <3>1. CASE k \in 1..n /\ l \in 1..n
      BY <1>1, <2>3, <3>1 DEF OneEach
    <3>2. CASE k \notin 1..n \/ l \notin 1..n
      <4>1. (k = n + 1 \/ k \in 1..n) /\ (l = n + 1 \/ l \in 1..n)
        BY <1>1
      <4> QED
        BY <3>2, <4>1, <2>2, <2>3, <2>4
    <3> QED
      BY <3>1, <3>2
  <2>6. \A d : HasGroup(r, d) <=> HasGroup(groups, d) \/ d = c
    <3>1. \A k : k \in 1..(n + 1) <=> k \in 1..n \/ k = n + 1
      BY <1>1
    <3> QED
      BY <1>1, <2>2, <2>3, <3>1 DEF HasGroup
  <2>7. \A d : NamesOf(r, d) = IF d = c THEN Append(NamesOf(groups, d), name)
                               ELSE NamesOf(groups, d)
    <3> TAKE d
    <3>1. CASE d = c
      <4>1. NamesOf(groups, d) = <<>>
        BY <1>3, <3>1 DEF NamesOf
      <4>2. n + 1 \in DOMAIN r
        BY <1>1, <2>3
      <4>3. NamesOf(r, d) = <<name>>
        BY <2>2, <2>3, <2>5, <3>1, <4>2, NamesOfGroup
      <4>4. Append(<<>>, name) = <<name>>
        OBVIOUS
      <4> QED
        BY <3>1, <4>1, <4>3, <4>4
    <3>2. CASE d # c /\ HasGroup(groups, d)
      <4>1. PICK k \in 1..n : groups[k].comp_name = d
        BY <1>1, <3>2 DEF HasGroup
      <4>2. NamesOf(groups, d) = groups[k].parameterName
        BY <1>1, <4>1, NamesOfGroup
      <4>3. k \in DOMAIN r /\ r[k] = groups[k]
        BY <1>1, <2>3, <4>1
      <4>4. NamesOf(r, d) = r[k].parameterName
        BY <2>5, <4>1, <4>3, NamesOfGroup
      <4> QED
        BY <3>2, <4>2, <4>3, <4>4
    <3>3. CASE d # c /\ ~HasGroup(groups, d)
      BY <2>6, <3>3 DEF NamesOf
    <3> QED
      BY <3>1, <3>2, <3>3
  <2> QED
    BY <2>3, <2>5, <2>6, <2>7 DEF r, Adds
<1> QED
  BY <1>2, <1>3

\* Induction over the rounds of a loop.
LEMMA EveryRound ==
    ASSUME NEW n \in Nat, NEW good \in SUBSET (0..n), 0 \in good,
           \A k \in 1..n : k - 1 \in good => k \in good
    PROVE  good = 0..n
<1> DEFINE T == (0..n) \ good
<1>1. SUFFICES ASSUME T # {} PROVE FALSE
  OBVIOUS
<1>2. T \in SUBSET Nat
  OBVIOUS
<1>3. PICK m \in T : \A k \in T : m <= k
  <2> HIDE DEF T
  <2> QED
    BY <1>1, <1>2, LeastNat
<1>4. m \in 1..n /\ m - 1 \in 0..n /\ ~(m <= m - 1) /\ m \notin good
  OBVIOUS
<1> QED
  BY <1>3, <1>4

\* Adding a name to the groups of all its components.
LEMMA ParameterAdded ==
    ASSUME NEW names, NEW groups \in Seq(Groups(names)), OneEach(groups),
           NEW name \in names, NEW C \in SUBSET Components, IsFiniteSet(C),
           C = getComponentDetails(name)
    PROVE  LET r == AddParameter(name, groups)
           IN  /\ r \in Seq(Groups(names))
               /\ OneEach(r)
               /\ Adds(r, groups, name, C)
<1> DEFINE comps == SetToSeq(C)
           n == Len(comps)
           X == {g \in Seq(Groups(names)) : OneEach(g)}
           step == [k \in 1..n |-> [g \in X |-> prepareParamGroups(g, name, comps[k])]]
           after == CHOOSE a : a = [k \in 0..n |->
                                       IF k = 0 THEN groups
                                       ELSE prepareParamGroups(a[k - 1], name, comps[k])]
<1>1. /\ n \in Nat
      /\ C = {comps[k] : k \in 1..n}
      /\ \A k, l \in 1..n : comps[k] = comps[l] => k = l
  <2>1. comps \in Seq(C)
    BY InSequence
  <2>2. \A x \in C : \E k \in 1..n : x = comps[k]
    BY InSequence
  <2>3. \A k, l \in 1..n : comps[k] = comps[l] => k = l
    BY InSequence
  <2> HIDE DEF comps
  <2>4. n \in Nat /\ \A k \in 1..n : comps[k] \in C
    BY <2>1, LenProperties
  <2> HIDE DEF n
  <2>5. C = {comps[k] : k \in 1..n}
    BY <2>2, <2>4
  <2> QED
    BY <2>3, <2>4, <2>5
<1>2. AddParameter(name, groups) = after[n]
  BY DEF AddParameter
<1> HIDE DEF n, comps
<1>3. groups \in X
  OBVIOUS
<1>4. step \in [1..n -> [X -> X]]
  <2>1. \A k \in 1..n, g \in X : prepareParamGroups(g, name, comps[k]) \in X
    BY <1>1, GroupAdded
  <2> HIDE DEF X
  <2> QED
    BY <2>1
<1> HIDE DEF step
<1>5. PICK f : IsLoop(f, X, groups, n, step)
  <2> HIDE DEF X
  <2>1. n \in Nat
    BY <1>1
  <2>2. \E f : IsLoop(f, X, groups, n, step)
    BY <2>1, <1>3, <1>4, Iterates
  <2> QED
    BY <2>2
<1>6. f = [k \in 0..n |-> IF k = 0 THEN groups
                          ELSE prepareParamGroups(f[k - 1], name, comps[k])]
  <2>1. \A k \in 1..n : f[k - 1] \in X
    <3> HIDE DEF X
    <3> QED
      BY <1>1, <1>5 DEF IsLoop
  <2>2. \A k \in 1..n : f[k] = prepareParamGroups(f[k - 1], name, comps[k])
    <3> HIDE DEF X
    <3> QED
      BY <1>5, <2>1 DEF step, IsLoop
  <2> HIDE DEF X
  <2> QED
    BY <1>5, <2>2 DEF IsLoop
<1>7. after = [k \in 0..n |-> IF k = 0 THEN groups
                              ELSE prepareParamGroups(after[k - 1], name, comps[k])]
  BY <1>6
<1> HIDE DEF after
<1>8. after[0] = groups /\ \A k \in 1..n : after[k] = prepareParamGroups(after[k - 1], name, comps[k])
  BY <1>1, <1>7
<1> DEFINE Seen(k) == {comps[j] : j \in 1..k}
           Done(k) == after[k] \in X /\ Adds(after[k], groups, name, Seen(k))
           good == {k \in 0..n : Done(k)}
<1>9. 0 \in good
  <2>1. Seen(0) = {} /\ 0 \in 0..n
    BY <1>1
  <2> QED
    BY <1>3, <1>8, <2>1 DEF Adds
<1>10. \A k \in 1..n : k - 1 \in good => k \in good
  <2> SUFFICES ASSUME NEW k \in 1..n, Done(k - 1) PROVE Done(k)
    <3> HIDE DEF Done
    <3> QED
      BY <1>1
  <2>1. /\ after[k - 1] \in Seq(Groups(names)) /\ OneEach(after[k - 1])
        /\ comps[k] \in Components
    BY <1>1
  <2>2. after[k] = prepareParamGroups(after[k - 1], name, comps[k])
    BY <1>8
  <2>3. after[k] \in Seq(Groups(names)) /\ OneEach(after[k])
    BY <2>1, <2>2, GroupAdded
  <2>4. Adds(after[k], after[k - 1], name, {comps[k]})
    BY <2>1, <2>2, GroupAdded
  <2>5. Seen(k) = Seen(k - 1) \cup {comps[k]}
    BY <1>1
  <2>6. comps[k] \notin Seen(k - 1)
    BY <1>1
  <2> HIDE DEF Seen
  <2> QED
    BY <2>3, <2>4, <2>5, <2>6 DEF Adds
<1>11. n \in good
  <2>1. good \in SUBSET (0..n) /\ n \in 0..n
    BY <1>1
  <2> HIDE DEF good
  <2> QED
    BY <1>1, <1>9, <1>10, <2>1, EveryRound
<1>12. Seen(n) = C
  BY <1>1
<1> HIDE DEF Seen
<1> QED
  BY <1>2, <1>11, <1>12

\* A name leads to finitely many components.
LEMMA DetailsOf ==
    ASSUME CacheInv, NEW name
    PROVE  getComponentDetails(name) \in SUBSET Components /\ IsFiniteSet(getComponentDetails(name))
<1> DEFINE info == getComponentInfoFromCache(name)
           index == MatchingIndex(ComponentValArray, getObjectName(name, 1))
           subIndex == MatchingIndex(SubComponentValArray, getObjectName(name, 2))
<1>1. /\ owner \in [Parameters -> Components]
      /\ ComponentValArray \in Seq(Entries(ObjectNames))
      /\ SubComponentValArray \in Seq(Entries(SubObjectNames))
      /\ \A k \in 1..Len(ComponentValArray) : EntryOK(ComponentValArray, k)
  BY DEF CacheInv
<1>2. Owners(name) \in SUBSET Components /\ IsFiniteSet(Owners(name))
  BY <1>1, OwnersFinite
<1>3. info.comps = {} \/ \E c \in Components : info.comps = {c}
  <2>1. \/ info.comps = {}
        \/ CompSize(index) = 1 /\ index # None
              /\ info.comps = {ComponentValArray[index + 1].comp_name}
        \/ info.comps = {SubComponentValArray[k].comp_name :
                            k \in {subIndex + 1} \cap DOMAIN SubComponentValArray}
    BY DEF getComponentInfoFromCache
  <2>2. index # None => \E m \in 1..Len(ComponentValArray) : index = m - 1
    BY <1>1, Matching
  <2>3. \A k \in 1..Len(ComponentValArray) : ComponentValArray[k].comp_name \in Components
    <3>1. \A k \in 1..Len(ComponentValArray) : ComponentValArray[k] \in Entries(ObjectNames)
      BY <1>1, LenProperties
    <3> QED
      BY <3>1 DEF Entries
  <2>4. \A k \in DOMAIN SubComponentValArray : SubComponentValArray[k].comp_name \in Components
    <3>1. \A k \in DOMAIN SubComponentValArray :
             SubComponentValArray[k] \in Entries(SubObjectNames)
      BY <1>1, LenProperties
    <3> QED
      BY <3>1 DEF Entries
  <2>5. Len(ComponentValArray) \in Nat
    BY <1>1, LenProperties
  <2> HIDE DEF info, index, subIndex
  <2>6. \A m \in 1..Len(ComponentValArray) : (m - 1) + 1 = m
    BY <2>5
  <2> QED
    BY <2>1, <2>2, <2>3, <2>4, <2>6
<1>4. getComponentDetails(name) \in {Owners(name), info.comps}
  BY DEF getComponentDetails
<1> HIDE DEF info
<1>5. \A c : IsFiniteSet({c})
  BY FS_Singleton
<1>6. IsFiniteSet({})
  BY FS_EmptySet
<1> QED
  BY <1>2, <1>3, <1>4, <1>5, <1>6

LEMMA NamesOfType ==
    ASSUME NEW names, NEW groups \in Seq(Groups(names)), NEW d
    PROVE  NamesOf(groups, d) \in Seq(names)
<1>1. \A k \in DOMAIN groups : groups[k] \in Groups(names)
  BY LenProperties
<1>2. \A k \in DOMAIN groups : groups[k].parameterName \in Seq(names)
  BY <1>1 DEF Groups
<1>3. CASE HasGroup(groups, d)
  BY <1>2, <1>3 DEF HasGroup, NamesOf
<1>4. CASE ~HasGroup(groups, d)
  BY <1>4 DEF NamesOf
<1> QED
  BY <1>3, <1>4

\* p has those of the first k names whose index is in I, in their order.
IsChoice(p, names, k, I) ==
    \E f \in [1..Len(p) -> 1..k] :
        /\ \A x, y \in 1..Len(p) : x < y => f[x] < f[y]
        /\ \A x \in 1..Len(p) : p[x] = names[f[x]] /\ f[x] \in I
        /\ \A j \in 1..k : j \in I => \E x \in 1..Len(p) : f[x] = j

LEMMA ChoiceGrows ==
    ASSUME NEW N, NEW n \in Nat, NEW names \in [1..n -> N], NEW I, NEW p \in Seq(N),
           NEW k \in 1..n, IsChoice(p, names, k - 1, I)
    PROVE  /\ k \in I => IsChoice(Append(p, names[k]), names, k, I)
           /\ k \notin I => IsChoice(p, names, k, I)
<1> DEFINE l == Len(p)
           q == Append(p, names[k])
<1>1. /\ l \in Nat /\ names[k] \in N
      /\ Len(q) = l + 1
      /\ \A x \in 1..l : q[x] = p[x]
      /\ q[l + 1] = names[k]
  BY LenProperties, AppendProperties
<1>2. PICK f \in [1..l -> 1..(k - 1)] :
         /\ \A x, y \in 1..l : x < y => f[x] < f[y]
         /\ \A x \in 1..l : p[x] = names[f[x]] /\ f[x] \in I
         /\ \A j \in 1..(k - 1) : j \in I => \E x \in 1..l : f[x] = j
  BY DEF IsChoice
<1> HIDE DEF q, l
<1>3. ASSUME k \in I PROVE IsChoice(q, names, k, I)
  <2> DEFINE g == [x \in 1..(l + 1) |-> IF x = l + 1 THEN k ELSE f[x]]
  <2>1. \A x \in 1..(l + 1) : x = l + 1 \/ (x \in 1..l /\ x # l + 1)
    BY <1>1
  <2>2. \A x \in 1..l : f[x] \in 1..(k - 1) /\ g[x] = f[x] /\ x \in 1..(l + 1)
    BY <1>1, <1>2
  <2>3. g[l + 1] = k /\ l + 1 \in 1..(l + 1)
    BY <1>1
  <2>4. g \in [1..(l + 1) -> 1..k]
    BY <2>1, <2>2, <2>3
  <2> HIDE DEF g
  <2>5. \A x, y \in 1..(l + 1) : x < y => g[x] < g[y]
    <3> SUFFICES ASSUME NEW x \in 1..(l + 1), NEW y \in 1..(l + 1), x < y PROVE g[x] < g[y]
      OBVIOUS
    <3>1. x \in 1..l
      BY <1>1
    <3>2. CASE y = l + 1
      BY <2>2, <2>3, <3>1, <3>2
    <3>3. CASE y \in 1..l
      BY <1>2, <2>2, <3>1, <3>3
    <3> QED
      BY <2>1, <3>2, <3>3
  <2>6. \A x \in 1..(l + 1) : q[x] = names[g[x]] /\ g[x] \in I
    BY <1>1, <1>2, <1>3, <2>1, <2>2, <2>3
  <2>7. \A j \in 1..k : j \in I => \E x \in 1..(l + 1) : g[x] = j
    <3> SUFFICES ASSUME NEW j \in 1..k, j \in I PROVE \E x \in 1..(l + 1) : g[x] = j
      OBVIOUS
    <3>1. CASE j = k
      BY <2>3, <3>1
    <3>2. CASE j # k
      <4>1. j \in 1..(k - 1)
        BY <3>2
      <4> QED
        BY <1>2, <2>2, <4>1
    <3> QED
      BY <3>1, <3>2
  <2>8. \E h \in [1..(l + 1) -> 1..k] :
           /\ \A x, y \in 1..(l + 1) : x < y => h[x] < h[y]
           /\ \A x \in 1..(l + 1) : q[x] = names[h[x]] /\ h[x] \in I
           /\ \A j \in 1..k : j \in I => \E x \in 1..(l + 1) : h[x] = j
    BY <2>4, <2>5, <2>6, <2>7, Zenon
  <2>9. l + 1 = Len(q)
    BY <1>1
  <2> HIDE DEF g
  <2> QED
    BY <2>8, <2>9 DEF IsChoice
<1>4. ASSUME k \notin I PROVE IsChoice(p, names, k, I)
  <2>1. f \in [1..l -> 1..k]
    BY <1>2
  <2>2. \A j \in 1..k : j \in I => j \in 1..(k - 1)
    BY <1>4
  <2> QED
    BY <1>2, <2>1, <2>2 DEF IsChoice, l
<1> QED
  BY <1>3, <1>4 DEF q

\* The indices of the names of a request that lead to a component.
LeadingTo(comp, names) == {k \in DOMAIN names : comp \in getComponentDetails(names[k])}

\* The groups of any number of names.
LEMMA GroupsOf ==
    ASSUME CacheInv, NEW N, NEW n \in Nat, NEW names \in [1..n -> N]
    PROVE  /\ ParamGroup(names) \in Seq(Groups(N))
           /\ OneEach(ParamGroup(names))
           /\ \A d : HasGroup(ParamGroup(names), d) <=> LeadingTo(d, names) # {}
           /\ \A d : IsChoice(NamesOf(ParamGroup(names), d), names, n, LeadingTo(d, names))
<1> DEFINE X == {g \in Seq(Groups(N)) : OneEach(g)}
           after == CHOOSE a : a = [k \in 0..n |->
                                       IF k = 0 THEN <<>> ELSE AddParameter(names[k], a[k - 1])]
<1>1. Len(names) = n
  BY LengthIs
<1>2. ParamGroup(names) = after[n]
  BY <1>1 DEF ParamGroup
<1>3. <<>> \in X
  BY DEF OneEach
<1>4. \A k \in 1..n, g \in X :
         /\ AddParameter(names[k], g) \in X
         /\ Adds(AddParameter(names[k], g), g, names[k], getComponentDetails(names[k]))
  <2> SUFFICES ASSUME NEW k \in 1..n, NEW g \in Seq(Groups(N)), OneEach(g)
               PROVE  /\ AddParameter(names[k], g) \in X
                      /\ Adds(AddParameter(names[k], g), g, names[k],
                              getComponentDetails(names[k]))
    OBVIOUS
  <2>1. PICK C \in SUBSET Components : C = getComponentDetails(names[k])
    BY DetailsOf
  <2>2. names[k] \in N /\ IsFiniteSet(C)
    BY <2>1, DetailsOf
  <2>3. AddParameter(names[k], g) \in Seq(Groups(N))
    BY <2>1, <2>2, ParameterAdded
  <2>4. OneEach(AddParameter(names[k], g))
    BY <2>1, <2>2, ParameterAdded
  <2>5. Adds(AddParameter(names[k], g), g, names[k], C)
    BY <2>1, <2>2, ParameterAdded
  <2> QED
    BY <2>1, <2>3, <2>4, <2>5
<1> HIDE DEF X
<1>5. PICK step \in [1..n -> [X -> X]] :
         \A k \in 1..n, g \in X : step[k][g] = AddParameter(names[k], g)
  <2>1. [k \in 1..n |-> [g \in X |-> AddParameter(names[k], g)]] \in [1..n -> [X -> X]]
    BY <1>4
  <2> QED
    BY <2>1
<1>6. PICK f : IsLoop(f, X, <<>>, n, step)
  BY <1>3, Iterates
<1>7. f = [k \in 0..n |-> IF k = 0 THEN <<>> ELSE AddParameter(names[k], f[k - 1])]
  BY <1>5, <1>6 DEF IsLoop
<1>8. after = [k \in 0..n |-> IF k = 0 THEN <<>> ELSE AddParameter(names[k], after[k - 1])]
  BY <1>7
<1> HIDE DEF after
<1>9. after[0] = <<>> /\ \A k \in 1..n : after[k] = AddParameter(names[k], after[k - 1])
  BY <1>8
<1> DEFINE I(d) == LeadingTo(d, names)
           Done(k) == /\ after[k] \in X
                      /\ \A d : HasGroup(after[k], d) <=> \E j \in 1..k : j \in I(d)
                      /\ \A d : IsChoice(NamesOf(after[k], d), names, k, I(d))
           good == {k \in 0..n : Done(k)}
<1>10. 0 \in good
  <2>1. \A d : ~HasGroup(<<>>, d)
    BY DEF HasGroup
  <2>2. \A d : NamesOf(<<>>, d) = <<>>
    BY <2>1 DEF NamesOf
  <2>3. \A d : IsChoice(<<>>, names, 0, I(d))
    <3> TAKE d
    <3> HIDE DEF I
    <3>1. PICK J : J = I(d)
      OBVIOUS
    <3> DEFINE none == [x \in 1..0 |-> 0]
    <3>2. \A x \in 1..0 : FALSE
      OBVIOUS
    <3>3. none \in [1..0 -> 1..0] /\ Len(<<>>) = 0
      OBVIOUS
    <3> HIDE DEF none
    <3>4. IsChoice(<<>>, names, 0, J)
      BY <3>2, <3>3 DEF IsChoice
    <3> QED
      BY <3>1, <3>4
  <2> HIDE DEF I
  <2> QED
    BY <1>3, <1>9, <2>1, <2>2, <2>3
<1>11. \A k \in 1..n : k - 1 \in good => k \in good
  <2> SUFFICES ASSUME NEW k \in 1..n, Done(k - 1) PROVE Done(k)
    <3> HIDE DEF Done
    <3> QED
      OBVIOUS
  <2>1. /\ after[k] \in X
        /\ Adds(after[k], after[k - 1], names[k], getComponentDetails(names[k]))
    BY <1>4, <1>9
  <2>2. \A d : k \in I(d) <=> d \in getComponentDetails(names[k])
    BY DEF LeadingTo
  <2>3. \A d : HasGroup(after[k], d) <=> \E j \in 1..k : j \in I(d)
    <3>1. \A j : j \in 1..k <=> j \in 1..(k - 1) \/ j = k
      OBVIOUS
    <3> HIDE DEF I
    <3> QED
      BY <2>1, <2>2, <3>1 DEF Adds
  <2>4. \A d : IsChoice(NamesOf(after[k], d), names, k, I(d))
    <3> TAKE d
    <3>1. PICK J : J = I(d)
      OBVIOUS
    <3>2. PICK p \in Seq(N) : p = NamesOf(after[k - 1], d)
      <4>1. PICK g \in X : g = after[k - 1]
        OBVIOUS
      <4>2. NamesOf(g, d) \in Seq(N)
        BY NamesOfType DEF X
      <4> QED
        BY <4>1, <4>2
    <3>3. IsChoice(p, names, k - 1, J)
      BY <3>1, <3>2
    <3>4. /\ k \in J => IsChoice(Append(p, names[k]), names, k, J)
          /\ k \notin J => IsChoice(p, names, k, J)
      BY <3>3, ChoiceGrows
    <3>5. k \in J => NamesOf(after[k], d) = Append(p, names[k])
      BY <2>1, <2>2, <3>1, <3>2 DEF Adds
    <3>6. k \notin J => NamesOf(after[k], d) = p
      BY <2>1, <2>2, <3>1, <3>2 DEF Adds
    <3> QED
      BY <3>1, <3>4, <3>5, <3>6
  <2> QED
    BY <2>1, <2>3, <2>4
<1>12. Done(n)
  <2>1. n \in 0..n /\ good \in SUBSET (0..n)
    OBVIOUS
  <2>2. PICK gd \in SUBSET (0..n) : gd = good
    BY <2>1
  <2> HIDE DEF good
  <2>3. gd = 0..n
    BY <1>10, <1>11, <2>2, EveryRound
  <2> QED
    BY <2>1, <2>2, <2>3 DEF good
<1>13. \A d : (\E j \in 1..n : j \in I(d)) <=> I(d) # {}
  BY DEF LeadingTo
<1> QED
  BY <1>2, <1>12, <1>13 DEF X

\* Each group of a request has the names that lead to its component.
LEMMA GroupHasItsNames ==
    ASSUME CacheInv, NEW N, NEW n \in Nat, NEW names \in [1..n -> N],
           NEW k \in DOMAIN ParamGroup(names)
    PROVE  HasItsNames(ParamGroup(names)[k], names)
<1> DEFINE groups == ParamGroup(names)
           c == groups[k].comp_name
           p == groups[k].parameterName
<1>1. groups \in Seq(Groups(N)) /\ OneEach(groups)
  BY GroupsOf
<1>2. groups[k] \in Groups(N) /\ p \in Seq(N) /\ DOMAIN p = 1..Len(p)
  <2>1. groups[k] \in Groups(N)
    BY <1>1, LenProperties
  <2>2. p \in Seq(N)
    BY <2>1 DEF Groups
  <2> HIDE DEF p
  <2> QED
    BY <2>1, <2>2, LenProperties
<1>3. NamesOf(groups, c) = p
  BY <1>1, NamesOfGroup
<1>4. IsChoice(NamesOf(groups, c), names, n, LeadingTo(c, names))
  BY GroupsOf
<1> HIDE DEF p
<1>5. PICK f \in [1..Len(p) -> 1..n] :
         /\ \A x, y \in 1..Len(p) : x < y => f[x] < f[y]
         /\ \A x \in 1..Len(p) : p[x] = names[f[x]] /\ f[x] \in LeadingTo(c, names)
         /\ \A j \in 1..n : j \in LeadingTo(c, names) => \E x \in 1..Len(p) : f[x] = j
  BY <1>3, <1>4 DEF IsChoice
<1>6. LeadingTo(c, names) \subseteq 1..n
  BY DEF LeadingTo
<1>7. Range(f) = LeadingTo(c, names)
  BY <1>5, <1>6 DEF Range
<1> HIDE DEF c, groups
<1>8. HasItsNames([comp_name |-> c, parameterName |-> p], names)
  BY <1>2, <1>5, <1>7 DEF HasItsNames, LeadingTo
<1> QED
  BY <1>2, <1>8 DEF HasItsNames, c, p, groups

\* The groups of a request partition its names by component, in the order of the
\* request.
THEOREM GroupsRight == Spec => []GroupsArePartition
<1>1. CacheInv => GroupsArePartition
  <2> SUFFICES ASSUME CacheInv, NEW names \in [1..2 -> Names]
               PROVE  LET groups == ParamGroup(names)
                      IN  /\ \A k, l \in DOMAIN groups :
                                groups[k].comp_name = groups[l].comp_name => k = l
                          /\ {groups[k].comp_name : k \in DOMAIN groups}
                                = UNION {getComponentDetails(names[k]) : k \in 1..2}
                          /\ \A k \in DOMAIN groups : HasItsNames(groups[k], names)
    BY DEF GroupsArePartition
  <2> DEFINE groups == ParamGroup(names)
  <2>0. PICK n \in Nat : n = 2
    OBVIOUS
  <2>1. PICK N : N = Names
    OBVIOUS
  <2>2. names \in [1..n -> N]
    BY <2>0, <2>1
  <2>3. OneEach(groups)
    BY <2>2, GroupsOf
  <2>4. \A d : HasGroup(groups, d) <=> LeadingTo(d, names) # {}
    BY <2>2, GroupsOf
  <2>5. {groups[k].comp_name : k \in DOMAIN groups}
          = UNION {getComponentDetails(names[k]) : k \in 1..2}
    BY <2>4 DEF HasGroup, LeadingTo
  <2>6. \A k \in DOMAIN groups : HasItsNames(groups[k], names)
    BY <2>2, GroupHasItsNames
  <2> HIDE DEF groups
  <2> QED
    BY <2>3, <2>5, <2>6 DEF OneEach, groups
<1> QED
  BY <1>1, CachesCorrect, PTL

------------------------------------------------------------------------------
(***************************************************************************)
(* Counting                                                                *)
(***************************************************************************)
\* How often p is in an array.
LEMMA TimesFinite ==
    ASSUME NEW S, NEW s \in Seq(S), NEW p
    PROVE  /\ {k \in DOMAIN s : s[k] = p} \subseteq 1..Len(s)
           /\ IsFiniteSet({k \in DOMAIN s : s[k] = p})
           /\ Times(p, s) \in Nat
<1> DEFINE A == {k \in DOMAIN s : s[k] = p}
<1>1. DOMAIN s = 1..Len(s) /\ Len(s) \in Nat
  BY LenProperties
<1>2. A \in SUBSET (1..Len(s))
  BY <1>1
<1>3. IsFiniteSet(1..Len(s))
  BY <1>1, FS_Interval
<1>4. Times(p, s) = Cardinality(A)
  BY DEF Times
<1> HIDE DEF A
<1>5. IsFiniteSet(A)
  BY <1>2, <1>3, FS_Subset
<1>6. Cardinality(A) \in Nat
  BY <1>5, FS_CardinalityType
<1> QED
  BY <1>2, <1>4, <1>5, <1>6 DEF A

LEMMA TimesJoined ==
    ASSUME NEW S, NEW s \in Seq(S), NEW t \in Seq(S), NEW p
    PROVE  Times(p, s \o t) = Times(p, s) + Times(p, t)
<1> DEFINE A == {k \in DOMAIN s : s[k] = p}
           B == {k \in DOMAIN t : t[k] = p}
           C == {k \in DOMAIN (s \o t) : (s \o t)[k] = p}
           l == Len(s)
           f == [k \in B |-> k + l]
           D == {k \in C : k > l}
<1>1. /\ DOMAIN s = 1..l /\ l \in Nat
      /\ DOMAIN t = 1..Len(t) /\ Len(t) \in Nat
      /\ DOMAIN (s \o t) = 1..(l + Len(t))
      /\ \A k \in 1..(l + Len(t)) : (s \o t)[k] = IF k <= l THEN s[k] ELSE t[k - l]
  <2>1. s \o t \in Seq(S) /\ Len(s \o t) = l + Len(t)
    BY ConcatProperties
  <2>2. \A k \in 1..(l + Len(t)) : (s \o t)[k] = IF k <= l THEN s[k] ELSE t[k - l]
    BY ConcatProperties
  <2>3. DOMAIN (s \o t) = 1..Len(s \o t)
    BY <2>1, LenProperties
  <2> QED
    BY <2>1, <2>2, <2>3, LenProperties
<1>2. /\ Times(p, s) = Cardinality(A) /\ Times(p, t) = Cardinality(B)
      /\ Times(p, s \o t) = Cardinality(C)
  BY DEF Times
<1>3. IsFiniteSet(A) /\ IsFiniteSet(B)
  BY TimesFinite
<1>4. IsFiniteSet(C)
  <2>1. s \o t \in Seq(S)
    BY ConcatProperties
  <2> QED
    BY <2>1, TimesFinite
<1>5. \A k \in 1..(l + Len(t)) : k <= l => k \in 1..l
  BY <1>1
<1>6. \A k \in 1..(l + Len(t)) : ~(k <= l) => k - l \in 1..Len(t) /\ (k - l) + l = k
  BY <1>1
<1>7. C = A \cup D /\ A \cap D = {}
  <2>1. \A k : k \in A => k \in C /\ ~(k > l)
    BY <1>1
  <2>2. \A k \in C : ~(k > l) => k \in A
    BY <1>1
  <2> HIDE DEF A, C
  <2> QED
    BY <2>1, <2>2
<1>8. \A k \in B : k + l \in D
  BY <1>1
<1>9. \A k \in D : \E j \in B : k = j + l
  BY <1>1, <1>6
<1>10. \A j, k \in B : j + l = k + l => j = k
  BY <1>1
<1> HIDE DEF A, B, C
<1>11. IsFiniteSet(D)
  <2>1. D \in SUBSET C
    OBVIOUS
  <2> HIDE DEF D
  <2> QED
    BY <1>4, <2>1, FS_Subset
<1> HIDE DEF D
<1>12. Cardinality(D) = Cardinality(B)
  <2>1. f \in Bijection(B, D)
    <3>1. f \in [B -> D]
      BY <1>8
    <3>2. \A j, k \in B : f[j] = f[k] => j = k
      BY <1>10
    <3>3. \A k \in D : \E j \in B : f[j] = k
      BY <1>9
    <3> HIDE DEF f
    <3> QED
      BY <3>1, <3>2, <3>3 DEF Bijection, Injection, Surjection, IsInjective
  <2> QED
    BY <1>3, <2>1, FS_Bijection DEF ExistsBijection
<1>13. Cardinality(C) = Cardinality(A) + Cardinality(D) - Cardinality({})
  BY <1>3, <1>7, <1>11, FS_Union
<1>14. Cardinality(A) \in Nat /\ Cardinality(D) \in Nat
  BY <1>3, <1>11, FS_CardinalityType
<1> QED
  BY <1>2, <1>12, <1>13, <1>14, FS_EmptySet

\* The elements of a set are each in its sequence once.
LEMMA TimesInSet ==
    ASSUME NEW S, IsFiniteSet(S), NEW p
    PROVE  Times(p, SetToSeq(S)) = IF p \in S THEN 1 ELSE 0
<1> DEFINE s == SetToSeq(S)
           A == {k \in DOMAIN s : s[k] = p}
<1>1. s \in Seq(S)
  BY InSequence
<1>2. \A x \in S : \E k \in 1..Len(s) : x = s[k]
  BY InSequence
<1>3. \A k, l \in 1..Len(s) : s[k] = s[l] => k = l
  BY InSequence
<1> HIDE DEF s
<1>4. DOMAIN s = 1..Len(s) /\ \A k \in 1..Len(s) : s[k] \in S
  BY <1>1, LenProperties
<1>5. Times(p, s) = Cardinality(A)
  BY DEF Times
<1>6. CASE p \in S
  <2>1. PICK k \in 1..Len(s) : p = s[k]
    BY <1>2, <1>6
  <2>2. A = {k}
    BY <1>3, <1>4, <2>1
  <2> HIDE DEF A
  <2> QED
    BY <1>5, <1>6, <2>2, FS_Singleton DEF s
<1>7. CASE p \notin S
  <2>1. A = {}
    BY <1>4, <1>7
  <2> HIDE DEF A
  <2> QED
    BY <1>5, <1>7, <2>1, FS_EmptySet DEF s
<1> QED
  BY <1>6, <1>7

\* Counting the indices up to k that are in I.
UpTo(k, I) == {x \in 1..k : x \in I}

LEMMA CountGrows ==
    ASSUME NEW k \in Nat \ {0}, NEW I
    PROVE  /\ Cardinality(UpTo(k - 1, I)) \in Nat
           /\ Cardinality(UpTo(k, I)) = Cardinality(UpTo(k - 1, I)) + IF k \in I THEN 1 ELSE 0
<1>1. IsFiniteSet(UpTo(k - 1, I))
  <2>1. IsFiniteSet(1..(k - 1))
    BY FS_Interval
  <2>2. UpTo(k - 1, I) \in SUBSET (1..(k - 1))
    BY DEF UpTo
  <2> QED
    BY <2>1, <2>2, FS_Subset
<1>2. k \notin UpTo(k - 1, I)
  BY DEF UpTo
<1>3. CASE k \in I
  <2>1. UpTo(k, I) = UpTo(k - 1, I) \cup {k}
    BY <1>3 DEF UpTo
  <2> QED
    BY <1>1, <1>2, <1>3, <2>1, FS_AddElement, FS_CardinalityType
<1>4. CASE k \notin I
  <2>1. \A x : x \in 1..k <=> x \in 1..(k - 1) \/ x = k
    OBVIOUS
  <2>2. UpTo(k, I) = UpTo(k - 1, I)
    BY <1>4, <2>1 DEF UpTo
  <2> QED
    BY <1>1, <1>4, <2>2, FS_CardinalityType
<1> QED
  BY <1>3, <1>4

------------------------------------------------------------------------------
(***************************************************************************)
(* Getting values and attributes                                           *)
(***************************************************************************)
\* a has what is in the first sequences of seqs, one behind the other.
JoinsAll(a, S, seqs, m) ==
    /\ a \in [0..m -> Seq(S)]
    /\ a[0] = <<>>
    /\ \A k \in 1..m : a[k] = a[k - 1] \o seqs[k]

LEMMA Flattened ==
    ASSUME NEW S, NEW m \in Nat, NEW seqs \in [1..m -> Seq(S)]
    PROVE  \E a : JoinsAll(a, S, seqs, m) /\ FlattenSeq(seqs) = a[m]
<1> DEFINE X == Seq(S)
           step == [k \in 1..m |-> [s \in X |-> s \o seqs[k]]]
           flatten == CHOOSE f : f = [k \in 1..Len(seqs) |->
                                         IF k = 1 THEN seqs[k] ELSE f[k - 1] \o seqs[k]]
           a == [k \in 0..m |-> IF k = 0 THEN <<>> ELSE flatten[k]]
<1>1. seqs \in Seq(X) /\ Len(seqs) = m
  BY LengthIs
<1>2. step \in [1..m -> [X -> X]]
  BY ConcatProperties
<1> HIDE DEF step
<1>3. PICK f : IsLoop(f, X, <<>>, m, step)
  BY <1>2, EmptySeq, Iterates
<1>4. /\ f \in [0..m -> X] /\ f[0] = <<>>
      /\ \A k \in 1..m : f[k] = f[k - 1] \o seqs[k]
  <2>1. \A k \in 1..m : f[k - 1] \in X
    BY <1>3 DEF IsLoop
  <2> QED
    BY <1>3, <2>1 DEF IsLoop, step
<1> DEFINE g == [k \in 1..m |-> f[k]]
<1>5. g = [k \in 1..m |-> IF k = 1 THEN seqs[k] ELSE g[k - 1] \o seqs[k]]
  <2>1. \A k \in 1..m : k # 1 => k - 1 \in 1..m /\ g[k - 1] = f[k - 1]
    OBVIOUS
  <2>2. 1 \in 1..m => f[1] = seqs[1]
    <3>1. \A s \in X : <<>> \o s = s
      BY ConcatEmptySeq
    <3>2. \A k \in 1..m : k = 1 => f[k] = <<>> \o seqs[k] /\ seqs[k] \in X
      <4> SUFFICES ASSUME NEW k \in 1..m, k = 1 PROVE f[k] = <<>> \o seqs[k] /\ seqs[k] \in X
        OBVIOUS
      <4>1. k - 1 = 0 /\ seqs[k] \in X
        OBVIOUS
      <4>2. f[k] = f[k - 1] \o seqs[k]
        BY <1>4
      <4>3. f[k - 1] = <<>>
        BY <1>4, <4>1
      <4> QED
        BY <4>1, <4>2, <4>3
    <3> QED
      BY <3>1, <3>2
  <2>3. \A k \in 1..m : g[k] = IF k = 1 THEN seqs[k] ELSE g[k - 1] \o seqs[k]
    <3> TAKE k \in 1..m
    <3>1. CASE k = 1
      BY <2>2, <3>1
    <3>2. CASE k # 1
      BY <1>4, <2>1, <3>2
    <3> QED
      BY <3>1, <3>2
  <2> QED
    BY <2>3
<1> HIDE DEF g
<1>6. flatten = [k \in 1..m |-> IF k = 1 THEN seqs[k] ELSE flatten[k - 1] \o seqs[k]]
  BY <1>1, <1>5
<1> HIDE DEF flatten
<1>7. /\ \A k \in 1..m : k # 1 => flatten[k] = flatten[k - 1] \o seqs[k]
      /\ 1 \in 1..m => flatten[1] = seqs[1]
  BY <1>6
<1>8. \A k \in 1..m : a[k] = a[k - 1] \o seqs[k]
  <2> TAKE k \in 1..m
  <2>1. a[k] = flatten[k]
    OBVIOUS
  <2>2. CASE k = 1
    <3>1. a[k - 1] = <<>> /\ seqs[k] \in X
      BY <2>2
    <3> QED
      BY <1>7, <2>1, <2>2, <3>1, ConcatEmptySeq
  <2>3. CASE k # 1
    <3>1. k - 1 \in 1..m
      BY <2>3
    <3>2. a[k - 1] = flatten[k - 1]
      BY <3>1
    <3> QED
      BY <1>7, <2>1, <2>3, <3>2
  <2> QED
    BY <2>2, <2>3
<1>9. a[0] = <<>>
  OBVIOUS
<1>10. \A k \in 0..m : a[k] \in X
  <2> DEFINE good == {k \in 0..m : a[k] \in X}
  <2>1. good \in SUBSET (0..m)
    OBVIOUS
  <2>2. 0 \in good
    BY <1>9, EmptySeq
  <2>3. \A k \in 1..m : k - 1 \in good => k \in good
    <3> SUFFICES ASSUME NEW k \in 1..m, k - 1 \in good PROVE k \in good
      OBVIOUS
    <3>0. a[k - 1] \in X /\ k \in 0..m
      OBVIOUS
    <3>1. seqs[k] \in X /\ a[k] = a[k - 1] \o seqs[k]
      BY <1>8
    <3>2. PICK s \in Seq(S), t \in Seq(S) : s = a[k - 1] /\ t = seqs[k]
      BY <3>0, <3>1
    <3>3. s \o t \in Seq(S)
      BY ConcatProperties
    <3> HIDE DEF a
    <3> QED
      BY <3>0, <3>1, <3>2, <3>3
  <2> HIDE DEF good
  <2>4. good = 0..m
    BY <2>1, <2>2, <2>3, EveryRound
  <2> QED
    BY <2>4 DEF good
<1>11. FlattenSeq(seqs) = a[m]
  <2>1. CASE m = 0
    <3>1. seqs = <<>>
      BY <1>1, <2>1, EmptySeq
    <3>2. FlattenSeq(seqs) = seqs
      BY <1>1, <2>1 DEF FlattenSeq
    <3> QED
      BY <1>9, <2>1, <3>1, <3>2
  <2>2. CASE m # 0
    <3>1. FlattenSeq(seqs) = flatten[Len(seqs)]
      BY <1>1, <2>2 DEF FlattenSeq, flatten
    <3> QED
      BY <1>1, <2>2, <3>1
  <2> QED
    BY <2>1, <2>2
<1>12. a \in [0..m -> X]
  BY <1>10
<1> HIDE DEF a
<1>13. JoinsAll(a, S, seqs, m)
  BY <1>8, <1>9, <1>12 DEF JoinsAll
<1> QED
  BY <1>11, <1>13

\* What a component has below a name.
PartOf(name, c) == {p \in Parameters : Below(name, p) /\ owner[p] = c}
OfComponent(c) == {p \in Parameters : owner[p] = c}

LEMMA PartInSequence ==
    ASSUME NEW name, NEW c
    PROVE  /\ SetToSeq(PartOf(name, c)) \in Seq(OfComponent(c))
           /\ Len(SetToSeq(PartOf(name, c))) = Cardinality(PartOf(name, c))
           /\ \A p : Times(p, SetToSeq(PartOf(name, c))) = IF p \in PartOf(name, c) THEN 1 ELSE 0
<1>1. PICK S : S = PartOf(name, c)
  OBVIOUS
<1>2. PICK T : T = OfComponent(c)
  OBVIOUS
<1>3. IsFiniteSet(S)
  <2>1. S \in SUBSET Parameters
    BY <1>1 DEF PartOf
  <2> QED
    BY <2>1, LookupAssumption, FS_Subset
<1>4. SetToSeq(S) \in Seq(S) /\ Len(SetToSeq(S)) = Cardinality(S)
  BY <1>3, InSequence
<1>5. S \subseteq T
  BY <1>1, <1>2 DEF PartOf, OfComponent
<1>6. SetToSeq(S) \in Seq(T)
  <2>1. PICK s \in Seq(S) : s = SetToSeq(S)
    BY <1>4
  <2>2. Len(s) \in Nat /\ s \in [1..Len(s) -> S]
    BY LenProperties
  <2>3. s \in [1..Len(s) -> T]
    BY <1>5, <2>2
  <2>4. s \in Seq(T)
    BY <2>2, <2>3, LengthIs
  <2> QED
    BY <2>1, <2>4
<1>7. \A p : Times(p, SetToSeq(S)) = IF p \in S THEN 1 ELSE 0
  BY <1>3, TimesInSet
<1> QED
  BY <1>1, <1>2, <1>4, <1>6, <1>7

\* A component answers each parameter as often as there are names above it.
LEMMA AnswerOfGroup ==
    ASSUME NEW N, NEW pn \in Seq(N), NEW c, NEW group,
           group.comp_name = c, group.parameterName = pn
    PROVE  /\ Answer(group) \in Seq(OfComponent(c))
           /\ \A p \in OfComponent(c) :
                 Times(p, Answer(group)) = Cardinality(NamesAbove(p, pn))
           /\ (\A x \in DOMAIN pn : Cardinality(PartOf(pn[x], c)) = 1)
                 => Len(Answer(group)) = Len(pn)
<1> DEFINE m == Len(pn)
<1>1. m \in Nat /\ DOMAIN pn = 1..m
  BY LenProperties
<1>2. PICK S : S = OfComponent(c)
  OBVIOUS
<1>3. PICK seqs \in [1..m -> Seq(S)] :
         seqs = [k \in 1..m |-> SetToSeq(PartOf(pn[k], c))]
  BY <1>2, PartInSequence
<1>4. Answer(group) = FlattenSeq(seqs)
  BY <1>1, <1>3 DEF Answer, PartOf
<1> HIDE DEF m
<1>5. PICK a : JoinsAll(a, S, seqs, m) /\ FlattenSeq(seqs) = a[m]
  BY <1>1, Flattened
<1>6. /\ a \in [0..m -> Seq(S)] /\ a[0] = <<>>
      /\ \A k \in 1..m : /\ a[k] = a[k - 1] \o seqs[k]
                         /\ a[k - 1] \in Seq(S) /\ seqs[k] \in Seq(S)
  <2>1. /\ a \in [0..m -> Seq(S)] /\ a[0] = <<>>
        /\ \A k \in 1..m : a[k] = a[k - 1] \o seqs[k]
    BY <1>5 DEF JoinsAll
  <2>2. \A k \in 1..m : k - 1 \in 0..m
    BY <1>1
  <2> QED
    BY <2>1, <2>2, <1>3
<1>7. m \in 0..m
  BY <1>1
<1>8. \A p \in S : Times(p, a[m]) = Cardinality(NamesAbove(p, pn))
  <2> SUFFICES ASSUME NEW p \in S PROVE Times(p, a[m]) = Cardinality(NamesAbove(p, pn))
    OBVIOUS
  <2> DEFINE I == NamesAbove(p, pn)
             good == {k \in 0..m : Times(p, a[k]) = Cardinality(UpTo(k, I))}
  <2>1. good \in SUBSET (0..m)
    OBVIOUS
  <2>2. 0 \in good
    <3>1. Times(p, <<>>) = 0
      <4>1. {k \in DOMAIN <<>> : <<>>[k] = p} = {}
        OBVIOUS
      <4> QED
        BY <4>1, FS_EmptySet DEF Times
    <3>2. Cardinality(UpTo(0, I)) = 0
      <4>1. UpTo(0, I) = {}
        BY DEF UpTo
      <4> QED
        BY <4>1, FS_EmptySet
    <3> QED
      BY <1>1, <1>6, <3>1, <3>2
  <2>3. \A k \in 1..m : k - 1 \in good => k \in good
    <3> SUFFICES ASSUME NEW k \in 1..m, k - 1 \in good PROVE k \in good
      OBVIOUS
    <3>1. Times(p, a[k - 1]) = Cardinality(UpTo(k - 1, I)) /\ k \in 0..m /\ k \in Nat \ {0}
      BY <1>1
    <3>2. Times(p, a[k]) = Times(p, a[k - 1]) + Times(p, seqs[k])
      <4>1. /\ a[k] = a[k - 1] \o seqs[k]
            /\ a[k - 1] \in Seq(S) /\ seqs[k] \in Seq(S)
        BY <1>6
      <4> QED
        BY <4>1, TimesJoined
    <3>3. Times(p, seqs[k]) = IF p \in PartOf(pn[k], c) THEN 1 ELSE 0
      BY <1>3, PartInSequence
    <3>4. p \in PartOf(pn[k], c) <=> k \in I
      BY <1>1, <1>2 DEF PartOf, OfComponent, NamesAbove
    <3> HIDE DEF I
    <3>5. Cardinality(UpTo(k, I)) = Cardinality(UpTo(k - 1, I)) + IF k \in I THEN 1 ELSE 0
      BY <3>1, CountGrows
    <3> QED
      BY <3>1, <3>2, <3>3, <3>4, <3>5
  <2> HIDE DEF good
  <2>4. good = 0..m
    BY <1>1, <2>1, <2>2, <2>3, EveryRound
  <2>5. UpTo(m, I) = I
    BY <1>1 DEF UpTo, NamesAbove
  <2> HIDE DEF I
  <2>6. Times(p, a[m]) = Cardinality(UpTo(m, I))
    BY <1>7, <2>4 DEF good
  <2> QED
    BY <2>5, <2>6 DEF I
<1>9. ASSUME \A x \in DOMAIN pn : Cardinality(PartOf(pn[x], c)) = 1
      PROVE  Len(a[m]) = m
  <2> DEFINE good == {k \in 0..m : Len(a[k]) = k}
  <2>1. good \in SUBSET (0..m)
    OBVIOUS
  <2>2. 0 \in good
    BY <1>1, <1>6
  <2>3. \A k \in 1..m : k - 1 \in good => k \in good
    <3> SUFFICES ASSUME NEW k \in 1..m, k - 1 \in good PROVE k \in good
      OBVIOUS
    <3>1. Len(a[k - 1]) = k - 1 /\ k \in 0..m
      BY <1>1
    <3>2. Len(seqs[k]) = 1
      <4>1. seqs[k] = SetToSeq(PartOf(pn[k], c))
        BY <1>3
      <4>2. Len(SetToSeq(PartOf(pn[k], c))) = Cardinality(PartOf(pn[k], c))
        BY PartInSequence
      <4>3. Cardinality(PartOf(pn[k], c)) = 1
        BY <1>1, <1>9
      <4> QED
        BY <4>1, <4>2, <4>3
    <3>3. Len(a[k]) = Len(a[k - 1]) + Len(seqs[k])
      <4>1. /\ a[k] = a[k - 1] \o seqs[k]
            /\ a[k - 1] \in Seq(S) /\ seqs[k] \in Seq(S)
        BY <1>6
      <4> QED
        BY <4>1, ConcatProperties
    <3> QED
      BY <1>1, <3>1, <3>2, <3>3
  <2> HIDE DEF good
  <2>4. good = 0..m
    BY <1>1, <2>1, <2>2, <2>3, EveryRound
  <2> QED
    BY <1>7, <2>4 DEF good
<1>10. Answer(group) = a[m]
  BY <1>4, <1>5
<1>11. a[m] \in Seq(S)
  BY <1>6, <1>7
<1> QED
  BY <1>2, <1>8, <1>9, <1>10, <1>11 DEF m

\* The groups before the one that fails.
HowMany(groups, failing) == IF failing = 0 THEN Len(groups) ELSE failing - 1

\* The array has what the first r groups have, and nothing else.
HasAnswersOf(array, groups, r) ==
    /\ array \in Seq(Parameters)
    /\ \A j \in DOMAIN array : \E k \in 1..r : owner[array[j]] = groups[k].comp_name
    /\ \A k \in 1..r : \A p \in OfComponent(groups[k].comp_name) :
          Times(p, array) = Cardinality(NamesAbove(p, groups[k].parameterName))

\* One group more.
LEMMA GroupAsked ==
    ASSUME owner \in [Parameters -> Components],
           NEW N, NEW groups \in Seq(Groups(N)), OneEach(groups),
           NEW k \in DOMAIN groups, NEW array, HasAnswersOf(array, groups, k - 1)
    PROVE  HasAnswersOf(array \o Answer(groups[k]), groups, k)
<1> DEFINE c == groups[k].comp_name
           pn == groups[k].parameterName
<1>1. DOMAIN groups = 1..Len(groups) /\ Len(groups) \in Nat
  BY LenProperties
<1>2. pn \in Seq(N)
  <2>1. groups[k] \in Groups(N)
    BY LenProperties
  <2> QED
    BY <2>1 DEF Groups
<1>3. PICK answer : answer = Answer(groups[k])
  OBVIOUS
<1>4. /\ answer \in Seq(OfComponent(c))
      /\ \A p \in OfComponent(c) : Times(p, answer) = Cardinality(NamesAbove(p, pn))
  <2>1. Answer(groups[k]) \in Seq(OfComponent(c))
    BY <1>2, AnswerOfGroup
  <2>2. \A p \in OfComponent(c) : Times(p, Answer(groups[k])) = Cardinality(NamesAbove(p, pn))
    BY <1>2, AnswerOfGroup
  <2> QED
    BY <1>3, <2>1, <2>2
<1> HIDE DEF c, pn
<1>5. /\ array \in Seq(Parameters)
      /\ \A j \in DOMAIN array : \E l \in 1..(k - 1) : owner[array[j]] = groups[l].comp_name
      /\ \A l \in 1..(k - 1) : \A p \in OfComponent(groups[l].comp_name) :
            Times(p, array) = Cardinality(NamesAbove(p, groups[l].parameterName))
  BY DEF HasAnswersOf
<1>6. PICK S, T : S = OfComponent(c) /\ T = Parameters
  OBVIOUS
<1>7. /\ answer \in Seq(T) /\ array \in Seq(T)
      /\ DOMAIN answer = 1..Len(answer) /\ Len(answer) \in Nat
      /\ \A x \in 1..Len(answer) : answer[x] \in S
  <2>1. S \subseteq T
    BY <1>6 DEF OfComponent
  <2>2. /\ DOMAIN answer = 1..Len(answer) /\ Len(answer) \in Nat
        /\ answer \in [1..Len(answer) -> S]
    BY <1>4, <1>6, LenProperties
  <2>3. answer \in [1..Len(answer) -> T]
    BY <2>1, <2>2
  <2>4. answer \in Seq(T)
    BY <2>2, <2>3, LengthIs
  <2> QED
    BY <1>5, <1>6, <2>2, <2>4
<1> DEFINE all == array \o answer
<1>8. /\ all \in Seq(T)
      /\ DOMAIN all = 1..(Len(array) + Len(answer))
      /\ \A x \in 1..(Len(array) + Len(answer)) :
            all[x] = IF x <= Len(array) THEN array[x] ELSE answer[x - Len(array)]
  <2>1. all \in Seq(T) /\ Len(all) = Len(array) + Len(answer)
    BY <1>7, ConcatProperties
  <2>2. \A x \in 1..(Len(array) + Len(answer)) :
            all[x] = IF x <= Len(array) THEN array[x] ELSE answer[x - Len(array)]
    BY <1>7, ConcatProperties
  <2> HIDE DEF all
  <2> QED
    BY <2>1, <2>2, LenProperties
<1>9. \A p : Times(p, all) = Times(p, array) + Times(p, answer)
  BY <1>7, TimesJoined
<1>10. \A p : Times(p, array) \in Nat /\ Times(p, answer) \in Nat
  BY <1>7, TimesFinite
<1> HIDE DEF all
<1>11. \A j \in DOMAIN all : \E l \in 1..k : owner[all[j]] = groups[l].comp_name
  <2> SUFFICES ASSUME NEW j \in DOMAIN all
               PROVE  \E l \in 1..k : owner[all[j]] = groups[l].comp_name
    OBVIOUS
  <2>1. DOMAIN array = 1..Len(array) /\ Len(array) \in Nat
    BY <1>7, LenProperties
  <2>2. CASE j <= Len(array)
    <3>1. j \in DOMAIN array /\ all[j] = array[j]
      BY <1>8, <2>1, <2>2
    <3>2. PICK l \in 1..(k - 1) : owner[array[j]] = groups[l].comp_name
      BY <1>5, <3>1
    <3>3. l \in 1..k
      BY <1>1
    <3> QED
      BY <3>1, <3>2, <3>3
  <2>3. CASE ~(j <= Len(array))
    <3>1. j - Len(array) \in 1..Len(answer) /\ all[j] = answer[j - Len(array)]
      BY <1>7, <1>8, <2>1, <2>3
    <3>2. owner[all[j]] = c
      BY <1>6, <1>7, <3>1 DEF OfComponent
    <3>3. k \in 1..k
      BY <1>1
    <3> QED
      BY <3>2, <3>3 DEF c
  <2> QED
    BY <1>8, <2>1, <2>2, <2>3
<1>12. \A l \in 1..k : \A p \in OfComponent(groups[l].comp_name) :
          Times(p, all) = Cardinality(NamesAbove(p, groups[l].parameterName))
  <2> SUFFICES ASSUME NEW l \in 1..k, NEW p \in OfComponent(groups[l].comp_name)
               PROVE  Times(p, all) = Cardinality(NamesAbove(p, groups[l].parameterName))
    OBVIOUS
  <2>1. l \in 1..(k - 1) \/ l = k
    BY <1>1
  <2>2. CASE l = k
    <3>1. \A j \in DOMAIN array : array[j] # p
      <4>1. \A m \in 1..(k - 1) : groups[m].comp_name # c
        BY <1>1 DEF OneEach, c
      <4> QED
        BY <1>5, <2>2, <4>1 DEF OfComponent, c
    <3>2. Times(p, array) = 0
      <4>1. {x \in DOMAIN array : array[x] = p} = {}
        BY <3>1
      <4> QED
        BY <4>1, FS_EmptySet DEF Times
    <3> QED
      BY <1>4, <1>9, <1>10, <2>2, <3>2 DEF c, pn
  <2>3. CASE l \in 1..(k - 1)
    <3>1. l # k /\ l \in 1..Len(groups)
      BY <1>1, <2>3
    <3>2. owner[p] = groups[l].comp_name /\ groups[l].comp_name # c
      BY <1>1, <3>1 DEF OfComponent, OneEach, c
    <3>3. Times(p, answer) = 0
      <4>1. {x \in DOMAIN answer : answer[x] = p} = {}
        BY <1>6, <1>7, <3>2 DEF OfComponent
      <4> QED
        BY <4>1, FS_EmptySet DEF Times
    <3> QED
      BY <1>5, <1>9, <1>10, <2>3, <3>3
  <2> QED
    BY <2>1, <2>2, <2>3
<1> QED
  BY <1>3, <1>6, <1>8, <1>11, <1>12 DEF HasAnswersOf, all

\* The groups of a request are asked one after the other, up to the one that fails.
LEMMA GroupsAsked ==
    ASSUME owner \in [Parameters -> Components],
           NEW N, NEW groups \in Seq(Groups(N)), OneEach(groups), NEW kind,
           \A k \in DOMAIN groups :
               IndicesTaken(kind, groups[k], Answer(groups[k])) = Len(Answer(groups[k])),
           NEW failing \in 0..Len(groups)
    PROVE  /\ HasAnswersOf(AskGroups(kind, groups, failing).array, groups,
                           HowMany(groups, failing))
           /\ AskGroups(kind, groups, failing).startIndex
                 = Len(AskGroups(kind, groups, failing).array)
<1> DEFINE reached == Reached(groups, failing)
           r == HowMany(groups, failing)
           base == [array |-> <<>>, startIndex |-> 0]
           X == {res \in [array : Seq(Parameters), startIndex : Nat] :
                    res.startIndex = Len(res.array)}
           after == CHOOSE a : a = [k \in 0..Len(reached) |->
                        IF k = 0 THEN base ELSE AskGroup(kind, a[k - 1], reached[k])]
<1>1. DOMAIN groups = 1..Len(groups) /\ Len(groups) \in Nat
  BY LenProperties
<1>2. /\ r \in Nat /\ Len(reached) = r
      /\ \A k \in 1..r : k \in DOMAIN groups /\ reached[k] = groups[k]
  <2>1. CASE failing = 0
    BY <1>1, <2>1 DEF Reached, HowMany
  <2>2. CASE failing # 0
    <3>1. failing - 1 \in Nat /\ \A k \in 1..(failing - 1) : k \in 1..Len(groups) /\ 1 + k - 1 = k
      BY <1>1, <2>2
    <3>2. reached = SubSeq(groups, 1, failing - 1) /\ r = failing - 1
      BY <2>2 DEF Reached, HowMany
    <3>3. \A k \in 1..(failing - 1) : groups[k] \in Groups(N)
      BY <3>1, LenProperties
    <3>4. Len(SubSeq(groups, 1, failing - 1)) = failing - 1
      BY <3>1, <3>3, SubSeqProperties
    <3>5. \A k \in 1..(failing - 1) : SubSeq(groups, 1, failing - 1)[k] = groups[k]
      BY <3>1, <3>3, SubSeqProperties
    <3> QED
      BY <1>1, <3>1, <3>2, <3>4, <3>5
  <2> QED
    BY <2>1, <2>2
<1>3. AskGroups(kind, groups, failing) = after[r]
  BY <1>2 DEF AskGroups
<1> HIDE DEF r, reached
<1>4. base \in X
  BY EmptySeq
<1>5. \A k \in 1..r, res \in X :
         /\ AskGroup(kind, res, reached[k]).array = res.array \o Answer(groups[k])
         /\ AskGroup(kind, res, reached[k]) \in X
  <2> SUFFICES ASSUME NEW k \in 1..r, NEW res \in X
               PROVE  /\ AskGroup(kind, res, reached[k]).array = res.array \o Answer(groups[k])
                      /\ AskGroup(kind, res, reached[k]) \in X
    OBVIOUS
  <2>1. PICK array \in Seq(Parameters) : array = res.array
    OBVIOUS
  <2>2. PICK answer : answer = Answer(groups[k])
    OBVIOUS
  <2>3. Answer(groups[k]) \in Seq(OfComponent(groups[k].comp_name))
    <3>1. groups[k] \in Groups(N)
      BY <1>2, LenProperties
    <3>2. groups[k].parameterName \in Seq(N)
      BY <3>1 DEF Groups
    <3> QED
      BY <3>2, AnswerOfGroup
  <2>4. answer \in Seq(Parameters)
    <3>1. PICK S \in SUBSET Parameters : S = OfComponent(groups[k].comp_name)
      BY DEF OfComponent
    <3>2. Len(answer) \in Nat /\ answer \in [1..Len(answer) -> S]
      BY <2>2, <2>3, <3>1, LenProperties
    <3>3. answer \in [1..Len(answer) -> Parameters]
      BY <3>2
    <3> QED
      BY <3>2, <3>3, LengthIs
  <2>5. /\ array \o answer \in Seq(Parameters)
        /\ Len(array \o answer) = Len(array) + Len(answer)
    BY <2>4, ConcatProperties
  <2>6. SubSeq(array, 1, Len(array)) = array
    BY SubSeqFull
  <2>7. AskGroup(kind, res, reached[k])
           = [array |-> array \o answer, startIndex |-> Len(array) + Len(answer)]
    <3>1. IndicesTaken(kind, groups[k], answer) = Len(answer)
      BY <1>2, <2>2
    <3> QED
      BY <1>2, <2>1, <2>2, <2>6, <3>1 DEF AskGroup, Stored
  <2>8. Len(array) \in Nat /\ Len(answer) \in Nat
    BY <2>4, LenProperties
  <2> QED
    BY <2>1, <2>2, <2>5, <2>7, <2>8
<1> HIDE DEF X, base
<1>6. PICK step \in [1..r -> [X -> X]] :
         \A k \in 1..r, res \in X : step[k][res] = AskGroup(kind, res, reached[k])
  <2>1. [k \in 1..r |-> [res \in X |-> AskGroup(kind, res, reached[k])]] \in [1..r -> [X -> X]]
    BY <1>5
  <2> QED
    BY <2>1
<1>7. PICK rr \in Nat : rr = r
  BY <1>2
<1>8. PICK f : IsLoop(f, X, base, rr, step)
  BY <1>4, <1>7, Iterates
<1>9. f = [k \in 0..r |-> IF k = 0 THEN base ELSE AskGroup(kind, f[k - 1], reached[k])]
  BY <1>6, <1>7, <1>8 DEF IsLoop
<1>10. after = [k \in 0..r |-> IF k = 0 THEN base ELSE AskGroup(kind, after[k - 1], reached[k])]
  BY <1>2, <1>9
<1> HIDE DEF after
<1>11. after[0] = base /\ \A k \in 1..r : after[k] = AskGroup(kind, after[k - 1], reached[k])
  BY <1>2, <1>10
<1> DEFINE Done(k) == after[k] \in X /\ HasAnswersOf(after[k].array, groups, k)
           good == {k \in 0..r : Done(k)}
<1>12. 0 \in good
  <2>1. base.array = <<>>
    BY DEF base
  <2>2. HasAnswersOf(<<>>, groups, 0)
    BY EmptySeq DEF HasAnswersOf
  <2> QED
    BY <1>2, <1>4, <1>11, <2>1, <2>2
<1>13. \A k \in 1..r : k - 1 \in good => k \in good
  <2> SUFFICES ASSUME NEW k \in 1..r, k - 1 \in good PROVE k \in good
    OBVIOUS
  <2>1. after[k - 1] \in X /\ HasAnswersOf(after[k - 1].array, groups, k - 1)
    OBVIOUS
  <2>2. /\ after[k] \in X
        /\ after[k].array = after[k - 1].array \o Answer(groups[k])
    BY <1>5, <1>11, <2>1
  <2>3. HasAnswersOf(after[k].array, groups, k)
    <3>1. PICK array : array = after[k - 1].array
      OBVIOUS
    <3>2. k \in DOMAIN groups
      BY <1>2
    <3>3. HasAnswersOf(array \o Answer(groups[k]), groups, k)
      BY <2>1, <3>1, <3>2, GroupAsked
    <3> QED
      BY <2>2, <3>1, <3>3
  <2>4. k \in 0..r
    BY <1>2
  <2> QED
    BY <2>2, <2>3, <2>4
<1>14. Done(r)
  <2>1. r \in 0..rr /\ good \in SUBSET (0..rr)
    BY <1>7
  <2>2. PICK gd \in SUBSET (0..rr) : gd = good
    BY <2>1
  <2> HIDE DEF good
  <2>3. gd = 0..rr
    BY <1>7, <1>12, <1>13, <2>2, EveryRound
  <2> QED
    BY <2>1, <2>2, <2>3 DEF good
<1> QED
  BY <1>3, <1>14 DEF X, r

\* The names above a parameter are all in the group of its component.
LEMMA NamesAboveInGroup ==
    ASSUME CacheInv, OneOwner, NEW n \in Nat, NEW names \in [1..n -> Names],
           NEW p \in Parameters, NEW k \in DOMAIN ParamGroup(names),
           ParamGroup(names)[k].comp_name = owner[p]
    PROVE  Cardinality(NamesAbove(p, ParamGroup(names)[k].parameterName))
              = Cardinality(NamesAbove(p, names))
<1> DEFINE pn == ParamGroup(names)[k].parameterName
           A == NamesAbove(p, pn)
           B == NamesAbove(p, names)
<1>1. PICK N : N = Names
  OBVIOUS
<1>2. names \in [1..n -> N]
  BY <1>1
<1>3. HasItsNames(ParamGroup(names)[k], names)
  BY <1>2, GroupHasItsNames
<1>4. PICK f \in [DOMAIN pn -> DOMAIN names] :
         /\ \A x, y \in DOMAIN pn : x < y => f[x] < f[y]
         /\ \A x \in DOMAIN pn : pn[x] = names[f[x]]
         /\ Range(f) = {j \in DOMAIN names : owner[p] \in getComponentDetails(names[j])}
  BY <1>3 DEF HasItsNames
<1>5. DOMAIN pn \subseteq Nat
  <2>1. ParamGroup(names) \in Seq(Groups(N))
    BY <1>2, GroupsOf
  <2>2. ParamGroup(names)[k] \in Groups(N)
    BY <2>1, LenProperties
  <2>3. pn \in Seq(N)
    BY <2>2 DEF Groups
  <2> HIDE DEF pn
  <2> QED
    BY <2>3, LenProperties
<1>6. \A j \in DOMAIN names : Below(names[j], p) => owner[p] \in getComponentDetails(names[j])
  <2> SUFFICES ASSUME NEW j \in DOMAIN names, Below(names[j], p)
               PROVE  owner[p] \in getComponentDetails(names[j])
    OBVIOUS
  <2>1. PICK name \in Names : name = names[j]
    OBVIOUS
  <2>2. getComponentDetails(name) = Owners(name)
    BY LookupCorrect
  <2>3. owner[p] \in Owners(name)
    BY <2>1 DEF Owners
  <2> QED
    BY <2>1, <2>2, <2>3
<1> HIDE DEF pn
<1>7. \A x, y \in DOMAIN pn : f[x] = f[y] => x = y
  <2> SUFFICES ASSUME NEW x \in DOMAIN pn, NEW y \in DOMAIN pn, f[x] = f[y] PROVE x = y
    OBVIOUS
  <2>1. f[x] \in 1..n /\ f[y] \in 1..n
    BY <1>4
  <2>2. ~(x < y) /\ ~(y < x)
    BY <1>4, <2>1
  <2> QED
    BY <1>5, <2>2
<1> DEFINE g == [x \in A |-> f[x]]
<1>8. \A x \in A : x \in DOMAIN pn /\ f[x] \in B
  BY <1>4 DEF NamesAbove
<1>9. \A j \in B : \E x \in A : f[x] = j
  <2> SUFFICES ASSUME NEW j \in B PROVE \E x \in A : f[x] = j
    OBVIOUS
  <2>1. j \in Range(f)
    BY <1>4, <1>6 DEF NamesAbove
  <2>2. PICK x \in DOMAIN pn : f[x] = j
    BY <2>1 DEF Range
  <2>3. x \in A
    BY <1>4, <2>2 DEF NamesAbove
  <2> QED
    BY <2>2, <2>3
<1>10. IsFiniteSet(B)
  <2>1. IsFiniteSet(1..n) /\ B \in SUBSET (1..n)
    BY FS_Interval DEF NamesAbove
  <2> HIDE DEF B
  <2> QED
    BY <2>1, FS_Subset
<1> HIDE DEF A, B
<1>11. g \in Bijection(A, B)
  <2>1. g \in [A -> B]
    BY <1>8
  <2>2. \A x, y \in A : g[x] = g[y] => x = y
    BY <1>7, <1>8
  <2>3. \A j \in B : \E x \in A : g[x] = j
    BY <1>9
  <2> HIDE DEF g
  <2> QED
    BY <2>1, <2>2, <2>3 DEF Bijection, Injection, Surjection, IsInjective
<1>12. Cardinality(A) = Cardinality(B)
  <2>1. IsFiniteSet(A) /\ Cardinality(A) = Cardinality(B)
    BY <1>10, <1>11, FS_Injection DEF Bijection
  <2> QED
    BY <2>1
<1> QED
  BY <1>12 DEF A, B, pn

\* A request for any number of names whose indices are those of the answers: every
\* parameter is there as often as it was asked for.
LEMMA EveryAnswerThere ==
    ASSUME CacheInv, OneOwner, NEW n \in Nat, NEW names \in [1..n -> Names], NEW kind,
           \A k \in DOMAIN ParamGroup(names) :
               IndicesTaken(kind, ParamGroup(names)[k], Answer(ParamGroup(names)[k]))
                  = Len(Answer(ParamGroup(names)[k])),
           NEW p \in Parameters
    PROVE  Times(p, AskGroups(kind, ParamGroup(names), 0).array)
              = Cardinality(NamesAbove(p, names))
<1>1. PICK N : N = Names
  OBVIOUS
<1>2. PICK groups : groups = ParamGroup(names)
  OBVIOUS
<1>3. names \in [1..n -> N]
  BY <1>1
<1>4. groups \in Seq(Groups(N)) /\ OneEach(groups)
  BY <1>2, <1>3, GroupsOf
<1>5. DOMAIN groups = 1..Len(groups) /\ Len(groups) \in Nat
  BY <1>4, LenProperties
<1>6. PICK array : array = AskGroups(kind, groups, 0).array
  OBVIOUS
<1>7. HasAnswersOf(array, groups, Len(groups))
  <2>1. 0 \in 0..Len(groups) /\ HowMany(groups, 0) = Len(groups)
    BY <1>5 DEF HowMany
  <2>2. HasAnswersOf(AskGroups(kind, groups, 0).array, groups, HowMany(groups, 0))
    BY <1>2, <1>4, <2>1, GroupsAsked DEF CacheInv
  <2> QED
    BY <1>6, <2>1, <2>2
<1>8. CASE \E k \in DOMAIN groups : groups[k].comp_name = owner[p]
  <2>1. PICK k \in DOMAIN groups : groups[k].comp_name = owner[p]
    BY <1>8
  <2>2. Times(p, array) = Cardinality(NamesAbove(p, groups[k].parameterName))
    BY <1>5, <1>7, <2>1 DEF HasAnswersOf, OfComponent
  <2>3. Cardinality(NamesAbove(p, groups[k].parameterName)) = Cardinality(NamesAbove(p, names))
    BY <1>2, <2>1, NamesAboveInGroup
  <2> QED
    BY <1>2, <1>6, <2>2, <2>3
<1>9. CASE \A k \in DOMAIN groups : groups[k].comp_name # owner[p]
  <2>1. Times(p, array) = 0
    <3>1. {x \in DOMAIN array : array[x] = p} = {}
      BY <1>5, <1>7, <1>9 DEF HasAnswersOf
    <3> QED
      BY <3>1, FS_EmptySet DEF Times
  <2>2. LeadingTo(owner[p], names) = {}
    <3>1. ~HasGroup(groups, owner[p])
      BY <1>9 DEF HasGroup
    <3>2. \A d : HasGroup(ParamGroup(names), d) <=> LeadingTo(d, names) # {}
      BY <1>3, GroupsOf
    <3> QED
      BY <1>2, <3>1, <3>2
  <2>3. NamesAbove(p, names) = {}
    <3> SUFFICES ASSUME NEW j \in DOMAIN names, Below(names[j], p) PROVE FALSE
      BY DEF NamesAbove
    <3>1. PICK name \in Names : name = names[j]
      OBVIOUS
    <3>2. getComponentDetails(name) = Owners(name)
      BY LookupCorrect
    <3>3. owner[p] \in Owners(name)
      BY <3>1 DEF Owners
    <3> QED
      BY <2>2, <3>1, <3>2, <3>3 DEF LeadingTo
  <2>4. Cardinality(NamesAbove(p, names)) = 0
    BY <2>3, FS_EmptySet
  <2> QED
    BY <1>2, <1>6, <2>1, <2>4
<1> QED
  BY <1>8, <1>9

\* What a GET of any number of values returns, and what of it there is when a group
\* fails.
LEMMA ValuesReturned ==
    ASSUME CacheInv, NEW N, NEW groups \in Seq(Groups(N)), OneEach(groups),
           NEW failing \in 0..Len(groups), NEW result,
           result = AskGroups("values", groups, failing)
    PROVE  /\ Len(result.array) = result.startIndex
           /\ failing # 0 =>
                 \A k \in DOMAIN result.array :
                     owner[result.array[k]] # groups[failing].comp_name
<1>1. \A k \in DOMAIN groups :
         IndicesTaken("values", groups[k], Answer(groups[k])) = Len(Answer(groups[k]))
  BY DEF IndicesTaken
<1>2. owner \in [Parameters -> Components]
  BY DEF CacheInv
<1>3. PICK kind : kind = "values"
  OBVIOUS
<1>4. HasAnswersOf(result.array, groups, HowMany(groups, failing))
  <2>1. HasAnswersOf(AskGroups(kind, groups, failing).array, groups, HowMany(groups, failing))
    BY <1>1, <1>2, <1>3, GroupsAsked
  <2> QED
    BY <1>3, <2>1
<1>5. result.startIndex = Len(result.array)
  <2>1. AskGroups(kind, groups, failing).startIndex = Len(AskGroups(kind, groups, failing).array)
    BY <1>1, <1>2, <1>3, GroupsAsked
  <2> QED
    BY <1>3, <2>1
<1>6. ASSUME failing # 0, NEW j \in DOMAIN result.array
      PROVE  owner[result.array[j]] # groups[failing].comp_name
  <2>1. DOMAIN groups = 1..Len(groups) /\ Len(groups) \in Nat
    BY LenProperties
  <2>2. PICK k \in 1..(failing - 1) : owner[result.array[j]] = groups[k].comp_name
    BY <1>4, <1>6 DEF HasAnswersOf, HowMany
  <2>3. k \in DOMAIN groups /\ failing \in DOMAIN groups /\ k # failing
    BY <1>6, <2>1
  <2> QED
    BY <2>2, <2>3 DEF OneEach
<1> QED
  BY <1>5, <1>6

\* A GET of values returns all of them, once for each name above them.
THEOREM GetCompletes == Spec => []GetReturnsAll
<1>1. CacheInv => GetReturnsAll
  <2> SUFFICES ASSUME CacheInv, OneOwner, NEW names \in [1..2 -> Names]
               PROVE  LET groups == ParamGroup(names)
                          values == getValues(names, 0).array
                      IN  /\ \A p \in Parameters :
                                Times(p, values) = Cardinality(NamesAbove(p, names))
                          /\ \A failing \in 0..Len(groups) :
                                LET result == getValues(names, failing)
                                IN  /\ Len(result.array) = result.startIndex
                                    /\ failing # 0 =>
                                          \A k \in DOMAIN result.array :
                                              owner[result.array[k]] # groups[failing].comp_name
    BY DEF GetReturnsAll
  <2>1. PICK n \in Nat : n = 2
    OBVIOUS
  <2>2. PICK N : N = Names
    OBVIOUS
  <2>3. names \in [1..n -> Names] /\ names \in [1..n -> N]
    BY <2>1, <2>2
  <2>4. PICK groups : groups = ParamGroup(names)
    OBVIOUS
  <2>5. groups \in Seq(Groups(N)) /\ OneEach(groups)
    BY <2>3, <2>4, GroupsOf
  <2>6. PICK kind : kind = "values"
    OBVIOUS
  <2>7. \A p \in Parameters :
           Times(p, getValues(names, 0).array) = Cardinality(NamesAbove(p, names))
    <3>1. \A k \in DOMAIN ParamGroup(names) :
             IndicesTaken(kind, ParamGroup(names)[k], Answer(ParamGroup(names)[k]))
                = Len(Answer(ParamGroup(names)[k]))
      BY <2>6 DEF IndicesTaken
    <3>2. \A p \in Parameters :
             Times(p, AskGroups(kind, ParamGroup(names), 0).array)
                = Cardinality(NamesAbove(p, names))
      BY <2>3, <3>1, EveryAnswerThere
    <3> QED
      BY <2>6, <3>2 DEF getValues
  <2>8. \A failing \in 0..Len(groups) :
           /\ Len(getValues(names, failing).array) = getValues(names, failing).startIndex
           /\ failing # 0 =>
                 \A k \in DOMAIN getValues(names, failing).array :
                     owner[getValues(names, failing).array[k]] # groups[failing].comp_name
    <3> TAKE failing \in 0..Len(groups)
    <3>1. PICK result : result = AskGroups("values", groups, failing)
      OBVIOUS
    <3>2. /\ Len(result.array) = result.startIndex
          /\ failing # 0 =>
                \A k \in DOMAIN result.array :
                    owner[result.array[k]] # groups[failing].comp_name
      BY <2>5, <3>1, ValuesReturned
    <3> QED
      BY <2>4, <3>1, <3>2 DEF getValues
  <2> QED
    BY <2>4, <2>7, <2>8
<1> QED
  BY <1>1, CachesCorrect, PTL

\* Of two parameters, a group has those of its component.
LEMMA OnlyOwn ==
    ASSUME CacheInv, OneOwner, NEW n \in Nat, NEW names \in [1..n -> Parameters],
           NEW k \in DOMAIN ParamGroup(names)
    PROVE  IndicesTaken("attributes", ParamGroup(names)[k], Answer(ParamGroup(names)[k]))
              = Len(Answer(ParamGroup(names)[k]))
<1>1. PICK N : N = Parameters
  OBVIOUS
<1>2. PICK groups : groups = ParamGroup(names)
  OBVIOUS
<1>3. names \in [1..n -> N]
  BY <1>1
<1>4. groups \in Seq(Groups(N))
  BY <1>2, <1>3, GroupsOf
<1>5. PICK group : group = groups[k]
  OBVIOUS
<1>6. group \in Groups(N)
  BY <1>2, <1>4, <1>5, LenProperties
<1>7. PICK c, pn : c = group.comp_name /\ pn = group.parameterName
  OBVIOUS
<1>8. pn \in Seq(N) /\ c \in Components
  BY <1>6, <1>7 DEF Groups
<1>9. HasItsNames(group, names)
  BY <1>2, <1>3, <1>5, GroupHasItsNames
<1>10. \A x \in DOMAIN pn : Cardinality(PartOf(pn[x], c)) = 1
  <2> SUFFICES ASSUME NEW x \in DOMAIN pn PROVE Cardinality(PartOf(pn[x], c)) = 1
    OBVIOUS
  <2>1. PICK f \in [DOMAIN pn -> DOMAIN names] :
           /\ \A y \in DOMAIN pn : pn[y] = names[f[y]]
           /\ Range(f) = {j \in DOMAIN names : c \in getComponentDetails(names[j])}
    BY <1>7, <1>9 DEF HasItsNames
  <2>2. PICK p \in Parameters : p = names[f[x]]
    OBVIOUS
  <2>3. c \in getComponentDetails(p)
    <3>1. f[x] \in Range(f)
      BY DEF Range
    <3> QED
      BY <2>1, <2>2, <3>1
  <2>4. getComponentDetails(p) = {owner[p]}
    BY ParameterOwner
  <2>5. PartOf(p, c) = {p}
    <3>1. p.leaf # ""
      BY LookupAssumption
    <3> QED
      BY <2>3, <2>4, <3>1 DEF PartOf, Below
  <2> QED
    BY <2>1, <2>2, <2>5, FS_Singleton
<1>11. Len(Answer(group)) = Len(pn)
  BY <1>7, <1>8, <1>10, AnswerOfGroup
<1> QED
  BY <1>2, <1>5, <1>7, <1>11 DEF IndicesTaken

\* An array that has two things once each, and nothing else, has length 2.
LEMMA TwoOnce ==
    ASSUME NEW S, NEW array \in Seq(S), NEW p \in S, NEW q \in S, p # q,
           Times(p, array) = 1, Times(q, array) = 1,
           \A k \in DOMAIN array : array[k] \in {p, q}
    PROVE  Len(array) = 2 /\ {array[1], array[2]} = {p, q}
<1> DEFINE A(x) == {k \in DOMAIN array : array[k] = x}
<1>1. DOMAIN array = 1..Len(array) /\ Len(array) \in Nat
  BY LenProperties
<1>2. \A x \in {p, q} : \E k : A(x) = {k}
  <2> TAKE x \in {p, q}
  <2>1. Cardinality(A(x)) = 1
    BY DEF Times
  <2>2. IsFiniteSet(A(x))
    BY TimesFinite
  <2> HIDE DEF A
  <2>3. A(x) # {}
    BY <2>1, FS_EmptySet, 0 # 1
  <2>4. PICK k \in A(x) : TRUE
    BY <2>3
  <2>5. Cardinality(A(x) \ {k}) = 0 /\ IsFiniteSet(A(x) \ {k})
    BY <2>1, <2>2, <2>4, FS_RemoveElement
  <2>6. A(x) \ {k} = {}
    BY <2>5, FS_EmptySet
  <2> QED
    BY <2>4, <2>6
<1>3. PICK k : A(p) = {k}
  BY <1>2
<1>4. PICK l : A(q) = {l}
  BY <1>2
<1>5. DOMAIN array = {k, l}
  <2>1. \A x \in DOMAIN array : x \in A(p) \/ x \in A(q)
    OBVIOUS
  <2>2. A(p) \subseteq DOMAIN array /\ A(q) \subseteq DOMAIN array
    OBVIOUS
  <2> HIDE DEF A
  <2> QED
    BY <1>3, <1>4, <2>1, <2>2
<1>6. k \in A(p) /\ l \in A(q)
  BY <1>3, <1>4
<1>7. array[k] = p /\ array[l] = q /\ k # l
  BY <1>6
<1> HIDE DEF A
<1>8. k \in 1..Len(array) /\ l \in 1..Len(array) /\ \A x \in 1..Len(array) : x = k \/ x = l
  BY <1>1, <1>5
<1>9. Len(array) = 2 /\ ((k = 1 /\ l = 2) \/ (k = 2 /\ l = 1))
  <2>1. 1 \in 1..Len(array)
    BY <1>1, <1>8
  <2>2. k # l
    BY <1>7
  <2>3. Len(array) >= 2
    BY <1>1, <1>8, <2>2
  <2>4. 2 \in 1..Len(array)
    BY <1>1, <2>3
  <2>5. ((k = 1 /\ l = 2) \/ (k = 2 /\ l = 1))
    BY <1>8, <2>1, <2>4
  <2>6. Len(array) \in {1, 2}
    BY <1>1, <1>8, <2>3, <2>5
  <2> QED
    BY <2>3, <2>5, <2>6
<1> QED
  BY <1>7, <1>9

\* A GET of the attributes of two parameters returns both, once each.
THEOREM GetAttributesReturned == Spec => []GetReturnsAttributes
<1>1. CacheInv => GetReturnsAttributes
  <2> SUFFICES ASSUME CacheInv, OneOwner, NEW p \in Parameters, NEW q \in Parameters, p # q
               PROVE  LET array == getAttributes(<<p, q>>, 0).array
                      IN  Len(array) = 2 /\ {array[1], array[2]} = {p, q}
    BY DEF GetReturnsAttributes
  <2>1. PICK n \in Nat : n = 2
    OBVIOUS
  <2>2. PICK names \in [1..n -> Parameters] : names = <<p, q>>
    <3>1. <<p, q>> \in [1..2 -> Parameters]
      OBVIOUS
    <3> QED
      BY <2>1, <3>1
  <2>3. \A x, y \in Parameters : Below(x, y) <=> x = y
    <3>1. \A x \in Parameters : x.leaf # ""
      BY LookupAssumption
    <3> QED
      BY <3>1 DEF Below
  <2>4. names \in [1..n -> Names]
    <3>1. Parameters \subseteq Names
      BY <2>3 DEF Names
    <3> QED
      BY <3>1
  <2>5. PICK groups : groups = ParamGroup(names)
    OBVIOUS
  <2>6. PICK kind : kind = "attributes"
    OBVIOUS
  <2>7. \A k \in DOMAIN groups :
           IndicesTaken(kind, groups[k], Answer(groups[k])) = Len(Answer(groups[k]))
    BY <2>5, <2>6, OnlyOwn
  <2>8. PICK array : array = AskGroups(kind, groups, 0).array
    OBVIOUS
  <2>9. \A r \in Parameters : Times(r, array) = Cardinality(NamesAbove(r, names))
    BY <2>4, <2>5, <2>7, <2>8, EveryAnswerThere
  <2>10. Times(p, array) = 1 /\ Times(q, array) = 1
    <3>1. DOMAIN names = {1, 2} /\ names[1] = p /\ names[2] = q
      BY <2>1, <2>2
    <3>2. NamesAbove(p, names) = {1}
      BY <2>3, <3>1 DEF NamesAbove
    <3>3. NamesAbove(q, names) = {2}
      BY <2>3, <3>1 DEF NamesAbove
    <3>4. Cardinality({1}) = 1 /\ Cardinality({2}) = 1
      BY FS_Singleton
    <3> QED
      BY <2>9, <3>2, <3>3, <3>4
  <2>11. array \in Seq(Parameters)
    <3>1. PICK N : N = Parameters
      OBVIOUS
    <3>2. names \in [1..n -> N]
      BY <3>1
    <3>3. groups \in Seq(Groups(N)) /\ OneEach(groups)
      BY <2>5, <3>2, GroupsOf
    <3>4. 0 \in 0..Len(groups)
      BY <3>3, LenProperties
    <3>5. HasAnswersOf(array, groups, HowMany(groups, 0))
      BY <2>7, <2>8, <3>3, <3>4, GroupsAsked DEF CacheInv
    <3> QED
      BY <3>5 DEF HasAnswersOf
  <2>12. \A k \in DOMAIN array : array[k] \in {p, q}
    <3> SUFFICES ASSUME NEW k \in DOMAIN array, array[k] \notin {p, q} PROVE FALSE
      OBVIOUS
    <3>1. PICK r \in Parameters : r = array[k]
      BY <2>11, LenProperties
    <3>2. NamesAbove(r, names) = {}
      BY <2>1, <2>2, <2>3, <3>1 DEF NamesAbove
    <3>3. Times(r, array) = 0
      BY <2>9, <3>2, FS_EmptySet
    <3> DEFINE A == {x \in DOMAIN array : array[x] = r}
    <3>4. IsFiniteSet(A)
      BY <2>11, TimesFinite
    <3>5. Cardinality(A) = 0
      BY <3>3 DEF Times
    <3>6. k \in A
      BY <3>1
    <3> HIDE DEF A
    <3> QED
      BY <3>4, <3>5, <3>6, FS_EmptySet
  <2>13. Len(array) = 2 /\ {array[1], array[2]} = {p, q}
    <3>1. PICK P : P = Parameters
      OBVIOUS
    <3>2. array \in Seq(P) /\ p \in P /\ q \in P /\ p # q
      BY <2>11, <3>1
    <3> QED
      BY <2>10, <2>12, <3>2, TwoOnce
  <2> QED
    BY <2>2, <2>5, <2>6, <2>8, <2>13 DEF getAttributes
<1> QED
  BY <1>1, CachesCorrect, PTL

------------------------------------------------------------------------------
(***************************************************************************)
(* The table                                                               *)
(***************************************************************************)
ServerNumber(j) == IndexMap[j].WebPaInstanceNumber
DeviceNumber(j) == IndexMap[j].CcspInstanceNumber

\* The numbers of the two sides, as arithmetic.
LEMMA Numbers ==
  ASSUME NEW j \in 1..18
  PROVE  /\ IndexMap[j]["WebPaInstanceNumber"] = ServerNumber(j)
         /\ IndexMap[j]["CcspInstanceNumber"] = DeviceNumber(j)
         /\ j = 1 => ServerNumber(j) = 10000 /\ DeviceNumber(j) = 1
         /\ j = 2 => ServerNumber(j) = 10100 /\ DeviceNumber(j) = 2
         /\ j \in 3..10 => ServerNumber(j) = 9998 + j /\ DeviceNumber(j) = 2 * j - 5
         /\ j \in 11..18 => ServerNumber(j) = 10090 + j /\ DeviceNumber(j) = 2 * j - 20
         /\ ServerNumber(j) \in Nat /\ DeviceNumber(j) \in 1..16 /\ ServerNumber(j) > 9999
  <1>1. CASE j = 1
    BY <1>1 DEF ServerNumber, DeviceNumber, IndexMap, pair
  <1>2. CASE j = 2
    BY <1>2 DEF ServerNumber, DeviceNumber, IndexMap, pair
  <1>3. CASE j \in 3..10
    <2>1. IndexMap[j] = pair(10000 + j - 2, 2 * (j - 2) - 1)
      BY <1>3 DEF IndexMap
    <2>2. ServerNumber(j) = 10000 + j - 2 /\ DeviceNumber(j) = 2 * (j - 2) - 1
      BY <2>1 DEF ServerNumber, DeviceNumber, pair
    <2> QED
      BY <1>3, <2>2 DEF ServerNumber, DeviceNumber
  <1>4. CASE j \in 11..18
    <2>1. IndexMap[j] = pair(10100 + j - 10, 2 * (j - 10))
      BY <1>4 DEF IndexMap
    <2>2. ServerNumber(j) = 10100 + j - 10 /\ DeviceNumber(j) = 2 * (j - 10)
      BY <2>1 DEF ServerNumber, DeviceNumber, pair
    <2> QED
      BY <1>4, <2>2 DEF ServerNumber, DeviceNumber
  <1> QED
    BY <1>1, <1>2, <1>3, <1>4

Mapped == [obj : CcspDmlName, inst : Nat \ {0}]

\* What a name that is mapped becomes.
LEMMA ToCPE ==
  ASSUME NEW n \in Mapped, IsMapped(n)
  PROVE  \E j \in RowsToCPE(n.obj) :
            /\ ServerNumber(j) = n.inst
            /\ IndexMpa_WEBPAtoCPE(n) = [obj |-> n.obj, inst |-> DeviceNumber(j)]
  <1> DEFINE S == Match(RowsToCPE(n.obj), "WebPaInstanceNumber", n.inst)
             j == CHOOSE l \in S : TRUE
  <1>1. HasInstance(n) /\ S # {}
    BY DEF Mapped, HasInstance, IsMapped
  <1>2. j \in S
    BY <1>1
  <1>3. j \in RowsToCPE(n.obj) /\ j \in 1..18 /\ IndexMap[j]["WebPaInstanceNumber"] = n.inst
    BY <1>2 DEF Match, RowsToCPE
  <1>4. ServerNumber(j) = n.inst
    BY <1>3 DEF ServerNumber
  <1>5. IndexMpa_WEBPAtoCPE(n) = [n EXCEPT !.inst = DeviceNumber(j)]
    BY <1>1 DEF IndexMpa_WEBPAtoCPE, CcspNumber, DeviceNumber
  <1>6. [n EXCEPT !.inst = DeviceNumber(j)] = [obj |-> n.obj, inst |-> DeviceNumber(j)]
    BY DEF Mapped
  <1> QED
    BY <1>3, <1>4, <1>5, <1>6

\* The row a server's number is in is the first that is searched for the device's.
LEMMA FirstRow ==
  ASSUME NEW o \in CcspDmlName, NEW j \in RowsToWEBPA(o),
         o = "Radio" /\ j > 2 => DeviceNumber(j) > 2
  PROVE  Match(RowsToWEBPA(o), "CcspInstanceNumber", DeviceNumber(j)) = {j}
  <1>1. RowsToWEBPA(o) \subseteq 1..18 /\ j \in 1..18
    BY DEF RowsToWEBPA, FirstRows
  <1>2. ASSUME NEW l \in RowsToWEBPA(o), DeviceNumber(l) = DeviceNumber(j), l # j
        PROVE  o = "Radio" /\ j \in 1..2 /\ j < l
    <2>1. l \in 1..18
      BY <1>1
    <2>2. (l \in 1..2 \/ l \in 3..10 \/ l \in 11..18) /\ (j \in 1..2 \/ j \in 3..10 \/ j \in 11..18)
      BY <1>1, <2>1
    <2>3. o # "Radio" => l > 2 /\ j > 2
      BY DEF RowsToWEBPA, FirstRows
    <2> QED
      BY <1>1, <1>2, <2>1, <2>2, <2>3, Numbers
  <1>3. \A l \in RowsToWEBPA(o) : IndexMap[l]["CcspInstanceNumber"] = DeviceNumber(l)
    BY DEF DeviceNumber
  <1>4. j \in Match(RowsToWEBPA(o), "CcspInstanceNumber", DeviceNumber(j))
    BY <1>1, <1>2, <1>3 DEF Match
  <1>5. ASSUME NEW l \in Match(RowsToWEBPA(o), "CcspInstanceNumber", DeviceNumber(j))
        PROVE  l = j
    <2>1. l \in RowsToWEBPA(o) /\ DeviceNumber(l) = DeviceNumber(j) /\ l <= j
      BY <1>3, <1>4 DEF Match
    <2> QED
      BY <1>1, <1>2, <2>1
  <1> QED
    BY <1>4, <1>5

\* What a name of the device becomes, when the row is known.
LEMMA ToWEBPA ==
  ASSUME NEW o \in CcspDmlName, NEW j \in RowsToWEBPA(o),
         o = "Radio" /\ j > 2 => DeviceNumber(j) > 2
  PROVE  IndexMpa_CPEtoWEBPA([obj |-> o, inst |-> DeviceNumber(j)])
            = [obj |-> o, inst |-> ServerNumber(j)]
  <1> DEFINE n == [obj |-> o, inst |-> DeviceNumber(j)]
  <1>1. j \in 1..18
    BY DEF RowsToWEBPA, FirstRows
  <1>2. HasInstance(n)
    BY <1>1, Numbers DEF HasInstance
  <1>3. Match(RowsToWEBPA(n.obj), "CcspInstanceNumber", n.inst) = {j}
    BY FirstRow
  <1>4. (CHOOSE l \in {j} : TRUE) = j
    OBVIOUS
  <1>5. IndexMpa_CPEtoWEBPA(n) = [n EXCEPT !.inst = ServerNumber(j)]
    BY <1>2, <1>3, <1>4 DEF IndexMpa_CPEtoWEBPA, ServerNumber
  <1> QED
    BY <1>5

\* A name of the device that is in no row stays, and one that is in a row becomes
\* the name of the first row.
LEMMA FromDevice ==
  ASSUME NEW n \in Mapped
  PROVE  \/ IndexMpa_CPEtoWEBPA(n) = n
         \/ \E j \in RowsToWEBPA(n.obj) :
               /\ DeviceNumber(j) = n.inst
               /\ IndexMpa_CPEtoWEBPA(n) = [obj |-> n.obj, inst |-> ServerNumber(j)]
  <1> DEFINE S == Match(RowsToWEBPA(n.obj), "CcspInstanceNumber", n.inst)
             j == CHOOSE l \in S : TRUE
  <1>1. CASE S = {}
    BY <1>1 DEF IndexMpa_CPEtoWEBPA
  <1>2. CASE S # {}
    <2>1. HasInstance(n)
      BY DEF HasInstance, Mapped
    <2>2. j \in RowsToWEBPA(n.obj) /\ DeviceNumber(j) = n.inst
      BY <1>2 DEF Match, DeviceNumber
    <2>3. IndexMpa_CPEtoWEBPA(n) = [n EXCEPT !.inst = ServerNumber(j)]
      BY <1>2, <2>1 DEF IndexMpa_CPEtoWEBPA, ServerNumber
    <2>4. [n EXCEPT !.inst = ServerNumber(j)] = [obj |-> n.obj, inst |-> ServerNumber(j)]
      BY DEF Mapped
    <2> QED
      BY <2>2, <2>3, <2>4
  <1> QED
    BY <1>1, <1>2

\* A name in the server's numbers is left alone: those are none of the device's.
LEMMA ServerNameStays ==
  ASSUME NEW n \in [obj : Objects, inst : Nat], n.obj \in CcspDmlName => n.inst = 0 \/ n.inst > 9999
  PROVE  IndexMpa_CPEtoWEBPA(n) = n
  <1>1. CASE HasInstance(n)
    <2>1. \A j \in RowsToWEBPA(n.obj) : j \in 1..18
      BY DEF RowsToWEBPA, FirstRows
    <2>2. \A j \in RowsToWEBPA(n.obj) : IndexMap[j]["CcspInstanceNumber"] \in 1..16
      BY <2>1, Numbers
    <2>3. Match(RowsToWEBPA(n.obj), "CcspInstanceNumber", n.inst) = {}
      BY <1>1, <2>2 DEF Match, HasInstance
    <2> QED
      BY <2>3 DEF IndexMpa_CPEtoWEBPA
  <1>2. CASE ~HasInstance(n)
    BY <1>2 DEF IndexMpa_CPEtoWEBPA
  <1> QED
    BY <1>1, <1>2

------------------------------------------------------------------------------
(***************************************************************************)
(* The two directions together                                             *)
(***************************************************************************)
SideNames == [obj : Objects, inst : Nat]

\* A name the server may use comes back as it was.
LEMMA RoundTrip ==
  ASSUME NEW n \in SideNames, IsMapped(n)
  PROVE  /\ IndexMpa_CPEtoWEBPA(IndexMpa_WEBPAtoCPE(n)) = n
         /\ IndexMpa_WEBPAtoCPE(n) \in SideNames
         /\ n.inst # 0 => IndexMpa_WEBPAtoCPE(n).inst # 0
  <1>1. CASE HasInstance(n)
    <2>1. n \in Mapped
      BY <1>1 DEF SideNames, Mapped, HasInstance
    <2>2. PICK j \in RowsToCPE(n.obj) :
             /\ ServerNumber(j) = n.inst
             /\ IndexMpa_WEBPAtoCPE(n) = [obj |-> n.obj, inst |-> DeviceNumber(j)]
      BY <2>1, ToCPE
    <2>3. j \in 1..18 /\ j \in RowsToWEBPA(n.obj) /\ (n.obj = "Radio" => j <= 2)
      BY DEF RowsToCPE, RowsToWEBPA, FirstRows
    <2>4. IndexMpa_CPEtoWEBPA([obj |-> n.obj, inst |-> DeviceNumber(j)])
             = [obj |-> n.obj, inst |-> ServerNumber(j)]
      BY <1>1, <2>3, ToWEBPA DEF HasInstance
    <2>5. n = [obj |-> n.obj, inst |-> n.inst] /\ DeviceNumber(j) \in Nat \ {0}
      BY <2>3, Numbers DEF SideNames
    <2>6. [obj |-> n.obj, inst |-> DeviceNumber(j)] \in SideNames
      BY <2>5 DEF SideNames
    <2> QED
      BY <2>2, <2>4, <2>5, <2>6
  <1>2. CASE ~HasInstance(n)
    BY <1>2 DEF IndexMpa_CPEtoWEBPA, IndexMpa_WEBPAtoCPE
  <1> QED
    BY <1>1, <1>2

\* A second mapping to the server's numbers changes nothing.
LEMMA MappedOnce ==
  ASSUME NEW n \in SideNames
  PROVE  /\ IndexMpa_CPEtoWEBPA(n) \in SideNames
         /\ IndexMpa_CPEtoWEBPA(IndexMpa_CPEtoWEBPA(n)) = IndexMpa_CPEtoWEBPA(n)
  <1>1. CASE IndexMpa_CPEtoWEBPA(n) = n
    BY <1>1
  <1>2. CASE IndexMpa_CPEtoWEBPA(n) # n
    <2>1. n \in Mapped
      BY <1>2 DEF IndexMpa_CPEtoWEBPA, HasInstance, SideNames, Mapped
    <2>2. PICK j \in RowsToWEBPA(n.obj) :
             IndexMpa_CPEtoWEBPA(n) = [obj |-> n.obj, inst |-> ServerNumber(j)]
      BY <1>2, <2>1, FromDevice
    <2>3. ServerNumber(j) \in Nat /\ ServerNumber(j) > 9999
      BY Numbers DEF RowsToWEBPA, FirstRows
    <2>4. [obj |-> n.obj, inst |-> ServerNumber(j)] \in SideNames
      BY <2>3 DEF SideNames
    <2> QED
      BY <2>2, <2>3, <2>4, ServerNameStays DEF SideNames
  <1> QED
    BY <1>1, <1>2

\* The numbers of the server are of one row each.
LEMMA OneRow ==
  ASSUME NEW l \in 1..18, NEW j \in 1..18, ServerNumber(l) = ServerNumber(j)
  PROVE  l = j
  <1>1. /\ l = 1 \/ l = 2 \/ l \in 3..10 \/ l \in 11..18
        /\ j = 1 \/ j = 2 \/ j \in 3..10 \/ j \in 11..18
    OBVIOUS
  <1> QED
    BY <1>1, Numbers

\* The name the server got for a name of the device is mapped to that name.
LEMMA LeadsBack ==
  ASSUME NEW d \in SideNames, d.inst # 0, d.inst < 10000, IsMapped(IndexMpa_CPEtoWEBPA(d))
  PROVE  IndexMpa_WEBPAtoCPE(IndexMpa_CPEtoWEBPA(d)) = d
  <1> DEFINE r == IndexMpa_CPEtoWEBPA(d)
  <1>1. CASE d.obj \in CcspDmlName
    <2>1. d \in Mapped
      BY <1>1 DEF SideNames, Mapped
    <2>2. \A l \in RowsToCPE(d.obj) : l \in 1..18
      BY DEF RowsToCPE
    <2>3. r # d
      <3> SUFFICES ASSUME r = d PROVE FALSE
        OBVIOUS
      <3>1. PICK l \in RowsToCPE(d.obj) : ServerNumber(l) = d.inst
        BY <2>1, ToCPE
      <3>2. l \in 1..18 /\ ServerNumber(l) \in Nat /\ ServerNumber(l) > 9999
        BY <2>2, Numbers
      <3> QED
        BY <3>1, <3>2
    <2>4. PICK j \in RowsToWEBPA(d.obj) :
             DeviceNumber(j) = d.inst /\ r = [obj |-> d.obj, inst |-> ServerNumber(j)]
      BY <2>1, <2>3, FromDevice
    <2>5. j \in 1..18 /\ ServerNumber(j) \in Nat \ {0}
      <3>1. j \in 1..18
        BY DEF RowsToWEBPA, FirstRows
      <3> QED
        BY <3>1, Numbers
    <2>6. r \in Mapped /\ r.obj = d.obj /\ r.inst = ServerNumber(j)
      BY <1>1, <2>4, <2>5 DEF Mapped
    <2>7. PICK l \in RowsToCPE(d.obj) :
             /\ ServerNumber(l) = ServerNumber(j)
             /\ IndexMpa_WEBPAtoCPE(r) = [obj |-> d.obj, inst |-> DeviceNumber(l)]
      BY <2>6, ToCPE
    <2>8. l = j
      BY <2>2, <2>5, <2>7, OneRow
    <2> QED
      BY <2>1, <2>4, <2>7, <2>8 DEF Mapped
  <1>2. CASE d.obj \notin CcspDmlName
    BY <1>2 DEF IndexMpa_CPEtoWEBPA, IndexMpa_WEBPAtoCPE, HasInstance
  <1> QED
    BY <1>1, <1>2

------------------------------------------------------------------------------
(***************************************************************************)
(* The theorems                                                            *)
(***************************************************************************)
\* What the server and the device write are names.
LEMMA AreNames ==
  /\ ServerNames \subseteq SideNames /\ DeviceNames \subseteq SideNames
  /\ \A n \in DeviceNames : n.inst # 0 /\ n.inst < 10000
  <1>1. ASSUME NEW n \in ServerNames PROVE n \in SideNames
    <2>1. PICK o \in Objects, k \in ServerInstances \cup {0} : n = [obj |-> o, inst |-> k]
      BY DEF ServerNames
    <2>2. k \in Nat
      BY <2>1, MappingAssumption
    <2> QED
      BY <2>1, <2>2 DEF SideNames
  <1>2. ASSUME NEW n \in DeviceNames PROVE n \in SideNames /\ n.inst # 0 /\ n.inst < 10000
    <2>1. n = [obj |-> n.obj, inst |-> n.inst] /\ n.obj \in Objects /\ n.inst \in DeviceInstances
      BY DEF DeviceNames
    <2>2. n.inst \in Nat /\ n.inst # 0 /\ n.inst < 10000
      BY <2>1, MappingAssumption
    <2> QED
      BY <2>1, <2>2 DEF SideNames
  <1> QED
    BY <1>1, <1>2

\* A name the server asks for comes back as the server wrote it (wal.c, the two
\* directions of the index mapping).
THEOREM AnswerNamed == AnswerIsNamed
  <1> SUFFICES ASSUME NEW name \in ServerNames, name.inst # 0,
                      IsMapped(name), NEW n \in AnsweredNames(IndexMpa_WEBPAtoCPE(name))
               PROVE  IndexMpa_CPEtoWEBPA(n) = name
    BY DEF AnswerIsNamed, AnsweredOtherwise, GetNames
  <1> DEFINE sent == IndexMpa_WEBPAtoCPE(name)
  <1>1. name \in SideNames
    BY AreNames
  <1>2. sent \in SideNames /\ sent.inst # 0 /\ IndexMpa_CPEtoWEBPA(sent) = name
    BY <1>1, RoundTrip
  <1>3. n \in SideNames /\ n.obj = sent.obj /\ n.inst = sent.inst
    BY <1>2, AreNames DEF AnsweredNames
  <1>4. n = sent
    BY <1>2, <1>3 DEF SideNames
  <1> QED
    BY <1>2, <1>4

\* A name the server got in a GET of an object never leads to another instance.
THEOREM ReturnedLeadsBack == ReturnedNameLeadsBack
  <1> SUFFICES ASSUME NEW whole \in ServerNames, NEW n \in AnsweredNames(whole),
                      IsMapped(IndexMpa_CPEtoWEBPA(n))
               PROVE  IndexMpa_WEBPAtoCPE(IndexMpa_CPEtoWEBPA(n)) = n
    BY DEF ReturnedNameLeadsBack, LeadElsewhere
  <1>1. n \in SideNames /\ n.inst # 0 /\ n.inst < 10000
    BY AreNames DEF AnsweredNames
  <1> QED
    BY <1>1, LeadsBack

\* After a rollback the server reads what it read before the request.
THEOREM RollbackUnseen == ServerSeesNoChange
  <1>1. ASSUME NEW before \in DeviceNames, NEW reference \in DeviceNames
        PROVE  ValueRead(RestoredValue(before, reference)) = ValueRead(before)
    BY AreNames, MappedOnce DEF ValueRead, RestoredValue
  <1> QED
    BY <1>1 DEF ServerSeesNoChange, SeenAfterRollback
==============================================================================
