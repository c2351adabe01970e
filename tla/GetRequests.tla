------------------------------ MODULE GetRequests ------------------------------
(***************************************************************************)
(* GET of values and of attributes (wal/wal.c).                            *)
(*                                                                         *)
(* getValues and getAttributes group the names of a request by component   *)
(* and ask one component after the other.  The answers go into one array,  *)
(* each at the index behind the one before, until a component fails or is  *)
(* WiFi and busy.                                                          *)
(***************************************************************************)
EXTENDS ComponentLookup

\* What a component answers: the parameters it has below each of the names.
Answer(group) ==
    FlattenSeq([k \in DOMAIN group.parameterName |->
        SetToSeq({p \in Parameters : /\ Below(group.parameterName[k], p)
                                     /\ owner[p] = group.comp_name})])

\* Mutant: an answer begins one index too low.
OneBelow(array, startIndex, answer) == SubSeq(array, 1, startIndex - 1) \o answer

\* The array is allocated for the first answer and enlarged for each after it.
\* What it had behind startIndex is overwritten.
Stored(array, startIndex, answer) == SubSeq(array, 1, startIndex) \o answer

\* Mutant: getValues counts the names it asked for, not the values it got.
NamesAsked(kind, group, answer) == Len(group.parameterName)

\* How far an answer moves startIndex: getAttributes counts the names.
IndicesTaken(kind, group, answer) ==
    IF kind = "attributes" THEN Len(group.parameterName) ELSE Len(answer)

AskGroup(kind, result, group) ==
    LET answer == Answer(group)
    IN  [array |-> Stored(result.array, result.startIndex, answer),
         startIndex |-> result.startIndex + IndicesTaken(kind, group, answer)]

\* The groups before the one that fails; failing is 0 when none does.
Reached(groups, failing) ==
    IF failing = 0 THEN groups ELSE SubSeq(groups, 1, failing - 1)

AskGroups(kind, groups, failing) ==
    LET reached == Reached(groups, failing)
        after[k \in 0..Len(reached)] ==
            IF k = 0 THEN [array |-> <<>>, startIndex |-> 0]
            ELSE AskGroup(kind, after[k - 1], reached[k])
    IN  after[Len(reached)]

getValues(names, failing) == AskGroups("values", ParamGroup(names), failing)
getAttributes(names, failing) == AskGroups("attributes", ParamGroup(names), failing)

------------------------------------------------------------------------------
(***************************************************************************)
(* Properties                                                              *)
(***************************************************************************)
Times(p, array) == Cardinality({k \in DOMAIN array : array[k] = p})

\* The indices of the names that p is to be returned for.
NamesAbove(p, names) == {k \in DOMAIN names : Below(names[k], p)}

\* Through the caches, whatever they lack, the grouping and the array with its
\* running index, a GET returns every parameter below each of its names once, and
\* the number it reports is the number of values in the array.  When a group
\* fails, the array has the answers of those before it and no more.
GetReturnsAll ==
    pc = "ready" /\ OneOwner =>
        \A names \in {s \in [1..2 -> Names] : s[1] # s[2]} :
            LET groups == ParamGroup(names)
                values == getValues(names, 0).array
            IN  /\ \A p \in Parameters : Times(p, values) = Cardinality(NamesAbove(p, names))
                /\ \A failing \in 0..Len(groups) :
                      LET result == getValues(names, failing)
                      IN  /\ Len(result.array) = result.startIndex
                          /\ failing # 0 =>
                                \A k \in DOMAIN result.array :
                                    owner[result.array[k]] # groups[failing].comp_name

\* The attributes of parameters are returned once each.  (For the name of a
\* whole object they are not: the answers of a later component are written over
\* those of the first, as startIndex counts names.)
GetReturnsAttributes ==
    pc = "ready" /\ OneOwner =>
        \A p, q \in Parameters :
            p # q => LET array == getAttributes(<<p, q>>, 0).array
                     IN  Len(array) = 2 /\ {array[1], array[2]} = {p, q}
==============================================================================
