----------------------------- MODULE TableRequests -----------------------------
(***************************************************************************)
(* The table requests of wal/wal.c: add a row, delete a row, replace all   *)
(* rows.                                                                   *)
(*                                                                         *)
(* A replacement reads the rows of the table, deletes them one by one, and *)
(* adds the new ones, each by a call that adds an empty row and a call     *)
(* that sets its values.  When a row cannot be added, the rows added       *)
(* before it are deleted again and those read at the beginning are added   *)
(* back.  The table belongs to another component: every call may fail, and *)
(* a row that is added gets a number of that component's choosing.         *)
(***************************************************************************)
EXTENDS Naturals, Sequences, FiniteSets, SequencesExt, IndexMap

CONSTANTS
    Tables,       \* names of tables, as the server knows them
    Data,         \* what a row may hold
    Blank,        \* what a row holds that was added and not set
    MaxRows,      \* bound: rows in a request or in the table at first
    MaxRequests   \* bound: requests

ASSUME TableAssumption ==
    /\ Tables \subseteq [obj : STRING, inst : Nat]
    /\ Blank \notin Data
    /\ MaxRows \in Nat
    /\ MaxRequests \in Nat

VARIABLES
    table,      \* the rows of the component, in the order of their numbers
    objectName, \* the table, as the server knows it
    nextId,     \* the number it gives to the next row
    pc,         \* where the request is
    op,         \* which request it is
    name,       \* paramName, after replaceTable has mapped it
    list,       \* the data of the rows to add
    cached,     \* deleteList and addList: the rows replaceTable has read
    restoring,  \* addCachedData is adding rows, not addNewData
    cnt,        \* loop index
    added,      \* retObject: numbers of the rows addNewData has added
    status,     \* retStatus
    requests,   \* requests so far, up to MaxRequests
    before,     \* ghost: what the table held when the request arrived
    undeleted,  \* ghost: data of the old rows that could not be deleted
    faulty      \* ghost: which kinds of calls have failed

vars == <<table, objectName, nextId, pc, op, name, list, cached, restoring, cnt, added, status,
          requests, before, undeleted, faulty>>
requestVars == <<objectName, op, list, requests, before, name>>

Rows == [id : Nat, data : Data \cup {Blank}]
DataOf(rows) == [k \in 1..Len(rows) |-> rows[k].data]
Contents == DataOf(table)

Lists == UNION {[1..k -> Data] : k \in 0..MaxRows}

TypeOK ==
    /\ table \in Seq(Rows)
    /\ objectName \in Tables
    /\ nextId \in Nat
    /\ pc \in {"idle", "cache", "clear", "addrow", "update", "revert", "undo", "done"}
    /\ op \in {"ADD_ROW", "DELETE_ROW", "REPLACE_ROWS"}
    /\ name \in [obj : STRING, inst : Nat]
    /\ list \in Seq(Data)
    /\ cached \in Seq(Rows)
    /\ restoring \in BOOLEAN
    /\ cnt \in 0..(1 + IF restoring \/ pc = "clear" THEN Len(cached) ELSE Len(list))
    /\ added \in Seq(Nat)
    /\ status \in {"WAL_SUCCESS", "WAL_FAILURE"}
    /\ requests \in 0..MaxRequests
    /\ before \in Seq(Data \cup {Blank})
    /\ undeleted \in Seq(Data \cup {Blank})
    /\ faulty \subseteq {"delete", "add", "revert", "undo", "restore"}

Init ==
    /\ \E l \in UNION {[1..k -> Data \cup {Blank}] : k \in 0..MaxRows} :
           table = [k \in 1..Len(l) |-> [id |-> k, data |-> l[k]]]
    /\ objectName \in Tables
    /\ nextId = Len(table) + 1
    /\ pc = "idle"
    /\ op = "ADD_ROW"
    /\ name = objectName
    /\ list = <<>>
    /\ cached = <<>>
    /\ restoring = FALSE
    /\ cnt = 0
    /\ added = <<>>
    /\ status = "WAL_SUCCESS"
    /\ requests = 0
    /\ before = <<>>
    /\ undeleted = <<>>
    /\ faulty = {}

------------------------------------------------------------------------------
(***************************************************************************)
(* The rows of the component                                               *)
(***************************************************************************)
WithoutRow(id) == RemoveAt(table, CHOOSE k \in DOMAIN table : table[k].id = id)
WithNewRow == Append(table, [id |-> nextId, data |-> Blank])
WithData(d) == [table EXCEPT ![Len(table)].data = d]

Failed(kind) == faulty' = faulty \cup {kind}

\* The name deleteRowTable gets from addRowTable, and whether it leads back to
\* the table.
RetObject == IndexMpa_CPEtoWEBPA(IndexMpa_WEBPAtoCPE(name))
LeadsBack == /\ IsMapped(RetObject)
             /\ IndexMpa_WEBPAtoCPE(RetObject) = IndexMpa_WEBPAtoCPE(name)

------------------------------------------------------------------------------
(***************************************************************************)
(* Requests                                                                *)
(***************************************************************************)
Arrives(o, l) ==
    /\ pc = "idle"
    /\ requests < MaxRequests
    /\ requests' = requests + 1
    /\ op' = o
    /\ list' = l
    /\ cached' = <<>>
    /\ restoring' = FALSE
    /\ added' = <<>>
    /\ before' = Contents
    /\ undeleted' = <<>>

\* replaceTable maps the name of the table itself.
replaceTable ==
    /\ \E l \in Lists : Arrives("REPLACE_ROWS", l)
    /\ name' = IndexMpa_WEBPAtoCPE(objectName)
    /\ pc' = IF IsMapped(objectName) THEN "cache" ELSE "done"
    /\ status' = IF IsMapped(objectName) THEN "WAL_SUCCESS" ELSE "WAL_FAILURE"
    /\ cnt' = 0
    /\ faulty' = {}
    /\ UNCHANGED <<table, nextId, objectName>>

\* One row: addRowTable maps the name.
addRowRequest ==
    /\ \E d \in Data : Arrives("ADD_ROW", <<d>>)
    /\ name' = objectName
    /\ pc' = "addrow"
    /\ status' = "WAL_SUCCESS"
    /\ cnt' = 1
    /\ faulty' = {}
    /\ UNCHANGED <<table, nextId, objectName>>

\* Deleting a row that does not exist, like any other failure of the call, is
\* reported.
deleteRowTable ==
    /\ Arrives("DELETE_ROW", <<>>)
    /\ name' = objectName
    /\ pc' = "done"
    /\ cnt' = 0
    /\ \/ \E k \in DOMAIN table :
             /\ IsMapped(objectName)
             /\ table' = WithoutRow(table[k].id)
             /\ status' = "WAL_SUCCESS"
             /\ faulty' = {}
       \/ /\ status' = "WAL_FAILURE"
          /\ faulty' = {"delete"}
          /\ UNCHANGED table
    /\ UNCHANGED <<nextId, objectName>>

------------------------------------------------------------------------------
(***************************************************************************)
(* replaceTable: reading and deleting the old rows                         *)
(***************************************************************************)
cacheTableData ==
    /\ pc = "cache"
    /\ \/ /\ cached' = table
          /\ cnt' = 1
          /\ pc' = "clear"
          /\ UNCHANGED status
       \/ /\ status' = "WAL_FAILURE"
          /\ pc' = "done"
          /\ UNCHANGED <<cached, cnt>>
    /\ UNCHANGED <<table, nextId, requestVars, restoring, added, undeleted, faulty>>

\* Mutant: the last of the rows is not deleted.
SkipsLastRow == Len(cached) - 1

RowCount == Len(cached)

\* A row that cannot be deleted stays: the failure is only logged.
DeleteOldRow ==
    /\ pc = "clear"
    /\ cnt <= RowCount
    /\ \/ /\ table' = WithoutRow(cached[cnt].id)
          /\ UNCHANGED <<undeleted, faulty>>
       \/ /\ undeleted' = Append(undeleted, cached[cnt].data)
          /\ Failed("delete")
          /\ UNCHANGED table
    /\ cnt' = cnt + 1
    /\ UNCHANGED <<nextId, pc, requestVars, cached, restoring, added, status>>

deleteAllTableDataEnds ==
    /\ pc = "clear"
    /\ cnt > RowCount
    /\ IF list = <<>> THEN pc' = "done" /\ cnt' = 0
                      ELSE pc' = "addrow" /\ cnt' = 1
    /\ UNCHANGED <<table, nextId, requestVars, cached, restoring, added, status,
                   undeleted, faulty>>

------------------------------------------------------------------------------
(***************************************************************************)
(* addRowTable, called for the new rows by addNewData and for the old rows *)
(* by addCachedData                                                        *)
(***************************************************************************)
\* Mutant: the old rows are added back in the wrong order.
Backwards == IF restoring THEN cached[Len(cached) + 1 - cnt].data ELSE list[cnt]

NewData == IF restoring THEN cached[cnt].data ELSE list[cnt]

\* Mutant: the last of the old rows is not added back.
CountButLast == IF restoring THEN Len(cached) - 1 ELSE Len(list)

Count == IF restoring THEN Len(cached) ELSE Len(list)
AddFault == IF restoring THEN "restore" ELSE "add"

\* Mutant: the index of the loop advances twice.
GoesOnTwice == cnt' = cnt + 2 /\ pc' = "addrow" /\ UNCHANGED status

\* addNewData stops at the first row that cannot be added, addCachedData goes on
\* with the next.
GoesOn == cnt' = cnt + 1 /\ pc' = "addrow" /\ UNCHANGED status
AddFails ==
    IF restoring THEN GoesOn
    ELSE status' = "WAL_FAILURE" /\ cnt' = cnt - 1 /\ pc' = "undo"

addRow ==
    /\ pc = "addrow"
    /\ cnt <= Count
    /\ IsMapped(name)
    /\ \/ /\ table' = WithNewRow
          /\ nextId' = nextId + 1
          /\ pc' = "update"
          /\ UNCHANGED <<cnt, status, faulty>>
       \/ /\ Failed(AddFault)
          /\ AddFails
          /\ UNCHANGED <<table, nextId>>
    /\ UNCHANGED <<requestVars, cached, restoring, added, undeleted>>

\* IndexMpa_WEBPAtoCPE refuses the name.
InvalidIndex ==
    /\ pc = "addrow"
    /\ cnt <= Count
    /\ ~IsMapped(name)
    /\ AddFails
    /\ UNCHANGED <<table, nextId, requestVars, cached, restoring, added, undeleted, faulty>>

updateRow ==
    /\ pc = "update"
    /\ \/ /\ table' = WithData(NewData)
          /\ added' = IF restoring THEN added ELSE Append(added, nextId - 1)
          /\ GoesOn
          /\ UNCHANGED faulty
       \/ /\ Failed(AddFault)
          /\ pc' = "revert"
          /\ UNCHANGED <<table, added, cnt, status>>
    /\ UNCHANGED <<nextId, requestVars, cached, restoring, undeleted>>

\* The row that could not be set is deleted, or stays empty.
RevertAddedRow ==
    /\ pc = "revert"
    /\ \/ /\ table' = WithoutRow(nextId - 1)
          /\ UNCHANGED faulty
       \/ /\ Failed("revert")
          /\ UNCHANGED table
    /\ AddFails
    /\ UNCHANGED <<nextId, requestVars, cached, restoring, added, undeleted>>

LoopEnds ==
    /\ pc = "addrow"
    /\ cnt > Count
    /\ pc' = "done"
    /\ UNCHANGED <<table, nextId, requestVars, cached, restoring, cnt, added, status,
                   undeleted, faulty>>

------------------------------------------------------------------------------
(***************************************************************************)
(* addNewData: deleting the rows already added; then addCachedData          *)
(***************************************************************************)
\* Mutant: the first of the added rows is not deleted.
KeepsFirstRow == 1

FirstRow == 0

\* The rows are deleted backwards, up to the first that cannot be.
UndoAddedRow ==
    /\ pc = "undo"
    /\ cnt > FirstRow
    /\ \/ /\ LeadsBack
          /\ table' = WithoutRow(added[cnt])
          /\ cnt' = cnt - 1
          /\ UNCHANGED faulty
       \/ /\ Failed("undo")
          /\ cnt' = FirstRow
          /\ UNCHANGED table
    /\ UNCHANGED <<nextId, pc, requestVars, cached, restoring, added, status, undeleted>>

UndoEnds ==
    /\ pc = "undo"
    /\ cnt <= FirstRow
    /\ IF cached = <<>> THEN pc' = "done" /\ UNCHANGED <<restoring, cnt>>
       ELSE pc' = "addrow" /\ restoring' = TRUE /\ cnt' = 1
    /\ UNCHANGED <<table, nextId, requestVars, cached, added, status, undeleted, faulty>>

\* The caller gets retStatus; the lists are freed.
Report ==
    /\ pc = "done"
    /\ pc' = "idle"
    /\ list' = <<>> /\ cached' = <<>> /\ added' = <<>>
    /\ restoring' = FALSE
    /\ cnt' = 0
    /\ before' = <<>> /\ undeleted' = <<>> /\ faulty' = {}
    /\ UNCHANGED <<table, objectName, nextId, op, name, status, requests>>

Next ==
    \/ replaceTable \/ addRowRequest \/ deleteRowTable
    \/ cacheTableData \/ DeleteOldRow \/ deleteAllTableDataEnds
    \/ addRow \/ InvalidIndex \/ updateRow \/ RevertAddedRow \/ LoopEnds
    \/ UndoAddedRow \/ UndoEnds \/ Report

Spec == Init /\ [][Next]_vars

------------------------------------------------------------------------------
(***************************************************************************)
(* Properties                                                              *)
(***************************************************************************)

\* replaceTable maps the name and addRowTable maps it again: this says that the
\* second time goes well.  It does not for an instance of a WiFi table.
MapsTwice == op = "REPLACE_ROWS" => IsMapped(IndexMpa_WEBPAtoCPE(objectName))

\* A request that fails because of one of the calls that add a row, whichever
\* and whatever was done before, leaves the rows the table had, in their order,
\* though a replacement has deleted them and has to add them again.
FailureRestores ==
    pc = "done" /\ status = "WAL_FAILURE" /\ MapsTwice /\ faulty \subseteq {"add"}
        => Contents = before

\* After a replacement that succeeds the table has the new rows, in their order,
\* and before them exactly the old rows that could not be deleted.
SuccessReplaces ==
    pc = "done" /\ status = "WAL_SUCCESS" /\ op = "REPLACE_ROWS"
        => Contents = undeleted \o list

\* Every row the table had is there, as often as it was.
KeepsRows ==
    \A d \in Data \cup {Blank} :
        Cardinality({k \in DOMAIN before : before[k] = d})
            <= Cardinality({k \in DOMAIN Contents : Contents[k] = d})

\* Whatever fails, except adding the old rows back, a request that fails loses
\* no row the table had (it may leave some twice).
FailureKeepsRows ==
    pc = "done" /\ status = "WAL_FAILURE" /\ MapsTwice /\ "restore" \notin faulty
        => KeepsRows

\* s is what is left of t without some of its rows, but for rows of spoilt.
IsPart(s, t, spoilt) ==
    /\ Len(s) <= Len(t)
    /\ \E f \in [DOMAIN s -> DOMAIN t] :
          /\ \A x, y \in DOMAIN s : x < y => f[x] < f[y]
          /\ \A x \in DOMAIN s : s[x] \in {t[f[x]]} \cup spoilt

\* s is the first rows of the request; the next of them may be there, still empty.
AreNewRows(s) ==
    \E k \in 0..Len(list) :
        \/ s = SubSeq(list, 1, k)
        \/ k < Len(list) /\ s = Append(SubSeq(list, 1, k), Blank)

\* The rows are in memory only while a request is served, so this is what a crash
\* leaves, at whatever step: an addition all the rows there were, with at most
\* the new one behind them; a replacement some of the old rows, the first of the
\* new rows behind them, and some of the old rows again, perhaps emptied, only
\* when it was adding them back.  Each part keeps its order, and there is no
\* other row.
CrashLeavesParts ==
    pc # "idle" =>
        /\ op = "ADD_ROW" =>
              IsPrefix(before, Contents) /\ Len(Contents) <= Len(before) + 1
        /\ \E k \in 0..Len(Contents) : \E l \in k..Len(Contents) :
               /\ l < Len(Contents) => restoring
               /\ AreNewRows(SubSeq(Contents, k + 1, l))
               /\ IsPart(SubSeq(Contents, 1, k), before, {})
               /\ IsPart(SubSeq(Contents, l + 1, Len(Contents)), before, {Blank})

\* "addCachedData adds stored data to the table on roll back" (wal.c): when no
\* call of the component has failed, a replacement loses no row.  For a table of
\* a WiFi instance every row is deleted and none, new or old, can be added.
RollbackRestores ==
    pc = "done" /\ status = "WAL_FAILURE" /\ faulty = {} => KeepsRows
==============================================================================
