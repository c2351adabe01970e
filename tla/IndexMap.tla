------------------------------- MODULE IndexMap -------------------------------
(***************************************************************************)
(* The instance numbers of the WiFi tables (wal/wal.c).  The server names  *)
(* instance 10001 of SSID what the device calls instance 1, and so on; the *)
(* names of all other objects are the same on both sides.                  *)
(*                                                                         *)
(* A name is a record of its object and the first instance number after    *)
(* it, 0 when there is none.  What follows the number is copied.           *)
(***************************************************************************)
EXTENDS Naturals

CcspDmlName == {"Radio", "SSID", "AccessPoint"}

pair(w, c) == [WebPaInstanceNumber |-> w, CcspInstanceNumber |-> c]

\* Two radios, then eight instances of the first radio and eight of the second.
IndexMap ==
    [j \in 1..18 |-> CASE j = 1 -> pair(10000, 1)
                       [] j = 2 -> pair(10100, 2)
                       [] j \in 3..10 -> pair(10000 + j - 2, 2 * (j - 2) - 1)
                       [] j \in 11..18 -> pair(10100 + j - 10, 2 * (j - 10))]

FirstRows(obj) == IF obj = "Radio" THEN 1 ELSE 3

\* The rows of the map that are searched: for a radio the two directions differ.
RowsToCPE(obj) == IF obj = "Radio" THEN 1..2 ELSE 3..18

\* Mutant: the rows of the radios are searched for every object.
AllRows(obj) == 1..18

RowsToWEBPA(obj) == FirstRows(obj)..18

\* The first row searched whose field has the instance number.
Match(rows, field, k) ==
    {j \in rows : /\ IndexMap[j][field] = k
                  /\ \A j1 \in rows : IndexMap[j1][field] = k => j <= j1}

HasInstance(paramName) == paramName.obj \in CcspDmlName /\ paramName.inst # 0

\* Whether IndexMpa_WEBPAtoCPE returns 0, and the name it leaves.
IsMapped(paramName) ==
    HasInstance(paramName) =>
        Match(RowsToCPE(paramName.obj), "WebPaInstanceNumber", paramName.inst) # {}

\* Mutant: the instances are counted for each radio.
CountedNumber(j) == IndexMap[j].WebPaInstanceNumber % 100

CcspNumber(j) == IndexMap[j].CcspInstanceNumber

IndexMpa_WEBPAtoCPE(paramName) ==
    IF HasInstance(paramName) /\ IsMapped(paramName)
    THEN [paramName EXCEPT !.inst =
             CcspNumber(CHOOSE j \in Match(RowsToCPE(paramName.obj), "WebPaInstanceNumber",
                                           paramName.inst) : TRUE)]
    ELSE paramName

\* A device number that is not in the map stays.
IndexMpa_CPEtoWEBPA(paramName) ==
    LET found == Match(RowsToWEBPA(paramName.obj), "CcspInstanceNumber", paramName.inst)
    IN  IF HasInstance(paramName) /\ found # {}
        THEN [paramName EXCEPT !.inst =
                 IndexMap[CHOOSE j \in found : TRUE].WebPaInstanceNumber]
        ELSE paramName
==============================================================================
