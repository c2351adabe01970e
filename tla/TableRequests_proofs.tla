------------------------- MODULE TableRequests_proofs -------------------------
(***************************************************************************)
(* Theorems about the table requests: types, what a request that succeeds  *)
(* or fails leaves in the table, and what a crash leaves in it, for any    *)
(* tables, data, number of rows and of requests.                           *)
(***************************************************************************)
EXTENDS TableRequests, SequenceTheorems, FiniteSetTheorems, TLAPS

\* f chooses r places, one behind the other.
Grows(f, r) == \A x, y \in 1..r : x < y => f[x] < f[y]

\* It may choose place m too.
WithPlace(f, r, m) == [x \in 1..(r + 1) |-> IF x = r + 1 THEN m ELSE f[x]]

\* The rows that were there when the rows of the request began to be added.
Old == IF op = "ADD_ROW" THEN before ELSE undeleted

\* The row addRow has added and updateRow has not yet set.
NewRow == IF pc \in {"update", "revert"} THEN 1 ELSE 0

\* The numbers of the rows grow along the table.
Numbered ==
    /\ \A x, y \in 1..Len(table) : x < y => table[x].id < table[y].id
    /\ \A x \in 1..Len(table) : table[x].id < nextId

NewRowOK ==
    pc \in {"update", "revert"} =>
        /\ Len(table) > 0
        /\ table[Len(table)] = [id |-> nextId - 1, data |-> Blank]
        /\ cnt <= Count

\* What each request has of the rows, and of its own.
RequestOK ==
    pc # "idle" =>
        /\ op = "ADD_ROW" => Len(list) = 1 /\ cached = <<>> /\ undeleted = <<>>
        /\ op = "REPLACE_ROWS" => name = IndexMpa_WEBPAtoCPE(objectName)
        /\ op = "REPLACE_ROWS" /\ pc \notin {"cache", "done"} => before = DataOf(cached)
        /\ op = "DELETE_ROW" => pc = "done" /\ undeleted = <<>> /\ ~restoring
        /\ pc \in {"cache", "clear"} => op = "REPLACE_ROWS" /\ ~restoring /\ added = <<>>
        /\ pc \in {"cache", "clear"} => status = "WAL_SUCCESS"
        /\ pc = "cache" => Contents = before /\ undeleted = <<>>

\* The old rows that stay are a part of those there were.
UndeletedOK ==
    pc # "idle" =>
        LET n == IF pc = "clear" THEN cnt - 1 ELSE Len(before)
        IN  /\ Len(undeleted) <= n
            /\ "delete" \notin faulty => undeleted = <<>>
            /\ \E g \in [1..Len(undeleted) -> 1..n] :
                  /\ Grows(g, Len(undeleted))
                  /\ \A x \in 1..Len(undeleted) : undeleted[x] = before[g[x]]

\* While the old rows are deleted, the table has those that stay and those whose
\* turn comes.
ClearOK ==
    pc = "clear" =>
        LET u == Len(undeleted)
        IN  /\ cnt \in 1..(Len(cached) + 1)
            /\ Len(table) = u + Len(cached) - cnt + 1
            /\ \A x \in 1..u : table[x].data = undeleted[x]
            /\ \A x \in cnt..Len(cached) : table[u + x - cnt + 1] = cached[x]

\* The table begins with the old rows, the first j rows of the request and b
\* empty rows.
Begins(j, b) ==
    /\ j \in 0..Len(list) /\ b \in {0, 1}
    /\ b = 1 => "revert" \in faulty /\ j < Len(list)
    /\ Len(table) >= Len(Old) + j + b
    /\ \A x \in 1..Len(Old) : table[x].data = Old[x]
    /\ \A x \in 1..j : table[Len(Old) + x].data = list[x]
    /\ b = 1 => table[Len(Old) + j + 1].data = Blank

AddOK ==
    pc \in {"addrow", "update", "revert"} /\ ~restoring =>
        /\ op \in {"ADD_ROW", "REPLACE_ROWS"}
        /\ status = "WAL_SUCCESS"
        /\ cnt \in 1..(Len(list) + 1)
        /\ Len(added) = cnt - 1
        /\ Len(table) = Len(Old) + cnt - 1 + NewRow
        /\ Begins(cnt - 1, 0)
        /\ \A x \in 1..(cnt - 1) : table[Len(Old) + x].id = added[x]

UndoOK ==
    pc = "undo" =>
        /\ op \in {"ADD_ROW", "REPLACE_ROWS"}
        /\ ~restoring
        /\ status = "WAL_FAILURE"
        /\ cnt \in 0..Len(list)
        /\ cnt <= Len(added)
        /\ \E j \in 0..Len(list), b \in {0, 1} :
              /\ Begins(j, b)
              /\ Len(table) = Len(Old) + j + b
              /\ j = cnt \/ (cnt = 0 /\ "undo" \in faulty)
              /\ cnt > 0 => \A x \in 1..cnt : table[Len(Old) + x].id = added[x]

\* While the old rows are added back, the table has behind that a part of those
\* whose turn has come, all of them when no call fails.
Again(j, b, r) ==
    LET q == Len(Old) + j + b
    IN  /\ r <= cnt - 1
        /\ Len(table) = q + r + NewRow
        /\ IsMapped(name) /\ "restore" \notin faulty =>
              r = cnt - 1 /\ \A x \in 1..r : table[q + x].data = before[x]
        /\ \E f \in [1..r -> 1..(cnt - 1)] :
              /\ Grows(f, r)
              /\ \A x \in 1..r : table[q + x].data \in {before[f[x]], Blank}

RestoreOK ==
    restoring /\ pc # "idle" =>
        /\ pc \in {"addrow", "update", "revert", "done"}
        /\ op = "REPLACE_ROWS"
        /\ status = "WAL_FAILURE"
        /\ before = DataOf(cached)
        /\ cnt \in 1..(Len(cached) + 1)
        /\ pc = "done" => cnt = Len(cached) + 1
        /\ pc = "revert" => "restore" \in faulty
        /\ \E j \in 0..Len(list), b \in {0, 1}, r \in 0..Len(cached) :
              Begins(j, b) /\ Again(j, b, r) /\ ("undo" \notin faulty => j = 0)

DoneOK ==
    pc = "done" /\ ~restoring =>
        \/ op # "ADD_ROW" /\ status = "WAL_FAILURE" /\ Contents = before
             /\ (op = "DELETE_ROW" => "delete" \in faulty)
        \/ op = "DELETE_ROW" /\ status = "WAL_SUCCESS"
             /\ \E x \in 1..Len(before) : Contents = RemoveAt(before, x)
        \/ op # "DELETE_ROW" /\ status = "WAL_SUCCESS" /\ Contents = Old \o list
        \/ /\ op # "DELETE_ROW" /\ status = "WAL_FAILURE"
           /\ op = "REPLACE_ROWS" => before = <<>>
           /\ \E j \in 0..Len(list), b \in {0, 1} :
                 Begins(j, b) /\ Len(table) = Len(Old) + j + b /\ ("undo" \notin faulty => j = 0)

TableInv ==
    /\ TypeOK /\ Numbered /\ NewRowOK /\ RequestOK /\ UndeletedOK
    /\ ClearOK /\ AddOK /\ UndoOK /\ RestoreOK /\ DoneOK

------------------------------------------------------------------------------
(***************************************************************************)
(* The operators of the model                                              *)
(***************************************************************************)
\* Removing an element of a sequence moves those behind it.
LEMMA Removing ==
    ASSUME NEW S, NEW s \in Seq(S), NEW i \in 1..Len(s)
    PROVE  /\ RemoveAt(s, i) \in Seq(S)
           /\ Len(RemoveAt(s, i)) = Len(s) - 1
           /\ \A x \in 1..(Len(s) - 1) :
                 RemoveAt(s, i)[x] = IF x < i THEN s[x] ELSE s[x + 1]
<1> DEFINE a == SubSeq(s, 1, i - 1)
           b == SubSeq(s, i + 1, Len(s))
<1>1. Len(s) \in Nat /\ \A x \in 1..Len(s) : s[x] \in S
  BY LenProperties, ElementOfSeq
<1>2. a \in Seq(S) /\ Len(a) = i - 1 /\ \A x \in 1..(i - 1) : a[x] = s[x]
  <2>1. \A x \in 1..(i - 1) : s[x] \in S
    BY <1>1
  <2>2. i - 1 \in Int /\ 1 \in Int
    BY <1>1
  <2>3. /\ a \in Seq(S)
        /\ Len(a) = IF 1 <= i - 1 THEN i - 1 - 1 + 1 ELSE 0
        /\ \A x \in 1..(i - 1 - 1 + 1) : a[x] = s[1 + x - 1]
    BY <2>1, <2>2, SubSeqProperties
  <2> QED
    BY <1>1, <2>3
<1>3. b \in Seq(S) /\ Len(b) = Len(s) - i /\ \A x \in 1..(Len(s) - i) : b[x] = s[i + x]
  <2>1. \A x \in (i + 1)..Len(s) : s[x] \in S
    BY <1>1
  <2>2. i + 1 \in Int /\ Len(s) \in Int
    BY <1>1
  <2>3. /\ b \in Seq(S)
        /\ Len(b) = IF i + 1 <= Len(s) THEN Len(s) - (i + 1) + 1 ELSE 0
        /\ \A x \in 1..(Len(s) - (i + 1) + 1) : b[x] = s[i + 1 + x - 1]
    BY <2>1, <2>2, SubSeqProperties
  <2> QED
    BY <1>1, <2>3
<1>4. RemoveAt(s, i) = a \o b
  BY DEF RemoveAt
<1>5. /\ a \o b \in Seq(S)
      /\ Len(a \o b) = Len(a) + Len(b)
      /\ \A x \in 1..(Len(a) + Len(b)) :
            (a \o b)[x] = IF x <= Len(a) THEN a[x] ELSE b[x - Len(a)]
  BY <1>2, <1>3, ConcatProperties
<1> HIDE DEF a, b
<1>6. \A x \in 1..(Len(s) - 1) : (a \o b)[x] = IF x < i THEN s[x] ELSE s[x + 1]
  <2> SUFFICES ASSUME NEW x \in 1..(Len(s) - 1)
               PROVE  (a \o b)[x] = IF x < i THEN s[x] ELSE s[x + 1]
    OBVIOUS
  <2>1. CASE x < i
    BY <2>1, <1>1, <1>2, <1>3, <1>5
  <2>2. CASE x >= i
    <3>1. x - (i - 1) \in 1..(Len(s) - i) /\ i + (x - (i - 1)) = x + 1
      BY <2>2, <1>1
    <3>2. x \in 1..(Len(a) + Len(b)) /\ ~(x <= Len(a))
      BY <2>2, <1>1, <1>2, <1>3
    <3>3. (a \o b)[x] = b[x - (i - 1)]
      BY <3>2, <1>2, <1>5
    <3>4. b[x - (i - 1)] = s[i + (x - (i - 1))]
      BY <3>1, <1>3
    <3> QED
      BY <2>2, <3>1, <3>3, <3>4, <1>1
  <2>3. x < i \/ x >= i
    BY <1>1
  <2> QED
    BY <2>1, <2>2, <2>3, Zenon
<1> QED
  BY <1>1, <1>2, <1>3, <1>4, <1>5, <1>6

\* The data of rows, row by row.
LEMMA DataOfRows ==
    ASSUME NEW rows \in Seq(Rows)
    PROVE  /\ DataOf(rows) \in Seq(Data \cup {Blank})
           /\ Len(DataOf(rows)) = Len(rows)
           /\ \A x \in 1..Len(rows) : DataOf(rows)[x] = rows[x].data
           /\ \A x \in 1..Len(rows) : rows[x].id \in Nat /\ rows[x].data \in Data \cup {Blank}
<1>1. Len(rows) \in Nat /\ \A x \in 1..Len(rows) : rows[x] \in Rows
  BY LenProperties, ElementOfSeq
<1>2. \A x \in 1..Len(rows) : rows[x].id \in Nat /\ rows[x].data \in Data \cup {Blank}
  BY <1>1 DEF Rows
<1>3. DataOf(rows) \in [1..Len(rows) -> Data \cup {Blank}]
  BY <1>2 DEF DataOf
<1>4. DataOf(rows) \in Seq(Data \cup {Blank})
  BY <1>1, <1>3, SeqDef
<1>5. Len(DataOf(rows)) = Len(rows)
  BY <1>1, <1>3, <1>4, LenProperties
<1> QED
  BY <1>2, <1>4, <1>5 DEF DataOf

\* A sequence of rows without the row with some number is the sequence without
\* the place of that row: the numbers are distinct.
LEMMA WithoutRowAt ==
    ASSUME TypeOK, Numbered, NEW i \in 1..Len(table)
    PROVE  WithoutRow(table[i].id) = RemoveAt(table, i)
<1>1. DOMAIN table = 1..Len(table) /\ Len(table) \in Nat
  BY LenProperties DEF TypeOK
<1>2. \A k \in 1..Len(table) : table[k].id \in Nat
  BY DataOfRows DEF TypeOK
<1>3. \A k \in DOMAIN table : table[k].id = table[i].id => k = i
  BY <1>1, <1>2 DEF Numbered
<1>4. (CHOOSE k \in DOMAIN table : table[k].id = table[i].id) = i
  BY <1>1, <1>3
<1> QED
  BY <1>4 DEF WithoutRow

\* Mapping a name gives a name.
LEMMA MappedName ==
    ASSUME NEW n \in [obj : STRING, inst : Nat]
    PROVE  IndexMpa_WEBPAtoCPE(n) \in [obj : STRING, inst : Nat]
<1> DEFINE found == Match(RowsToCPE(n.obj), "WebPaInstanceNumber", n.inst)
<1>1. \A j \in 1..18 : CcspNumber(j) \in Nat
  <2> SUFFICES ASSUME NEW j \in 1..18 PROVE CcspNumber(j) \in Nat
    OBVIOUS
  <2>1. CASE j = 1
    BY <2>1 DEF CcspNumber, IndexMap, pair
  <2>2. CASE j = 2
    BY <2>2 DEF CcspNumber, IndexMap, pair
  <2>3. CASE j \in 3..10
    BY <2>3 DEF CcspNumber, IndexMap, pair
  <2>4. CASE j \in 11..18
    BY <2>4 DEF CcspNumber, IndexMap, pair
  <2> QED
    BY <2>1, <2>2, <2>3, <2>4
<1>2. found \subseteq 1..18
  <2>1. RowsToCPE(n.obj) \subseteq 1..18
    BY DEF RowsToCPE
  <2> QED
    BY <2>1 DEF Match
<1>3. CASE HasInstance(n) /\ IsMapped(n)
  <2>1. found # {}
    BY <1>3 DEF IsMapped
  <2>2. (CHOOSE j \in found : TRUE) \in found
    BY <2>1
  <2>3. CcspNumber(CHOOSE j \in found : TRUE) \in Nat
    BY <1>1, <1>2, <2>2
  <2> HIDE DEF found
  <2>4. [n EXCEPT !.inst = CcspNumber(CHOOSE j \in found : TRUE)] \in [obj : STRING, inst : Nat]
    BY <2>3
  <2> QED
    BY <1>3, <2>4 DEF IndexMpa_WEBPAtoCPE, found
<1>4. CASE ~(HasInstance(n) /\ IsMapped(n))
  BY <1>4 DEF IndexMpa_WEBPAtoCPE
<1> QED
  BY <1>3, <1>4

------------------------------------------------------------------------------
(***************************************************************************)
(* What the three calls that change the table do to it                     *)
(***************************************************************************)
LEMMA TableFacts ==
    ASSUME TypeOK
    PROVE  /\ Len(table) \in Nat /\ DOMAIN table = 1..Len(table)
           /\ \A x \in 1..Len(table) : table[x] \in Rows
           /\ \A x \in 1..Len(table) :
                 table[x].id \in Nat /\ table[x].data \in Data \cup {Blank}
           /\ Contents \in Seq(Data \cup {Blank}) /\ Len(Contents) = Len(table)
           /\ \A x \in 1..Len(table) : Contents[x] = table[x].data
<1>1. table \in Seq(Rows)
  BY DEF TypeOK
<1> QED
  BY <1>1, DataOfRows, LenProperties, ElementOfSeq DEF Contents

LEMMA RowAdded ==
    ASSUME TypeOK, Numbered, table' = WithNewRow, nextId' = nextId + 1
    PROVE  /\ table' \in Seq(Rows) /\ nextId' \in Nat
           /\ Len(table') = Len(table) + 1
           /\ \A x \in 1..Len(table) : table'[x] = table[x]
           /\ table'[Len(table) + 1] = [id |-> nextId, data |-> Blank]
           /\ Numbered'
<1> DEFINE r == [id |-> nextId, data |-> Blank]
<1>1. r \in Rows /\ table \in Seq(Rows) /\ nextId \in Nat
  BY DEF TypeOK, Rows
<1>2. table' = Append(table, r)
  BY DEF WithNewRow
<1>3. /\ table' \in Seq(Rows) /\ Len(table') = Len(table) + 1
      /\ \A x \in 1..Len(table) : table'[x] = table[x]
      /\ table'[Len(table) + 1] = r
  <2> HIDE DEF r
  <2> QED
    BY <1>1, <1>2, AppendProperties
<1>4. Len(table) \in Nat /\ \A x \in 1..Len(table) : table[x].id \in Nat
  BY TableFacts
<1>5. \A x \in 1..Len(table') :
         \/ x \in 1..Len(table) /\ table'[x].id = table[x].id
         \/ x = Len(table) + 1 /\ table'[x].id = nextId
  BY <1>3, <1>4
<1>6. Numbered'
  <2>1. \A x \in 1..Len(table') : table'[x].id < nextId'
    BY <1>1, <1>4, <1>5 DEF Numbered
  <2>2. \A x, y \in 1..Len(table') : x < y => table'[x].id < table'[y].id
    <3> SUFFICES ASSUME NEW x \in 1..Len(table'), NEW y \in 1..Len(table'), x < y
                 PROVE  table'[x].id < table'[y].id
      OBVIOUS
    <3>1. x \in 1..Len(table) /\ table'[x].id = table[x].id
      BY <1>3, <1>4, <1>5
    <3>2. CASE y \in 1..Len(table)
      BY <3>1, <3>2, <1>3 DEF Numbered
    <3>3. CASE y = Len(table) + 1
      BY <3>1, <3>3, <1>3 DEF Numbered
    <3> QED
      BY <3>2, <3>3, <1>5
  <2> QED
    BY <2>1, <2>2 DEF Numbered
<1> QED
  BY <1>1, <1>3, <1>6

LEMMA RowSet ==
    ASSUME TypeOK, Numbered, Len(table) > 0, NEW d \in Data \cup {Blank},
           table' = WithData(d), nextId' = nextId
    PROVE  /\ table' \in Seq(Rows)
           /\ Len(table') = Len(table)
           /\ \A x \in 1..(Len(table) - 1) : table'[x] = table[x]
           /\ table'[Len(table)].id = table[Len(table)].id
           /\ table'[Len(table)].data = d
           /\ Numbered'
<1> DEFINE n == Len(table)
           r == [table[n] EXCEPT !.data = d]
<1>1. table \in Seq(Rows) /\ n \in Nat /\ n \in 1..n
  BY TableFacts DEF TypeOK
<1>2. table[n] \in Rows
  BY <1>1, TableFacts
<1>3. r \in Rows /\ r.id = table[n].id /\ r.data = d
  BY <1>2 DEF Rows
<1>4. table' = [table EXCEPT ![n] = r]
  BY DEF WithData
<1> HIDE DEF r
<1>5. /\ table' \in Seq(Rows) /\ Len(table') = n
      /\ \A x \in 1..n : table'[x] = IF x = n THEN r ELSE table[x]
  BY <1>1, <1>3, <1>4, ExceptSeq
<1>6. \A x \in 1..n : table'[x].id = table[x].id
  BY <1>3, <1>5
<1>7. Numbered'
  BY <1>5, <1>6 DEF Numbered
<1> QED
  BY <1>1, <1>3, <1>5, <1>7

LEMMA RowDeleted ==
    ASSUME TypeOK, Numbered, NEW i \in 1..Len(table),
           table' = WithoutRow(table[i].id), nextId' = nextId
    PROVE  /\ table' \in Seq(Rows)
           /\ Len(table') = Len(table) - 1
           /\ \A x \in 1..(Len(table) - 1) :
                 table'[x] = IF x < i THEN table[x] ELSE table[x + 1]
           /\ Numbered'
           /\ table' = RemoveAt(table, i)
<1>1. table \in Seq(Rows) /\ Len(table) \in Nat
  BY TableFacts DEF TypeOK
<1>2. table' = RemoveAt(table, i)
  BY WithoutRowAt
<1>3. /\ table' \in Seq(Rows)
      /\ Len(table') = Len(table) - 1
      /\ \A x \in 1..(Len(table) - 1) :
            table'[x] = IF x < i THEN table[x] ELSE table[x + 1]
  BY <1>1, <1>2, Removing
<1>4. \A x \in 1..(Len(table) - 1) :
         \E z \in 1..Len(table) : /\ table'[x] = table[z]
                                  /\ z = IF x < i THEN x ELSE x + 1
  <2> SUFFICES ASSUME NEW x \in 1..(Len(table) - 1)
               PROVE  \E z \in 1..Len(table) : /\ table'[x] = table[z]
                                               /\ z = IF x < i THEN x ELSE x + 1
    OBVIOUS
  <2>1. CASE x < i
    BY <2>1, <1>1, <1>3
  <2>2. CASE ~(x < i)
    BY <2>2, <1>1, <1>3
  <2> QED
    BY <2>1, <2>2
<1>5. Numbered'
  <2>1. \A x \in 1..Len(table') : table'[x].id < nextId'
    BY <1>1, <1>3, <1>4 DEF Numbered
  <2>2. \A x, y \in 1..Len(table') : x < y => table'[x].id < table'[y].id
    <3> SUFFICES ASSUME NEW x \in 1..Len(table'), NEW y \in 1..Len(table'), x < y
                 PROVE  table'[x].id < table'[y].id
      OBVIOUS
    <3>1. PICK zx \in 1..Len(table) : /\ table'[x] = table[zx]
                                      /\ zx = IF x < i THEN x ELSE x + 1
      BY <1>3, <1>4
    <3>2. PICK zy \in 1..Len(table) : /\ table'[y] = table[zy]
                                      /\ zy = IF y < i THEN y ELSE y + 1
      BY <1>3, <1>4
    <3>3. zx < zy
      BY <3>1, <3>2, <1>1, <1>3
    <3> QED
      BY <3>1, <3>2, <3>3 DEF Numbered
  <2> QED
    BY <2>1, <2>2 DEF Numbered
<1> QED
  BY <1>2, <1>3, <1>5

\* When no old row stays, those that stay are a part of whatever there was.
LEMMA NoneStays ==
    ASSUME NEW b, NEW n \in Nat, NEW u, u = <<>>
    PROVE  /\ Len(u) = 0
           /\ Len(u) <= n
           /\ \E g \in [1..Len(u) -> 1..n] :
                 /\ Grows(g, Len(u))
                 /\ \A x \in 1..Len(u) : u[x] = b[g[x]]
<1>1. Len(u) = 0
  BY EmptySeq
<1>2. /\ [x \in 1..Len(u) |-> x] \in [1..Len(u) -> 1..n]
      /\ \A x \in 1..Len(u) : FALSE
  BY <1>1
<1>3. \E g \in [1..Len(u) -> 1..n] :
         /\ Grows(g, Len(u))
         /\ \A x \in 1..Len(u) : u[x] = b[g[x]]
  <2> WITNESS [x \in 1..Len(u) |-> x] \in [1..Len(u) -> 1..n]
  <2> QED
    BY <1>2, Zenon DEF Grows
<1>4. Len(u) <= n
  BY <1>1
<1> QED
  BY <1>1, <1>3, <1>4, Zenon

------------------------------------------------------------------------------
(***************************************************************************)
(* The invariant at first, and when a request arrives or is answered       *)
(***************************************************************************)
LEMMA InitInv == Init => TableInv
<1> SUFFICES ASSUME Init PROVE TableInv
  OBVIOUS
<1>0. PICK k \in 0..MaxRows : \E l \in [1..k -> Data \cup {Blank}] :
         table = [x \in 1..Len(l) |-> [id |-> x, data |-> l[x]]]
  BY DEF Init
<1>1. PICK l \in [1..k -> Data \cup {Blank}] :
         table = [x \in 1..Len(l) |-> [id |-> x, data |-> l[x]]]
  BY <1>0
<1>2. k \in Nat /\ l \in Seq(Data \cup {Blank}) /\ Len(l) = k
  <2>1. k \in Nat
    BY TableAssumption DEF TableAssumption
  <2> QED
    BY <2>1, SeqDef, LenProperties
<1>3. \A x \in 1..k : [id |-> x, data |-> l[x]] \in Rows
  BY <1>2 DEF Rows
<1>4. table \in [1..k -> Rows]
  BY <1>1, <1>2, <1>3
<1>5. table \in Seq(Rows) /\ Len(table) = k
  <2>1. table \in Seq(Rows)
    BY <1>2, <1>4, SeqDef
  <2> QED
    BY <2>1, <1>2, <1>4, LenProperties
<1>6. TypeOK
  <2>1. restoring \in BOOLEAN
    BY DEF Init
  <2> QED
    BY <2>1, <1>2, <1>5, TableAssumption DEF Init, TypeOK, TableAssumption
<1>7. Numbered
  BY <1>1, <1>2, <1>5 DEF Init, Numbered
<1>8. NewRowOK /\ RequestOK /\ UndeletedOK /\ ClearOK /\ AddOK /\ UndoOK /\ RestoreOK /\ DoneOK
  BY DEF Init, NewRowOK, RequestOK, UndeletedOK, ClearOK, AddOK, UndoOK, RestoreOK, DoneOK
<1> QED
  BY <1>6, <1>7, <1>8 DEF TableInv

LEMMA ReplaceArrives == TableInv /\ replaceTable => TableInv'
<1> SUFFICES ASSUME TableInv, replaceTable PROVE TableInv'
  OBVIOUS
<1> USE DEF TableInv
<1>1. PICK l \in Lists : Arrives("REPLACE_ROWS", l)
  BY DEF replaceTable
<1>2. l \in Seq(Data)
  BY TableAssumption, SeqDef DEF Lists, TableAssumption
<1>3. name' \in [obj : STRING, inst : Nat]
  BY MappedName, TableAssumption DEF replaceTable, TypeOK, TableAssumption
<1>4. Contents \in Seq(Data \cup {Blank}) /\ Contents' = Contents /\ before' = Contents
  BY <1>1, TableFacts DEF replaceTable, Arrives, Contents, DataOf
<1>5. TypeOK'
  <2>1. restoring' \in BOOLEAN
    BY <1>1 DEF Arrives
  <2> QED
    BY <2>1, <1>1, <1>2, <1>3, <1>4, TableAssumption
       DEF replaceTable, Arrives, TypeOK, TableAssumption
<1>6. Numbered' /\ NewRowOK'
  BY DEF replaceTable, Numbered, NewRowOK
<1>7. RequestOK'
  BY <1>1, <1>4 DEF replaceTable, Arrives, RequestOK
<1>8. UndeletedOK'
  <2>1. undeleted' = <<>> /\ Len(before') \in Nat /\ pc' # "clear"
    BY <1>1, <1>4 DEF replaceTable, Arrives
  <2> QED
    BY <2>1, NoneStays DEF UndeletedOK
<1>9. ClearOK' /\ AddOK' /\ UndoOK' /\ RestoreOK'
  BY <1>1 DEF replaceTable, Arrives, ClearOK, AddOK, UndoOK, RestoreOK
<1>10. DoneOK'
  BY <1>1, <1>4 DEF replaceTable, Arrives, DoneOK
<1> QED
  BY <1>5, <1>6, <1>7, <1>8, <1>9, <1>10

LEMMA AddArrives == TableInv /\ addRowRequest => TableInv'
<1> SUFFICES ASSUME TableInv, addRowRequest PROVE TableInv'
  OBVIOUS
<1> USE DEF TableInv
<1>1. PICK d \in Data : Arrives("ADD_ROW", <<d>>)
  BY DEF addRowRequest
<1>2. <<d>> \in Seq(Data) /\ Len(<<d>>) = 1
  OBVIOUS
<1>3. name' \in [obj : STRING, inst : Nat]
  BY TableAssumption DEF addRowRequest, TypeOK, TableAssumption
<1>4. /\ Contents \in Seq(Data \cup {Blank}) /\ Contents' = Contents /\ before' = Contents
      /\ Len(Contents) = Len(table) /\ Len(table) \in Nat
      /\ \A x \in 1..Len(table) : Contents[x] = table[x].data
  BY <1>1, TableFacts DEF addRowRequest, Arrives, Contents, DataOf
<1>5. TypeOK'
  <2>1. restoring' \in BOOLEAN
    BY <1>1 DEF Arrives
  <2> QED
    BY <2>1, <1>1, <1>2, <1>3, <1>4, TableAssumption
       DEF addRowRequest, Arrives, TypeOK, TableAssumption
<1>6. Numbered' /\ NewRowOK'
  BY DEF addRowRequest, Numbered, NewRowOK
<1>7. RequestOK'
  BY <1>1, <1>2, <1>4 DEF addRowRequest, Arrives, RequestOK
<1>8. UndeletedOK'
  <2>1. undeleted' = <<>> /\ Len(before') \in Nat /\ pc' # "clear"
    BY <1>1, <1>4 DEF addRowRequest, Arrives
  <2> QED
    BY <2>1, NoneStays DEF UndeletedOK
<1>9. ClearOK' /\ UndoOK' /\ RestoreOK' /\ DoneOK'
  BY <1>1 DEF addRowRequest, Arrives, ClearOK, UndoOK, RestoreOK, DoneOK
<1>10. AddOK'
  <2>1. /\ Old' = before' /\ table' = table /\ NewRow' = 0 /\ cnt' = 1 /\ added' = <<>>
        /\ list' = <<d>> /\ op' = "ADD_ROW" /\ status' = "WAL_SUCCESS"
    BY <1>1 DEF addRowRequest, Arrives, Old, NewRow
  <2>2. Begins(0, 0)'
    BY <2>1, <1>2, <1>4 DEF Begins
  <2> QED
    BY <2>1, <2>2, <1>2, <1>4 DEF AddOK
<1> QED
  BY <1>5, <1>6, <1>7, <1>8, <1>9, <1>10

LEMMA DeleteArrives == TableInv /\ deleteRowTable => TableInv'
<1> SUFFICES ASSUME TableInv, deleteRowTable PROVE TableInv'
  OBVIOUS
<1> USE DEF TableInv
<1>1. /\ pc' = "done" /\ op' = "DELETE_ROW" /\ list' = <<>> /\ cached' = <<>> /\ cnt' = 0
      /\ restoring' = FALSE /\ added' = <<>> /\ undeleted' = <<>> /\ before' = Contents
      /\ requests' \in 0..MaxRequests /\ nextId' = nextId /\ objectName' = objectName
      /\ name' = objectName /\ faulty' \subseteq {"delete"}
      /\ status' \in {"WAL_SUCCESS", "WAL_FAILURE"}
  <2>1. Arrives("DELETE_ROW", <<>>)
    BY DEF deleteRowTable
  <2>2. restoring' = FALSE
    BY <2>1 DEF Arrives
  <2> QED
    BY <2>1, <2>2, TableAssumption DEF deleteRowTable, Arrives, TypeOK, TableAssumption
<1>2. Contents \in Seq(Data \cup {Blank}) /\ Len(Contents) = Len(table) /\ Len(table) \in Nat
  BY TableFacts
<1>3. table' \in Seq(Rows) /\ Numbered' /\ DoneOK'
  <2>1. ASSUME NEW k \in DOMAIN table, table' = WithoutRow(table[k].id), status' = "WAL_SUCCESS"
        PROVE  table' \in Seq(Rows) /\ Numbered' /\ DoneOK'
    <3>1. k \in 1..Len(table)
      BY TableFacts
    <3>2. /\ table' \in Seq(Rows)
          /\ Len(table') = Len(table) - 1
          /\ \A x \in 1..(Len(table) - 1) :
                table'[x] = IF x < k THEN table[x] ELSE table[x + 1]
          /\ Numbered'
      BY <1>1, <2>1, <3>1, RowDeleted
    <3>3. /\ RemoveAt(Contents, k) \in Seq(Data \cup {Blank})
          /\ Len(RemoveAt(Contents, k)) = Len(Contents) - 1
          /\ \A x \in 1..(Len(Contents) - 1) :
                RemoveAt(Contents, k)[x] = IF x < k THEN Contents[x] ELSE Contents[x + 1]
      BY <1>2, <3>1, Removing
    <3>4. /\ Contents' \in Seq(Data \cup {Blank}) /\ Len(Contents') = Len(table')
          /\ \A x \in 1..Len(table') : Contents'[x] = table'[x].data
      BY <3>2, DataOfRows DEF Contents
    <3>5. \A x \in 1..(Len(table) - 1) : Contents'[x] = RemoveAt(Contents, k)[x]
      <4> SUFFICES ASSUME NEW x \in 1..(Len(table) - 1)
                   PROVE  Contents'[x] = RemoveAt(Contents, k)[x]
        OBVIOUS
      <4>1. x \in 1..Len(table) /\ x + 1 \in 1..Len(table) /\ x \in 1..Len(table')
        BY <1>2, <3>2
      <4>2. CASE x < k
        BY <4>1, <4>2, <1>2, <3>2, <3>3, <3>4, TableFacts
      <4>3. CASE ~(x < k)
        BY <4>1, <4>3, <1>2, <3>2, <3>3, <3>4, TableFacts
      <4> QED
        BY <4>2, <4>3
    <3>6. Contents' = RemoveAt(Contents, k)
      BY <3>2, <3>3, <3>4, <3>5, <1>2, SeqEqual
    <3>7. DoneOK'
      BY <1>1, <1>2, <2>1, <3>1, <3>6 DEF DoneOK
    <3> QED
      BY <3>2, <3>7
  <2>2. ASSUME status' = "WAL_FAILURE", faulty' = {"delete"}, UNCHANGED table
        PROVE  table' \in Seq(Rows) /\ Numbered' /\ DoneOK'
    BY <1>1, <2>2 DEF TypeOK, Numbered, DoneOK, Contents, DataOf
  <2> QED
    BY <2>1, <2>2 DEF deleteRowTable
<1>4. TypeOK'
  <2>1. restoring' \in BOOLEAN
    BY <1>1
  <2>2. cnt' \in 0..(1 + Len(list')) /\ ~restoring' /\ pc' # "clear"
    BY <1>1
  <2> QED
    BY <2>1, <2>2, <1>1, <1>2, <1>3, TableAssumption DEF TypeOK, TableAssumption
<1>5. NewRowOK' /\ ClearOK' /\ AddOK' /\ UndoOK' /\ RestoreOK' /\ RequestOK'
  BY <1>1 DEF NewRowOK, ClearOK, AddOK, UndoOK, RestoreOK, RequestOK
<1>6. UndeletedOK'
  BY <1>1, <1>2, NoneStays DEF UndeletedOK
<1> QED
  BY <1>3, <1>4, <1>5, <1>6

LEMMA ReportKeeps == TableInv /\ Report => TableInv'
<1> SUFFICES ASSUME TableInv, Report PROVE TableInv'
  OBVIOUS
<1> USE DEF TableInv
<1>1. TypeOK'
  <2>1. restoring' \in BOOLEAN
    BY DEF Report
  <2> QED
    BY <2>1 DEF Report, TypeOK
<1>2. Numbered'
  BY DEF Report, Numbered
<1> QED
  BY <1>1, <1>2
     DEF Report, NewRowOK, RequestOK, UndeletedOK, ClearOK, AddOK, UndoOK, RestoreOK, DoneOK

------------------------------------------------------------------------------
(***************************************************************************)
(* Reading and deleting the old rows                                       *)
(***************************************************************************)
\* A choice of places that grows may have the next place too, or not.
LEMMA NextPlace ==
    ASSUME NEW r \in Nat, NEW n \in Nat, NEW m, m = n + 1,
           NEW f \in [1..r -> 1..n], Grows(f, r)
    PROVE  /\ f \in [1..r -> 1..m]
           /\ WithPlace(f, r, m) \in [1..(r + 1) -> 1..m]
           /\ Grows(WithPlace(f, r, m), r + 1)
<1> DEFINE h == WithPlace(f, r, m)
<1>1. \A x \in 1..r : f[x] \in 1..n
  OBVIOUS
<1>2. h \in [1..(r + 1) -> 1..m]
  BY <1>1 DEF WithPlace
<1>3. h[r + 1] = m /\ \A x \in 1..r : h[x] = f[x]
  BY DEF WithPlace
<1>4. \A x \in 1..(r + 1) : x = r + 1 \/ x \in 1..r
  OBVIOUS
<1> HIDE DEF h
<1>5. Grows(h, r + 1)
  <2> SUFFICES ASSUME NEW x \in 1..(r + 1), NEW y \in 1..(r + 1), x < y PROVE h[x] < h[y]
    BY DEF Grows
  <2>1. x \in 1..r
    OBVIOUS
  <2>2. CASE y = r + 1
    BY <2>1, <2>2, <1>1, <1>3
  <2>3. CASE y \in 1..r
    BY <2>1, <2>3, <1>3 DEF Grows
  <2> QED
    BY <2>2, <2>3, <1>4
<1>6. f \in [1..r -> 1..m]
  BY <1>1
<1> QED
  BY <1>2, <1>3, <1>5, <1>6 DEF h

LEMMA CacheKeeps == TableInv /\ cacheTableData => TableInv'
<1> SUFFICES ASSUME TableInv, cacheTableData PROVE TableInv'
  OBVIOUS
<1> USE DEF TableInv
<1>1. /\ pc = "cache" /\ op = "REPLACE_ROWS" /\ restoring = FALSE /\ added = <<>>
      /\ status = "WAL_SUCCESS" /\ Contents = before /\ undeleted = <<>>
  BY DEF cacheTableData, RequestOK, TypeOK
<1>2. /\ op' = op /\ objectName' = objectName /\ name' = name /\ table' = table
      /\ nextId' = nextId /\ before' = before /\ undeleted' = undeleted /\ list' = list
      /\ restoring' = restoring /\ added' = added /\ requests' = requests /\ faulty' = faulty
  BY DEF cacheTableData, requestVars
<1>3. TypeOK'
  <2>1. /\ cached' \in Seq(Rows) /\ pc' \in {"clear", "done"}
        /\ status' \in {"WAL_SUCCESS", "WAL_FAILURE"}
    BY DEF cacheTableData, TypeOK
  <2>2. cnt' \in 0..(1 + IF pc' = "clear" THEN Len(cached') ELSE Len(list'))
    BY <1>1, <1>2, TableFacts DEF cacheTableData, TypeOK
  <2>3. restoring' = FALSE /\ restoring' \in BOOLEAN
    BY <1>1, <1>2
  <2> QED
    BY <1>2, <2>1, <2>2, <2>3 DEF TypeOK
<1>4. Numbered' /\ NewRowOK' /\ AddOK' /\ UndoOK' /\ RestoreOK'
  BY <1>1, <1>2 DEF cacheTableData, Numbered, NewRowOK, AddOK, UndoOK, RestoreOK
<1>5. UndeletedOK'
  <2>1. undeleted' = <<>>
    BY <1>1, <1>2
  <2>2. (IF pc' = "clear" THEN cnt' - 1 ELSE Len(before')) \in Nat
    BY <1>2 DEF cacheTableData, TypeOK
  <2> QED
    BY <2>1, <2>2, NoneStays DEF UndeletedOK
<1>6. CASE cached' = table /\ cnt' = 1 /\ pc' = "clear" /\ UNCHANGED status
  <2>1. before' = DataOf(cached')
    BY <1>1, <1>2, <1>6 DEF Contents
  <2>2. RequestOK'
    BY <1>1, <1>2, <1>6, <2>1 DEF RequestOK
  <2>3. ClearOK' /\ DoneOK'
    BY <1>1, <1>2, <1>6, TableFacts DEF ClearOK, DoneOK
  <2> QED
    BY <1>3, <1>4, <1>5, <2>2, <2>3
<1>7. CASE status' = "WAL_FAILURE" /\ pc' = "done" /\ UNCHANGED <<cached, cnt>>
  <2>1. Contents' = before'
    BY <1>1, <1>2 DEF Contents, DataOf
  <2>2. RequestOK' /\ ClearOK' /\ DoneOK'
    BY <1>1, <1>2, <1>7, <2>1 DEF RequestOK, ClearOK, DoneOK
  <2> QED
    BY <1>3, <1>4, <1>5, <2>2
<1> QED
  BY <1>6, <1>7 DEF cacheTableData

LEMMA DeleteOldKeeps == TableInv /\ DeleteOldRow => TableInv'
<1> SUFFICES ASSUME TableInv, DeleteOldRow PROVE TableInv'
  OBVIOUS
<1> USE DEF TableInv
<1> DEFINE u == Len(undeleted)
<1>1. /\ pc = "clear" /\ cnt <= Len(cached) /\ cnt' = cnt + 1 /\ nextId' = nextId
      /\ pc' = pc /\ cached' = cached /\ restoring' = restoring /\ added' = added
      /\ status' = status /\ op' = op /\ list' = list /\ requests' = requests
      /\ before' = before /\ objectName' = objectName /\ name' = name
  BY DEF DeleteOldRow, RowCount, requestVars
<1>2. /\ op = "REPLACE_ROWS" /\ restoring = FALSE /\ before = DataOf(cached)
      /\ status = "WAL_SUCCESS"
  BY <1>1 DEF RequestOK, TypeOK
<1>3. /\ u \in Nat /\ Len(cached) \in Nat /\ cnt \in 1..Len(cached)
      /\ Len(table) = u + Len(cached) - cnt + 1
      /\ \A x \in 1..u : table[x].data = undeleted[x]
      /\ \A x \in cnt..Len(cached) : table[u + x - cnt + 1] = cached[x]
  BY <1>1 DEF ClearOK, TypeOK
<1>4. u + 1 \in 1..Len(table) /\ table[u + 1] = cached[cnt]
  <2>1. cnt \in cnt..Len(cached) /\ u + cnt - cnt + 1 = u + 1
    BY <1>3
  <2>2. table[u + cnt - cnt + 1] = cached[cnt]
    BY <2>1, <1>3
  <2>3. u + 1 \in 1..Len(table)
    BY <1>3
  <2> HIDE DEF u
  <2> QED
    BY <2>1, <2>2, <2>3
<1>5. /\ before[cnt] = cached[cnt].data /\ cached[cnt].data \in Data \cup {Blank}
      /\ Len(before) = Len(cached)
  BY <1>2, <1>3, DataOfRows DEF TypeOK
<1>n. PICK n \in Nat : cnt = n + 1
  <2>1. cnt \in Nat /\ cnt >= 1
    BY <1>3
  <2>2. cnt - 1 \in Nat /\ cnt = (cnt - 1) + 1
    BY <2>1
  <2> QED
    BY <2>2
<1>6. PICK g \in [1..u -> 1..n] :
         /\ Grows(g, u)
         /\ \A x \in 1..u : undeleted[x] = before[g[x]]
  <2>1. cnt - 1 = n
    BY <1>n
  <2> QED
    BY <1>1, <2>1 DEF UndeletedOK
<1>7. u <= cnt - 1 /\ ("delete" \notin faulty => undeleted = <<>>)
  BY <1>1 DEF UndeletedOK
<1> DEFINE h == WithPlace(g, u, cnt)
<1>8. /\ g \in [1..u -> 1..cnt]
      /\ h \in [1..(u + 1) -> 1..cnt] /\ Grows(h, u + 1)
      /\ \A x \in 1..u : h[x] = g[x]
      /\ h[u + 1] = cnt
  <2>1. u \in Nat
    BY <1>3
  <2> HIDE DEF u
  <2>2. /\ g \in [1..u -> 1..cnt]
        /\ WithPlace(g, u, cnt) \in [1..(u + 1) -> 1..cnt]
        /\ Grows(WithPlace(g, u, cnt), u + 1)
    BY <2>1, <1>n, <1>6, NextPlace
  <2>3. /\ \A x \in 1..u : WithPlace(g, u, cnt)[x] = g[x]
        /\ WithPlace(g, u, cnt)[u + 1] = cnt
    BY <2>1 DEF WithPlace
  <2> QED
    BY <2>2, <2>3
<1> HIDE DEF h
<1>9. RequestOK' /\ NewRowOK' /\ AddOK' /\ UndoOK' /\ RestoreOK' /\ DoneOK'
  BY <1>1, <1>2 DEF RequestOK, NewRowOK, AddOK, UndoOK, RestoreOK, DoneOK
<1>10. restoring' \in BOOLEAN /\ cnt' \in 0..(1 + Len(cached'))
  <2>1. restoring' \in BOOLEAN
    BY <1>1, <1>2
  <2>2. cnt' \in 0..(1 + Len(cached'))
    BY <1>1, <1>3
  <2> QED
    BY <2>1, <2>2
<1>11. ASSUME table' = WithoutRow(cached[cnt].id), UNCHANGED <<undeleted, faulty>>
       PROVE  TableInv'
  <2>1. /\ table' \in Seq(Rows)
        /\ Len(table') = Len(table) - 1
        /\ \A x \in 1..(Len(table) - 1) :
              table'[x] = IF x < u + 1 THEN table[x] ELSE table[x + 1]
        /\ Numbered'
    BY <1>1, <1>4, <1>11, RowDeleted
  <2>2. TypeOK'
    BY <1>1, <1>10, <1>11, <2>1 DEF TypeOK
  <2>3. \A x \in 1..u : table'[x].data = undeleted[x]
    <3> SUFFICES ASSUME NEW x \in 1..u PROVE table'[x].data = undeleted[x]
      OBVIOUS
    <3>1. x \in 1..(Len(table) - 1) /\ x < u + 1
      BY <1>3
    <3>2. table'[x] = table[x]
      BY <2>1, <3>1
    <3> QED
      BY <1>3, <3>2
  <2>4. \A x \in cnt'..Len(cached') : table'[u + x - cnt' + 1] = cached'[x]
    <3> SUFFICES ASSUME NEW x \in (cnt + 1)..Len(cached)
                 PROVE  table'[u + x - (cnt + 1) + 1] = cached[x]
      BY <1>1
    <3> DEFINE y == u + x - (cnt + 1) + 1
    <3>1. y \in 1..(Len(table) - 1) /\ ~(y < u + 1) /\ y + 1 = u + x - cnt + 1
      BY <1>3
    <3>2. table'[y] = table[y + 1]
      BY <2>1, <3>1
    <3> QED
      BY <1>3, <3>1, <3>2
  <2>5. ClearOK'
    <3>1. /\ cnt' \in 1..(Len(cached') + 1) /\ Len(undeleted') = u
          /\ Len(table') = u + Len(cached') - cnt' + 1
      BY <1>1, <1>3, <1>11, <2>1
    <3> QED
      BY <1>11, <2>3, <2>4, <3>1 DEF ClearOK
  <2>6. UndeletedOK'
    <3>1. undeleted' = undeleted /\ faulty' = faulty /\ cnt' - 1 = cnt /\ u <= cnt
      BY <1>1, <1>3, <1>7, <1>11
    <3>2. \E g1 \in [1..u -> 1..cnt] :
             /\ Grows(g1, u)
             /\ \A x \in 1..u : undeleted[x] = before[g1[x]]
      BY <1>6, <1>8, Zenon
    <3> QED
      BY <1>1, <1>7, <3>1, <3>2 DEF UndeletedOK
  <2> QED
    BY <2>1, <2>2, <2>5, <2>6, <1>9
<1>12. ASSUME undeleted' = Append(undeleted, cached[cnt].data), Failed("delete"),
              UNCHANGED table
       PROVE  TableInv'
  <2>1. /\ undeleted' \in Seq(Data \cup {Blank}) /\ Len(undeleted') = u + 1
        /\ \A x \in 1..u : undeleted'[x] = undeleted[x]
        /\ undeleted'[u + 1] = cached[cnt].data
    BY <1>5, <1>12, AppendProperties DEF TypeOK
  <2>2. TypeOK'
    BY <1>1, <1>10, <1>12, <2>1 DEF TypeOK, Failed
  <2>3. Numbered'
    BY <1>1, <1>12 DEF Numbered
  <2>4. ClearOK'
    <3>1. \A x \in 1..(u + 1) : table[x].data = undeleted'[x]
      <4>1. \A x \in 1..(u + 1) : x \in 1..u \/ x = u + 1
        BY <1>3
      <4> QED
        BY <1>3, <1>4, <2>1, <4>1
    <3>2. \A x \in cnt'..Len(cached') :
             table'[Len(undeleted') + x - cnt' + 1] = cached'[x]
      <4> SUFFICES ASSUME NEW x \in cnt'..Len(cached')
                   PROVE  table'[Len(undeleted') + x - cnt' + 1] = cached'[x]
        OBVIOUS
      <4>1. /\ Len(undeleted') + x - cnt' + 1 = u + x - cnt + 1
            /\ x \in cnt..Len(cached)
        BY <1>1, <1>3, <2>1
      <4> QED
        BY <1>1, <1>3, <1>12, <4>1
    <3>3. /\ cnt' \in 1..(Len(cached') + 1)
          /\ Len(table') = Len(undeleted') + Len(cached') - cnt' + 1
      BY <1>1, <1>3, <1>12, <2>1
    <3>4. \A x \in 1..Len(undeleted') : table'[x].data = undeleted'[x]
      BY <1>12, <2>1, <3>1
    <3> QED
      BY <3>2, <3>3, <3>4, Zenon DEF ClearOK
  <2>5. UndeletedOK'
    <3>2. \A x \in 1..(u + 1) : undeleted'[x] = before'[h[x]]
      <4>1. \A x \in 1..(u + 1) : x \in 1..u \/ x = u + 1
        BY <1>3
      <4> QED
        BY <1>1, <1>5, <1>6, <1>8, <2>1, <4>1 DEF Grows
    <3>3. cnt' - 1 = cnt /\ u + 1 <= cnt /\ "delete" \in faulty'
      BY <1>1, <1>3, <1>7, <1>12 DEF Failed
    <3>4. \E g1 \in [1..(u + 1) -> 1..cnt] :
             /\ Grows(g1, u + 1)
             /\ \A x \in 1..(u + 1) : undeleted'[x] = before'[g1[x]]
      BY <1>8, <3>2, Zenon
    <3>5. cnt' - 1 = cnt /\ Len(undeleted') = u + 1
      BY <3>3, <2>1
    <3>6. \E g1 \in [1..Len(undeleted') -> 1..(cnt' - 1)] :
             /\ Grows(g1, Len(undeleted'))
             /\ \A x \in 1..Len(undeleted') : undeleted'[x] = before'[g1[x]]
      BY <3>4, <3>5, Zenon
    <3>7. Len(undeleted') <= cnt' - 1 /\ pc' = "clear" /\ "delete" \in faulty'
      BY <1>1, <3>3, <3>5
    <3> QED
      BY <3>6, <3>7 DEF UndeletedOK
  <2> QED
    BY <2>2, <2>3, <2>4, <2>5, <1>9
<1> QED
  BY <1>11, <1>12 DEF DeleteOldRow

LEMMA DeleteAllEndsKeeps == TableInv /\ deleteAllTableDataEnds => TableInv'
<1> SUFFICES ASSUME TableInv, deleteAllTableDataEnds PROVE TableInv'
  OBVIOUS
<1> USE DEF TableInv
<1> DEFINE u == Len(undeleted)
<1>1. /\ pc = "clear" /\ cnt > Len(cached) /\ table' = table /\ nextId' = nextId
      /\ cached' = cached /\ restoring' = restoring /\ added' = added
      /\ status' = status /\ op' = op /\ list' = list /\ requests' = requests
      /\ before' = before /\ objectName' = objectName /\ name' = name
      /\ undeleted' = undeleted /\ faulty' = faulty
  BY DEF deleteAllTableDataEnds, RowCount, requestVars
<1>2. /\ op = "REPLACE_ROWS" /\ restoring = FALSE /\ before = DataOf(cached)
      /\ status = "WAL_SUCCESS" /\ added = <<>>
  BY <1>1 DEF RequestOK, TypeOK
<1>3. /\ u \in Nat /\ Len(cached) \in Nat /\ cnt = Len(cached) + 1 /\ Len(table) = u
      /\ \A x \in 1..u : table[x].data = undeleted[x]
  <2>1. u \in Nat /\ Len(cached) \in Nat
    BY DEF TypeOK
  <2>2. /\ cnt \in 1..(Len(cached) + 1) /\ Len(table) = u + Len(cached) - cnt + 1
        /\ \A x \in 1..u : table[x].data = undeleted[x]
    BY <1>1 DEF ClearOK
  <2>3. cnt = Len(cached) + 1
    BY <1>1, <2>1, <2>2
  <2> QED
    BY <2>1, <2>2, <2>3
<1>4. Len(before) = cnt - 1
  BY <1>2, <1>3, DataOfRows DEF TypeOK
<1>5. /\ pc' \in {"done", "addrow"}
      /\ pc' = "done" => list = <<>> /\ cnt' = 0
      /\ pc' = "addrow" => cnt' = 1
  BY DEF deleteAllTableDataEnds
<1>6. TypeOK'
  <2>1. restoring' \in BOOLEAN /\ ~restoring'
    BY <1>1, <1>2
  <2>2. cnt' \in 0..(1 + Len(list'))
    BY <1>1, <1>5 DEF TypeOK
  <2> QED
    BY <1>1, <1>5, <2>1, <2>2 DEF TypeOK
<1>7. Numbered' /\ NewRowOK' /\ RequestOK' /\ ClearOK' /\ UndoOK' /\ RestoreOK'
  BY <1>1, <1>2, <1>5 DEF Numbered, NewRowOK, RequestOK, ClearOK, UndoOK, RestoreOK
<1>8. UndeletedOK'
  BY <1>1, <1>4, <1>5 DEF UndeletedOK
<1>9. AddOK'
  <2> SUFFICES ASSUME pc' = "addrow" PROVE AddOK'
    BY <1>5 DEF AddOK
  <2>1. Old' = undeleted /\ NewRow' = 0 /\ Len(list) \in Nat
    BY <1>1, <1>2 DEF Old, NewRow, TypeOK
  <2>2. Begins(0, 0)'
    BY <1>1, <1>3, <2>1 DEF Begins
  <2> QED
    BY <1>1, <1>2, <1>3, <1>5, <2>1, <2>2 DEF AddOK
<1>10. DoneOK'
  <2> SUFFICES ASSUME pc' = "done" PROVE DoneOK'
    BY <1>5 DEF DoneOK
  <2>1. Old' = undeleted /\ list' = <<>>
    BY <1>1, <1>2, <1>5 DEF Old
  <2>2. undeleted \in Seq(Data \cup {Blank}) /\ undeleted \o <<>> = undeleted
    BY ConcatEmptySeq DEF TypeOK
  <2>3. Contents' = undeleted
    <3>1. Contents' = Contents
      BY <1>1 DEF Contents, DataOf
    <3> QED
      BY <1>3, <2>2, <3>1, TableFacts, SeqEqual
  <2> QED
    BY <1>1, <1>2, <2>1, <2>2, <2>3 DEF DoneOK
<1> QED
  BY <1>6, <1>7, <1>8, <1>9, <1>10

------------------------------------------------------------------------------
(***************************************************************************)
(* Adding rows, the new ones and the old ones                              *)
(***************************************************************************)
\* What a step leaves of the request, once the old rows are deleted.
SameRequest ==
    /\ op' = op /\ list' = list /\ requests' = requests /\ before' = before
    /\ objectName' = objectName /\ name' = name /\ cached' = cached
    /\ undeleted' = undeleted
    /\ faulty \subseteq faulty'
    /\ faulty' \subseteq {"delete", "add", "revert", "undo", "restore"}

\* Such a step keeps what is known of the request.
LEMMA RequestKept ==
    ASSUME TableInv, SameRequest, pc \in {"addrow", "update", "revert", "undo"},
           pc' \in {"addrow", "update", "revert", "undo", "done"}
    PROVE  /\ RequestOK' /\ UndeletedOK' /\ ClearOK'
           /\ op \in {"ADD_ROW", "REPLACE_ROWS"}
           /\ Old' = Old /\ Old \in Seq(Data \cup {Blank}) /\ Len(Old) \in Nat
<1> USE DEF TableInv
<1>1. op \in {"ADD_ROW", "REPLACE_ROWS"}
  BY DEF RequestOK, TypeOK
<1>2. RequestOK'
  BY <1>1 DEF RequestOK, SameRequest, DataOf
<1>3. UndeletedOK'
  BY DEF UndeletedOK, SameRequest
<1>4. ClearOK'
  BY DEF ClearOK
<1>5. Old' = Old /\ Old \in Seq(Data \cup {Blank}) /\ Len(Old) \in Nat
  <2>1. before \in Seq(Data \cup {Blank}) /\ undeleted \in Seq(Data \cup {Blank})
    BY DEF TypeOK
  <2>2. Old' = Old /\ Old \in Seq(Data \cup {Blank})
    BY <2>1 DEF Old, SameRequest
  <2> QED
    BY <2>2, LenProperties
<1> QED
  BY <1>1, <1>2, <1>3, <1>4, <1>5

\* How the table begins depends only on the rows it begins with.
LEMMA BeginsKept ==
    ASSUME TableInv, SameRequest, NEW j \in Nat, NEW b \in {0, 1}, Begins(j, b),
           Old' = Old, Len(Old) \in Nat,
           Len(table') >= Len(Old) + j + b,
           \A x \in 1..(Len(Old) + j + b) : table'[x] = table[x]
    PROVE  Begins(j, b)'
<1>1. /\ j \in 0..Len(list) /\ (b = 1 => "revert" \in faulty /\ j < Len(list))
      /\ \A x \in 1..Len(Old) : table[x].data = Old[x]
      /\ \A x \in 1..j : table[Len(Old) + x].data = list[x]
      /\ b = 1 => table[Len(Old) + j + 1].data = Blank
  BY DEF Begins
<1>2. \A x \in 1..Len(Old) : table'[x].data = Old[x]
  <2>1. \A x \in 1..Len(Old) : x \in 1..(Len(Old) + j + b)
    OBVIOUS
  <2> QED
    BY <1>1, <2>1
<1>3. \A x \in 1..j : table'[Len(Old) + x].data = list[x]
  <2>1. \A x \in 1..j : Len(Old) + x \in 1..(Len(Old) + j + b)
    OBVIOUS
  <2> QED
    BY <1>1, <2>1
<1>4. b = 1 => table'[Len(Old) + j + 1].data = Blank
  <2>1. b = 1 => Len(Old) + j + 1 \in 1..(Len(Old) + j + b)
    OBVIOUS
  <2> QED
    BY <1>1, <2>1
<1> QED
  BY <1>1, <1>2, <1>3, <1>4 DEF Begins, SameRequest

\* The rows added back stay as they are when the next one is not added, or is
\* being added.
LEMMA AgainKept ==
    ASSUME SameRequest, NEW j \in Nat, NEW b \in {0, 1}, NEW r \in Nat, Again(j, b, r),
           Old' = Old, Len(Old) \in Nat, cnt \in Nat, cnt >= 1, cnt' = cnt \/ cnt' = cnt + 1,
           Len(table') = Len(Old) + j + b + r + NewRow',
           \A x \in 1..(Len(Old) + j + b + r) : table'[x] = table[x],
           cnt' = cnt \/ "restore" \in faulty' \/ ~IsMapped(name)
    PROVE  Again(j, b, r)'
<1> DEFINE q == Len(Old) + j + b
<1>1. /\ r <= cnt - 1
      /\ IsMapped(name) /\ "restore" \notin faulty =>
            r = cnt - 1 /\ \A x \in 1..r : table[q + x].data = before[x]
  BY DEF Again
<1>2. PICK f \in [1..r -> 1..(cnt - 1)] :
         /\ Grows(f, r)
         /\ \A x \in 1..r : table[q + x].data \in {before[f[x]], Blank}
  BY DEF Again
<1>3. q \in Nat /\ \A x \in 1..r : q + x \in 1..(q + r)
  OBVIOUS
<1>4. \A x \in 1..r : table'[q + x] = table[q + x]
  BY <1>3
<1>5. f \in [1..r -> 1..(cnt' - 1)] /\ r <= cnt' - 1
  <2>1. \A x \in 1..r : f[x] \in 1..(cnt - 1)
    BY <1>2
  <2>2. cnt' \in Nat /\ cnt - 1 <= cnt' - 1
    OBVIOUS
  <2>3. \A x \in 1..r : f[x] \in 1..(cnt' - 1)
    BY <2>1, <2>2
  <2>4. f \in [1..r -> 1..(cnt' - 1)]
    BY <1>2, <2>3
  <2>5. r <= cnt' - 1
    <3>1. r <= cnt - 1
      BY <1>1
    <3>2. CASE cnt' = cnt
      BY <3>1, <3>2
    <3>3. CASE cnt' = cnt + 1
      BY <3>1, <3>3
    <3> QED
      BY <3>2, <3>3
  <2> QED
    BY <2>4, <2>5
<1>6. \E f1 \in [1..r -> 1..(cnt' - 1)] :
         /\ Grows(f1, r)
         /\ \A x \in 1..r : table'[q + x].data \in {before[f1[x]], Blank}
  BY <1>2, <1>4, <1>5, Zenon
<1>7. IsMapped(name)' <=> IsMapped(name)
  BY DEF SameRequest, IsMapped, HasInstance, Match, RowsToCPE
<1>8. (IsMapped(name) /\ "restore" \notin faulty =>
            r = cnt - 1 /\ \A x \in 1..r : table[q + x].data = before[x])'
  <2> SUFFICES ASSUME IsMapped(name), "restore" \notin faulty'
               PROVE  r = cnt' - 1 /\ \A x \in 1..r : table'[q + x].data = before[x]
    BY <1>7 DEF SameRequest
  <2>1. cnt' = cnt /\ "restore" \notin faulty
    BY DEF SameRequest
  <2> QED
    BY <2>1, <1>1, <1>4
<1>9. Len(table') = q + r + NewRow'
  OBVIOUS
<1> HIDE DEF q
<1>10. q' = q
  BY DEF q
<1> QED
  BY <1>5, <1>6, <1>8, <1>9 DEF Again, SameRequest, q

\* The row whose turn it was is added back, or is there and empty.
LEMMA AgainGrown ==
    ASSUME SameRequest, NEW j \in Nat, NEW b \in {0, 1}, NEW r \in Nat, Again(j, b, r),
           Old' = Old, Len(Old) \in Nat, cnt \in Nat, cnt >= 1, cnt' = cnt + 1,
           Len(table') = Len(Old) + j + b + r + 1 + NewRow',
           \A x \in 1..(Len(Old) + j + b + r) : table'[x] = table[x],
           \/ table'[Len(Old) + j + b + r + 1].data = before[cnt]
           \/ /\ table'[Len(Old) + j + b + r + 1].data = Blank
              /\ "restore" \in faulty' \/ ~IsMapped(name)
    PROVE  Again(j, b, r + 1)'
<1> DEFINE q == Len(Old) + j + b
<1>1. /\ r <= cnt - 1
      /\ IsMapped(name) /\ "restore" \notin faulty =>
            r = cnt - 1 /\ \A x \in 1..r : table[q + x].data = before[x]
  BY DEF Again
<1>m. cnt - 1 \in Nat /\ cnt = (cnt - 1) + 1
  OBVIOUS
<1>n. PICK n \in Nat : cnt = n + 1
  BY <1>m, Zenon
<1>2. PICK f \in [1..r -> 1..n] :
         /\ Grows(f, r)
         /\ \A x \in 1..r : table[q + x].data \in {before[f[x]], Blank}
  <2>1. cnt - 1 = n
    BY <1>n
  <2> QED
    BY <2>1 DEF Again
<1>3. q \in Nat /\ \A x \in 1..r : q + x \in 1..(q + r)
  OBVIOUS
<1>4. \A x \in 1..r : table'[q + x] = table[q + x]
  BY <1>3
<1>5. \A x \in 1..(r + 1) : x \in 1..r \/ x = r + 1
  OBVIOUS
<1>q. q + (r + 1) = q + r + 1
  BY <1>3
<1> HIDE DEF q
<1>6. WithPlace(f, r, cnt) \in [1..(r + 1) -> 1..cnt] /\ Grows(WithPlace(f, r, cnt), r + 1)
  BY <1>n, <1>2, NextPlace
<1>7. \A x \in 1..(r + 1) :
         table'[q + x].data \in {before[WithPlace(f, r, cnt)[x]], Blank}
  <2>1. /\ \A x \in 1..r : WithPlace(f, r, cnt)[x] = f[x]
        /\ WithPlace(f, r, cnt)[r + 1] = cnt
    BY DEF WithPlace
  <2>2. \A x \in 1..r : table'[q + x].data \in {before[WithPlace(f, r, cnt)[x]], Blank}
    BY <1>2, <1>4, <2>1
  <2>3. table'[q + (r + 1)].data \in {before[WithPlace(f, r, cnt)[r + 1]], Blank}
    BY <2>1, <1>q DEF q
  <2> QED
    BY <1>5, <2>2, <2>3
<1>8. cnt' - 1 = cnt
  OBVIOUS
<1>9. \E f1 \in [1..(r + 1) -> 1..(cnt' - 1)] :
         /\ Grows(f1, r + 1)
         /\ \A x \in 1..(r + 1) : table'[q + x].data \in {before[f1[x]], Blank}
  BY <1>6, <1>7, <1>8, Zenon
<1>10. IsMapped(name)' <=> IsMapped(name)
  BY DEF SameRequest, IsMapped, HasInstance, Match, RowsToCPE
<1>11. ASSUME IsMapped(name), "restore" \notin faulty'
       PROVE  r + 1 = cnt' - 1 /\ \A x \in 1..(r + 1) : table'[q + x].data = before[x]
  <2>1. "restore" \notin faulty
    BY <1>11 DEF SameRequest
  <2>2. r = cnt - 1 /\ \A x \in 1..r : table[q + x].data = before[x]
    BY <1>1, <1>11, <2>1
  <2>3. table'[q + (r + 1)].data = before[r + 1]
    BY <1>11, <1>q, <2>2 DEF q
  <2>4. \A x \in 1..r : table'[q + x].data = before[x]
    BY <1>4, <2>2
  <2>5. r + 1 = cnt' - 1
    BY <1>8, <2>2
  <2>6. \A x \in 1..(r + 1) : table'[q + x].data = before[x]
    BY <1>5, <2>3, <2>4
  <2> QED
    BY <2>5, <2>6
<1>12. Len(table') = q + (r + 1) + NewRow' /\ r + 1 <= cnt' - 1
  BY <1>1, <1>q DEF q
<1>13. q' = q
  BY DEF q
<1> QED
  BY <1>9, <1>10, <1>11, <1>12 DEF Again, SameRequest, q

\* What AddOK and RestoreOK say of the loop that adds rows.
LEMMA AddingFacts ==
    ASSUME TableInv, pc \in {"addrow", "update", "revert"}
    PROVE  /\ cnt \in Nat /\ cnt >= 1 /\ cnt <= Count + 1
           /\ Len(list) \in Nat /\ Len(cached) \in Nat /\ Len(table) \in Nat
           /\ restoring \in BOOLEAN
           /\ before \in Seq(Data \cup {Blank})
<1>1. Len(list) \in Nat /\ Len(cached) \in Nat /\ Len(table) \in Nat /\ restoring \in BOOLEAN
  BY DEF TableInv, TypeOK
<1>2. CASE restoring
  <2>1. cnt \in 1..(Len(cached) + 1)
    BY <1>2 DEF TableInv, RestoreOK
  <2> QED
    BY <2>1, <1>1, <1>2 DEF Count, TableInv, TypeOK
<1>3. CASE ~restoring
  <2>1. cnt \in 1..(Len(list) + 1)
    BY <1>3 DEF TableInv, AddOK
  <2> QED
    BY <2>1, <1>1, <1>3 DEF Count, TableInv, TypeOK
<1> QED
  BY <1>1, <1>2, <1>3

\* RestoreOK, when the parts of the table are known.
LEMMA RestoreFrom ==
    ASSUME TableInv, SameRequest, restoring = TRUE, restoring' = restoring,
           pc \in {"addrow", "update", "revert"},
           pc' \in {"addrow", "update", "revert", "done"}, status' = status,
           cnt' \in 1..(Len(cached) + 1), pc' = "done" => cnt' = Len(cached) + 1,
           pc' = "revert" => "restore" \in faulty',
           NEW j \in 0..Len(list), NEW b \in {0, 1}, NEW r \in 0..Len(cached),
           Begins(j, b)', Again(j, b, r)', "undo" \notin faulty => j = 0
    PROVE  RestoreOK'
<1> USE DEF TableInv
<1>1. op = "REPLACE_ROWS" /\ status = "WAL_FAILURE" /\ before = DataOf(cached)
  BY DEF RestoreOK
<1>2. \E j1 \in 0..Len(list'), b1 \in {0, 1}, r1 \in 0..Len(cached') :
         Begins(j1, b1)' /\ Again(j1, b1, r1)' /\ ("undo" \notin faulty' => j1 = 0)
  BY DEF SameRequest
<1>3. before' = DataOf(cached') /\ op' = "REPLACE_ROWS" /\ status' = "WAL_FAILURE"
  BY <1>1 DEF SameRequest, DataOf
<1>4. cnt' \in 1..(Len(cached') + 1) /\ (pc' = "done" => cnt' = Len(cached') + 1)
  BY DEF SameRequest
<1> QED
  BY <1>2, <1>3, <1>4 DEF RestoreOK

\* A row that is not added, or is there and empty: AddFails, whatever called it.
LEMMA AddFailsKeeps ==
    ASSUME TableInv, SameRequest, AddFails, pc \in {"addrow", "revert"}, cnt <= Count,
           restoring' = restoring, added' = added, nextId' = nextId,
           table' \in Seq(Rows), Numbered',
           NEW e \in {0, 1}, e = 1 => pc = "revert" /\ "revert" \in faulty',
           Len(table') = Len(table) - NewRow + e,
           \A x \in 1..Len(table') : table'[x] = table[x],
           restoring => "restore" \in faulty' \/ ~IsMapped(name)
    PROVE  TableInv'
<1> USE DEF TableInv
<1>1. /\ cnt \in Nat /\ cnt >= 1 /\ Len(list) \in Nat /\ Len(cached) \in Nat
      /\ Len(table) \in Nat /\ restoring \in BOOLEAN
  BY AddingFacts
<1>2. pc' \in {"addrow", "undo"}
  BY DEF AddFails, GoesOn
<1>3. /\ RequestOK' /\ UndeletedOK' /\ ClearOK' /\ op \in {"ADD_ROW", "REPLACE_ROWS"}
      /\ Old' = Old /\ Len(Old) \in Nat
  BY <1>2, RequestKept
<1>4. NewRowOK' /\ DoneOK' /\ NewRow' = 0 /\ NewRow \in {0, 1}
      /\ (NewRow = 1 <=> pc = "revert")
  BY <1>2 DEF NewRowOK, DoneOK, NewRow
<1>5. CASE restoring = TRUE
  <2>1. cnt' = cnt + 1 /\ pc' = "addrow" /\ status' = status /\ cnt <= Len(cached)
    BY <1>5 DEF AddFails, GoesOn, Count
  <2>2. PICK j \in 0..Len(list), b \in {0, 1}, r \in 0..Len(cached) :
           Begins(j, b) /\ Again(j, b, r) /\ ("undo" \notin faulty => j = 0)
    BY <1>5 DEF RestoreOK
  <2>3. Len(table) = Len(Old) + j + b + r + NewRow /\ r <= cnt - 1
    BY <2>2 DEF Again
  <2>4. j \in Nat /\ r \in Nat /\ Len(table') = Len(Old) + j + b + r + e
    BY <1>1, <1>3, <1>4, <2>3
  <2>5. Begins(j, b)'
    <3>1. \A x \in 1..(Len(Old) + j + b) : x \in 1..Len(table')
      BY <1>3, <2>4
    <3>2. \A x \in 1..(Len(Old) + j + b) : table'[x] = table[x]
      BY <3>1
    <3>3. Len(table') >= Len(Old) + j + b
      BY <1>3, <2>4
    <3> QED
      BY <1>3, <2>2, <2>4, <3>2, <3>3, BeginsKept
  <2>6. \A x \in 1..(Len(Old) + j + b + r) : table'[x] = table[x]
    <3>1. \A x \in 1..(Len(Old) + j + b + r) : x \in 1..Len(table')
      BY <1>3, <2>4
    <3> QED
      BY <3>1
  <2>7. "restore" \in faulty' \/ ~IsMapped(name)
    BY <1>5
  <2>8. \E r1 \in 0..Len(cached) : Again(j, b, r1)'
    <3>1. CASE e = 0
      <4>1. Len(table') = Len(Old) + j + b + r + NewRow'
        BY <1>3, <1>4, <2>4, <3>1
      <4>2. Again(j, b, r)'
        BY <1>1, <1>3, <2>1, <2>2, <2>4, <2>6, <2>7, <4>1, AgainKept
      <4> QED
        BY <4>2
    <3>2. CASE e = 1
      <4>1. Len(table') = Len(Old) + j + b + r + 1 + NewRow'
        BY <1>3, <1>4, <2>4, <3>2
      <4>2. Len(table) = Len(Old) + j + b + r + 1 /\ pc = "revert"
        BY <1>3, <1>4, <2>3, <2>4, <3>2
      <4>3. table[Len(table)].data = Blank
        BY <4>2 DEF NewRowOK
      <4>4. Len(Old) + j + b + r + 1 \in 1..Len(table')
        BY <1>3, <1>4, <2>4, <4>1
      <4>5. table'[Len(Old) + j + b + r + 1].data = Blank
        BY <4>2, <4>3, <4>4
      <4>6. Again(j, b, r + 1)'
        BY <1>1, <1>3, <2>1, <2>2, <2>4, <2>6, <2>7, <4>1, <4>5, AgainGrown
      <4>7. r + 1 \in 0..Len(cached)
        BY <1>1, <2>1, <2>3
      <4> QED
        BY <4>6, <4>7
    <3> QED
      BY <3>1, <3>2
  <2>9. RestoreOK'
    <3>1. PICK r1 \in 0..Len(cached) : Again(j, b, r1)'
      BY <2>8
    <3>2. cnt' \in 1..(Len(cached) + 1)
      BY <1>1, <2>1
    <3> QED
      BY <1>5, <2>1, <2>2, <2>5, <3>1, <3>2, RestoreFrom
  <2>10. TypeOK'
    <3>1. cnt' \in 0..(1 + Len(cached'))
      BY <1>1, <2>1 DEF SameRequest
    <3>2. restoring' \in BOOLEAN /\ restoring'
      BY <1>5
    <3> QED
      BY <2>1, <3>1, <3>2 DEF TypeOK, SameRequest
  <2>11. AddOK' /\ UndoOK'
    BY <1>5, <2>1 DEF AddOK, UndoOK
  <2> QED
    BY <1>3, <1>4, <2>9, <2>10, <2>11
<1>6. CASE restoring = FALSE
  <2>1. /\ cnt' = cnt - 1 /\ pc' = "undo" /\ status' = "WAL_FAILURE" /\ cnt <= Len(list)
    BY <1>6 DEF AddFails, Count
  <2>2. /\ cnt \in 1..(Len(list) + 1) /\ Len(added) = cnt - 1
        /\ Len(table) = Len(Old) + cnt - 1 + NewRow
        /\ Begins(cnt - 1, 0)
        /\ \A x \in 1..(cnt - 1) : table[Len(Old) + x].id = added[x]
    BY <1>6 DEF AddOK
  <2>3. Len(table') = Len(Old) + cnt' + e
    BY <1>1, <1>3, <1>4, <2>1, <2>2
  <2>4. /\ \A x \in 1..Len(Old) : table[x].data = Old[x]
        /\ \A x \in 1..(cnt - 1) : table[Len(Old) + x].data = list[x]
    BY <2>2 DEF Begins
  <2>c. PICK c \in Nat : c = cnt'
    <3>1. cnt - 1 \in Nat
      BY <1>1
    <3> QED
      BY <2>1, <3>1
  <2>5. Begins(c, e)'
    <3>1. \A x \in 1..Len(Old) : table'[x].data = Old[x]
      <4>1. \A x \in 1..Len(Old) : x \in 1..Len(table')
        BY <1>1, <1>3, <2>1, <2>3
      <4> QED
        BY <2>4, <4>1
    <3>2. \A x \in 1..cnt' : table'[Len(Old) + x].data = list[x]
      <4>1. \A x \in 1..(cnt - 1) : Len(Old) + x \in 1..Len(table')
        BY <1>1, <1>3, <2>1, <2>3
      <4> QED
        BY <2>1, <2>4, <4>1
    <3>3. e = 1 => table'[Len(Old) + cnt' + 1].data = Blank
      <4> SUFFICES ASSUME e = 1 PROVE table'[Len(Old) + cnt' + 1].data = Blank
        OBVIOUS
      <4>1. Len(Old) + cnt' + 1 = Len(table) /\ Len(table) \in 1..Len(table')
        BY <1>1, <1>3, <1>4, <2>1, <2>2, <2>3
      <4> QED
        BY <4>1 DEF NewRowOK
    <3>4. cnt' \in 0..Len(list) /\ (e = 1 => cnt' < Len(list))
      BY <1>1, <2>1
    <3>5. Len(table') >= Len(Old) + cnt' + e
      BY <1>1, <1>3, <2>1, <2>3
    <3> QED
      BY <1>3, <2>c, <3>1, <3>2, <3>3, <3>4, <3>5 DEF Begins, SameRequest
  <2>6. \A x \in 1..cnt' : table'[Len(Old) + x].id = added[x]
    <3>1. \A x \in 1..(cnt - 1) : Len(Old) + x \in 1..Len(table')
      BY <1>1, <1>3, <2>1, <2>3
    <3> QED
      BY <2>1, <2>2, <3>1
  <2>7. cnt' \in 0..Len(list') /\ cnt' <= Len(added')
    BY <1>1, <2>1, <2>2 DEF SameRequest
  <2>8. UndoOK'
    <3>1. /\ Len(table') = Len(Old') + c + e
          /\ c = cnt' \/ (cnt' = 0 /\ "undo" \in faulty')
          /\ cnt' > 0 => \A x \in 1..cnt' : table'[Len(Old') + x].id = added'[x]
      BY <1>3, <2>c, <2>3, <2>6
    <3>3. c \in 0..Len(list')
      BY <2>c, <2>7
    <3>2. op' \in {"ADD_ROW", "REPLACE_ROWS"} /\ ~restoring'
      BY <1>3, <1>6 DEF SameRequest
    <3> QED
      BY <2>1, <2>5, <2>7, <3>1, <3>2, <3>3 DEF UndoOK
  <2>9. TypeOK'
    <3>1. cnt' \in 0..(1 + Len(list'))
      BY <1>1, <2>1 DEF SameRequest
    <3>2. restoring' \in BOOLEAN /\ ~restoring'
      BY <1>6
    <3> QED
      BY <2>1, <3>1, <3>2 DEF TypeOK, SameRequest
  <2>10. AddOK' /\ RestoreOK'
    BY <1>6, <2>1 DEF AddOK, RestoreOK
  <2> QED
    BY <1>3, <1>4, <2>8, <2>9, <2>10
<1> QED
  BY <1>1, <1>5, <1>6

\* A step of the loop that leaves its index: the row being added comes, is set or
\* cannot be set.
LEMMA SameTurn ==
    ASSUME TableInv, SameRequest, pc \in {"addrow", "update", "revert"},
           pc' \in {"addrow", "update", "revert"}, cnt' = cnt, status' = status,
           restoring' = restoring, added' = added,
           table' \in Seq(Rows), nextId' \in Nat, Numbered', NewRowOK',
           Len(table') = Len(table) - NewRow + NewRow',
           \A x \in 1..(Len(table) - NewRow) : table'[x] = table[x],
           restoring => faulty' = faulty \/ "restore" \in faulty',
           restoring /\ pc' = "revert" => "restore" \in faulty'
    PROVE  TableInv'
<1> USE DEF TableInv
<1>1. /\ cnt \in Nat /\ cnt >= 1 /\ Len(list) \in Nat /\ Len(cached) \in Nat
      /\ Len(table) \in Nat /\ restoring \in BOOLEAN
  BY AddingFacts
<1>2. /\ RequestOK' /\ UndeletedOK' /\ ClearOK' /\ op \in {"ADD_ROW", "REPLACE_ROWS"}
      /\ Old' = Old /\ Len(Old) \in Nat
  BY RequestKept
<1>3. UndoOK' /\ DoneOK' /\ NewRow \in {0, 1} /\ NewRow' \in {0, 1}
  BY DEF UndoOK, DoneOK, NewRow
<1>4. CASE restoring = TRUE
  <2>1. PICK j \in 0..Len(list), b \in {0, 1}, r \in 0..Len(cached) :
           Begins(j, b) /\ Again(j, b, r) /\ ("undo" \notin faulty => j = 0)
    BY <1>4 DEF RestoreOK
  <2>2. cnt \in 1..(Len(cached) + 1)
    BY <1>4 DEF RestoreOK
  <2>3. Len(table) = Len(Old) + j + b + r + NewRow
    BY <2>1 DEF Again
  <2>4. /\ j \in Nat /\ r \in Nat /\ Len(table') = Len(Old) + j + b + r + NewRow'
        /\ Len(table) - NewRow = Len(Old) + j + b + r
    BY <1>1, <1>2, <1>3, <2>3
  <2>5. \A x \in 1..(Len(Old) + j + b + r) : table'[x] = table[x]
    BY <2>4
  <2>6. Begins(j, b)'
    <3>1. \A x \in 1..(Len(Old) + j + b) : table'[x] = table[x]
      <4>1. \A x \in 1..(Len(Old) + j + b) : x \in 1..(Len(Old) + j + b + r)
        BY <1>2, <2>4
      <4> QED
        BY <2>5, <4>1
    <3>2. Len(table') >= Len(Old) + j + b
      BY <1>2, <1>3, <2>4
    <3> QED
      BY <1>2, <2>1, <2>4, <3>1, <3>2, BeginsKept
  <2>7. Again(j, b, r)'
    BY <1>1, <1>2, <2>1, <2>4, <2>5, AgainKept
  <2>8. RestoreOK'
    <3>1. cnt' \in 1..(Len(cached) + 1)
      BY <2>2
    <3>2. pc' = "revert" => "restore" \in faulty'
      BY <1>4
    <3> QED
      BY <1>4, <2>1, <2>6, <2>7, <3>1, <3>2, RestoreFrom
  <2>9. TypeOK'
    <3>1. cnt' \in 0..(1 + Len(cached'))
      BY <2>2 DEF SameRequest
    <3>2. restoring' \in BOOLEAN /\ restoring'
      BY <1>4
    <3> QED
      BY <3>1, <3>2 DEF TypeOK, SameRequest
  <2>10. AddOK'
    BY <1>4 DEF AddOK
  <2> QED
    BY <1>2, <1>3, <2>8, <2>9, <2>10
<1>5. CASE restoring = FALSE
  <2>1. /\ cnt \in 1..(Len(list) + 1) /\ Len(added) = cnt - 1
        /\ Len(table) = Len(Old) + cnt - 1 + NewRow
        /\ Begins(cnt - 1, 0) /\ status = "WAL_SUCCESS"
        /\ \A x \in 1..(cnt - 1) : table[Len(Old) + x].id = added[x]
    BY <1>5 DEF AddOK
  <2>2. PICK c \in Nat : c = cnt - 1
    BY <1>1
  <2>3. /\ Len(table') = Len(Old) + c + NewRow'
        /\ Len(table) - NewRow = Len(Old) + c /\ cnt' - 1 = c
    BY <1>1, <1>2, <1>3, <2>1, <2>2
  <2>4. Begins(c, 0)'
    <3>1. \A x \in 1..(Len(Old) + c + 0) : table'[x] = table[x]
      BY <1>2, <2>3
    <3>2. Len(table') >= Len(Old) + c + 0
      BY <1>2, <1>3, <2>3
    <3> QED
      BY <1>2, <2>1, <2>2, <3>1, <3>2, BeginsKept
  <2>5. \A x \in 1..(cnt' - 1) : table'[Len(Old) + x].id = added'[x]
    <3>1. \A x \in 1..c : Len(Old) + x \in 1..(Len(table) - NewRow)
      BY <1>2, <2>3
    <3> QED
      BY <2>1, <2>2, <2>3, <3>1
  <2>6. AddOK'
    <3>1. /\ op' \in {"ADD_ROW", "REPLACE_ROWS"} /\ status' = "WAL_SUCCESS"
          /\ cnt' \in 1..(Len(list') + 1) /\ Len(added') = cnt' - 1
      BY <1>2, <2>1 DEF SameRequest
    <3>2. Len(table') = Len(Old') + cnt' - 1 + NewRow'
      BY <1>1, <1>2, <1>3, <2>2, <2>3
    <3>3. Begins(cnt - 1, 0)'
      BY <2>2, <2>3, <2>4
    <3> QED
      BY <1>2, <2>5, <3>1, <3>2, <3>3 DEF AddOK
  <2>7. TypeOK'
    <3>1. cnt' \in 0..(1 + Len(list'))
      BY <1>1, <2>1 DEF SameRequest
    <3>2. restoring' \in BOOLEAN /\ ~restoring' /\ pc' # "clear"
      BY <1>5
    <3> QED
      BY <3>1, <3>2 DEF TypeOK, SameRequest
  <2>8. RestoreOK'
    BY <1>5 DEF RestoreOK
  <2> QED
    BY <1>2, <1>3, <2>6, <2>7, <2>8
<1> QED
  BY <1>1, <1>4, <1>5

LEMMA AddRowKeeps == TableInv /\ addRow => TableInv'
<1> SUFFICES ASSUME TableInv, addRow PROVE TableInv'
  OBVIOUS
<1> USE DEF TableInv
<1>1. /\ pc = "addrow" /\ cnt <= Count /\ restoring' = restoring /\ added' = added
      /\ NewRow = 0 /\ AddFault \in {"restore", "add"}
      /\ restoring => AddFault = "restore"
  BY DEF addRow, NewRow, AddFault
<1>2. faulty \subseteq {"delete", "add", "revert", "undo", "restore"}
  BY DEF TypeOK
<1>3. ASSUME table' = WithNewRow, nextId' = nextId + 1, pc' = "update",
             UNCHANGED <<cnt, status, faulty>>
      PROVE  TableInv'
  <2>1. /\ table' \in Seq(Rows) /\ nextId' \in Nat
        /\ Len(table') = Len(table) + 1
        /\ \A x \in 1..Len(table) : table'[x] = table[x]
        /\ table'[Len(table) + 1] = [id |-> nextId, data |-> Blank]
        /\ Numbered'
    BY <1>3, RowAdded
  <2>2. SameRequest
    BY <1>2, <1>3 DEF addRow, requestVars, SameRequest
  <2>3. NewRow' = 1 /\ Len(table) \in Nat
    BY <1>3, TableFacts DEF NewRow
  <2>4. NewRowOK'
    <3>1. nextId' - 1 = nextId
      BY <1>3 DEF TypeOK
    <3>2. cnt' <= Count'
      BY <1>1, <1>3, <2>2 DEF Count, SameRequest
    <3> QED
      BY <2>1, <2>3, <3>1, <3>2 DEF NewRowOK
  <2>5. /\ Len(table') = Len(table) - NewRow + NewRow'
        /\ \A x \in 1..(Len(table) - NewRow) : table'[x] = table[x]
    BY <1>1, <2>1, <2>3
  <2>6. cnt' = cnt /\ status' = status /\ faulty' = faulty
    BY <1>3
  <2> QED
    BY <1>1, <1>3, <2>1, <2>2, <2>4, <2>5, <2>6, SameTurn
<1>4. ASSUME Failed(AddFault), AddFails, UNCHANGED <<table, nextId>>
      PROVE  TableInv'
  <2>1. SameRequest
    BY <1>1, <1>2, <1>4 DEF addRow, requestVars, SameRequest, Failed
  <2>2. /\ table' \in Seq(Rows) /\ Numbered' /\ table' = table /\ nextId' = nextId
        /\ Len(table) \in Nat
    BY <1>4, TableFacts DEF TypeOK, Numbered
  <2>3. Len(table') = Len(table) - NewRow + 0 /\ \A x \in 1..Len(table') : table'[x] = table[x]
    BY <1>1, <2>2
  <2>4. restoring => "restore" \in faulty' \/ ~IsMapped(name)
    BY <1>1, <1>4 DEF Failed
  <2> QED
    BY <1>1, <1>4, <2>1, <2>2, <2>3, <2>4, AddFailsKeeps
<1> QED
  BY <1>3, <1>4 DEF addRow

LEMMA InvalidIndexKeeps == TableInv /\ InvalidIndex => TableInv'
<1> SUFFICES ASSUME TableInv, InvalidIndex PROVE TableInv'
  OBVIOUS
<1> USE DEF TableInv
<1>1. /\ pc = "addrow" /\ cnt <= Count /\ restoring' = restoring /\ added' = added
      /\ NewRow = 0 /\ AddFails /\ ~IsMapped(name)
  BY DEF InvalidIndex, NewRow
<1>2. SameRequest
  BY DEF InvalidIndex, requestVars, SameRequest, TypeOK
<1>3. /\ table' \in Seq(Rows) /\ Numbered' /\ table' = table /\ nextId' = nextId
      /\ Len(table) \in Nat
  BY TableFacts DEF InvalidIndex, TypeOK, Numbered
<1>4. Len(table') = Len(table) - NewRow + 0 /\ \A x \in 1..Len(table') : table'[x] = table[x]
  BY <1>1, <1>3
<1> QED
  BY <1>1, <1>2, <1>3, <1>4, AddFailsKeeps

LEMMA RevertKeeps == TableInv /\ RevertAddedRow => TableInv'
<1> SUFFICES ASSUME TableInv, RevertAddedRow PROVE TableInv'
  OBVIOUS
<1> USE DEF TableInv
<1>1. /\ pc = "revert" /\ restoring' = restoring /\ added' = added
      /\ NewRow = 1 /\ AddFails /\ nextId' = nextId
  BY DEF RevertAddedRow, NewRow
<1>2. /\ Len(table) > 0 /\ table[Len(table)] = [id |-> nextId - 1, data |-> Blank]
      /\ cnt <= Count
  BY <1>1 DEF NewRowOK
<1>3. faulty \subseteq {"delete", "add", "revert", "undo", "restore"}
  BY DEF TypeOK
<1>4. restoring => "restore" \in faulty
  BY <1>1 DEF RestoreOK
<1>5. ASSUME table' = WithoutRow(nextId - 1), UNCHANGED faulty
      PROVE  TableInv'
  <2>1. Len(table) \in Nat /\ Len(table) \in 1..Len(table) /\ table[Len(table)].id = nextId - 1
    BY <1>2, TableFacts
  <2>2. /\ table' \in Seq(Rows) /\ Len(table') = Len(table) - 1 /\ Numbered'
        /\ \A x \in 1..(Len(table) - 1) :
              table'[x] = IF x < Len(table) THEN table[x] ELSE table[x + 1]
    BY <1>1, <1>5, <2>1, RowDeleted
  <2>3. Len(table') = Len(table) - NewRow + 0 /\ \A x \in 1..Len(table') : table'[x] = table[x]
    BY <1>1, <2>1, <2>2
  <2>4. SameRequest
    BY <1>3, <1>5 DEF RevertAddedRow, requestVars, SameRequest
  <2> QED
    BY <1>1, <1>2, <1>4, <1>5, <2>2, <2>3, <2>4, AddFailsKeeps
<1>6. ASSUME Failed("revert"), UNCHANGED table
      PROVE  TableInv'
  <2>1. table' \in Seq(Rows) /\ Numbered' /\ table' = table /\ Len(table) \in Nat
    BY <1>1, <1>6, TableFacts DEF TypeOK, Numbered
  <2>2. Len(table') = Len(table) - NewRow + 1 /\ \A x \in 1..Len(table') : table'[x] = table[x]
    BY <1>1, <2>1
  <2>3. SameRequest /\ "revert" \in faulty' /\ (restoring => "restore" \in faulty')
    BY <1>3, <1>4, <1>6 DEF RevertAddedRow, requestVars, SameRequest, Failed
  <2> QED
    BY <1>1, <1>2, <2>1, <2>2, <2>3, AddFailsKeeps
<1> QED
  BY <1>5, <1>6 DEF RevertAddedRow

LEMMA UpdateKeeps == TableInv /\ updateRow => TableInv'
<1> SUFFICES ASSUME TableInv, updateRow PROVE TableInv'
  OBVIOUS
<1> USE DEF TableInv
<1>1. /\ pc = "update" /\ restoring' = restoring /\ NewRow = 1 /\ nextId' = nextId
      /\ AddFault \in {"restore", "add"} /\ (restoring => AddFault = "restore")
  BY DEF updateRow, NewRow, AddFault
<1>2. /\ Len(table) > 0 /\ table[Len(table)] = [id |-> nextId - 1, data |-> Blank]
      /\ cnt <= Count
  BY <1>1 DEF NewRowOK
<1>3. faulty \subseteq {"delete", "add", "revert", "undo", "restore"}
  BY DEF TypeOK
<1>4. /\ cnt \in Nat /\ cnt >= 1 /\ Len(list) \in Nat /\ Len(cached) \in Nat
      /\ Len(table) \in Nat /\ restoring \in BOOLEAN
  BY <1>1, AddingFacts
<1>5. ASSUME Failed(AddFault), pc' = "revert", UNCHANGED <<table, added, cnt, status>>
      PROVE  TableInv'
  <2>1. SameRequest
    BY <1>1, <1>3, <1>5 DEF updateRow, requestVars, SameRequest, Failed
  <2>2. /\ table' \in Seq(Rows) /\ nextId' \in Nat /\ Numbered' /\ NewRow' = 1
        /\ table' = table
    BY <1>1, <1>5 DEF TypeOK, Numbered, NewRow
  <2>3. NewRowOK'
    BY <1>1, <1>2, <1>5, <2>1 DEF NewRowOK, Count, SameRequest
  <2>4. /\ Len(table') = Len(table) - NewRow + NewRow'
        /\ \A x \in 1..(Len(table) - NewRow) : table'[x] = table[x]
    BY <1>1, <1>4, <2>2
  <2>5. /\ restoring => "restore" \in faulty'
        /\ cnt' = cnt /\ status' = status /\ added' = added
    BY <1>1, <1>5 DEF Failed
  <2> QED
    BY <1>1, <1>5, <2>1, <2>2, <2>3, <2>4, <2>5, SameTurn
<1>6. ASSUME table' = WithData(NewData), GoesOn, UNCHANGED faulty,
             added' = IF restoring THEN added ELSE Append(added, nextId - 1)
      PROVE  TableInv'
  <2>1. SameRequest
    BY <1>3, <1>6 DEF updateRow, requestVars, SameRequest
  <2>2. cnt' = cnt + 1 /\ pc' = "addrow" /\ status' = status /\ faulty' = faulty
    BY <1>6 DEF GoesOn
  <2>3. /\ RequestOK' /\ UndeletedOK' /\ ClearOK' /\ op \in {"ADD_ROW", "REPLACE_ROWS"}
        /\ Old' = Old /\ Len(Old) \in Nat
    BY <1>1, <2>1, <2>2, RequestKept
  <2>4. NewRowOK' /\ UndoOK' /\ DoneOK' /\ NewRow' = 0
    BY <2>2 DEF NewRowOK, UndoOK, DoneOK, NewRow
  <2>5. CASE restoring = TRUE
    <3>1. cnt \in 1..Len(cached) /\ NewData = cached[cnt].data
      BY <1>2, <1>4, <2>5 DEF Count, NewData
    <3>2. /\ before = DataOf(cached) /\ op = "REPLACE_ROWS" /\ status = "WAL_FAILURE"
      BY <1>1, <2>5 DEF RestoreOK
    <3>3. NewData \in Data \cup {Blank} /\ NewData = before[cnt]
      BY <3>1, <3>2, DataOfRows DEF TypeOK
    <3>4. /\ table' \in Seq(Rows) /\ Len(table') = Len(table) /\ Numbered'
          /\ \A x \in 1..(Len(table) - 1) : table'[x] = table[x]
          /\ table'[Len(table)].data = before[cnt]
      BY <1>1, <1>2, <1>6, <3>3, RowSet
    <3>5. PICK j \in 0..Len(list), b \in {0, 1}, r \in 0..Len(cached) :
             Begins(j, b) /\ Again(j, b, r) /\ ("undo" \notin faulty => j = 0)
      BY <1>1, <2>5 DEF RestoreOK
    <3>6. Len(table) = Len(Old) + j + b + r + NewRow /\ r <= cnt - 1
      BY <3>5 DEF Again
    <3>7. /\ j \in Nat /\ r \in Nat /\ Len(table') = Len(Old) + j + b + r + 1 + NewRow'
          /\ Len(table) - 1 = Len(Old) + j + b + r
          /\ Len(table) = Len(Old) + j + b + r + 1
      BY <1>1, <1>4, <2>3, <2>4, <3>4, <3>6
    <3>8. \A x \in 1..(Len(Old) + j + b + r) : table'[x] = table[x]
      BY <3>4, <3>7
    <3>9. Begins(j, b)'
      <4>1. \A x \in 1..(Len(Old) + j + b) : table'[x] = table[x]
        <5>1. \A x \in 1..(Len(Old) + j + b) : x \in 1..(Len(Old) + j + b + r)
          BY <2>3, <3>7
        <5> QED
          BY <3>8, <5>1
      <4>2. Len(table') >= Len(Old) + j + b
        BY <2>3, <2>4, <3>7
      <4> QED
        BY <2>1, <2>3, <3>5, <3>7, <4>1, <4>2, BeginsKept
    <3>10. table'[Len(Old) + j + b + r + 1].data = before[cnt]
      BY <3>4, <3>7
    <3>11. Again(j, b, r + 1)'
      BY <1>4, <2>1, <2>2, <2>3, <3>5, <3>7, <3>8, <3>10, AgainGrown
    <3>12. RestoreOK'
      <4>1. cnt' \in 1..(Len(cached) + 1) /\ r + 1 \in 0..Len(cached)
        BY <1>4, <2>2, <3>1, <3>6
      <4> QED
        BY <1>1, <2>1, <2>2, <2>5, <3>5, <3>9, <3>11, <4>1, RestoreFrom
    <3>13. TypeOK'
      <4>1. cnt' \in 0..(1 + Len(cached'))
        BY <1>4, <2>1, <2>2, <3>1 DEF SameRequest
      <4>2. restoring' \in BOOLEAN /\ restoring' /\ added' = added
        BY <1>1, <1>6, <2>5
      <4> QED
        BY <1>1, <2>1, <2>2, <3>4, <4>1, <4>2 DEF TypeOK, SameRequest
    <3>14. AddOK'
      BY <1>1, <2>5 DEF AddOK
    <3> QED
      BY <2>3, <2>4, <3>4, <3>12, <3>13, <3>14
  <2>6. CASE restoring = FALSE
    <3>1. cnt \in 1..Len(list) /\ NewData = list[cnt] /\ list[cnt] \in Data
      <4>1. cnt \in 1..Len(list) /\ NewData = list[cnt]
        BY <1>2, <1>4, <2>6 DEF Count, NewData
      <4> QED
        BY <4>1, ElementOfSeq DEF TypeOK
    <3>2. /\ Len(added) = cnt - 1 /\ status = "WAL_SUCCESS"
          /\ Len(table) = Len(Old) + cnt - 1 + NewRow
          /\ Begins(cnt - 1, 0)
          /\ \A x \in 1..(cnt - 1) : table[Len(Old) + x].id = added[x]
      BY <1>1, <2>6 DEF AddOK
    <3>3. /\ table' \in Seq(Rows) /\ Len(table') = Len(table) /\ Numbered'
          /\ \A x \in 1..(Len(table) - 1) : table'[x] = table[x]
          /\ table'[Len(table)].id = table[Len(table)].id
          /\ table'[Len(table)].data = list[cnt]
      BY <1>1, <1>2, <1>6, <3>1, RowSet
    <3>4. PICK c \in Nat : c = cnt
      BY <1>4
    <3>5. Len(table) = Len(Old) + c
      BY <1>1, <1>4, <2>3, <3>2, <3>4
    <3>6. /\ \A x \in 1..Len(Old) : table[x].data = Old[x]
          /\ \A x \in 1..(cnt - 1) : table[Len(Old) + x].data = list[x]
      BY <3>2 DEF Begins
    <3>7. nextId - 1 \in Nat /\ table'[Len(table)].id = nextId - 1
      <4>1. table[Len(table)].id \in Nat /\ table[Len(table)].id = nextId - 1
        BY <1>2, <1>4, TableFacts
      <4> QED
        BY <3>3, <4>1
    <3>8. /\ added' \in Seq(Nat) /\ Len(added') = cnt
          /\ \A x \in 1..(cnt - 1) : added'[x] = added[x]
          /\ added'[cnt] = nextId - 1
      <4>1. added' = Append(added, nextId - 1) /\ added \in Seq(Nat)
        BY <1>6, <2>6 DEF TypeOK
      <4>2. /\ added' \in Seq(Nat) /\ Len(added') = Len(added) + 1
            /\ \A x \in 1..Len(added) : added'[x] = added[x]
            /\ added'[Len(added) + 1] = nextId - 1
        BY <3>7, <4>1, AppendProperties
      <4>3. Len(added) + 1 = cnt
        BY <1>4, <3>2
      <4> QED
        BY <3>2, <4>2, <4>3
    <3>9. \A x \in 1..c : x \in 1..(cnt - 1) \/ x = cnt
      BY <1>4, <3>4
    <3>10. /\ \A x \in 1..Len(Old) : x \in 1..(Len(table) - 1)
           /\ \A x \in 1..(cnt - 1) : Len(Old) + x \in 1..(Len(table) - 1)
      BY <1>4, <2>3, <3>4, <3>5
    <3>11. /\ \A x \in 1..Len(Old) : table'[x].data = Old[x]
           /\ \A x \in 1..c : table'[Len(Old) + x].data = list[x]
      BY <3>3, <3>4, <3>5, <3>6, <3>9, <3>10
    <3>12. \A x \in 1..c : table'[Len(Old) + x].id = added'[x]
      BY <3>2, <3>3, <3>4, <3>5, <3>7, <3>8, <3>9, <3>10
    <3>13. Begins(c, 0)'
      <4>1. c \in 0..Len(list) /\ Len(table') >= Len(Old) + c + 0
        BY <1>4, <2>3, <3>1, <3>3, <3>4, <3>5
      <4> QED
        BY <2>1, <2>3, <3>11, <4>1 DEF Begins, SameRequest
    <3>14. AddOK'
      <4>1. /\ op' \in {"ADD_ROW", "REPLACE_ROWS"} /\ status' = "WAL_SUCCESS"
            /\ cnt' \in 1..(Len(list') + 1) /\ Len(added') = cnt' - 1
        BY <1>4, <2>1, <2>2, <2>3, <3>1, <3>2, <3>8 DEF SameRequest
      <4>2. cnt' - 1 = c /\ Len(table') = Len(Old') + cnt' - 1 + NewRow'
        BY <1>4, <2>2, <2>3, <2>4, <3>3, <3>4, <3>5
      <4>4. Begins(cnt - 1, 0)'
        BY <3>13, <4>2
      <4>5. \A x \in 1..(cnt' - 1) : table'[Len(Old') + x].id = added'[x]
        BY <2>3, <3>12, <4>2
      <4> QED
        BY <4>1, <4>2, <4>4, <4>5 DEF AddOK
    <3>15. TypeOK'
      <4>1. cnt' \in 0..(1 + Len(list'))
        BY <1>4, <2>1, <2>2, <3>1 DEF SameRequest
      <4>2. restoring' \in BOOLEAN /\ ~restoring' /\ pc' # "clear"
        BY <1>1, <2>2, <2>6
      <4> QED
        BY <1>1, <2>1, <2>2, <3>3, <3>8, <4>1, <4>2 DEF TypeOK, SameRequest
    <3>16. RestoreOK'
      BY <1>1, <2>6 DEF RestoreOK
    <3> QED
      BY <2>3, <2>4, <3>3, <3>14, <3>15, <3>16
  <2> QED
    BY <1>4, <2>5, <2>6
<1> QED
  BY <1>5, <1>6 DEF updateRow

LEMMA LoopEndsKeeps == TableInv /\ LoopEnds => TableInv'
<1> SUFFICES ASSUME TableInv, LoopEnds PROVE TableInv'
  OBVIOUS
<1> USE DEF TableInv
<1>1. /\ pc = "addrow" /\ pc' = "done" /\ cnt > Count /\ table' = table /\ nextId' = nextId
      /\ restoring' = restoring /\ cnt' = cnt /\ added' = added /\ status' = status
      /\ faulty' = faulty /\ NewRow = 0 /\ NewRow' = 0
  BY DEF LoopEnds, NewRow
<1>2. SameRequest
  BY DEF LoopEnds, requestVars, SameRequest, TypeOK
<1>3. /\ cnt \in Nat /\ cnt >= 1 /\ cnt <= Count + 1 /\ Len(list) \in Nat
      /\ Len(cached) \in Nat /\ Len(table) \in Nat /\ restoring \in BOOLEAN
  BY <1>1, AddingFacts
<1>4. /\ RequestOK' /\ UndeletedOK' /\ ClearOK' /\ op \in {"ADD_ROW", "REPLACE_ROWS"}
      /\ Old' = Old /\ Old \in Seq(Data \cup {Blank}) /\ Len(Old) \in Nat
  BY <1>1, <1>2, RequestKept
<1>5. NewRowOK' /\ AddOK' /\ UndoOK' /\ Numbered' /\ table' \in Seq(Rows)
  BY <1>1 DEF NewRowOK, AddOK, UndoOK, Numbered, TypeOK
<1>6. TypeOK'
  BY <1>1, <1>2, <1>3 DEF TypeOK, SameRequest
<1>7. CASE restoring = TRUE
  <2>1. cnt = Len(cached) + 1
    BY <1>1, <1>3, <1>7 DEF Count
  <2>2. PICK j \in 0..Len(list), b \in {0, 1}, r \in 0..Len(cached) :
           Begins(j, b) /\ Again(j, b, r) /\ ("undo" \notin faulty => j = 0)
    BY <1>1, <1>7 DEF RestoreOK
  <2>3. Len(table) = Len(Old) + j + b + r + NewRow
    BY <2>2 DEF Again
  <2>4. /\ j \in Nat /\ r \in Nat /\ Len(table') = Len(Old) + j + b + r + NewRow'
        /\ Len(table') >= Len(Old) + j + b
    BY <1>1, <1>3, <1>4, <2>3
  <2>5. Begins(j, b)'
    BY <1>1, <1>2, <1>4, <2>2, <2>4, BeginsKept
  <2>6. Again(j, b, r)'
    BY <1>1, <1>2, <1>3, <1>4, <2>2, <2>4, AgainKept
  <2>7. RestoreOK'
    <3>1. cnt' \in 1..(Len(cached) + 1) /\ cnt' = Len(cached) + 1
      BY <1>1, <1>3, <2>1
    <3> QED
      BY <1>1, <1>2, <1>7, <2>2, <2>5, <2>6, <3>1, RestoreFrom
  <2>8. DoneOK'
    BY <1>1, <1>7 DEF DoneOK
  <2> QED
    BY <1>4, <1>5, <1>6, <2>7, <2>8
<1>8. CASE restoring = FALSE
  <2>1. cnt = Len(list) + 1
    BY <1>1, <1>3, <1>8 DEF Count
  <2>2. /\ status = "WAL_SUCCESS" /\ Len(table) = Len(Old) + cnt - 1 + NewRow
        /\ Begins(cnt - 1, 0)
    BY <1>1, <1>8 DEF AddOK
  <2>3. cnt - 1 = Len(list) /\ Len(table) = Len(Old) + Len(list)
    BY <1>1, <1>3, <1>4, <2>1, <2>2
  <2>4. /\ \A x \in 1..Len(Old) : table[x].data = Old[x]
        /\ \A x \in 1..Len(list) : table[Len(Old) + x].data = list[x]
    BY <2>2, <2>3 DEF Begins
  <2>5. /\ Contents \in Seq(Data \cup {Blank}) /\ Len(Contents) = Len(Old) + Len(list)
        /\ \A x \in 1..(Len(Old) + Len(list)) : Contents[x] = table[x].data
    BY <2>3, TableFacts
  <2>6. list \in Seq(Data \cup {Blank})
    <3>1. list \in Seq(Data)
      BY DEF TypeOK
    <3> QED
      BY <3>1, SeqMonotonic
  <2>7. /\ Old \o list \in Seq(Data \cup {Blank})
        /\ Len(Old \o list) = Len(Old) + Len(list)
        /\ \A x \in 1..(Len(Old) + Len(list)) :
              (Old \o list)[x] = IF x <= Len(Old) THEN Old[x] ELSE list[x - Len(Old)]
    BY <1>4, <2>6, ConcatProperties
  <2>8. \A x \in 1..(Len(Old) + Len(list)) : Contents[x] = (Old \o list)[x]
    <3> SUFFICES ASSUME NEW x \in 1..(Len(Old) + Len(list))
                 PROVE  Contents[x] = (Old \o list)[x]
      OBVIOUS
    <3>1. CASE x <= Len(Old)
      <4>1. x \in 1..Len(Old)
        BY <1>3, <1>4, <3>1
      <4> QED
        BY <2>4, <2>5, <2>7, <3>1, <4>1
    <3>2. CASE ~(x <= Len(Old))
      <4>1. x - Len(Old) \in 1..Len(list) /\ Len(Old) + (x - Len(Old)) = x
        BY <1>3, <1>4, <3>2
      <4>2. table[x].data = list[x - Len(Old)]
        BY <2>4, <4>1
      <4> QED
        BY <2>5, <2>7, <3>2, <4>2
    <3> QED
      BY <3>1, <3>2
  <2>9. Contents = Old \o list
    BY <2>5, <2>7, <2>8, SeqEqual
  <2>10. Contents' = Old' \o list'
    BY <1>1, <1>2, <1>4, <2>9 DEF Contents, DataOf, SameRequest
  <2>11. DoneOK'
    BY <1>1, <1>2, <1>4, <2>2, <2>10 DEF DoneOK, SameRequest
  <2>12. RestoreOK'
    BY <1>1, <1>8 DEF RestoreOK
  <2> QED
    BY <1>4, <1>5, <1>6, <2>11, <2>12
<1> QED
  BY <1>3, <1>7, <1>8

------------------------------------------------------------------------------
(***************************************************************************)
(* Deleting the rows that were added                                       *)
(***************************************************************************)
LEMMA UndoKeeps == TableInv /\ UndoAddedRow => TableInv'
<1> SUFFICES ASSUME TableInv, UndoAddedRow PROVE TableInv'
  OBVIOUS
<1> USE DEF TableInv
<1>1. /\ pc = "undo" /\ pc' = pc /\ cnt > 0 /\ restoring' = restoring /\ nextId' = nextId
      /\ added' = added /\ status' = status
  BY DEF UndoAddedRow, FirstRow
<1>2. /\ op \in {"ADD_ROW", "REPLACE_ROWS"} /\ restoring = FALSE
      /\ status = "WAL_FAILURE" /\ cnt \in 0..Len(list) /\ cnt <= Len(added)
      /\ Len(list) \in Nat /\ Len(added) \in Nat
  BY <1>1 DEF UndoOK, TypeOK
<1>3. PICK j \in 0..Len(list), b \in {0, 1} :
         /\ Begins(j, b)
         /\ Len(table) = Len(Old) + j + b
         /\ j = cnt \/ (cnt = 0 /\ "undo" \in faulty)
         /\ cnt > 0 => \A x \in 1..cnt : table[Len(Old) + x].id = added[x]
  BY <1>1 DEF UndoOK
<1>4. SameRequest
  BY DEF UndoAddedRow, requestVars, Failed, SameRequest, TypeOK
<1>5. /\ RequestOK' /\ UndeletedOK' /\ ClearOK' /\ Old' = Old /\ Len(Old) \in Nat
  BY <1>1, <1>4, RequestKept
<1>6. NewRowOK' /\ AddOK' /\ RestoreOK' /\ DoneOK'
  BY <1>1, <1>2 DEF NewRowOK, AddOK, RestoreOK, DoneOK
<1>7. ASSUME table' \in Seq(Rows), cnt' \in 0..Len(list) PROVE TypeOK'
  <2>1. restoring' \in BOOLEAN /\ ~restoring' /\ pc' # "clear"
    BY <1>1, <1>2
  <2>2. cnt' \in 0..(1 + Len(list'))
    BY <1>2, <1>4, <1>7 DEF SameRequest
  <2> QED
    BY <1>1, <1>4, <1>7, <2>1, <2>2 DEF TypeOK, SameRequest
<1>8. ASSUME table' = WithoutRow(added[cnt]), cnt' = cnt - 1, UNCHANGED faulty
      PROVE  TableInv'
  <2>1. /\ j = cnt /\ cnt \in 1..Len(list)
        /\ \A x \in 1..cnt : table[Len(Old) + x].id = added[x]
    BY <1>1, <1>2, <1>3
  <2>2. PICK i \in Nat : i = Len(Old) + cnt
    BY <1>2, <1>5
  <2>3. i \in 1..Len(table) /\ table[i].id = added[cnt] /\ Len(table) = i + b
    BY <1>2, <1>3, <1>5, <2>1, <2>2
  <2>4. /\ table' \in Seq(Rows) /\ Len(table') = Len(table) - 1 /\ Numbered'
        /\ \A x \in 1..(Len(table) - 1) :
              table'[x] = IF x < i THEN table[x] ELSE table[x + 1]
    BY <1>1, <1>8, <2>3, RowDeleted
  <2>5. PICK c \in Nat : c = cnt - 1
    BY <2>1
  <2>6. \A x \in 1..(i - 1) : table'[x] = table[x]
    BY <2>3, <2>4
  <2>7. /\ \A x \in 1..Len(Old) : table[x].data = Old[x]
        /\ \A x \in 1..j : table[Len(Old) + x].data = list[x]
        /\ b = 1 => /\ table[Len(Old) + j + 1].data = Blank
                    /\ "revert" \in faulty /\ j < Len(list)
    BY <1>3 DEF Begins
  <2>8. /\ \A x \in 1..Len(Old) : x \in 1..(i - 1)
        /\ \A x \in 1..c : Len(Old) + x \in 1..(i - 1) /\ x \in 1..cnt
    BY <1>2, <1>5, <2>1, <2>2, <2>5
  <2>9. /\ \A x \in 1..Len(Old) : table'[x].data = Old[x]
        /\ \A x \in 1..c : table'[Len(Old) + x].data = list[x]
        /\ \A x \in 1..c : table'[Len(Old) + x].id = added[x]
    BY <2>1, <2>6, <2>7, <2>8
  <2>10. b = 1 => table'[Len(Old) + c + 1].data = Blank
    <3> SUFFICES ASSUME b = 1 PROVE table'[Len(Old) + c + 1].data = Blank
      OBVIOUS
    <3>1. /\ Len(Old) + c + 1 = i /\ i \in 1..(Len(table) - 1) /\ ~(i < i)
          /\ i + 1 = Len(Old) + j + 1
      BY <1>5, <2>1, <2>2, <2>3, <2>5
    <3>2. table'[i] = table[i + 1]
      BY <2>4, <3>1
    <3> QED
      BY <2>7, <3>1, <3>2
  <2>11. Len(table') = Len(Old) + c + b /\ c \in 0..Len(list) /\ c < j
    BY <1>2, <1>5, <2>1, <2>2, <2>3, <2>4, <2>5
  <2>12. Begins(c, b)'
    <3>1. b = 1 => "revert" \in faulty' /\ c < Len(list')
      BY <1>2, <1>4, <2>7, <2>11 DEF SameRequest
    <3>2. Len(table') >= Len(Old) + c + b
      BY <1>5, <2>11
    <3> QED
      BY <1>4, <1>5, <2>9, <2>10, <2>11, <3>1, <3>2 DEF Begins, SameRequest
  <2>13. UndoOK'
    <3>1. cnt' \in 0..Len(list') /\ cnt' <= Len(added') /\ cnt' = c
      BY <1>1, <1>2, <1>4, <1>8, <2>1, <2>5 DEF SameRequest
    <3>2. op' \in {"ADD_ROW", "REPLACE_ROWS"} /\ ~restoring' /\ status' = "WAL_FAILURE"
      BY <1>1, <1>2, <1>4 DEF SameRequest
    <3>3. c \in 0..Len(list') /\ Len(table') = Len(Old') + c + b
      BY <1>4, <1>5, <2>11 DEF SameRequest
    <3>4. \A x \in 1..cnt' : table'[Len(Old') + x].id = added'[x]
      BY <1>1, <1>5, <2>9, <3>1
    <3> QED
      BY <2>12, <3>1, <3>2, <3>3, <3>4 DEF UndoOK
  <2>14. TypeOK'
    <3>1. cnt' \in 0..Len(list)
      BY <1>2, <1>8, <2>1
    <3> QED
      BY <1>7, <2>4, <3>1
  <2> QED
    BY <1>5, <1>6, <2>4, <2>13, <2>14
<1>9. ASSUME Failed("undo"), cnt' = 0, UNCHANGED table
      PROVE  TableInv'
  <2>1. table' \in Seq(Rows) /\ Numbered' /\ table' = table
    BY <1>1, <1>9 DEF TypeOK, Numbered
  <2>2. j \in Nat /\ Len(table') >= Len(Old) + j + b
    BY <1>2, <1>3, <1>5, <2>1
  <2>3. Begins(j, b)'
    BY <1>3, <1>4, <1>5, <2>1, <2>2, BeginsKept
  <2>4. UndoOK'
    <3>1. cnt' \in 0..Len(list') /\ cnt' <= Len(added') /\ ~(cnt' > 0) /\ "undo" \in faulty'
      BY <1>1, <1>2, <1>4, <1>9 DEF SameRequest, Failed
    <3>2. op' \in {"ADD_ROW", "REPLACE_ROWS"} /\ ~restoring' /\ status' = "WAL_FAILURE"
      BY <1>1, <1>2, <1>4 DEF SameRequest
    <3>3. j \in 0..Len(list') /\ Len(table') = Len(Old') + j + b
      BY <1>3, <1>4, <1>5, <2>1 DEF SameRequest
    <3> QED
      BY <1>9, <2>3, <3>1, <3>2, <3>3 DEF UndoOK
  <2>5. TypeOK'
    <3>1. cnt' \in 0..Len(list)
      BY <1>2, <1>9
    <3> QED
      BY <1>7, <2>1, <3>1
  <2> QED
    BY <1>5, <1>6, <2>1, <2>4, <2>5
<1> QED
  BY <1>8, <1>9 DEF UndoAddedRow, FirstRow

LEMMA UndoEndsKeeps == TableInv /\ UndoEnds => TableInv'
<1> SUFFICES ASSUME TableInv, UndoEnds PROVE TableInv'
  OBVIOUS
<1> USE DEF TableInv
<1>1. /\ pc = "undo" /\ cnt <= 0 /\ nextId' = nextId /\ table' = table
      /\ added' = added /\ status' = status /\ faulty' = faulty
      /\ pc' \in {"done", "addrow"}
  BY DEF UndoEnds, FirstRow
<1>2. /\ op \in {"ADD_ROW", "REPLACE_ROWS"} /\ restoring = FALSE
      /\ status = "WAL_FAILURE" /\ cnt = 0 /\ Len(list) \in Nat
  BY <1>1 DEF UndoOK, TypeOK
<1>3. PICK j \in 0..Len(list), b \in {0, 1} :
         /\ Begins(j, b)
         /\ Len(table) = Len(Old) + j + b
         /\ j = cnt \/ (cnt = 0 /\ "undo" \in faulty)
  BY <1>1 DEF UndoOK
<1>4. SameRequest
  BY DEF UndoEnds, requestVars, SameRequest, TypeOK
<1>5. /\ RequestOK' /\ UndeletedOK' /\ ClearOK' /\ Old' = Old /\ Len(Old) \in Nat
  BY <1>1, <1>4, RequestKept
<1>6. /\ NewRowOK' /\ UndoOK' /\ Numbered' /\ table' \in Seq(Rows) /\ NewRow' = 0
  BY <1>1 DEF NewRowOK, UndoOK, Numbered, TypeOK, NewRow
<1>7. Begins(j, b)'
  <2>1. j \in Nat /\ Len(table') >= Len(Old) + j + b
    BY <1>1, <1>2, <1>3, <1>5
  <2> QED
    BY <1>1, <1>3, <1>4, <1>5, <2>1, BeginsKept
<1>8. "undo" \notin faulty => j = 0
  BY <1>2, <1>3
<1>9. CASE cached = <<>>
  <2>1. pc' = "done" /\ restoring' = restoring /\ cnt' = cnt
    BY <1>9 DEF UndoEnds, FirstRow
  <2>2. AddOK' /\ RestoreOK'
    BY <1>2, <2>1 DEF AddOK, RestoreOK
  <2>3. op' = "REPLACE_ROWS" => before' = <<>>
    <3>1. op = "REPLACE_ROWS" => before = DataOf(cached)
      BY <1>1 DEF RequestOK
    <3>2. DataOf(cached) = <<>>
      <4>1. DataOf(cached) \in Seq(Data \cup {Blank}) /\ Len(DataOf(cached)) = Len(cached)
        BY DataOfRows DEF TypeOK
      <4>2. Len(cached) = 0
        BY <1>9, EmptySeq
      <4> QED
        BY <4>1, <4>2, EmptySeq
    <3> QED
      BY <1>4, <3>1, <3>2 DEF SameRequest
  <2>4. DoneOK'
    <3>1. j \in 0..Len(list') /\ Len(table') = Len(Old') + j + b
      BY <1>1, <1>3, <1>4, <1>5 DEF SameRequest
    <3>2. op' # "DELETE_ROW" /\ status' = "WAL_FAILURE" /\ ("undo" \notin faulty' => j = 0)
      BY <1>1, <1>2, <1>4, <1>8 DEF SameRequest
    <3> QED
      BY <1>7, <2>3, <3>1, <3>2 DEF DoneOK
  <2>5. TypeOK'
    <3>1. cnt' \in 0..(1 + Len(list'))
      BY <1>2, <1>4, <2>1 DEF SameRequest
    <3>2. restoring' \in BOOLEAN /\ ~restoring' /\ pc' # "clear"
      BY <1>2, <2>1
    <3> QED
      BY <1>1, <1>4, <2>1, <3>1, <3>2 DEF TypeOK, SameRequest
  <2> QED
    BY <1>5, <1>6, <2>2, <2>4, <2>5
<1>10. CASE cached # <<>>
  <2>1. pc' = "addrow" /\ restoring' = TRUE /\ cnt' = 1
    BY <1>10 DEF UndoEnds, FirstRow
  <2>2. op = "REPLACE_ROWS" /\ before = DataOf(cached) /\ Len(cached) \in Nat \ {0}
    <3>1. Len(cached) \in Nat \ {0}
      BY <1>10, EmptySeq DEF TypeOK
    <3> QED
      BY <1>1, <1>2, <1>10, <3>1 DEF RequestOK
  <2>3. Again(j, b, 0)'
    <3>1. [x \in 1..0 |-> x] \in [1..0 -> 1..(cnt' - 1)] /\ \A x \in 1..0 : FALSE
      OBVIOUS
    <3>2. \E f \in [1..0 -> 1..(cnt' - 1)] :
             Grows(f, 0) /\ \A x \in 1..0 : table'[Len(Old) + j + b + x].data
                                               \in {before'[f[x]], Blank}
      BY <3>1, Zenon DEF Grows
    <3>3. /\ 0 <= cnt' - 1 /\ 0 = cnt' - 1
          /\ Len(table') = Len(Old) + j + b + 0 + NewRow'
      BY <1>1, <1>3, <1>5, <1>6, <2>1
    <3> QED
      BY <1>5, <3>1, <3>2, <3>3 DEF Again
  <2>4. RestoreOK'
    <3>1. /\ op' = "REPLACE_ROWS" /\ status' = "WAL_FAILURE" /\ before' = DataOf(cached')
          /\ cnt' \in 1..(Len(cached') + 1) /\ j \in 0..Len(list') /\ 0 \in 0..Len(cached')
          /\ "undo" \notin faulty' => j = 0
      BY <1>1, <1>2, <1>4, <1>8, <2>1, <2>2 DEF SameRequest, DataOf
    <3> QED
      BY <1>7, <2>1, <2>3, <3>1 DEF RestoreOK
  <2>5. AddOK' /\ DoneOK'
    BY <2>1 DEF AddOK, DoneOK
  <2>6. TypeOK'
    <3>1. cnt' \in 0..(1 + Len(cached'))
      BY <1>4, <2>1, <2>2 DEF SameRequest
    <3>2. restoring' \in BOOLEAN /\ restoring'
      BY <2>1
    <3> QED
      BY <1>1, <1>4, <2>1, <3>1, <3>2 DEF TypeOK, SameRequest
  <2> QED
    BY <1>5, <1>6, <2>4, <2>5, <2>6
<1> QED
  BY <1>9, <1>10

------------------------------------------------------------------------------
(***************************************************************************)
(* The theorems                                                            *)
(***************************************************************************)
LEMMA NextKeeps == TableInv /\ [Next]_vars => TableInv'
<1> SUFFICES ASSUME TableInv, [Next]_vars PROVE TableInv'
  OBVIOUS
<1>1. CASE UNCHANGED vars
  <2>1. /\ table' = table /\ objectName' = objectName /\ nextId' = nextId /\ pc' = pc
        /\ op' = op /\ name' = name /\ list' = list /\ cached' = cached
        /\ restoring' = restoring /\ cnt' = cnt /\ added' = added /\ status' = status
        /\ requests' = requests /\ before' = before /\ undeleted' = undeleted
        /\ faulty' = faulty
    BY <1>1 DEF vars
  <2>2. restoring' \in BOOLEAN /\ (restoring' <=> restoring)
    BY <2>1 DEF TableInv, TypeOK
  <2>3. TypeOK' /\ Numbered' /\ NewRowOK'
    BY <2>1, <2>2 DEF TableInv, TypeOK, Numbered, NewRowOK, Count
  <2>4. RequestOK'
    BY <2>1, <2>2 DEF TableInv, RequestOK, Contents, DataOf
  <2>5. UndeletedOK' /\ ClearOK'
    BY <2>1 DEF TableInv, UndeletedOK, ClearOK
  <2>6. AddOK'
    BY <2>1, <2>2 DEF TableInv, AddOK, Begins, Old, NewRow
  <2>7. UndoOK'
    BY <2>1, <2>2 DEF TableInv, UndoOK, Begins, Old
  <2>8. DoneOK'
    <3>1. Contents' = Contents /\ Old' = Old
      BY <2>1 DEF Contents, DataOf, Old
    <3>2. \A j \in 0..Len(list), b \in {0, 1} : Begins(j, b) => Begins(j, b)'
      BY <2>1, <3>1 DEF Begins
    <3> QED
      BY <2>1, <2>2, <3>1, <3>2 DEF TableInv, DoneOK
  <2>9. RestoreOK'
    <3>1. DataOf(cached)' = DataOf(cached) /\ Old' = Old /\ NewRow' = NewRow
      BY <2>1 DEF DataOf, Old, NewRow
    <3>2. \A j \in 0..Len(list), b \in {0, 1} : Begins(j, b) => Begins(j, b)'
      BY <2>1, <3>1 DEF Begins
    <3>3. \A j \in 0..Len(list), b \in {0, 1}, r \in 0..Len(cached) :
             Again(j, b, r) => Again(j, b, r)'
      <4> SUFFICES ASSUME NEW j \in 0..Len(list), NEW b \in {0, 1},
                          NEW r \in 0..Len(cached), Again(j, b, r)
                   PROVE  Again(j, b, r)'
        OBVIOUS
      <4>1. \E f \in [1..r -> 1..(cnt - 1)] :
               Grows(f, r) /\ \A x \in 1..r : table[Len(Old) + j + b + x].data
                                                 \in {before[f[x]], Blank}
        BY DEF Again
      <4>2. \E f \in [1..r -> 1..(cnt' - 1)] :
               Grows(f, r) /\ \A x \in 1..r : table'[Len(Old') + j + b + x].data
                                                 \in {before'[f[x]], Blank}
        BY <2>1, <3>1, <4>1, Zenon
      <4> QED
        BY <2>1, <3>1, <4>2 DEF Again
    <3> QED
      BY <2>1, <2>2, <3>1, <3>2, <3>3 DEF TableInv, RestoreOK
  <2> QED
    BY <2>3, <2>4, <2>5, <2>6, <2>7, <2>8, <2>9 DEF TableInv
<1>2. CASE Next
  BY <1>2, ReplaceArrives, AddArrives, DeleteArrives, CacheKeeps, DeleteOldKeeps,
     DeleteAllEndsKeeps, AddRowKeeps, InvalidIndexKeeps, UpdateKeeps, RevertKeeps,
     LoopEndsKeeps, UndoKeeps, UndoEndsKeeps, ReportKeeps
     DEF Next
<1> QED
  BY <1>1, <1>2

\* What the properties are concluded from holds at every step.
THEOREM TableInvariance == Spec => []TableInv
BY InitInv, NextKeeps, PTL DEF Spec

\* The state of a table request, the loop index above all, keeps its type:
\* cnt runs over the list that is being added or deleted, or one past it.
THEOREM TypeCorrect == Spec => []TypeOK
<1>1. TableInv => TypeOK
  BY DEF TableInv
<1> QED
  BY <1>1, TableInvariance, PTL

\* After a replacement that replaceTable reports as done the table has the new
\* rows, behind the old ones that could not be deleted.
THEOREM SuccessMeansReplaced == Spec => []SuccessReplaces
<1>1. TableInv => SuccessReplaces
  BY DEF TableInv, SuccessReplaces, RestoreOK, DoneOK, Old
<1> QED
  BY <1>1, TableInvariance, PTL

------------------------------------------------------------------------------
\* The name with which the old rows are added back is the one MapsTwice is about.
LEMMA NameMapsTwice ==
    ASSUME TableInv, pc # "idle", op = "REPLACE_ROWS", MapsTwice
    PROVE  IsMapped(name)
BY DEF TableInv, RequestOK, MapsTwice

\* What is there when the old rows have been added back and no call to do so failed.
LEMMA AllAddedBack ==
    ASSUME TableInv, pc = "done", restoring, MapsTwice, "restore" \notin faulty
    PROVE  \E j \in 0..Len(list), b \in {0, 1} :
              /\ Begins(j, b) /\ ("undo" \notin faulty => j = 0)
              /\ Len(table) = Len(Old) + j + b + Len(before)
              /\ \A x \in 1..Len(before) : table[Len(Old) + j + b + x].data = before[x]
<1> USE DEF TableInv
<1>1. /\ op = "REPLACE_ROWS" /\ before = DataOf(cached) /\ cnt = Len(cached) + 1
      /\ Len(cached) \in Nat
  BY DEF RestoreOK, TypeOK
<1>2. PICK j \in 0..Len(list), b \in {0, 1}, r \in 0..Len(cached) :
         Begins(j, b) /\ Again(j, b, r) /\ ("undo" \notin faulty => j = 0)
  BY DEF RestoreOK
<1>3. IsMapped(name) /\ NewRow = 0
  BY <1>1, NameMapsTwice DEF NewRow
<1>4. /\ Len(table) = Len(Old) + j + b + r + NewRow /\ r = cnt - 1
      /\ \A x \in 1..r : table[Len(Old) + j + b + x].data = before[x]
  BY <1>2, <1>3 DEF Again
<1>5. r = Len(before)
  BY <1>1, <1>4, DataOfRows DEF TypeOK
<1>6. Len(table) = Len(Old) + j + b + Len(before)
  <2>1. Len(table) \in Nat /\ Len(Old) \in Nat
    BY DEF TypeOK, Old
  <2> QED
    BY <2>1, <1>3, <1>4, <1>5
<1> QED
  BY <1>2, <1>4, <1>5, <1>6

\* When every row that should be in a table is, and no other, the contents are
\* what they should be.
LEMMA SameContents ==
    ASSUME TableInv, Len(table) = Len(before),
           \A x \in 1..Len(before) : table[x].data = before[x]
    PROVE  Contents = before
<1>1. TypeOK /\ before \in Seq(Data \cup {Blank})
  BY DEF TableInv, TypeOK
<1> QED
  BY <1>1, TableFacts, SeqEqual

LEMMA InvFailureRestores == TableInv => FailureRestores
<1> SUFFICES ASSUME TableInv, pc = "done", status = "WAL_FAILURE", MapsTwice,
                    faulty \subseteq {"add"}
             PROVE  Contents = before
  BY DEF FailureRestores
<1> USE DEF TableInv
<1>1. undeleted = <<>> /\ Len(undeleted) = 0
  BY EmptySeq DEF UndeletedOK
<1>2. Len(list) \in Nat /\ Len(before) \in Nat
  BY DEF TypeOK
<1>3. CASE restoring = TRUE
  <2>1. PICK j \in 0..Len(list), b \in {0, 1} :
              /\ Begins(j, b) /\ ("undo" \notin faulty => j = 0)
              /\ Len(table) = Len(Old) + j + b + Len(before)
              /\ \A x \in 1..Len(before) : table[Len(Old) + j + b + x].data = before[x]
    BY <1>3, AllAddedBack
  <2>2. j = 0 /\ b = 0 /\ Len(Old) = 0
    <3>1. op = "REPLACE_ROWS"
      BY <1>3 DEF RestoreOK
    <3> QED
      BY <1>1, <2>1, <3>1 DEF Begins, Old
  <2>3. \A x \in 1..Len(before) : Len(Old) + j + b + x = x
    BY <2>2
  <2>4. Len(table) = Len(before) /\ \A x \in 1..Len(before) : table[x].data = before[x]
    BY <1>2, <2>1, <2>2, <2>3
  <2> QED
    BY <2>4, SameContents
<1>4. CASE restoring = FALSE
  <2>1. CASE Contents = before
    BY <2>1
  <2>2. ASSUME op # "DELETE_ROW", op = "REPLACE_ROWS" => before = <<>>,
               NEW j \in 0..Len(list), NEW b \in {0, 1}, Begins(j, b),
               Len(table) = Len(Old) + j + b, "undo" \notin faulty => j = 0
        PROVE  Contents = before
    <3>1. j = 0 /\ b = 0 /\ \A x \in 1..Len(Old) : table[x].data = Old[x]
      BY <2>2 DEF Begins
    <3>2. Old = before
      BY <1>1, <2>2 DEF Old, TypeOK
    <3>3. Len(table) = Len(before) /\ \A x \in 1..Len(before) : table[x].data = before[x]
      BY <1>2, <2>2, <3>1, <3>2
    <3> QED
      BY <3>3, SameContents
  <2> QED
    BY <1>4, <2>1, <2>2 DEF DoneOK
<1> QED
  BY <1>3, <1>4 DEF TypeOK

\* A request that fails because a row could not be added, and for no other
\* reason, leaves the table as it was: addNewData deletes what it had added and
\* addCachedData adds back what deleteAllTableData had deleted.
THEOREM FailureMeansRestored == Spec => []FailureRestores
BY InvFailureRestores, TableInvariance, PTL

------------------------------------------------------------------------------
\* When the old rows stand one behind the other somewhere in the table, each of
\* them is there as often as it was.
LEMMA ShiftKeepsRows ==
    ASSUME TableInv, NEW d \in Nat,
           \A x \in 1..Len(before) : d + x \in 1..Len(table) /\ table[d + x].data = before[x]
    PROVE  KeepsRows
<1> SUFFICES ASSUME NEW v
             PROVE  Cardinality({k \in DOMAIN before : before[k] = v})
                       <= Cardinality({k \in DOMAIN Contents : Contents[k] = v})
  BY DEF KeepsRows
<1> DEFINE A == {k \in DOMAIN before : before[k] = v}
           B == {k \in DOMAIN Contents : Contents[k] = v}
           f == [k \in A |-> d + k]
<1>1. /\ DOMAIN before = 1..Len(before) /\ Len(before) \in Nat
      /\ DOMAIN Contents = 1..Len(table) /\ Len(table) \in Nat
      /\ \A x \in 1..Len(table) : Contents[x] = table[x].data
  <2>1. TypeOK /\ before \in Seq(Data \cup {Blank})
    BY DEF TableInv, TypeOK
  <2> QED
    BY <2>1, TableFacts, LenProperties
<1>2. IsFiniteSet(B)
  <2>1. IsFiniteSet(1..Len(table)) /\ B \subseteq 1..Len(table)
    BY <1>1, FS_Interval
  <2> QED
    BY <2>1, FS_Subset
<1>3. \A k \in A : d + k \in B
  BY <1>1
<1>4. \A k1, k2 \in A : d + k1 = d + k2 => k1 = k2
  BY <1>1
<1>5. f \in Injection(A, B)
  <2>1. f \in [A -> B]
    BY <1>3
  <2>2. \A k1, k2 \in A : f[k1] = f[k2] => k1 = k2
    BY <1>4
  <2> HIDE DEF A, B, f
  <2> QED
    BY <2>1, <2>2 DEF Injection, IsInjective
<1> HIDE DEF A, B, f
<1>6. Cardinality(A) <= Cardinality(B)
  BY <1>2, <1>5, FS_Injection
<1> QED
  BY <1>6 DEF A, B

LEMMA InvFailureKeepsRows == TableInv => FailureKeepsRows
<1> SUFFICES ASSUME TableInv, pc = "done", status = "WAL_FAILURE", MapsTwice,
                    "restore" \notin faulty
             PROVE  KeepsRows
  BY DEF FailureKeepsRows
<1>1. /\ Len(list) \in Nat /\ Len(before) \in Nat /\ Len(Old) \in Nat /\ Len(table) \in Nat
      /\ restoring \in BOOLEAN /\ before \in Seq(Data \cup {Blank}) /\ TypeOK
  BY DEF TableInv, TypeOK, Old
<1>2. CASE restoring = TRUE
  <2>1. PICK j \in 0..Len(list), b \in {0, 1} :
              /\ Begins(j, b)
              /\ Len(table) = Len(Old) + j + b + Len(before)
              /\ \A x \in 1..Len(before) : table[Len(Old) + j + b + x].data = before[x]
    BY <1>2, AllAddedBack
  <2>2. PICK d \in Nat : d = Len(Old) + j + b
    BY <1>1
  <2>3. \A x \in 1..Len(before) : d + x \in 1..Len(table) /\ table[d + x].data = before[x]
    BY <1>1, <2>1, <2>2
  <2> QED
    BY <2>3, ShiftKeepsRows
<1>3. CASE restoring = FALSE
  <2>1. CASE Contents = before
    <3>1. \A x \in 1..Len(before) : 0 + x \in 1..Len(table) /\ table[0 + x].data = before[x]
      <4>1. Len(table) = Len(before) /\ \A x \in 1..Len(before) : table[x].data = before[x]
        BY <1>1, <2>1, TableFacts
      <4>2. \A x \in 1..Len(before) : 0 + x = x
        BY <1>1
      <4> QED
        BY <4>1, <4>2
    <3> QED
      BY <3>1, ShiftKeepsRows
  <2>2. ASSUME op # "DELETE_ROW", op = "REPLACE_ROWS" => before = <<>>,
               NEW j \in 0..Len(list), NEW b \in {0, 1}, Begins(j, b),
               Len(table) = Len(Old) + j + b
        PROVE  KeepsRows
    <3>1. CASE op = "ADD_ROW"
      <4>1. Old = before
        BY <3>1 DEF Old
      <4>2. \A x \in 1..Len(before) : table[x].data = before[x]
        BY <2>2, <4>1 DEF Begins
      <4>3. \A x \in 1..Len(before) : 0 + x \in 1..Len(table) /\ 0 + x = x
        BY <1>1, <2>2, <4>1
      <4>4. \A x \in 1..Len(before) : 0 + x \in 1..Len(table) /\ table[0 + x].data = before[x]
        BY <4>2, <4>3
      <4> QED
        BY <4>4, ShiftKeepsRows
    <3>2. CASE op = "REPLACE_ROWS"
      <4>1. Len(before) = 0
        BY <2>2, <3>2, EmptySeq
      <4>2. \A x \in 1..Len(before) : 0 + x \in 1..Len(table) /\ table[0 + x].data = before[x]
        BY <4>1
      <4> QED
        BY <4>2, ShiftKeepsRows
    <3> QED
      BY <2>2, <3>1, <3>2, <1>1 DEF TypeOK
  <2> QED
    BY <1>3, <2>1, <2>2 DEF DoneOK, TableInv
<1> QED
  BY <1>1, <1>2, <1>3

\* Whatever else fails, a request that fails loses no row of the table as long as
\* addCachedData can add the old rows back.
THEOREM FailureLosesNoRow == Spec => []FailureKeepsRows
BY InvFailureKeepsRows, TableInvariance, PTL
------------------------------------------------------------------------------
(***************************************************************************)
(* What a crash leaves                                                     *)
(***************************************************************************)
\* The n rows of the table behind place k, as the properties see them.
LEMMA Segment ==
    ASSUME TypeOK, NEW k \in Nat, NEW n \in Nat, k + n <= Len(table)
    PROVE  /\ SubSeq(Contents, k + 1, k + n) \in Seq(Data \cup {Blank})
           /\ Len(SubSeq(Contents, k + 1, k + n)) = n
           /\ \A x \in 1..n : SubSeq(Contents, k + 1, k + n)[x] = table[k + x].data
<1>1. \A x \in (k + 1)..(k + n) :
         Contents[x] \in Data \cup {Blank} /\ Contents[x] = table[x].data
  BY TableFacts
<1>2. k + 1 \in Int /\ k + n \in Int
  OBVIOUS
<1>3. /\ SubSeq(Contents, k + 1, k + n) \in Seq(Data \cup {Blank})
      /\ Len(SubSeq(Contents, k + 1, k + n)) = IF k + 1 <= k + n THEN k + n - (k + 1) + 1 ELSE 0
      /\ \A x \in 1..(k + n - (k + 1) + 1) :
            SubSeq(Contents, k + 1, k + n)[x] = Contents[k + 1 + x - 1]
  BY <1>1, <1>2, SubSeqProperties
<1>4. \A x \in 1..n : k + 1 + x - 1 = k + x /\ k + x \in (k + 1)..(k + n)
  OBVIOUS
<1>5. \A x \in 1..n : SubSeq(Contents, k + 1, k + n)[x] = Contents[k + x]
  BY <1>3, <1>4
<1>6. \A x \in 1..n : SubSeq(Contents, k + 1, k + n)[x] = table[k + x].data
  BY <1>1, <1>4, <1>5
<1>7. (IF k + 1 <= k + n THEN k + n - (k + 1) + 1 ELSE 0) = n
  OBVIOUS
<1> QED
  BY <1>3, <1>6, <1>7

\* A sequence whose elements are chosen from another, in its order, is a part.
LEMMA PartBy ==
    ASSUME NEW S, NEW s \in Seq(S), NEW t \in Seq(S), NEW spoilt, Len(s) <= Len(t),
           NEW f \in [1..Len(s) -> 1..Len(t)], Grows(f, Len(s)),
           \A x \in 1..Len(s) : s[x] \in {t[f[x]]} \cup spoilt
    PROVE  IsPart(s, t, spoilt)
<1>1. DOMAIN s = 1..Len(s) /\ DOMAIN t = 1..Len(t)
  BY LenProperties
<1>2. \A x, y \in 1..Len(s) : x < y => f[x] < f[y]
  BY DEF Grows
<1> QED
  BY <1>1, <1>2 DEF IsPart

\* The table up to place k is a part of what it was, the first j rows of the
\* request and b empty ones are behind, and the rest is again a part of what it was.
LEMMA Splits ==
    ASSUME TypeOK,
           NEW k \in Nat, NEW j \in 0..Len(list), NEW b \in {0, 1}, NEW r \in Nat,
           Len(table) = k + j + b + r,
           r > 0 => restoring,
           b = 1 => j < Len(list) /\ table[k + j + 1].data = Blank,
           \A x \in 1..j : table[k + x].data = list[x],
           k <= Len(before),
           \E g \in [1..k -> 1..Len(before)] :
              Grows(g, k) /\ \A x \in 1..k : table[x].data = before[g[x]],
           r <= Len(before),
           \E f \in [1..r -> 1..Len(before)] :
              Grows(f, r) /\ \A x \in 1..r : table[k + j + b + x].data \in {before[f[x]], Blank}
    PROVE  \E m \in 0..Len(Contents) : \E l \in m..Len(Contents) :
               /\ l < Len(Contents) => restoring
               /\ AreNewRows(SubSeq(Contents, m + 1, l))
               /\ IsPart(SubSeq(Contents, 1, m), before, {})
               /\ IsPart(SubSeq(Contents, l + 1, Len(Contents)), before, {Blank})
<1>1. /\ Len(table) \in Nat /\ Len(Contents) = Len(table) /\ Len(list) \in Nat
      /\ before \in Seq(Data \cup {Blank}) /\ list \in Seq(Data)
      /\ \A x \in 1..Len(list) : list[x] \in Data
  BY TableFacts, LenProperties, ElementOfSeq DEF TypeOK
<1> DEFINE l == k + j + b
           s1 == SubSeq(Contents, 1, k)
           s2 == SubSeq(Contents, k + 1, l)
           s3 == SubSeq(Contents, l + 1, Len(Contents))
<1>2. j \in Nat /\ b \in Nat /\ l \in Nat /\ k <= l /\ Len(table) = l + r
  BY <1>1
<1>3. /\ s1 \in Seq(Data \cup {Blank}) /\ Len(s1) = k
      /\ \A x \in 1..k : s1[x] = table[x].data
  <2>1. 0 + k <= Len(table) /\ 0 + 1 = 1 /\ 0 + k = k /\ \A x \in 1..k : 0 + x = x
    BY <1>1, <1>2
  <2>2. /\ SubSeq(Contents, 0 + 1, 0 + k) \in Seq(Data \cup {Blank})
        /\ Len(SubSeq(Contents, 0 + 1, 0 + k)) = k
        /\ \A x \in 1..k : SubSeq(Contents, 0 + 1, 0 + k)[x] = table[0 + x].data
    BY <2>1, Segment
  <2> QED
    BY <2>1, <2>2
<1>4. /\ s2 \in Seq(Data \cup {Blank}) /\ Len(s2) = j + b
      /\ \A x \in 1..(j + b) : s2[x] = table[k + x].data
  <2>1. j + b \in Nat /\ k + (j + b) <= Len(table) /\ k + (j + b) = l
    BY <1>1, <1>2
  <2>2. /\ SubSeq(Contents, k + 1, k + (j + b)) \in Seq(Data \cup {Blank})
        /\ Len(SubSeq(Contents, k + 1, k + (j + b))) = j + b
        /\ \A x \in 1..(j + b) : SubSeq(Contents, k + 1, k + (j + b))[x] = table[k + x].data
    <3> HIDE DEF l
    <3> QED
      BY <2>1, Segment
  <2> QED
    BY <2>1, <2>2
<1>5. /\ s3 \in Seq(Data \cup {Blank}) /\ Len(s3) = r
      /\ \A x \in 1..r : s3[x] = table[l + x].data
  <2>1. l + r <= Len(table) /\ l + r = Len(Contents)
    BY <1>1, <1>2
  <2>2. /\ SubSeq(Contents, l + 1, l + r) \in Seq(Data \cup {Blank})
        /\ Len(SubSeq(Contents, l + 1, l + r)) = r
        /\ \A x \in 1..r : SubSeq(Contents, l + 1, l + r)[x] = table[l + x].data
    <3> HIDE DEF l
    <3> QED
      BY <1>2, <2>1, Segment
  <2> QED
    BY <2>1, <2>2
<1> HIDE DEF s1, s2, s3
<1>6. IsPart(s1, before, {})
  <2>1. PICK g \in [1..k -> 1..Len(before)] :
               Grows(g, k) /\ \A x \in 1..k : table[x].data = before[g[x]]
    OBVIOUS
  <2> QED
    BY <2>1, <1>1, <1>3, PartBy
<1>7. IsPart(s3, before, {Blank})
  <2>1. PICK f \in [1..r -> 1..Len(before)] :
               Grows(f, r) /\ \A x \in 1..r : table[l + x].data \in {before[f[x]], Blank}
    OBVIOUS
  <2>2. \A x \in 1..r : s3[x] \in {before[f[x]]} \cup {Blank}
    BY <1>5, <2>1
  <2> QED
    BY <2>1, <2>2, <1>1, <1>5, PartBy
<1>8. AreNewRows(s2)
  <2> DEFINE p == SubSeq(list, 1, j)
  <2>1. p \in Seq(Data) /\ Len(p) = j /\ \A x \in 1..j : p[x] = list[x]
    <3>1. \A x \in 1..j : list[x] \in Data
      BY <1>1
    <3>2. 1 \in Int /\ j \in Int
      BY <1>1
    <3>3. /\ p \in Seq(Data) /\ Len(p) = IF 1 <= j THEN j - 1 + 1 ELSE 0
          /\ \A x \in 1..(j - 1 + 1) : p[x] = list[1 + x - 1]
      BY <3>1, <3>2, SubSeqProperties
    <3> QED
      BY <3>3, <1>1
  <2>2. p \in Seq(Data \cup {Blank})
    <3>1. p \in [1..j -> Data]
      BY <2>1, LenProperties
    <3>2. p \in [1..j -> Data \cup {Blank}]
      BY <3>1
    <3> QED
      BY <3>2, <1>1, SeqDef
  <2>3. CASE b = 0
    <3>1. j + b = j
      BY <2>3
    <3>2. Len(s2) = Len(p) /\ \A x \in 1..j : s2[x] = p[x]
      BY <2>1, <3>1, <1>4
    <3>3. s2 = p
      <4> HIDE DEF p
      <4> QED
        BY <2>1, <2>2, <3>1, <3>2, <1>4, SeqEqual
    <3> QED
      BY <3>3 DEF AreNewRows
  <2>4. CASE b = 1
    <3> DEFINE q == Append(p, Blank)
    <3> HIDE DEF p
    <3>1. /\ q \in Seq(Data \cup {Blank}) /\ Len(q) = j + 1
          /\ \A x \in 1..j : q[x] = p[x]
          /\ q[j + 1] = Blank
      BY <2>1, <2>2, AppendProperties
    <3>2. \A x \in 1..j : s2[x] = q[x]
      <4>1. \A x \in 1..j : x \in 1..(j + b)
        BY <1>2
      <4>2. \A x \in 1..j : s2[x] = list[x]
        BY <4>1, <1>4
      <4> QED
        BY <2>1, <3>1, <4>2
    <3>3. s2[j + 1] = q[j + 1]
      BY <2>4, <3>1, <1>1, <1>4
    <3>4. Len(s2) = Len(q) /\ \A x \in 1..Len(s2) : s2[x] = q[x]
      <4>1. \A x \in 1..(j + 1) : x \in 1..j \/ x = j + 1
        BY <1>2
      <4> HIDE DEF q
      <4>2. \A x \in 1..(j + 1) : s2[x] = q[x]
        BY <3>2, <3>3, <4>1
      <4> QED
        BY <2>4, <3>1, <4>2, <1>4
    <3>5. s2 = q
      BY <3>1, <3>4, <1>4, SeqEqual
    <3> QED
      BY <3>5, <2>4 DEF AreNewRows, p
  <2> QED
    BY <2>3, <2>4
<1>9. k \in 0..Len(Contents) /\ l \in k..Len(Contents) /\ (l < Len(Contents) => restoring)
  BY <1>1, <1>2
<1> QED
  BY <1>6, <1>7, <1>8, <1>9 DEF s1, s2, s3

\* The rows from before the request stay a part of what the table had.
LEMMA OldPart ==
    ASSUME TableInv, pc \notin {"idle", "clear"}, op # "DELETE_ROW"
    PROVE  /\ Len(Old) \in Nat /\ Len(Old) <= Len(before)
           /\ \E g \in [1..Len(Old) -> 1..Len(before)] :
                 Grows(g, Len(Old)) /\ \A x \in 1..Len(Old) : Old[x] = before[g[x]]
<1>1. Len(before) \in Nat /\ Len(undeleted) \in Nat
  BY DEF TableInv, TypeOK
<1>2. CASE op = "ADD_ROW"
  <2> DEFINE g == [x \in 1..Len(before) |-> x]
  <2>1. /\ g \in [1..Len(before) -> 1..Len(before)] /\ Grows(g, Len(before))
        /\ \A x \in 1..Len(before) : before[x] = before[g[x]]
    BY <1>1 DEF Grows
  <2> HIDE DEF g
  <2>2. Old = before
    BY <1>2 DEF Old
  <2> QED
    BY <1>1, <2>1, <2>2
<1>3. CASE op # "ADD_ROW"
  <2>1. Old = undeleted
    BY <1>3 DEF Old
  <2>2. /\ Len(undeleted) <= Len(before)
        /\ \E g \in [1..Len(undeleted) -> 1..Len(before)] :
              /\ Grows(g, Len(undeleted))
              /\ \A x \in 1..Len(undeleted) : undeleted[x] = before[g[x]]
    BY DEF TableInv, UndeletedOK
  <2> QED
    BY <1>1, <2>1, <2>2
<1> QED
  BY <1>2, <1>3

\* What CrashLeavesParts says of every request.
LeavesParts ==
    \E k \in 0..Len(Contents) : \E l \in k..Len(Contents) :
        /\ l < Len(Contents) => restoring
        /\ AreNewRows(SubSeq(Contents, k + 1, l))
        /\ IsPart(SubSeq(Contents, 1, k), before, {})
        /\ IsPart(SubSeq(Contents, l + 1, Len(Contents)), before, {Blank})

\* There need not be rows that are added back.
LEMMA NoneAddedBack ==
    ASSUME NEW n
    PROVE  (\E f \in [1..0 -> 1..n] : Grows(f, 0)) /\ \A x \in 1..0 : FALSE
<1>1. [x \in 1..0 |-> x] \in [1..0 -> 1..n] /\ \A x \in 1..0 : FALSE
  OBVIOUS
<1> QED
  BY <1>1, Zenon DEF Grows

\* The table is nothing but a part of what it was.
LEMMA WholePart ==
    ASSUME TypeOK, Len(table) <= Len(before),
           \E g \in [1..Len(table) -> 1..Len(before)] :
              Grows(g, Len(table)) /\ \A x \in 1..Len(table) : table[x].data = before[g[x]]
    PROVE  LeavesParts
<1>1. Len(table) \in Nat /\ Len(before) \in Nat /\ Len(list) \in Nat
  BY DEF TypeOK
<1>2. \E f \in [1..0 -> 1..Len(before)] :
         Grows(f, 0) /\ \A x \in 1..0 : table[Len(table) + 0 + 0 + x].data \in {before[f[x]], Blank}
  BY NoneAddedBack, Zenon
<1>3. /\ 0 \in 0..Len(list) /\ 0 \in {0, 1} /\ 0 \in Nat /\ ~(0 > 0) /\ 0 # 1
      /\ \A x \in 1..0 : FALSE
      /\ 0 <= Len(before) /\ Len(table) = Len(table) + 0 + 0 + 0
  BY <1>1
<1> QED
  BY <1>1, <1>2, <1>3, Splits DEF LeavesParts

\* The old rows, rows of the request and perhaps an empty one, and nothing else.
LEMMA OldAndNew ==
    ASSUME TableInv, pc \notin {"idle", "clear"}, op # "DELETE_ROW",
           NEW j \in 0..Len(list), NEW b \in {0, 1},
           Len(table) = Len(Old) + j + b,
           b = 1 => j < Len(list) /\ table[Len(Old) + j + 1].data = Blank,
           \A x \in 1..Len(Old) : table[x].data = Old[x],
           \A x \in 1..j : table[Len(Old) + x].data = list[x]
    PROVE  LeavesParts
<1>1. TypeOK /\ Len(before) \in Nat
  BY DEF TableInv, TypeOK
<1>2. PICK k \in Nat : k = Len(Old)
  BY OldPart
<1>3. \E f \in [1..0 -> 1..Len(before)] :
         Grows(f, 0) /\ \A x \in 1..0 : table[k + j + b + x].data \in {before[f[x]], Blank}
  BY NoneAddedBack, Zenon
<1>4. /\ k <= Len(before)
      /\ \E g \in [1..k -> 1..Len(before)] :
            Grows(g, k) /\ \A x \in 1..k : table[x].data = before[g[x]]
  BY <1>2, OldPart
<1>5. /\ Len(table) = k + j + b + 0 /\ 0 \in Nat /\ ~(0 > 0) /\ 0 <= Len(before)
      /\ b = 1 => j < Len(list) /\ table[k + j + 1].data = Blank
      /\ \A x \in 1..j : table[k + x].data = list[x]
  <2>1. j \in Nat /\ b \in Nat
    BY DEF TableInv, TypeOK
  <2> QED
    BY <1>1, <1>2, <2>1
<1> QED
  BY <1>1, <1>3, <1>4, <1>5, Splits DEF LeavesParts

\* While the old rows are deleted, those that are left are a part of all.
LEMMA ClearLeaves ==
    ASSUME TableInv, pc = "clear"
    PROVE  LeavesParts
<1>1. /\ TypeOK /\ Len(table) \in Nat /\ Len(undeleted) \in Nat /\ Len(cached) \in Nat
      /\ cached \in Seq(Rows)
  BY DEF TableInv, TypeOK
<1>2. PICK u \in Nat : u = Len(undeleted)
  BY <1>1
<1>3. /\ cnt \in 1..(Len(cached) + 1) /\ Len(table) = u + Len(cached) - cnt + 1
      /\ \A x \in 1..u : table[x].data = undeleted[x]
      /\ \A x \in cnt..Len(cached) : table[u + x - cnt + 1] = cached[x]
  BY <1>2 DEF TableInv, ClearOK
<1>4. before = DataOf(cached)
  BY DEF TableInv, RequestOK
<1>5. Len(before) = Len(cached) /\ \A x \in 1..Len(cached) : before[x] = cached[x].data
  BY <1>1, <1>4, DataOfRows
<1>6. PICK g \in [1..u -> 1..(cnt - 1)] :
         Grows(g, u) /\ \A x \in 1..u : undeleted[x] = before[g[x]]
  BY <1>2 DEF TableInv, UndeletedOK
<1>7. u <= cnt - 1
  BY <1>2 DEF TableInv, UndeletedOK
<1> DEFINE n == Len(table)
           f == [x \in 1..n |-> IF x <= u THEN g[x] ELSE x - u + cnt - 1]
<1>8. \A x \in 1..n : \/ x \in 1..u /\ f[x] = g[x] /\ f[x] \in 1..(cnt - 1)
                      \/ x > u /\ f[x] = x - u + cnt - 1 /\ f[x] \in cnt..Len(cached)
  BY <1>1, <1>3, <1>6
<1>9. f \in [1..n -> 1..Len(before)]
  <2>1. \A x \in 1..n : f[x] \in 1..Len(before)
    BY <1>1, <1>3, <1>5, <1>8
  <2> QED
    BY <2>1
<1>10. Grows(f, n)
  <2> SUFFICES ASSUME NEW x \in 1..n, NEW y \in 1..n, x < y
               PROVE  f[x] < f[y]
    BY DEF Grows
  <2>1. CASE y <= u
    <3>1. x \in 1..u /\ y \in 1..u /\ f[x] = g[x] /\ f[y] = g[y]
      BY <2>1, <1>1, <1>8
    <3> QED
      BY <3>1, <1>6 DEF Grows
  <2>2. CASE y > u
    <3>1. f[y] = y - u + cnt - 1 /\ f[y] \in cnt..Len(cached)
      BY <2>2, <1>1, <1>8
    <3>2. CASE x <= u
      <4>1. f[x] \in 1..(cnt - 1)
        BY <3>2, <1>1, <1>8
      <4> QED
        BY <3>1, <4>1, <1>1, <1>3
    <3>3. CASE x > u
      <4>1. f[x] = x - u + cnt - 1
        BY <3>3, <1>1, <1>8
      <4> QED
        BY <3>1, <4>1, <1>1, <1>3
    <3>4. x <= u \/ x > u
      BY <1>1
    <3> QED
      BY <3>2, <3>3, <3>4, Zenon
  <2>3. y <= u \/ y > u
    BY <1>1
  <2> QED
    BY <2>1, <2>2, <2>3, Zenon
<1>11. \A x \in 1..n : table[x].data = before[f[x]]
  <2> SUFFICES ASSUME NEW x \in 1..n PROVE table[x].data = before[f[x]]
    OBVIOUS
  <2>1. CASE x <= u
    <3>1. x \in 1..u /\ f[x] = g[x]
      BY <2>1, <1>1, <1>8
    <3> QED
      BY <3>1, <1>3, <1>6
  <2>2. CASE x > u
    <3>1. f[x] = x - u + cnt - 1 /\ f[x] \in cnt..Len(cached)
      BY <2>2, <1>1, <1>8
    <3>2. u + f[x] - cnt + 1 = x
      BY <3>1, <1>1, <1>3
    <3>3. table[u + f[x] - cnt + 1] = cached[f[x]]
      BY <3>1, <1>3
    <3>4. before[f[x]] = cached[f[x]].data
      BY <3>1, <1>1, <1>3, <1>5
    <3> QED
      BY <3>2, <3>3, <3>4
  <2>3. x <= u \/ x > u
    BY <1>1
  <2> QED
    BY <2>1, <2>2, <2>3, Zenon
<1>12. n <= Len(before)
  BY <1>1, <1>3, <1>5, <1>7
<1> HIDE DEF f
<1> QED
  BY <1>1, <1>9, <1>10, <1>11, <1>12, WholePart

\* While rows are added, the last of them may not be set yet.
LEMMA AddingLeaves ==
    ASSUME TableInv, pc \in {"addrow", "update", "revert"}, ~restoring
    PROVE  LeavesParts /\ (op = "ADD_ROW" => Len(table) <= Len(before) + 1)
<1>1. /\ op \in {"ADD_ROW", "REPLACE_ROWS"} /\ cnt \in 1..(Len(list) + 1)
      /\ Len(table) = Len(Old) + cnt - 1 + NewRow /\ Begins(cnt - 1, 0)
  BY DEF TableInv, AddOK
<1>2. Len(list) \in Nat /\ NewRow \in {0, 1} /\ Len(Old) \in Nat
  BY DEF TableInv, TypeOK, NewRow, Old
<1>3. NewRow = 1 => cnt <= Len(list) /\ table[Len(table)].data = Blank
  BY DEF TableInv, NewRowOK, NewRow, Count
<1>4. PICK j \in 0..Len(list) : j = cnt - 1
  BY <1>1, <1>2
<1>5. /\ Len(table) = Len(Old) + j + NewRow
      /\ NewRow = 1 => j < Len(list) /\ table[Len(Old) + j + 1].data = Blank
  BY <1>1, <1>2, <1>3, <1>4
<1>6. /\ \A x \in 1..Len(Old) : table[x].data = Old[x]
      /\ \A x \in 1..j : table[Len(Old) + x].data = list[x]
  BY <1>1, <1>4 DEF Begins
<1>7. LeavesParts
  <2>1. pc \notin {"idle", "clear"} /\ op # "DELETE_ROW"
    BY <1>1
  <2> QED
    BY <2>1, <1>2, <1>5, <1>6, OldAndNew
<1>8. ASSUME op = "ADD_ROW" PROVE Len(table) <= Len(before) + 1
  <2>1. Len(list) = 1 /\ Old = before
    BY <1>8 DEF TableInv, RequestOK, Old
  <2> QED
    BY <2>1, <1>2, <1>5
<1> QED
  BY <1>7, <1>8

\* When rows were added and some of them deleted again, those left are the first.
LEMMA BegunLeaves ==
    ASSUME TableInv, pc \notin {"idle", "clear"}, op # "DELETE_ROW",
           NEW j \in 0..Len(list), NEW b \in {0, 1}, Begins(j, b),
           Len(table) = Len(Old) + j + b
    PROVE  LeavesParts /\ (op = "ADD_ROW" => Len(table) <= Len(before) + 1)
<1>1. /\ b = 1 => j < Len(list) /\ table[Len(Old) + j + 1].data = Blank
      /\ \A x \in 1..Len(Old) : table[x].data = Old[x]
      /\ \A x \in 1..j : table[Len(Old) + x].data = list[x]
  BY DEF Begins
<1>2. ASSUME op = "ADD_ROW" PROVE Len(table) <= Len(before) + 1
  <2>1. Len(list) = 1 /\ Old = before
    BY <1>2 DEF TableInv, RequestOK, Old
  <2>2. j + b <= 1 /\ j + b \in Nat /\ Len(before) \in Nat
    BY <1>1, <2>1 DEF TableInv, TypeOK
  <2> QED
    BY <2>1, <2>2
<1> QED
  BY <1>1, <1>2, OldAndNew

\* While the old rows are added back, and when they have been, those added back
\* are a part too, behind the others.
LEMMA RestoringLeaves ==
    ASSUME TableInv, pc # "idle", restoring
    PROVE  LeavesParts /\ op # "ADD_ROW"
<1>1. /\ op = "REPLACE_ROWS" /\ before = DataOf(cached) /\ cnt \in 1..(Len(cached) + 1)
      /\ pc \notin {"idle", "clear"}
  BY DEF TableInv, RestoreOK
<1>2. /\ TypeOK /\ Len(cached) \in Nat /\ NewRow \in {0, 1} /\ Len(list) \in Nat
      /\ Len(table) \in Nat
  BY DEF TableInv, TypeOK, NewRow
<1>3. Len(before) = Len(cached)
  BY <1>1, DataOfRows DEF TableInv, TypeOK
<1>4. NewRow = 1 => cnt <= Len(cached) /\ table[Len(table)].data = Blank
  BY DEF TableInv, NewRowOK, NewRow, Count
<1>5. PICK j \in 0..Len(list), b \in {0, 1}, r \in 0..Len(cached) :
         Begins(j, b) /\ Again(j, b, r)
  BY DEF TableInv, RestoreOK
<1>6. PICK k \in Nat : k = Len(Old)
  BY <1>1, OldPart
<1>7. PICK n \in Nat : n = cnt - 1
  BY <1>1, <1>2
<1> DEFINE q == k + j + b
<1>8. /\ j \in Nat /\ b \in Nat /\ r \in Nat /\ q \in Nat /\ n \in Nat
      /\ r <= n /\ n <= Len(before) /\ Len(table) = q + r + NewRow
  BY <1>1, <1>2, <1>3, <1>5, <1>6, <1>7 DEF Again
<1>9. PICK f \in [1..r -> 1..n] :
         Grows(f, r) /\ \A x \in 1..r : table[q + x].data \in {before[f[x]], Blank}
  BY <1>5, <1>6, <1>7 DEF Again
<1>10. \E s \in Nat : /\ Len(table) = q + s /\ s <= Len(before)
                      /\ \E h \in [1..s -> 1..Len(before)] :
                            /\ Grows(h, s)
                            /\ \A x \in 1..s : table[q + x].data \in {before[h[x]], Blank}
  <2>1. CASE NewRow = 0
    <3>1. f \in [1..r -> 1..Len(before)]
      <4>1. \A x \in 1..r : f[x] \in 1..Len(before)
        BY <1>8, <1>9, <1>2, <1>3
      <4> QED
        BY <4>1, <1>9
    <3>2. Len(table) = q + r /\ r <= Len(before)
      BY <2>1, <1>2, <1>3, <1>8
    <3> QED
      BY <1>8, <1>9, <3>1, <3>2
  <2>2. CASE NewRow = 1
    <3> DEFINE h == WithPlace(f, r, n + 1)
    <3>1. n + 1 <= Len(before)
      BY <2>2, <1>1, <1>2, <1>3, <1>4, <1>7
    <3>2. h \in [1..(r + 1) -> 1..(n + 1)] /\ Grows(h, r + 1)
      BY <1>8, <1>9, NextPlace
    <3>3. h[r + 1] = n + 1 /\ \A x \in 1..r : h[x] = f[x]
      BY <1>8 DEF WithPlace
    <3> HIDE DEF h
    <3>4. h \in [1..(r + 1) -> 1..Len(before)]
      <4>1. \A x \in 1..(r + 1) : h[x] \in 1..Len(before)
        BY <3>1, <3>2, <1>2, <1>3, <1>8
      <4> QED
        BY <3>2, <4>1
    <3>5. Len(table) = q + (r + 1) /\ r + 1 <= Len(before) /\ r + 1 \in Nat
      BY <2>2, <3>1, <1>2, <1>3, <1>8
    <3>6. \A x \in 1..(r + 1) : table[q + x].data \in {before[h[x]], Blank}
      <4>1. \A x \in 1..r : table[q + x].data \in {before[h[x]], Blank}
        BY <1>9, <3>3
      <4>2. table[q + (r + 1)].data = Blank
        BY <2>2, <3>5, <1>4
      <4>3. \A x \in 1..(r + 1) : x \in 1..r \/ x = r + 1
        BY <1>8
      <4> HIDE DEF q
      <4> QED
        BY <4>1, <4>2, <4>3
    <3> QED
      BY <3>2, <3>4, <3>5, <3>6
  <2> QED
    BY <1>2, <2>1, <2>2
<1>11. PICK s \in Nat : /\ Len(table) = k + j + b + s /\ s <= Len(before)
                        /\ \E h \in [1..s -> 1..Len(before)] :
                              /\ Grows(h, s)
                              /\ \A x \in 1..s : table[k + j + b + x].data
                                                    \in {before[h[x]], Blank}
  BY <1>10
<1>12. /\ k <= Len(before)
       /\ \E g \in [1..k -> 1..Len(before)] :
             Grows(g, k) /\ \A x \in 1..k : table[x].data = before[g[x]]
  <2>1. \A x \in 1..k : table[x].data = Old[x]
    BY <1>5, <1>6 DEF Begins
  <2>2. /\ k <= Len(before)
        /\ \E g \in [1..k -> 1..Len(before)] :
              Grows(g, k) /\ \A x \in 1..k : Old[x] = before[g[x]]
    BY <1>1, <1>6, OldPart
  <2> QED
    BY <2>1, <2>2
<1>13. /\ b = 1 => j < Len(list) /\ table[k + j + 1].data = Blank
       /\ \A x \in 1..j : table[k + x].data = list[x]
  BY <1>5, <1>6 DEF Begins
<1>14. LeavesParts
  BY <1>2, <1>11, <1>12, <1>13, Splits DEF LeavesParts
<1> QED
  BY <1>1, <1>14

\* Without one of its elements, a sequence is a part of what it was.
LEMMA RowLess ==
    ASSUME TableInv, NEW i \in 1..Len(before), Contents = RemoveAt(before, i)
    PROVE  LeavesParts
<1>1. /\ TypeOK /\ before \in Seq(Data \cup {Blank}) /\ Len(before) \in Nat
      /\ Len(table) \in Nat /\ Len(Contents) = Len(table)
      /\ \A x \in 1..Len(table) : Contents[x] = table[x].data
  BY TableFacts DEF TableInv, TypeOK
<1>2. /\ Len(table) = Len(before) - 1
      /\ \A x \in 1..Len(table) : table[x].data = IF x < i THEN before[x] ELSE before[x + 1]
  <2>1. /\ Len(RemoveAt(before, i)) = Len(before) - 1
        /\ \A x \in 1..(Len(before) - 1) :
              RemoveAt(before, i)[x] = IF x < i THEN before[x] ELSE before[x + 1]
    BY <1>1, Removing
  <2> QED
    BY <1>1, <2>1
<1> DEFINE g == [x \in 1..Len(table) |-> IF x < i THEN x ELSE x + 1]
<1>3. /\ g \in [1..Len(table) -> 1..Len(before)]
      /\ \A x \in 1..Len(table) : g[x] = IF x < i THEN x ELSE x + 1
  BY <1>1, <1>2
<1> HIDE DEF g
<1>4. Grows(g, Len(table))
  BY <1>1, <1>3 DEF Grows
<1>5. \A x \in 1..Len(table) : table[x].data = before[g[x]]
  BY <1>2, <1>3
<1>6. Len(table) <= Len(before)
  BY <1>1, <1>2
<1> QED
  BY <1>1, <1>3, <1>4, <1>5, <1>6, WholePart

\* The table is as it was.
LEMMA NothingChanged ==
    ASSUME TableInv, Contents = before
    PROVE  LeavesParts /\ Len(table) = Len(before)
<1>1. /\ TypeOK /\ Len(before) \in Nat
      /\ Len(table) = Len(before) /\ \A x \in 1..Len(table) : table[x].data = before[x]
  BY TableFacts DEF TableInv, TypeOK
<1> DEFINE g == [x \in 1..Len(table) |-> x]
<1>2. /\ g \in [1..Len(table) -> 1..Len(before)] /\ \A x \in 1..Len(table) : g[x] = x
  BY <1>1
<1> HIDE DEF g
<1>3. Grows(g, Len(table)) /\ \A x \in 1..Len(table) : table[x].data = before[g[x]]
  BY <1>1, <1>2 DEF Grows
<1>4. Len(table) <= Len(before)
  BY <1>1
<1> QED
  BY <1>1, <1>2, <1>3, <1>4, WholePart

\* All rows of the request stand behind the old ones.
LEMMA AllAdded ==
    ASSUME TableInv, pc = "done", op # "DELETE_ROW", Contents = Old \o list
    PROVE  /\ Len(table) = Len(Old) + Len(list)
           /\ \A x \in 1..Len(Old) : table[x].data = Old[x]
           /\ \A x \in 1..Len(list) : table[Len(Old) + x].data = list[x]
           /\ LeavesParts
<1>1. /\ TypeOK /\ Old \in Seq(Data \cup {Blank}) /\ list \in Seq(Data)
      /\ Len(Old) \in Nat /\ Len(list) \in Nat
  BY DEF TableInv, TypeOK, Old
<1>2. list \in Seq(Data \cup {Blank})
  <2>1. list \in [1..Len(list) -> Data]
    BY <1>1, LenProperties
  <2>2. list \in [1..Len(list) -> Data \cup {Blank}]
    BY <2>1
  <2> QED
    BY <2>2, <1>1, SeqDef
<1>3. /\ Len(Old \o list) = Len(Old) + Len(list)
      /\ \A x \in 1..(Len(Old) + Len(list)) :
            (Old \o list)[x] = IF x <= Len(Old) THEN Old[x] ELSE list[x - Len(Old)]
  BY <1>1, <1>2, ConcatProperties
<1>4. Len(table) = Len(Old) + Len(list) /\ \A x \in 1..Len(table) : Contents[x] = table[x].data
  BY <1>1, <1>3, TableFacts
<1>5. \A x \in 1..Len(Old) : table[x].data = Old[x]
  <2>1. \A x \in 1..Len(Old) : x \in 1..(Len(Old) + Len(list)) /\ x <= Len(Old)
    BY <1>1
  <2> QED
    BY <2>1, <1>3, <1>4
<1>6. \A x \in 1..Len(list) : table[Len(Old) + x].data = list[x]
  <2>1. \A x \in 1..Len(list) : /\ Len(Old) + x \in 1..(Len(Old) + Len(list))
                                /\ ~(Len(Old) + x <= Len(Old))
                                /\ (Len(Old) + x) - Len(Old) = x
    BY <1>1
  <2> QED
    BY <2>1, <1>3, <1>4
<1>7. LeavesParts
  <2>1. /\ pc \notin {"idle", "clear"} /\ Len(list) \in 0..Len(list) /\ 0 \in {0, 1}
        /\ Len(table) = Len(Old) + Len(list) + 0
    BY <1>1, <1>4
  <2> QED
    BY <2>1, <1>5, <1>6, OldAndNew
<1> QED
  BY <1>4, <1>5, <1>6, <1>7

\* What a request leaves when it has been served.
LEMMA DoneLeaves ==
    ASSUME TableInv, pc = "done", ~restoring
    PROVE  LeavesParts
<1>1. CASE Contents = before
  BY <1>1, NothingChanged
<1>2. CASE \E x \in 1..Len(before) : Contents = RemoveAt(before, x)
  BY <1>2, RowLess
<1>3. CASE op # "DELETE_ROW" /\ Contents = Old \o list
  BY <1>3, AllAdded
<1>4. CASE /\ op # "DELETE_ROW"
           /\ \E j \in 0..Len(list), b \in {0, 1} :
                 Begins(j, b) /\ Len(table) = Len(Old) + j + b
  <2>1. PICK j \in 0..Len(list), b \in {0, 1} :
           Begins(j, b) /\ Len(table) = Len(Old) + j + b
    BY <1>4
  <2>2. pc \notin {"idle", "clear"}
    OBVIOUS
  <2> QED
    BY <1>4, <2>1, <2>2, BegunLeaves
<1> QED
  BY <1>1, <1>2, <1>3, <1>4 DEF TableInv, DoneOK

LEMMA LeavesPartsAlways ==
    ASSUME TableInv, pc # "idle"
    PROVE  LeavesParts
<1>1. CASE restoring
  BY <1>1, RestoringLeaves
<1>2. CASE ~restoring
  <2>1. CASE pc = "cache"
    <3>1. Contents = before
      BY <2>1 DEF TableInv, RequestOK
    <3> QED
      BY <3>1, NothingChanged
  <2>2. CASE pc = "clear"
    BY <2>2, ClearLeaves
  <2>3. CASE pc \in {"addrow", "update", "revert"}
    BY <1>2, <2>3, AddingLeaves
  <2>4. CASE pc = "undo"
    <3>1. /\ op # "DELETE_ROW" /\ pc \notin {"idle", "clear"}
          /\ \E j \in 0..Len(list), b \in {0, 1} :
                Begins(j, b) /\ Len(table) = Len(Old) + j + b
      BY <2>4 DEF TableInv, UndoOK
    <3>2. PICK j \in 0..Len(list), b \in {0, 1} :
             Begins(j, b) /\ Len(table) = Len(Old) + j + b
      BY <3>1
    <3> QED
      BY <3>1, <3>2, BegunLeaves
  <2>5. CASE pc = "done"
    BY <1>2, <2>5, DoneLeaves
  <2> QED
    BY <2>1, <2>2, <2>3, <2>4, <2>5 DEF TableInv, TypeOK
<1> QED
  BY <1>1, <1>2

\* An addition puts at most one row behind those there were.
LEMMA AddLeaves ==
    ASSUME TableInv, pc # "idle", op = "ADD_ROW"
    PROVE  IsPrefix(before, Contents) /\ Len(Contents) <= Len(before) + 1
<1>1. /\ TypeOK /\ Old = before /\ Len(list) = 1 /\ ~restoring /\ pc \notin {"cache", "clear"}
      /\ before \in Seq(Data \cup {Blank}) /\ Len(before) \in Nat
  BY RestoringLeaves DEF TableInv, TypeOK, Old, RequestOK
<1>2. /\ Len(table) \in Nat /\ Len(Contents) = Len(table)
      /\ \A x \in 1..Len(table) :
            Contents[x] = table[x].data /\ table[x].data \in Data \cup {Blank}
  BY <1>1, TableFacts
<1>3. /\ Len(table) \in Len(before)..(Len(before) + 1)
      /\ \A x \in 1..Len(before) : table[x].data = before[x]
  <2>1. CASE pc \in {"addrow", "update", "revert"}
    <3>1. Len(table) <= Len(before) + 1
      BY <1>1, <2>1, AddingLeaves
    <3>2. Begins(cnt - 1, 0) /\ cnt \in 1..(Len(list) + 1)
      BY <1>1, <2>1 DEF TableInv, AddOK
    <3>3. Len(table) >= Len(before) /\ \A x \in 1..Len(before) : table[x].data = before[x]
      BY <1>1, <1>2, <3>2 DEF Begins
    <3> QED
      BY <1>1, <1>2, <3>1, <3>3
  <2>2. ASSUME pc \notin {"idle", "clear"}, NEW j \in 0..Len(list), NEW b \in {0, 1},
               Begins(j, b), Len(table) = Len(Old) + j + b
        PROVE  /\ Len(table) \in Len(before)..(Len(before) + 1)
               /\ \A x \in 1..Len(before) : table[x].data = before[x]
    <3>1. Len(table) <= Len(before) + 1
      BY <2>2, BegunLeaves
    <3>2. Len(table) >= Len(before) /\ \A x \in 1..Len(before) : table[x].data = before[x]
      BY <1>1, <1>2, <2>2 DEF Begins
    <3> QED
      BY <1>1, <1>2, <3>1, <3>2
  <2>3. CASE pc = "undo"
    BY <2>2, <2>3 DEF TableInv, UndoOK
  <2>4. CASE pc = "done"
    <3>1. CASE Contents = before
      <4>1. Len(table) = Len(before)
        BY <3>1, <1>2
      <4> QED
        BY <3>1, <4>1, <1>1, <1>2
    <3>2. CASE Contents = Old \o list
      <4>1. /\ Len(table) = Len(before) + 1
            /\ \A x \in 1..Len(before) : table[x].data = before[x]
        BY <1>1, <2>4, <3>2, AllAdded
      <4> QED
        BY <4>1, <1>1, <1>2
    <3>3. CASE \E j \in 0..Len(list), b \in {0, 1} :
                  Begins(j, b) /\ Len(table) = Len(Old) + j + b
      BY <2>2, <2>4, <3>3
    <3> QED
      BY <1>1, <2>4, <3>1, <3>2, <3>3 DEF TableInv, DoneOK
  <2> QED
    BY <1>1, <2>1, <2>3, <2>4 DEF TypeOK
<1>4. SubSeq(before, 1, Len(before)) = SubSeq(Contents, 1, Len(before))
  <2>1. /\ \A x \in 1..Len(before) : before[x] \in Data \cup {Blank}
        /\ \A x \in 1..Len(before) : Contents[x] = before[x] /\ Contents[x] \in Data \cup {Blank}
    <3>1. \A x \in 1..Len(before) : x \in 1..Len(table)
      BY <1>1, <1>2, <1>3
    <3>2. \A x \in 1..Len(before) : before[x] \in Data \cup {Blank}
      BY <1>1, ElementOfSeq
    <3> QED
      BY <1>2, <1>3, <3>1, <3>2
  <2>2. 1 \in Int /\ Len(before) \in Int
    BY <1>1
  <2>3. /\ SubSeq(before, 1, Len(before)) \in Seq(Data \cup {Blank})
        /\ Len(SubSeq(before, 1, Len(before)))
              = IF 1 <= Len(before) THEN Len(before) - 1 + 1 ELSE 0
        /\ \A x \in 1..(Len(before) - 1 + 1) :
              SubSeq(before, 1, Len(before))[x] = before[1 + x - 1]
    BY <2>1, <2>2, SubSeqProperties
  <2>4. 0 + Len(before) <= Len(table) /\ 0 + 1 = 1 /\ 0 + Len(before) = Len(before)
    BY <1>1, <1>2, <1>3
  <2>5. /\ SubSeq(Contents, 0 + 1, 0 + Len(before)) \in Seq(Data \cup {Blank})
        /\ Len(SubSeq(Contents, 0 + 1, 0 + Len(before))) = Len(before)
        /\ \A x \in 1..Len(before) :
              SubSeq(Contents, 0 + 1, 0 + Len(before))[x] = table[0 + x].data
    BY <1>1, <2>4, Segment
  <2> DEFINE s == SubSeq(before, 1, Len(before))
             t == SubSeq(Contents, 1, Len(before))
  <2>6. /\ s \in Seq(Data \cup {Blank}) /\ Len(s) = Len(before)
        /\ \A x \in 1..Len(before) : s[x] = before[x]
    BY <1>1, <2>3
  <2>7. /\ t \in Seq(Data \cup {Blank}) /\ Len(t) = Len(before)
        /\ \A x \in 1..Len(before) : t[x] = before[x]
    BY <1>1, <1>3, <2>4, <2>5
  <2> HIDE DEF s, t
  <2>8. s = t
    BY <2>6, <2>7, SeqEqual
  <2> QED
    BY <2>8 DEF s, t
<1> QED
  BY <1>1, <1>2, <1>3, <1>4 DEF IsPrefix

\* At whatever step the process is lost, an addition has left every row there
\* was, with at most the new one behind, and a replacement some of the old rows,
\* the first of the new ones, and of the old ones added back some again.
THEOREM CrashLeavesOnlyParts == Spec => []CrashLeavesParts
<1>1. TableInv => CrashLeavesParts
  <2> SUFFICES ASSUME TableInv, pc # "idle"
               PROVE  /\ op = "ADD_ROW" => /\ IsPrefix(before, Contents)
                                           /\ Len(Contents) <= Len(before) + 1
                      /\ LeavesParts
    BY DEF CrashLeavesParts, LeavesParts
  <2> QED
    BY LeavesPartsAlways, AddLeaves
<1> QED
  BY <1>1, TableInvariance, PTL
==============================================================================
