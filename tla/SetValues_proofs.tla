--------------------------- MODULE SetValues_proofs ---------------------------
(***************************************************************************)
(* Proofs about SetValues, for any components, radios and requests.        *)
(***************************************************************************)
EXTENDS SetValues, SequenceTheorems, TLAPS

\* A request that is served has groups, and its loops stay within them.
Serving ==
    /\ pc \notin {"idle", "done"} => order \in Orders /\ i \in 1..(Len(order) + 1)
    /\ pc \in {"rollback", "undo"} => rev \in 0..Len(order)

TypeInv == TypeOK /\ Serving

\* What the groups of a request are.
LEMMA OrderParts ==
  ASSUME NEW o \in Orders
  PROVE  /\ Len(o) \in 1..MaxGroups
         /\ DOMAIN o = 1..Len(o)
         /\ \A k \in 1..Len(o) : o[k] \in Components
         /\ \A x, y \in 1..Len(o) : o[x] = o[y] => x = y
<1>1. PICK k \in 1..MaxGroups : o \in [1..k -> Components]
  BY DEF Orders
<1>2. o \in Seq(Components) /\ Len(o) = k
  BY <1>1, SetAssumption
<1>3. DOMAIN o = 1..Len(o)
  BY <1>1, <1>2
<1> QED BY <1>1, <1>2, <1>3 DEF Orders

LEMMA InitType == Init => TypeInv
<1> SUFFICES ASSUME Init PROVE TypeInv
  OBVIOUS
<1> USE SetAssumption DEF Init
<1>1. 0 \in Requests /\ 0 \in Indices
  BY DEF Requests, Indices
<1>2. TypeOK
  BY <1>1 DEF TypeOK
<1>3. Serving
  BY DEF Serving
<1> QED BY <1>2, <1>3 DEF TypeInv

\* The arrival of a request keeps the types.
LEMMA ArrivalType ==
  ASSUME TypeInv, setValues
  PROVE  TypeInv'
<1> USE SetAssumption DEF TypeInv, TypeOK, setValues, wifiUnchanged, flagVars, applyVars
<1>1. order' \in Orders /\ Len(order') \in 1..MaxGroups
  BY OrderParts
<1>2. n' \in Requests /\ i' \in Indices /\ rev' \in Indices /\ indexWifi' \in Indices
  BY DEF Requests, Indices
<1>3. rollback' \in [Components -> Requests]
  BY DEF Requests
<1>4. Serving'
  BY <1>1 DEF Serving
<1>5. radios' \in SUBSET Radios
  OBVIOUS
<1> QED BY <1>1, <1>2, <1>3, <1>4, <1>5

\* The steps of the loops keep the types.
LEMMA LoopType ==
  ASSUME TypeInv,
         \/ CacheGroup \/ CacheEnds \/ RefuseWifi \/ PutOffWifi \/ SetGroup
         \/ SetGroupFails \/ RestoreGroup \/ SkipWifi \/ GroupsEnd \/ UndoEnds \/ Report
  PROVE  TypeInv'
<1> USE SetAssumption DEF TypeInv, TypeOK, Serving, setUnchanged, wifiUnchanged, flagVars, applyVars
<1>1. order \in Orders =>
        /\ Len(order) \in 1..MaxGroups
        /\ \A k \in 1..Len(order) : order[k] \in Components
  BY OrderParts
<1>2. CASE CacheGroup
  BY <1>1, <1>2 DEF CacheGroup, Indices
<1>3. CASE CacheEnds
  BY <1>1, <1>3 DEF CacheEnds, Indices
<1>4. CASE RefuseWifi
  BY <1>4 DEF RefuseWifi
<1>5. CASE PutOffWifi
  BY <1>1, <1>5 DEF PutOffWifi, NextGroup, Indices
<1>6. CASE SetGroup
  BY <1>1, <1>6 DEF SetGroup, NextGroup, Indices
<1>7. CASE SetGroupFails
  BY <1>1, <1>7 DEF SetGroupFails, LastSet, Indices
<1>8. CASE RestoreGroup
  <2>1. /\ order \in Orders /\ rev \in Nat /\ rev' = rev - 1 /\ rev >= 1
        /\ UNCHANGED <<pc, n, order, i>>
    BY <1>8 DEF RestoreGroup, Indices
  <2>2. rev' \in Indices
    BY <2>1 DEF Indices
  <2> QED BY <1>1, <1>8, <2>1, <2>2 DEF RestoreGroup
<1>9. CASE SkipWifi
  BY <1>1, <1>9 DEF SkipWifi, Indices
<1>10. CASE GroupsEnd
  BY <1>10 DEF GroupsEnd
<1>11. CASE UndoEnds
  BY <1>11 DEF UndoEnds
<1>12. CASE Report
  BY <1>12 DEF Report
<1> QED BY <1>2, <1>3, <1>4, <1>5, <1>6, <1>7, <1>8, <1>9, <1>10, <1>11, <1>12

\* The steps of setAtomicParamValues on the WiFi group keep the types.
LEMMA WifiType ==
  ASSUME TypeInv,
         \/ PrepareWifi \/ MarkRadio \/ EnableRestart \/ SetWifi \/ SetWifiFails
         \/ CopyTransactionId \/ SignalTask
  PROVE  TypeInv'
<1> USE SetAssumption DEF TypeInv, TypeOK, Serving, setUnchanged, wifiUnchanged, flagVars, applyVars
<1>1. order \in Orders => Len(order) \in 1..MaxGroups
  BY OrderParts
<1>2. pc \notin {"idle", "done"} => LastSet \in Indices /\ LastSet \in 0..Len(order)
  BY <1>1 DEF LastSet, Indices
<1>3. CASE PrepareWifi
  BY <1>2, <1>3 DEF PrepareWifi
<1>9. CASE MarkRadio
  BY <1>9 DEF MarkRadio
<1>4. CASE EnableRestart
  BY <1>4 DEF EnableRestart, RestartOn
<1>5. CASE SetWifi
  BY <1>5 DEF SetWifi
<1>6. CASE SetWifiFails
  BY <1>2, <1>6 DEF SetWifiFails, AfterFailure
<1>7. CASE CopyTransactionId
  BY <1>7 DEF CopyTransactionId, TransactionId, Requests
<1>8. CASE SignalTask
  BY <1>8 DEF SignalTask
<1> QED BY <1>3, <1>4, <1>5, <1>6, <1>7, <1>8, <1>9

\* The steps of the task, and of anybody who waits for nothing, leave the
\* request alone.
LEMMA TaskLeavesRequest ==
  ASSUME applyWiFiSettingsTask \/ SpuriousWakeup \/ UNCHANGED vars
  PROVE  UNCHANGED <<store, setVars>>
  BY DEF applyWiFiSettingsTask, Begin, SpuriousWakeup, SetBusy, TestRestart,
     ChooseRadios, ResetRadioFlags, ApplySettings, send_transaction_Notify, ClearBusy,
     taskUnchanged, vars

\* The steps of the task keep the types.
LEMMA TaskType ==
  ASSUME TypeInv, applyWiFiSettingsTask \/ SpuriousWakeup
  PROVE  TypeInv'
<1> USE DEF TypeInv, TypeOK, Serving, taskUnchanged, flagVars, setVars
<1>1. CASE Begin
  BY <1>1 DEF Begin
<1>2. CASE SpuriousWakeup
  BY <1>2 DEF SpuriousWakeup
<1>3. CASE SetBusy
  BY <1>3 DEF SetBusy
<1>4. CASE TestRestart
  BY <1>4 DEF TestRestart
<1>5. CASE ChooseRadios
  BY <1>5 DEF ChooseRadios, Marked
<1>6. CASE ResetRadioFlags
  BY <1>6 DEF ResetRadioFlags
<1>7. CASE ApplySettings
  BY <1>7 DEF ApplySettings
<1>8. CASE send_transaction_Notify
  <2>1. IdsRead \subseteq Requests \cup {TornId}
    BY SetAssumption DEF IdsRead, TransactionId, Requests
  <2> QED BY <1>8, <2>1 DEF send_transaction_Notify
<1>9. CASE ClearBusy
  BY <1>9 DEF ClearBusy
<1> QED BY <1>1, <1>2, <1>3, <1>4, <1>5, <1>6, <1>7, <1>8, <1>9
        DEF applyWiFiSettingsTask

LEMMA NextType == TypeInv /\ [Next]_vars => TypeInv'
<1>1. TypeInv /\ UNCHANGED vars => TypeInv'
  BY DEF TypeInv, TypeOK, Serving, vars, setVars, flagVars, applyVars
<1> QED BY <1>1, ArrivalType, LoopType, WifiType, TaskType DEF Next, ServeRequest

\* Every variable keeps its type.
THEOREM TypeCorrect == Spec => []TypeOK
<1>1. TypeInv => TypeOK
  BY DEF TypeInv
<1> QED BY <1>1, InitType, NextType, PTL DEF Spec

------------------------------------------------------------------------------
(***************************************************************************)
(* A SET is atomic.  The invariant says, of every phase of setValues, which *)
(* components have the values of the request and which have those they had. *)
(***************************************************************************)

\* The groups before index k have been read.
CachedBefore(k) == \A x \in 1..(k - 1) : rollback[order[x]] = before[order[x]]

\* The groups before index k have the request's values, the WiFi group and the
\* components of no such group have those they had.
SetBefore(k) ==
    /\ \A x \in 1..(k - 1) : order[x] # Wifi => store[order[x]] = n
    /\ \A c \in Components :
           (c = Wifi \/ \A x \in 1..(k - 1) : order[x] # c) => store[c] = before[c]

\* indexWifi is the index of the WiFi group if that is before index k.
WifiIndex(k) ==
    /\ indexWifi # 0 => indexWifi \in 1..(k - 1) /\ order[indexWifi] = Wifi
    /\ indexWifi = 0 => \A x \in 1..(k - 1) : order[x] # Wifi

CachePhase ==
    pc = "cache" =>
        /\ store = before /\ stuck = {} /\ ret = "SUCCESS" /\ indexWifi = 0
        /\ CachedBefore(i)

SetPhase ==
    pc \in {"set", "prepare", "mark", "call"} =>
        /\ CachedBefore(Len(order) + 1)
        /\ SetBefore(i)

SetLoop ==
    /\ pc = "set" => ret = "SUCCESS" /\ stuck = {} /\ WifiIndex(i)
    /\ pc \in {"prepare", "mark", "call"} =>
           /\ stuck = {} /\ i = Len(order) + 1
           /\ indexWifi \in 1..Len(order) /\ order[indexWifi] = Wifi

\* What the rollback has still to restore is in the groups up to rev.
RestorePhase ==
    pc \in {"rollback", "undo"} =>
        /\ ret = "FAILURE"
        /\ CachedBefore(Len(order) + 1)
        /\ store[Wifi] = before[Wifi]
        /\ \A c \in Components \ stuck :
               store[c] = before[c] \/ \E x \in 1..rev : order[x] = c

\* The rollback forgets the WiFi group, if it is among those before.
RestoreLoop ==
    /\ pc = "rollback" /\ indexWifi # 0 => indexWifi \in 1..rev
    /\ pc \in {"rollback", "undo"} /\ indexWifi # 0 => order[indexWifi] = Wifi

SignalPhase ==
    pc \in {"copyid", "signal"} =>
        ret = "SUCCESS" /\ \A x \in 1..Len(order) : store[order[x]] = n

DonePhase ==
    pc = "done" =>
        /\ order \in Orders
        /\ ret = "SUCCESS" => \A x \in 1..Len(order) : store[order[x]] = n
        /\ ret = "FAILURE" => \A c \in Components \ stuck : store[c] = before[c]
        /\ ret = "WIFI_BUSY" => store[Wifi] = before[Wifi]

AtomicInv ==
    /\ CachePhase /\ SetPhase /\ SetLoop
    /\ RestorePhase /\ RestoreLoop /\ SignalPhase /\ DonePhase

LEMMA InitAtomic == Init => AtomicInv
  BY DEF Init, AtomicInv, CachePhase, SetPhase, SetLoop, RestorePhase, RestoreLoop,
     SignalPhase, DonePhase

\* Arriving and reading the values keep the invariant.
LEMMA CacheAtomic ==
  ASSUME TypeInv, AtomicInv, setValues \/ CacheGroup \/ CacheEnds
  PROVE  AtomicInv'
<1> USE DEF TypeInv, TypeOK, Serving, AtomicInv, setUnchanged
<1>1. CASE setValues
  <2>1. CachePhase'
    BY <1>1 DEF setValues, CachePhase, CachedBefore
  <2>2. DonePhase'
    BY <1>1 DEF setValues, DonePhase
  <2> QED BY <1>1, <2>1, <2>2 DEF setValues, SetPhase, SetLoop, RestorePhase, RestoreLoop,
          SignalPhase
<1>2. CASE CacheGroup
  <2> USE <1>2 DEF CacheGroup
  <2>1. /\ order \in Orders /\ i \in 1..Len(order) /\ Len(order) \in Nat
        /\ \A x \in 1..Len(order) : order[x] \in Components
    BY OrderParts
  <2>2. CachePhase'
    <3> SUFFICES ASSUME pc' = "cache" PROVE CachePhase'
      BY DEF CachePhase
    <3>1. i' = i + 1 /\ rollback' = [rollback EXCEPT ![order[i]] = store[order[i]]]
      BY DEF CachePhase
    <3>2. \A x \in 1..i : rollback'[order[x]] = before[order[x]]
      BY <2>1, <3>1 DEF CachePhase, CachedBefore
    <3>3. CachedBefore(i)'
      BY <2>1, <3>1, <3>2 DEF CachedBefore
    <3> QED BY <3>3 DEF CachePhase
  <2>3. DonePhase'
    BY <2>1 DEF DonePhase, CachePhase
  <2> QED BY <2>2, <2>3 DEF SetPhase, SetLoop, RestorePhase, RestoreLoop, SignalPhase
<1>3. CASE CacheEnds
  <2> USE <1>3 DEF CacheEnds
  <2>1. order \in Orders /\ Len(order) \in Nat /\ i = Len(order) + 1
    BY OrderParts
  <2>2. CachedBefore(Len(order) + 1)' /\ SetBefore(i)' /\ WifiIndex(i)'
    BY <2>1 DEF CachePhase, CachedBefore, SetBefore, WifiIndex
  <2>3. SetPhase' /\ SetLoop'
    BY <2>2 DEF SetPhase, SetLoop, CachePhase
  <2> QED BY <2>3 DEF CachePhase, RestorePhase, RestoreLoop, SignalPhase, DonePhase
<1> QED BY <1>1, <1>2, <1>3

\* The loop over the groups keeps the invariant.
LEMMA LoopAtomic ==
  ASSUME TypeInv, AtomicInv, RefuseWifi \/ PutOffWifi \/ SetGroup \/ SetGroupFails
  PROVE  AtomicInv'
<1> USE SetAssumption DEF TypeInv, TypeOK, Serving, AtomicInv, setUnchanged, IsPutOff
<1>0. pc = "set" /\ i <= Len(order)
  BY DEF RefuseWifi, PutOffWifi, SetGroup, SetGroupFails
<1>1. /\ order \in Orders /\ i \in 1..Len(order) /\ Len(order) \in Nat
      /\ \A x \in 1..Len(order) : order[x] \in Components
      /\ \A x, y \in 1..Len(order) : order[x] = order[y] => x = y
  BY <1>0, OrderParts
<1>2. /\ CachedBefore(Len(order) + 1) /\ SetBefore(i)
      /\ ret = "SUCCESS" /\ stuck = {} /\ WifiIndex(i)
  BY <1>0 DEF SetPhase, SetLoop
<1>3. CASE RefuseWifi
  BY <1>1, <1>2, <1>3 DEF RefuseWifi, SetBefore, CachePhase, SetPhase, SetLoop,
     RestorePhase, RestoreLoop, SignalPhase, DonePhase
<1>4. CASE PutOffWifi
  <2> USE <1>4 DEF PutOffWifi, NextGroup
  <2>1. CachedBefore(Len(order) + 1)'
    BY <1>2 DEF CachedBefore
  <2>2. SetBefore(i)'
    BY <1>1, <1>2 DEF SetBefore
  <2>3. WifiIndex(i)'
    BY <1>1 DEF WifiIndex
  <2> QED BY <1>0, <1>2, <2>1, <2>2, <2>3 DEF CachePhase, SetPhase, SetLoop,
          RestorePhase, RestoreLoop, SignalPhase, DonePhase
<1>5. CASE SetGroup
  <2> USE <1>5 DEF SetGroup, NextGroup
  <2>1. CachedBefore(Len(order) + 1)'
    BY <1>2 DEF CachedBefore
  <2>2. \A x \in 1..i : order[x] # Wifi => store'[order[x]] = n
    BY <1>1, <1>2 DEF SetBefore
  <2>3. \A c \in Components :
           (c = Wifi \/ \A x \in 1..i : order[x] # c) => store'[c] = before[c]
    BY <1>1, <1>2 DEF SetBefore
  <2>4. SetBefore(i)'
    BY <1>1, <2>2, <2>3 DEF SetBefore
  <2>5. WifiIndex(i)'
    BY <1>1, <1>2 DEF WifiIndex
  <2> QED BY <1>0, <1>2, <2>1, <2>4, <2>5 DEF CachePhase, SetPhase, SetLoop,
          RestorePhase, RestoreLoop, SignalPhase, DonePhase
<1>6. CASE SetGroupFails
  <2> USE <1>6 DEF SetGroupFails, LastSet
  <2>1. RestorePhase'
    BY <1>1, <1>2 DEF RestorePhase, CachedBefore, SetBefore
  <2>2. RestoreLoop'
    BY <1>1, <1>2 DEF RestoreLoop, WifiIndex
  <2> QED BY <2>1, <2>2 DEF CachePhase, SetPhase, SetLoop, SignalPhase, DonePhase
<1> QED BY <1>3, <1>4, <1>5, <1>6

\* The two rollbacks keep the invariant.
LEMMA RestoreAtomic ==
  ASSUME TypeInv, AtomicInv, RestoreGroup \/ SkipWifi \/ UndoEnds
  PROVE  AtomicInv'
<1> USE SetAssumption DEF TypeInv, TypeOK, Serving, AtomicInv, setUnchanged
<1>0. pc \in {"rollback", "undo"}
  BY DEF RestoreGroup, SkipWifi, UndoEnds
<1>1. /\ order \in Orders /\ rev \in 0..Len(order) /\ Len(order) \in Nat
      /\ \A x \in 1..Len(order) : order[x] \in Components
  BY <1>0, OrderParts
<1>2. RestorePhase /\ RestoreLoop
  OBVIOUS
<1>3. CASE RestoreGroup
  <2> USE <1>3 DEF RestoreGroup
  <2>1. rollback[order[rev]] = before[order[rev]] /\ order[rev] \in Components
    BY <1>0, <1>1 DEF RestorePhase, CachedBefore
  <2>2. \A c \in Components \ stuck' :
           store'[c] = before[c] \/ \E x \in 1..(rev - 1) : order[x] = c
    <3> TAKE c \in Components \ stuck'
    <3>1. store[c] = before[c] \/ \E x \in 1..rev : order[x] = c
      BY <1>0 DEF RestorePhase
    <3>2. CASE order[rev] = c
      BY <2>1, <3>2
    <3>3. CASE order[rev] # c
      BY <1>1, <2>1, <3>1, <3>3
    <3> QED BY <3>2, <3>3
  <2>3. store'[Wifi] = before[Wifi]
    BY <1>0, <2>1 DEF RestorePhase
  <2>4. RestorePhase'
    BY <1>0, <2>2, <2>3 DEF RestorePhase, CachedBefore
  <2>5. RestoreLoop'
    BY <1>1 DEF RestoreLoop
  <2> QED BY <1>0, <2>4, <2>5 DEF CachePhase, SetPhase, SetLoop, SignalPhase, DonePhase
<1>4. CASE SkipWifi
  <2> USE <1>4 DEF SkipWifi
  <2>1. order[rev] = Wifi
    BY <1>0, <1>1 DEF RestoreLoop
  <2>2. \A c \in Components \ stuck :
           store[c] = before[c] \/ \E x \in 1..(rev - 1) : order[x] = c
    BY <1>0, <1>1, <2>1 DEF RestorePhase
  <2>3. RestorePhase'
    BY <1>0, <2>2 DEF RestorePhase, CachedBefore
  <2>4. RestoreLoop'
    BY <1>0, <1>1 DEF RestoreLoop
  <2> QED BY <1>0, <2>3, <2>4 DEF CachePhase, SetPhase, SetLoop, SignalPhase, DonePhase
<1>5. CASE UndoEnds
  BY <1>0, <1>1, <1>5 DEF UndoEnds, CachePhase, SetPhase, SetLoop, RestorePhase,
     RestoreLoop, SignalPhase, DonePhase
<1> QED BY <1>3, <1>4, <1>5

\* Setting the WiFi group keeps the invariant.
LEMMA WifiAtomic ==
  ASSUME TypeInv, AtomicInv,
         \/ GroupsEnd \/ PrepareWifi \/ MarkRadio \/ EnableRestart \/ SetWifi \/ SetWifiFails
         \/ CopyTransactionId \/ SignalTask \/ Report
  PROVE  AtomicInv'
<1> USE SetAssumption DEF TypeInv, TypeOK, Serving, AtomicInv, setUnchanged
<1>1. CASE GroupsEnd
  <2> USE <1>1 DEF GroupsEnd
  <2>1. /\ order \in Orders /\ Len(order) \in Nat
        /\ \A x \in 1..Len(order) : order[x] \in Components
    BY OrderParts
  <2>2. CASE pc = "set"
    <3>1. i = Len(order) + 1 /\ SetBefore(i) /\ CachedBefore(Len(order) + 1)
          /\ WifiIndex(i) /\ stuck = {} /\ ret = "SUCCESS"
      BY <2>1, <2>2 DEF SetPhase, SetLoop
    <3>2. SetPhase'
      BY <3>1 DEF SetPhase, SetBefore, CachedBefore
    <3>3. SetLoop'
      BY <2>1, <2>2, <3>1 DEF SetLoop, WifiIndex
    <3>4. DonePhase'
      BY <2>1, <2>2, <3>1 DEF DonePhase, SetBefore, WifiIndex
    <3> QED BY <2>2, <3>2, <3>3, <3>4 DEF CachePhase, RestorePhase, RestoreLoop, SignalPhase
  <2>3. CASE pc = "rollback" /\ rev = 0
    <3>1. pc' = "done"
      BY <2>3 DEF RestoreLoop
    <3>2. DonePhase'
      BY <2>1, <2>3 DEF DonePhase, RestorePhase
    <3> QED BY <3>1, <3>2 DEF CachePhase, SetPhase, SetLoop, RestorePhase, RestoreLoop,
            SignalPhase
  <2> QED BY <2>2, <2>3
<1>2. ASSUME pc \in {"prepare", "mark", "call"}
      PROVE  /\ order \in Orders /\ Len(order) \in Nat /\ i = Len(order) + 1
             /\ \A x \in 1..Len(order) : order[x] \in Components
             /\ \A x, y \in 1..Len(order) : order[x] = order[y] => x = y
             /\ CachedBefore(Len(order) + 1) /\ SetBefore(i) /\ stuck = {}
             /\ indexWifi \in 1..Len(order) /\ order[indexWifi] = Wifi
  BY <1>2, OrderParts DEF SetPhase, SetLoop
<1>3. ASSUME pc \in {"prepare", "call"}, ret' = "FAILURE", rev' = LastSet, pc' = "undo",
             UNCHANGED <<store, order, before, rollback, stuck, indexWifi, i>>
      PROVE  AtomicInv'
  <2>1. RestorePhase'
    BY <1>2, <1>3 DEF RestorePhase, CachedBefore, SetBefore, LastSet
  <2>2. RestoreLoop'
    BY <1>2, <1>3 DEF RestoreLoop
  <2> QED BY <1>3, <2>1, <2>2 DEF CachePhase, SetPhase, SetLoop, SignalPhase, DonePhase
<1>4. CASE PrepareWifi
  <2>1. CASE pc' = "mark"
    <3>1. SetPhase' /\ SetLoop'
      BY <1>2, <1>4, <2>1 DEF PrepareWifi, SetPhase, SetLoop, CachedBefore, SetBefore
    <3> QED BY <2>1, <3>1 DEF CachePhase, RestorePhase, RestoreLoop, SignalPhase, DonePhase
  <2>2. CASE pc' = "undo"
    BY <1>3, <1>4, <2>2 DEF PrepareWifi
  <2> QED BY <1>4, <2>1, <2>2 DEF PrepareWifi
<1>11. CASE MarkRadio
  <2>1. SetPhase' /\ SetLoop'
    BY <1>2, <1>11 DEF MarkRadio, SetPhase, SetLoop, CachedBefore, SetBefore
  <2> QED BY <1>11, <2>1 DEF MarkRadio, CachePhase, RestorePhase, RestoreLoop,
          SignalPhase, DonePhase
<1>5. CASE EnableRestart
  <2>1. SetPhase' /\ SetLoop'
    BY <1>2, <1>5 DEF EnableRestart, SetPhase, SetLoop, CachedBefore, SetBefore
  <2> QED BY <1>5, <2>1 DEF EnableRestart, CachePhase, RestorePhase, RestoreLoop,
          SignalPhase, DonePhase
<1>6. CASE SetWifi
  <2>1. SignalPhase'
    BY <1>2, <1>6 DEF SetWifi, SignalPhase, SetBefore
  <2> QED BY <1>6, <2>1 DEF SetWifi, CachePhase, SetPhase, SetLoop, RestorePhase,
          RestoreLoop, DonePhase
<1>7. CASE SetWifiFails
  BY <1>3, <1>7 DEF SetWifiFails, AfterFailure
<1>8. CASE CopyTransactionId
  BY <1>8 DEF CopyTransactionId, CachePhase, SetPhase, SetLoop, RestorePhase, RestoreLoop,
     SignalPhase, DonePhase
<1>9. CASE SignalTask
  BY <1>9 DEF SignalTask, CachePhase, SetPhase, SetLoop, RestorePhase, RestoreLoop,
     SignalPhase, DonePhase
<1>10. CASE Report
  BY <1>10 DEF Report, CachePhase, SetPhase, SetLoop, RestorePhase, RestoreLoop,
     SignalPhase, DonePhase
<1> QED BY <1>1, <1>4, <1>5, <1>6, <1>7, <1>8, <1>9, <1>10, <1>11

LEMMA NextAtomic == TypeInv /\ AtomicInv /\ [Next]_vars => AtomicInv'
<1>1. AtomicInv /\ UNCHANGED <<store, setVars>> => AtomicInv'
  BY DEF AtomicInv, setVars, CachePhase, SetPhase, SetLoop, RestorePhase, RestoreLoop,
     SignalPhase, DonePhase, CachedBefore, SetBefore, WifiIndex
<1> QED BY <1>1, CacheAtomic, LoopAtomic, RestoreAtomic, WifiAtomic, TaskLeavesRequest
        DEF Next, ServeRequest

\* A SET over several components is reported as a success only when all of them
\* have its values, and after a failure they have those they had before.
THEOREM SetAtomic == Spec => []SetIsAtomic
<1>1. TypeInv /\ AtomicInv => SetIsAtomic
  <2> SUFFICES ASSUME TypeInv, AtomicInv, pc = "done" PROVE SetIsAtomic
    BY DEF SetIsAtomic
  <2>1. DonePhase /\ DOMAIN order = 1..Len(order)
    BY OrderParts DEF AtomicInv, DonePhase
  <2> QED BY <2>1 DEF SetIsAtomic, DonePhase, Groups
<1> QED BY <1>1, InitType, NextType, InitAtomic, NextAtomic, PTL DEF Spec

\* The WiFi values change only when every other component of the request has its
\* values.
THEOREM WifiIsLast == Spec => WifiSetLast
<1>1. TypeInv /\ AtomicInv /\ [Next]_vars =>
        [store'[Wifi] # store[Wifi] => \A c \in Groups \ {Wifi} : store[c] = n]_vars
  <2> SUFFICES ASSUME TypeInv, AtomicInv, Next, store'[Wifi] # store[Wifi]
               PROVE  \A c \in Groups \ {Wifi} : store[c] = n
    OBVIOUS
  <2> USE SetAssumption DEF TypeInv, TypeOK, Serving, AtomicInv
  <2>1. SetGroup \/ RestoreGroup \/ SetWifi
    BY TaskLeavesRequest DEF Next, ServeRequest, setValues, CacheGroup, CacheEnds,
       RefuseWifi, PutOffWifi, SetGroupFails, SkipWifi, GroupsEnd, PrepareWifi, MarkRadio,
       EnableRestart, SetWifiFails, CopyTransactionId, SignalTask, UndoEnds, Report,
       setUnchanged
  <2>2. pc \notin {"idle", "done"}
    BY <2>1 DEF SetGroup, RestoreGroup, SetWifi
  <2>3. /\ DOMAIN order = 1..Len(order) /\ Len(order) \in Nat
        /\ \A x \in 1..Len(order) : order[x] \in Components
    BY <2>2, OrderParts
  <2>4. ~SetGroup
    BY <2>3 DEF SetGroup, IsPutOff
  <2>5. ~RestoreGroup
    BY <2>3 DEF RestoreGroup, RestorePhase, CachedBefore
  <2>6. SetWifi
    BY <2>1, <2>4, <2>5
  <2> QED BY <2>3, <2>6 DEF SetWifi, SetPhase, SetLoop, SetBefore, Groups
<1> QED BY <1>1, InitType, NextType, InitAtomic, NextAtomic, PTL DEF Spec, WifiSetLast

------------------------------------------------------------------------------
(***************************************************************************)
(* setValues implements AtomicSet.  Besides AtomicInv the refinement needs *)
(* to know what a request that is served may have touched.                 *)
(***************************************************************************)
FrameInv ==
    pc # "idle" =>
        /\ order \in Orders
        /\ stuck \in SUBSET Groups
        /\ \A c \in Components :
               store[c] = before[c] \/ (c \in Groups /\ store[c] = n)

\* The groups of a request are some of the components.
LEMMA GroupsOf ==
  ASSUME NEW o \in Orders
  PROVE  {o[k] : k \in DOMAIN o} \in (SUBSET Components) \ {{}}
<1>1. DOMAIN o = 1..Len(o) /\ Len(o) \in 1..MaxGroups /\ \A k \in 1..Len(o) : o[k] \in Components
  BY OrderParts
<1>2. 1 \in 1..Len(o)
  BY <1>1, SetAssumption DEF SetAssumption
<1> DEFINE D == DOMAIN o
<1>3. o[1] \in {o[k] : k \in D}
  BY <1>1, <1>2
<1>4. \A k \in D : o[k] \in Components
  BY <1>1
<1> HIDE DEF D
<1>5. {o[k] : k \in D} \in SUBSET Components /\ {o[k] : k \in D} # {}
  BY <1>3, <1>4
<1> QED BY <1>5 DEF D

\* A request touches only the components of its groups.
LEMMA NextFrame == TypeInv /\ AtomicInv /\ FrameInv /\ [Next]_vars => FrameInv'
<1> SUFFICES ASSUME TypeInv, AtomicInv, FrameInv, [Next]_vars PROVE FrameInv'
  OBVIOUS
<1> USE DEF TypeInv, TypeOK, Serving, FrameInv, Groups, setUnchanged
<1>1. CASE setValues
  BY <1>1 DEF setValues
<1>2. CASE SetGroup
  <2>1. order \in Orders /\ i \in DOMAIN order /\ order[i] \in Components
    BY <1>2, OrderParts, SetAssumption DEF SetGroup
  <2> QED BY <1>2, <2>1 DEF SetGroup
<1>3. CASE RestoreGroup
  <2>1. order \in Orders /\ rev \in DOMAIN order /\ order[rev] \in Components
    BY <1>3, OrderParts, SetAssumption DEF RestoreGroup
  <2>2. rollback[order[rev]] = before[order[rev]]
    BY <1>3, <2>1, OrderParts DEF RestoreGroup, AtomicInv, RestorePhase, CachedBefore
  <2> QED BY <1>3, <2>1, <2>2 DEF RestoreGroup
<1>4. CASE SetWifi
  <2>1. order \in Orders /\ indexWifi \in DOMAIN order /\ order[indexWifi] = Wifi
    BY <1>4, OrderParts DEF SetWifi, AtomicInv, SetLoop
  <2> QED BY <1>4, <2>1 DEF SetWifi
<1>5. CASE \/ CacheGroup \/ CacheEnds \/ RefuseWifi \/ PutOffWifi \/ SetGroupFails
           \/ SkipWifi \/ GroupsEnd \/ PrepareWifi \/ MarkRadio \/ EnableRestart
           \/ SetWifiFails \/ CopyTransactionId \/ SignalTask \/ UndoEnds \/ Report
  <2>1. pc # "idle" /\ UNCHANGED <<store, order, before, n, stuck>>
    BY <1>5 DEF CacheGroup, CacheEnds, RefuseWifi, PutOffWifi, SetGroupFails, SkipWifi,
       GroupsEnd, PrepareWifi, MarkRadio, EnableRestart, SetWifiFails, CopyTransactionId,
       SignalTask, UndoEnds, Report
  <2> QED BY <2>1
<1>6. CASE UNCHANGED <<store, setVars>>
  BY <1>6 DEF setVars
<1> QED BY <1>1, <1>2, <1>3, <1>4, <1>5, <1>6, TaskLeavesRequest DEF Next, ServeRequest

\* The end of a request is one of the abstract steps.
LEMMA EndRefines ==
  ASSUME TypeInv, TypeInv', FrameInv, FrameInv', DonePhase',
         pc \notin {"idle", "done"}, pc' = "done",
         UNCHANGED <<n, order, before>>,
         ret' = "WIFI_BUSY" => Wifi \in Groups
  PROVE  Set!Succeed \/ Set!Fail \/ Set!Refuse
<1> USE DEF TypeInv, TypeOK, Serving, FrameInv
<1>1. Groups' = Groups /\ Groups \in (SUBSET Components) \ {{}}
  BY GroupsOf DEF Groups
<1>2. Set!IsServed
  BY <1>1 DEF Set!IsServed
<1>3. \A c \in Groups : ret' = "SUCCESS" => store'[c] = n
  <2>1. order' = order /\ order \in Orders /\ DOMAIN order = 1..Len(order)
    BY OrderParts
  <2> QED BY <2>1 DEF DonePhase, Groups
<1>4. /\ store' \in [Components -> {n} \cup {before[c] : c \in Components}]
      /\ \A c \in Components : store'[c] = before[c] \/ (c \in Groups /\ store'[c] = n)
  BY <1>1
<1>5. CASE ret' = "SUCCESS"
  <2>1. store' = [c \in Components |-> IF c \in Groups THEN n ELSE before[c]]
    BY <1>3, <1>4, <1>5
  <2> QED BY <1>1, <1>2, <1>5, <2>1 DEF Set!Succeed
<1>6. CASE ret' = "FAILURE"
  <2>1. \A c \in Components : store'[c] = before[c] \/ (c \in stuck' /\ store'[c] = n)
    BY <1>4, <1>6 DEF DonePhase
  <2> QED BY <1>1, <1>2, <1>4, <1>6, <2>1 DEF Set!Fail, Set!OnlyIn
<1>7. CASE ret' = "WIFI_BUSY"
  <2>1. \A c \in Components :
            store'[c] = before[c] \/ (c \in Groups \ {Wifi} /\ store'[c] = n)
    BY <1>4, <1>7 DEF DonePhase
  <2> QED BY <1>1, <1>2, <1>4, <1>7, <2>1 DEF Set!Refuse, Set!OnlyIn
<1> QED BY <1>5, <1>6, <1>7

\* An atomic SET is implemented by the groups, the two rollbacks and the WiFi
\* group that is put off, for any components and any number of requests.
THEOREM AtomicSetImplemented == Spec => ImplementsAtomicSet
<1> DEFINE Inv == TypeInv /\ AtomicInv /\ FrameInv
<1>1. Init => Inv /\ Set!Init
  BY InitType, InitAtomic DEF Init, FrameInv, Set!Init
<1>2. Inv /\ [Next]_vars => Inv'
  BY NextType, NextAtomic, NextFrame
<1>3. Inv /\ Inv' /\ [Next]_vars => [Set!Next]_(Set!vars)
  <2> SUFFICES ASSUME Inv, Inv', [Next]_vars PROVE [Set!Next]_(Set!vars)
    OBVIOUS
  <2>1. CASE setValues
    <3>1. Groups' \in (SUBSET Components) \ {{}}
      BY <2>1, GroupsOf DEF setValues, Groups
    <3> QED BY <2>1, <3>1 DEF setValues, Set!Next, Set!Accept
  <2>2. CASE ServeRequest /\ pc' = "done"
    <3>1. pc \notin {"idle", "done"} /\ UNCHANGED <<n, order, before>>
      BY <2>2 DEF ServeRequest, CacheGroup, CacheEnds, RefuseWifi, PutOffWifi, SetGroup,
         SetGroupFails, RestoreGroup, SkipWifi, GroupsEnd, PrepareWifi, MarkRadio,
         EnableRestart, SetWifi, SetWifiFails, AfterFailure, CopyTransactionId, SignalTask,
         UndoEnds, Report, setUnchanged
    <3>2. ret' = "WIFI_BUSY" => Wifi \in Groups
      <4>1. CASE RefuseWifi
        BY <4>1, OrderParts, SetAssumption
           DEF RefuseWifi, IsPutOff, Groups, TypeInv, TypeOK, Serving
      <4>2. RefuseWifi \/ CacheGroup \/ GroupsEnd \/ SignalTask \/ UndoEnds
        BY <2>2 DEF ServeRequest, CacheEnds, PutOffWifi, SetGroup, SetGroupFails,
           RestoreGroup, SkipWifi, PrepareWifi, MarkRadio, EnableRestart, SetWifi,
           SetWifiFails, AfterFailure, CopyTransactionId, Report
      <4>3. CASE CacheGroup
        BY <2>2, <4>3 DEF CacheGroup
      <4>4. CASE GroupsEnd \/ SignalTask \/ UndoEnds
        <5>1. ret' = ret /\ pc \in {"set", "rollback", "signal", "undo"}
          BY <4>4 DEF GroupsEnd, SignalTask, UndoEnds
        <5>2. ret # "WIFI_BUSY"
          BY <5>1 DEF AtomicInv, SetLoop, RestorePhase, SignalPhase
        <5> QED BY <5>1, <5>2
      <4> QED BY <4>1, <4>2, <4>3, <4>4
    <3>3. DonePhase'
      BY DEF AtomicInv
    <3>4. Set!Succeed \/ Set!Fail \/ Set!Refuse
      BY <2>2, <3>1, <3>2, <3>3, EndRefines
    <3> QED BY <3>4 DEF Set!Next
  <2>3. CASE Report
    BY <2>3 DEF Report, setUnchanged, Set!Next, Set!Finish, TypeInv, TypeOK
  <2>4. CASE ServeRequest /\ pc' # "done" /\ ~Report
    BY <2>4 DEF ServeRequest, CacheGroup, CacheEnds, RefuseWifi, PutOffWifi, SetGroup,
       SetGroupFails, RestoreGroup, SkipWifi, GroupsEnd, PrepareWifi, MarkRadio,
       EnableRestart, SetWifi, SetWifiFails, AfterFailure, CopyTransactionId, SignalTask,
       UndoEnds, setUnchanged, Set!vars, Groups
  <2>5. CASE UNCHANGED <<store, setVars>>
    BY <2>5 DEF setVars, Set!vars, Groups
  <2> QED BY <2>1, <2>2, <2>3, <2>4, <2>5, TaskLeavesRequest DEF Next
<1> QED BY <1>1, <1>2, <1>3, PTL DEF Spec, ImplementsAtomicSet, Set!Spec

------------------------------------------------------------------------------
\* The transaction id is that of a request whose WiFi set had succeeded.
AcceptedId ==
    /\ current_transaction_id # 0 => current_transaction_id \in accepted
    /\ pc = "copyid" => n \in accepted

\* The server is told only of transactions whose WiFi set had succeeded.
THEOREM NotifiedAccepted == Spec => []NotifiedWereAccepted
<1> DEFINE Inv == AcceptedId /\ NotifiedWereAccepted
<1>1. Init => Inv
  BY DEF Init, AcceptedId, NotifiedWereAccepted
<1>2. Inv /\ [Next]_vars => Inv'
  <2> SUFFICES ASSUME Inv, [Next]_vars PROVE Inv'
    OBVIOUS
  <2> USE DEF AcceptedId, NotifiedWereAccepted
  <2>1. CASE setValues \/ ServeRequest
    BY <2>1 DEF setValues, ServeRequest, CacheGroup, CacheEnds, RefuseWifi, PutOffWifi,
       SetGroup, SetGroupFails, RestoreGroup, SkipWifi, GroupsEnd, PrepareWifi, MarkRadio,
       EnableRestart, SetWifi, SetWifiFails, AfterFailure, CopyTransactionId,
       TransactionId, SignalTask, UndoEnds, Report, setUnchanged, wifiUnchanged, flagVars, applyVars
  <2>2. CASE applyWiFiSettingsTask \/ SpuriousWakeup
    BY <2>2 DEF IdsRead, TransactionId, applyWiFiSettingsTask, Begin, SpuriousWakeup, SetBusy, TestRestart,
       ChooseRadios, ResetRadioFlags, ApplySettings, send_transaction_Notify, ClearBusy,
       taskUnchanged, flagVars, setVars
  <2>3. CASE UNCHANGED vars
    BY <2>3 DEF vars, setVars, flagVars, applyVars
  <2> QED BY <2>1, <2>2, <2>3 DEF Next
<1>3. Inv => NotifiedWereAccepted
  OBVIOUS
<1> QED BY <1>1, <1>2, <1>3, PTL DEF Spec

------------------------------------------------------------------------------
(***************************************************************************)
(* The task that waits and is busy.  applySettingsFlag stays on when the   *)
(* task, woken, finds bRadioRestartEn off.  Every WiFi set turns it on, so *)
(* somebody turned it off between the set and the signal: the task, woken  *)
(* by the signal of an earlier set.                                        *)
(***************************************************************************)
TwoAccepted == \E x, y \in accepted : x # y

EarlierAccepted == \E x \in accepted : x # n

\* Requests are numbered in their order.
AcceptedSoFar ==
    /\ n \in Nat
    /\ accepted \subseteq 0..n
    /\ pc \in {"copyid", "signal"} => n \in accepted

\* The task was woken by an accepted request, not by the one being served.
WokenByAccepted ==
    apc \in {"woken", "test"} =>
        /\ accepted # {}
        /\ pc \notin {"idle", "done"} => EarlierAccepted

RestartStaysOn ==
    /\ pc \in {"call", "copyid", "signal"} => bRadioRestartEn \/ EarlierAccepted
    /\ apc \in {"woken", "test"} => bRadioRestartEn \/ TwoAccepted

BusyInv ==
    /\ AcceptedSoFar
    /\ WokenByAccepted
    /\ RestartStaysOn
    /\ apc = "begin" => ~applySettingsFlag
    /\ IdleBusyNeedsOverlap

\* The steps of setValues, one for each way in which they touch the task.
LEMMA RequestBusy ==
  ASSUME BusyInv, setValues \/ ServeRequest
  PROVE  BusyInv'
<1> USE DEF BusyInv, AcceptedSoFar, WokenByAccepted, RestartStaysOn, IdleBusyNeedsOverlap,
            TwoAccepted, EarlierAccepted
<1>1. CASE setValues
  <2>1. /\ pc = "idle" /\ n' = n + 1 /\ pc' \in {"cache", "done"}
        /\ UNCHANGED <<accepted, apc, bRadioRestartEn, applySettingsFlag>>
    BY <1>1 DEF setValues, wifiUnchanged, flagVars, applyVars
  <2>2. n' \in Nat /\ accepted' \subseteq 0..n' /\ \A x \in accepted : x # n'
    BY <2>1
  <2>3. AcceptedSoFar'
    BY <2>1, <2>2
  <2>4. WokenByAccepted'
    BY <2>1, <2>2
  <2>5. RestartStaysOn' /\ IdleBusyNeedsOverlap' /\ (apc = "begin" => ~applySettingsFlag)'
    BY <2>1
  <2> QED BY <2>3, <2>4, <2>5
<1>2. CASE EnableRestart
  BY <1>2 DEF EnableRestart, RestartOn, setUnchanged, applyVars
<1>3. CASE SetWifi
  BY <1>3 DEF SetWifi, flagVars, applyVars
<1>4. CASE CopyTransactionId
  BY <1>4 DEF CopyTransactionId, setUnchanged, applyVars
<1>5. CASE SignalTask
  BY <1>5 DEF SignalTask, setUnchanged, flagVars
<1>6. CASE MarkRadio
  BY <1>6 DEF MarkRadio, applyVars
<1>7. CASE \/ CacheGroup \/ CacheEnds \/ RefuseWifi \/ PutOffWifi \/ SetGroup
           \/ SetGroupFails \/ RestoreGroup \/ SkipWifi \/ GroupsEnd \/ PrepareWifi
           \/ SetWifiFails \/ UndoEnds \/ Report
  <2>1. UNCHANGED <<n, accepted, apc, bRadioRestartEn, applySettingsFlag>>
    BY <1>7 DEF CacheGroup, CacheEnds, RefuseWifi, PutOffWifi, SetGroup, SetGroupFails,
       RestoreGroup, SkipWifi, GroupsEnd, PrepareWifi, SetWifiFails, UndoEnds, Report,
       setUnchanged, wifiUnchanged, flagVars, applyVars
  <2>2. /\ pc' \notin {"call", "copyid", "signal"}
        /\ pc' \notin {"idle", "done"} => pc \notin {"idle", "done"}
    BY <1>7 DEF CacheGroup, CacheEnds, RefuseWifi, PutOffWifi, SetGroup, SetGroupFails,
       RestoreGroup, SkipWifi, GroupsEnd, PrepareWifi, SetWifiFails, AfterFailure, UndoEnds,
       Report
  <2> QED BY <2>1, <2>2
<1> QED BY <1>1, <1>2, <1>3, <1>4, <1>5, <1>6, <1>7 DEF ServeRequest

\* The steps of the task.
LEMMA TaskBusy ==
  ASSUME BusyInv, applyWiFiSettingsTask
  PROVE  BusyInv'
<1> USE DEF BusyInv, AcceptedSoFar, WokenByAccepted, RestartStaysOn, IdleBusyNeedsOverlap,
            TwoAccepted, EarlierAccepted, taskUnchanged, flagVars, setVars
<1>1. CASE Begin
  BY <1>1 DEF Begin
<1>2. CASE SetBusy
  BY <1>2 DEF SetBusy
<1>3. CASE TestRestart
  BY <1>3 DEF TestRestart
<1>4. CASE ChooseRadios \/ ResetRadioFlags
  BY <1>4 DEF ChooseRadios, ResetRadioFlags
<1>5. CASE ApplySettings \/ send_transaction_Notify \/ ClearBusy
  BY <1>5 DEF ApplySettings, send_transaction_Notify, ClearBusy
<1> QED BY <1>1, <1>2, <1>3, <1>4, <1>5 DEF applyWiFiSettingsTask

\* Where a condition variable wakes nobody without a signal, the task is left
\* waiting and busy, refusing every later WiFi request, only after two WiFi sets
\* that succeeded.
THEOREM BusyNeedsOverlap ==
  ASSUME Spurious = FALSE
  PROVE  Spec => []IdleBusyNeedsOverlap
<1>1. Init => BusyInv
  BY DEF Init, BusyInv, AcceptedSoFar, WokenByAccepted, RestartStaysOn, IdleBusyNeedsOverlap
<1>2. BusyInv /\ [Next]_vars => BusyInv'
  <2> SUFFICES ASSUME BusyInv, [Next]_vars PROVE BusyInv'
    OBVIOUS
  <2>1. ~SpuriousWakeup
    BY DEF SpuriousWakeup
  <2>2. CASE UNCHANGED vars
    BY <2>2 DEF vars, setVars, flagVars, applyVars, BusyInv, AcceptedSoFar, WokenByAccepted,
       RestartStaysOn, IdleBusyNeedsOverlap, TwoAccepted, EarlierAccepted
  <2> QED BY <2>1, <2>2, RequestBusy, TaskBusy DEF Next
<1>3. BusyInv => IdleBusyNeedsOverlap
  BY DEF BusyInv
<1> QED BY <1>1, <1>2, <1>3, PTL DEF Spec
==============================================================================
