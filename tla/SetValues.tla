------------------------------ MODULE SetValues ------------------------------
(***************************************************************************)
(* An atomic SET and the WiFi apply-settings thread (wal/wal.c).           *)
(*                                                                         *)
(* setValues groups the parameters of a request by component, reads every  *)
(* group's values for a rollback, then sets one group after the other, the *)
(* WiFi component last.  webpacore handles one request at a time.  After a *)
(* successful WiFi set applyWiFiSettingsTask is signalled, restarts the    *)
(* radios that were marked and notifies the transaction.  The two threads  *)
(* share six globals without a lock: the task waits on its condition       *)
(* variable without its mutex, and no writer takes it either.              *)
(***************************************************************************)
EXTENDS Naturals, Sequences

CONSTANTS
    Components,   \* the CCSP components a request may touch
    Wifi,         \* the WiFi component
    Radios,       \* the radios that can be restarted
    MaxGroups,    \* bound: groups in a request
    MaxRequests,  \* bound: requests
    WifiCached,   \* whether ComponentValArray[0] was filled by WALInit
    Spurious      \* whether the task may wake without a signal

ASSUME SetAssumption ==
    /\ Wifi \in Components
    /\ MaxGroups \in Nat
    /\ MaxRequests \in Nat
    /\ WifiCached \in BOOLEAN
    /\ Spurious \in BOOLEAN

VARIABLES
    store,      \* component -> the request whose values it has (0: none)
    pc,         \* where setValues is
    n,          \* the number of the request
    order,      \* the components of its groups, in order
    radios,     \* the radios its WiFi parameters belong to
    unmarked,   \* those of them that were not marked yet
    hasId,      \* whether it has a transaction id (it is then n)
    i, rev,     \* loop indices
    indexWifi,  \* index of the WiFi group that was put off, 0 for -1
    rollback,   \* component -> the value cached for the rollback
    ret,        \* setValues' ret
    before,     \* ghost: store when the request arrived
    stuck,      \* ghost: components whose rollback failed
    bRadioRestartEn, bRestartRadio,     \* the restart flags
    applySettingsFlag,                  \* the task is busy
    current_transaction_id,             \* 0: empty
    apc,        \* where applyWiFiSettingsTask is
    target,     \* RadApplyParam and nreq: the radios it restarts
    pending,    \* ghost: radios with a set change and no restart since
    accepted,   \* ghost: requests whose WiFi set succeeded
    notified    \* ghost: transactions notified

setVars   == <<pc, n, order, radios, unmarked, hasId, i, rev, indexWifi, rollback, ret,
               before, stuck>>
flagVars  == <<bRadioRestartEn, bRestartRadio, current_transaction_id>>
applyVars == <<apc, target, applySettingsFlag, notified>>
vars == <<store, setVars, flagVars, applyVars, pending, accepted>>

Requests == 0..MaxRequests
Indices  == 0..(MaxGroups + 1)

\* A mixture of two transaction ids.
TornId == MaxRequests + 1

\* prepareParamGroups puts every component into one group.
Orders == {o \in UNION {[1..k -> Components] : k \in 1..MaxGroups} :
              \A a, b \in DOMAIN o : o[a] = o[b] => a = b}

TypeOK ==
    /\ store \in [Components -> Requests]
    /\ pc \in {"idle", "cache", "set", "rollback", "prepare", "mark", "call",
               "copyid", "signal", "undo", "done"}
    /\ n \in Requests
    /\ order \in Orders \cup {<<>>}
    /\ radios \in SUBSET Radios
    /\ unmarked \in SUBSET Radios
    /\ hasId \in BOOLEAN
    /\ i \in Indices /\ rev \in Indices /\ indexWifi \in Indices
    /\ rollback \in [Components -> Requests]
    /\ ret \in {"SUCCESS", "FAILURE", "WIFI_BUSY"}
    /\ before \in [Components -> Requests]
    /\ stuck \in SUBSET Components
    /\ bRadioRestartEn \in BOOLEAN
    /\ bRestartRadio \in [Radios -> BOOLEAN]
    /\ applySettingsFlag \in BOOLEAN
    /\ current_transaction_id \in Requests
    /\ apc \in {"begin", "wait", "woken", "test", "choose", "reset", "call",
                "notify", "clear", "ended"}
    /\ target \in SUBSET Radios
    /\ pending \in SUBSET Radios
    /\ accepted \in SUBSET Requests
    /\ notified \subseteq Requests \cup {TornId}

Init ==
    /\ store = [c \in Components |-> 0]
    /\ pc = "idle"
    /\ n = 0
    /\ order = <<>>
    /\ radios = {}
    /\ unmarked = {}
    /\ hasId = FALSE
    /\ i = 0 /\ rev = 0 /\ indexWifi = 0
    /\ rollback = [c \in Components |-> 0]
    /\ ret = "SUCCESS"
    /\ before = [c \in Components |-> 0]
    /\ stuck = {}
    /\ bRadioRestartEn = FALSE
    /\ bRestartRadio = [r \in Radios |-> FALSE]
    /\ applySettingsFlag = FALSE
    /\ current_transaction_id = 0
    /\ apc = "begin"
    /\ target = {}
    /\ pending = {}
    /\ accepted = {}
    /\ notified = {}

------------------------------------------------------------------------------
(***************************************************************************)
(* setValues: grouping and reading the values for a rollback               *)
(***************************************************************************)
setUnchanged == UNCHANGED <<store, n, order, radios, unmarked, hasId, before>>
wifiUnchanged == UNCHANGED <<flagVars, applyVars, pending, accepted>>

NextGroup(k) == k + 1

\* A request arrives.  Grouping its parameters fails when no component
\* supports one of them.
setValues ==
    /\ pc = "idle"
    /\ n < MaxRequests
    /\ n' = n + 1
    /\ order' \in Orders
    /\ radios' \in IF \E k \in DOMAIN order' : order'[k] = Wifi
                   THEN SUBSET Radios ELSE {{}}
    /\ hasId' \in BOOLEAN
    /\ before' = store
    /\ stuck' = {}
    /\ i' = 1
    /\ rev' = 0
    /\ indexWifi' = 0
    /\ rollback' = [c \in Components |-> 0]
    /\ \/ pc' = "cache" /\ ret' = "SUCCESS"
       \/ pc' = "done" /\ ret' = "FAILURE"
    /\ UNCHANGED <<store, unmarked>>
    /\ wifiUnchanged

\* The values of one group are read; a failure ends the request.
CacheGroup ==
    /\ pc = "cache"
    /\ i <= Len(order)
    /\ \/ /\ rollback' = [rollback EXCEPT ![order[i]] = store[order[i]]]
          /\ i' = i + 1
          /\ UNCHANGED <<pc, ret>>
       \/ /\ pc' = "done"
          /\ ret' = "FAILURE"
          /\ UNCHANGED <<rollback, i>>
    /\ UNCHANGED <<rev, indexWifi, stuck>>
    /\ setUnchanged /\ wifiUnchanged

CacheEnds ==
    /\ pc = "cache"
    /\ i > Len(order)
    /\ pc' = "set"
    /\ i' = 1
    /\ UNCHANGED <<rev, indexWifi, rollback, ret, stuck>>
    /\ setUnchanged /\ wifiUnchanged

------------------------------------------------------------------------------
(***************************************************************************)
(* setValues: setting the groups, WiFi last                                *)
(***************************************************************************)
\* Mutant: the WiFi group is set in its turn.
NeverPutOff == FALSE

IsPutOff == order[i] = Wifi

\* Mutant: the rollback begins one group too low.
LastButOne == IF i > 1 THEN i - 2 ELSE 0

LastSet == i - 1

\* The WiFi group is refused while the task is busy: the loop is left, and
\* what earlier groups were given stays.
RefuseWifi ==
    /\ pc = "set"
    /\ i <= Len(order)
    /\ IsPutOff
    /\ applySettingsFlag
    /\ ret' = "WIFI_BUSY"
    /\ pc' = "done"
    /\ UNCHANGED <<i, rev, indexWifi, rollback, stuck>>
    /\ setUnchanged /\ wifiUnchanged

PutOffWifi ==
    /\ pc = "set"
    /\ i <= Len(order)
    /\ IsPutOff
    /\ ~applySettingsFlag
    /\ indexWifi' = i
    /\ i' = NextGroup(i)
    /\ UNCHANGED <<pc, rev, rollback, ret, stuck>>
    /\ setUnchanged /\ wifiUnchanged

SetGroup ==
    /\ pc = "set"
    /\ i <= Len(order)
    /\ ~IsPutOff
    /\ store' = [store EXCEPT ![order[i]] = n]
    /\ ret' = "SUCCESS"
    /\ i' = NextGroup(i)
    /\ UNCHANGED <<pc, n, order, radios, unmarked, hasId, before, rev, indexWifi,
                   rollback, stuck>>
    /\ wifiUnchanged

SetGroupFails ==
    /\ pc = "set"
    /\ i <= Len(order)
    /\ ~IsPutOff
    /\ ret' = "FAILURE"
    /\ rev' = LastSet
    /\ pc' = "rollback"
    /\ UNCHANGED <<i, indexWifi, rollback, stuck>>
    /\ setUnchanged /\ wifiUnchanged

\* A rollback that fails is only logged.
RestoreGroup ==
    /\ pc \in {"rollback", "undo"}
    /\ rev >= 1
    /\ rev # indexWifi
    /\ \/ /\ store' = [store EXCEPT ![order[rev]] = rollback[order[rev]]]
          /\ UNCHANGED stuck
       \/ /\ stuck' = stuck \cup {order[rev]}
          /\ UNCHANGED store
    /\ rev' = rev - 1
    /\ UNCHANGED <<pc, n, order, radios, unmarked, hasId, before, i, indexWifi,
                   rollback, ret>>
    /\ wifiUnchanged

\* The WiFi group was not set yet: the first loop forgets it.
SkipWifi ==
    /\ pc \in {"rollback", "undo"}
    /\ rev >= 1
    /\ rev = indexWifi
    /\ indexWifi' = IF pc = "rollback" THEN 0 ELSE indexWifi
    /\ rev' = rev - 1
    /\ UNCHANGED <<pc, i, rollback, ret, stuck>>
    /\ setUnchanged /\ wifiUnchanged

\* Both loops end at the test of indexWifi.
GroupsEnd ==
    /\ \/ pc = "set" /\ i > Len(order)
       \/ pc = "rollback" /\ rev = 0
    /\ pc' = IF indexWifi # 0 THEN "prepare" ELSE "done"
    /\ UNCHANGED <<i, rev, indexWifi, rollback, ret, stuck>>
    /\ setUnchanged /\ wifiUnchanged

------------------------------------------------------------------------------
(***************************************************************************)
(* setAtomicParamValues on the WiFi group                                  *)
(***************************************************************************)

\* Preparing the values may fail.
PrepareWifi ==
    /\ pc = "prepare"
    /\ \/ /\ unmarked' = radios
          /\ pc' = "mark"
          /\ UNCHANGED <<rev, ret>>
       \/ /\ ret' = "FAILURE"
          /\ rev' = LastSet
          /\ pc' = "undo"
          /\ UNCHANGED unmarked
    /\ UNCHANGED <<store, n, order, radios, hasId, before, i, indexWifi, rollback,
                   stuck>>
    /\ wifiUnchanged

\* The radio of one parameter is marked; several may be of the same radio.
MarkRadio ==
    /\ pc = "mark"
    /\ \E r \in radios :
          /\ bRestartRadio' = [bRestartRadio EXCEPT ![r] = TRUE]
          /\ unmarked' = unmarked \ {r}
    /\ UNCHANGED <<store, pc, n, order, radios, hasId, before, i, rev, indexWifi,
                   rollback, ret, stuck, bRadioRestartEn, current_transaction_id,
                   applyVars, pending, accepted>>

\* Mutant: bRadioRestartEn is not turned on.
RestartOff == FALSE

RestartOn == TRUE

EnableRestart ==
    /\ pc = "mark"
    /\ unmarked = {}
    /\ bRadioRestartEn' = RestartOn
    /\ pc' = "call"
    /\ UNCHANGED <<i, rev, indexWifi, rollback, ret, stuck, bRestartRadio,
                   current_transaction_id, applyVars, pending, accepted>>
    /\ setUnchanged

SetWifi ==
    /\ pc = "call"
    /\ store' = [store EXCEPT ![Wifi] = n]
    /\ ret' = "SUCCESS"
    /\ pending' = pending \cup radios
    /\ accepted' = accepted \cup {n}
    /\ pc' = "copyid"
    /\ UNCHANGED <<n, order, radios, unmarked, hasId, before, i, rev, indexWifi,
                   rollback, stuck, flagVars, applyVars>>

\* Mutant: the task is signalled when the set failed, too.
SignalsAnyway == "copyid"

\* Mutant: the failed set of the WiFi group ends the request.
EndsAtOnce == "done"

AfterFailure == "undo"

\* The marks and bRadioRestartEn stay as they are.
SetWifiFails ==
    /\ pc = "call"
    /\ ret' = "FAILURE"
    /\ rev' = LastSet
    /\ pc' = AfterFailure
    /\ UNCHANGED <<i, indexWifi, rollback, stuck>>
    /\ setUnchanged /\ wifiUnchanged

TransactionId == IF hasId THEN n ELSE 0

CopyTransactionId ==
    /\ pc = "copyid"
    /\ current_transaction_id' = TransactionId
    /\ pc' = "signal"
    /\ UNCHANGED <<i, rev, indexWifi, rollback, ret, stuck, bRadioRestartEn,
                   bRestartRadio, applyVars, pending, accepted>>
    /\ setUnchanged

\* pthread_cond_signal: lost unless the task is waiting.
SignalTask ==
    /\ pc = "signal"
    /\ apc' = IF apc = "wait" THEN "woken" ELSE apc
    /\ pc' = "done"
    /\ UNCHANGED <<i, rev, indexWifi, rollback, ret, stuck, flagVars, target,
                   applySettingsFlag, notified, pending, accepted>>
    /\ setUnchanged

UndoEnds ==
    /\ pc = "undo"
    /\ rev = 0
    /\ pc' = "done"
    /\ UNCHANGED <<i, rev, indexWifi, rollback, ret, stuck>>
    /\ setUnchanged /\ wifiUnchanged

\* mapStatus is reported for every parameter and the request is over.
Report ==
    /\ pc = "done"
    /\ pc' = "idle"
    /\ UNCHANGED <<i, rev, indexWifi, rollback, ret, stuck>>
    /\ setUnchanged /\ wifiUnchanged

------------------------------------------------------------------------------
(***************************************************************************)
(* applyWiFiSettingsTask                                                   *)
(***************************************************************************)
taskUnchanged == UNCHANGED <<store, setVars, pending, accepted>>

\* The thread ends at once when the component cache has no entry 0.
Begin ==
    /\ apc = "begin"
    /\ apc' = IF WifiCached THEN "wait" ELSE "ended"
    /\ UNCHANGED <<target, applySettingsFlag, notified, flagVars>>
    /\ taskUnchanged

SpuriousWakeup ==
    /\ Spurious
    /\ apc = "wait"
    /\ apc' = "woken"
    /\ UNCHANGED <<target, applySettingsFlag, notified, flagVars>>
    /\ taskUnchanged

SetBusy ==
    /\ apc = "woken"
    /\ applySettingsFlag' = TRUE
    /\ apc' = "test"
    /\ UNCHANGED <<target, notified, flagVars>>
    /\ taskUnchanged

\* Without bRadioRestartEn the task waits again, still busy.
TestRestart ==
    /\ apc = "test"
    /\ bRadioRestartEn' = FALSE
    /\ apc' = IF bRadioRestartEn THEN "choose" ELSE "wait"
    /\ UNCHANGED <<target, applySettingsFlag, notified, bRestartRadio,
                   current_transaction_id>>
    /\ taskUnchanged

\* Mutant: with several radios marked only one is restarted.
OneMarked == IF \A r \in Radios : bRestartRadio[r]
             THEN {CHOOSE r \in Radios : TRUE}
             ELSE {r \in Radios : bRestartRadio[r]}

Marked == {r \in Radios : bRestartRadio[r]}

\* RadApplyParam and nreq keep their values when no radio is marked.
ChooseRadios ==
    /\ apc = "choose"
    /\ target' = IF Marked = {} THEN target ELSE Marked
    /\ apc' = "reset"
    /\ UNCHANGED <<applySettingsFlag, notified, flagVars>>
    /\ taskUnchanged

ResetRadioFlags ==
    /\ apc = "reset"
    /\ bRestartRadio' = [r \in Radios |-> FALSE]
    /\ apc' = "call"
    /\ UNCHANGED <<target, applySettingsFlag, notified, bRadioRestartEn,
                   current_transaction_id>>
    /\ taskUnchanged

\* The result of the call is only logged.
ApplySettings ==
    /\ apc = "call"
    /\ pending' = pending \ target
    /\ apc' = "notify"
    /\ UNCHANGED <<store, setVars, accepted, target, applySettingsFlag, notified,
                   flagVars>>

\* Read while it is copied, the id is the old one, the new one or a mixture.
IdsRead ==
    IF pc = "copyid" THEN {current_transaction_id, TransactionId, TornId}
    ELSE {current_transaction_id}

send_transaction_Notify ==
    /\ apc = "notify"
    /\ \E id \in IdsRead :
          notified' = IF id = 0 THEN notified ELSE notified \cup {id}
    /\ apc' = "clear"
    /\ UNCHANGED <<target, applySettingsFlag, flagVars>>
    /\ taskUnchanged

ClearBusy ==
    /\ apc = "clear"
    /\ applySettingsFlag' = FALSE
    /\ apc' = "wait"
    /\ UNCHANGED <<target, notified, flagVars>>
    /\ taskUnchanged

------------------------------------------------------------------------------
ServeRequest ==
    \/ CacheGroup \/ CacheEnds
    \/ RefuseWifi \/ PutOffWifi \/ SetGroup \/ SetGroupFails
    \/ RestoreGroup \/ SkipWifi \/ GroupsEnd
    \/ PrepareWifi \/ MarkRadio \/ EnableRestart \/ SetWifi \/ SetWifiFails
    \/ CopyTransactionId \/ SignalTask \/ UndoEnds \/ Report

applyWiFiSettingsTask ==
    \/ Begin \/ SetBusy \/ TestRestart \/ ChooseRadios \/ ResetRadioFlags
    \/ ApplySettings \/ send_transaction_Notify \/ ClearBusy

Next == setValues \/ ServeRequest \/ applyWiFiSettingsTask \/ SpuriousWakeup

Spec == Init /\ [][Next]_vars

\* Each of the two threads goes on; requests need not arrive.
FairSpec == Spec /\ WF_vars(ServeRequest) /\ WF_vars(applyWiFiSettingsTask)

------------------------------------------------------------------------------
(***************************************************************************)
(* Properties                                                              *)
(***************************************************************************)
Groups == {order[k] : k \in DOMAIN order}

\* A SET is atomic over several components, though each is set by a call of
\* its own: it is reported as a success only when every component of the
\* request has its values, and after a failure every component has the values
\* it had, unless restoring it failed too.  A refused WiFi group is not set.
SetIsAtomic ==
    pc = "done" =>
        /\ ret = "SUCCESS" => \A c \in Groups : store[c] = n
        /\ ret = "FAILURE" => \A c \in Components \ stuck : store[c] = before[c]
        /\ ret = "WIFI_BUSY" => store[Wifi] = before[Wifi]

\* setValues implements a SET in which every request is one step: while a request
\* is served the components count as having the values they had, so whatever the
\* order of the groups, the failures and the two rollbacks, its end is a success
\* of all its components, a failure that leaves none, but those that could not be
\* restored, or a refusal; and a component that is not in the request is never
\* touched.
Set == INSTANCE AtomicSet WITH
    values  <- IF pc \in {"idle", "done"} THEN store ELSE before,
    request <- n,
    groups  <- IF pc = "idle" THEN {} ELSE Groups,
    result  <- IF pc = "done" THEN ret ELSE "none",
    stuck   <- IF pc = "done" /\ ret = "FAILURE" THEN stuck ELSE {}
ImplementsAtomicSet == Set!Spec

\* The WiFi values, for which no rollback exists, are only set when all the
\* other components of the request already have theirs.
WifiSetLast ==
    [][store'[Wifi] # store[Wifi] =>
          \A c \in Groups \ {Wifi} : store[c] = n]_vars

\* The server is told of the end of a transaction only if the WiFi set of that
\* transaction had succeeded, whatever the task and the next request do.  (An id
\* that was read while the next one was copied is of no transaction.)
NotifiedWereAccepted == notified \ {TornId} \subseteq accepted

\* When the task is waiting at the signal and both flags are still there for it,
\* a radio of the request is restarted after the set.  (Without the condition on
\* the mark the property fails: a task that was late may reset a mark, set since
\* it chose its radios, that it never acted upon.)
SignalledRadiosRestart ==
    \A r \in Radios :
        (/\ pc = "signal" /\ apc = "wait" /\ r \in radios
         /\ bRadioRestartEn /\ bRestartRadio[r]) ~> (r \notin pending)

\* The task waits with applySettingsFlag left on, so that every later WiFi
\* request is refused, only after two WiFi sets: the task, late for the first
\* signal, served both, and the second signal found nothing to do.
IdleBusyNeedsOverlap ==
    applySettingsFlag /\ apc = "wait" => \E x, y \in accepted : x # y

\* "Rollback data in failure case" (wal.c): whatever the failure, no component
\* keeps values of the request, unless restoring it failed.  A request refused
\* because WiFi is busy keeps the values of the groups before the WiFi group.
RollbackOnFailure ==
    pc = "done" /\ ret # "SUCCESS" =>
        \A c \in Components \ stuck : store[c] = before[c]

\* "Identify the radio and apply settings" (wal.c): a radio whose settings were
\* set with success is restarted.  The signal is lost while the task is busy or
\* has not begun to wait.
ChangeIsApplied == \A r \in Radios : r \in pending ~> r \notin pending
==============================================================================
