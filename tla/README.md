# A TLA+ verification of rdkb-webpa-broadband

`rdkb-webpa-broadband` is the part of RDK-B's WebPA that runs on the gateway. webpacore,
which talks to the cloud, hands it requests to get and set TR-181 parameters, their
attributes and the rows of tables; it finds the CCSP components that own the parameters
and calls them over the message bus. It also lets embedded IoT clients register over
SunRPC, sends them messages, and passes notifications back to webpacore.

This directory holds TLA+ models of it, TLC runs that check them on small instances, and
proofs for TLAPS that hold for every instance. The source is the reference everywhere;
`PROJECT.json` names the lines each definition stands for.

    tlc -workers 2 -config SetValues.cfg MCSetValues     # one run
    tlapm SetValues_proofs.tla                           # the proofs of one module

## 1. The system

WAL is `src/wal/wal.c`, CC `src/app/webpa_client_connector.c`, RPC `src/app/webpa_rpc.c`,
DML `src/wal/cosa_Webpa_dml.c`, ACT `src/wal/ssp_action.c`, SSP `src/wal/ssp_main.c`, MBI
`src/wal/ssp_messagebus_interface.c`.

| Component | State it keeps | Operations | What makes it correct | Model |
|---|---|---|---|---|
| IoT client connector (CC, RPC) | `clients[]`, the `WebPA_Client` structures (`is_dead`, queue), `msgStatus`; the locks `mutex`, `msgStatusMutex` and one in each structure, two condition variables | `webpa_register_1_svc`, `WebPA_ServiceClient` (a thread for each client), `DispatchMessage`, `EnqueueMessage`, `sendIoTMessage` | a key is registered once; no structure is used after `free`; the table does not change under an enumeration; messages in order; a success is not invented; calls return | `ClientConnector`, `ClientRegistry` |
| Atomic SET and WiFi apply-settings thread (WAL) | six globals shared without a lock: `bRadioRestartEn`, `bRestartRadio1/2`, `applySettingsFlag`, `current_transaction_id`, the condition variable | `setValues`, `setAtomicParamValues`, `identifyRadioIndexToReset`, `applyWiFiSettingsTask`, `send_transaction_Notify` | all components of a request or none; WiFi last; only accepted transactions are notified; a changed radio is restarted | `SetValues`, `AtomicSet` |
| Table requests (WAL) | none between requests; the table is another component's | `addRowTable`, `deleteRowTable`, `replaceTable` | a failure restores the rows; a success leaves just the new ones; a crash mixes nothing | `TableRequests` |
| Index mapping (WAL) | the constant `IndexMap` | `IndexMpa_WEBPAtoCPE`, `IndexMpa_CPEtoWEBPA` | a name leads back to itself, or nowhere | `IndexMap`, `NameMapping` |
| Component cache and grouping (WAL) | `ComponentValArray`, `SubComponentValArray`, filled once by `WALInit` | `WALInit`, `getComponentDetails`, `getComponentInfoFromCache`, `prepareParamGroups` | a name leads to its owners, whichever discoveries failed; groups are a partition | `ComponentLookup` |
| GET of values and attributes, SET of attributes (WAL) | none | `getValues`, `getAttributes`, `setAttributes` | every parameter below a name is returned once; attributes are set by the component that has them | `GetRequests`, `AttributeRequests` |
| Configuration file (DML, `scripts/webpa.sh`) | `/nvram/webpa_cfg.json` and a temporary copy | `Webpa_DmlDiSetWebPACfg` (sed, rm, cp, rm), `Webpa_DmlDiGetWebPACfg`, the restore in `webpa.sh` | a crash leaves the old file, the new one, or none; a start always follows | `ConfigFile`, `ConfigStore` |
| syscfg parameters (DML) | syscfg's memory and flash | `Webpa_Set/GetParamStringValue`, `Webpa_Set/GetParamUlongValue` | a get returns what was set last, across a reboot | `SyscfgParameters` |
| Notifications (WAL, DML) | `notifyCbFn` and the copy in DML | `RegisterNotifyCB`, `ccspWebPaValueChangedCB`, `sendIoTNotification`, three parameters of `Webpa_SetParamStringValue` | each is passed on once, in order, its fields in place | `Notifications` |
| SSP life cycle (SSP, ACT, MBI, `src/wal/plugin_main.c`, `src/app/main.c`) | the component's four objects, its health, its registration | `daemonize`, `ssp_Mbi_MessageBusEngage`, `ssp_create`, `ssp_engage`, `ssp_cancel`, `msgBusInit` | no object is used before it is made or after it is freed; green means registered | `LifeCycle` |
| Start-up and readiness (WAL) | none | two polling loops | | not modelled |

How they interact. `main` starts the bus, the RPC server (`WebpaRpcInit`, a thread in
`svc_run`) and webpacore's socket. webpacore calls `getValues`, `setValues`,
`replaceTable` and so on from one thread, one request at a time; they call the components
over the CCSP bus, and a call either returns or fails. `WALInit` has filled the component
cache before and starts the apply-settings thread at its end. Threads of webpacore call
`sendIoTMessage`, any number at once. Messages from IoT clients and value changes come in
on threads of the RPC server and of the bus and go to webpacore through `notifyCbFn`.
WebPA is itself a component of the bus: others get and set its own parameters (DML), on
the thread of the bus library, and that thread may ask it to free its resources while the
main thread is still starting it.

What is hard here: the three kinds of lock of the connector and threads that join others
while others wait for them; a condition variable without a predicate, twice (the worker's
queue, the apply-settings task); one global status for all messages; a set over several
components that must be undone when one refuses, except WiFi, which cannot; a table that
is deleted before it is known that it can be written; caches whose indices shift when a
discovery fails; a file that is removed before it is written again; a component whose bus
callbacks are set before its objects exist. `PROJECT.json` lists these hazards at their lines, with the properties
that would catch them.

## 2. The modules

### ClientConnector

| Variables | Code |
|---|---|
| `clients`, `reg`, `isDead`, `queue` | `clients[]` and the fields of the structures; a structure is an address, reused after `free` |
| `mutex`, `msgStatusMutex`, `cmutex` | owners of the locks |
| `wpc`, `st` | the worker of each structure: where it is, and its local `st`; `"free"` when there is no structure |
| `spc`, `pos`, `cur`, `ret`, `msg`, `succeeded` | a sender: where it is, `i`, the client it found, `ret`, its message, whether its last call returned `WAL_SUCCESS` |
| `rpc`, `req`, `rpos`, `rcur`, `dead` | the RPC server thread in `webpa_register_1_svc`; `dead` is `dead_clients[]` |
| `fresh`, `lastSent` | ghosts |

Every point where a thread may block (a lock that is held, a wait, an RPC, a join) is a
step of its own. A critical section that takes no other lock and does not block is one
step: nobody can see inside. The three timed waits may time out at any moment. An RPC to a
client succeeds, fails, or fails although the message has arrived. Besides, `malloc` of a
queue item or of a client may fail, `clnt_create` may fail, and with `Spurious` a wait may
end for no reason.

`WebPA_Client_Destroy` does not look at the queue: what is queued is lost (`Shutdown`).
Not modelled: `pthread_create` failing (the next registration would join a thread that
does not exist, which POSIX leaves undefined), `webpa_send_message_1_svc`, which only
calls a callback, and a client that registers without a topic: its `topic` is `NULL`
(CC:400-403), and the next message with a topic would have `strcmp` read it (CC:269).
Assumed: every client registers with a topic.

`ClientRegistry` is what the table promises without threads: slots that are empty or given
to a key, the first empty slot for a key that has none, and slots given up at any time.
`ImplementsRegistry` says that the connector implements it, a slot being mapped to the key
of the structure in it.

### SetValues

`setValues` and `applyWiFiSettingsTask` run side by side. One step is one access to the
shared globals or one call of a component: `pc` walks through reading the values for the
rollback (`"cache"`), the loop over the groups (`"set"`, `"rollback"`), the WiFi group
(`"prepare"`, `"mark"`, `"call"`, `"copyid"`, `"signal"`) and its undoing (`"undo"`); `apc`
is the task. `store` is what the components hold, named by the request whose values they
have; a call sets all values of one component or none, which is what the code relies on
CCSP for. The radio of each WiFi parameter is marked by a step of its own
(`identifyRadioIndexToReset`), and the transaction id, read while it is copied, may be a
mixture of two ids (`TornId`). Requests come one after the other.

`AtomicSet` is what a SET promises: each request is one step, from the old values to the new
of all its components or of none, save a component whose restoring failed, and the
components besides WiFi when WiFi was busy. `ImplementsAtomicSet` maps a request under way
to the values it began with until its end.

Left out: `getParamValues`, `setParamValues` and the other functions nobody calls, the
checks of the parameters' types, and what the status of a parameter is mapped to.

### TableRequests, IndexMap and NameMapping

`table` is the component's table, in the order of its row numbers; a row's data is one
datum, and an empty row has `Blank`. Actions are the calls of the component: `addRow`,
`updateRow`, the deletion that reverts a row, the loops of `deleteAllTableData`,
`addNewData` and `addCachedData`. Every call may fail; the ghost `faulty` remembers which
kinds did, so that a property can say what a failure of one kind may do. A row is deleted by
its number (`WithoutRow`), and the numbers the component gives grow. Names are mapped
by `IndexMap`, which has the code's table of instance numbers and both directions of the
search. A crash needs no action: nothing of a request survives it, so what it leaves is what
the table holds at that step, and `CrashLeavesParts` is about every step.

`NameMapping` has the other users of the mapping, which keep no state: a GET maps the name it
asks for and maps back the names and values of the answer; a SET maps names and not values,
so a rollback writes back a reference in the server's numbers. It extends `GetRequests`, as
requests are served once `WALInit` has filled the caches. Its operators are checked
over names of every row of the map and of none, and proved for all numbers.

Assumed: the table belongs to one component. The discovery before each call counts the
components; when it succeeds with none or several, `addRow`, `deleteRow` and `cacheTableData`
make no call and return the discovery's success (WAL:3109-3120, 3265-3276, 3414, 3463-3468),
so a request would be said to have been done; a discovery that fails is a failing call. Also
assumed: reading the table returns all its rows or fails; the rollback data of a row is
complete (the code caches writable parameters, and drops Alias); nobody else changes the
table during a request. The rows of `Device.WiFi.Radio`, `.SSID` and `.AccessPoint`
themselves are not used as a table, only tables below an instance. The device uses instance
numbers below 10000, as `MappingAssumption` says.

### ComponentLookup

`owner` is any assignment of parameters to components, `WALInit` the loops over the
objects and sub-objects with retries, and the look-up and the grouping are operators over
the two caches, with their indices as the code computes them: `comp_id` is an index of the
array it is in, and `CompSize` reads it in the array of objects even when it is one of the
other array. The first loop's bound is the literal 3 in the code and
`WAL_COMPONENT_INIT_RETRY_COUNT - 1` in the second, the same number. The loops of the
grouping and of a GET are recursive functions of the number of rounds. The names of the
properties (`Names`) are those with a parameter below them.

### GetRequests and AttributeRequests

`getValues` and `getAttributes` keep no state, so they are operators over the groups that
`ComponentLookup` makes of a request: a component answers with its parameters below the
names it is asked for, the answer is stored at the running index, and the index moves on,
by the values of the answer in `getValues` and by the names asked for in `getAttributes`.
`failing` is the group at which the loop stops: one whose component fails, or WiFi's while
`applySettingsFlag` is set. Times are left out.

`setAttributes` makes one call, to the component of the first name. It goes through the
names before, and registers for an event at each that asks for notifications, until one is
refused: its component is unknown or another, or its name cannot be mapped.

### ConfigFile and ConfigStore

One step is one command that `system()` runs, or one line of `webpa.sh`; a file is the
function of its lines. `cp` is two steps, creating the file and filling it. `reliable` is
chosen at the start of a behaviour: either the commands succeed, or each may fail at any
time, as `sed` does for want of room and on a value with its delimiter `/`. A crash of
the process may come between any two commands, a reboot anywhere; the script runs next.
`ConfigStore` is the promise: a parameter is written in one step, a crash keeps the contents
or loses them all, lost contents come back as the factory's before the next start, and only
unreliable commands lose them while WebPA runs.

Assumed: calls come one at a time, on the bus library's thread; `cp` writes this small file
in one write, a command fits the 128 bytes of its buffer (DML:832, 844), and directory
operations become durable in their order; a command of a crashed process completes; `/tmp`
does not survive a reboot; values have no `&` and no `\`, which `sed` would interpret;
`EnablePa`, which no call sets, is true in the factory's file, and `/nvram/disablewebpa` does
not exist.

### SyscfgParameters

`memory` and `flash` are syscfg's two levels; a set changes the first and then commits. Texts
are their contents and length, and what a buffer cannot hold is cut off; CMC is a number, cut
to the leading digits its buffer holds. A failing set is reported, except that of the
protocol version; a failing commit is only logged. `told` is the ghost: what a caller may
expect of each parameter. Assumed: the parameters have an initial value, and a number is
below 2^31.

### Notifications

A field is a sequence of words and commas, and the string of a request joins its fields with
commas; the calls of `strtok_r` take it apart again, each from where the one before ended and
passing over what is empty. The two copies of the
callback's address are two variables: DML reads it before each use. Assumed: memory is
available, and an event has one changed parameter that matters (only the first is passed on,
WAL:1118). Both builds, with and without `USE_NOTIFY_COMPONENT`, are in one module.

### LifeCycle

`mpc` is the main thread, from `daemonize` to the RPC server, `bpc` the bus library's thread
in `ssp_cancel`; a step reads or writes one of the four pointers, or makes one call. A pointer
is null, live or freed: using a null one ends the process (`sig_handler`), using a freed one
may, or may not. `bus` tells a `bus_handle` whose callbacks are registered from one whose
`CCSP_Message_Bus_Register_Path` failed, with which the component can still register.
Allocations, the connection and the registration may fail, a signal may
end the process at any step. The build is the one without breakpad, and `touch` succeeds.
Left out: the interactive commands of `cmd_dispatch`, which a daemon never reads, and
`plugin_main.c`, which hands function addresses to the data-model library. The functions of
`ssp_CcdIf` (ACT:235-320) are left out, too: they read and set fields of the common object
through its pointer without looking at it. The library has them from the controller's
`AddInterface` (ACT:158), and whether it still calls them once `ssp_cancel` has cancelled
the controller and cleared the pointer is for the library to say: `FaultNeedsOverlap` is
about `ssp_create`, `ssp_engage` and `ssp_cancel` only.

## 3. The runs

| Run | Question | Bounds |
|---|---|---|
| `connector_safety` | the table, the pointers, the queues and the status, and that a lock cycle never resolves | 2 senders, 2 structures, 2 keys, 2 slots, 2 sends, 3 registrations |
| `connector_liveness` | can anything but the lock cycle keep a registration or a sender? | 1 sender, 1 key, 2 structures, 2 sends, 3 registrations, spurious wakeups |
| `connector_lost_wakeup` | fails: a queued message may stay | 1 sender, 1 send |
| `set_values` | is a SET atomic, WiFi last, and are only accepted transactions notified? does it implement `AtomicSet`? | 3 components, 2 radios, up to 3 groups, 2 requests, spurious wakeups |
| `set_applied` | is a radio restarted when the signal finds the task? when is the task left busy? | 2 components, 2 radios, up to 2 groups, 2 requests |
| `table_requests` | is a failed request undone, does a replacement leave the new rows, what does a crash leave? | tables of up to 3 rows of 2 data, lists of up to 3, one request |
| `table_wifi` | fails: a WiFi instance's table is emptied | the same |
| `component_lookup` | do names lead to their owners, are groups a partition, does a GET return every value once, who sets attributes, does `WALInit` end? and do names lead back through the mapping? | 2 objects, 2 sub-objects, 5 parameters, 3 components, 3 tries; names of 3 objects, the server's numbers of every row and 2 others, the device's from 1 to 17 |
| `config_file` | do the commands implement the store? does WebPA always start again? | 2 parameters, 3 values, 3 crashes or reboots |
| `syscfg` | does a get return what was set? | 3 parameters, 2 values each at or below the size of their buffer, 2 crashes or reboots |
| `notifications` | is the server told of everything, in order, in the right fields? | 2 calls of any of 5 kinds, 4 values of 0, 1 and 2 words |
| `life_cycle` | when is a pointer misused? does a cancel undo a start? | 3 callbacks |

Seven more configurations are counterexamples to run by hand, one for each further
disagreement of section 4: `ConnectorShutdown` (module `MCClientConnector`), `SetRollback` and
`SetLostSignal` (`MCSetValues`), `ComponentCacheWiFi` (`MCComponentLookup`), `CreateFails` and
`InitializedFile` (`LifeCycle`), `NotificationLost` (`MCNotifications`). TLC finds the
property of each violated. The properties of types that the proofs cover (`SetValues`,
`LifeCycle`) are not run again.

Why they are enough. *Connector:* two senders share the status and race for the locks; two
keys in two slots and two structures give a lock cycle with another client than the one
that is joined, reuse of a freed structure, a full table, and a client that moves to
another slot; three registrations let one client register, another register and the first
return. Threads, structures and keys are interchangeable (symmetry), except in the runs
with liveness. `connector_safety` has no spurious wakeups because a sender that wakes for
no reason returns the status of an older message, which is the exception `FreshStatus`
makes; the proofs are for spurious wakeups as well. *SET:* three
components are the least for a WiFi group before, between and after others with two to be
restored; two requests are the least for a task that is late for the first. *Tables:* only
the table survives a request, so one request on any table stands for any number; an
initial table may hold empty rows, which an earlier request can leave. With three rows a
failure comes after none, one or two others. *Lookup:* an object with one and one with several
components, both with and without sub-objects, are among the assignments; pairs of names
are enough since grouping adds one name at a time. Three tries stand for four.
*Configuration:* two parameters tell the one that is set from one that must stay, and a set, a
later get and a crash in each need no more than three crashes. *syscfg:* each value is at or
below the limit of its buffer; the digits of a longer CMC are section 4's. *Notifications:*
no state but the callback's address survives a call, and two calls show an order and a call
before and after the registration. *Life cycle:* the main thread's part is short and complete;
three callbacks are one during the start, one after it and one more after a cancel.
`CHECK_DEADLOCK FALSE` is there because the bounds on calls and requests end every
behaviour, and because a lock cycle does stop the connector.

What they show. Properties are stated, with the code they are about, at the end of each
module. Some need a word:

* `RegistrationCompletes` and `SenderReturns` have the disjunct `LockCycle`, and
  `LockCycleIsPermanent` says that this is a deadlock. So the cycle is the only way to be
  kept for ever.
* `SignalledRadiosRestart` asks that the flags be in place when the signal finds the task.
  Without that the property fails: a task that was late may wipe a mark it has not acted on
  (WAL:2016). `IdleBusyNeedsOverlap` says that the task is left waiting with
  `applySettingsFlag` on, after which every WiFi request is refused, only if two accepted
  requests have overlapped.
* `FailureRestores`, `FailureKeepsRows` are about names that may be mapped twice
  (`MapsTwice`); the others are the finding of `table_wifi`. `LookupFindsOwners` is about
  caches whose sub-objects have one owner (`OneOwner`) and fails without: only the first
  component is cached, and the size that would tell is read in the wrong array.
* `SuccessfulSetIsStored` and `StartsAgain` are for reliable commands. Without, a set may empty
  the file and be reported as a success, and `ImplementsStore` and `GetReturnsStored` are what
  still holds: nothing is ever mixed, and a get never returns anything but the file's value.
* `ServerIsTold` is about values without commas, which the format cannot carry (DML:191), and
  leaves out changes from or to an empty value, which the code drops.
* `FaultNeedsOverlap` and `CancelUndoesStart` say that the life cycle is right unless a
  callback comes during the start (MBI:107) or an allocation fails: then pointers are misused.
* `ServerSeesNoChange` compares what the server reads. The component itself may have been
  left with a name in the server's numbers, as section 4 says.
* `GetReturnsAttributes` is about names of parameters. For names of objects attributes are
  lost: the answer of a second component is written over that of the first (WAL:734).

### Fairness

*Connector:* strong fairness of the steps of each thread. A thread is in one place at a
time, so this says that it is scheduled, that its timed waits and its RPCs end (both have
a timeout), and that it gets a lock that becomes free again and again. The last is more
than POSIX says and what its implementations do; every worker leaves its mutex free
throughout each one-second wait. Nothing makes a caller call, a client register, or a wait
end spuriously. *SET:* weak fairness of each of the two threads; calls of components have
a timeout. No request need arrive. *Lookup:* `WALInit` goes on.
*Configuration file:* weak fairness of the script and of the steps of a call that has begun;
no call need come, and no crash.

## 4. Where code and comments disagree

Two runs end in a counterexample that refutes what a comment of the code says:

1. `connector_lost_wakeup`: a worker looks at its queue only after a signal, which is lost
   while it connects, sends or pings; the message stays (CC:484).
2. `table_wifi`: `replaceTable` maps the name and `addRowTable` maps it again: a table of a
   WiFi instance is emptied and neither new nor old rows can be added (WAL:3350).

TLC finds these as well, with the configurations that are run by hand:

3. `ConnectorShutdown`, `JoinedWorkersCanExit`: "those thread will need to acquire this mutex in
   order to remove themselves" (CC:630-633). A sender holds `msgStatusMutex` and `mutex` and
   waits for a client's mutex; that client's worker holds it and waits for `msgStatusMutex`
   (CC:511). A registration that joins another client's worker waits with them.
4. `SetRollback`, `RollbackOnFailure`: "Rollback data in failure case" (WAL:924). A request
   refused with `CCSP_ERR_WIFI_BUSY` is not rolled back (WAL:899).
5. `SetLostSignal`, `ChangeIsApplied`: "Identify the radio and apply settings" (WAL:1981). The
   task waits without looking at `bRadioRestartEn`, and nobody holds the mutex: a signal is
   lost and the radio is not restarted (WAL:1696).
6. `ComponentCacheWiFi`, `CacheStartsWithWiFi`: "Component cache index 0 maps to "Device.WiFi.""
   (WAL:1973). When WiFi is not found at start, entry 0 of the cache is another component's,
   which then gets the apply-settings calls (WAL:2868).
7. `CreateFails`, `FailedCreateExits`: "CANNOT Create pDslhCpeController... Exit!" (ACT:135).
   `cmd_dispatch` ignores the result of `ssp_create` (SSP:89) and engages the component, which
   calls through the null pointer (ACT:156).
8. `InitializedFile`, `InitializedHadRegistered`: "System is fully initialized" (ACT:185) is said
   of a component that registered. `/tmp/webpa_initialized` is written when the registration
   failed, too (SSP:146).
9. `NotificationLost`, `TrueIfSucceeded`: "return: TRUE if succeeded." (DML:80). A change from or
   to an empty value has four tokens, is dropped (DML:194), and TRUE is returned.

And the models show by their conditions alone:

10. "function to set Webpa config parameter values in nvram config json" (DML:823): a value with
    a `/`, such as the URL of ServerURL, ends sed's expression (DML:844). sed fails after the
    shell has emptied the temporary file, which replaces `WEBPA_CFG`, and `WAL_SUCCESS` is
    returned; every parameter is lost until the next start. In `ConfigFile` this is `~reliable`.
11. "check the parameter name and set the corresponding value" (DML:658): a CMC of ten million or
    more is cut to seven digits by the buffer of 8 bytes (DML:665), and TRUE is returned.
12. The rollback of a reference: its value was read through `getAtomicParamValues`, which maps
    it to the server's numbers (WAL:1411), and is written back as it is: `Device.WiFi.SSID.1.`
    comes back as `Device.WiFi.SSID.10001.`, an instance the device does not have.

Seen while modelling, and not stated against by any document: `sendIoTMessage` may return
the status of another sender's message or of its own earlier one; a message queued for a
client that goes away is lost; a transaction is notified although the apply call failed,
or not at all when the next request overwrites its id; with several matching clients the
status is that of the last; a SET of attributes that is refused leaves events registered;
a table request reports success without a call when discovery succeeds with no component or
several.

## 5. The proofs

TLAPS proves, for any numbers of threads, structures, keys, slots, components, radios,
groups, requests, parameters, values, rows, calls, crashes and callbacks, from the named assumptions
on the constants only (`ConnectorAssumption`, `SetAssumption`, `ConfigAssumption`,
`LifeCycleAssumption`, `MappingAssumption`, `TableAssumption`, `SyscfgAssumption`,
`LookupAssumption`, `NotifyAssumption`: bounds are numbers, null values are none of the things
they stand beside, the factory's file has every parameter, a device's instance number is not
zero and below 10000, an added row is blank until it is set, there are finitely many
parameters, a write id has no comma). Three
theorems have a hypothesis besides: `StatusIsFresh` and `BusyNeedsOverlap` that a wait does not
end for no reason (`Spurious = FALSE`; a spurious wakeup does return the status of an older
message, and does leave the task busy), and the one of
`SyscfgParameters` that values fit their buffers (`ValuesFit`; one that does not is cut off,
section 4).

| Theorem | Of |
|---|---|
| `ClientConnector_proofs` `TypeCorrect`, `RegistrationUnique`, `NoUseAfterFree` | `TypeOK`, `UniqueRegistration`, `NoDanglingPointer` |
| `DeliveryIsFifo` | `FifoDelivery` |
| `StatusIsFresh` | the action property `FreshStatus` |
| `ListStable`, `LockCycleStays` | the action properties `ListStableWhileEnumerated`, `LockCycleIsPermanent` |
| `RegistryImplemented` | `ImplementsRegistry`, the refinement |
| `SetValues_proofs` `TypeCorrect`, `SetAtomic`, `WifiIsLast`, `NotifiedAccepted` | `TypeOK`, `SetIsAtomic`, `WifiSetLast`, `NotifiedWereAccepted` |
| `BusyNeedsOverlap` | `IdleBusyNeedsOverlap` |
| `AtomicSetImplemented` | `ImplementsAtomicSet`, the refinement |
| `TableRequests_proofs` `TypeCorrect`, `SuccessMeansReplaced`, `FailureMeansRestored`, `FailureLosesNoRow`, `CrashLeavesOnlyParts` | `TypeOK`, `SuccessReplaces`, `FailureRestores`, `FailureKeepsRows`, `CrashLeavesParts` |
| `ComponentLookup_proofs` `CachesCorrect`, `LookupRight`, `GroupsRight` | `CacheInv`, `LookupFindsOwners`, `GroupsArePartition` |
| `GetCompletes`, `GetAttributesReturned`, `AttributesSetAtOwner` | `GetReturnsAll`, `GetReturnsAttributes`, `AttributesReachOwner` |
| `AnswerNamed`, `ReturnedLeadsBack`, `RollbackUnseen` | `AnswerIsNamed`, `ReturnedNameLeadsBack`, `ServerSeesNoChange` |
| `ConfigFile_proofs` `TypeCorrect`, `GetCorrect`, `SetCorrect` | `TypeOK`, `GetReturnsStored`, `SuccessfulSetIsStored` |
| `StoreImplemented` | `ImplementsStore`, the refinement |
| `SyscfgParameters_proofs` `GetCorrect` | `GetReturnsWhatWasSet` |
| `LifeCycle_proofs` `TypeCorrect`, `FaultsExplained`, `HealthCorrect`, `CancelCorrect` | `TypeOK`, `FaultNeedsOverlap`, `GreenIsRegistered`, `CancelUndoesStart` |
| `Notifications_proofs` `ServerTold` | `ServerIsTold` |

*Connector.* None of the invariants is inductive alone. `UniqueRegistration` is kept by
`PlaceClient` only because, at that point, no entry of the table has the key of the request:
those there were have been collected while the table's mutex was held, and joined, and
nobody else adds entries. `NoDanglingPointer` rests on the table's mutex: whoever has a
pointer took it from the table and still holds that mutex, and a worker needs it to free
its structure. So the invariant has the types, a part about the table (a structure in a
slot is in one slot only and has a worker; what the server thread has passed over in its
scan is marked or has another key; what it is to join) and a part about the locks (which
places of a thread mean that it holds which lock). The refinement then has one interesting
case for each of `PlaceClient` and `Shutdown`, and every other step stutters.

`DeliveryIsFifo` needs the order in which messages were given out. A message gets its number
while `msgStatusMutex` is held, and the same thread holds that mutex until it has put the
message in the last queue: so every number in a queue is below that of the sender that is
passing through the table, for the clients it has not come to yet (`DispatchOrder`). Hence
appending keeps a queue sorted, and its head is the next to be sent (`QueueOrder`).

`StatusIsFresh`: the timeout of a wait returns a failure whatever the status is, so only a
sender that was woken can return a success, and only `PostStatus` wakes one: the status it
reads then is that of a worker that posted while it waited, or of a later one (`FreshInv`).

*SET.* `SetIsAtomic` speaks of the end of a request. The invariant says for each phase which
components have the request's values and which have those they had: in the loop, the groups
before `i`, save WiFi, have the new ones; in a rollback, a component that is neither `stuck`
nor as before is a group up to `rev`; and `indexWifi` is the index of the WiFi group if that
is behind. It leans on each component being in one group. The task touches none of these
variables (`TaskLeavesRequest`), whatever it does to the flags. `WifiIsLast` and
`SetAtomic` follow from it; `NotifiedAccepted` has an invariant of its own, that the
transaction id is one of an accepted request.

`BusyNeedsOverlap`: a task that waits and is busy has found `bRadioRestartEn` off. The request
whose signal woke it had turned it on, so it was turned off in between, by the task, which
some earlier request must have woken. `BusyInv` says so at each step: from `EnableRestart` to
the signal the flag is on or an earlier request was accepted, and a task that is awake finds it
on or two were.

`AtomicSetImplemented` maps the end of a request, `Report`, to the step of the abstract one,
and uses what `SetIsAtomic` says there.

*Tables.* `TableInv` has a part for each loop, which says what the table is made of: the old
rows that stay (`Old`), behind them the first new rows (`Begins`), perhaps an empty one that
could not be deleted, and behind these the old rows that have been added back (`Again`). Rows
are deleted by their number, so that the numbers grow along the table (`Numbered`) is what
tells which row goes. Which parts may be incomplete depends on the kinds of calls that have
failed. That no row is lost is a counting argument: the old rows that stay and those that
are added back are enough, because a row is deleted or stays.

*Caches and requests.* `CacheInv` says that an entry is numbered by its place in its array and
has one of the components of its name and their number, whichever of `WALInit`'s calls have
failed. From it `LookupCorrect` finds the owners: an entry with one component is right for
every name below its object, and one with two leads to the sub-objects, whose entry's number
is then read in the wrong array, which does no harm as long as sub-objects have one owner.
Grouping and asking are loops of any length over these. A recursive function exists because
its rounds can be put together (`Iterates`), and what holds after every round is shown by
the least round for which it fails (`EveryRound`, from `LeastNat`). `GroupsOf` says of each
round that a component has one group, with the names so far that lead to it, in order
(`IsChoice`); `GroupsAsked` that the array has what the groups so far answered and the index is
behind it (`HasAnswersOf`). `EveryAnswerThere` then counts: a parameter is in the answer of its
component only, once for each name of its group above it, and these are all the names above it.
The lemmas are about requests of any number of names, the properties about two.

*Configuration file.* `FileInv` says what the file and the temporary file hold at each step:
up to `rm` the file is the one the call began with, then it is empty until `cp` has filled it
from the edited one; the script fills only a file that is empty. With unreliable commands
each of these has the alternative of an empty file, and no other. From it follow the types
(the file is whole or empty), what a get and a set mean, and the refinement, in which the
end of `cp` writes, a crash keeps or loses, and everything else but the script stutters.

*syscfg.* While a call is under way, memory and flash may hold its value or what was told before
(`Expected`), and a failing call is reported, so `told` always has what a get may return. A crash
only brings flash back. That a value comes out of its buffer as it went in is `FittingStays`.

*Life cycle.* The faults need an invariant that says, for each step of the two threads, which
of the pointers are live, freed and null when no callback came during the start (`StartInv`,
`RunInv`): the main thread builds up in the order `Built`, a cancel takes down in the order
`Taken`. `GreenIsRegistered` rests on `HealthInv`, without that condition: once the common
object is taken away it never comes back.

*Names.* No induction: `Numbers` gives the two numbers of each row as arithmetic, `ToCPE` and
`ToWEBPA` what a mapped name becomes, and `RoundTrip` that the first row found for the
device's number is the row of the server's, although for radios it searches the rows of the
other objects as well. `MappedOnce` says that a name in the server's numbers is left alone.

*Notifications.* `ServerTold` needs what `strtok_r` makes of any five fields. `IsJoined` says
where each field of the string ends; `NextToken`, that the call that begins behind a field
returns the next one that is not empty, and ends where that does, since the string's commas
are those between the fields. A call that finds no token leaves the next where it began
(`NextCall`), so five tokens are five fields: none was empty, and each is in its place
(`TokensOf`). The rest is that of a list to which a call adds one entry or none: there is an
increasing map from what was delivered to the calls it tells of (`TellingGrows`).

Only model-checked: liveness, which is beyond the prover (`RegistrationCompletes`,
`SenderReturns`, `SignalledRadiosRestart`, `InitEnds`, `StartsAgain`).

## 6. Not modelled, and the plan

* Start-up and readiness: `waitForConnectReadyCondition` and `waitForOperationalReadyCondition`
  are loops that poll for a file or a state that another process writes, and keep nothing;
  `waitUntilSystemReady`, `ccspSystemReadySignalCB` and `checkIfSystemReady` are called by nobody.
* The RPC of messages from clients (`webpa_send_message_1_svc` only calls a callback),
  `pthread_create` failing, logging, `money_trace` timing, and what values are converted to.
* The tables of data-model functions in `plugin_main.c`, and the interactive commands of
  `cmd_dispatch`.

Every safety and action property of the passing runs is proved. What is left:

1. A replacement in one step as an abstract specification that `TableRequests` implements when
   only additions fail.
2. The handling of a table whose own rows are WiFi objects; what becomes of messages queued
   for a client that goes away.
