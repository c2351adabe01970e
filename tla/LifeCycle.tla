------------------------------ MODULE LifeCycle -------------------------------
(***************************************************************************)
(* The life of the process as a CCSP component (app/main.c, wal/ssp_main.c,*)
(* wal/ssp_action.c, wal/ssp_messagebus_interface.c).                      *)
(*                                                                         *)
(* The main thread connects to the bus, creates four objects and engages   *)
(* the component.  The thread of the bus library calls back as soon as the *)
(* process is on the bus, before the objects are there, and may ask the    *)
(* component to free its resources: ssp_cancel then takes down what the    *)
(* main thread builds up, without a lock.                                  *)
(*                                                                         *)
(* A pointer is null, or points to an object that is live or freed.  A step*)
(* that uses a null pointer raises SIGSEGV, and sig_handler ends the       *)
(* process; one that uses a freed object may do that, or go on.            *)
(***************************************************************************)
EXTENDS Naturals

CONSTANT MaxCallbacks   \* bound: callbacks that cancel

ASSUME LifeCycleAssumption == MaxCallbacks \in Nat

VARIABLES
    mpc,         \* where the main thread is
    bpc,         \* where the bus library's thread is
    ptr,         \* the four pointers of ssp_action.c
    health,      \* Health, in the common object
    bus,         \* bus_handle: none, connected, or callbacks registered as well
    registered,  \* what the component registrar knows
    initialized, \* the file /tmp/webpa_initialized
    callbacks,   \* callbacks so far, up to MaxCallbacks
    fault,       \* ghost: how a pointer was first misused
    failed,      \* ghost: an allocation has failed
    overlapped,  \* ghost: ssp_cancel began before the main thread had engaged
    announced,   \* ghost: RegisterCcspDataModel has succeeded
    cancelled,   \* ghost: ssp_cancel has come to its end
    kept         \* ghost: the registrar has failed to unregister the component

vars == <<mpc, bpc, ptr, health, bus, registered, initialized, callbacks, fault,
          failed, overlapped, announced, cancelled, kept>>

Objects == {"common", "ccdIf", "lcbIf", "controller"}
Starting == {"daemonize", "bus", "common", "ccdIf", "lcbIf", "controller",
             "initCommon", "initCcdIf", "yellow", "interfaces", "register", "green"}

TypeOK ==
    /\ mpc \in Starting \cup {"cdm", "touch", "rpc", "running", "exited"}
    /\ bpc \in {"idle", "unregister", "cancel", "freeCcdIf", "freeCommon", "clear"}
    /\ ptr \in [Objects -> {"null", "live", "freed"}]
    /\ health \in {"none", "Yellow", "Green"}
    /\ bus \in {"none", "connected", "registered"}
    /\ registered \in BOOLEAN
    /\ initialized \in BOOLEAN
    /\ callbacks \in 0..MaxCallbacks
    /\ fault \in {"none", "null", "freed"}
    /\ failed \in BOOLEAN /\ overlapped \in BOOLEAN
    /\ announced \in BOOLEAN /\ cancelled \in BOOLEAN /\ kept \in BOOLEAN
    /\ bpc # "idle" => bus = "registered"

Init ==
    /\ mpc = "daemonize" /\ bpc = "idle"
    /\ ptr = [o \in Objects |-> "null"]
    /\ health = "none"
    /\ bus = "none"
    /\ registered = FALSE /\ initialized = FALSE
    /\ callbacks = 0
    /\ fault = "none"
    /\ failed = FALSE /\ overlapped = FALSE /\ announced = FALSE /\ cancelled = FALSE
    /\ kept = FALSE

FirstFault(f) == fault' = IF fault = "none" THEN f ELSE fault

\* A step that needs object o: Good is what it does.  What a write to a freed
\* object changes, nobody reads.
Uses(o, Good) ==
    \/ ptr[o] = "live" /\ Good /\ UNCHANGED fault
    \/ ptr[o] = "freed" /\ Good /\ FirstFault("freed")

\* The same step when it ends the process.
Crashes(o) ==
    /\ ptr[o] # "live"
    /\ FirstFault(ptr[o])
    /\ mpc' = "exited"
    /\ UNCHANGED <<bpc, ptr, health, bus, registered, initialized, callbacks,
                   failed, overlapped, announced, cancelled, kept>>

ghosts == <<fault, failed, overlapped, announced, cancelled, kept>>

------------------------------------------------------------------------------
(***************************************************************************)
(* The main thread: msgBusInit                                             *)
(***************************************************************************)
daemonize ==
    /\ mpc = "daemonize"
    /\ mpc' \in {"bus", "exited"}
    /\ UNCHANGED <<bpc, ptr, health, bus, registered, initialized, callbacks, ghosts>>

\* CCSP_Message_Bus_Init may fail, or else CCSP_Message_Bus_Register_Path, which
\* leaves the connection without callbacks.  cmd_dispatch looks at neither.
ssp_Mbi_MessageBusEngage ==
    /\ mpc = "bus"
    /\ mpc' = "common"
    /\ bus' \in {"none", "connected", "registered"}
    /\ UNCHANGED <<bpc, ptr, health, registered, initialized, callbacks, ghosts>>

\* The fields of the first two objects are set once the pointer is.
AfterCreate == [common |-> "initCommon", ccdIf |-> "initCcdIf", lcbIf |-> "controller",
                controller |-> "yellow"]

\* ssp_create gives up at the first object it cannot allocate; cmd_dispatch goes
\* on all the same.
ssp_create ==
    /\ mpc \in Objects
    /\ \/ /\ ptr' = [ptr EXCEPT ![mpc] = "live"]
          /\ mpc' = AfterCreate[mpc]
          /\ UNCHANGED failed
       \/ /\ failed' = TRUE
          /\ mpc' = "yellow"
          /\ UNCHANGED ptr
    /\ UNCHANGED <<bpc, health, bus, registered, initialized, callbacks, fault,
                   overlapped, announced, cancelled, kept>>

InitCommon ==
    /\ mpc = "initCommon"
    /\ Uses("common", mpc' = "ccdIf")
    /\ UNCHANGED <<bpc, ptr, health, bus, registered, initialized, callbacks, failed,
                   overlapped, announced, cancelled, kept>>

InitCcdIf ==
    /\ mpc = "initCcdIf"
    /\ Uses("ccdIf", mpc' = "lcbIf")
    /\ UNCHANGED <<bpc, ptr, health, bus, registered, initialized, callbacks, failed,
                   overlapped, announced, cancelled, kept>>

SetYellow ==
    /\ mpc = "yellow"
    /\ Uses("common", health' = "Yellow")
    /\ mpc' = "interfaces"
    /\ UNCHANGED <<bpc, ptr, bus, registered, initialized, callbacks, failed,
                   overlapped, announced, cancelled, kept>>

AddInterfaces ==
    /\ mpc = "interfaces"
    /\ Uses("controller", mpc' = "register")
    /\ UNCHANGED <<bpc, ptr, health, bus, registered, initialized, callbacks, failed,
                   overlapped, announced, cancelled, kept>>

\* Mutant: the result of the registration is not looked at.
AlwaysGreen(success) == "green"

AfterRegister(success) == IF success THEN "green" ELSE "cdm"

\* Without the bus the registrar cannot be reached.
RegisterCcspDataModel ==
    /\ mpc = "register"
    /\ \E success \in IF bus = "none" THEN {FALSE} ELSE BOOLEAN :
          /\ Uses("controller", mpc' = AfterRegister(success))
          /\ registered' = (registered \/ success)
          /\ announced' = (announced \/ success)
    /\ UNCHANGED <<bpc, ptr, health, bus, initialized, callbacks, failed,
                   overlapped, cancelled, kept>>

SetGreen ==
    /\ mpc = "green"
    /\ Uses("common", health' = "Green")
    /\ mpc' = "cdm"
    /\ UNCHANGED <<bpc, ptr, bus, registered, initialized, callbacks, failed,
                   overlapped, announced, cancelled, kept>>

MainUses == [initCommon |-> "common", initCcdIf |-> "ccdIf", yellow |-> "common", interfaces |-> "controller",
             register |-> "controller", green |-> "common"]

MainCrashes == mpc \in DOMAIN MainUses /\ Crashes(MainUses[mpc])

Cdm_Init ==
    /\ mpc = "cdm"
    /\ mpc' \in {"touch", "exited"}
    /\ UNCHANGED <<bpc, ptr, health, bus, registered, initialized, callbacks, ghosts>>

TouchInitialized ==
    /\ mpc = "touch"
    /\ mpc' = "rpc"
    /\ initialized' = TRUE
    /\ UNCHANGED <<bpc, ptr, health, bus, registered, callbacks, ghosts>>

\* WebpaRpcInit and createSocketConnection; then the main thread loops.
StartServing ==
    /\ mpc = "rpc"
    /\ mpc' = "running"
    /\ UNCHANGED <<bpc, ptr, health, bus, registered, initialized, callbacks, ghosts>>

------------------------------------------------------------------------------
(***************************************************************************)
(* The thread of the bus library: ssp_Mbi_Finalize, ssp_Mbi_FreeResources  *)
(***************************************************************************)
Arrives == bus = "registered"

\* ssp_cancel returns at once when there is no common object.
ssp_Mbi_FreeResources ==
    /\ mpc # "exited"
    /\ bpc = "idle"
    /\ Arrives
    /\ callbacks < MaxCallbacks
    /\ callbacks' = callbacks + 1
    /\ IF ptr["common"] = "null" THEN UNCHANGED <<bpc, overlapped>>
       ELSE bpc' = "unregister" /\ overlapped' = (overlapped \/ mpc \in Starting)
    /\ UNCHANGED <<mpc, ptr, health, bus, registered, initialized, fault, failed,
                   announced, cancelled, kept>>

\* The call of the registrar may fail; its result is only traced.
unregisterComponent ==
    /\ mpc # "exited"
    /\ bpc = "unregister"
    /\ bpc' = "cancel"
    /\ registered' \in {FALSE, registered}
    /\ kept' = registered'
    /\ UNCHANGED <<mpc, ptr, health, bus, initialized, callbacks, fault, failed,
                   overlapped, announced, cancelled>>

CancelController ==
    /\ mpc # "exited"
    /\ bpc = "cancel"
    /\ Uses("controller", bpc' = "freeCcdIf" /\ ptr' = [ptr EXCEPT !["controller"] = "freed"])
    /\ UNCHANGED <<mpc, health, bus, registered, initialized, callbacks, failed,
                   overlapped, announced, cancelled, kept>>

FreeIfSet(o) == [ptr EXCEPT ![o] = IF @ = "null" THEN "null" ELSE "freed"]
FaultIfFreed(o) == IF ptr[o] = "freed" THEN FirstFault("freed") ELSE UNCHANGED fault

FreeCcdIf ==
    /\ mpc # "exited"
    /\ bpc = "freeCcdIf"
    /\ bpc' = "freeCommon"
    /\ ptr' = FreeIfSet("ccdIf") /\ FaultIfFreed("ccdIf")
    /\ UNCHANGED <<mpc, health, bus, registered, initialized, callbacks, failed,
                   overlapped, announced, cancelled, kept>>

FreeCommon ==
    /\ mpc # "exited"
    /\ bpc = "freeCommon"
    /\ bpc' = "clear"
    /\ ptr' = FreeIfSet("common") /\ FaultIfFreed("common")
    /\ UNCHANGED <<mpc, health, bus, registered, initialized, callbacks, failed,
                   overlapped, announced, cancelled, kept>>

\* Mutant: the pointer of the common object is not cleared.
AllButCommon == {"ccdIf", "controller"}

Cleared == {"common", "ccdIf", "controller"}

ClearPointers ==
    /\ mpc # "exited"
    /\ bpc = "clear"
    /\ bpc' = "idle"
    /\ ptr' = [o \in Objects |-> IF o \in Cleared THEN "null" ELSE ptr[o]]
    /\ cancelled' = TRUE
    /\ UNCHANGED <<mpc, health, bus, registered, initialized, callbacks, fault, failed,
                   overlapped, announced, kept>>

BusCrashes == mpc # "exited" /\ bpc = "cancel" /\ Crashes("controller")

\* A signal that is not one of those sig_handler ignores.
sig_handler ==
    /\ mpc # "exited"
    /\ mpc' = "exited"
    /\ UNCHANGED <<bpc, ptr, health, bus, registered, initialized, callbacks, ghosts>>

------------------------------------------------------------------------------
MainStep ==
    \/ daemonize \/ ssp_Mbi_MessageBusEngage \/ ssp_create \/ InitCommon \/ InitCcdIf
    \/ SetYellow \/ AddInterfaces \/ RegisterCcspDataModel \/ SetGreen \/ MainCrashes
    \/ Cdm_Init \/ TouchInitialized \/ StartServing

BusStep ==
    \/ ssp_Mbi_FreeResources \/ unregisterComponent \/ CancelController
    \/ FreeCcdIf \/ FreeCommon \/ ClearPointers \/ BusCrashes

Next == MainStep \/ BusStep \/ sig_handler

Spec == Init /\ [][Next]_vars

------------------------------------------------------------------------------
(***************************************************************************)
(* Properties                                                              *)
(***************************************************************************)

\* ssp_create, ssp_engage and ssp_cancel use a null or freed object only if the
\* bus asked the component to free its resources while the main thread was still
\* creating and engaging it, or if an allocation had failed.  So a component that
\* has started is taken down safely, however often it is asked to.
FaultNeedsOverlap == fault # "none" => overlapped \/ failed

\* Whoever asks for the health of the component while nothing takes it down
\* learns that it is green only if the registrar knows the component.
GreenIsRegistered ==
    ptr["common"] = "live" /\ health = "Green" /\ bpc = "idle" => registered

\* Once a component that had started was taken down, the registrar does not know
\* it, unless it failed to unregister it, nothing that was allocated but the
\* library's callback interface is left, and a later callback changes none of
\* this.
CancelUndoesStart ==
    cancelled /\ ~overlapped =>
        registered = kept /\ \A o \in Objects \ {"lcbIf"} : ptr[o] = "null"

\* "CANNOT Create pDslhCpeController... Exit!" (ssp_action.c): when only this
\* object could not be created, the component is not engaged.
FailedCreateExits ==
    failed /\ ptr["lcbIf"] = "live" => mpc \notin {"interfaces", "register", "green"}

\* "System is fully initialized" (ssp_action.c) is what the code says of a
\* component that has registered; the file says it to the other processes.
InitializedHadRegistered == initialized => announced
==============================================================================
