--------------------------- MODULE LifeCycle_proofs ---------------------------
(***************************************************************************)
(* Proofs about LifeCycle, for any number of callbacks.                    *)
(***************************************************************************)
EXTENDS LifeCycle, TLAPS

USE LifeCycleAssumption

------------------------------------------------------------------------------
(***************************************************************************)
(* The invariant                                                           *)
(***************************************************************************)
\* The common object comes into being once, and a callback that finds it takes
\* it away for good.
HealthInv ==
    /\ mpc \in {"daemonize", "bus", "common"} =>
          bpc = "idle" /\ ~cancelled /\ ptr["common"] = "null" /\ health = "none"
    /\ cancelled => bpc = "idle" /\ ptr["common"] = "null"
    /\ ~cancelled /\ bpc = "idle" => registered = announced
    /\ mpc = "green" \/ health = "Green" => announced

\* What the main thread has created, if all went well.
Built(o) ==
    CASE o = "common" -> mpc \notin {"daemonize", "bus", "common"}
      [] o = "ccdIf" ->
            mpc \notin {"daemonize", "bus", "common", "initCommon", "ccdIf"}
      [] o = "controller" ->
            mpc \in {"yellow", "interfaces", "register", "green"}
      [] OTHER -> FALSE

\* While the main thread starts the component, no callback has interfered.
StartInv ==
    ~overlapped /\ mpc \in Starting =>
        /\ bpc = "idle" /\ ~cancelled
        /\ failed => mpc \in {"yellow", "interfaces"} /\ ptr["controller"] = "null"
        /\ ~failed => \A o \in {"common", "ccdIf", "controller"} :
                          ptr[o] = IF Built(o) THEN "live" ELSE "null"

\* How far ssp_cancel has come with a component that had started.
Taken(o) ==
    CASE o = "controller" -> bpc \in {"freeCcdIf", "freeCommon", "clear"}
      [] o = "ccdIf" -> bpc \in {"freeCommon", "clear"}
      [] OTHER -> bpc = "clear"

RunInv ==
    ~overlapped /\ mpc \in {"cdm", "touch", "rpc", "running"} =>
        /\ ~failed
        /\ bpc \in {"cancel", "freeCcdIf", "freeCommon", "clear"} => registered = kept
        /\ \A o \in {"common", "ccdIf", "controller"} :
              ptr[o] = IF cancelled THEN "null" ELSE IF Taken(o) THEN "freed" ELSE "live"

FaultInv == ~overlapped /\ ~failed => fault = "none"

Inv ==
    /\ TypeOK
    /\ HealthInv
    /\ StartInv
    /\ RunInv
    /\ FaultInv
    /\ CancelUndoesStart

------------------------------------------------------------------------------
LEMMA InitInv == Init => Inv
  <1> SUFFICES ASSUME Init PROVE Inv
    OBVIOUS
  <1> USE DEF Init, Objects, Starting
  <1>1. TypeOK
    <2>1. ptr \in [Objects -> {"null", "live", "freed"}] /\ callbacks \in 0..MaxCallbacks
      OBVIOUS
    <2> QED
      BY <2>1 DEF TypeOK
  <1>2. HealthInv /\ FaultInv /\ CancelUndoesStart
    BY DEF HealthInv, FaultInv, CancelUndoesStart
  <1>3. StartInv /\ RunInv
    BY DEF StartInv, Built, RunInv
  <1> QED
    BY <1>1, <1>2, <1>3 DEF Inv

LEMMA NextInv == Inv /\ [Next]_vars => Inv'
  <1> SUFFICES ASSUME Inv, [Next]_vars PROVE Inv'
    OBVIOUS
  <1> USE DEF Inv, TypeOK, HealthInv, StartInv, Built, RunInv, Taken, FaultInv,
              CancelUndoesStart, Objects, Starting, ghosts
  <1>1. CASE daemonize
    BY <1>1 DEF daemonize
  <1>2. CASE ssp_Mbi_MessageBusEngage
    BY <1>2 DEF ssp_Mbi_MessageBusEngage
  <1>3. CASE ssp_create
    <2> USE <1>3 DEF ssp_create, AfterCreate
    <2>1. TypeOK'
      <3>1. mpc \in DOMAIN AfterCreate
        OBVIOUS
      <3>2. AfterCreate[mpc] \in {"initCommon", "initCcdIf", "controller", "yellow"}
        BY <3>1
      <3>3. ptr' \in [Objects -> {"null", "live", "freed"}]
        OBVIOUS
      <3>4. failed' \in BOOLEAN
        OBVIOUS
      <3> QED
        BY <3>2, <3>3, <3>4
    <2>2. HealthInv'
      OBVIOUS
    <2>3. StartInv'
      OBVIOUS
    <2>4. RunInv'
      OBVIOUS
    <2>5. FaultInv'
      OBVIOUS
    <2>6. CancelUndoesStart'
      OBVIOUS
    <2> QED
      BY <2>1, <2>2, <2>3, <2>4, <2>5, <2>6
  <1>4. CASE InitCommon
    BY <1>4 DEF InitCommon, Uses, FirstFault
  <1>5. CASE InitCcdIf
    BY <1>5 DEF InitCcdIf, Uses, FirstFault
  <1>6. CASE SetYellow
    BY <1>6 DEF SetYellow, Uses, FirstFault
  <1>7. CASE AddInterfaces
    BY <1>7 DEF AddInterfaces, Uses, FirstFault
  <1>8. CASE RegisterCcspDataModel
    <2> USE <1>8 DEF RegisterCcspDataModel, AfterRegister, Uses, FirstFault
    <2>1. TypeOK'
      OBVIOUS
    <2>2. HealthInv'
      OBVIOUS
    <2>3. StartInv'
      OBVIOUS
    <2>4. RunInv'
      OBVIOUS
    <2>5. FaultInv'
      OBVIOUS
    <2>6. CancelUndoesStart'
      OBVIOUS
    <2> QED
      BY <2>1, <2>2, <2>3, <2>4, <2>5, <2>6
  <1>9. CASE SetGreen
    BY <1>9 DEF SetGreen, Uses, FirstFault
  <1>10. CASE MainCrashes
    BY <1>10 DEF MainCrashes, MainUses, Crashes, FirstFault
  <1>11. CASE Cdm_Init
    BY <1>11 DEF Cdm_Init
  <1>12. CASE TouchInitialized
    BY <1>12 DEF TouchInitialized
  <1>13. CASE StartServing
    BY <1>13 DEF StartServing
  <1>14. CASE ssp_Mbi_FreeResources
    <2> USE <1>14 DEF ssp_Mbi_FreeResources, Arrives
    <2>1. TypeOK'
      <3>1. callbacks' \in 0..MaxCallbacks
        OBVIOUS
      <3>2. bpc' \in {"idle", "unregister"} /\ overlapped' \in BOOLEAN /\ bus' = "registered"
        OBVIOUS
      <3> QED
        BY <3>1, <3>2
    <2>2. HealthInv'
      OBVIOUS
    <2>3. StartInv'
      OBVIOUS
    <2>4. RunInv'
      OBVIOUS
    <2>5. FaultInv'
      OBVIOUS
    <2>6. CancelUndoesStart'
      OBVIOUS
    <2> QED
      BY <2>1, <2>2, <2>3, <2>4, <2>5, <2>6
  <1>15. CASE unregisterComponent
    <2> USE <1>15 DEF unregisterComponent
    <2>1. TypeOK'
      <3>1. registered' \in BOOLEAN /\ kept' \in BOOLEAN
        OBVIOUS
      <3> QED
        BY <3>1
    <2>2. HealthInv'
      OBVIOUS
    <2>3. StartInv'
      OBVIOUS
    <2>4. RunInv'
      OBVIOUS
    <2>5. FaultInv'
      OBVIOUS
    <2>6. CancelUndoesStart'
      OBVIOUS
    <2> QED
      BY <2>1, <2>2, <2>3, <2>4, <2>5, <2>6
  <1>16. CASE CancelController
    BY <1>16 DEF CancelController, Uses, FirstFault
  <1>17. CASE FreeCcdIf
    <2> USE <1>17 DEF FreeCcdIf, FreeIfSet, FaultIfFreed, FirstFault
    <2>1. TypeOK'
      OBVIOUS
    <2>2. HealthInv'
      OBVIOUS
    <2>3. StartInv'
      OBVIOUS
    <2>4. RunInv'
      OBVIOUS
    <2>5. FaultInv'
      OBVIOUS
    <2>6. CancelUndoesStart'
      OBVIOUS
    <2> QED
      BY <2>1, <2>2, <2>3, <2>4, <2>5, <2>6
  <1>18. CASE FreeCommon
    <2> USE <1>18 DEF FreeCommon, FreeIfSet, FaultIfFreed, FirstFault
    <2>1. TypeOK'
      OBVIOUS
    <2>2. HealthInv'
      OBVIOUS
    <2>3. StartInv'
      OBVIOUS
    <2>4. RunInv'
      OBVIOUS
    <2>5. FaultInv'
      OBVIOUS
    <2>6. CancelUndoesStart'
      OBVIOUS
    <2> QED
      BY <2>1, <2>2, <2>3, <2>4, <2>5, <2>6
  <1>19. CASE ClearPointers
    <2> USE <1>19 DEF ClearPointers, Cleared
    <2>1. TypeOK'
      OBVIOUS
    <2>2. HealthInv'
      OBVIOUS
    <2>3. StartInv'
      OBVIOUS
    <2>4. RunInv'
      OBVIOUS
    <2>5. FaultInv'
      OBVIOUS
    <2>6. CancelUndoesStart'
      OBVIOUS
    <2> QED
      BY <2>1, <2>2, <2>3, <2>4, <2>5, <2>6
  <1>20. CASE BusCrashes
    BY <1>20 DEF BusCrashes, Crashes, FirstFault
  <1>21. CASE sig_handler
    BY <1>21 DEF sig_handler
  <1>22. CASE UNCHANGED vars
    BY <1>22 DEF vars
  <1> QED
    BY <1>1, <1>2, <1>3, <1>4, <1>5, <1>6, <1>7, <1>8, <1>9, <1>10, <1>11, <1>12, <1>13,
       <1>14, <1>15, <1>16, <1>17, <1>18, <1>19, <1>20, <1>21, <1>22
       DEF Next, MainStep, BusStep

LEMMA InvHolds == Spec => []Inv
  BY InitInv, NextInv, PTL DEF Spec

------------------------------------------------------------------------------
\* The variables of the life cycle keep their types, and callbacks come only to
\* a process that is on the bus.
THEOREM TypeCorrect == Spec => []TypeOK
  <1>1. Inv => TypeOK
    BY DEF Inv
  <1> QED
    BY <1>1, InvHolds, PTL

\* ssp_cancel and the main thread misuse a pointer only when the one has begun
\* before the other was ready, or when an allocation had failed.
THEOREM FaultsExplained == Spec => []FaultNeedsOverlap
  <1>1. Inv => FaultNeedsOverlap
    BY DEF Inv, FaultInv, FaultNeedsOverlap
  <1> QED
    BY <1>1, InvHolds, PTL

\* The health is green only while the registrar knows the component, whatever
\* the two threads do.
THEOREM HealthCorrect == Spec => []GreenIsRegistered
  <1>1. Inv => GreenIsRegistered
    BY DEF Inv, TypeOK, HealthInv, GreenIsRegistered
  <1> QED
    BY <1>1, InvHolds, PTL

\* ssp_cancel undoes the start of a component for good.
THEOREM CancelCorrect == Spec => []CancelUndoesStart
  <1>1. Inv => CancelUndoesStart
    BY DEF Inv
  <1> QED
    BY <1>1, InvHolds, PTL
==============================================================================
