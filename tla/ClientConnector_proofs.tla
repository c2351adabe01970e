------------------------ MODULE ClientConnector_proofs ------------------------
(***************************************************************************)
(* Proofs about ClientConnector, for any number of senders, clients, keys, *)
(* slots, messages and registrations.                                      *)
(***************************************************************************)
EXTENDS ClientConnector, SequenceTheorems, TLAPS

\* A worker that sends has something to send: the queue's head is read and
\* removed only when there is one.
BusyQueue == \A c \in Clients : wpc[c] \in {"send", "status"} => queue[c] # <<>>

\* A loop over clients[] that works on a client is at a slot of the table.
SlotInRange ==
    /\ \A s \in Senders : spc[s] = "enqueue" => pos[s] \in Slots
    /\ rpc = "mark" => rpos \in Slots /\ rcur \in Clients

TypeInv == TypeOK /\ BusyQueue /\ SlotInRange

\* What the head and the rest of a queue with a message in it are.
LEMMA QueueParts ==
  ASSUME NEW q \in Seq(Nat), q # <<>>
  PROVE  /\ Head(q) \in Nat
         /\ Tail(q) \in Seq(Nat)
         /\ Len(q) > 1 => Tail(q) # <<>>
<1>1. Head(q) \in Nat /\ Tail(q) \in Seq(Nat) /\ Len(Tail(q)) = Len(q) - 1
  BY HeadTailProperties
<1>2. Tail(q) = <<>> => Len(Tail(q)) = 0
  BY EmptySeq
<1>3. Len(q) \in Nat
  BY LenProperties
<1> QED BY <1>1, <1>2, <1>3

\* A message that is queued makes a queue of messages with one in it.
LEMMA AppendParts ==
  ASSUME NEW q \in Seq(Nat), NEW m \in Nat
  PROVE  Append(q, m) \in Seq(Nat) /\ Append(q, m) # <<>>
  BY AppendProperties

\* The initial state has the right types.
LEMMA InitType == Init => TypeInv
  BY ConnectorAssumption DEF Init, TypeInv, TypeOK, TableType, WorkerType, SenderType,
     StatusType, RpcType, BusyQueue, SlotInRange, Slots, Threads, Registrations

\* The steps of a sender keep the types.
LEMMA SenderStepType ==
  ASSUME TypeInv, NEW s \in Senders, sendIoTMessage(s) \/ SenderStep(s)
  PROVE  TypeInv'
<1> USE ConnectorAssumption DEF TypeInv, TypeOK, Slots
<1>1. CASE sendIoTMessage(s)
  <2> USE <1>1 DEF sendIoTMessage, vars, tableVars, workerVars, rpcVars
  <2>1. TableType' /\ WorkerType' /\ RpcType'
    BY DEF TableType, WorkerType, RpcType
  <2>2. SenderType' /\ StatusType'
    BY DEF SenderType, StatusType
  <2>3. BusyQueue' /\ SlotInRange'
    BY DEF BusyQueue, SlotInRange, SenderType, RpcType
  <2> QED BY <2>1, <2>2, <2>3
<1>2. CASE DispatchMessage(s)
  <2> USE <1>2 DEF DispatchMessage, TableFree, statusVars, workerVars, rpcVars
  <2>1. TableType' /\ WorkerType' /\ RpcType'
    BY DEF TableType, WorkerType, RpcType, Threads
  <2>2. SenderType' /\ StatusType'
    BY DEF SenderType, StatusType
  <2>3. BusyQueue' /\ SlotInRange'
    BY DEF BusyQueue, SlotInRange, SenderType, RpcType
  <2> QED BY <2>1, <2>2, <2>3
<1>3. CASE FindMatch(s)
  <2> USE <1>3 DEF FindMatch, NextSlot, tableVars, statusVars, workerVars, rpcVars
  <2>0. PICK i \in pos[s]..MaxClients :
           \/ /\ pos' = [pos EXCEPT ![s] = i]
              /\ cur' = [cur EXCEPT ![s] = clients[i]]
              /\ spc' = [spc EXCEPT ![s] = "enqueue"]
              /\ UNCHANGED ret
           \/ /\ pos' = [pos EXCEPT ![s] = i + 1]
              /\ ret' = [ret EXCEPT ![s] = "WAL_FAILURE"]
              /\ UNCHANGED <<cur, spc>>
    OBVIOUS
  <2>1. i \in Slots /\ clients[i] \in Clients \cup {NoClient}
    BY DEF SenderType, TableType
  <2>2. TableType' /\ WorkerType' /\ RpcType' /\ StatusType'
    BY DEF TableType, WorkerType, RpcType, StatusType
  <2>3. SenderType'
    BY <2>0, <2>1 DEF SenderType
  <2>4. spc[s] = "scan"
    OBVIOUS
  <2>5. BusyQueue' /\ (rpc = "mark" => rpos \in Slots /\ rcur \in Clients)'
    BY DEF BusyQueue, SlotInRange
  <2>6. ASSUME NEW t \in Senders, spc'[t] = "enqueue" PROVE pos'[t] \in Slots
    BY <2>0, <2>1, <2>4, <2>6 DEF SlotInRange, SenderType
  <2> QED BY <2>2, <2>3, <2>5, <2>6 DEF SlotInRange
<1>4. CASE EnqueueMessage(s)
  <2> USE <1>4 DEF EnqueueMessage, NextSlot, tableVars, statusVars, rpcVars
  <2>1. TableType' /\ RpcType' /\ StatusType'
    BY DEF TableType, RpcType, StatusType
  <2>2. /\ queue' = [queue EXCEPT ![cur[s]] = Append(@, msg[s])]
        /\ wpc' = WakeWorker(cur[s])
        /\ UNCHANGED <<st, cmutex, lastSent>>
        /\ msg[s] \in Nat
    BY DEF SenderType
  <2>3. ASSUME NEW c \in Clients
        PROVE  /\ queue'[c] \in Seq(Nat)
               /\ queue'[c] # queue[c] => queue'[c] # <<>>
    <3>1. queue[c] \in Seq(Nat) /\ queue \in [Clients -> Seq(Nat)]
      BY DEF WorkerType
    <3>2. Append(queue[c], msg[s]) \in Seq(Nat) /\ Append(queue[c], msg[s]) # <<>>
      BY ONLY <2>2, <3>1, AppendParts
    <3> QED BY <2>2, <3>1, <3>2
  <2>4. WorkerType'
    <3>1. queue' \in [Clients -> Seq(Nat)]
      BY <2>2, <2>3 DEF WorkerType
    <3> QED BY <2>2, <3>1 DEF WorkerType, WakeWorker
  <2>5. SenderType'
    <3>1. pos[s] \in Slots
      BY DEF SlotInRange
    <3> QED BY <3>1 DEF SenderType
  <2>6. BusyQueue'
    <3>1. SUFFICES ASSUME NEW c \in Clients, wpc'[c] \in {"send", "status"}
                   PROVE  queue'[c] # <<>>
      BY DEF BusyQueue
    <3>2. wpc[c] = wpc'[c]
      BY <2>2, <3>1 DEF WakeWorker, WorkerType
    <3> QED BY <2>3, <3>1, <3>2 DEF BusyQueue
  <2>7. SlotInRange'
    BY DEF SlotInRange, SenderType, RpcType
  <2> QED BY <2>1, <2>4, <2>5, <2>6, <2>7
<1>5. CASE DispatchReturns(s)
  <2> USE <1>5 DEF DispatchReturns, CallEnds, workerVars, rpcVars
  <2>1. TableType' /\ WorkerType' /\ RpcType'
    BY DEF TableType, WorkerType, RpcType
  <2>2. SenderType'
    <3>1. CASE ret[s] = "WAL_SUCCESS"
      BY <3>1 DEF SenderType
    <3>2. CASE ret[s] = "WAL_FAILURE"
      BY <3>2 DEF SenderType
    <3> QED BY <3>1, <3>2
  <2>3. StatusType'
    BY DEF StatusType
  <2>4. BusyQueue' /\ SlotInRange'
    BY DEF BusyQueue, SlotInRange, SenderType, RpcType
  <2> QED BY <2>1, <2>2, <2>3, <2>4
<1>6. CASE StatusTimeout(s)
  <2> USE <1>6 DEF StatusTimeout, tableVars, statusVars, workerVars, rpcVars
  <2>1. TableType' /\ WorkerType' /\ RpcType' /\ StatusType' /\ SenderType'
    BY DEF TableType, WorkerType, RpcType, StatusType, SenderType
  <2>2. BusyQueue' /\ SlotInRange'
    BY DEF BusyQueue, SlotInRange, SenderType, RpcType
  <2> QED BY <2>1, <2>2
<1>7. CASE StatusReturns(s)
  <2> USE <1>7 DEF StatusReturns, ReturnedStatus, CallEnds, tableVars, workerVars, rpcVars
  <2>1. TableType' /\ WorkerType' /\ RpcType'
    BY DEF TableType, WorkerType, RpcType
  <2>2. SenderType' /\ StatusType'
    BY DEF SenderType, StatusType
  <2>3. BusyQueue' /\ SlotInRange'
    BY DEF BusyQueue, SlotInRange, SenderType, RpcType
  <2> QED BY <2>1, <2>2, <2>3
<1> QED BY <1>1, <1>2, <1>3, <1>4, <1>5, <1>6, <1>7 DEF SenderStep

\* The steps of a worker keep the types.
LEMMA WorkerStepType ==
  ASSUME TypeInv, NEW c \in Clients, WorkerStep(c)
  PROVE  TypeInv'
<1> USE ConnectorAssumption DEF TypeInv, TypeOK, Slots
<1>1. CASE ConnectToClient(c) \/ WaitForMessage(c) \/ WaitTimeout(c)
  <2> USE <1>1 DEF ConnectToClient, WaitForMessage, WaitTimeout, WorkerGoes,
                   tableVars, senderVars, statusVars, rpcVars
  <2>1. TableType' /\ SenderType' /\ StatusType' /\ RpcType'
    BY DEF TableType, SenderType, StatusType, RpcType
  <2>2. WorkerType'
    BY DEF WorkerType
  <2>3. BusyQueue' /\ SlotInRange'
    BY DEF BusyQueue, SlotInRange, WorkerType
  <2> QED BY <2>1, <2>2, <2>3
<1>2. CASE Wake(c)
  <2> USE <1>2 DEF Wake, WorkerGoes, tableVars, senderVars, statusVars, rpcVars
  <2>1. TableType' /\ SenderType' /\ StatusType' /\ RpcType'
    BY DEF TableType, SenderType, StatusType, RpcType
  <2>2. WorkerType'
    <3>1. \E place \in {"ping", "send", "shutdown"} : wpc' = [wpc EXCEPT ![c] = place]
      OBVIOUS
    <3>2. UNCHANGED cmutex \/ cmutex' = [cmutex EXCEPT ![c] = c]
      OBVIOUS
    <3>3. wpc' \in [Clients -> {"free", "start", "loop", "wait", "woken", "timedout",
                                "ping", "send", "status", "shutdown"}]
      BY <3>1 DEF WorkerType
    <3>4. cmutex' \in [Clients -> Clients \cup {NoThread}]
      BY <3>2 DEF WorkerType
    <3> QED BY <3>3, <3>4 DEF WorkerType
  <2>3. BusyQueue' /\ SlotInRange'
    BY DEF BusyQueue, SlotInRange, WorkerType
  <2> QED BY <2>1, <2>2, <2>3
<1>3. CASE Ping(c)
  <2> USE <1>3 DEF Ping, WorkerGoes, tableVars, senderVars, statusVars, rpcVars
  <2>1. TableType' /\ SenderType' /\ StatusType' /\ RpcType'
    BY DEF TableType, SenderType, StatusType, RpcType
  <2>2. WorkerType'
    BY DEF WorkerType
  <2>3. BusyQueue' /\ SlotInRange'
    BY DEF BusyQueue, SlotInRange, WorkerType
  <2> QED BY <2>1, <2>2, <2>3
<1>4. CASE SendMessage(c)
  <2> USE <1>4 DEF SendMessage, WorkerGoes, tableVars, senderVars, rpcVars
  <2>1. queue[c] \in Seq(Nat) /\ queue[c] # <<>>
    BY DEF WorkerType, BusyQueue
  <2>2. Head(queue[c]) \in Nat
    BY <2>1, QueueParts
  <2>3. TableType' /\ SenderType' /\ RpcType'
    BY DEF TableType, SenderType, RpcType
  <2>4. StatusType'
    BY DEF StatusType, SenderType
  <2>5. WorkerType'
    <3>1. lastSent' = [lastSent EXCEPT ![c] = Head(queue[c])] \/ UNCHANGED lastSent
      OBVIOUS
    <3>2. lastSent' \in [Clients -> Nat]
      BY <2>2, <3>1 DEF WorkerType
    <3>3. PICK stat \in {"RPC_SUCCESS", "RPC_FAILED"} : st' = [st EXCEPT ![c] = stat]
      OBVIOUS
    <3>4. st' \in [Clients -> {"RPC_SUCCESS", "RPC_FAILED"}]
      BY <3>3 DEF WorkerType
    <3> QED BY <3>2, <3>4 DEF WorkerType
  <2>6. BusyQueue' /\ SlotInRange'
    BY <2>1 DEF BusyQueue, SlotInRange, WorkerType
  <2> QED BY <2>3, <2>4, <2>5, <2>6
<1>5. CASE PostStatus(c)
  <2> USE <1>5 DEF PostStatus, Drained, WorkerGoes, tableVars, rpcVars
  <2>1. queue[c] \in Seq(Nat) /\ queue[c] # <<>>
    BY DEF WorkerType, BusyQueue
  <2>2. /\ Tail(queue[c]) \in Seq(Nat)
        /\ Len(queue[c]) > 1 => Tail(queue[c]) # <<>>
    BY <2>1, QueueParts
  <2>3. \/ UNCHANGED spc
        \/ \E s \in Senders : spc[s] = "wait" /\ spc' = [spc EXCEPT ![s] = "woken"]
    BY DEF SignalStatus
  <2>4. TableType' /\ RpcType'
    BY DEF TableType, RpcType
  <2>5. StatusType'
    BY DEF StatusType
  <2>6. SenderType'
    BY <2>3 DEF SenderType
  <2>7. WorkerType'
    <3>1. queue' = [queue EXCEPT ![c] = Tail(queue[c])]
      OBVIOUS
    <3>2. queue' \in [Clients -> Seq(Nat)]
      BY <2>2, <3>1 DEF WorkerType
    <3> QED BY <3>2 DEF WorkerType
  <2>8. BusyQueue'
    BY <2>2 DEF BusyQueue, WorkerType
  <2>9. SlotInRange'
    BY <2>3 DEF SlotInRange, SenderType
  <2> QED BY <2>4, <2>5, <2>6, <2>7, <2>8, <2>9
<1>6. CASE Shutdown(c)
  <2> USE <1>6 DEF Shutdown, WorkerGoes, senderVars, statusVars, rpcVars
  <2>1. TableType'
    BY DEF TableType
  <2>2. SenderType' /\ StatusType' /\ RpcType'
    BY DEF SenderType, StatusType, RpcType
  <2>3. WorkerType'
    BY DEF WorkerType
  <2>4. BusyQueue' /\ SlotInRange'
    BY DEF BusyQueue, SlotInRange, WorkerType
  <2> QED BY <2>1, <2>2, <2>3, <2>4
<1> QED BY <1>1, <1>2, <1>3, <1>4, <1>5, <1>6 DEF WorkerStep

\* The steps of the server thread keep the types.
LEMMA RpcStepType ==
  ASSUME TypeInv, Register \/ RpcStep
  PROVE  TypeInv'
<1> USE ConnectorAssumption DEF TypeInv, TypeOK, Slots
<1>1. CASE Register
  <2> USE <1>1 DEF Register, workerVars, senderVars, statusVars
  <2>1. WorkerType' /\ SenderType' /\ StatusType'
    BY DEF WorkerType, SenderType, StatusType
  <2>2. TableType' /\ RpcType'
    BY DEF TableType, RpcType, Threads
  <2>3. BusyQueue' /\ SlotInRange'
    BY DEF BusyQueue, SlotInRange
  <2> QED BY <2>1, <2>2, <2>3
<1>2. CASE FindRegistered
  <2> USE <1>2 DEF FindRegistered, tableVars, workerVars, senderVars, statusVars
  <2>1. TableType' /\ WorkerType' /\ SenderType' /\ StatusType'
    BY DEF TableType, WorkerType, SenderType, StatusType
  <2>2. PICK i \in rpos..MaxClients :
           IsRegistered(i) /\ rpos' = i /\ rcur' = clients[i]
    OBVIOUS
  <2>3. i \in Slots /\ rcur' \in Clients
    BY <2>2 DEF RpcType, TableType, IsRegistered
  <2>4. RpcType'
    BY <2>2, <2>3 DEF RpcType
  <2>5. BusyQueue' /\ SlotInRange'
    BY <2>2, <2>3 DEF BusyQueue, SlotInRange
  <2> QED BY <2>1, <2>4, <2>5
<1>3. CASE MarkDead
  <2> USE <1>3 DEF MarkDead, NextSlot, WakeWorker, senderVars, statusVars
  <2>1. SenderType' /\ StatusType'
    BY DEF SenderType, StatusType
  <2>2. TableType' /\ WorkerType'
    BY DEF TableType, WorkerType
  <2>3. RpcType'
    BY DEF RpcType, SlotInRange
  <2>4. BusyQueue' /\ SlotInRange'
    BY DEF BusyQueue, SlotInRange, WorkerType
  <2> QED BY <2>1, <2>2, <2>3, <2>4
<1>4. CASE ReleaseTable \/ JoinDead
  <2> USE <1>4 DEF ReleaseTable, JoinDead, tableVars, workerVars, senderVars, statusVars
  <2>1. WorkerType' /\ SenderType' /\ StatusType'
    BY DEF WorkerType, SenderType, StatusType
  <2>2. TableType' /\ RpcType'
    BY DEF TableType, RpcType
  <2>3. BusyQueue' /\ SlotInRange'
    BY DEF BusyQueue, SlotInRange
  <2> QED BY <2>1, <2>2, <2>3
<1>5. CASE PlaceClient \/ RefuseClient
  <2> USE <1>5 DEF PlaceClient, RefuseClient, EndRegister, WorkerGoes, senderVars, statusVars
  <2>1. SenderType' /\ StatusType'
    BY DEF SenderType, StatusType
  <2>2. TableType' /\ RpcType'
    BY DEF TableType, RpcType
  <2>3. WorkerType' /\ BusyQueue' /\ SlotInRange'
    BY DEF WorkerType, BusyQueue, SlotInRange
  <2> QED BY <2>1, <2>2, <2>3
<1> QED BY <1>1, <1>2, <1>3, <1>4, <1>5 DEF RpcStep

\* So does every step of the system.
LEMMA NextType == TypeInv /\ [Next]_vars => TypeInv'
<1> SUFFICES ASSUME TypeInv, [Next]_vars PROVE TypeInv'
  OBVIOUS
<1>1. CASE SpuriousWakeup
  <2> USE <1>1 DEF SpuriousWakeup, WorkerGoes, tableVars, statusVars, rpcVars, TypeInv, TypeOK
  <2>1. TableType' /\ StatusType' /\ RpcType'
    BY DEF TableType, StatusType, RpcType
  <2>2. WorkerType' /\ SenderType'
    BY DEF WorkerType, SenderType
  <2>3. BusyQueue' /\ SlotInRange'
    BY DEF BusyQueue, SlotInRange, WorkerType, SenderType
  <2> QED BY <2>1, <2>2, <2>3
<1>2. CASE UNCHANGED vars
  BY <1>2 DEF vars, tableVars, workerVars, senderVars, statusVars, rpcVars, TypeInv, TypeOK,
     TableType, WorkerType, SenderType, StatusType, RpcType, BusyQueue, SlotInRange
<1> QED BY <1>1, <1>2, SenderStepType, WorkerStepType, RpcStepType DEF Next

\* The type invariant: every variable keeps the type its declaration in the C
\* code gives it, in every reachable state.
THEOREM TypeCorrect == Spec => []TypeOK
<1>1. TypeInv => TypeOK
  BY DEF TypeInv
<1> QED BY <1>1, InitType, NextType, PTL DEF Spec

------------------------------------------------------------------------------
(***************************************************************************)
(* The table.  UniqueRegistration and NoDanglingPointer are not inductive: *)
(* they hold because whoever enumerates clients[] has the mutex, because   *)
(* an entry's worker runs, and because the server thread, between marking  *)
(* the old entries and placing the new one, knows all entries of the key   *)
(* it registers.                                                           *)
(***************************************************************************)

\* An entry of the table is allocated, holds a registration and is entered once.
TableOK ==
    /\ \A i \in Slots : clients[i] # NoClient =>
          wpc[clients[i]] # "free" /\ reg[clients[i]] \in Registrations
    /\ \A i, j \in Slots : clients[i] # NoClient /\ clients[i] = clients[j] => i = j

\* Who enumerates the table has its mutex.
LockOK ==
    /\ \A s \in Senders : spc[s] \in {"scan", "enqueue"} => mutex = s
    /\ rpc \in {"scan", "mark"} => mutex = Rpc

\* A pointer taken from the table is still the entry it was taken from.
PointerOK ==
    /\ \A s \in Senders : cur[s] # NoClient =>
          spc[s] = "enqueue" /\ cur[s] = clients[pos[s]]
    /\ rcur # NoClient => rpc = "mark" /\ rcur = clients[rpos]

\* The entries of the key being registered that the server thread passed are
\* dead, all of them when it joins, and there are none when it places.
DeadOK ==
    /\ rpc # "idle" => req \in Registrations
    /\ rpc \in {"scan", "mark"} =>
          \A i \in Slots : i < rpos /\ IsRegistered(i) => clients[i] \in dead
    /\ rpc = "join" => \A i \in Slots : IsRegistered(i) => clients[i] \in dead
    /\ rpc = "place" => \A i \in Slots : ~IsRegistered(i)

TableInv ==
    TypeInv /\ TableOK /\ LockOK /\ PointerOK /\ DeadOK /\ UniqueRegistration

LEMMA InitTable == Init => TableInv
<1> SUFFICES ASSUME Init PROVE TableInv
  OBVIOUS
<1>1. TableOK /\ UniqueRegistration
  BY DEF Init, TableOK, UniqueRegistration
<1>2. LockOK /\ PointerOK /\ DeadOK
  BY DEF Init, LockOK, PointerOK, DeadOK
<1> QED BY <1>1, <1>2, InitType DEF TableInv

\* A step that leaves the entries alone and ends no worker keeps what holds of
\* the entries.
LEMMA TableUntouched ==
  ASSUME TableInv, UNCHANGED <<clients, reg>>,
         \A c \in Clients : wpc[c] # "free" => wpc'[c] # "free"
  PROVE  TableOK' /\ UniqueRegistration'
<1>1. \A i \in Slots : clients[i] \in Clients \cup {NoClient}
  BY DEF TableInv, TypeInv, TypeOK, TableType
<1> QED BY <1>1 DEF TableInv, TableOK, UniqueRegistration

\* A step that also leaves the server thread alone keeps what it knows.
LEMMA DeadUntouched ==
  ASSUME TableInv, UNCHANGED <<clients, reg, rpc, req, rpos, dead>>
  PROVE  DeadOK'
  BY DEF TableInv, DeadOK, IsRegistered

LEMMA SenderStepTable ==
  ASSUME TableInv, NEW s \in Senders, sendIoTMessage(s) \/ SenderStep(s)
  PROVE  TableInv'
<1>1. TypeInv'
  BY SenderStepType DEF TableInv
<1>2. /\ UNCHANGED <<clients, reg, rpc, req, rpos, rcur, dead>>
      /\ \A c \in Clients : wpc[c] # "free" => wpc'[c] # "free"
  <2>1. CASE sendIoTMessage(s)
    BY <2>1 DEF sendIoTMessage, tableVars, workerVars, rpcVars
  <2>2. CASE DispatchMessage(s)
    BY <2>2 DEF DispatchMessage, workerVars, rpcVars
  <2>3. CASE FindMatch(s)
    BY <2>3 DEF FindMatch, tableVars, workerVars, rpcVars
  <2>4. CASE EnqueueMessage(s)
    BY <2>4 DEF EnqueueMessage, WakeWorker, tableVars, rpcVars, TableInv, TypeInv, TypeOK,
       WorkerType
  <2>5. CASE DispatchReturns(s)
    BY <2>5 DEF DispatchReturns, workerVars, rpcVars
  <2>6. CASE StatusTimeout(s) \/ StatusReturns(s)
    BY <2>6 DEF StatusTimeout, StatusReturns, tableVars, workerVars, rpcVars
  <2> QED BY <2>1, <2>2, <2>3, <2>4, <2>5, <2>6 DEF SenderStep
<1>3. TableOK' /\ UniqueRegistration' /\ DeadOK'
  BY <1>2, TableUntouched, DeadUntouched
<1> USE ConnectorAssumption DEF TableInv, TypeInv, TypeOK, SenderType, LockOK, PointerOK
<1>4. CASE sendIoTMessage(s)
  BY <1>1, <1>2, <1>3, <1>4 DEF sendIoTMessage, tableVars
<1>5. CASE DispatchMessage(s)
  BY <1>1, <1>2, <1>3, <1>5 DEF DispatchMessage, TableFree
<1>6. CASE FindMatch(s)
  <2>1. PICK i \in pos[s]..MaxClients :
           \/ /\ pos' = [pos EXCEPT ![s] = i]
              /\ cur' = [cur EXCEPT ![s] = clients[i]]
              /\ spc' = [spc EXCEPT ![s] = "enqueue"]
           \/ /\ pos' = [pos EXCEPT ![s] = i + 1]
              /\ UNCHANGED <<cur, spc>>
    BY <1>6 DEF FindMatch, NextSlot
  <2>2. spc[s] = "scan" /\ cur[s] = NoClient /\ UNCHANGED mutex
    BY <1>6 DEF FindMatch, tableVars
  <2>3. LockOK'
    BY <1>2, <2>1, <2>2
  <2>4. PointerOK'
    BY <1>2, <2>1, <2>2
  <2> QED BY <1>1, <1>3, <2>3, <2>4
<1>7. CASE EnqueueMessage(s)
  BY <1>1, <1>2, <1>3, <1>7 DEF EnqueueMessage, tableVars
<1>8. CASE DispatchReturns(s)
  <2>1. /\ spc[s] = "scan"
        /\ mutex = s
        /\ mutex' = NoThread
        /\ cur' = cur
    BY <1>8 DEF DispatchReturns
  <2>2. \E place \in {"wait", "idle"} : spc' = [spc EXCEPT ![s] = place]
    BY <1>8 DEF DispatchReturns, CallEnds
  <2>3. pos' = [pos EXCEPT ![s] = 1]
    BY <1>8 DEF DispatchReturns
  <2>4. LockOK'
    BY <1>2, <2>1, <2>2
  <2>5. PointerOK'
    BY <1>2, <2>1, <2>2, <2>3
  <2> QED BY <1>1, <1>3, <2>4, <2>5
<1>9. CASE StatusTimeout(s)
  BY <1>1, <1>2, <1>3, <1>9 DEF StatusTimeout, tableVars
<1>10. CASE StatusReturns(s)
  BY <1>1, <1>2, <1>3, <1>10 DEF StatusReturns, CallEnds, tableVars
<1> QED BY <1>4, <1>5, <1>6, <1>7, <1>8, <1>9, <1>10 DEF SenderStep

\* A worker that ends takes its client off the table under the mutex, when
\* nobody holds a pointer; its other steps do not touch the table.
LEMMA WorkerStepTable ==
  ASSUME TableInv, NEW c \in Clients, WorkerStep(c)
  PROVE  TableInv'
<1>1. TypeInv'
  BY WorkerStepType DEF TableInv
<1> USE ConnectorAssumption DEF TableInv, TypeInv, TypeOK
<1>2. CASE Shutdown(c)
  <2>1. /\ mutex = NoThread
        /\ clients' = [i \in Slots |-> IF clients[i] = c THEN NoClient ELSE clients[i]]
        /\ reg' = [reg EXCEPT ![c] = NoReg]
        /\ wpc' = [wpc EXCEPT ![c] = "free"]
        /\ UNCHANGED <<mutex, senderVars, rpcVars>>
    BY <1>2 DEF Shutdown, TableFree, WorkerGoes
  <2>2. \A i \in Slots : clients'[i] # NoClient =>
           /\ clients'[i] = clients[i]
           /\ clients[i] \in Clients
           /\ wpc'[clients[i]] = wpc[clients[i]]
           /\ reg'[clients[i]] = reg[clients[i]]
    BY <2>1 DEF TableType, WorkerType
  <2>3. TableOK' /\ UniqueRegistration'
    BY <2>2 DEF TableOK, UniqueRegistration
  <2>4. /\ \A s \in Senders : cur[s] = NoClient
        /\ rcur = NoClient
    BY <2>1 DEF LockOK, PointerOK, Threads
  <2>5. LockOK' /\ PointerOK'
    BY <2>1, <2>4 DEF LockOK, PointerOK, senderVars, rpcVars
  <2>6. DeadOK'
    BY <2>1, <2>2 DEF DeadOK, IsRegistered, rpcVars
  <2> QED BY <1>1, <2>3, <2>5, <2>6
<1>3. CASE /\ UNCHANGED <<clients, reg, mutex, cur, pos, rpcVars>>
           /\ \A d \in Clients : wpc[d] # "free" => wpc'[d] # "free"
           /\ \A s \in Senders : spc'[s] \in {"scan", "enqueue"} \/ spc[s] \in {"scan", "enqueue"}
                 => spc'[s] = spc[s]
  <2>1. TableOK' /\ UniqueRegistration' /\ DeadOK'
    BY <1>3, TableUntouched, DeadUntouched DEF rpcVars
  <2>2. LockOK' /\ PointerOK'
    BY <1>3 DEF LockOK, PointerOK, rpcVars
  <2> QED BY <1>1, <2>1, <2>2
<1>4. ASSUME ConnectToClient(c) \/ WaitForMessage(c) \/ WaitTimeout(c) PROVE TableInv'
  <2>1. UNCHANGED <<tableVars, senderVars, rpcVars>>
    BY <1>4 DEF ConnectToClient, WaitForMessage, WaitTimeout
  <2>2. \E place \in {"loop", "shutdown", "wait", "timedout"} : wpc' = [wpc EXCEPT ![c] = place]
    BY <1>4 DEF ConnectToClient, WaitForMessage, WaitTimeout, WorkerGoes
  <2> QED BY <1>3, <2>1, <2>2 DEF tableVars, senderVars, WorkerType
<1>5. ASSUME Wake(c) \/ Ping(c) \/ SendMessage(c) PROVE TableInv'
  <2>1. UNCHANGED <<tableVars, senderVars, rpcVars>>
    BY <1>5 DEF Wake, Ping, SendMessage
  <2>2. \E place \in {"loop", "shutdown", "ping", "send", "status"} :
           wpc' = [wpc EXCEPT ![c] = place]
    BY <1>5 DEF Wake, Ping, SendMessage, WorkerGoes
  <2> QED BY <1>3, <2>1, <2>2 DEF tableVars, senderVars, WorkerType
<1>6. ASSUME PostStatus(c) PROVE TableInv'
  <2>1. UNCHANGED <<tableVars, cur, pos, rpcVars>>
    BY <1>6 DEF PostStatus
  <2>2. \E place \in {"loop", "shutdown", "send"} : wpc' = [wpc EXCEPT ![c] = place]
    BY <1>6 DEF PostStatus, WorkerGoes
  <2>3. \/ UNCHANGED spc
        \/ \E s \in Senders : spc[s] = "wait" /\ spc' = [spc EXCEPT ![s] = "woken"]
    BY <1>6 DEF PostStatus, SignalStatus
  <2> QED BY <1>3, <2>1, <2>2, <2>3 DEF tableVars, WorkerType, SenderType
<1> QED BY <1>2, <1>4, <1>5, <1>6 DEF WorkerStep

\* The server thread places a client only when the table has none of its key:
\* it marked those it found, and they have all left.
LEMMA RpcStepTable ==
  ASSUME TableInv, Register \/ RpcStep
  PROVE  TableInv'
<1>1. TypeInv'
  BY RpcStepType DEF TableInv
<1> USE ConnectorAssumption DEF TableInv, TypeInv, TypeOK
<1>2. CASE Register
  <2>1. UNCHANGED <<clients, reg, wpc, senderVars, rcur, dead>>
    BY <1>2 DEF Register, workerVars
  <2>2. TableOK' /\ UniqueRegistration'
    BY <2>1, TableUntouched
  <2>3. mutex = NoThread /\ mutex' = Rpc /\ rpc = "idle" /\ rpc' = "scan"
        /\ rpos' = 1 /\ req' \in Registrations
    BY <1>2 DEF Register, TableFree
  <2>4. LockOK' /\ PointerOK'
    BY <2>1, <2>3 DEF LockOK, PointerOK, senderVars
  <2>5. DeadOK'
    BY <2>3 DEF DeadOK, Slots
  <2> QED BY <1>1, <2>2, <2>4, <2>5
<1>3. CASE FindRegistered
  <2>1. UNCHANGED <<clients, reg, mutex, wpc, senderVars, req, dead>>
    BY <1>3 DEF FindRegistered, tableVars, workerVars
  <2>2. PICK i \in rpos..MaxClients :
           /\ \A j \in rpos..(i - 1) : ~IsRegistered(j)
           /\ rpos' = i
           /\ rcur' = clients[i]
    BY <1>3 DEF FindRegistered
  <2>3. rpc = "scan" /\ rpc' = "mark"
    BY <1>3 DEF FindRegistered
  <2>4. TableOK' /\ UniqueRegistration'
    BY <2>1, TableUntouched
  <2>5. LockOK' /\ PointerOK'
    BY <2>1, <2>2, <2>3 DEF LockOK, PointerOK, senderVars
  <2>6. DeadOK'
    <3>1. SUFFICES ASSUME NEW k \in Slots, k < i, IsRegistered(k) PROVE clients[k] \in dead
      BY <2>1, <2>2, <2>3 DEF DeadOK, IsRegistered
    <3>2. rpos \in Nat /\ i \in Nat
      BY <2>2 DEF RpcType
    <3>3. ~(k \in rpos..(i - 1))
      BY <2>2, <3>1
    <3>4. k < rpos
      BY <3>1, <3>2, <3>3 DEF Slots
    <3> QED BY <2>3, <3>1, <3>4 DEF DeadOK
  <2> QED BY <1>1, <2>4, <2>5, <2>6
<1>4. CASE MarkDead
  <2>1. /\ UNCHANGED <<clients, reg, mutex, senderVars, req>>
        /\ wpc' = WakeWorker(rcur)
        /\ dead' = dead \cup {rcur}
        /\ rpos' = rpos + 1
        /\ rcur' = NoClient
        /\ rpc = "mark"
        /\ rpc' = "scan"
    BY <1>4 DEF MarkDead, NextSlot
  <2>2. TableOK' /\ UniqueRegistration'
    BY <2>1, TableUntouched DEF WakeWorker, WorkerType
  <2>3. LockOK' /\ PointerOK'
    BY <2>1 DEF LockOK, PointerOK, senderVars
  <2>4. DeadOK'
    <3>1. SUFFICES ASSUME NEW k \in Slots, k < rpos + 1, IsRegistered(k)
                   PROVE  clients[k] \in dead \cup {rcur}
      BY <2>1 DEF DeadOK, IsRegistered
    <3>2. rpos \in Slots /\ rcur = clients[rpos]
      BY <2>1 DEF SlotInRange, PointerOK
    <3>3. k = rpos \/ k < rpos
      BY <3>1, <3>2 DEF Slots
    <3> QED BY <2>1, <3>1, <3>2, <3>3 DEF DeadOK
  <2> QED BY <1>1, <2>2, <2>3, <2>4
<1>5. CASE ReleaseTable
  <2>1. /\ UNCHANGED <<clients, reg, wpc, senderVars, req, dead, rcur>>
        /\ mutex' = NoThread
        /\ rpc = "scan"
        /\ rpc' = "join"
        /\ \A j \in rpos..MaxClients : ~IsRegistered(j)
    BY <1>5 DEF ReleaseTable, workerVars
  <2>2. TableOK' /\ UniqueRegistration'
    BY <2>1, TableUntouched
  <2>3. mutex = Rpc
    BY <2>1 DEF LockOK
  <2>4. LockOK' /\ PointerOK'
    BY <2>1, <2>3 DEF LockOK, PointerOK, senderVars
  <2>5. DeadOK'
    <3>1. SUFFICES ASSUME NEW k \in Slots, IsRegistered(k) PROVE clients[k] \in dead
      BY <2>1 DEF DeadOK, IsRegistered
    <3>2. k < rpos
      BY <2>1, <3>1 DEF Slots, RpcType
    <3> QED BY <2>1, <3>1, <3>2 DEF DeadOK
  <2> QED BY <1>1, <2>2, <2>4, <2>5
<1>6. CASE JoinDead
  <2>1. /\ UNCHANGED <<clients, reg, mutex, wpc, senderVars, req, rcur>>
        /\ rpc = "join"
        /\ rpc' = "place"
        /\ \A c \in dead : wpc[c] = "free"
    BY <1>6 DEF JoinDead, Joined, tableVars, workerVars
  <2>2. TableOK' /\ UniqueRegistration'
    BY <2>1, TableUntouched
  <2>3. LockOK' /\ PointerOK'
    BY <2>1 DEF LockOK, PointerOK, senderVars
  <2>4. \A i \in Slots : ~IsRegistered(i)
    BY <2>1 DEF DeadOK, TableOK, IsRegistered
  <2>5. DeadOK'
    BY <2>1, <2>4 DEF DeadOK, IsRegistered
  <2> QED BY <1>1, <2>2, <2>3, <2>5
<1>7. CASE PlaceClient
  <2>1. PICK i \in Slots, c \in Clients :
           /\ clients[i] = NoClient
           /\ wpc[c] = "free"
           /\ clients' = [clients EXCEPT ![i] = c]
           /\ reg' = [reg EXCEPT ![c] = req]
           /\ wpc' = [wpc EXCEPT ![c] = "start"]
    BY <1>7 DEF PlaceClient, WorkerGoes
  <2>2. /\ UNCHANGED <<mutex, senderVars, rcur, rpos>>
        /\ rpc = "place"
        /\ rpc' = "idle"
    BY <1>7 DEF PlaceClient, EndRegister
  <2>3. req \in Registrations /\ \A j \in Slots : ~IsRegistered(j)
    BY <2>2 DEF DeadOK
  <2>4. /\ clients'[i] = c
        /\ reg'[c] = req
        /\ wpc'[c] = "start"
        /\ \A j \in Slots : j # i => clients'[j] = clients[j]
        /\ \A j \in Slots : clients[j] # NoClient =>
              /\ clients[j] # c
              /\ wpc'[clients[j]] = wpc[clients[j]]
              /\ reg'[clients[j]] = reg[clients[j]]
    BY <2>1 DEF TableOK, TableType, WorkerType
  <2>5. TableOK'
    BY <2>3, <2>4 DEF TableOK
  <2>6. UniqueRegistration'
    BY <2>3, <2>4 DEF UniqueRegistration, IsRegistered
  <2>7. mutex = NoThread
    BY <1>7 DEF PlaceClient, TableFree
  <2>8. LockOK' /\ PointerOK'
    BY <2>2, <2>7 DEF LockOK, PointerOK, Threads, senderVars
  <2>9. DeadOK'
    BY <2>2 DEF DeadOK
  <2> QED BY <1>1, <2>5, <2>6, <2>8, <2>9
<1>8. CASE RefuseClient
  <2>1. UNCHANGED <<clients, reg, wpc, mutex, senderVars, rcur>> /\ rpc = "place" /\ rpc' = "idle"
    BY <1>8 DEF RefuseClient, EndRegister
  <2>2. TableOK' /\ UniqueRegistration'
    BY <2>1, TableUntouched
  <2>3. LockOK' /\ PointerOK' /\ DeadOK'
    BY <2>1 DEF LockOK, PointerOK, DeadOK, senderVars
  <2> QED BY <1>1, <2>2, <2>3
<1> QED BY <1>2, <1>3, <1>4, <1>5, <1>6, <1>7, <1>8 DEF RpcStep

LEMMA NextTable == TableInv /\ [Next]_vars => TableInv'
<1> SUFFICES ASSUME TableInv, [Next]_vars PROVE TableInv'
  OBVIOUS
<1>1. TypeInv'
  BY NextType DEF TableInv
<1>2. CASE SpuriousWakeup \/ UNCHANGED vars
  <2>1. /\ UNCHANGED <<clients, reg, mutex, cur, pos, rpc, req, rpos, rcur, dead>>
        /\ \A c \in Clients : wpc[c] # "free" => wpc'[c] # "free"
        /\ \A s \in Senders : spc'[s] = spc[s] \/ (spc[s] = "wait" /\ spc'[s] = "woken")
    BY <1>2 DEF SpuriousWakeup, WorkerGoes, vars, tableVars, workerVars, senderVars, statusVars,
       rpcVars, TableInv, TypeInv, TypeOK, WorkerType, SenderType
  <2>2. TableOK' /\ UniqueRegistration' /\ DeadOK'
    BY <2>1, TableUntouched, DeadUntouched
  <2>3. LockOK' /\ PointerOK'
    BY <2>1 DEF TableInv, LockOK, PointerOK
  <2> QED BY <1>1, <2>2, <2>3 DEF TableInv
<1> QED BY <1>2, SenderStepTable, WorkerStepTable, RpcStepTable DEF Next

\* However registrations, disconnections and messages interleave, clients[] has
\* at most one entry of a key, and no thread that took a pointer from it finds
\* the structure freed.
THEOREM RegistrationUnique == Spec => []UniqueRegistration
<1>1. TableInv => UniqueRegistration
  BY DEF TableInv
<1> QED BY <1>1, InitTable, NextTable, PTL DEF Spec

THEOREM NoUseAfterFree == Spec => []NoDanglingPointer
<1>1. TableInv => NoDanglingPointer
  <2> SUFFICES ASSUME TableInv PROVE NoDanglingPointer
    OBVIOUS
  <2>1. ASSUME NEW s \in Senders, cur[s] # NoClient PROVE wpc[cur[s]] # "free"
    BY <2>1 DEF TableInv, TypeInv, SlotInRange, PointerOK, TableOK
  <2>2. ASSUME rcur # NoClient PROVE wpc[rcur] # "free"
    BY <2>2 DEF TableInv, TypeInv, SlotInRange, PointerOK, TableOK
  <2> QED BY <2>1, <2>2 DEF NoDanglingPointer
<1> QED BY <1>1, InitTable, NextTable, PTL DEF Spec

\* Which steps change the entries of the table: only the end of a worker and
\* the placing of a client, and only when nobody has the mutex.
LEMMA TableSteps ==
  ASSUME TableInv, [Next]_vars
  PROVE  \/ UNCHANGED <<clients, reg>>
         \/ \E c \in Clients : Shutdown(c)
         \/ PlaceClient
<1>1. CASE \E s \in Senders : sendIoTMessage(s) \/ SenderStep(s)
  BY <1>1 DEF SenderStep, sendIoTMessage, DispatchMessage, FindMatch, EnqueueMessage,
     DispatchReturns, StatusTimeout, StatusReturns, tableVars
<1>2. CASE \E c \in Clients : WorkerStep(c)
  BY <1>2 DEF WorkerStep, ConnectToClient, WaitForMessage, WaitTimeout, Wake, Ping,
     SendMessage, PostStatus, tableVars
<1>3. CASE Register \/ RpcStep
  BY <1>3 DEF RpcStep, Register, FindRegistered, MarkDead, ReleaseTable, JoinDead,
     RefuseClient, tableVars
<1>4. CASE SpuriousWakeup \/ UNCHANGED vars
  BY <1>4 DEF SpuriousWakeup, vars, tableVars
<1> QED BY <1>1, <1>2, <1>3, <1>4 DEF Next

\* Nobody changes the table while another thread enumerates it.
THEOREM ListStable == Spec => ListStableWhileEnumerated
<1>1. TableInv /\ [Next]_vars =>
        [ (rpc \in {"scan", "mark"} \/ \E s \in Senders : spc[s] \in {"scan", "enqueue"})
          => clients' = clients ]_vars
  <2> SUFFICES ASSUME TableInv, [Next]_vars,
                      rpc \in {"scan", "mark"}
                        \/ \E s \in Senders : spc[s] \in {"scan", "enqueue"}
               PROVE  clients' = clients
    OBVIOUS
  <2>1. mutex # NoThread
    BY ConnectorAssumption DEF TableInv, LockOK
  <2>2. ~PlaceClient /\ \A c \in Clients : ~Shutdown(c)
    BY <2>1 DEF PlaceClient, Shutdown, TableFree
  <2> QED BY <2>2, TableSteps
<1> QED BY <1>1, InitTable, NextTable, PTL DEF Spec, ListStableWhileEnumerated

\* The connector's table implements the registry: a registration that succeeds
\* is one step Register, a client that goes is one step Leave, and no other step
\* of any thread is visible.
THEOREM RegistryImplemented == Spec => ImplementsRegistry
<1> DEFINE slotOf == [i \in Slots |-> IF clients[i] = NoClient THEN NoReg
                                      ELSE reg[clients[i]].key]
<1>1. Init => Registry!Init
  BY DEF Init, Registry!Init, Registry!Slots, Slots
<1>2. TableInv /\ [Next]_vars => [Registry!Next]_slotOf
  <2> SUFFICES ASSUME TableInv, [Next]_vars PROVE [Registry!Next]_slotOf
    OBVIOUS
  <2>1. CASE UNCHANGED <<clients, reg>>
    BY <2>1
  <2>2. ASSUME NEW c \in Clients, Shutdown(c) PROVE [Registry!Next]_slotOf
    <3>1. /\ clients' = [i \in Slots |-> IF clients[i] = c THEN NoClient ELSE clients[i]]
          /\ reg' = [reg EXCEPT ![c] = NoReg]
      BY <2>2 DEF Shutdown
    <3>2. CASE \A i \in Slots : clients[i] # c
      <4>1. \A i \in Slots : clients'[i] = clients[i]
              /\ (clients[i] # NoClient => reg'[clients[i]] = reg[clients[i]])
        BY <3>1, <3>2 DEF TableInv, TypeInv, TypeOK, TableType
      <4> QED BY <4>1
    <3>3. ASSUME NEW i \in Slots, clients[i] = c PROVE Registry!Leave(i)
      <4>1. \A j \in Slots : j # i => clients[j] # c
        BY <3>3, ConnectorAssumption DEF TableInv, TableOK
      <4>2. slotOf[i] # NoReg
        BY <3>3, ConnectorAssumption DEF TableInv, TableOK, Registrations
      <4>3. slotOf' = [slotOf EXCEPT ![i] = NoReg]
        <5>1. \A j \in Slots : slotOf'[j] = IF j = i THEN NoReg ELSE slotOf[j]
          BY <3>1, <3>3, <4>1 DEF TableInv, TypeInv, TypeOK, TableType
        <5> QED BY <5>1
      <4> QED BY <4>2, <4>3 DEF Registry!Leave
    <3> QED BY <3>2, <3>3 DEF Registry!Next, Registry!Slots, Slots
  <2>3. ASSUME PlaceClient PROVE \E k \in Keys : Registry!Register(k)
    <3>1. PICK i \in Slots, c \in Clients :
             /\ clients[i] = NoClient
             /\ \A j \in 1..(i - 1) : clients[j] # NoClient
             /\ wpc[c] = "free"
             /\ clients' = [clients EXCEPT ![i] = c]
             /\ reg' = [reg EXCEPT ![c] = req]
      BY <2>3 DEF PlaceClient
    <3>2. /\ req \in Registrations
          /\ \A j \in Slots : ~IsRegistered(j)
      BY <2>3 DEF PlaceClient, TableInv, DeadOK
    <3>3. req.key \in Keys /\ req.key # NoReg
      BY <3>2, ConnectorAssumption DEF Registrations
    <3>4. \A j \in Slots : slotOf[j] # req.key
      BY <3>2, <3>3 DEF IsRegistered
    <3>5. \A j \in 1..(i - 1) : j \in Slots /\ slotOf[j] # NoReg
      <4>1. SUFFICES ASSUME NEW j \in 1..(i - 1) PROVE j \in Slots /\ slotOf[j] # NoReg
        OBVIOUS
      <4>2. j \in Slots /\ clients[j] # NoClient
        BY <3>1, ConnectorAssumption DEF Slots
      <4>3. reg[clients[j]] \in Registrations
        BY <4>2 DEF TableInv, TableOK
      <4> QED BY <4>2, <4>3, ConnectorAssumption DEF Registrations
    <3>6. slotOf' = [slotOf EXCEPT ![i] = req.key]
      <4>1. \A j \in Slots : clients[j] # NoClient => clients[j] # c
        BY <3>1 DEF TableInv, TableOK
      <4>2. \A j \in Slots : slotOf'[j] = IF j = i THEN req.key ELSE slotOf[j]
        BY <3>1, <4>1, ConnectorAssumption DEF TableInv, TypeInv, TypeOK, TableType
      <4> QED BY <4>2
    <3>7. slotOf[i] = NoReg
      BY <3>1
    <3> QED BY <3>1, <3>3, <3>4, <3>5, <3>6, <3>7
         DEF Registry!Register, Registry!Slots, Slots
  <2> QED BY <2>1, <2>2, <2>3, TableSteps DEF Registry!Next
<1> QED BY <1>1, <1>2, InitTable, NextTable, PTL
     DEF Spec, ImplementsRegistry, Registry!Spec

------------------------------------------------------------------------------
(***************************************************************************)
(* The lock cycle is a deadlock: no step of any thread leads out of it.    *)
(***************************************************************************)

\* A sender that dispatches has msgStatusMutex, and a worker in an RPC or about
\* to post a status has its client's mutex.
HoldOK ==
    /\ \A s \in Senders : spc[s] \in {"lock", "scan", "enqueue"} => msgStatusMutex = s
    /\ \A c \in Clients : wpc[c] \in {"ping", "send", "status"} => cmutex[c] = c

LEMMA InitHold == Init => HoldOK
  BY DEF Init, HoldOK

LEMMA NextHold == TypeInv /\ HoldOK /\ [Next]_vars => HoldOK'
<1> SUFFICES ASSUME TypeInv, HoldOK, [Next]_vars PROVE HoldOK'
  OBVIOUS
<1> USE ConnectorAssumption DEF TypeInv, TypeOK, WorkerType, SenderType, HoldOK
<1>1. ASSUME NEW s \in Senders, sendIoTMessage(s) PROVE HoldOK'
  BY <1>1 DEF sendIoTMessage, workerVars
<1>2. ASSUME NEW s \in Senders, DispatchMessage(s) PROVE HoldOK'
  BY <1>2 DEF DispatchMessage, workerVars, statusVars
<1>3. ASSUME NEW s \in Senders, FindMatch(s) PROVE HoldOK'
  <2>1. spc[s] = "scan" /\ (spc' = [spc EXCEPT ![s] = "enqueue"] \/ UNCHANGED spc)
    BY <1>3 DEF FindMatch
  <2> QED BY <1>3, <2>1 DEF FindMatch, workerVars, statusVars
<1>4. ASSUME NEW s \in Senders, EnqueueMessage(s) PROVE HoldOK'
  BY <1>4 DEF EnqueueMessage, WakeWorker, statusVars
<1>5. ASSUME NEW s \in Senders, DispatchReturns(s) PROVE HoldOK'
  <2>1. /\ spc[s] = "scan"
        /\ UNCHANGED <<wpc, cmutex>>
    BY <1>5 DEF DispatchReturns, workerVars
  <2>2. spc' = [spc EXCEPT ![s] = "wait"] \/ spc' = [spc EXCEPT ![s] = "idle"]
    BY <1>5 DEF DispatchReturns, CallEnds
  <2>3. \A t \in Senders : t # s => spc[t] \notin {"lock", "scan", "enqueue"}
    BY <2>1
  <2>4. \A t \in Senders : spc'[t] \notin {"lock", "scan", "enqueue"}
    BY <2>2, <2>3
  <2> QED BY <2>1, <2>4
<1>6. ASSUME NEW s \in Senders, StatusTimeout(s) \/ StatusReturns(s) PROVE HoldOK'
  BY <1>6 DEF StatusTimeout, StatusReturns, CallEnds, workerVars, statusVars
<1>7. ASSUME NEW c \in Clients,
             ConnectToClient(c) \/ WaitForMessage(c) \/ WaitTimeout(c) \/ SendMessage(c)
      PROVE  HoldOK'
  BY <1>7 DEF ConnectToClient, WaitForMessage, WaitTimeout, SendMessage, WorkerGoes,
     senderVars, statusVars
<1>8. ASSUME NEW c \in Clients, Wake(c) \/ Ping(c) PROVE HoldOK'
  BY <1>8 DEF Wake, Ping, WorkerGoes, senderVars, statusVars
<1>9. ASSUME NEW c \in Clients, PostStatus(c) PROVE HoldOK'
  <2>1. \/ UNCHANGED spc
        \/ \E s \in Senders : spc' = [spc EXCEPT ![s] = "woken"]
    BY <1>9 DEF PostStatus, SignalStatus
  <2>2. UNCHANGED msgStatusMutex
    BY <1>9 DEF PostStatus
  <2>3. \A s \in Senders : spc'[s] \in {"lock", "scan", "enqueue"} => spc'[s] = spc[s]
    BY <2>1
  <2>4. \/ wpc' = [wpc EXCEPT ![c] = "send"] /\ UNCHANGED cmutex
        \/ /\ wpc' = [wpc EXCEPT ![c] = "loop"] \/ wpc' = [wpc EXCEPT ![c] = "shutdown"]
           /\ cmutex' = [cmutex EXCEPT ![c] = NoThread]
    BY <1>9 DEF PostStatus, WorkerGoes
  <2>5. wpc[c] = "status"
    BY <1>9 DEF PostStatus
  <2>6. \A d \in Clients : wpc'[d] \in {"ping", "send", "status"} => cmutex'[d] = d
    BY <2>4, <2>5
  <2> QED BY <2>2, <2>3, <2>6
<1>10. ASSUME NEW c \in Clients, Shutdown(c) PROVE HoldOK'
  BY <1>10 DEF Shutdown, WorkerGoes, senderVars, statusVars
<1>11. ASSUME Register \/ RpcStep PROVE HoldOK'
  BY <1>11 DEF RpcStep, Register, FindRegistered, MarkDead, ReleaseTable, JoinDead,
     PlaceClient, RefuseClient, EndRegister, WakeWorker, WorkerGoes, workerVars,
     senderVars, statusVars
<1>12. CASE SpuriousWakeup \/ UNCHANGED vars
  BY <1>12 DEF SpuriousWakeup, WorkerGoes, vars, workerVars, senderVars, statusVars
<1> QED BY <1>1, <1>2, <1>3, <1>4, <1>5, <1>6, <1>7, <1>8, <1>9, <1>10, <1>11, <1>12
     DEF Next, SenderStep, WorkerStep

\* A lock cycle is never left: the sender waits for a client's mutex, or for the
\* table's while the server thread waits for that mutex, and the client's worker
\* waits for the sender's msgStatusMutex.
THEOREM LockCycleStays == Spec => LockCycleIsPermanent
<1>1. TableInv /\ HoldOK /\ [Next]_vars => [LockCycle => LockCycle']_vars
  <2> SUFFICES ASSUME TableInv, HoldOK, [Next]_vars,
                      NEW s \in Senders, NEW c \in Clients,
                      msgStatusMutex = s, wpc[c] = "status",
                      \/ spc[s] = "enqueue" /\ cur[s] = c
                      \/ spc[s] = "lock" /\ rpc = "mark" /\ rcur = c
               PROVE  /\ msgStatusMutex' = s
                      /\ wpc'[c] = "status"
                      /\ \/ spc'[s] = "enqueue" /\ cur'[s] = c
                         \/ spc'[s] = "lock" /\ rpc' = "mark" /\ rcur' = c
    BY DEF LockCycle
  <2> USE ConnectorAssumption DEF TableInv, TypeInv, TypeOK, WorkerType, SenderType
  <2>1. cmutex[c] # NoThread
    BY DEF HoldOK
  <2>2. rpc = "mark" => mutex = Rpc
    BY DEF LockOK
  <2>3. \A t \in Senders : spc[t] \in {"lock", "scan", "enqueue"} => t = s
    BY DEF HoldOK
  <2>4. ASSUME NEW t \in Senders, sendIoTMessage(t) \/ SenderStep(t)
        PROVE  /\ t # s
               /\ UNCHANGED <<msgStatusMutex, rpc, rcur>>
               /\ spc'[s] = spc[s]
               /\ cur'[s] = cur[s]
               /\ wpc'[c] = "status"
    <3>1. CASE sendIoTMessage(t)
      BY <2>3, <3>1 DEF sendIoTMessage
    <3>2. CASE DispatchMessage(t)
      BY <2>2, <2>3, <3>2 DEF DispatchMessage, TableFree
    <3>3. CASE FindMatch(t)
      BY <2>3, <3>3 DEF FindMatch
    <3>4. CASE EnqueueMessage(t)
      BY <2>1, <2>3, <3>4 DEF EnqueueMessage, ClientFree
    <3>5. CASE DispatchReturns(t)
      BY <2>3, <3>5 DEF DispatchReturns
    <3>6. CASE StatusTimeout(t)
      BY <2>3, <3>6 DEF StatusTimeout, workerVars, statusVars, rpcVars
    <3>7. CASE StatusReturns(t)
      BY <3>7 DEF StatusReturns
    <3> QED BY <2>4, <3>1, <3>2, <3>3, <3>4, <3>5, <3>6, <3>7 DEF SenderStep
  <2>5. ASSUME NEW d \in Clients, WorkerStep(d)
        PROVE  /\ UNCHANGED <<msgStatusMutex, rpc, rcur, cur>>
               /\ spc'[s] = spc[s]
               /\ wpc'[c] = "status"
    <3>1. ~PostStatus(d)
      BY DEF PostStatus
    <3>2. d # c
      BY <2>5, <3>1 DEF WorkerStep, ConnectToClient, WaitForMessage, WaitTimeout, Wake,
         Ping, SendMessage, Shutdown
    <3>3. CASE ConnectToClient(d) \/ WaitForMessage(d) \/ WaitTimeout(d) \/ SendMessage(d)
      BY <3>2, <3>3 DEF ConnectToClient, WaitForMessage, WaitTimeout, SendMessage,
         WorkerGoes, senderVars, statusVars, rpcVars
    <3>4. CASE Wake(d) \/ Ping(d) \/ Shutdown(d)
      BY <3>2, <3>4 DEF Wake, Ping, Shutdown, WorkerGoes, senderVars, statusVars, rpcVars
    <3> QED BY <2>5, <3>1, <3>3, <3>4 DEF WorkerStep
  <2>6. ASSUME Register \/ RpcStep
        PROVE  /\ UNCHANGED <<msgStatusMutex, spc, cur>>
               /\ rpc = "mark" /\ rcur = c => UNCHANGED <<rpc, rcur>>
               /\ wpc'[c] = "status"
    <3>1. CASE MarkDead
      BY <2>1, <3>1 DEF MarkDead, ClientFree, WakeWorker, senderVars, statusVars
    <3>2. CASE Register \/ FindRegistered \/ ReleaseTable \/ JoinDead
      BY <3>2 DEF Register, FindRegistered, ReleaseTable, JoinDead, workerVars, senderVars,
         statusVars
    <3>3. CASE PlaceClient \/ RefuseClient
      BY <3>3 DEF PlaceClient, RefuseClient, EndRegister, WorkerGoes, senderVars, statusVars
    <3> QED BY <2>6, <3>1, <3>2, <3>3 DEF RpcStep
  <2>7. CASE SpuriousWakeup \/ UNCHANGED vars
    BY <2>7 DEF SpuriousWakeup, WorkerGoes, vars, workerVars, senderVars, statusVars, rpcVars
  <2> QED BY <2>4, <2>5, <2>6, <2>7 DEF Next
<1>2. TableInv => TypeInv
  BY DEF TableInv
<1> QED BY <1>1, <1>2, InitTable, NextTable, InitHold, NextHold, PTL
     DEF Spec, LockCycleIsPermanent
------------------------------------------------------------------------------
(***************************************************************************)
(* The order of the messages.  A queue is sorted because messages are      *)
(* numbered and dispatched under one mutex, msgStatusMutex: the message    *)
(* being dispatched is the youngest of all, and it is not yet in the queue *)
(* of any client at a slot that the loop over clients[] has still to pass. *)
(***************************************************************************)

\* Everything client c was given, or is queued for it, is older than m.
Older(c, m) ==
    /\ lastSent[c] < m
    /\ \A k \in 1..Len(queue[c]) : queue[c][k] < m

Sorted(q) == \A k \in 1..(Len(q) - 1) : q[k] < q[k + 1]

\* The head of a client's queue has not been sent, or is being sent.
HeadIsNext(c) ==
    queue[c] # <<>> => \/ lastSent[c] < queue[c][1]
                       \/ wpc[c] = "status" /\ lastSent[c] = queue[c][1]

DispatchOrder ==
    /\ \A c \in Clients : Older(c, sent + 1)
    /\ \A s \in Senders : spc[s] \in {"lock", "scan", "enqueue"} => msg[s] = sent
    /\ \A s \in Senders : spc[s] = "lock" => \A c \in Clients : Older(c, sent)
    /\ \A s \in Senders : spc[s] \in {"scan", "enqueue"} =>
          \A i \in Slots : i >= pos[s] /\ clients[i] # NoClient => Older(clients[i], sent)

QueueOrder == \A c \in Clients : Sorted(queue[c]) /\ HeadIsNext(c)

OrderInv == DispatchOrder /\ QueueOrder

\* A younger message at the end keeps a queue sorted, and adds no message that
\* is not older than its successor.
LEMMA SortedAppend ==
  ASSUME NEW q \in Seq(Nat), NEW m \in Nat, Sorted(q),
         \A k \in 1..Len(q) : q[k] < m
  PROVE  /\ Sorted(Append(q, m))
         /\ \A n \in Nat : m < n => \A k \in 1..Len(Append(q, m)) : Append(q, m)[k] < n
         /\ Append(q, m)[1] = IF q = <<>> THEN m ELSE q[1]
<1> DEFINE a == Append(q, m)
<1>1. /\ Len(a) = Len(q) + 1
      /\ \A k \in 1..Len(q) : a[k] = q[k]
      /\ a[Len(q) + 1] = m
  BY AppendProperties
<1>2. /\ Len(q) \in Nat
      /\ q = <<>> => Len(q) = 0
      /\ q # <<>> => Len(q) # 0
      /\ \A k \in 1..Len(q) : q[k] \in Nat
  BY EmptySeq, LenProperties, ElementOfSeq
<1> HIDE DEF a
<1>3. Sorted(a)
  <2>1. SUFFICES ASSUME NEW k \in 1..Len(q) PROVE a[k] < a[k + 1]
    BY <1>1, <1>2 DEF Sorted
  <2>2. CASE k = Len(q)
    BY <1>1, <1>2, <2>2
  <2>3. CASE k # Len(q)
    <3>1. k \in 1..(Len(q) - 1) /\ k + 1 \in 1..Len(q)
      BY <1>2, <2>3
    <3> QED BY <1>1, <3>1 DEF Sorted
  <2> QED BY <2>2, <2>3
<1>4. \A n \in Nat : m < n => \A k \in 1..Len(a) : a[k] < n
  <2>1. SUFFICES ASSUME NEW n \in Nat, m < n, NEW k \in 1..(Len(q) + 1) PROVE a[k] < n
    BY <1>1
  <2>2. CASE k = Len(q) + 1
    BY <1>1, <2>1, <2>2
  <2>3. CASE k # Len(q) + 1
    <3>1. k \in 1..Len(q)
      BY <1>2, <2>3
    <3> QED BY <1>1, <1>2, <2>1, <3>1
  <2> QED BY <2>2, <2>3
<1>5. a[1] = IF q = <<>> THEN m ELSE q[1]
  BY <1>1, <1>2
<1> QED BY <1>3, <1>4, <1>5 DEF a

\* What is left of a sorted queue is sorted, is no younger, and starts after
\* the head that left.
LEMMA SortedTail ==
  ASSUME NEW q \in Seq(Nat), q # <<>>, Sorted(q)
  PROVE  /\ Sorted(Tail(q))
         /\ Tail(q) # <<>> => q[1] < Tail(q)[1]
         /\ \A n \in Nat : (\A k \in 1..Len(q) : q[k] < n)
                           => \A k \in 1..Len(Tail(q)) : Tail(q)[k] < n
<1> DEFINE t == Tail(q)
<1>1. /\ t \in Seq(Nat)
      /\ Len(t) = Len(q) - 1
      /\ \A k \in 1..Len(t) : t[k] = q[k + 1]
  BY HeadTailProperties
<1>2. /\ Len(q) \in Nat
      /\ t # <<>> => Len(t) \in Nat \ {0}
  BY <1>1, EmptySeq, LenProperties
<1> HIDE DEF t
<1>3. Sorted(t)
  <2>1. SUFFICES ASSUME NEW k \in 1..(Len(t) - 1) PROVE t[k] < t[k + 1]
    BY DEF Sorted
  <2>2. /\ k \in 1..Len(t) /\ k + 1 \in 1..Len(t) /\ k + 1 \in 1..(Len(q) - 1)
    BY <1>1, <1>2
  <2> QED BY <1>1, <2>2 DEF Sorted
<1>4. t # <<>> => q[1] < t[1]
  <2>1. t # <<>> => 1 \in 1..(Len(q) - 1) /\ 1 \in 1..Len(t)
    BY <1>1, <1>2
  <2>2. 1 \in 1..(Len(q) - 1) => q[1] < q[1 + 1]
    BY DEF Sorted
  <2>3. 1 \in 1..Len(t) => t[1] = q[1 + 1]
    BY <1>1
  <2> QED BY <2>1, <2>2, <2>3
<1>5. \A n \in Nat : (\A k \in 1..Len(q) : q[k] < n) => \A k \in 1..Len(t) : t[k] < n
  <2>1. \A k \in 1..Len(t) : k + 1 \in 1..Len(q)
    BY <1>1, <1>2
  <2> QED BY <1>1, <2>1
<1> QED BY <1>3, <1>4, <1>5 DEF t

\* Old is old for every younger message.
LEMMA OlderGrows ==
  ASSUME TypeInv, NEW c \in Clients, NEW m \in Nat, NEW n \in Nat, m <= n, Older(c, m)
  PROVE  Older(c, n)
<1>1. lastSent[c] \in Nat /\ queue[c] \in Seq(Nat)
  BY DEF TypeInv, TypeOK, WorkerType
<1>2. \A k \in 1..Len(queue[c]) : queue[c][k] \in Nat
  BY <1>1, ElementOfSeq
<1> QED BY <1>1, <1>2 DEF Older

LEMMA InitOrder == Init => OrderInv
<1> SUFFICES ASSUME Init PROVE OrderInv
  OBVIOUS
<1>1. \A c \in Clients : queue[c] = <<>> /\ lastSent[c] = 0 /\ Len(queue[c]) = 0
  BY EmptySeq DEF Init
<1>2. QueueOrder
  BY <1>1 DEF QueueOrder, Sorted, HeadIsNext
<1>3. DispatchOrder
  BY <1>1 DEF DispatchOrder, Older, Init
<1> QED BY <1>2, <1>3 DEF OrderInv

\* A step that moves no message, starts no call, advances a loop over the table
\* if anything, and leaves the rest of the table to itself keeps the order.
LEMMA OrderUntouched ==
  ASSUME TableInv, TypeInv', OrderInv,
         UNCHANGED <<queue, lastSent, sent>>,
         \A c \in Clients : wpc[c] = "status" => wpc'[c] = "status",
         \A s \in Senders : spc'[s] \in {"lock", "scan", "enqueue"} =>
            /\ msg'[s] = msg[s]
            /\ \/ spc[s] = "lock"
               \/ /\ spc[s] \in {"scan", "enqueue"}
                  /\ spc'[s] # "lock"
                  /\ pos[s] <= pos'[s]
                  /\ clients' = clients
  PROVE  OrderInv'
<1>1. \A c \in Clients : HeadIsNext(c) => HeadIsNext(c)'
  BY DEF HeadIsNext
<1>2. QueueOrder'
  BY <1>1 DEF OrderInv, QueueOrder, Sorted
<1>3. ASSUME NEW c \in Clients PROVE Older(c, sent + 1)'
  BY DEF OrderInv, DispatchOrder, Older
<1>4. ASSUME NEW s \in Senders, spc'[s] \in {"lock", "scan", "enqueue"} PROVE msg'[s] = sent'
  BY <1>4 DEF OrderInv, DispatchOrder
<1>5. ASSUME NEW s \in Senders, spc'[s] = "lock", NEW c \in Clients PROVE Older(c, sent)'
  BY <1>5 DEF OrderInv, DispatchOrder, Older
<1>6. ASSUME NEW s \in Senders, spc'[s] \in {"scan", "enqueue"},
             NEW i \in Slots, i >= pos'[s], clients'[i] # NoClient
      PROVE  Older(clients'[i], sent)
  <2>1. clients'[i] \in Clients
    BY <1>6 DEF TypeInv, TypeOK, TableType
  <2>2. CASE spc[s] = "lock"
    BY <2>1, <2>2 DEF OrderInv, DispatchOrder
  <2>3. CASE spc[s] # "lock"
    <3>1. spc[s] \in {"scan", "enqueue"} /\ pos[s] <= pos'[s] /\ clients' = clients
      BY <1>6, <2>3
    <3>2. pos[s] \in Nat /\ pos'[s] \in Nat /\ i \in Nat
      BY ConnectorAssumption DEF TableInv, TypeInv, TypeOK, SenderType, Slots
    <3>3. i >= pos[s]
      BY <1>6, <3>1, <3>2
    <3> QED BY <1>6, <3>1, <3>3 DEF OrderInv, DispatchOrder
  <2> QED BY <2>2, <2>3
<1>7. ASSUME NEW s \in Senders, spc'[s] \in {"scan", "enqueue"},
             NEW i \in Slots, i >= pos'[s], clients'[i] # NoClient
      PROVE  Older(clients[i], sent)'
  BY <1>6, <1>7 DEF Older
<1>8. DispatchOrder'
  BY <1>3, <1>4, <1>5, <1>7 DEF DispatchOrder
<1> QED BY <1>2, <1>8 DEF OrderInv

LEMMA SenderStepOrder ==
  ASSUME TableInv, HoldOK, OrderInv, NEW s \in Senders, sendIoTMessage(s) \/ SenderStep(s)
  PROVE  OrderInv'
<1>1. TypeInv /\ TypeInv'
  BY SenderStepType DEF TableInv
<1>2. sent \in Nat /\ sent' \in Nat
  BY <1>1, ConnectorAssumption DEF TypeInv, TypeOK, SenderType
<1>3. CASE sendIoTMessage(s)
  <2>1. /\ UNCHANGED <<queue, lastSent, wpc>>
        /\ sent' = sent + 1
        /\ msg' = [msg EXCEPT ![s] = sent + 1]
        /\ spc' = [spc EXCEPT ![s] = "lock"]
        /\ msgStatusMutex = NoThread
    BY <1>3 DEF sendIoTMessage, workerVars
  <2>2. \A t \in Senders : spc[t] \notin {"lock", "scan", "enqueue"}
    BY <2>1, ConnectorAssumption DEF HoldOK
  <2>3. \A t \in Senders : t # s => spc'[t] \notin {"lock", "scan", "enqueue"}
    BY <1>1, <2>1, <2>2 DEF TypeInv, TypeOK, SenderType
  <2>4. spc'[s] = "lock" /\ msg'[s] = sent'
    BY <1>1, <2>1 DEF TypeInv, TypeOK, SenderType
  <2>5. QueueOrder'
    BY <2>1 DEF OrderInv, QueueOrder, Sorted, HeadIsNext
  <2>6. ASSUME NEW c \in Clients PROVE Older(c, sent)' /\ Older(c, sent + 1)'
    <3>1. Older(c, sent + 1)
      BY DEF OrderInv, DispatchOrder
    <3>2. Older(c, sent + 2)
      BY <1>1, <1>2, <3>1, OlderGrows
    <3>3. sent + 2 = (sent + 1) + 1
      BY <1>2
    <3> QED BY <2>1, <3>1, <3>2, <3>3 DEF Older
  <2>7. DispatchOrder'
    BY <2>3, <2>4, <2>6 DEF DispatchOrder
  <2> QED BY <2>5, <2>7 DEF OrderInv
<1>4. CASE DispatchMessage(s)
  <2>1. /\ UNCHANGED <<workerVars, sent, msg, clients>>
        /\ spc[s] = "lock"
        /\ spc' = [spc EXCEPT ![s] = "scan"]
    BY <1>4 DEF DispatchMessage
  <2>2. UNCHANGED pos \/ pos' = [pos EXCEPT ![s] = 1]
    BY <1>4 DEF DispatchMessage
  <2>3. \A t \in Senders : t # s => spc[t] \notin {"lock", "scan", "enqueue"}
    BY <2>1 DEF HoldOK
  <2> QED BY <1>1, <2>1, <2>3, OrderUntouched DEF workerVars, TypeInv, TypeOK, SenderType
<1>5. CASE FindMatch(s)
  <2>1. UNCHANGED <<workerVars, sent, msg, clients>> /\ spc[s] = "scan"
    BY <1>5 DEF FindMatch, tableVars
  <2>2. PICK i \in pos[s]..MaxClients :
           \/ pos' = [pos EXCEPT ![s] = i] /\ spc' = [spc EXCEPT ![s] = "enqueue"]
           \/ pos' = [pos EXCEPT ![s] = i + 1] /\ UNCHANGED spc
    BY <1>5 DEF FindMatch, NextSlot
  <2>3. pos[s] \in Nat /\ pos'[s] \in Nat /\ pos[s] <= pos'[s]
    BY <1>1, <2>2, ConnectorAssumption DEF TypeInv, TypeOK, SenderType
  <2>4. spc'[s] \in {"scan", "enqueue"} /\ \A t \in Senders : t # s => spc'[t] = spc[t]
    BY <1>1, <2>1, <2>2 DEF TypeInv, TypeOK, SenderType
  <2>5. \A t \in Senders : t # s => spc[t] \notin {"lock", "scan", "enqueue"}
    BY <2>1 DEF HoldOK
  <2> QED BY <1>1, <2>1, <2>3, <2>4, <2>5, OrderUntouched DEF workerVars
<1>6. CASE EnqueueMessage(s)
  <2> DEFINE c == cur[s]
             q == queue[c]
  <2>1. /\ spc[s] = "enqueue"
        /\ queue' = [queue EXCEPT ![c] = Append(q, msg[s])]
        /\ pos' = [pos EXCEPT ![s] = pos[s] + 1]
        /\ spc' = [spc EXCEPT ![s] = "scan"]
        /\ wpc' = WakeWorker(c)
        /\ UNCHANGED <<lastSent, sent, msg, clients>>
    BY <1>6 DEF EnqueueMessage, NextSlot, tableVars
  <2>2. /\ pos[s] \in Slots
        /\ msg[s] = sent
        /\ \A t \in Senders : t # s => spc[t] \notin {"lock", "scan", "enqueue"}
    BY <1>1, <2>1 DEF TypeInv, SlotInRange, OrderInv, DispatchOrder, HoldOK
  <2>3. c \in Clients \cup {NoClient} /\ \A t \in Senders : pos[t] \in Nat
    BY <1>1, ConnectorAssumption DEF TypeInv, TypeOK, SenderType, Slots
  <2>4. \A t \in Senders : t # s => spc'[t] \notin {"lock", "scan", "enqueue"}
    BY <1>1, <2>1, <2>2 DEF TypeInv, TypeOK, SenderType
  <2>5. spc'[s] = "scan" /\ pos'[s] = pos[s] + 1
    BY <1>1, <2>1 DEF TypeInv, TypeOK, SenderType
  <2>6. CASE c = NoClient
    <3>1. UNCHANGED <<queue, wpc>>
      BY <1>1, <2>1, <2>6, ConnectorAssumption DEF WakeWorker, TypeInv, TypeOK, WorkerType
    <3> QED BY <1>1, <2>1, <2>3, <2>4, <2>5, <3>1, OrderUntouched
  <2>7. CASE c \in Clients
    <3>1. c = clients[pos[s]] /\ \A i \in Slots : clients[i] = c => i = pos[s]
      BY <2>2, <2>7, ConnectorAssumption DEF TableInv, PointerOK, TableOK
    <3>2. Older(c, sent)
      BY <2>1, <2>2, <2>3, <2>7, <3>1, ConnectorAssumption DEF OrderInv, DispatchOrder
    <3>3. q \in Seq(Nat) /\ Sorted(q) /\ \A k \in 1..Len(q) : q[k] < sent
      BY <1>1, <2>7, <3>2 DEF TypeInv, TypeOK, WorkerType, OrderInv, QueueOrder, Older
    <3>4. queue'[c] = Append(q, sent)
      BY <1>1, <2>1, <2>2, <2>7 DEF TypeInv, TypeOK, WorkerType
    <3>5. /\ Sorted(queue'[c])
          /\ \A k \in 1..Len(queue'[c]) : queue'[c][k] < sent + 1
          /\ queue'[c][1] = IF q = <<>> THEN sent ELSE q[1]
      BY <1>2, <3>3, <3>4, SortedAppend
    <3>6. \A d \in Clients : d # c => queue'[d] = queue[d]
      BY <1>1, <2>1 DEF TypeInv, TypeOK, WorkerType
    <3>7. \A d \in Clients : wpc[d] = "status" => wpc'[d] = "status"
      BY <1>1, <2>1 DEF WakeWorker, TypeInv, TypeOK, WorkerType
    <3>8. ASSUME NEW d \in Clients PROVE Sorted(queue[d])' /\ HeadIsNext(d)'
      <4>1. CASE d = c
        BY <2>1, <3>2, <3>5, <3>7, <4>1 DEF OrderInv, QueueOrder, HeadIsNext, Older
      <4>2. CASE d # c
        BY <2>1, <3>6, <3>7, <4>2 DEF OrderInv, QueueOrder, HeadIsNext
      <4> QED BY <4>1, <4>2
    <3>9. ASSUME NEW d \in Clients PROVE Older(d, sent + 1)'
      <4>1. lastSent[d] < sent + 1 /\ \A k \in 1..Len(queue[d]) : queue[d][k] < sent + 1
        BY DEF OrderInv, DispatchOrder, Older
      <4> QED BY <2>1, <3>5, <3>6, <4>1 DEF Older
    <3>10. ASSUME NEW i \in Slots, i >= pos'[s], clients'[i] # NoClient
           PROVE  Older(clients[i], sent)'
      <4>1. clients'[i] = clients[i] /\ clients[i] \in Clients
        BY <1>1, <2>1, <3>10 DEF TypeInv, TypeOK, TableType
      <4>2. i \in Nat /\ i >= pos[s] /\ i # pos[s]
        BY <2>3, <2>5, <3>10 DEF Slots
      <4>3. clients[i] # c
        BY <3>1, <4>2
      <4>4. Older(clients[i], sent)
        BY <2>1, <3>10, <4>1, <4>2 DEF OrderInv, DispatchOrder
      <4> QED BY <2>1, <3>6, <4>1, <4>3, <4>4 DEF Older
    <3>11. DispatchOrder'
      BY <2>1, <2>2, <2>4, <2>5, <3>9, <3>10 DEF DispatchOrder
    <3> QED BY <3>8, <3>11 DEF OrderInv, QueueOrder
  <2> QED BY <2>3, <2>6, <2>7
<1>7. CASE DispatchReturns(s)
  <2>1. UNCHANGED <<workerVars, sent>>
    BY <1>7 DEF DispatchReturns
  <2>2. spc[s] = "scan" /\ \E place \in {"wait", "idle"} : spc' = [spc EXCEPT ![s] = place]
    BY <1>7 DEF DispatchReturns, CallEnds
  <2>3. \A t \in Senders : t # s => spc[t] \notin {"lock", "scan", "enqueue"}
    BY <2>2 DEF HoldOK
  <2>4. \A t \in Senders : spc'[t] \notin {"lock", "scan", "enqueue"}
    BY <1>1, <2>2, <2>3 DEF TypeInv, TypeOK, SenderType
  <2> QED BY <1>1, <2>1, <2>4, OrderUntouched DEF workerVars
<1>8. CASE StatusTimeout(s) \/ StatusReturns(s)
  <2>1. UNCHANGED <<workerVars, sent, clients, pos>>
    BY <1>8 DEF StatusTimeout, StatusReturns, tableVars
  <2>2. \/ spc' = [spc EXCEPT ![s] = "timedout"] /\ UNCHANGED msg
        \/ spc' = [spc EXCEPT ![s] = "idle"] /\ msg' = [msg EXCEPT ![s] = 0]
    BY <1>8 DEF StatusTimeout, StatusReturns, CallEnds
  <2>3. \A t \in Senders : spc'[t] \in {"lock", "scan", "enqueue"} =>
           spc'[t] = spc[t] /\ msg'[t] = msg[t] /\ pos[t] \in Nat
    BY <1>1, <2>2, ConnectorAssumption DEF TypeInv, TypeOK, SenderType
  <2> QED BY <1>1, <2>1, <2>3, OrderUntouched DEF workerVars
<1> QED BY <1>3, <1>4, <1>5, <1>6, <1>7, <1>8 DEF SenderStep

LEMMA WorkerStepOrder ==
  ASSUME TableInv, OrderInv, NEW c \in Clients, WorkerStep(c)
  PROVE  OrderInv'
<1>1. TypeInv /\ TypeInv'
  BY WorkerStepType DEF TableInv
<1>2. \A s \in Senders : pos[s] \in Nat
  BY <1>1, ConnectorAssumption DEF TypeInv, TypeOK, SenderType
<1>3. queue[c] \in Seq(Nat) /\ lastSent[c] \in Nat /\ sent \in Nat
  BY <1>1, ConnectorAssumption DEF TypeInv, TypeOK, WorkerType, SenderType
<1>4. CASE \/ ConnectToClient(c) \/ WaitForMessage(c) \/ WaitTimeout(c)
           \/ Wake(c) \/ Ping(c)
  <2>1. UNCHANGED <<queue, lastSent, tableVars, senderVars>> /\ wpc[c] # "status"
    BY <1>4 DEF ConnectToClient, WaitForMessage, WaitTimeout, Wake, Ping
  <2>2. \E place \in {"loop", "shutdown", "wait", "timedout", "ping", "send"} :
           wpc' = [wpc EXCEPT ![c] = place]
    BY <1>4 DEF ConnectToClient, WaitForMessage, WaitTimeout, Wake, Ping, WorkerGoes
  <2>3. \A d \in Clients : wpc[d] = "status" => wpc'[d] = "status"
    BY <1>1, <2>1, <2>2 DEF TypeInv, TypeOK, WorkerType
  <2> QED BY <1>1, <1>2, <2>1, <2>3, OrderUntouched DEF tableVars, senderVars
<1>5. CASE SendMessage(c)
  <2>1. /\ wpc[c] = "send"
        /\ wpc' = [wpc EXCEPT ![c] = "status"]
        /\ UNCHANGED <<queue, tableVars, senderVars>>
        /\ \/ lastSent' = [lastSent EXCEPT ![c] = Head(queue[c])]
           \/ UNCHANGED lastSent
    BY <1>5 DEF SendMessage, WorkerGoes
  <2>2. queue[c] # <<>> /\ Len(queue[c]) \in Nat \ {0} /\ Head(queue[c]) = queue[c][1]
    BY <1>1, <1>3, <2>1, EmptySeq DEF TypeInv, BusyQueue
  <2>3. lastSent[c] < queue[c][1]
    BY <2>1, <2>2 DEF OrderInv, QueueOrder, HeadIsNext
  <2>4. lastSent'[c] = queue[c][1] \/ lastSent'[c] = lastSent[c]
    BY <1>1, <2>1, <2>2 DEF TypeInv, TypeOK, WorkerType
  <2>5. \A d \in Clients : d # c => lastSent'[d] = lastSent[d] /\ wpc'[d] = wpc[d]
    BY <1>1, <2>1 DEF TypeInv, TypeOK, WorkerType
  <2>6. wpc'[c] = "status"
    BY <1>1, <2>1 DEF TypeInv, TypeOK, WorkerType
  <2>7. QueueOrder'
    <3>1. \A d \in Clients : HeadIsNext(d)'
      BY <2>1, <2>3, <2>4, <2>5, <2>6 DEF OrderInv, QueueOrder, HeadIsNext
    <3> QED BY <2>1, <3>1 DEF OrderInv, QueueOrder, Sorted
  <2>8. \A d \in Clients, m \in Nat : Older(d, m) => Older(d, m)'
    <3>1. ASSUME NEW m \in Nat, Older(c, m) PROVE lastSent'[c] < m
      <4>1. queue[c][1] < m /\ lastSent[c] < m
        BY <2>2, <3>1 DEF Older
      <4> QED BY <2>4, <4>1
    <3> QED BY <2>1, <2>5, <3>1 DEF Older
  <2>9. DispatchOrder'
    <3>1. \A i \in Slots : clients[i] # NoClient => clients[i] \in Clients
      BY <1>1 DEF TypeInv, TypeOK, TableType
    <3>2. UNCHANGED <<clients, spc, pos, sent, msg>>
      BY <2>1 DEF tableVars, senderVars
    <3>3. \A d \in Clients : (Older(d, sent) => Older(d, sent)') /\ Older(d, sent + 1)'
      BY <1>3, <2>8, <3>2 DEF OrderInv, DispatchOrder, Older
    <3> QED BY <3>1, <3>2, <3>3 DEF OrderInv, DispatchOrder
  <2> QED BY <2>7, <2>9 DEF OrderInv
<1>6. CASE PostStatus(c)
  <2>1. /\ wpc[c] = "status"
        /\ queue' = [queue EXCEPT ![c] = Tail(queue[c])]
        /\ UNCHANGED <<lastSent, tableVars, pos, sent, msg>>
        /\ wpc'[c] # "status"
    BY <1>1, <1>6 DEF PostStatus, Drained, WorkerGoes, TypeInv, TypeOK, WorkerType
  <2>2. queue[c] # <<>> /\ Sorted(queue[c]) /\ HeadIsNext(c)
    BY <1>1, <2>1 DEF TypeInv, BusyQueue, OrderInv, QueueOrder
  <2>3. /\ queue'[c] = Tail(queue[c])
        /\ \A d \in Clients : d # c => queue'[d] = queue[d] /\ wpc'[d] = wpc[d]
    BY <1>1, <1>6, <2>1 DEF PostStatus, WorkerGoes, TypeInv, TypeOK, WorkerType
  <2>4. /\ Sorted(queue'[c])
        /\ queue'[c] # <<>> => queue[c][1] < queue'[c][1]
        /\ \A n \in Nat : (\A k \in 1..Len(queue[c]) : queue[c][k] < n)
                          => \A k \in 1..Len(queue'[c]) : queue'[c][k] < n
    BY <1>3, <2>2, <2>3, SortedTail
  <2>5. HeadIsNext(c)'
    <3>1. SUFFICES ASSUME queue'[c] # <<>> PROVE lastSent[c] < queue'[c][1]
      BY <2>1 DEF HeadIsNext
    <3>2. Len(queue[c]) \in Nat \ {0} /\ Len(queue'[c]) \in Nat \ {0}
      BY <1>1, <1>3, <2>2, <3>1, EmptySeq DEF TypeInv, TypeOK, WorkerType
    <3>3. queue[c][1] \in Nat /\ queue'[c][1] \in Nat
      BY <1>1, <1>3, <3>2, ElementOfSeq DEF TypeInv, TypeOK, WorkerType
    <3>4. lastSent[c] <= queue[c][1]
      BY <1>3, <2>2, <3>3 DEF HeadIsNext
    <3> QED BY <1>3, <2>4, <3>1, <3>3, <3>4
  <2>6. QueueOrder'
    BY <2>1, <2>3, <2>4, <2>5 DEF OrderInv, QueueOrder, HeadIsNext
  <2>7. \A d \in Clients, m \in Nat : Older(d, m) => Older(d, m)'
    BY <2>1, <2>3, <2>4 DEF Older
  <2>8. \A s \in Senders : spc'[s] \in {"lock", "scan", "enqueue"} => spc'[s] = spc[s]
    <3>1. \/ UNCHANGED spc
          \/ \E s \in Senders : spc' = [spc EXCEPT ![s] = "woken"]
      BY <1>6 DEF PostStatus, SignalStatus
    <3> QED BY <1>1, <3>1 DEF TypeInv, TypeOK, SenderType
  <2>9. DispatchOrder'
    <3>1. \A i \in Slots : clients[i] # NoClient => clients[i] \in Clients
      BY <1>1 DEF TypeInv, TypeOK, TableType
    <3>2. UNCHANGED <<clients, pos, sent, msg>>
      BY <2>1 DEF tableVars
    <3>3. \A d \in Clients : (Older(d, sent) => Older(d, sent)') /\ Older(d, sent + 1)'
      BY <1>3, <2>7, <3>2 DEF OrderInv, DispatchOrder, Older
    <3> QED BY <2>8, <3>1, <3>2, <3>3 DEF OrderInv, DispatchOrder
  <2> QED BY <2>6, <2>9 DEF OrderInv
<1>7. CASE Shutdown(c)
  <2>1. /\ mutex = NoThread
        /\ clients' = [i \in Slots |-> IF clients[i] = c THEN NoClient ELSE clients[i]]
        /\ queue' = [queue EXCEPT ![c] = <<>>]
        /\ lastSent' = [lastSent EXCEPT ![c] = 0]
        /\ wpc' = [wpc EXCEPT ![c] = "free"]
        /\ UNCHANGED senderVars
    BY <1>7 DEF Shutdown, TableFree, WorkerGoes
  <2>2. \A s \in Senders : spc[s] \notin {"scan", "enqueue"}
    BY <2>1, ConnectorAssumption DEF TableInv, LockOK
  <2>3. queue'[c] = <<>> /\ Len(queue'[c]) = 0 /\ lastSent'[c] = 0
    BY <1>1, <2>1, EmptySeq DEF TypeInv, TypeOK, WorkerType
  <2>4. \A d \in Clients : d # c =>
           queue'[d] = queue[d] /\ lastSent'[d] = lastSent[d] /\ wpc'[d] = wpc[d]
    BY <1>1, <2>1 DEF TypeInv, TypeOK, WorkerType
  <2>5. QueueOrder'
    BY <2>3, <2>4 DEF OrderInv, QueueOrder, Sorted, HeadIsNext
  <2>6. \A d \in Clients, m \in Nat : Older(d, m) => Older(d, m)'
    BY <1>3, <2>3, <2>4 DEF Older
  <2>7. DispatchOrder'
    <3>1. UNCHANGED <<spc, sent, msg>>
      BY <2>1 DEF senderVars
    <3>2. \A d \in Clients : (Older(d, sent) => Older(d, sent)') /\ Older(d, sent + 1)'
      BY <1>3, <2>6, <3>1 DEF OrderInv, DispatchOrder, Older
    <3> QED BY <2>2, <3>1, <3>2 DEF OrderInv, DispatchOrder
  <2> QED BY <2>5, <2>7 DEF OrderInv
<1> QED BY <1>4, <1>5, <1>6, <1>7 DEF WorkerStep

\* The server thread sends nothing, and changes the table only while no loop
\* of a sender is under way.
LEMMA RpcStepOrder ==
  ASSUME TableInv, OrderInv, Register \/ RpcStep
  PROVE  OrderInv'
<1>1. TypeInv /\ TypeInv'
  BY RpcStepType DEF TableInv
<1>2. UNCHANGED <<queue, lastSent, senderVars>>
  BY DEF RpcStep, Register, FindRegistered, MarkDead, ReleaseTable, JoinDead, PlaceClient,
     RefuseClient, EndRegister, workerVars
<1>3. \A s \in Senders : pos[s] \in Nat
  BY <1>1, ConnectorAssumption DEF TypeInv, TypeOK, SenderType
<1>4. \A c \in Clients : wpc[c] = "status" => wpc'[c] = "status"
  <2>1. CASE MarkDead
    BY <1>1, <2>1 DEF MarkDead, WakeWorker, TypeInv, TypeOK, WorkerType
  <2>2. CASE PlaceClient
    BY <1>1, <2>2 DEF PlaceClient, WorkerGoes, TypeInv, TypeOK, WorkerType
  <2>3. CASE Register \/ FindRegistered \/ ReleaseTable \/ JoinDead \/ RefuseClient
    BY <2>3 DEF Register, FindRegistered, ReleaseTable, JoinDead, RefuseClient, workerVars
  <2> QED BY <2>1, <2>2, <2>3 DEF RpcStep
<1>5. UNCHANGED clients \/ \A s \in Senders : spc[s] \notin {"scan", "enqueue"}
  <2>1. CASE PlaceClient
    <3>1. mutex = NoThread
      BY <2>1 DEF PlaceClient, TableFree
    <3> QED BY <3>1, ConnectorAssumption DEF TableInv, LockOK
  <2>2. CASE ~PlaceClient
    BY <2>2 DEF RpcStep, Register, FindRegistered, MarkDead, ReleaseTable, JoinDead,
       RefuseClient, tableVars
  <2> QED BY <2>1, <2>2
<1> QED BY <1>1, <1>2, <1>3, <1>4, <1>5, OrderUntouched DEF senderVars

LEMMA NextOrder == TableInv /\ HoldOK /\ OrderInv /\ [Next]_vars => OrderInv'
<1> SUFFICES ASSUME TableInv, HoldOK, OrderInv, [Next]_vars PROVE OrderInv'
  OBVIOUS
<1>1. CASE SpuriousWakeup \/ UNCHANGED vars
  <2>1. TypeInv /\ TypeInv'
    BY NextType DEF TableInv
  <2>2. UNCHANGED <<queue, lastSent, sent, msg, pos, clients>>
    BY <1>1 DEF SpuriousWakeup, vars, tableVars, workerVars, senderVars
  <2>3. /\ \A c \in Clients : wpc[c] = "status" => wpc'[c] = "status"
        /\ \A s \in Senders : spc'[s] = spc[s] \/ spc'[s] = "woken"
    BY <1>1, <2>1 DEF SpuriousWakeup, WorkerGoes, vars, workerVars, senderVars, TypeInv,
       TypeOK, WorkerType, SenderType
  <2>4. \A s \in Senders : pos[s] \in Nat
    BY <2>1, ConnectorAssumption DEF TypeInv, TypeOK, SenderType
  <2> QED BY <2>1, <2>2, <2>3, <2>4, OrderUntouched
<1> QED BY <1>1, SenderStepOrder, WorkerStepOrder, RpcStepOrder DEF Next

\* However calls, deliveries, failures and registrations interleave, the queue
\* of a client holds its messages in the order of the calls, and its head is
\* younger than what the client was given last, or is being given.
THEOREM DeliveryIsFifo == Spec => []FifoDelivery
<1>1. OrderInv => FifoDelivery
  BY DEF OrderInv, QueueOrder, Sorted, HeadIsNext, FifoDelivery
<1>2. TableInv => TypeInv
  BY DEF TableInv
<1> QED BY <1>1, <1>2, InitTable, NextTable, InitHold, NextHold, InitOrder, NextOrder, PTL
     DEF Spec

------------------------------------------------------------------------------
(***************************************************************************)
(* The status.  Where a condition variable wakes nobody without a signal, a *)
(* sender is woken by a worker only, as it posts a status.                 *)
(***************************************************************************)

\* A success that a woken sender would read was posted as it waited.
FreshInv ==
    \A s \in Senders : spc[s] = "woken" /\ msgStatus = "WAL_SUCCESS" => fresh[s]

\* Only the status that a worker posts can become the status of a woken sender.
LEMMA FreshKept ==
  ASSUME Spurious = FALSE, TypeInv, FreshInv, [Next]_vars
  PROVE  FreshInv' /\ \A s \in Senders : Succeeds(s) => fresh[s]
<1>1. TypeInv'
  BY NextType
<1> DEFINE Pcs == {"idle", "lock", "scan", "enqueue", "wait", "woken", "timedout"}
<1>2. /\ spc \in [Senders -> Pcs] /\ fresh \in [Senders -> BOOLEAN]
      /\ spc' \in [Senders -> Pcs] /\ fresh' \in [Senders -> BOOLEAN]
      /\ succeeded \in [Senders -> BOOLEAN]
  BY <1>1 DEF TypeInv, TypeOK, SenderType, StatusType
<1> HIDE DEF Pcs
<1>3. CASE \E s \in Senders : sendIoTMessage(s) \/ SenderStep(s)
  <2> PICK s \in Senders : sendIoTMessage(s) \/ SenderStep(s)
    BY <1>3
  <2>1. CASE sendIoTMessage(s)
    BY <1>2, <2>1 DEF sendIoTMessage, FreshInv, Succeeds
  <2>2. CASE DispatchMessage(s)
    BY <1>2, <2>2 DEF DispatchMessage, statusVars, FreshInv, Succeeds
  <2>3. CASE FindMatch(s)
    BY <1>2, <2>3 DEF FindMatch, statusVars, FreshInv, Succeeds
  <2>4. CASE EnqueueMessage(s)
    BY <1>2, <2>4 DEF EnqueueMessage, statusVars, FreshInv, Succeeds
  <2>5. CASE DispatchReturns(s)
    BY <1>2, <2>5 DEF DispatchReturns, CallEnds, FreshInv, Succeeds
  <2>6. CASE StatusTimeout(s)
    BY <1>2, <2>6 DEF StatusTimeout, statusVars, FreshInv, Succeeds
  <2>7. CASE StatusReturns(s)
    <3>1. FreshInv'
      BY <1>2, <2>7 DEF StatusReturns, CallEnds, FreshInv
    <3>2. \A r \in Senders : Succeeds(r) => r = s
      BY <1>2, <2>7 DEF StatusReturns, Succeeds
    <3>3. Succeeds(s) => spc[s] = "woken" /\ msgStatus = "WAL_SUCCESS"
      BY <1>2, <2>7 DEF StatusReturns, ReturnedStatus, Succeeds
    <3> QED BY <3>1, <3>2, <3>3 DEF FreshInv
  <2> QED BY <2>1, <2>2, <2>3, <2>4, <2>5, <2>6, <2>7 DEF SenderStep
<1>4. CASE \E c \in Clients : PostStatus(c)
  <2> PICK c \in Clients : PostStatus(c)
    BY <1>4
  <2>1. UNCHANGED succeeded
    BY DEF PostStatus
  <2>2. msgStatus' = "WAL_SUCCESS" => st[c] = "RPC_SUCCESS"
    BY DEF PostStatus
  <2>3. \A s \in Senders : spc'[s] = "woken" => spc[s] \in {"wait", "woken"}
    BY <1>2 DEF PostStatus, SignalStatus
  <2>4. \A s \in Senders : st[c] = "RPC_SUCCESS" /\ spc[s] \in {"wait", "woken"} => fresh'[s]
    BY <1>2 DEF PostStatus
  <2> QED BY <1>2, <2>1, <2>2, <2>3, <2>4 DEF FreshInv, Succeeds
<1>5. CASE \/ \E c \in Clients : WorkerStep(c) /\ ~PostStatus(c)
           \/ Register \/ RpcStep \/ UNCHANGED vars
  <2>1. UNCHANGED <<spc, succeeded, msgStatus, fresh>>
    BY <1>5 DEF WorkerStep, ConnectToClient, WaitForMessage, WaitTimeout, Wake, Ping,
       SendMessage, Shutdown, RpcStep, Register, FindRegistered, MarkDead, ReleaseTable,
       JoinDead, PlaceClient, RefuseClient, EndRegister, senderVars, statusVars, vars
  <2> QED BY <1>2, <2>1 DEF FreshInv, Succeeds
<1>6. ~SpuriousWakeup
  BY DEF SpuriousWakeup
<1> QED BY <1>3, <1>4, <1>5, <1>6 DEF Next

\* A sender that returns a success was woken after a worker had posted one as it
\* waited, unless a condition variable wakes it for no reason.
THEOREM StatusIsFresh ==
  ASSUME Spurious = FALSE
  PROVE  Spec => FreshStatus
<1>1. Init => FreshInv
  BY DEF Init, FreshInv
<1>2. TypeInv /\ FreshInv /\ [Next]_vars => FreshInv'
  BY FreshKept
<1>3. TypeInv /\ FreshInv /\ [Next]_vars => [\A s \in Senders : Succeeds(s) => fresh[s]]_vars
  BY FreshKept
<1> QED BY <1>1, <1>2, <1>3, InitType, NextType, PTL DEF Spec, FreshStatus
===============================================================================
