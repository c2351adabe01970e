--------------------------- MODULE ClientConnector ---------------------------
(***************************************************************************)
(* The IoT client connector: app/webpa_client_connector.c and the sender   *)
(* side of app/webpa_rpc.c.  Embedded IoT clients register over SunRPC; a  *)
(* client gets a WebPA_Client structure in the table clients[] and a       *)
(* service thread of its own.  webpacore's threads send a message to the   *)
(* clients registered for the topic "iot" and wait for its status.         *)
(*                                                                         *)
(* Threads: every sender of Senders (a caller of sendIoTMessage), the RPC  *)
(* server thread Rpc (svc_run dispatches one request at a time), and the   *)
(* worker (WebPA_ServiceClient) of each client, named by its structure.    *)
(*                                                                         *)
(* Locks: mutex (the table), msgStatusMutex (the status of a message) and  *)
(* cmutex[c], the mutex in the structure c.  A critical section that takes *)
(* no other lock and does not block is one step.                           *)
(***************************************************************************)
EXTENDS Naturals, Sequences, FiniteSets

CONSTANTS
    Senders,     \* threads that call sendIoTMessage
    Clients,     \* addresses of WebPA_Client structures, reused after free()
    Keys,        \* what identifies a client: program, version and protocol
    MaxClients,  \* the length of clients[] (MAX_CLIENTS)
    Rpc,         \* the RPC server thread
    NoThread,    \* the owner of a free lock
    NoClient,    \* the null pointer
    NoReg,       \* the content of a structure that is not allocated
    MaxSends,    \* bound: calls of sendIoTMessage
    MaxRegs,     \* bound: registration requests
    Spurious     \* whether condition variables may wake a thread spuriously

ASSUME ConnectorAssumption ==
    /\ MaxClients \in Nat \ {0}
    /\ MaxSends \in Nat
    /\ MaxRegs \in Nat
    /\ Spurious \in BOOLEAN
    /\ NoClient \notin Clients
    /\ NoReg \notin Keys \cup [key : Keys, iot : BOOLEAN]
    /\ Senders \cap Clients = {}
    /\ Rpc \notin Senders \cup Clients
    /\ NoThread \notin Senders \cup Clients \cup {Rpc}

VARIABLES
    clients,         \* clients[]: slot -> structure
    reg,             \* structure -> the registration it was created from
    isDead,          \* structure -> is_dead
    queue,           \* structure -> its message queue
    mutex,           \* owner of the table's mutex
    cmutex,          \* structure -> owner of its mutex
    msgStatusMutex,  \* owner of msgStatusMutex
    msgStatus,       \* outcome of the last clnt_call that sent a message
    wpc, st,         \* worker: where it is, and its local st
    spc, pos, cur, ret,     \* sender: where it is, i, the client found, ret
    rpc, req, rpos, dead,   \* server thread: where it is, its request, i and
                            \* the threads collected in dead_clients[]
    rcur,            \* the client whose mutex the server thread is taking
    sent, regs,      \* calls and requests so far
    msg,             \* sender -> the message it sends
    succeeded,       \* sender -> its last call has returned WAL_SUCCESS
    fresh,           \* ghost: sender -> a success was posted as it waited
    lastSent         \* ghost: structure -> last message its client was given

tableVars  == <<clients, reg, isDead, mutex>>
workerVars == <<wpc, st, cmutex, queue, lastSent>>
senderVars == <<spc, pos, cur, ret, sent, msg, succeeded>>
statusVars == <<msgStatusMutex, msgStatus, fresh>>
rpcVars    == <<rpc, req, rpos, rcur, dead, regs>>
vars == <<tableVars, workerVars, senderVars, statusVars, rpcVars>>

Slots == 1..MaxClients
Registrations == [key : Keys, iot : BOOLEAN]
Threads == Senders \cup Clients \cup {Rpc}

TableType ==
    /\ clients \in [Slots -> Clients \cup {NoClient}]
    /\ reg \in [Clients -> Registrations \cup {NoReg}]
    /\ isDead \in [Clients -> BOOLEAN]
    /\ mutex \in Threads \cup {NoThread}

WorkerType ==
    /\ wpc \in [Clients -> {"free", "start", "loop", "wait", "woken",
                            "timedout", "ping", "send", "status", "shutdown"}]
    /\ st \in [Clients -> {"RPC_SUCCESS", "RPC_FAILED"}]
    /\ cmutex \in [Clients -> Clients \cup {NoThread}]
    /\ queue \in [Clients -> Seq(Nat)]
    /\ lastSent \in [Clients -> Nat]

SenderType ==
    /\ spc \in [Senders -> {"idle", "lock", "scan", "enqueue", "wait",
                            "woken", "timedout"}]
    /\ pos \in [Senders -> 1..(MaxClients + 1)]
    /\ cur \in [Senders -> Clients \cup {NoClient}]
    /\ ret \in [Senders -> {"WAL_SUCCESS", "WAL_FAILURE"}]
    /\ sent \in 0..MaxSends
    /\ msg \in [Senders -> 0..MaxSends]
    /\ succeeded \in [Senders -> BOOLEAN]

StatusType ==
    /\ msgStatusMutex \in Senders \cup {NoThread}
    /\ msgStatus \in {"WAL_SUCCESS", "WAL_FAILURE"}
    /\ fresh \in [Senders -> BOOLEAN]

RpcType ==
    /\ rpc \in {"idle", "scan", "mark", "join", "place"}
    /\ req \in Registrations \cup {NoReg}
    /\ rpos \in 1..(MaxClients + 1)
    /\ rcur \in Clients \cup {NoClient}
    /\ dead \in SUBSET Clients
    /\ regs \in 0..MaxRegs

TypeOK == TableType /\ WorkerType /\ SenderType /\ StatusType /\ RpcType

\* InitClientList: an empty table.  A structure that is not allocated has no
\* worker ("free"), and nothing reads its fields.
Init ==
    /\ clients = [i \in Slots |-> NoClient]
    /\ reg = [c \in Clients |-> NoReg]
    /\ isDead = [c \in Clients |-> FALSE]
    /\ queue = [c \in Clients |-> <<>>]
    /\ mutex = NoThread
    /\ cmutex = [c \in Clients |-> NoThread]
    /\ msgStatusMutex = NoThread
    /\ msgStatus = "WAL_FAILURE"
    /\ wpc = [c \in Clients |-> "free"]
    /\ st = [c \in Clients |-> "RPC_FAILED"]
    /\ spc = [s \in Senders |-> "idle"]
    /\ pos = [s \in Senders |-> 1]
    /\ cur = [s \in Senders |-> NoClient]
    /\ ret = [s \in Senders |-> "WAL_FAILURE"]
    /\ rpc = "idle"
    /\ req = NoReg
    /\ rpos = 1
    /\ rcur = NoClient
    /\ dead = {}
    /\ sent = 0
    /\ regs = 0
    /\ msg = [s \in Senders |-> 0]
    /\ succeeded = [s \in Senders |-> FALSE]
    /\ fresh = [s \in Senders |-> FALSE]
    /\ lastSent = [c \in Clients |-> 0]

------------------------------------------------------------------------------
\* Mutant: the index of a loop over clients[] advances twice.
NextButOne(i) == i + 2

NextSlot(i) == i + 1

\* Mutant: the table's mutex is taken without waiting for its owner.
TableNeverHeld == TRUE

TableFree == mutex = NoThread

\* Mutant: c->mutex is taken without waiting for its owner.
ClientNeverHeld(c) == TRUE

ClientFree(c) == cmutex[c] = NoThread

\* pthread_cond_signal(&c->cond): only the worker of c waits there.
WakeWorker(c) == [wpc EXCEPT ![c] = IF @ = "wait" THEN "woken" ELSE @]

\* pthread_cond_signal(&msgStatusCond): one of the waiting senders, if any.
SignalStatus ==
    LET waiting == {s \in Senders : spc[s] = "wait"}
    IN  IF waiting = {} THEN UNCHANGED spc
        ELSE \E s \in waiting : spc' = [spc EXCEPT ![s] = "woken"]

------------------------------------------------------------------------------
(***************************************************************************)
(* Senders: sendIoTMessage, WebPA_ClientConnector_DispatchMessage and      *)
(* WebPA_Client_EnqueueMessage.                                            *)
(***************************************************************************)

sendIoTMessage(s) ==
    /\ spc[s] = "idle"
    /\ sent < MaxSends
    /\ msgStatusMutex = NoThread
    /\ msgStatusMutex' = s
    /\ sent' = sent + 1
    /\ msg' = [msg EXCEPT ![s] = sent + 1]
    /\ succeeded' = [succeeded EXCEPT ![s] = FALSE]
    /\ spc' = [spc EXCEPT ![s] = "lock"]
    /\ UNCHANGED <<pos, cur, ret, msgStatus, fresh, tableVars,
                   workerVars, rpcVars>>

DispatchMessage(s) ==
    /\ spc[s] = "lock"
    /\ TableFree
    /\ mutex' = s
    /\ pos' = [pos EXCEPT ![s] = 1]
    /\ ret' = [ret EXCEPT ![s] = "WAL_FAILURE"]
    /\ spc' = [spc EXCEPT ![s] = "scan"]
    /\ UNCHANGED <<clients, reg, isDead, cur, sent, msg, succeeded,
                   workerVars, statusVars, rpcVars>>

\* WebPA_Client_IsMatch: is the client in slot i registered for "iot"?
IsMatch(i) == clients[i] # NoClient /\ reg[clients[i]].iot

\* The loop over clients[] stops at the next slot that matches.  The queue item
\* is allocated before the client's mutex is taken; malloc may fail.
FindMatch(s) ==
    /\ spc[s] = "scan"
    /\ \E i \in pos[s]..MaxClients :
          /\ IsMatch(i)
          /\ \A j \in pos[s]..(i - 1) : ~IsMatch(j)
          /\ \/ /\ pos' = [pos EXCEPT ![s] = i]
                /\ cur' = [cur EXCEPT ![s] = clients[i]]
                /\ spc' = [spc EXCEPT ![s] = "enqueue"]
                /\ UNCHANGED ret
             \/ /\ pos' = [pos EXCEPT ![s] = NextSlot(i)]
                /\ ret' = [ret EXCEPT ![s] = "WAL_FAILURE"]
                /\ UNCHANGED <<cur, spc>>
    /\ UNCHANGED <<sent, msg, succeeded, tableVars, workerVars, statusVars,
                   rpcVars>>

EnqueueMessage(s) ==
    LET c == cur[s] IN
    /\ spc[s] = "enqueue"
    /\ ClientFree(c)
    /\ queue' = [queue EXCEPT ![c] = Append(@, msg[s])]
    /\ wpc' = WakeWorker(c)
    /\ ret' = [ret EXCEPT ![s] = "WAL_SUCCESS"]
    /\ pos' = [pos EXCEPT ![s] = NextSlot(@)]
    /\ cur' = [cur EXCEPT ![s] = NoClient]
    /\ spc' = [spc EXCEPT ![s] = "scan"]
    /\ UNCHANGED <<st, cmutex, lastSent, sent, msg, succeeded, tableVars,
                   statusVars, rpcVars>>

\* The call is over: its message and the ghosts about it are forgotten.
CallEnds(s) ==
    /\ spc' = [spc EXCEPT ![s] = "idle"]
    /\ msg' = [msg EXCEPT ![s] = 0]
    /\ fresh' = [fresh EXCEPT ![s] = FALSE]

\* DispatchMessage returns the status of the last match.  After a success the
\* sender waits, which releases msgStatusMutex; it does not look at msgStatus
\* first.
DispatchReturns(s) ==
    /\ spc[s] = "scan"
    /\ \A j \in pos[s]..MaxClients : ~IsMatch(j)
    /\ mutex' = NoThread
    /\ msgStatusMutex' = NoThread
    /\ \/ /\ ret[s] = "WAL_SUCCESS"
          /\ spc' = [spc EXCEPT ![s] = "wait"]
          /\ UNCHANGED <<msg, fresh>>
       \/ /\ ret[s] = "WAL_FAILURE"
          /\ CallEnds(s)
    /\ pos' = [pos EXCEPT ![s] = 1]
    /\ ret' = [ret EXCEPT ![s] = "WAL_FAILURE"]
    /\ UNCHANGED <<clients, reg, isDead, cur, sent, succeeded, msgStatus,
                   workerVars, rpcVars>>

\* Mutant: pthread_cond_wait in place of pthread_cond_timedwait.
StatusNeverTimesOut(s) == spc[s] = "timedout" /\ UNCHANGED vars

StatusTimeout(s) ==
    /\ spc[s] = "wait"
    /\ spc' = [spc EXCEPT ![s] = "timedout"]
    /\ UNCHANGED <<pos, cur, ret, sent, msg, succeeded, tableVars, workerVars,
                   statusVars, rpcVars>>

\* Mutant: the result of pthread_cond_timedwait is ignored.
UncheckedStatus(s) == msgStatus

ReturnedStatus(s) ==
    IF spc[s] = "timedout" THEN "WAL_ERR_TIMEOUT" ELSE msgStatus

\* pthread_cond_timedwait takes msgStatusMutex again; sendIoTMessage reads the
\* status, releases the mutex and returns.
StatusReturns(s) ==
    /\ msgStatusMutex = NoThread
    /\ spc[s] \in {"woken", "timedout"}
    /\ succeeded' = [succeeded EXCEPT ![s] = ReturnedStatus(s) = "WAL_SUCCESS"]
    /\ CallEnds(s)
    /\ UNCHANGED <<pos, cur, ret, sent, msgStatusMutex, msgStatus, tableVars,
                   workerVars, rpcVars>>

------------------------------------------------------------------------------
(***************************************************************************)
(* Workers: WebPA_ServiceClient, one thread for each client.               *)
(***************************************************************************)

WorkerGoes(c, place) == wpc' = [wpc EXCEPT ![c] = place]

\* clnt_create connects to the client, or fails.
ConnectToClient(c) ==
    /\ wpc[c] = "start"
    /\ \E place \in {"loop", "shutdown"} : WorkerGoes(c, place)
    /\ UNCHANGED <<st, cmutex, queue, lastSent, tableVars,
                   senderVars, statusVars, rpcVars>>

\* The worker locks c->mutex and waits at once, which releases it: the queue
\* is not looked at first.
WaitForMessage(c) ==
    /\ wpc[c] = "loop"
    /\ ClientFree(c)
    /\ st' = [st EXCEPT ![c] = "RPC_FAILED"]
    /\ WorkerGoes(c, "wait")
    /\ UNCHANGED <<cmutex, queue, lastSent, tableVars, senderVars,
                   statusVars, rpcVars>>

WaitTimeout(c) ==
    /\ wpc[c] = "wait"
    /\ WorkerGoes(c, "timedout")
    /\ UNCHANGED <<st, cmutex, queue, lastSent, tableVars,
                   senderVars, statusVars, rpcVars>>

\* Mutant: is_dead is looked at only by a worker that was signalled.
SeesShutdownIfWoken(c) == isDead[c] /\ wpc[c] = "woken"

SeesShutdown(c) == isDead[c]

\* pthread_cond_timedwait returns with c->mutex taken.  is_dead is looked at
\* first, whatever ended the wait; after a timeout the worker pings, otherwise
\* it drains the queue.  Woken with an empty queue, st is still RPC_FAILED.
Wake(c) ==
    /\ ClientFree(c)
    /\ \/ /\ wpc[c] \in {"woken", "timedout"}
          /\ SeesShutdown(c)
          /\ WorkerGoes(c, "shutdown")
          /\ UNCHANGED cmutex
       \/ /\ wpc[c] = "timedout"
          /\ ~SeesShutdown(c)
          /\ WorkerGoes(c, "ping")
          /\ cmutex' = [cmutex EXCEPT ![c] = c]
       \/ /\ wpc[c] = "woken"
          /\ ~SeesShutdown(c)
          /\ queue[c] # <<>>
          /\ WorkerGoes(c, "send")
          /\ cmutex' = [cmutex EXCEPT ![c] = c]
       \/ /\ wpc[c] = "woken"
          /\ ~SeesShutdown(c)
          /\ queue[c] = <<>>
          /\ WorkerGoes(c, "shutdown")
          /\ UNCHANGED cmutex
    /\ UNCHANGED <<st, queue, lastSent, tableVars, senderVars,
                   statusVars, rpcVars>>

\* The NULLPROC call and the test of st at the end of the loop's body.
Ping(c) ==
    /\ wpc[c] = "ping"
    /\ \E place \in {"loop", "shutdown"} : WorkerGoes(c, place)
    /\ cmutex' = [cmutex EXCEPT ![c] = NoThread]
    /\ UNCHANGED <<st, queue, lastSent, tableVars, senderVars,
                   statusVars, rpcVars>>

\* WebPA_Client_SendMessage of the head of the queue.  The call may fail with
\* the message delivered (the answer was lost or late) or not.
SendMessage(c) ==
    /\ wpc[c] = "send"
    /\ \/ /\ \E stat \in {"RPC_SUCCESS", "RPC_FAILED"} :
                st' = [st EXCEPT ![c] = stat]
          /\ lastSent' = [lastSent EXCEPT ![c] = Head(queue[c])]
       \/ /\ st' = [st EXCEPT ![c] = "RPC_FAILED"]
          /\ UNCHANGED lastSent
    /\ WorkerGoes(c, "status")
    /\ UNCHANGED <<cmutex, queue, msgStatusMutex, msgStatus, fresh, tableVars,
                   senderVars, rpcVars>>

\* Mutant: the last message stays in the queue (no c->queue = NULL).
KeepsLast(q) == IF Len(q) = 1 THEN q ELSE Tail(q)

Drained(q) == Tail(q)

\* The status is posted under msgStatusMutex, with c->mutex held.  Nobody can
\* read the queue meanwhile, so the message leaves it here; the worker goes on
\* with the next one, and the last status decides whether the client stays.
PostStatus(c) ==
    /\ wpc[c] = "status"
    /\ msgStatusMutex = NoThread
    /\ msgStatus' = IF st[c] = "RPC_SUCCESS" THEN "WAL_SUCCESS" ELSE "WAL_FAILURE"
    /\ fresh' = [s \in Senders |-> fresh[s] \/
                    (st[c] = "RPC_SUCCESS" /\ spc[s] \in {"wait", "woken", "timedout"})]
    /\ SignalStatus
    /\ queue' = [queue EXCEPT ![c] = Drained(@)]
    /\ \/ /\ Len(queue[c]) > 1
          /\ WorkerGoes(c, "send")
          /\ UNCHANGED cmutex
       \/ /\ Len(queue[c]) = 1
          /\ WorkerGoes(c, IF st[c] = "RPC_SUCCESS" THEN "loop" ELSE "shutdown")
          /\ cmutex' = [cmutex EXCEPT ![c] = NoThread]
    /\ UNCHANGED <<st, lastSent, pos, cur, ret, sent, msg, succeeded,
                   msgStatusMutex, tableVars, rpcVars>>

\* The end of the thread: it takes itself off clients[] and frees its client,
\* with whatever is queued (WebPA_Client_Destroy does not look at the queue).
Shutdown(c) ==
    /\ wpc[c] = "shutdown"
    /\ TableFree
    /\ clients' = [i \in Slots |-> IF clients[i] = c THEN NoClient ELSE clients[i]]
    /\ reg' = [reg EXCEPT ![c] = NoReg]
    /\ isDead' = [isDead EXCEPT ![c] = FALSE]
    /\ queue' = [queue EXCEPT ![c] = <<>>]
    /\ lastSent' = [lastSent EXCEPT ![c] = 0]
    /\ st' = [st EXCEPT ![c] = "RPC_FAILED"]
    /\ WorkerGoes(c, "free")
    /\ UNCHANGED <<mutex, cmutex, senderVars, statusVars, rpcVars>>

------------------------------------------------------------------------------
(***************************************************************************)
(* The RPC server thread: webpa_register_1_svc.                            *)
(***************************************************************************)

Register ==
    /\ rpc = "idle"
    /\ regs < MaxRegs
    /\ TableFree
    /\ mutex' = Rpc
    /\ regs' = regs + 1
    /\ req' \in Registrations
    /\ rpos' = 1
    /\ rpc' = "scan"
    /\ UNCHANGED <<rcur, dead, clients, reg, isDead, workerVars, senderVars,
                   statusVars>>

\* Mutant: a client that comes back with another topic is not recognised.
IsRegisteredForTopic(i) == clients[i] # NoClient /\ reg[clients[i]] = req

IsRegistered(i) == clients[i] # NoClient /\ reg[clients[i]].key = req.key

FindRegistered ==
    /\ rpc = "scan"
    /\ \E i \in rpos..MaxClients :
          /\ IsRegistered(i)
          /\ \A j \in rpos..(i - 1) : ~IsRegistered(j)
          /\ rpos' = i
          /\ rcur' = clients[i]
    /\ rpc' = "mark"
    /\ UNCHANGED <<req, dead, regs, tableVars, workerVars, senderVars,
                   statusVars>>

\* is_dead is set under the client's mutex, with mutex held, and the worker is
\* woken.
MarkDead ==
    /\ rpc = "mark"
    /\ ClientFree(rcur)
    /\ isDead' = [isDead EXCEPT ![rcur] = TRUE]
    /\ dead' = dead \cup {rcur}
    /\ wpc' = WakeWorker(rcur)
    /\ rpos' = NextSlot(rpos)
    /\ rcur' = NoClient
    /\ rpc' = "scan"
    /\ UNCHANGED <<req, regs, clients, reg, mutex, st, cmutex, queue, lastSent,
                   senderVars, statusVars>>

ReleaseTable ==
    /\ rpc = "scan"
    /\ \A j \in rpos..MaxClients : ~IsRegistered(j)
    /\ mutex' = NoThread
    /\ rpos' = 1
    /\ rpc' = "join"
    /\ UNCHANGED <<req, rcur, dead, regs, clients, reg, isDead, workerVars,
                   senderVars, statusVars>>

\* Mutant: the server thread does not wait.
NoJoin == TRUE

Joined == \A c \in dead : wpc[c] = "free"

\* pthread_join of every thread of dead_clients[].
JoinDead ==
    /\ rpc = "join"
    /\ Joined
    /\ dead' = {}
    /\ rpc' = "place"
    /\ UNCHANGED <<req, rpos, rcur, regs, tableVars, workerVars, senderVars,
                   statusVars>>

EndRegister ==
    /\ rpc' = "idle"
    /\ req' = NoReg
    /\ UNCHANGED <<rpos, rcur, dead, regs, mutex, isDead, cmutex, st, queue,
                   lastSent, senderVars, statusVars>>

\* The first empty slot gets a new structure and a worker.
PlaceClient ==
    /\ rpc = "place"
    /\ TableFree
    /\ \E i \in Slots, c \in Clients :
          /\ clients[i] = NoClient
          /\ \A j \in 1..(i - 1) : clients[j] # NoClient
          /\ wpc[c] = "free"
          /\ clients' = [clients EXCEPT ![i] = c]
          /\ reg' = [reg EXCEPT ![c] = req]
          /\ WorkerGoes(c, "start")
    /\ EndRegister

\* No slot is empty, or malloc fails: the request is refused.
RefuseClient ==
    /\ rpc = "place"
    /\ TableFree
    /\ EndRegister
    /\ UNCHANGED <<clients, reg, wpc>>

------------------------------------------------------------------------------
\* POSIX lets both condition variables wake a thread that nobody signalled.
SpuriousWakeup ==
    /\ Spurious
    /\ \/ \E c \in Clients :
             /\ wpc[c] = "wait"
             /\ WorkerGoes(c, "woken")
             /\ UNCHANGED spc
       \/ \E s \in Senders :
             /\ spc[s] = "wait"
             /\ spc' = [spc EXCEPT ![s] = "woken"]
             /\ UNCHANGED wpc
    /\ UNCHANGED <<st, cmutex, queue, lastSent, pos, cur, ret, sent,
                   msg, succeeded, tableVars, statusVars, rpcVars>>

SenderStep(s) ==
    \/ DispatchMessage(s)
    \/ FindMatch(s)
    \/ EnqueueMessage(s)
    \/ DispatchReturns(s)
    \/ StatusTimeout(s)
    \/ StatusReturns(s)

WorkerStep(c) ==
    \/ ConnectToClient(c)
    \/ WaitForMessage(c)
    \/ WaitTimeout(c)
    \/ Wake(c)
    \/ Ping(c)
    \/ SendMessage(c)
    \/ PostStatus(c)
    \/ Shutdown(c)

RpcStep ==
    \/ FindRegistered
    \/ MarkDead
    \/ ReleaseTable
    \/ JoinDead
    \/ PlaceClient
    \/ RefuseClient

Next ==
    \/ \E s \in Senders : sendIoTMessage(s) \/ SenderStep(s)
    \/ \E c \in Clients : WorkerStep(c)
    \/ Register
    \/ RpcStep
    \/ SpuriousWakeup

\* A thread is in one place at a time, so strong fairness of the steps of a
\* thread says: it is scheduled, its timed waits and its RPCs (both have a
\* timeout) end, and it gets a lock that is free again and again (a worker
\* leaves c->mutex free for the whole of every wait).  Nothing makes a caller
\* call, a client register or a thread wake up for no reason.
Fairness ==
    /\ \A s \in Senders : SF_vars(SenderStep(s))
    /\ \A c \in Clients : SF_vars(WorkerStep(c))
    /\ SF_vars(RpcStep)

Spec == Init /\ [][Next]_vars
FairSpec == Spec /\ Fairness

------------------------------------------------------------------------------
(* Properties *)

\* At any time at most one entry of clients[] has a given program, version and
\* protocol: webpa_register_1_svc waits for the old client's thread before it
\* looks for a slot.
UniqueRegistration ==
    \A i, j \in Slots :
        /\ clients[i] # NoClient
        /\ clients[j] # NoClient
        /\ reg[clients[i]].key = reg[clients[j]].key
        => i = j

\* No structure is freed while a sender or the server thread holds a pointer
\* to it that it took from clients[] and is about to lock.
NoDanglingPointer ==
    /\ \A s \in Senders : cur[s] # NoClient => wpc[cur[s]] # "free"
    /\ rcur # NoClient => wpc[rcur] # "free"

\* Seen slot by slot, the table is a registry: the abstract specification of
\* ClientRegistry, which knows nothing of threads.
Registry == INSTANCE ClientRegistry WITH
    NoKey <- NoReg,
    slot  <- [i \in Slots |-> IF clients[i] = NoClient THEN NoReg
                              ELSE reg[clients[i]].key]
ImplementsRegistry == Registry!Spec

\* A client is given its messages in the order of the calls, none of them
\* twice by a call that the queue repeats.
FifoDelivery ==
    \A c \in Clients :
        LET q == queue[c] IN
        /\ \A k \in 1..(Len(q) - 1) : q[k] < q[k + 1]
        /\ q # <<>> => \/ lastSent[c] < q[1]
                       \/ wpc[c] = "status" /\ lastSent[c] = q[1]

\* "always hold the clients[] list mutex when enumerating": while a thread
\* enumerates the table, nobody else changes it.
ListStableWhileEnumerated ==
    [][ (rpc \in {"scan", "mark"} \/ \E s \in Senders : spc[s] \in {"scan", "enqueue"})
        => clients' = clients ]_vars

\* The call of s returns WAL_SUCCESS in this step.
Succeeds(s) == ~succeeded[s] /\ succeeded'[s]

\* A sender that returns WAL_SUCCESS was woken after some worker posted a
\* success: a timeout or an older status is never reported as one.  (Of a run
\* without spurious wakeups.)
FreshStatus ==
    [][\A s \in Senders : Succeeds(s) => fresh[s]]_vars

\* The lock cycle: a sender has msgStatusMutex and wants, itself or through the
\* server thread that has the table's mutex, the mutex of a client whose worker
\* wants msgStatusMutex.
LockCycle ==
    \E s \in Senders, c \in Clients :
        /\ msgStatusMutex = s
        /\ wpc[c] = "status"
        /\ \/ spc[s] = "enqueue" /\ cur[s] = c
           \/ spc[s] = "lock" /\ rpc = "mark" /\ rcur = c

\* A registration request is answered, unless the threads are in a lock cycle:
\* nothing else can keep the server thread in webpa_register_1_svc.
RegistrationCompletes == rpc # "idle" ~> (rpc = "idle" \/ LockCycle)

\* sendIoTMessage returns, unless the threads are in a lock cycle.
SenderReturns ==
    \A s \in Senders : spc[s] # "idle" ~> (spc[s] = "idle" \/ LockCycle)

\* "release clients[] list mutex to allow for any pending client service
\* threads to exit": while the server thread waits for a worker to exit, no
\* lock cycle has the table's mutex, which the worker needs.
JoinedWorkersCanExit ==
    rpc = "join" /\ (\E c \in dead : wpc[c] # "free")
    => ~(LockCycle /\ mutex # NoThread)

\* A lock cycle lasts for ever.
LockCycleIsPermanent == [][LockCycle => LockCycle']_vars

\* "we use this to send messages to the client": a queued message does not stay
\* in the queue for ever.
QueueIsServed ==
    \A c \in Clients : queue[c] # <<>> ~> (queue[c] = <<>> \/ LockCycle)
==============================================================================
