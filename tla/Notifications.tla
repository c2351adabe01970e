---------------------------- MODULE Notifications -----------------------------
(***************************************************************************)
(* Notifications to the server (wal/wal.c, wal/cosa_Webpa_dml.c), of the   *)
(* builds with and without USE_NOTIFY_COMPONENT together.                  *)
(*                                                                         *)
(* Other components set parameters of this one to have the server notified:*)
(* of a changed value, of a client of the network, or with a message.  The *)
(* first two are lists of fields with commas between, which strtok_r takes *)
(* apart.  Messages of IoT clients come in on another thread.  What is to  *)
(* be notified goes to the callback webpacore has registered, if it has.   *)
(*                                                                         *)
(* A field is a sequence of words and commas, and so is the string.        *)
(***************************************************************************)
EXTENDS Naturals, Sequences, SequencesExt

CONSTANTS
    Values,      \* what a field may hold
    WriteIds,    \* who may have changed a value
    MaxCalls     \* bound: calls

\* What is between the fields.
Delimiter == ","

ASSUME NotifyAssumption ==
    /\ Values \subseteq Seq(STRING)
    /\ WriteIds \subseteq STRING \ {Delimiter}
    /\ MaxCalls \in Nat

VARIABLES
    notifyCbFn,     \* whether the callback is registered, in wal.c
    notifyCbFnPtr,  \* the same, as cosa_Webpa_dml.c has read it last
    calls,          \* ghost: the calls so far, with their results
    delivered       \* what the callback was called with

vars == <<notifyCbFn, notifyCbFnPtr, calls, delivered>>

Init ==
    /\ notifyCbFn = FALSE /\ notifyCbFnPtr = FALSE
    /\ calls = <<>>
    /\ delivered = <<>>

NULL == <<>>

------------------------------------------------------------------------------
(***************************************************************************)
(* strtok_r                                                                *)
(***************************************************************************)
\* The string that a request of five fields comes with.
Joined(f) ==
    f[1] \o <<Delimiter>> \o f[2] \o <<Delimiter>> \o f[3] \o <<Delimiter>>
         \o f[4] \o <<Delimiter>> \o f[5]

\* From an index of the string on: the next token, which begins behind any commas and
\* ends before the next, or NULL when only commas are left, and where to go on.
strtok_r(string, at) ==
    LET words == {k \in at..Len(string) : string[k] # Delimiter}
        ends == {k \in Min(words)..Len(string) : string[k] = Delimiter}
                  \cup {Len(string) + 1}
    IN  IF words = {} THEN [token |-> NULL, next |-> at]
        ELSE [token |-> SubSeq(string, Min(words), Min(ends) - 1), next |-> Min(ends) + 1]

\* What the five calls return.
Tokens(string) ==
    LET first == strtok_r(string, 1)
        second == strtok_r(string, first.next)
        third == strtok_r(string, second.next)
        fourth == strtok_r(string, third.next)
        fifth == strtok_r(string, fourth.next)
    IN  <<first.token, second.token, third.token, fourth.token, fifth.token>>

------------------------------------------------------------------------------
(***************************************************************************)
(* What the callback is called with                                        *)
(***************************************************************************)
mapWriteID(id) ==
    IF id \in {<<"ACS">>, <<"WebPA">>, <<"XPC">>, <<"CLI">>, <<"SNMP">>, <<"WebUI">>}
    THEN id ELSE <<"UNKNOWN">>

ParamNotify(name, id, new, old, type) ==
    [type |-> "PARAM_NOTIFY", paramName |-> name, changeSource |-> mapWriteID(id),
     newValue |-> new, oldValue |-> old, dataType |-> type]

NodeData(interface, mac, status, hostname) ==
    [type |-> "CONNECTED_CLIENT_NOTIFY",
     node |-> IF NULL \in {interface, mac, status, hostname} THEN NULL
              ELSE <<interface, mac, status, hostname>>]

UpstreamMsg(msg) == [type |-> "UPSTREAM_MSG", msg |-> msg]

\* The callback is called if it is there.
Deliver(notification) ==
    delivered' = IF notifyCbFn THEN Append(delivered, notification) ELSE delivered

Returns(kind, fields, result) ==
    /\ Len(calls) < MaxCalls
    /\ calls' = Append(calls, [kind |-> kind, fields |-> fields, result |-> result,
                               registered |-> notifyCbFn,
                               passedOn |-> delivered' # delivered])

------------------------------------------------------------------------------
RegisterNotifyCB ==
    /\ ~notifyCbFn
    /\ notifyCbFn' = TRUE
    /\ UNCHANGED <<notifyCbFnPtr, calls, delivered>>

\* Mutant: only the write id is looked for.
HasWriteId(tokens) == tokens[2] # NULL

HasAllData(tokens) == tokens[5] # NULL /\ tokens[2] # NULL

ParamOf(tokens) == ParamNotify(tokens[1], tokens[2], tokens[3], tokens[4], tokens[5])

\* X_RDKCENTRAL-COM_WebPA_Notification: name, write id, new value, old value, type.
SetNotification(fields) ==
    /\ \E tokens \in {Tokens(Joined(fields))} :
          IF HasAllData(tokens) THEN Deliver(ParamOf(tokens)) ELSE UNCHANGED delivered
    /\ Returns("notification", fields, TRUE)
    /\ UNCHANGED <<notifyCbFn, notifyCbFnPtr>>

NodeOf(tokens) == NodeData(tokens[2], tokens[3], tokens[4], tokens[5])

\* X_RDKCENTRAL-COM_Connected-Client: name, interface, MAC address, status, host.
SetConnectedClient(fields) ==
    /\ notifyCbFnPtr' = notifyCbFn
    /\ Deliver(NodeOf(Tokens(Joined(fields))))
    /\ Returns("client", fields, notifyCbFn)
    /\ UNCHANGED notifyCbFn

\* PostData: the message is decoded and passed on, also when it is not msgpack.
SetPostData(fields) ==
    /\ notifyCbFnPtr' = notifyCbFn
    /\ Deliver(UpstreamMsg(Head(fields)))
    /\ Returns("message", fields, notifyCbFn)
    /\ UNCHANGED notifyCbFn

\* receiveRpcMsgCB, on the thread of the RPC server.
sendIoTNotification(fields) ==
    /\ Deliver(ParamNotify(<<"IOT">>, <<"UNKNOWN">>, Head(fields), NULL, <<"STRING">>))
    /\ Returns("IOT", fields, TRUE)
    /\ UNCHANGED <<notifyCbFn, notifyCbFnPtr>>

\* An event of the bus: the callback gets an array, of which it passes on the first.
ccspWebPaValueChangedCB(fields) ==
    /\ Deliver(ParamNotify(<<"param">>, <<"WebUI">>, Head(fields), NULL, <<"STRING">>))
    /\ Returns("event", fields, TRUE)
    /\ UNCHANGED <<notifyCbFn, notifyCbFnPtr>>

Next ==
    \/ RegisterNotifyCB
    \/ \E id \in WriteIds, new, old \in Values :
          SetNotification(<< <<"param">>, <<id>>, new, old, <<"1">> >>)
    \/ \E interface, host \in Values :
          SetConnectedClient(<< <<"param">>, interface, <<"mac">>, <<"Online">>, host >>)
    \/ \E v \in Values : SetPostData(<<v>>) \/ sendIoTNotification(<<v>>)
    \/ \E v \in Values : ccspWebPaValueChangedCB(<<v, <<"w">> >>)

Spec == Init /\ [][Next]_vars
------------------------------------------------------------------------------
(***************************************************************************)
(* Properties                                                              *)
(***************************************************************************)
HasComma(call) == \E k \in DOMAIN call.fields : Delimiter \in Range(call.fields[k])
HasEmpty(call) == <<>> \in Range(call.fields)

\* What the server is to be told of a call, from its fields.
Told(call) ==
    LET f == call.fields
    IN  CASE call.kind = "notification" -> ParamNotify(f[1], f[2], f[3], f[4], f[5])
          [] call.kind = "client" ->
               [type |-> "CONNECTED_CLIENT_NOTIFY",
                node |-> IF HasEmpty(call) THEN NULL ELSE SubSeq(f, 2, 5)]
          [] call.kind = "message" -> UpstreamMsg(f[1])
          [] call.kind = "IOT" ->
               ParamNotify(<<"IOT">>, <<"UNKNOWN">>, f[1], NULL, <<"STRING">>)
          [] call.kind = "event" ->
               ParamNotify(<<"param">>, <<"WebUI">>, f[1], NULL, <<"STRING">>)

IsTold(call) == call.registered /\ ~(call.kind = "notification" /\ HasEmpty(call))

\* When no value has a comma, the server is told, in the order of the calls, of
\* each that came after webpacore had registered its callback, once and with each
\* field in its place; a changed value that was or became empty is not reported
\* with its neighbour's, it is not reported at all, and a client with an empty
\* field is reported without its data.
ServerIsTold ==
    (\A k \in DOMAIN calls : ~HasComma(calls[k])) =>
        \E f \in [DOMAIN delivered -> DOMAIN calls] :
            /\ \A x, y \in DOMAIN delivered : x < y => f[x] < f[y]
            /\ \A x \in DOMAIN delivered : delivered[x] = Told(calls[f[x]])
            /\ Range(f) = {k \in DOMAIN calls : IsTold(calls[k])}

\* "return: TRUE if succeeded." (cosa_Webpa_dml.c): a notification that was taken
\* with TRUE has been passed on.
TrueIfSucceeded ==
    \A k \in DOMAIN calls :
        calls[k].kind = "notification" /\ calls[k].registered /\ calls[k].result
            => calls[k].passedOn
==============================================================================
