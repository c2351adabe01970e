------------------------------ MODULE MCSyscfg -------------------------------
(* The instance of SyscfgParameters for TLC: values that just fit the buffers,*)
(* and some that are shorter.                                                 *)
EXTENDS SyscfgParameters

Text(t, n) == [text |-> t, length |-> n]

MCStrings == {"CID", "SyncProtocolVersion"}

MCBufferSize == [CID |-> 64, SyncProtocolVersion |-> 5, CMC |-> 8]

MCInitial ==
    [CID |-> Text("a", 1), SyncProtocolVersion |-> Text("0", 1), CMC |-> 0]

Fitting ==
    [CID |-> {Text("b", 1), Text("c", 63)},
     SyncProtocolVersion |-> {Text("2.0", 3), Text("2.10", 4)},
     CMC |-> {512, 9999999}]
==============================================================================
