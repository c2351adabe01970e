---------------------------- MODULE MCTableRequests ----------------------------
(* Instances of TableRequests for TLC: a table whose name is the same on both *)
(* sides, and the MAC filter table of a WiFi access point.                    *)
EXTENDS TableRequests, TLC

HostsTable == [obj |-> "Hosts", inst |-> 0]
MacFilterTable == [obj |-> "AccessPoint", inst |-> 10001]
BothTables == {HostsTable, MacFilterTable}

Symmetry == Permutations(Data)
==============================================================================
