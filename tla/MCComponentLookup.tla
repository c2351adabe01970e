--------------------------- MODULE MCComponentLookup ---------------------------
(* An instance for TLC of the look-up and of the requests that use it: two    *)
(* objects, one of which has two sub-objects and a parameter of its own, and  *)
(* every assignment of owners.  For the mapping, the names of three objects,  *)
(* of every row and of none.                                                  *)
EXTENDS AttributeRequests, NameMapping, TLC

ObjectList == <<"WiFi", "IP">>
name(o, s, l) == [obj |-> o, sub |-> s, leaf |-> l]
SubObjectList == <<name("IP", "Diagnostics", ""), name("IP", "Interface", "")>>
ParameterNames ==
    {name("WiFi", "SSID", "Enable"), name("IP", "", "Enable"),
     name("IP", "Diagnostics", "State"), name("IP", "Interface", "Enable"),
     name("IP", "Interface", "Status")}

AllObjects == {"Radio", "SSID", "Hosts"}
ServerNumbers == {IndexMap[j].WebPaInstanceNumber : j \in DOMAIN IndexMap} \cup {1, 3}
DeviceNumbers == 1..17
==============================================================================
