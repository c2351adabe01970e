------------------------------ MODULE NameMapping ------------------------------
(***************************************************************************)
(* Names and references that go through the index mapping (wal/wal.c).     *)
(*                                                                         *)
(* A GET sends a name to a component in the device's numbers and returns   *)
(* the names the component answers with, and their values, in the server's.*)
(* A SET maps names and not values.  A value may be a reference, the name  *)
(* of an instance; when a SET of it has to be rolled back, it is restored  *)
(* from what a GET has read.  None of this keeps state.                    *)
(***************************************************************************)
EXTENDS GetRequests, IndexMap

CONSTANTS
    Objects,          \* objects whose instances are asked for
    ServerInstances,  \* instance numbers the server may use
    DeviceInstances   \* instance numbers the device may use

ASSUME MappingAssumption ==
    /\ ServerInstances \subseteq Nat
    /\ DeviceInstances \subseteq Nat \ {0}
    /\ \A k \in DeviceInstances : k < 10000

ServerNames == [obj : Objects, inst : ServerInstances \cup {0}]
DeviceNames == [obj : Objects, inst : DeviceInstances]

\* An instance answers with its own name, an object with those of its instances.
AnsweredNames(sent) == {n \in DeviceNames : n.obj = sent.obj /\ sent.inst \in {0, n.inst}}

\* The names a GET may return: none when the name cannot be mapped.
GetNames(paramName) ==
    {IndexMpa_CPEtoWEBPA(n) :
        n \in IF IsMapped(paramName) THEN AnsweredNames(IndexMpa_WEBPAtoCPE(paramName)) ELSE {}}

ValueRead(reference) == IndexMpa_CPEtoWEBPA(reference)

\* Mutant: the values of the request are sent once more.
ValueSet(old, reference) == reference

\* What a rollback sets, of a reference that was another before the request.
RestoredValue(old, reference) == ValueRead(old)

------------------------------------------------------------------------------
(***************************************************************************)
(* Properties                                                              *)
(***************************************************************************)

\* What would contradict the three properties, once WALInit is done and requests
\* are served.
AnsweredOtherwise ==
    {n \in ServerNames : n.inst # 0 /\ ~(GetNames(n) \subseteq {n})}

LeadElsewhere ==
    {n \in UNION {AnsweredNames(whole) : whole \in {m \in ServerNames : m.inst = 0}} :
        /\ IsMapped(IndexMpa_CPEtoWEBPA(n))
        /\ IndexMpa_WEBPAtoCPE(IndexMpa_CPEtoWEBPA(n)) # n}

SeenAfterRollback ==
    {old \in DeviceNames :
        \E reference \in DeviceNames :
            ValueRead(RestoredValue(old, reference)) # ValueRead(old)}

\* A name of an instance the server asks for, and the mapping lets pass, comes
\* back as the server wrote it, though the two directions search different rows;
\* so two such names are never one instance of the device.
AnswerIsNamed == pc = "ready" => AnsweredOtherwise = {}

\* Each name the server gets in a GET of a whole object, asked for again, is sent
\* to the component as the name it had answered with, or is refused, as that of a
\* third radio is: it never leads to another instance.
ReturnedNameLeadsBack == pc = "ready" => LeadElsewhere = {}

\* A GET of a reference returns after a rollback what it returned before the
\* request, also when the rollback has left the component with the server's
\* number (of SSID.1, with SSID.10001).
ServerSeesNoChange == pc = "ready" => SeenAfterRollback = {}
==============================================================================
