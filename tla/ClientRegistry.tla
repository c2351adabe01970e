---------------------------- MODULE ClientRegistry ----------------------------
(***************************************************************************)
(* What the client connector's table promises, without threads and locks:  *)
(* MaxClients slots, each empty or given to one registered key; a key that *)
(* registers gets the first empty slot, and only when it has no slot       *)
(* already; a slot may be given up at any time (the client went away, or   *)
(* registers anew).                                                        *)
(***************************************************************************)
EXTENDS Naturals

CONSTANTS Keys, MaxClients, NoKey

VARIABLE slot   \* slot -> the key it is given to, or NoKey

Slots == 1..MaxClients

Init == slot = [i \in Slots |-> NoKey]

Register(k) ==
    /\ \A i \in Slots : slot[i] # k
    /\ \E i \in Slots :
          /\ slot[i] = NoKey
          /\ \A j \in 1..(i - 1) : slot[j] # NoKey
          /\ slot' = [slot EXCEPT ![i] = k]

Leave(i) ==
    /\ slot[i] # NoKey
    /\ slot' = [slot EXCEPT ![i] = NoKey]

Next == (\E k \in Keys : Register(k)) \/ (\E i \in Slots : Leave(i))

Spec == Init /\ [][Next]_slot
===============================================================================
