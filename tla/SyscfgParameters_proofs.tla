----------------------- MODULE SyscfgParameters_proofs -----------------------
(***************************************************************************)
(* What a get returns of the parameters in syscfg, for any parameters and  *)
(* any values that their buffers hold, through any number of crashes and   *)
(* reboots and whatever syscfg's calls return.                             *)
(***************************************************************************)
EXTENDS SyscfgParameters, TLAPS

\* The values the buffer of a parameter holds.
Fitting(p) ==
    IF p = CMC THEN {u \in Nat : u < 10^(BufferSize[p] - 1)}
    ELSE [text : STRING, length : 0..(BufferSize[p] - 1)]

\* The values the parameters are set to.
Settable(p) == Inputs[p] \cup {Initial[p]}

ValuesFit ==
    /\ Initial \in [Params -> UNION {Fitting(p) : p \in Params}]
    /\ \A p \in Params : Settable(p) \subseteq Fitting(p)

\* The call under way may have put its value in memory or in flash: from the set
\* to the return, unless it has failed.
UnderWay(p) == p = param /\ (pc = "commit" \/ (pc = "done" /\ ret))

Expected(p) == IF UnderWay(p) THEN told[p] \cup {value} ELSE told[p]

TypeInv ==
    /\ memory = [p \in Params |-> memory[p]] /\ flash = [p \in Params |-> flash[p]]
    /\ told = [p \in Params |-> told[p]]
    /\ pc \in {"idle", "set", "commit", "done", "got"}
    /\ ret \in BOOLEAN /\ reliable \in BOOLEAN
    /\ param \in Params
    /\ pc \in {"set", "commit", "done"} => value \in Inputs[param]

\* What is in memory and in flash is what a caller may expect.  When syscfg's
\* calls do not fail, it is what has been set.
SyscfgInv ==
    /\ TypeInv
    /\ \A p \in Params : told[p] \subseteq Settable(p)
    /\ \A p \in Params : memory[p] \in Expected(p) /\ flash[p] \in Expected(p)
    /\ pc = "commit" /\ reliable => memory[param] = value
    /\ pc = "done" /\ reliable => ret /\ memory[param] = value /\ flash[param] = value
    /\ pc = "got" => value \in told[param]

------------------------------------------------------------------------------
\* A value that the buffer of its parameter holds comes out as it went in.
LEMMA FittingStays ==
    ASSUME NEW p \in Params, NEW v \in Fitting(p)
    PROVE  Stored(p, v) = v /\ Fetched(p, v) = v
<1>1. RoomIn(p) = BufferSize[p] /\ BufferSize[p] \in Nat \ {0}
  BY SyscfgAssumption DEF RoomIn
<1>2. CASE p = CMC
  <2>1. v \in Nat /\ v < 10^(RoomIn(p) - 1)
    BY <1>1, <1>2 DEF Fitting
  <2>2. 10^0 = 1 /\ v \div 1 = v
    BY <2>1
  <2> DEFINE Cut(k) == /\ v \div 10^k < 10^(RoomIn(p) - 1)
                       /\ \A j \in 0..(k - 1) : v \div 10^j >= 10^(RoomIn(p) - 1)
  <2>3. Cut(0)
    BY <2>1, <2>2
  <2>4. \A k \in 0..9 : Cut(k) => k = 0
    <3> SUFFICES ASSUME NEW k \in 0..9, Cut(k), k # 0 PROVE FALSE
      OBVIOUS
    <3>1. 0 \in 0..(k - 1)
      OBVIOUS
    <3>2. v \div 10^0 >= 10^(RoomIn(p) - 1)
      BY <3>1
    <3>3. PICK room \in Nat : room = RoomIn(p) - 1
      BY <1>1
    <3> QED
      BY <3>2, <3>3, <2>1, <2>2
  <2> HIDE DEF Cut
  <2>5. (CHOOSE k \in 0..9 : Cut(k)) = 0
    BY <2>3, <2>4
  <2>6. Digits(p, v) = v
    BY <2>2, <2>5 DEF Digits, Cut
  <2> QED
    BY <1>2, <2>6 DEF Stored, Fetched
<1>3. CASE p # CMC
  <2>1. v \in [text : STRING, length : 0..(BufferSize[p] - 1)]
    BY <1>3 DEF Fitting
  <2>2. Shortened(p, v) = v
    BY <1>1, <2>1 DEF Shortened
  <2> QED
    BY <1>3, <2>2 DEF Stored, Fetched
<1> QED
  BY <1>2, <1>3

LEMMA InitInv == ASSUME ValuesFit PROVE Init => SyscfgInv
BY DEF ValuesFit, Init, SyscfgInv, TypeInv, Params, Expected, UnderWay, Settable
LEMMA NextKeeps == ASSUME ValuesFit PROVE SyscfgInv /\ [Next]_vars => SyscfgInv'
<1> SUFFICES ASSUME SyscfgInv, [Next]_vars PROVE SyscfgInv'
  OBVIOUS
<1> USE DEF SyscfgInv, TypeInv, Expected, UnderWay
<1>1. ASSUME NEW p \in Params, NEW v \in Settable(p)
      PROVE  Stored(p, v) = v /\ Fetched(p, v) = v
  BY <1>1, FittingStays DEF ValuesFit
<1>2. Stored(param, value) = value \/ pc \notin {"set", "commit", "done"}
  BY <1>1 DEF Settable
<1>3. CASE BeginSet
  BY <1>3 DEF BeginSet
<1>4. CASE SyscfgSet
  <2>1. \A p \in Params : memory'[p] = IF p = param /\ memory' # memory THEN value ELSE memory[p]
    BY <1>2, <1>4 DEF SyscfgSet
  <2>2. pc' = "commit" => memory'[param] = value
    BY <1>2, <1>4 DEF SyscfgSet
  <2> QED
    BY <2>1, <2>2, <1>4 DEF SyscfgSet
<1>5. CASE SyscfgCommit
  BY <1>5 DEF SyscfgCommit
<1>6. CASE Get
  <2>1. param' \in Params /\ value' = Fetched(param', memory[param'])
    BY <1>6 DEF Get
  <2>2. memory[param'] \in told[param'] /\ memory[param'] \in Settable(param')
    BY <2>1, <1>6 DEF Get
  <2>3. value' = memory[param']
    BY <2>1, <2>2, <1>1
  <2> QED
    BY <2>1, <2>2, <2>3, <1>6 DEF Get
<1>7. CASE Return
  <2>1. CASE pc = "got" \/ ~ret
    BY <2>1, <1>7 DEF Return
  <2>2. /\ pc' = "idle" /\ memory' = memory /\ flash' = flash /\ param' = param
        /\ ret' \in BOOLEAN /\ reliable' \in BOOLEAN
    BY <1>7 DEF Return
  <2>3. CASE pc = "done" /\ ret
    <3>1. Stored(param, value) = value /\ value \in Settable(param)
      BY <2>3, <1>2 DEF Settable
    <3>2. CASE reliable \/ \A f \in {memory, flash} : f[param] = Stored(param, value)
      <4>1. memory[param] = value /\ flash[param] = value
        BY <2>3, <3>1, <3>2
      <4>2. told' = [told EXCEPT ![param] = {value}]
        BY <2>3, <3>2, <1>7 DEF Return
      <4>3. \A p \in Params : told'[p] = IF p = param THEN {value} ELSE told[p]
        BY <4>2
      <4> QED
        BY <2>2, <2>3, <3>1, <4>1, <4>2, <4>3
    <3>3. CASE ~(reliable \/ \A f \in {memory, flash} : f[param] = Stored(param, value))
      <4>1. told' = [told EXCEPT ![param] = @ \cup {value}]
        BY <2>3, <3>3, <1>7 DEF Return
      <4>2. \A p \in Params : told'[p] = IF p = param THEN told[p] \cup {value} ELSE told[p]
        BY <4>1
      <4> QED
        BY <2>2, <2>3, <3>1, <4>1, <4>2
    <3> QED
      BY <3>2, <3>3
  <2> QED
    BY <2>1, <2>3, <1>7 DEF Return
<1>8. CASE Reboot \/ Crash
  <2>1. \A p \in Params : told'[p] = IF p = param /\ pc \in {"set", "commit", "done"}
                                     THEN told[p] \cup {value} ELSE told[p]
    BY <1>8 DEF Reboot, Crash, Interrupted
  <2>2. memory' \in {memory, flash} /\ flash' = flash /\ pc' = "idle"
    BY <1>8 DEF Reboot, Crash, Interrupted
  <2>3. told' = [p \in Params |-> told'[p]]
    BY <1>8 DEF Reboot, Crash, Interrupted
  <2>4. param' = param /\ ret' \in BOOLEAN /\ reliable' \in BOOLEAN
    BY <1>8 DEF Reboot, Crash, Interrupted
  <2>5. TypeInv'
    BY <2>2, <2>3, <2>4
  <2>6. \A p \in Params : told'[p] \subseteq Settable(p)
    BY <2>1 DEF Settable
  <2>7. \A p \in Params : memory[p] \in told'[p] /\ flash[p] \in told'[p]
    BY <2>1
  <2> QED
    BY <2>2, <2>5, <2>6, <2>7
<1>9. CASE UNCHANGED vars
  BY <1>9 DEF vars
<1> QED
  BY <1>3, <1>4, <1>5, <1>6, <1>7, <1>8, <1>9 DEF Next

\* When the values fit their buffers, a get returns what the last set left that
\* was reported as a success, or what a set that was cut short or not committed
\* may have left; never what a set reported as a failure was to leave.
THEOREM GetCorrect == ASSUME ValuesFit PROVE Spec => []GetReturnsWhatWasSet
<1>1. SyscfgInv => GetReturnsWhatWasSet
  BY DEF SyscfgInv, GetReturnsWhatWasSet
<1> QED
  BY <1>1, InitInv, NextKeeps, PTL DEF Spec
==============================================================================
