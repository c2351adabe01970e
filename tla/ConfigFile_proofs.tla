-------------------------- MODULE ConfigFile_proofs --------------------------
(***************************************************************************)
(* Theorems about the configuration file: types, what a get and a          *)
(* successful set mean, and that the commands implement ConfigStore, for   *)
(* any parameters, values, failures and number of crashes.                 *)
(***************************************************************************)
EXTENDS ConfigFile, TLAPS

EditOf(f) == [p \in DOMAIN f |-> IF p = param THEN value ELSE f[p]]

\* What the file and the temporary file hold at each step of a call and of the
\* script: this is the induction that the properties need.
FileInv ==
    /\ ~exists => cfg = Empty
    /\ pc \in {"fill", "fill_factory", "refill_factory"} => exists
    /\ pc \in {"sed", "rm"} => cfg = before
    /\ pc \in {"cp", "fill", "fill_factory", "refill_factory"} => cfg = Empty
    /\ pc \in {"rm", "cp", "fill"} => tmp = EditOf(before) \/ (tmp = Empty /\ ~reliable)
    /\ pc = "read" => tmp = LineOf(param) \/ (tmp = Empty /\ ~reliable)
    /\ reliable /\ Running /\ pc \notin {"cp", "fill"} => cfg # Empty
    /\ reliable /\ pc \in {"cp", "fill"} => before # Empty

SetInv ==
    /\ pc = "rm_tmp" /\ reliable => cfg = EditOf(before) /\ before # Empty
    /\ pc = "done" /\ ret = "SUCCESS" /\ reliable => cfg = EditOf(before) /\ before # Empty

Inv == TypeOK /\ FileInv /\ SetInv /\ GetReturnsStored

------------------------------------------------------------------------------
\* The empty file has no line, so it is not a whole file.
LEMMA EmptyFile == Empty \notin [Params -> Values] /\ Empty \in Contents /\ DOMAIN Empty = {}
<1>1. DOMAIN Empty = {}
  BY DEF Empty
<1>2. Empty \notin [Params -> Values]
  BY <1>1, ConfigAssumption DEF ConfigAssumption
<1>3. Empty \in [{} -> Values]
  BY DEF Empty
<1> QED
  BY <1>1, <1>2, <1>3 DEF Contents

\* A file that is whole, or empty, is a function of its lines.
LEMMA WholeIsContents ==
    ASSUME NEW f, f \in Whole
    PROVE  f \in Contents /\ f \in [DOMAIN f -> Values]
                          /\ DOMAIN f \in {Params, {}} /\ (DOMAIN f = {} => f = Empty)
<1>1. CASE f = Empty
  BY <1>1, EmptyFile DEF Contents, Empty
<1>2. CASE f \in [Params -> Values]
  BY <1>2, ConfigAssumption DEF Contents, ConfigAssumption
<1> QED
  BY <1>1, <1>2 DEF Whole

\* Editing the empty file gives the empty file, editing a whole one a whole one
\* in which the one line has changed.
LEMMA Editing ==
    ASSUME NEW f, f \in Whole, param \in Params, value \in Values
    PROVE  /\ EditOf(f) \in Whole
           /\ f = Empty => EditOf(f) = Empty
           /\ f # Empty => /\ EditOf(f) = [f EXCEPT ![param] = value]
                           /\ EditOf(f) # Empty
                           /\ EditOf(f) = [p \in Params |-> IF p = param THEN value ELSE f[p]]
<1>1. CASE f = Empty
  <2>1. EditOf(f) = Empty
    BY <1>1, EmptyFile DEF EditOf, Empty
  <2> QED
    BY <1>1, <2>1 DEF Whole
<1>2. CASE f \in [Params -> Values]
  <2>1. EditOf(f) \in [Params -> Values] /\ EditOf(f) = [f EXCEPT ![param] = value]
    BY <1>2 DEF EditOf
  <2>2. EditOf(f) = [p \in Params |-> IF p = param THEN value ELSE f[p]]
    BY <1>2 DEF EditOf
  <2> QED
    BY <1>2, <2>1, <2>2, EmptyFile DEF Whole
<1> QED
  BY <1>1, <1>2 DEF Whole

------------------------------------------------------------------------------
LEMMA InitInv == Init => Inv
<1> SUFFICES ASSUME Init PROVE Inv
  OBVIOUS
<1>1. TypeOK
  <2>1. Empty \in Whole /\ Empty \in Contents
    BY EmptyFile DEF Whole
  <2>2. param \in Params /\ value \in Values
    BY ConfigAssumption DEF Init, ConfigAssumption
  <2>3. crashes \in 0 .. MaxCrashes
    BY ConfigAssumption DEF Init, ConfigAssumption
  <2> QED
    BY <2>1, <2>2, <2>3 DEF Init, TypeOK, Script
<1>2. FileInv /\ SetInv /\ GetReturnsStored
  BY DEF Init, FileInv, SetInv, GetReturnsStored, Running, Script
<1> QED
  BY <1>1, <1>2 DEF Inv

------------------------------------------------------------------------------
(***************************************************************************)
(* Every step keeps the invariant                                          *)
(***************************************************************************)
LEMMA BeginInv == ASSUME Inv, BeginSet \/ BeginGet PROVE Inv'
<1> USE DEF Inv, callVars
<1>1. TypeOK'
  BY DEF TypeOK, BeginSet, BeginGet, GetSteps, SetSteps
<1>2. FileInv'
  BY DEF FileInv, BeginSet, BeginGet, Running, Script
<1>3. SetInv' /\ GetReturnsStored'
  <2>1. ~exists => cfg = Empty
    BY DEF FileInv
  <2> QED
    BY <2>1 DEF SetInv, GetReturnsStored, BeginSet, BeginGet
<1> QED
  BY <1>1, <1>2, <1>3

LEMMA SetStepInv ==
  ASSUME Inv, Sed \/ RemoveConfig \/ CreateConfig \/ FillConfig \/ EndSet
  PROVE  Inv'
<1> USE DEF Inv, callVars
<1>1. CASE Sed
  <2>1. Edited = EditOf(cfg) /\ Edited \in Whole
    BY Editing DEF TypeOK, Edited, EditOf
  <2>2. tmp' \in Contents
    BY <1>1, <2>1, EmptyFile, WholeIsContents DEF Sed
  <2>3. TypeOK'
    BY <1>1, <2>2 DEF Sed, TypeOK, SetSteps
  <2>4. cfg = before /\ before' = before /\ EditOf(before)' = EditOf(before)
    BY <1>1 DEF Sed, FileInv, EditOf
  <2>5. FileInv' /\ SetInv' /\ GetReturnsStored'
    BY <1>1, <2>1, <2>4
       DEF Sed, FileInv, SetInv, GetReturnsStored,  Running, Script
  <2> QED
    BY <2>3, <2>5
<1>2. CASE RemoveConfig
  <2>1. TypeOK'
    BY <1>2 DEF RemoveConfig, TypeOK, SetSteps, Whole
  <2>2. EditOf(before)' = EditOf(before)
    BY <1>2 DEF RemoveConfig, EditOf
  <2>3. FileInv' /\ SetInv' /\ GetReturnsStored'
    BY <1>2, <2>2
       DEF RemoveConfig, FileInv, SetInv, GetReturnsStored,  Running, Script
  <2> QED
    BY <2>1, <2>3
<1>3. CASE CreateConfig
  <2>1. TypeOK'
    BY <1>3 DEF CreateConfig, TypeOK, SetSteps, Whole
  <2>2. EditOf(before)' = EditOf(before)
    BY <1>3 DEF CreateConfig, EditOf
  <2>3. FileInv' /\ SetInv' /\ GetReturnsStored'
    BY <1>3, <2>2
       DEF CreateConfig, FileInv, SetInv, GetReturnsStored,  Running, Script
  <2> QED
    BY <2>1, <2>3
<1>4. CASE FillConfig
  <2>1. EditOf(before) \in Whole /\ (before # Empty => EditOf(before) # Empty)
    BY Editing DEF TypeOK
  <2>2. tmp \in Whole
    BY <1>4, <2>1 DEF FillConfig, FileInv, Whole
  <2>3. TypeOK'
    BY <1>4, <2>2 DEF FillConfig, TypeOK, SetSteps
  <2>4. EditOf(before)' = EditOf(before)
    BY <1>4 DEF FillConfig, EditOf
  <2>5. FileInv' /\ SetInv' /\ GetReturnsStored'
    BY <1>4, <2>1, <2>4
       DEF FillConfig, FileInv, SetInv, GetReturnsStored,  Running, Script
  <2> QED
    BY <2>3, <2>5
<1>5. CASE EndSet
  <2>1. TypeOK'
    BY <1>5, EmptyFile DEF EndSet, TypeOK
  <2>2. EditOf(before)' = EditOf(before)
    BY <1>5 DEF EndSet, EditOf
  <2>3. FileInv' /\ SetInv' /\ GetReturnsStored'
    BY <1>5, <2>2
       DEF EndSet, FileInv, SetInv, GetReturnsStored,  Running, Script
  <2> QED
    BY <2>1, <2>3
<1> QED
  BY <1>1, <1>2, <1>3, <1>4, <1>5

LEMMA GetStepInv ==
  ASSUME Inv, Grep \/ Read
  PROVE  Inv'
<1> USE DEF Inv, callVars
<1>1. CASE Grep
  <2>1. LineOf(param) \in Contents
    <3>1. cfg \in [DOMAIN cfg -> Values] /\ DOMAIN cfg \in SUBSET Params
      BY WholeIsContents DEF TypeOK
    <3>2. LineOf(param) \in [DOMAIN cfg \cap {param} -> Values]
      BY <3>1 DEF LineOf
    <3> QED
      BY <3>1, <3>2 DEF Contents
  <2>2. TypeOK'
    BY <1>1, <2>1, EmptyFile DEF Grep, Found, TypeOK, GetSteps
  <2>3. LineOf(param)' = LineOf(param)
    BY <1>1 DEF Grep, LineOf
  <2>4. FileInv' /\ SetInv' /\ GetReturnsStored'
    BY <1>1, <2>3
       DEF Grep, Found, FileInv, SetInv, GetReturnsStored,  Running, Script
  <2> QED
    BY <2>2, <2>4
<1>2. CASE Read
  <2>1. tmp \in Contents /\ Empty \in Contents
    BY EmptyFile DEF TypeOK
  <2>2. value' \in Values
    BY <1>2, <2>1 DEF Read, Contents, TypeOK
  <2>3. TypeOK'
    BY <1>2, <2>1, <2>2 DEF Read, TypeOK
  <2>4. cfg # Empty => cfg \in [Params -> Values] /\ DOMAIN LineOf(param) = {param}
    BY DEF TypeOK, Whole, LineOf
  <2>5. cfg = Empty => LineOf(param) = Empty
    BY EmptyFile DEF LineOf, Empty
  <2>6. GetReturnsStored'
    <3>1. CASE ret' = "SUCCESS"
      <4>1. PICK q \in DOMAIN tmp : value' = tmp[q]
        BY <1>2, <3>1 DEF Read
      <4>2. tmp = LineOf(param)
        BY <1>2, <4>1, EmptyFile DEF Read, FileInv
      <4>3. q = param /\ tmp[q] = cfg[param] /\ cfg # Empty
        BY <4>1, <4>2, <2>5, EmptyFile DEF LineOf
      <4> QED
        BY <1>2, <3>1, <4>1, <4>3 DEF Read, GetReturnsStored
    <3>2. CASE ret' = "FAILURE"
      <4>1. tmp = Empty
        BY <1>2, <3>2 DEF Read
      <4>2. cfg = Empty \/ ~reliable
        BY <1>2, <4>1, <2>4, EmptyFile DEF Read, FileInv
      <4> QED
        BY <1>2, <3>2, <4>2 DEF Read, GetReturnsStored
    <3> QED
      BY <1>2, <3>1, <3>2 DEF Read
  <2>7. FileInv' /\ SetInv'
    BY <1>2 DEF Read, FileInv, SetInv,  Running, Script
  <2> QED
    BY <2>3, <2>6, <2>7
<1> QED
  BY <1>1, <1>2

LEMMA RestInv ==
  ASSUME Inv, Return \/ Reboot \/ Crash \/ webpa_sh \/ UNCHANGED vars
  PROVE  Inv'
<1> USE DEF Inv, callVars, scriptUnchanged
<1>0. EditOf(before)' = EditOf(before) /\ LineOf(param)' = IF cfg' = cfg THEN LineOf(param)
                                                         ELSE LineOf(param)'
  BY DEF EditOf, LineOf, Return, Reboot, Crash, webpa_sh, CreateFactory, FillFactory,
         TestVersion, Launch, vars
<1>1. CASE Return
  BY <1>1 DEF Return, TypeOK, FileInv, SetInv, GetReturnsStored,  Running, Script
<1>2. CASE Reboot \/ Crash
  <2>1. crashes' \in 0 .. MaxCrashes
    BY <1>2, ConfigAssumption DEF Reboot, Crash, TypeOK, ConfigAssumption
  <2>2. TypeOK'
    BY <1>2, <2>1, EmptyFile DEF Reboot, Crash, TypeOK, Script
  <2>3. FileInv' /\ SetInv' /\ GetReturnsStored'
    BY <1>2 DEF Reboot, Crash, FileInv, SetInv, GetReturnsStored,  Running, Script
  <2> QED
    BY <2>2, <2>3
<1>3. CASE webpa_sh
  <2>1. TypeOK'
    BY <1>3, ConfigAssumption
       DEF webpa_sh, CreateFactory, FillFactory, TestVersion, Launch, TypeOK, Script,
           Whole, ConfigAssumption
  <2>2. Factory # Empty
    BY EmptyFile, ConfigAssumption DEF ConfigAssumption
  <2>3. FileInv' /\ SetInv' /\ GetReturnsStored'
    BY <1>3, <2>2
       DEF webpa_sh, CreateFactory, FillFactory, TestVersion, HasNoVersion, Launch,
           FileInv, SetInv, GetReturnsStored,  Running, Script
  <2> QED
    BY <2>1, <2>3
<1>4. CASE UNCHANGED vars
  BY <1>0, <1>4 DEF vars, TypeOK, FileInv, SetInv, GetReturnsStored,  Running, Script
<1> QED
  BY <1>1, <1>2, <1>3, <1>4

------------------------------------------------------------------------------
(***************************************************************************)
(* The theorems                                                            *)
(***************************************************************************)
THEOREM InvHolds == Spec => []Inv
<1>1. Inv /\ [Next]_vars => Inv'
  BY BeginInv, SetStepInv, GetStepInv, RestInv DEF Next, ServeCall
<1> QED
  BY <1>1, InitInv, PTL DEF Spec

\* Every variable keeps its type: the file is whole or empty and never has some
\* of its lines, however the commands fail and whenever the device crashes.
THEOREM TypeCorrect == Spec => []TypeOK
<1>1. Inv => TypeOK
  BY DEF Inv
<1> QED
  BY <1>1, InvHolds, PTL

\* A get that succeeds returns the file's value of its parameter, and fails only
\* without a file or without room.
THEOREM GetCorrect == Spec => []GetReturnsStored
<1>1. Inv => GetReturnsStored
  BY DEF Inv
<1> QED
  BY <1>1, InvHolds, PTL

\* When the commands have room and no value has a slash, a set reported as a
\* success changed its parameter's line and no other.
THEOREM SetCorrect == Spec => []SuccessfulSetIsStored
<1>1. Inv => SuccessfulSetIsStored
  <2> SUFFICES ASSUME Inv, reliable, pc = "done", ret = "SUCCESS"
               PROVE  cfg = [p \in Params |-> IF p = param THEN value ELSE before[p]]
    BY DEF SuccessfulSetIsStored
  <2>1. cfg = EditOf(before) /\ before # Empty
    BY DEF Inv, SetInv
  <2> QED
    BY <2>1, Editing DEF Inv, TypeOK
<1> QED
  BY <1>1, InvHolds, PTL

------------------------------------------------------------------------------
\* The steps that leave the file and what it stands for alone.
LEMMA QuietSteps ==
  ASSUME Inv, \/ BeginSet \/ BeginGet \/ Sed \/ RemoveConfig \/ EndSet
              \/ Grep \/ Read \/ Return \/ UNCHANGED vars
  PROVE  UNCHANGED <<Configuration, Running, reliable>>
<1>1. pc = "rm" => cfg = before
  BY DEF Inv, FileInv
<1> QED
  BY <1>1 DEF BeginSet, BeginGet, Sed, RemoveConfig, EndSet, Grep, Read, Return, vars,
              callVars, Configuration, Running, Script

\* cp either keeps the configuration, writes the new one, or loses it.
LEMMA CopySteps ==
  ASSUME Inv, CreateConfig \/ FillConfig
  PROVE  \/ UNCHANGED <<Configuration, Running, reliable>>
         \/ Store!Lose
         \/ \E p \in Params, v \in Values : Store!Write(p, v)
<1>0. reliable' = reliable
  BY DEF CreateConfig, FillConfig, callVars
<1> USE <1>0 DEF Running, Script
<1>1. CASE CreateConfig
  <2>1. CASE pc' = "fill"
    BY <1>1, <2>1 DEF CreateConfig, callVars, Configuration
  <2>2. CASE pc' = "rm_tmp"
    <3>1. ~reliable /\ cfg' = Empty
      BY <1>1, <2>2 DEF CreateConfig, Inv, FileInv
    <3> QED
      BY <1>1, <2>2, <3>1 DEF CreateConfig, Configuration, Store!Lose, Store!Lost, Empty
  <2> QED
    BY <1>1, <2>1, <2>2 DEF CreateConfig
<1>2. CASE FillConfig
  <2>1. pc = "fill" /\ pc' = "rm_tmp" /\ Configuration = before /\ Configuration' = cfg'
    BY <1>2 DEF FillConfig, Configuration
  <2>2. CASE cfg' = Empty /\ ~reliable
    BY <2>1, <2>2 DEF Store!Lose, Store!Lost, Empty
  <2>3. CASE cfg' = EditOf(before) /\ before # Empty
    <3>1. cfg' = [before EXCEPT ![param] = value]
      BY <2>3, Editing DEF Inv, TypeOK
    <3>2. Store!Write(param, value)
      BY <2>1, <2>3, <3>1 DEF Store!Write, Store!Lost, Empty
    <3> QED
      BY <3>2 DEF Inv, TypeOK
  <2>4. CASE cfg' = EditOf(before) /\ before = Empty
    <3>1. cfg' = before
      BY <2>4, Editing DEF Inv, TypeOK
    <3> QED
      BY <2>1, <3>1
  <2>5. \/ cfg' = EditOf(before)
        \/ cfg' = Empty /\ ~reliable
    BY <1>2 DEF FillConfig, Inv, FileInv
  <2> QED
    BY <2>2, <2>3, <2>4, <2>5
<1> QED
  BY <1>1, <1>2

\* A crash stops the store, which keeps or loses its contents.
LEMMA CrashSteps ==
  ASSUME Inv, Reboot \/ Crash
  PROVE  Store!Stop
<1>1. pc' = "boot" /\ cfg' = cfg /\ reliable' = reliable
  BY DEF Reboot, Crash, callVars
<1>2. pc \in {"cp", "fill"} => cfg = Empty
  BY DEF Inv, FileInv
<1> QED
  BY <1>1, <1>2 DEF Store!Stop, Store!Lost, Empty, Configuration, Running, Script

\* The script restores a lost configuration, and starts WebPA with a whole one.
LEMMA ScriptSteps ==
  ASSUME Inv, webpa_sh
  PROVE  UNCHANGED <<Configuration, Running, reliable>> \/ Store!Restore \/ Store!Start
<1>0. reliable' = reliable
  BY DEF webpa_sh, CreateFactory, FillFactory, TestVersion, Launch, scriptUnchanged, callVars
<1> USE <1>0 DEF Running, Script, Configuration
<1>1. CASE CreateFactory \/ TestVersion
  BY <1>1 DEF CreateFactory, TestVersion
<1>2. CASE FillFactory
  <2>1. cfg = Empty
    BY <1>2 DEF FillFactory, Inv, FileInv
  <2> QED
    BY <1>2, <2>1 DEF FillFactory, Store!Restore, Store!Lost, Empty
<1>3. CASE Launch
  BY <1>3 DEF Launch, Store!Start, Store!Lost, Empty
<1> QED
  BY <1>1, <1>2, <1>3 DEF webpa_sh

\* The commands, their failures, the crashes and the script implement the store
\* of whole configurations.
THEOREM StoreImplemented == Spec => ImplementsStore
<1>1. Init => Store!Init
  BY DEF Init, Store!Init, Store!Lost, Empty, Configuration, Running, Script
<1>2. Inv /\ [Next]_vars => [Store!Next]_<<Configuration, Running, reliable>>
  BY QuietSteps, CopySteps, CrashSteps, ScriptSteps DEF Next, ServeCall, Store!Next
<1> QED
  BY <1>1, <1>2, InvHolds, PTL DEF Spec, ImplementsStore, Store!Spec
==============================================================================
