--------------------------- MODULE SyscfgParameters --------------------------
(***************************************************************************)
(* The parameters WebPA keeps in syscfg (wal/cosa_Webpa_dml.c): a set puts *)
(* the text in syscfg's memory and then commits the memory to flash; a get *)
(* reads the memory into a buffer of a fixed size.  CMC is a number and is *)
(* printed into such a buffer when it is set, too.                         *)
(***************************************************************************)
EXTENDS Naturals

CONSTANTS
    Strings,    \* the parameters that are texts
    CMC,        \* X_COMCAST-COM_CMC, which is a number
    SyncVersion,\* the text whose set reports no failure
    BufferSize, \* parameter -> the size of its buffer
    Initial,    \* parameter -> the value before the first set
    Inputs,     \* parameter -> bound: the values that are set
    MaxCrashes  \* bound: reboots and crashes

Params == Strings \cup {CMC}

ASSUME SyscfgAssumption ==
    /\ CMC \notin Strings
    /\ SyncVersion \in Strings
    /\ BufferSize \in [Params -> Nat \ {0}]
    /\ MaxCrashes \in Nat

VARIABLES
    memory,     \* parameter -> its text, or CMC's digits
    flash,      \* the same, as of the last commit
    pc,         \* the next step of the call
    param, value, \* the parameter of the call and its value
    ret,        \* the result of the last call
    told,       \* history: parameter -> the values a caller may expect
    reliable,   \* whether syscfg_set and syscfg_commit succeed
    crashes     \* reboots and crashes so far

vars == <<memory, flash, pc, param, value, ret, told, reliable, crashes>>

\* A text is a record of what it says and its length.  Mutant: the buffer is one byte shorter.
ShorterBuffer(p) == BufferSize[p] - 1

RoomIn(p) == BufferSize[p]

\* The last byte of a buffer ends the text.
Shortened(p, t) ==
    [t EXCEPT !.length = IF @ < RoomIn(p) THEN @ ELSE RoomIn(p) - 1]

\* The leading digits of a number that the buffer holds.
Digits(p, u) ==
    LET cut == CHOOSE k \in 0 .. 9 :
                   /\ u \div 10^k < 10^(RoomIn(p) - 1)
                   /\ \A j \in 0 .. (k - 1) : u \div 10^j >= 10^(RoomIn(p) - 1)
    IN  u \div 10^cut

Stored(p, v) == IF p = CMC THEN Digits(p, v) ELSE v

Fetched(p, t) == IF p = CMC THEN Digits(p, t) ELSE Shortened(p, t)

Init ==
    /\ memory = Initial
    /\ flash = Initial
    /\ pc = "idle"
    /\ param = CMC
    /\ value = Initial[CMC]
    /\ ret = TRUE
    /\ told = [p \in Params |-> {Initial[p]}]
    /\ reliable \in BOOLEAN
    /\ crashes = 0

------------------------------------------------------------------------------
BeginSet ==
    /\ pc = "idle"
    /\ param' \in Params
    /\ value' \in Inputs[param']
    /\ pc' = "set"
    /\ UNCHANGED <<memory, flash, ret, told, reliable, crashes>>

\* A set that fails is reported, except for the protocol version.
SyscfgSet ==
    /\ pc = "set"
    /\ \/ /\ memory' = [memory EXCEPT ![param] = Stored(param, value)]
          /\ pc' = "commit"
          /\ UNCHANGED ret
       \/ /\ ~reliable
          /\ ret' = (param = SyncVersion)
          /\ pc' = "done"
          /\ UNCHANGED memory
    /\ UNCHANGED <<flash, param, value, told, reliable, crashes>>

\* A commit that fails is only logged.
SyscfgCommit ==
    /\ pc = "commit"
    /\ \/ flash' = memory
       \/ ~reliable /\ UNCHANGED flash
    /\ ret' = TRUE
    /\ pc' = "done"
    /\ UNCHANGED <<memory, param, value, told, reliable, crashes>>

Get ==
    /\ pc = "idle"
    /\ param' \in Params
    /\ value' = Fetched(param', memory[param'])
    /\ ret' = TRUE
    /\ pc' = "got"
    /\ UNCHANGED <<memory, flash, told, reliable, crashes>>

\* A success that was not committed may be gone after a reboot.
Return ==
    /\ pc \in {"done", "got"}
    /\ told' = IF pc = "got" \/ ~ret THEN told
               ELSE IF reliable \/ (\A f \in {memory, flash} : f[param] = Stored(param, value))
               THEN [told EXCEPT ![param] = {value}]
               ELSE [told EXCEPT ![param] = @ \cup {value}]
    /\ pc' = "idle"
    /\ UNCHANGED <<memory, flash, param, value, ret, reliable, crashes>>

\* What a call under way was to set may be found after a crash, or not.
Interrupted ==
    /\ crashes < MaxCrashes
    /\ crashes' = crashes + 1
    /\ pc' = "idle"
    /\ told' = IF pc \in {"set", "commit", "done"}
               THEN [told EXCEPT ![param] = @ \cup {value}] ELSE told
    /\ UNCHANGED <<flash, param, value, ret, reliable>>

\* syscfg's memory outlives the process, and not the device's power.
Reboot == Interrupted /\ memory' = flash

Crash == Interrupted /\ UNCHANGED memory

Next == BeginSet \/ SyscfgSet \/ SyscfgCommit \/ Get \/ Return \/ Reboot \/ Crash

Spec == Init /\ [][Next]_vars

------------------------------------------------------------------------------
\* "check the parameter name and set the corresponding value"
\* (cosa_Webpa_dml.c): a get returns the value of the last set that was reported
\* as a success, across any reboot.  It may only be an older one when a crash
\* has cut the set short, or the set was not committed though it was reported as
\* a success; a set reported as a failure is never seen.
GetReturnsWhatWasSet == pc = "got" => value \in told[param]
==============================================================================
