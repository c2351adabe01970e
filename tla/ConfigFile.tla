----------------------------- MODULE ConfigFile ------------------------------
(***************************************************************************)
(* The configuration file of WebPA (wal/cosa_Webpa_dml.c) and the script   *)
(* that starts it (scripts/webpa.sh).                                      *)
(*                                                                         *)
(* A set writes the edited file to TMP_WEBPA_CFG, removes WEBPA_CFG, copies*)
(* the one to the other and removes the first: five commands, each run by  *)
(* system(), with no test of their results.  A get goes through the same   *)
(* temporary file.  The device may reboot, or the process crash, between   *)
(* any two steps; the script then restores the factory's file when there   *)
(* is none, or when it has no file-version.                                *)
(*                                                                         *)
(* A file is the function of its lines; the one line that is not a         *)
(* parameter, file-version, is there when the file is not empty, as cp     *)
(* writes a file of this size at once.                                     *)
(***************************************************************************)
EXTENDS Naturals

CONSTANTS
    Params,     \* the parameters kept in the file
    Values,     \* their values
    Factory,    \* the lines of /etc/webpa_cfg.json
    MaxCrashes  \* bound: reboots and crashes

ASSUME ConfigAssumption ==
    /\ Params # {}
    /\ Factory \in [Params -> Values]
    /\ MaxCrashes \in Nat

VARIABLES
    exists,     \* whether WEBPA_CFG is there
    cfg,        \* its lines
    tmp,        \* the lines of TMP_WEBPA_CFG
    pc,         \* the next step of the call, or of the script
    param,      \* the call's parameter
    value,      \* the value to set, or the value got
    ret,        \* the status of the last call
    before,     \* history: the lines the call began with
    reliable,   \* whether sed, grep and cp succeed: they have the room they need,
                \* and no value has sed's delimiter, "/"
    crashes     \* reboots and crashes so far

callVars == <<param, value, before, reliable>>
vars == <<exists, cfg, tmp, pc, param, value, ret, before, reliable, crashes>>

Empty == [p \in {} |-> p]
Contents == UNION {[S -> Values] : S \in SUBSET Params}
Whole == [Params -> Values] \cup {Empty}

Script == {"boot", "fill_factory", "version", "refill_factory", "launch", "off"}
GetSteps == {"grep", "read"}
SetSteps == {"sed", "rm", "cp", "fill", "rm_tmp"}

TypeOK ==
    /\ exists \in BOOLEAN
    /\ cfg \in Whole
    /\ tmp \in Contents
    /\ pc \in Script \cup GetSteps \cup SetSteps \cup {"idle", "got", "done"}
    /\ param \in Params
    /\ value \in Values
    /\ ret \in {"SUCCESS", "FAILURE"}
    /\ before \in Whole
    /\ reliable \in BOOLEAN
    /\ crashes \in 0 .. MaxCrashes

\* The device as delivered: the file is first created by the script.
Init ==
    /\ exists = FALSE
    /\ cfg = Empty
    /\ tmp = Empty
    /\ pc = "boot"
    /\ param \in Params
    /\ value = Factory[param]
    /\ ret = "SUCCESS"
    /\ before = Empty
    /\ reliable \in BOOLEAN
    /\ crashes = 0

Running == pc \notin Script

------------------------------------------------------------------------------
(***************************************************************************)
(* Webpa_DmlDiSetWebPACfg                                                  *)
(***************************************************************************)
\* A call finds the file, or fails; the parameters' handlers only pass the
\* name and the value on.
BeginSet ==
    /\ pc = "idle"
    /\ param' \in Params
    /\ value' \in Values
    /\ before' = cfg
    /\ IF exists THEN pc' = "sed" /\ UNCHANGED ret
                 ELSE pc' = "done" /\ ret' = "FAILURE"
    /\ UNCHANGED <<exists, cfg, tmp, reliable, crashes>>

\* Mutant: sed writes to the file it reads, which the shell has emptied.
EditedInPlace == Empty

\* Mutant: sed only prints the line it edits.
OnlyEdited == [p \in DOMAIN cfg \cap {param} |-> value]

\* The line of a parameter the file does not have stays away.
Edited == [p \in DOMAIN cfg |-> IF p = param THEN value ELSE cfg[p]]

\* The redirection empties TMP_WEBPA_CFG before sed fails, on a value with its
\* delimiter or for want of space.
Sed ==
    /\ pc = "sed"
    /\ \/ tmp' = Edited
       \/ ~reliable /\ tmp' = Empty
    /\ pc' = "rm"
    /\ UNCHANGED <<exists, cfg, ret, crashes, callVars>>

RemoveConfig ==
    /\ pc = "rm"
    /\ exists' = FALSE
    /\ cfg' = Empty
    /\ pc' = "cp"
    /\ UNCHANGED <<tmp, ret, crashes, callVars>>

\* cp creates the file, then writes its lines; either may fail.
CreateConfig ==
    /\ pc = "cp"
    /\ \/ exists' = TRUE /\ cfg' = Empty /\ pc' = "fill"
       \/ ~reliable /\ pc' = "rm_tmp" /\ UNCHANGED <<exists, cfg>>
    /\ UNCHANGED <<tmp, ret, crashes, callVars>>

FillConfig ==
    /\ pc = "fill"
    /\ \/ cfg' = tmp
       \/ ~reliable /\ UNCHANGED cfg
    /\ pc' = "rm_tmp"
    /\ UNCHANGED <<exists, tmp, ret, crashes, callVars>>

EndSet ==
    /\ pc = "rm_tmp"
    /\ tmp' = Empty
    /\ ret' = "SUCCESS"
    /\ pc' = "done"
    /\ UNCHANGED <<exists, cfg, crashes, callVars>>

------------------------------------------------------------------------------
(***************************************************************************)
(* Webpa_DmlDiGetWebPACfg                                                  *)
(***************************************************************************)
BeginGet ==
    /\ pc = "idle"
    /\ param' \in Params
    /\ before' = cfg
    /\ IF exists THEN pc' = "grep" /\ UNCHANGED ret
                 ELSE pc' = "got" /\ ret' = "FAILURE"
    /\ UNCHANGED <<exists, cfg, tmp, value, reliable, crashes>>

LineOf(p) == [q \in DOMAIN cfg \cap {p} |-> cfg[q]]

\* Mutant: the output is appended to what an earlier call left, and the first
\* line is read.
Appended(p) == IF tmp = Empty THEN LineOf(p) ELSE tmp

Found(p) == LineOf(p)

Grep ==
    /\ pc = "grep"
    /\ \/ tmp' = Found(param)
       \/ ~reliable /\ tmp' = Empty
    /\ pc' = "read"
    /\ UNCHANGED <<exists, cfg, ret, crashes, callVars>>

\* Without a line the call fails and leaves the temporary file.
Read ==
    /\ pc = "read"
    /\ \/ /\ \E q \in DOMAIN tmp : value' = tmp[q]
          /\ ret' = "SUCCESS"
          /\ tmp' = Empty
       \/ /\ tmp = Empty
          /\ ret' = "FAILURE"
          /\ UNCHANGED <<value, tmp>>
    /\ pc' = "got"
    /\ UNCHANGED <<exists, cfg, param, before, reliable, crashes>>

Return ==
    /\ pc \in {"got", "done"}
    /\ pc' = "idle"
    /\ UNCHANGED <<exists, cfg, tmp, ret, crashes, callVars>>

------------------------------------------------------------------------------
(***************************************************************************)
(* Crashes, and webpa.sh                                                   *)
(***************************************************************************)
\* /tmp does not survive a reboot.
Reboot ==
    /\ crashes < MaxCrashes
    /\ crashes' = crashes + 1
    /\ pc' = "boot"
    /\ tmp' = Empty
    /\ UNCHANGED <<exists, cfg, ret, callVars>>

\* The process ends; the command it has begun does not.
Crash ==
    /\ Running
    /\ pc # "fill"
    /\ crashes < MaxCrashes
    /\ crashes' = crashes + 1
    /\ pc' = "boot"
    /\ UNCHANGED <<exists, cfg, tmp, ret, callVars>>

scriptUnchanged == UNCHANGED <<tmp, ret, crashes, callVars>>

\* A cp that fails leaves things as they are, or an empty file.
CreateFactory ==
    /\ pc = "boot"
    /\ \/ exists /\ pc' = "version" /\ UNCHANGED exists
       \/ ~exists /\ exists' = TRUE /\ pc' = "fill_factory"
       \/ ~exists /\ ~reliable /\ pc' = "version" /\ UNCHANGED exists
    /\ UNCHANGED cfg
    /\ scriptUnchanged

FillFactory ==
    /\ pc \in {"fill_factory", "refill_factory"}
    /\ \/ cfg' = Factory
       \/ ~reliable /\ UNCHANGED cfg
    /\ pc' = IF pc = "fill_factory" THEN "version" ELSE "launch"
    /\ UNCHANGED exists
    /\ scriptUnchanged

\* Mutant: the script only looks whether the file exists.
NoVersionTest == FALSE

HasNoVersion == cfg = Empty

TestVersion ==
    /\ pc = "version"
    /\ IF HasNoVersion
       THEN \/ exists' = TRUE /\ pc' = "refill_factory"
            \/ ~reliable /\ pc' = "launch" /\ UNCHANGED exists
       ELSE pc' = "launch" /\ UNCHANGED exists
    /\ UNCHANGED cfg
    /\ scriptUnchanged

\* EnablePa, which no call sets, is true in the factory's file.
Launch ==
    /\ pc = "launch"
    /\ pc' = IF cfg = Empty THEN "off" ELSE "idle"
    /\ UNCHANGED <<exists, cfg>>
    /\ scriptUnchanged

------------------------------------------------------------------------------
ServeCall ==
    \/ Sed \/ RemoveConfig \/ CreateConfig \/ FillConfig \/ EndSet
    \/ Grep \/ Read \/ Return

webpa_sh == CreateFactory \/ FillFactory \/ TestVersion \/ Launch

Next == BeginSet \/ BeginGet \/ ServeCall \/ webpa_sh \/ Reboot \/ Crash

Spec == Init /\ [][Next]_vars

\* The script runs to its end, and calls need not come.
FairSpec == Spec /\ WF_vars(webpa_sh) /\ WF_vars(ServeCall)

------------------------------------------------------------------------------
(***************************************************************************)
(* Properties                                                              *)
(***************************************************************************)
\* What a caller may take the configuration to be: while the file is being
\* replaced, the one it had before.
Configuration ==
    CASE pc \in {"cp", "fill"} -> before
      [] OTHER -> cfg

\* The commands of a set and the script together implement the store: a set
\* takes effect at once, when cp has written the file; a crash at any step
\* leaves the old file, the new one or none; none, and an empty file, stay
\* until a start and become the factory's file there; nothing is ever mixed.
Store == INSTANCE ConfigStore WITH contents <- Configuration, running <- Running
ImplementsStore == Store!Spec

\* "function to set Webpa config parameter values in nvram config json"
\* (cosa_Webpa_dml.c): when the commands succeed and nothing crashes until a set
\* is reported as a success, the file has the parameter's new value and every
\* other parameter has kept its own.
SuccessfulSetIsStored ==
    reliable /\ pc = "done" /\ ret = "SUCCESS" =>
        cfg = [p \in Params |-> IF p = param THEN value ELSE before[p]]

\* A get returns the value the file has, though it and the sets share a
\* temporary file that a crash may have left behind; it fails only when the
\* file or the room for its line is lacking.
GetReturnsStored ==
    pc = "got" =>
        /\ ret = "SUCCESS" => cfg # Empty /\ value = cfg[param]
        /\ ret = "FAILURE" => cfg = Empty \/ ~reliable

\* Whatever step a crash came at, when the commands succeed WebPA starts again,
\* with a whole file.
StartsAgain == pc = "boot" /\ reliable ~> Running /\ cfg \in [Params -> Values]
==============================================================================
