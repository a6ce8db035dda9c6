------------------------------ MODULE EnvNand ------------------------------
(***************************************************************************)
(* The redundant environment in NAND flash (common/env_nand.c with         *)
(* CONFIG_ENV_OFFSET_REDUND): two copies, each with a CRC over its data    *)
(* and a serial number of one byte.  saveenv() erases and writes the copy  *)
(* that is not in use; env_relocate_spec() picks one at boot.  The power   *)
(* may fail between any two steps and inside an erase or a write.          *)
(***************************************************************************)
EXTENDS Integers

CONSTANTS
  Value,          \* contents of an environment
  Default,        \* the built-in default environment
  SerialMod       \* 256: the serial number is an unsigned char

ASSUME EnvNandAssumption ==
  /\ Default \in Value
  /\ SerialMod \in Nat /\ SerialMod > 2

Copy == {1, 2}
Other(c) == IF c = 2 THEN 1 ELSE 2

VARIABLES
  pc,           \* "off", "run", "erase" or "write": where the code stands
  copy,         \* the two copies in flash: crc ok?, serial, data
  env_valid,    \* gd->env_valid: the copy in use
  env_flags,    \* serial number of the last environment read or saved
  env_htab,     \* the environment in memory
  env_new,      \* the data saveenv() is writing
  saved,        \* history: the last value that saveenv() saved with success
  tried,        \* history: the values of the saveenv() calls since then
  failed        \* history: some saveenv() has returned an error

vars == <<pc, copy, env_valid, env_flags, env_htab, env_new, saved, tried,
          failed>>

Image == [ok : BOOLEAN, flags : 0 .. SerialMod - 1, data : Value]

\* Flash that was erased, or written only in part: the CRC does not match.
Bad(c) == [copy[c] EXCEPT !.ok = FALSE]

(***************************************************************************)
(* Boot: env_init() marks copy 1, env_relocate_spec() does the validation. *)
(***************************************************************************)
\* Mutant: the wrap-around of the serial number is forgotten.
NewerCopyNoWrap == IF copy[2].flags > copy[1].flags THEN 2 ELSE 1

\* Both CRCs are good: the serial numbers decide, 0 follows 255.
NewerCopy ==
  LET f1 == copy[1].flags
      f2 == copy[2].flags
  IN IF f1 = SerialMod - 1 /\ f2 = 0 THEN 2
     ELSE IF f2 = SerialMod - 1 /\ f1 = 0 THEN 1
     ELSE IF f2 > f1 THEN 2 ELSE 1

PickCopy ==
  IF copy[1].ok /\ copy[2].ok THEN NewerCopy
  ELSE IF copy[2].ok THEN 2 ELSE 1

Boot ==
  /\ pc = "off"
  /\ pc' = "run"
  /\ IF copy[1].ok \/ copy[2].ok
     THEN /\ env_valid' = PickCopy
          /\ env_flags' = copy[PickCopy].flags
          /\ env_htab' = copy[PickCopy].data
     ELSE /\ env_valid' = 1
          /\ env_flags' = 0
          /\ env_htab' = Default
  /\ UNCHANGED <<copy, env_new, saved, tried, failed>>

\* setenv and its relatives.
SetEnv ==
  /\ pc = "run"
  /\ \E v \in Value \ {env_htab} : env_htab' = v
  /\ UNCHANGED <<pc, copy, env_valid, env_flags, env_new, saved, tried, failed>>

(***************************************************************************)
(* saveenv(): export, CRC and serial; erase; write; switch copies.         *)
(***************************************************************************)
\* Mutant: the serial number is not kept to a byte.
SaveBeginWide ==
  /\ pc = "run"
  /\ pc' = "erase"
  /\ env_new' = env_htab
  /\ env_flags' = env_flags + 1
  /\ tried' = tried \union {env_htab}
  /\ UNCHANGED <<copy, env_valid, env_htab, saved, failed>>

\* Mutant: the copy in use is erased.
SaveEraseInUse ==
  /\ pc = "erase"
  /\ pc' = "write"
  /\ copy' = [copy EXCEPT ![env_valid] = Bad(env_valid)]
  /\ UNCHANGED <<env_valid, env_flags, env_htab, env_new, saved, tried, failed>>

SaveBegin ==
  /\ pc = "run"
  /\ pc' = "erase"
  /\ env_new' = env_htab
  /\ env_flags' = (env_flags + 1) % SerialMod
  /\ tried' = tried \union {env_htab}
  /\ UNCHANGED <<copy, env_valid, env_htab, saved, failed>>

SaveErase ==
  /\ pc = "erase"
  /\ pc' = "write"
  /\ copy' = [copy EXCEPT ![Other(env_valid)] = Bad(Other(env_valid))]
  /\ UNCHANGED <<env_valid, env_flags, env_htab, env_new, saved, tried, failed>>

\* Mutant: the copy in use is not switched.
SaveWriteNoSwitch ==
  /\ pc = "write"
  /\ pc' = "run"
  /\ copy' = [copy EXCEPT ![Other(env_valid)] =
                [ok |-> TRUE, flags |-> env_flags, data |-> env_new]]
  /\ saved' = env_new
  /\ tried' = {}
  /\ UNCHANGED <<env_valid, env_flags, env_htab, env_new, failed>>

\* writeenv() wrote everything: the new copy is the one in use.
SaveWrite ==
  /\ pc = "write"
  /\ pc' = "run"
  /\ copy' = [copy EXCEPT ![Other(env_valid)] =
                [ok |-> TRUE, flags |-> env_flags, data |-> env_new]]
  /\ env_valid' = Other(env_valid)
  /\ saved' = env_new
  /\ tried' = {}
  /\ UNCHANGED <<env_flags, env_htab, env_new, failed>>

\* An error of the flash: saveenv() returns 1.  The serial number stays
\* increased.  The copy that was to be erased is intact or not.
SaveFails ==
  /\ pc \in {"erase", "write"}
  /\ pc' = "run"
  /\ copy' \in {copy, [copy EXCEPT ![Other(env_valid)] = Bad(Other(env_valid))]}
  /\ failed' = TRUE
  /\ UNCHANGED <<env_valid, env_flags, env_htab, env_new, saved, tried>>

\* The power fails.  An erase under way has destroyed its copy or not; a write
\* under way has completed, or not.
PowerFail ==
  /\ pc # "off"
  /\ pc' = "off"
  /\ \/ UNCHANGED copy
     \/ /\ pc = "erase"
        /\ copy' = [copy EXCEPT ![Other(env_valid)] = Bad(Other(env_valid))]
     \/ /\ pc = "write"
        /\ copy' = [copy EXCEPT ![Other(env_valid)] =
                      [ok |-> TRUE, flags |-> env_flags, data |-> env_new]]
  /\ UNCHANGED <<env_valid, env_flags, env_htab, env_new, saved, tried, failed>>

\* A board that was shipped with one copy of the default environment, under
\* any serial number, or with none.
Init ==
  /\ pc = "off"
  /\ copy \in [Copy -> Image]
  /\ ~copy[2].ok
  /\ copy[1].flags = copy[2].flags
  /\ \A c \in Copy : copy[c].data = Default
  /\ env_valid = 1
  /\ env_flags = 0
  /\ env_htab = Default
  /\ env_new = Default
  /\ saved = Default
  /\ tried = {}
  /\ failed = FALSE

Next == Boot \/ SetEnv \/ SaveBegin \/ SaveErase \/ SaveWrite \/ SaveFails
          \/ PowerFail

Spec == Init /\ [][Next]_vars

(***************************************************************************)
(* Properties.                                                             *)
(***************************************************************************)
\* The type of every variable.
TypeOK ==
  /\ pc \in {"off", "run", "erase", "write"}
  /\ copy \in [Copy -> Image]
  /\ env_valid \in Copy
  /\ env_flags \in 0 .. SerialMod - 1
  /\ env_htab \in Value
  /\ env_new \in Value
  /\ saved \in Value
  /\ tried \subseteq Value
  /\ failed \in BOOLEAN

SomeOk == copy[1].ok \/ copy[2].ok

\* The environment a boot would load now.
Loaded == IF SomeOk THEN copy[PickCopy].data ELSE Default

\* README: the redundant copy is there "so that there is a valid backup copy
\* in case there is a power failure during a "saveenv" operation".  Whenever
\* the power fails, the next boot loads the environment that was saved last,
\* or one whose saveenv was under way ...
LoadsSaved == Loaded \in {saved} \union tried

\* ... as long as the flash has reported no error to saveenv.
BootLoadsSaved == ~failed => LoadsSaved

\* A save never touches the copy a boot would fall back to: until the new
\* copy is complete, the copy in use is good and, as long as no save has
\* failed, it holds what was saved.
BackupIntact ==
  pc \in {"erase", "write"} /\ SomeOk =>
    /\ copy[env_valid].ok
    /\ ~failed => copy[env_valid].data \in {saved} \union tried

\* Once a board has a valid environment in flash, no saveenv, whether it
\* succeeds, fails or is cut off by the power, leaves it without one.
KeepsOneCopy == [][SomeOk => SomeOk']_vars

====
