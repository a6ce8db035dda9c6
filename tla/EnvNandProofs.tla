--------------------------- MODULE EnvNandProofs ---------------------------
(***************************************************************************)
(* Proofs about the redundant environment, for every set of values and     *)
(* every range of serial numbers (the code has 256).                       *)
(***************************************************************************)
EXTENDS EnvNand, TLAPS

Succ(f) == (f + 1) % SerialMod

\* What a boot may load.
Good == {saved} \union tried

\* A copy that is alone is a good one; of two, the one with the next serial
\* number is.
FlashInv ==
  /\ ~SomeOk => saved = Default
  /\ \A c \in Copy : copy[c].ok /\ ~copy[Other(c)].ok => copy[c].data \in Good
  /\ copy[1].ok /\ copy[2].ok =>
       \E c \in Copy : /\ copy[c].flags = Succ(copy[Other(c)].flags)
                       /\ copy[c].data \in Good

\* While the board runs, the copy in use is the newest one, and env_flags its
\* serial number, or the next one during a save.
InUseInv ==
  pc # "off" /\ SomeOk =>
    /\ copy[env_valid].ok
    /\ copy[env_valid].data \in Good
    /\ env_flags = IF pc = "run" THEN copy[env_valid].flags
                                 ELSE Succ(copy[env_valid].flags)
    /\ copy[Other(env_valid)].ok =>
         copy[env_valid].flags = Succ(copy[Other(env_valid)].flags)

SaveInv ==
  /\ pc \in {"erase", "write"} => env_new \in tried
  /\ pc = "write" => ~copy[Other(env_valid)].ok

EnvInv == TypeOK /\ FlashInv /\ InUseInv /\ SaveInv

-----------------------------------------------------------------------------
LEMMA SuccType ==
  ASSUME NEW f \in 0 .. SerialMod - 1
  PROVE  Succ(f) \in 0 .. SerialMod - 1
BY EnvNandAssumption DEF Succ

LEMMA PickType == TypeOK => PickCopy \in Copy
BY DEF TypeOK, PickCopy, NewerCopy, Copy

\* A boot picks a copy that is good.
LEMMA PickOk == TypeOK /\ SomeOk => copy[PickCopy].ok
BY DEF TypeOK, SomeOk, PickCopy, NewerCopy, Copy

\* The comparison of the serial numbers finds the copy that follows the other,
\* also when the numbers wrap around.
LEMMA PickNewer ==
  ASSUME TypeOK, copy[1].ok, copy[2].ok, NEW c \in Copy,
         copy[c].flags = Succ(copy[Other(c)].flags)
  PROVE  PickCopy = c
<1>1. copy[1].flags \in 0 .. SerialMod - 1 /\ copy[2].flags \in 0 .. SerialMod - 1
  BY DEF TypeOK, Image, Copy
<1>2. CASE c = 1
  BY <1>1, <1>2, EnvNandAssumption DEF Succ, PickCopy, NewerCopy, Other
<1>3. CASE c = 2
  BY <1>1, <1>3, EnvNandAssumption DEF Succ, PickCopy, NewerCopy, Other
<1>4. QED
  BY <1>2, <1>3 DEF Copy

LEMMA OtherType == \A c \in Copy : Other(c) \in Copy /\ Other(c) # c /\ Other(Other(c)) = c
BY DEF Other, Copy

LEMMA BadType == TypeOK => \A c \in Copy : Bad(c) \in Image /\ ~Bad(c).ok
BY DEF TypeOK, Bad, Image

\* The type invariant is inductive on its own.
LEMMA TypeStep == TypeOK /\ [Next]_vars => TypeOK'
<1> SUFFICES ASSUME TypeOK, [Next]_vars PROVE TypeOK'
  OBVIOUS
<1>1. CASE Boot
  <2>1. PickCopy \in Copy
    BY PickType
  <2>2. copy[PickCopy] \in Image
    BY <2>1 DEF TypeOK
  <2>3. QED
    BY <1>1, <2>1, <2>2, EnvNandAssumption DEF Boot, TypeOK, Image, Copy
<1>2. CASE SetEnv
  BY <1>2 DEF SetEnv, TypeOK
<1>3. CASE SaveBegin
  BY <1>3, SuccType DEF SaveBegin, TypeOK, Succ
<1> DEFINE o == Other(env_valid)
           new == [ok |-> TRUE, flags |-> env_flags, data |-> env_new]
<1>a. o \in Copy /\ Bad(o) \in Image /\ new \in Image
  BY OtherType, BadType DEF TypeOK, Image
<1> HIDE DEF o, new
<1>4. CASE SaveErase
  BY <1>4, <1>a DEF SaveErase, TypeOK, o
<1>5. CASE SaveWrite
  BY <1>5, <1>a DEF SaveWrite, TypeOK, o, new
<1>6. CASE SaveFails
  BY <1>6, <1>a DEF SaveFails, TypeOK, o
<1>7. CASE PowerFail
  BY <1>7, <1>a DEF PowerFail, TypeOK, o, new
<1>8. CASE UNCHANGED vars
  BY <1>8 DEF vars, TypeOK
<1>9. QED
  BY <1>1, <1>2, <1>3, <1>4, <1>5, <1>6, <1>7, <1>8 DEF Next

LEMMA TypeInit == Init => TypeOK
<1>1. Init => failed \in BOOLEAN
  BY Zenon DEF Init
<1>2. QED
  BY <1>1, EnvNandAssumption DEF Init, TypeOK, Image, Copy

\* Every variable keeps its type: the copy in use is 1 or 2, and the serial
\* number stays in its byte.
THEOREM EnvTypeCorrect == Spec => []TypeOK
BY TypeInit, TypeStep, PTL DEF Spec

-----------------------------------------------------------------------------
\* The invariants in terms of the copy v in use and the other copy o.
LEMMA LoadedGood == EnvInv => LoadsSaved
<1> SUFFICES ASSUME EnvInv PROVE Loaded \in Good
  BY DEF LoadsSaved, Good
<1>1. CASE ~SomeOk
  BY <1>1 DEF Loaded, EnvInv, FlashInv, Good
<1>2. CASE copy[1].ok /\ ~copy[2].ok
  BY <1>2 DEF Loaded, PickCopy, SomeOk, EnvInv, FlashInv, Copy, Other
<1>3. CASE ~copy[1].ok /\ copy[2].ok
  BY <1>3 DEF Loaded, PickCopy, SomeOk, EnvInv, FlashInv, Copy, Other
<1>4. CASE copy[1].ok /\ copy[2].ok
  <2>1. PICK c \in Copy : /\ copy[c].flags = Succ(copy[Other(c)].flags)
                          /\ copy[c].data \in Good
    BY <1>4 DEF EnvInv, FlashInv
  <2>2. PickCopy = c
    BY <1>4, <2>1, PickNewer DEF EnvInv
  <2>3. QED
    BY <1>4, <2>1, <2>2 DEF Loaded, SomeOk
<1>5. QED
  BY <1>1, <1>2, <1>3, <1>4 DEF SomeOk

\* A boot takes the copy that LoadedGood speaks of into use.
LEMMA BootStep == EnvInv /\ Boot => EnvInv'
<1> SUFFICES ASSUME EnvInv, Boot PROVE EnvInv'
  OBVIOUS
<1>1. TypeOK'
  BY TypeStep DEF EnvInv, Next
<1>2. FlashInv'
  BY DEF EnvInv, FlashInv, Boot, SomeOk, Good
<1>3. InUseInv'
  <2> SUFFICES ASSUME SomeOk PROVE InUseInv'
    BY DEF InUseInv, Boot, SomeOk
  <2>1. /\ env_valid' = PickCopy
        /\ env_flags' = copy[PickCopy].flags
        /\ pc' = "run"
        /\ UNCHANGED <<copy, saved, tried>>
    BY DEF Boot, SomeOk
  <2>2. copy[PickCopy].ok /\ PickCopy \in Copy
    BY PickOk, PickType DEF EnvInv
  <2>3. copy[PickCopy].data \in Good
    BY LoadedGood DEF LoadsSaved, Loaded, Good
  <2>4. copy[Other(PickCopy)].ok =>
          copy[PickCopy].flags = Succ(copy[Other(PickCopy)].flags)
    <3> SUFFICES ASSUME copy[Other(PickCopy)].ok
                 PROVE  copy[PickCopy].flags = Succ(copy[Other(PickCopy)].flags)
      OBVIOUS
    <3>1. copy[1].ok /\ copy[2].ok
      BY <2>2 DEF Copy, Other
    <3>2. PICK c \in Copy : copy[c].flags = Succ(copy[Other(c)].flags)
      BY <3>1 DEF EnvInv, FlashInv
    <3>3. PickCopy = c
      BY <3>1, <3>2, PickNewer DEF EnvInv
    <3>4. QED
      BY <3>2, <3>3
  <2>5. QED
    BY <2>1, <2>2, <2>3, <2>4 DEF InUseInv, Good, Succ
<1>4. SaveInv'
  BY DEF SaveInv, Boot
<1>5. QED
  BY <1>1, <1>2, <1>3, <1>4 DEF EnvInv

\* What a save may do to the flash.  In both cases v keeps its contents.
LEMMA EraseOther ==
  ASSUME EnvInv, pc # "off",
         copy' = [copy EXCEPT ![Other(env_valid)] = Bad(Other(env_valid))],
         UNCHANGED <<env_valid, saved, tried>>
  PROVE  /\ FlashInv'
         /\ ~copy'[Other(env_valid)].ok
         /\ copy'[env_valid] = copy[env_valid]
         /\ SomeOk' => SomeOk /\ copy[env_valid].ok
<1> DEFINE v == env_valid
           o == Other(env_valid)
<1>1. v \in Copy /\ o \in Copy /\ v # o /\ Copy = {v, o} /\ Other(v) = o /\ Other(o) = v
  BY OtherType DEF EnvInv, TypeOK, Copy, Other
<1>2. copy'[v] = copy[v] /\ copy'[o] = Bad(o) /\ ~Bad(o).ok
  BY <1>1, BadType DEF EnvInv, TypeOK
<1>3. SomeOk <=> copy[v].ok \/ copy[o].ok
  BY <1>1 DEF SomeOk, Copy
<1>4. SomeOk' <=> copy[v].ok
  BY <1>1, <1>2 DEF SomeOk, Copy
<1>5. SomeOk => copy[v].ok /\ copy[v].data \in Good
  BY DEF EnvInv, InUseInv
<1>6. (~SomeOk => saved = Default)'
  BY <1>3, <1>4, <1>5 DEF EnvInv, FlashInv
<1>7. (\A c \in Copy : copy[c].ok /\ ~copy[Other(c)].ok => copy[c].data \in Good)'
  BY <1>1, <1>2, <1>3, <1>4, <1>5 DEF Good
<1>8. ~(copy[1].ok /\ copy[2].ok)'
  BY <1>1, <1>2 DEF Copy
<1>9. QED
  BY <1>2, <1>3, <1>4, <1>6, <1>7, <1>8 DEF FlashInv

LEMMA WriteOther ==
  ASSUME EnvInv, pc = "write",
         copy' = [copy EXCEPT ![Other(env_valid)] =
                    [ok |-> TRUE, flags |-> env_flags, data |-> env_new]],
         env_new \in Good'
  PROVE  /\ FlashInv'
         /\ copy'[Other(env_valid)].ok
         /\ copy'[Other(env_valid)].flags = env_flags
         /\ copy'[Other(env_valid)].data = env_new
         /\ copy'[env_valid] = copy[env_valid]
         /\ copy[env_valid].ok => env_flags = Succ(copy[env_valid].flags)
<1> DEFINE v == env_valid
           o == Other(env_valid)
<1>1. v \in Copy /\ o \in Copy /\ v # o /\ Copy = {v, o} /\ Other(v) = o /\ Other(o) = v
  BY OtherType DEF EnvInv, TypeOK, Copy, Other
<1>2. /\ copy'[v] = copy[v] /\ copy'[o].ok /\ copy'[o].flags = env_flags
      /\ copy'[o].data = env_new
  BY <1>1 DEF EnvInv, TypeOK
<1>3. SomeOk'
  BY <1>1, <1>2 DEF SomeOk, Copy
<1>4. copy[v].ok => env_flags = Succ(copy[v].flags)
  BY <1>1 DEF EnvInv, InUseInv, SomeOk, Copy
<1>5. (\A c \in Copy : copy[c].ok /\ ~copy[Other(c)].ok => copy[c].data \in Good)'
  BY <1>1, <1>2
<1>6. (copy[1].ok /\ copy[2].ok =>
        \E c \in Copy : /\ copy[c].flags = Succ(copy[Other(c)].flags)
                        /\ copy[c].data \in Good)'
  <2> SUFFICES ASSUME copy'[1].ok, copy'[2].ok
               PROVE  copy'[o].flags = Succ(copy'[v].flags) /\ copy'[o].data \in Good'
    BY <1>1 DEF Succ
  <2>1. copy[v].ok
    BY <1>1, <1>2 DEF Copy
  <2>2. QED
    BY <1>2, <1>4, <2>1
<1>7. QED
  BY <1>2, <1>3, <1>4, <1>5, <1>6 DEF FlashInv

\* The step lemma: every step that is not an error of the flash preserves the
\* invariant.
LEMMA EnvInvStep == EnvInv /\ [Next]_vars /\ ~failed' => EnvInv'
<1> SUFFICES ASSUME EnvInv, [Next]_vars, ~failed' PROVE EnvInv'
  OBVIOUS
<1>a. TypeOK'
  BY TypeStep DEF EnvInv
<1>b. env_valid \in Copy /\ Other(env_valid) \in Copy /\ Other(env_valid) # env_valid
      /\ Other(Other(env_valid)) = env_valid
  BY OtherType DEF EnvInv, TypeOK
<1>1. CASE Boot
  BY <1>1, BootStep
<1>2. CASE SetEnv
  BY <1>2, <1>a DEF SetEnv, EnvInv, FlashInv, InUseInv, SaveInv, SomeOk, Good
<1>3. CASE SaveBegin
  <2>1. Good \subseteq Good' /\ env_new' \in tried'
    BY <1>3 DEF SaveBegin, Good
  <2>2. FlashInv'
    BY <1>3, <2>1 DEF SaveBegin, EnvInv, FlashInv, SomeOk
  <2>3. InUseInv'
    BY <1>3, <2>1 DEF SaveBegin, EnvInv, InUseInv, SomeOk, Succ
  <2>4. SaveInv'
    BY <1>3, <2>1 DEF SaveBegin, SaveInv
  <2>5. QED
    BY <1>a, <2>2, <2>3, <2>4 DEF EnvInv
<1>4. CASE SaveErase
  <2>1. /\ FlashInv'
        /\ ~copy'[Other(env_valid)].ok
        /\ copy'[env_valid] = copy[env_valid]
        /\ SomeOk' => SomeOk /\ copy[env_valid].ok
    BY <1>4, EraseOther DEF SaveErase
  <2>2. InUseInv'
    BY <1>4, <2>1 DEF SaveErase, EnvInv, InUseInv, Good
  <2>3. SaveInv'
    BY <1>4, <2>1 DEF SaveErase, EnvInv, SaveInv
  <2>4. QED
    BY <1>a, <2>1, <2>2, <2>3 DEF EnvInv
<1>5. CASE SaveWrite
  <2>1. env_new \in Good'
    BY <1>5 DEF SaveWrite, Good
  <2>2. /\ FlashInv'
        /\ copy'[Other(env_valid)].ok
        /\ copy'[Other(env_valid)].flags = env_flags
        /\ copy'[Other(env_valid)].data = env_new
        /\ copy'[env_valid] = copy[env_valid]
        /\ copy[env_valid].ok => env_flags = Succ(copy[env_valid].flags)
    BY <1>5, <2>1, WriteOther DEF SaveWrite
  <2>3. InUseInv'
    BY <1>5, <1>b, <2>1, <2>2 DEF SaveWrite, InUseInv, Succ
  <2>4. SaveInv'
    BY <1>5 DEF SaveWrite, SaveInv
  <2>5. QED
    BY <1>a, <2>2, <2>3, <2>4 DEF EnvInv
<1>6. CASE SaveFails
  BY <1>6, Zenon DEF SaveFails
<1>7. CASE PowerFail
  <2>1. InUseInv' /\ SaveInv'
    BY <1>7 DEF PowerFail, InUseInv, SaveInv
  <2>2. FlashInv'
    <3>1. CASE UNCHANGED copy
      BY <1>7, <3>1 DEF PowerFail, EnvInv, FlashInv, SomeOk, Good
    <3>2. CASE copy' = [copy EXCEPT ![Other(env_valid)] = Bad(Other(env_valid))]
      BY <1>7, <3>2, EraseOther DEF PowerFail
    <3>3. CASE pc = "write" /\ copy' = [copy EXCEPT ![Other(env_valid)] =
                 [ok |-> TRUE, flags |-> env_flags, data |-> env_new]]
      <4>1. env_new \in Good'
        BY <1>7, <3>3 DEF PowerFail, EnvInv, SaveInv, Good
      <4>2. QED
        BY <3>3, <4>1, WriteOther
    <3>4. QED
      BY <1>7, <3>1, <3>2, <3>3 DEF PowerFail
  <2>3. QED
    BY <1>a, <2>1, <2>2 DEF EnvInv
<1>8. CASE UNCHANGED vars
  BY <1>8, <1>a DEF vars, EnvInv, FlashInv, InUseInv, SaveInv, SomeOk, Good
<1>9. QED
  BY <1>1, <1>2, <1>3, <1>4, <1>5, <1>6, <1>7, <1>8 DEF Next

LEMMA EnvInvInit == Init => EnvInv
<1> SUFFICES ASSUME Init PROVE EnvInv
  OBVIOUS
<1>1. TypeOK
  BY TypeInit
<1>2. ~copy[2].ok /\ copy[1].data = Default
  BY DEF Init, Copy
<1>3. FlashInv
  BY <1>2 DEF Init, FlashInv, SomeOk, Good, Copy
<1>4. InUseInv /\ SaveInv
  BY DEF Init, InUseInv, SaveInv
<1>5. QED
  BY <1>1, <1>3, <1>4 DEF EnvInv

\* failed is a history: it is never reset.
LEMMA FailedStep == [Next]_vars /\ ~failed' => ~failed
<1> SUFFICES ASSUME [Next]_vars, ~failed' PROVE ~failed
  OBVIOUS
<1>1. CASE SaveFails
  BY <1>1, Zenon DEF SaveFails
<1>2. CASE UNCHANGED failed
  BY <1>2
<1>3. QED
  BY <1>1, <1>2
  DEF Next, Boot, SetEnv, SaveBegin, SaveErase, SaveWrite, PowerFail, vars

\* The copy in use is good as long as there is a good one, errors or not.
InUseOk == TypeOK /\ (pc # "off" /\ SomeOk => copy[env_valid].ok)

-----------------------------------------------------------------------------
LEMMA InUseOkStep ==
  InUseOk /\ [Next]_vars => InUseOk' /\ (SomeOk => SomeOk')
<1> SUFFICES ASSUME InUseOk, [Next]_vars PROVE InUseOk' /\ (SomeOk => SomeOk')
  OBVIOUS
<1> DEFINE v == env_valid
           o == Other(env_valid)
<1>a. TypeOK'
  BY TypeStep DEF InUseOk
<1>b. v \in Copy /\ o \in Copy /\ v # o /\ Copy = {v, o}
  BY OtherType DEF InUseOk, TypeOK, Copy, Other
<1>c. SomeOk <=> copy[v].ok \/ copy[o].ok
  BY <1>b DEF SomeOk, Copy
<1>d. ASSUME copy' = [copy EXCEPT ![o] = Bad(o)] PROVE copy'[v] = copy[v] /\ ~copy'[o].ok
  BY <1>b, <1>d, BadType DEF InUseOk, TypeOK
<1>e. ASSUME copy' = [copy EXCEPT ![o] =
                        [ok |-> TRUE, flags |-> env_flags, data |-> env_new]]
      PROVE  copy'[v] = copy[v] /\ copy'[o].ok
  BY <1>b, <1>e DEF InUseOk, TypeOK
<1>f. SomeOk' <=> copy'[v].ok \/ copy'[o].ok
  BY <1>b DEF SomeOk, Copy
<1>1. CASE Boot
  BY <1>1, <1>a, PickOk DEF Boot, InUseOk, SomeOk
<1>2. CASE SetEnv \/ SaveBegin \/ UNCHANGED vars
  BY <1>2, <1>a DEF SetEnv, SaveBegin, vars, InUseOk, SomeOk
<1>3. CASE SaveErase
  BY <1>3, <1>a, <1>c, <1>d, <1>f DEF SaveErase, InUseOk
<1>4. CASE SaveWrite
  BY <1>4, <1>a, <1>e, <1>f DEF SaveWrite, InUseOk
<1>5. CASE SaveFails
  <2>1. CASE copy' = copy
    BY <1>5, <2>1, <1>a, <1>c, <1>f DEF SaveFails, InUseOk
  <2>2. CASE copy' = [copy EXCEPT ![o] = Bad(o)]
    BY <1>5, <2>2, <1>a, <1>c, <1>d, <1>f DEF SaveFails, InUseOk
  <2>3. QED
    BY <1>5, <2>1, <2>2 DEF SaveFails
<1>6. CASE PowerFail
  <2>1. pc # "off" /\ pc' = "off"
    BY <1>6 DEF PowerFail
  <2>2. InUseOk'
    BY <2>1, <1>a DEF InUseOk
  <2>3. SomeOk => SomeOk'
    BY <1>6, <2>1, <1>c, <1>d, <1>e, <1>f DEF PowerFail, InUseOk
  <2>4. QED
    BY <2>2, <2>3
<1>7. QED
  BY <1>1, <1>2, <1>3, <1>4, <1>5, <1>6 DEF Next

\* A board that has a valid environment in flash keeps one, also when the
\* flash reports errors.
THEOREM OneCopySurvives == Spec => KeepsOneCopy
<1>1. Init => InUseOk
  BY TypeInit DEF Init, InUseOk
<1>2. InUseOk /\ [Next]_vars => InUseOk'
  BY InUseOkStep
<1>3. InUseOk /\ [Next]_vars => [SomeOk => SomeOk']_vars
  BY InUseOkStep
<1>4. QED
  BY <1>1, <1>2, <1>3, PTL DEF Spec, KeepsOneCopy

-----------------------------------------------------------------------------
\* The invariant behind both theorems below: once a saveenv has returned an
\* error only InUseOk is left of it.
NandInv == InUseOk /\ (failed \/ EnvInv)

LEMMA NandInvariant == Spec => []NandInv
<1>1. Init => NandInv
  BY EnvInvInit, TypeInit DEF Init, InUseOk, NandInv
<1>2. NandInv /\ [Next]_vars => NandInv'
  BY EnvInvStep, FailedStep, InUseOkStep DEF NandInv
<1>3. QED
  BY <1>1, <1>2, PTL DEF Spec

\* However often the power fails, and wherever in a saveenv, the next boot
\* loads the last environment saved or one that was being saved since: for
\* every range of serial numbers above 2, through every wrap-around, as long as
\* no saveenv returned an error.
THEOREM SavedEnvSurvives == Spec => []BootLoadsSaved
<1>1. NandInv => BootLoadsSaved
  BY LoadedGood DEF BootLoadsSaved, NandInv
<1>2. QED
  BY <1>1, NandInvariant, PTL

\* In every state of a saveenv, also one between the erase and the write, the
\* copy that the board runs from still holds what was saved last or was being
\* saved since: a save goes to the other copy only.
THEOREM SaveSparesBackup == Spec => []BackupIntact
<1>1. NandInv => BackupIntact
  BY DEF BackupIntact, InUseOk, EnvInv, InUseInv, Good, NandInv
<1>2. QED
  BY <1>1, NandInvariant, PTL
====
