------------------------------- MODULE EnvMap -------------------------------
(***************************************************************************)
(* What the environment promises the rest of the boot loader: a map from   *)
(* names to values that changes one name at a time, or is emptied as a     *)
(* whole when an environment is imported over it.  Nothing is promised     *)
(* from the moment the store is overloaded until it is emptied.            *)
(***************************************************************************)
CONSTANTS Key, Value, NoValue

VARIABLES env, kept

MapInit == env = [k \in Key |-> NoValue] /\ kept = TRUE

Set(k, v) == kept /\ kept' /\ env' = [env EXCEPT ![k] = v]
Unset(k)  == kept /\ kept' /\ env' = [env EXCEPT ![k] = NoValue]
Clear     == kept' /\ env' = [k \in Key |-> NoValue]
Overload  == ~kept'

MapNext ==
  \/ \E k \in Key : Unset(k) \/ \E v \in Value : Set(k, v)
  \/ Clear
  \/ Overload

MapSpec == MapInit /\ [][MapNext]_<<env, kept>>

====
