-------------------------------- MODULE KVMap --------------------------------
(***************************************************************************)
(* What the key-value commands of the server promise a client: a map from  *)
(* keys to values.                                                         *)
(***************************************************************************)
CONSTANTS Key, Value, Nil

VARIABLES
    map,    \* the value of each key, Nil when it has none
    reply   \* the last command and what it answered

Reply(op, k, answer) == reply' = [op |-> op, key |-> k, answer |-> answer]

Init ==
    /\ map = [k \in Key |-> Nil]
    /\ reply = [op |-> "none", key |-> Nil, answer |-> Nil]

Get(k) == Reply("get", k, map[k]) /\ UNCHANGED map

Set(k, v) == map' = [map EXCEPT ![k] = v] /\ Reply("set", k, Nil)

Del(k) ==
    /\ map' = [map EXCEPT ![k] = Nil]
    /\ Reply("del", k, IF map[k] = Nil THEN 0 ELSE 1)

Keys == Reply("keys", Nil, {k \in Key : map[k] # Nil}) /\ UNCHANGED map

Next ==
    \/ \E k \in Key : Get(k) \/ Del(k) \/ \E v \in Value : Set(k, v)
    \/ Keys

Spec == Init /\ [][Next]_<<map, reply>>
==============================================================================
