------------------------------ MODULE KVStore -------------------------------
(***************************************************************************)
(* What the key/value service promises its clients: a map on which each    *)
(* call of Get, Put or Append takes effect once, at one moment between its *)
(* start and its return.                                                   *)
(***************************************************************************)
EXTENDS Sequences

CONSTANTS
    Client,     \* the clients
    Operations, \* the operations they may ask for
    None        \* no operation

VARIABLES
    store,      \* the map: the value of each key that has one
    pending,    \* the operation each client waits for
    effect,     \* the value it found, once it took effect
    returned    \* the value its last call returned

vars == <<store, pending, effect, returned>>

\* The value of a key; that of a missing key is the empty string.
At(key) == IF key \in DOMAIN store THEN store[key] ELSE <<>>

Set(key, value) ==
    [k \in DOMAIN store \cup {key} |-> IF k = key THEN value ELSE store[k]]

Init ==
    /\ store = [k \in {} |-> <<>>]
    /\ pending = [c \in Client |-> None]
    /\ effect = [c \in Client |-> None]
    /\ returned = [c \in Client |-> <<>>]

Invoke(c) ==
    /\ pending[c] = None
    /\ \E op \in Operations : pending' = [pending EXCEPT ![c] = op]
    /\ UNCHANGED <<store, effect, returned>>

TakeEffect(c) ==
    LET op == pending[c] IN
    /\ op # None /\ effect[c] = None
    /\ \/ /\ op.Type = "Get"
          /\ effect' = [effect EXCEPT ![c] = At(op.Key)]
          /\ UNCHANGED store
       \/ /\ op.Type = "Put"
          /\ store' = Set(op.Key, <<op.Value>>)
          /\ effect' = [effect EXCEPT ![c] = <<>>]
       \/ /\ op.Type = "Append"
          /\ store' = Set(op.Key, Append(At(op.Key), op.Value))
          /\ effect' = [effect EXCEPT ![c] = <<>>]
    /\ UNCHANGED <<pending, returned>>

Return(c) ==
    /\ effect[c] # None
    /\ returned' = [returned EXCEPT ![c] = effect[c]]
    /\ pending' = [pending EXCEPT ![c] = None]
    /\ effect' = [effect EXCEPT ![c] = None]
    /\ UNCHANGED store

Next == \E c \in Client : Invoke(c) \/ TakeEffect(c) \/ Return(c)

Spec == Init /\ [][Next]_vars
=============================================================================
