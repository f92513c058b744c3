------------------------------ MODULE MapSpec -------------------------------
(***************************************************************************)
(* What a hashmap promises: a partial function from keys to values, with   *)
(* one call in progress at a time.  A call takes effect once, between its  *)
(* invocation and its return, and returns what that effect determines.     *)
(***************************************************************************)
EXTENDS Integers, FiniteSets

CONSTANTS Keys, Vals, None

VARIABLES
  limit, \* entries at which insert refuses
  map,   \* [Keys -> Vals, or None where the key is absent]
  call   \* the call in progress

vars == <<limit, map, call>>

Present == {k \in Keys : map[k] # None}

Idle == [phase |-> "idle"]
Pending(op, k, v) == [phase |-> "pending", op |-> op, key |-> k, val |-> v]
Done(is, v) == [phase |-> "done", is |-> is, val |-> v]

Init == limit \in Nat /\ map = [k \in Keys |-> None] /\ call = Idle

(* The calls there are: the operation, its key and its value. *)
Searches == {"get", "get_or_null", "remove"}
Calls == ({"insert"} \X Keys \X Vals) \cup (Searches \X Keys \X {None})
           \cup {<<"clear", None, None>>}

Invoke(op, k, v) ==
  /\ call = Idle
  /\ call' = Pending(op, k, v)
  /\ UNCHANGED map

(* An insert at the limit is refused, also when the key is present. *)
Insert ==
  /\ call.phase = "pending" /\ call.op = "insert"
  /\ IF Cardinality(Present) >= limit
     THEN call' = Done("full", None) /\ UNCHANGED map
     ELSE /\ map' = [map EXCEPT ![call.key] = call.val]
          /\ call' = Done(IF call.key \in Present THEN "updated" ELSE "new", None)

Lookup ==
  /\ call.phase = "pending" /\ call.op \in {"get", "get_or_null"}
  /\ call' = IF call.key \in Present THEN Done("some", map[call.key]) ELSE Done("none", None)
  /\ UNCHANGED map

Remove ==
  /\ call.phase = "pending" /\ call.op = "remove"
  /\ call' = IF call.key \in Present THEN Done("some", map[call.key]) ELSE Done("none", None)
  /\ map' = [map EXCEPT ![call.key] = None]

Clear ==
  /\ call.phase = "pending" /\ call.op = "clear"
  /\ call' = Done("cleared", None)
  /\ map' = [k \in Keys |-> None]

Return ==
  /\ call.phase = "done"
  /\ call' = Idle
  /\ UNCHANGED map

Next ==
  /\ UNCHANGED limit
  /\ \/ \E c \in Calls : Invoke(c[1], c[2], c[3])
     \/ Insert \/ Lookup \/ Remove \/ Clear
     \/ Return

Spec == Init /\ [][Next]_vars
=============================================================================
