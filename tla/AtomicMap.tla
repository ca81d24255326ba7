------------------------------ MODULE AtomicMap ------------------------------
(***************************************************************************)
(* What opentable (src/src/table.h) promises its callers: a map from keys  *)
(* to entries, every operation of which takes effect in one step somewhere *)
(* between its call and its return.  Nothing here knows of buckets, probe  *)
(* sequences, shared flags or reference counts.                            *)
(***************************************************************************)

CONSTANTS Threads,   \* the threads that operate on the table
          Keys,      \* the keys they use
          Entries,   \* the values they store
          Nil        \* nullptr

VARIABLES map,   \* the value of every key, Nil when it has none
          call   \* the operation each thread is in

vars == <<map, call>>

Ops == {"find", "set", "add", "replace", "remove", "exclusive"}

Result(ok, cur) == [ok |-> ok, cur |-> cur]

Refused == Result(FALSE, Nil)

(* A thread's operation, its arguments and, once it is done, its result. *)
Operation(st, o, k, v, r) == [st |-> st, op |-> o, key |-> k, val |-> v, res |-> r]

Idle == Operation("idle", "none", Nil, Nil, Refused)

Init ==
    /\ map = [k \in Keys |-> Nil]
    /\ call = [t \in Threads |-> Idle]

-----------------------------------------------------------------------------
Call(t) ==
    /\ call[t] = Idle
    /\ \E o \in Ops, k \in Keys, v \in Entries \cup {Nil} :
           call' = [call EXCEPT ![t] = Operation("called", o, k, v, Refused)]
    /\ UNCHANGED map

(***************************************************************************)
(* The effect of operation o on the map, which it leaves as m, and the     *)
(* result r it returns.  A set or an add is refused when the table is      *)
(* full, which can only be for a key that has no value.                    *)
(***************************************************************************)
Effect(o, k, v, m, r) ==
    LET cur == map[k]
        stored == [map EXCEPT ![k] = v]
        emptied == [map EXCEPT ![k] = Nil]
    IN \/ o = "find" /\ m = map /\ r = Result(cur # Nil, cur)
       \/ o = "set" /\ m = stored /\ r = Result(TRUE, Nil)
       \/ o = "add" /\ cur = Nil /\ m = stored /\ r = Result(TRUE, v)
       \/ o = "add" /\ cur # Nil /\ m = map /\ r = Result(FALSE, cur)
       \/ o \in {"set", "add"} /\ cur = Nil /\ m = map /\ r = Refused
       \/ o = "replace" /\ cur # Nil /\ m = stored /\ r = Result(TRUE, Nil)
       \/ o = "replace" /\ cur = Nil /\ m = map /\ r = Refused
       \/ o = "remove" /\ m = emptied /\ r = Result(cur # Nil, Nil)
       \/ o = "exclusive" /\ m = map /\ r = Result(TRUE, Nil)

Apply(t) ==
    /\ call[t].st = "called"
    /\ call' = [call EXCEPT ![t].st = "done", ![t].res = call'[t].res]
    /\ Effect(call[t].op, call[t].key, call[t].val, map', call'[t].res)

Return(t) ==
    /\ call[t].st = "done"
    /\ call' = [call EXCEPT ![t] = Idle]
    /\ UNCHANGED map

Next == \E t \in Threads : Call(t) \/ Apply(t) \/ Return(t)

Spec == Init /\ [][Next]_vars
=============================================================================
