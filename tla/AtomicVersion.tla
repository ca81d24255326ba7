---------------------------- MODULE AtomicVersion ----------------------------
(***************************************************************************)
(* What mv_object (src/src/history.h) promises: one current version, or    *)
(* none after a delete, that every operation reads and replaces in one     *)
(* step somewhere between its call and its return.  Chains and the walks   *)
(* along them are not visible.                                             *)
(***************************************************************************)

CONSTANTS Threads,   \* the threads that operate on the object
          Versions,  \* the versions it can have
          Base,      \* the version it starts with
          Nil        \* no version

VARIABLES current,   \* the current version
          call       \* the operation each thread is in

vars == <<current, call>>

Ops == {"set", "add", "replace", "del", "newest"}

Operation(st, o, v, r) == [st |-> st, op |-> o, version |-> v, res |-> r]

Idle == Operation("idle", "none", Nil, Nil)

Init ==
    /\ current = Base
    /\ call = [t \in Threads |-> Idle]

Call(t) ==
    /\ call[t] = Idle
    /\ \E o \in Ops, v \in Versions \cup {Nil} :
           call' = [call EXCEPT ![t] = Operation("called", o, v, Nil)]
    /\ UNCHANGED current

(* Operation o with version v makes c the current version and returns r. *)
Effect(o, v, c, r) ==
    \/ o = "set" /\ c = v /\ r = TRUE
    \/ o = "add" /\ current = Nil /\ c = v /\ r = TRUE
    \/ o = "add" /\ current # Nil /\ c = current /\ r = FALSE
    \/ o = "replace" /\ current # Nil /\ c = v /\ r = TRUE
    \/ o = "replace" /\ current = Nil /\ c = Nil /\ r = FALSE
    \/ o = "del" /\ current # Nil /\ c = Nil /\ r = TRUE
    \/ o = "del" /\ current = Nil /\ c = Nil /\ r = FALSE
    \/ o = "newest" /\ c = current /\ r = current

Apply(t) ==
    /\ call[t].st = "called"
    /\ call' = [call EXCEPT ![t].st = "done", ![t].res = call'[t].res]
    /\ Effect(call[t].op, call[t].version, current', call'[t].res)

Return(t) ==
    /\ call[t].st = "done"
    /\ call' = [call EXCEPT ![t] = Idle]
    /\ UNCHANGED current

Next == \E t \in Threads : Call(t) \/ Apply(t) \/ Return(t)

Spec == Init /\ [][Next]_vars
=============================================================================
