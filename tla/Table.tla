-------------------------------- MODULE Table --------------------------------
(***************************************************************************)
(* opentable (src/src/table.h): the open-addressed hash table of the cache.*)
(* Threads operate on it without locks; every atomic load, exchange,       *)
(* compare-and-swap and counter update is a step of its own.  A key, once  *)
(* in a bucket, stays there for the life of the table.                     *)
(*                                                                         *)
(* The table is the "building" table of cache::collect() (src/src/cache.cc *)
(* 284-316), which is how every table but the first comes to life:         *)
(*   "building"   set_shared and add_shared copy the old table's entries;  *)
(*   "current"    clients use it too, late shared stores may be in flight; *)
(*   "exclusive"  after gc_flush(): exclusive() is called once for each    *)
(*                bucket of the old table.                                 *)
(* With OldKeys = {} it is the first table, which has no predecessor.      *)
(***************************************************************************)
EXTENDS Integers, FiniteSets

CONSTANTS Threads,   \* the threads operating on the table
          Keys,      \* keys, compared by value (eq)
          Buckets,   \* the buckets of the table
          Size,      \* size(): the number of probes of a walk
          Probe,     \* Probe[k][i]: the i-th bucket iterate_buckets tries for k
          Entries,   \* addresses of entries
          OldKeys,   \* the keys of the table being replaced
          OldValue,  \* the value of each of them, Nil if it was deleted
          Nil        \* nullptr

ASSUME SizeAssumption == Size \in Nat \ {0}
ASSUME KeysAssumption == Keys # {}
ASSUME FiniteAssumption == IsFiniteSet(Threads) /\ IsFiniteSet(Buckets)
ASSUME ProbeAssumption == Probe \in [Keys -> [1..Size -> Buckets]]
ASSUME NilAssumption == Nil \notin Keys /\ Nil \notin Entries
ASSUME OldAssumption ==
    /\ OldKeys \subseteq Keys
    /\ OldValue \in [OldKeys -> Entries \cup {Nil}]
    /\ \A k, l \in OldKeys : OldValue[k] = OldValue[l] => k = l \/ OldValue[k] = Nil

VARIABLES
    bk,           \* bucket_t::k, the key of each bucket or Nil
    bv,           \* bucket_t::v, a value_ref
    oldkey,       \* the buckets whose key object belongs to the old table too
    value_count,
    usage_count,
    pc,           \* where each thread is in the code
    op, key, ref, \* the operation it performs, its key and value_ref arguments
    j,            \* the loop counter of iterate_buckets
    prev,         \* the value_ref read or displaced by the operation
    res,          \* its result
    fresh,        \* entries a client can still allocate
    released,     \* how often val_release was called for each entry
    freedkeys,    \* old key objects that key_release was called for
    phase,        \* the step of collect() this table is in
    settled,      \* old keys exclusive() was called for
    crashed       \* a null pointer was dereferenced: the process is gone

tableVars == <<bk, bv, oldkey, value_count, usage_count>>
argVars == <<op, key, ref>>
heapVars == <<fresh, released, freedkeys>>
phaseVars == <<phase, settled, crashed>>
vars == <<tableVars, pc, argVars, j, prev, res, heapVars, phaseVars>>

(***************************************************************************)
(* flagged_ptr<VT> with its one flag, shared_flag.                         *)
(***************************************************************************)
Ref(p, s) == [ptr |-> p, shared |-> s]
NullRef == Ref(Nil, FALSE)
Refs == [ptr : Entries \cup {Nil}, shared : BOOLEAN]

Result(ok, cur) == [ok |-> ok, cur |-> cur]
Results == [ok : BOOLEAN, cur : Entries \cup {Nil}]
Refused == Result(FALSE, Nil)

Finders == {"find", "replace", "remove", "exclusive"}  \* use find_bucket
Storers == {"set", "add"}                              \* use allocate_bucket
Ops == Finders \cup Storers

PCs == {"idle", "iterate", "action", "usage", "value", "cas", "changed",
        "decr", "release", "return"}

(* The entries the old table holds, which no client allocates again. *)
OldEntries == {OldValue[k] : k \in OldKeys} \ {Nil}

(* What the key of a thread that is in no operation is, for want of one. *)
AnyKey == CHOOSE k \in Keys : TRUE

Init ==
    /\ bk = [b \in Buckets |-> Nil]
    /\ bv = [b \in Buckets |-> NullRef]
    /\ oldkey = {}
    /\ value_count = 0
    /\ usage_count = 0
    /\ pc = [t \in Threads |-> "idle"]
    /\ op = [t \in Threads |-> "find"]
    /\ key = [t \in Threads |-> AnyKey]
    /\ ref = [t \in Threads |-> NullRef]
    /\ j = [t \in Threads |-> 1]
    /\ prev = [t \in Threads |-> NullRef]
    /\ res = [t \in Threads |-> Refused]
    /\ fresh = Entries \ OldEntries
    /\ released = [e \in Entries |-> 0]
    /\ freedkeys = {}
    /\ phase = "building"
    /\ settled = {}
    /\ crashed = FALSE

-----------------------------------------------------------------------------
(* Calls.  A call evaluates its arguments and enters iterate_buckets.      *)

At(t, p) == ~crashed /\ pc[t] = p

Goto(t, p) == pc' = [pc EXCEPT ![t] = p]

Begin(t, o, k, r) ==
    /\ At(t, "idle")
    /\ Goto(t, "iterate")
    /\ op' = [op EXCEPT ![t] = o]
    /\ key' = [key EXCEPT ![t] = k]
    /\ ref' = [ref EXCEPT ![t] = r]
    /\ j' = [j EXCEPT ![t] = 1]
    /\ UNCHANGED <<tableVars, prev, res, released, freedkeys, phase, crashed>>

(* Clients see the table once collect() has stored it in _entries. *)
find(t) ==
    /\ phase # "building"
    /\ \E k \in Keys : Begin(t, "find", k, NullRef)
    /\ UNCHANGED <<fresh, settled>>

remove(t) ==
    /\ phase # "building"
    /\ \E k \in Keys : Begin(t, "remove", k, NullRef)
    /\ UNCHANGED <<fresh, settled>>

(* set, add and replace of an entry the caller has just allocated. *)
store(t, o) ==
    /\ phase # "building"
    /\ \E k \in Keys, e \in fresh :
           /\ Begin(t, o, k, Ref(e, FALSE))
           /\ fresh' = fresh \ {e}
    /\ UNCHANGED settled

(***************************************************************************)
(* set_shared and add_shared: the old table's key object and its entry.    *)
(* Only operations begun before the gc_flush() that follows the swap make  *)
(* these calls.                                                            *)
(***************************************************************************)
store_shared(t, o) ==
    /\ phase # "exclusive"
    /\ \E k \in OldKeys :
           /\ OldValue[k] # Nil
           /\ Begin(t, o, k, Ref(OldValue[k], TRUE))
    /\ UNCHANGED <<fresh, settled>>

(* collect() calls exclusive(key, value) bucket by bucket of the old table. *)
exclusive(t) ==
    /\ phase = "exclusive"
    /\ \A u \in Threads : pc[u] # "idle" => op[u] # "exclusive"
    /\ \E k \in OldKeys \ settled :
           /\ Begin(t, "exclusive", k, Ref(OldValue[k], TRUE))
           /\ settled' = settled \cup {k}
    /\ UNCHANGED fresh

(* A caller whose entry was not stored deletes it. *)
Rejected(t) ==
    /\ op[t] \in {"set", "add", "replace"}
    /\ ~ref[t].shared
    /\ ~res[t].ok

(* An operation returns: its arguments and local variables are gone. *)
return(t) ==
    /\ At(t, "return")
    /\ Goto(t, "idle")
    /\ fresh' = IF Rejected(t) THEN fresh \cup {ref[t].ptr} ELSE fresh
    /\ op' = [op EXCEPT ![t] = "find"]
    /\ key' = [key EXCEPT ![t] = AnyKey]
    /\ ref' = [ref EXCEPT ![t] = NullRef]
    /\ j' = [j EXCEPT ![t] = 1]
    /\ prev' = [prev EXCEPT ![t] = NullRef]
    /\ res' = [res EXCEPT ![t] = Refused]
    /\ UNCHANGED <<tableVars, released, freedkeys, phaseVars>>

-----------------------------------------------------------------------------
(* Walking the buckets.                                                    *)

Slot(t) == Probe[key[t]][j[t]]

Finish(t, r) ==
    /\ Goto(t, "return")
    /\ res' = [res EXCEPT ![t] = r]

(***************************************************************************)
(* The walk ended without a bucket.  exclusive() then releases the key     *)
(* object and goes on to release the value.                                *)
(***************************************************************************)
NotFound(t) ==
    IF op[t] = "exclusive"
    THEN /\ freedkeys' = freedkeys \cup {key[t]}
         /\ Goto(t, "release")
         /\ UNCHANGED res
    ELSE /\ Finish(t, Refused)
         /\ UNCHANGED freedkeys

(* Mutant of Advance: one probe too many. *)
AdvanceTooFar(t) ==
    IF j[t] <= Size
    THEN /\ j' = [j EXCEPT ![t] = @ + 1]
         /\ Goto(t, "iterate")
         /\ UNCHANGED <<res, freedkeys>>
    ELSE /\ NotFound(t)
         /\ UNCHANGED j

(* The next iteration of the loop of iterate_buckets, or its end. *)
Advance(t) ==
    IF j[t] < Size
    THEN /\ j' = [j EXCEPT ![t] = @ + 1]
         /\ Goto(t, "iterate")
         /\ UNCHANGED <<res, freedkeys>>
    ELSE /\ NotFound(t)
         /\ UNCHANGED j

(* The load and comparison in the loop body. *)
iterate_buckets(t) ==
    /\ At(t, "iterate")
    /\ \/ /\ bk[Slot(t)] \in {Nil, key[t]}
          /\ Goto(t, "action")
          /\ UNCHANGED <<j, res, freedkeys>>
       \/ /\ bk[Slot(t)] \notin {Nil, key[t]}
          /\ Advance(t)
    /\ UNCHANGED <<tableVars, argVars, prev, fresh, released, phaseVars>>

(* The action of find_bucket, which loads the key again. *)
find_bucket(t) ==
    /\ At(t, "action")
    /\ op[t] \in Finders
    /\ \/ /\ bk[Slot(t)] = Nil
          /\ NotFound(t)
          /\ UNCHANGED j
       \/ /\ bk[Slot(t)] = key[t]
          /\ Goto(t, "value")
          /\ UNCHANGED <<j, res, freedkeys>>
       \/ /\ bk[Slot(t)] \notin {Nil, key[t]}
          /\ Advance(t)
    /\ UNCHANGED <<tableVars, argVars, prev, fresh, released, phaseVars>>

(* Mutant of set_key: a lost race is taken for another key's bucket. *)
set_key_no_eq(t) ==
    /\ At(t, "action")
    /\ op[t] \in Storers
    /\ \/ /\ bk[Slot(t)] = Nil
          /\ bk' = [bk EXCEPT ![Slot(t)] = key[t]]
          /\ Goto(t, "usage")
          /\ UNCHANGED <<j, res, freedkeys>>
       \/ /\ bk[Slot(t)] # Nil
          /\ Advance(t)
          /\ UNCHANGED bk
    /\ UNCHANGED <<bv, oldkey, value_count, usage_count, argVars, prev, fresh, released, phaseVars>>

(***************************************************************************)
(* The action of allocate_bucket.  The load and the compare-and-swap loop  *)
(* of set_key are one step: a key once written never changes, so either    *)
(* the swap succeeds or the key then seen is the one the loop ends with.   *)
(***************************************************************************)
set_key(t) ==
    /\ At(t, "action")
    /\ op[t] \in Storers
    /\ \/ /\ bk[Slot(t)] = Nil
          /\ bk' = [bk EXCEPT ![Slot(t)] = key[t]]
          /\ oldkey' = IF ref[t].shared THEN oldkey \cup {Slot(t)} ELSE oldkey
          /\ Goto(t, "usage")
          /\ UNCHANGED <<j, res, freedkeys>>
       \/ /\ bk[Slot(t)] = key[t]
          /\ Goto(t, "value")
          /\ UNCHANGED <<bk, oldkey, j, res, freedkeys>>
       \/ /\ bk[Slot(t)] \notin {Nil, key[t]}
          /\ Advance(t)
          /\ UNCHANGED <<bk, oldkey>>
    /\ UNCHANGED <<bv, value_count, usage_count, argVars, prev, fresh, released, phaseVars>>

usage_incr(t) ==
    /\ At(t, "usage")
    /\ usage_count' = usage_count + 1
    /\ Goto(t, "value")
    /\ UNCHANGED <<bk, bv, oldkey, value_count, argVars, j, prev, res, heapVars, phaseVars>>

-----------------------------------------------------------------------------
(* The bucket is known: operations on its value.                           *)

find_value(t) ==
    /\ At(t, "value") /\ op[t] = "find"
    /\ Finish(t, Result(bv[Slot(t)].ptr # Nil, bv[Slot(t)].ptr))
    /\ UNCHANGED <<tableVars, argVars, j, prev, heapVars, phaseVars>>

set_value(t) ==
    /\ At(t, "value") /\ op[t] = "set"
    /\ prev' = [prev EXCEPT ![t] = bv[Slot(t)]]
    /\ bv' = [bv EXCEPT ![Slot(t)] = ref[t]]
    /\ res' = [res EXCEPT ![t] = Result(TRUE, Nil)]
    /\ Goto(t, "changed")
    /\ UNCHANGED <<bk, oldkey, value_count, usage_count, argVars, j, heapVars, phaseVars>>

add_value(t) ==
    /\ At(t, "value") /\ op[t] = "add"
    /\ \/ /\ bv[Slot(t)] = NullRef
          /\ prev' = [prev EXCEPT ![t] = NullRef]
          /\ bv' = [bv EXCEPT ![Slot(t)] = ref[t]]
          /\ res' = [res EXCEPT ![t] = Result(TRUE, ref[t].ptr)]
          /\ Goto(t, "changed")
       \/ /\ bv[Slot(t)] # NullRef
          /\ Finish(t, Result(FALSE, bv[Slot(t)].ptr))
          /\ UNCHANGED <<bv, prev>>
    /\ UNCHANGED <<bk, oldkey, value_count, usage_count, argVars, j, heapVars, phaseVars>>

(* The check of replace_value's loop on the value last read, p. *)
ReplaceCheck(t, p) ==
    /\ prev' = [prev EXCEPT ![t] = p]
    /\ IF p = NullRef
       THEN Finish(t, Refused)
       ELSE Goto(t, "cas") /\ UNCHANGED res

replace_load(t) ==
    /\ At(t, "value") /\ op[t] = "replace"
    /\ ReplaceCheck(t, bv[Slot(t)])
    /\ UNCHANGED <<tableVars, argVars, j, heapVars, phaseVars>>

(* Mutant of replace_value: a plain store instead of the compare-and-swap. *)
replace_value_store(t) ==
    /\ At(t, "cas")
    /\ bv' = [bv EXCEPT ![Slot(t)] = ref[t]]
    /\ res' = [res EXCEPT ![t] = Result(TRUE, Nil)]
    /\ Goto(t, "changed")
    /\ UNCHANGED <<bk, oldkey, value_count, usage_count, argVars, j, prev, heapVars, phaseVars>>

replace_value(t) ==
    /\ At(t, "cas")
    /\ \/ /\ bv[Slot(t)] = prev[t]
          /\ bv' = [bv EXCEPT ![Slot(t)] = ref[t]]
          /\ res' = [res EXCEPT ![t] = Result(TRUE, Nil)]
          /\ Goto(t, "changed")
          /\ UNCHANGED prev
       \/ /\ bv[Slot(t)] # prev[t]
          /\ ReplaceCheck(t, bv[Slot(t)])
          /\ UNCHANGED bv
    /\ UNCHANGED <<bk, oldkey, value_count, usage_count, argVars, j, heapVars, phaseVars>>

remove_value(t) ==
    /\ At(t, "value") /\ op[t] = "remove"
    /\ bv' = [bv EXCEPT ![Slot(t)] = NullRef]
    /\ \/ /\ bv[Slot(t)] = NullRef
          /\ Finish(t, Refused)
          /\ UNCHANGED prev
       \/ /\ bv[Slot(t)] # NullRef
          /\ prev' = [prev EXCEPT ![t] = bv[Slot(t)]]
          /\ res' = [res EXCEPT ![t] = Result(TRUE, Nil)]
          /\ Goto(t, "decr")
    /\ UNCHANGED <<bk, oldkey, value_count, usage_count, argVars, j, heapVars, phaseVars>>

(* changed_value() counts a new value; a displaced one it releases. *)
Release(e) == released' = [released EXCEPT ![e] = @ + 1]

(* Mutant of ReleasePrev: release a value the old table still owns. *)
ReleaseShared(t) ==
    /\ Goto(t, "return")
    /\ Release(prev[t].ptr)

ReleasePrev(t) ==
    /\ Goto(t, "return")
    /\ IF prev[t].shared THEN UNCHANGED released ELSE Release(prev[t].ptr)

changed_value(t) ==
    /\ At(t, "changed")
    /\ \/ /\ prev[t] = NullRef
          /\ value_count' = value_count + 1
          /\ Goto(t, "return")
          /\ UNCHANGED released
       \/ /\ prev[t] # NullRef
          /\ ReleasePrev(t)
          /\ UNCHANGED value_count
    /\ UNCHANGED <<bk, bv, oldkey, usage_count, argVars, j, prev, res, fresh, freedkeys, phaseVars>>

(* Mutant of remove_decr: the count of values is left alone. *)
remove_no_decr(t) ==
    /\ At(t, "decr")
    /\ Goto(t, "release")
    /\ UNCHANGED <<tableVars, argVars, j, prev, res, heapVars, phaseVars>>

remove_decr(t) ==
    /\ At(t, "decr")
    /\ value_count' = value_count - 1
    /\ Goto(t, "release")
    /\ UNCHANGED <<bk, bv, oldkey, usage_count, argVars, j, prev, res, heapVars, phaseVars>>

remove_release(t) ==
    /\ At(t, "release") /\ op[t] = "remove"
    /\ ReleasePrev(t)
    /\ UNCHANGED <<tableVars, argVars, j, prev, res, fresh, freedkeys, phaseVars>>

(* Mutant of exclusive_value: expect the value without its shared flag. *)
exclusive_value_no_flag(t) ==
    /\ At(t, "value") /\ op[t] = "exclusive"
    /\ freedkeys' = IF Slot(t) \in oldkey THEN freedkeys ELSE freedkeys \cup {key[t]}
    /\ Goto(t, "release")
    /\ UNCHANGED <<tableVars, argVars, j, prev, res, fresh, released, phaseVars>>

(* Mutant of exclusive_value: never release the old key object. *)
exclusive_value_keep_key(t) ==
    /\ At(t, "value") /\ op[t] = "exclusive"
    /\ bv' = [bv EXCEPT ![Slot(t)].shared = FALSE]
    /\ Finish(t, Result(TRUE, Nil))
    /\ UNCHANGED <<bk, oldkey, value_count, usage_count, argVars, j, prev, heapVars, phaseVars>>

(***************************************************************************)
(* exclusive() with a bucket: releases the old key object if the bucket    *)
(* holds another one, then clears the shared flag of the old value.        *)
(***************************************************************************)
exclusive_value(t) ==
    /\ At(t, "value") /\ op[t] = "exclusive"
    /\ freedkeys' = IF Slot(t) \in oldkey THEN freedkeys ELSE freedkeys \cup {key[t]}
    /\ \/ /\ ref[t].ptr = Nil
          /\ Finish(t, Result(TRUE, Nil))
          /\ UNCHANGED bv
       \/ /\ ref[t].ptr # Nil
          /\ bv[Slot(t)] = ref[t]
          /\ bv' = [bv EXCEPT ![Slot(t)] = Ref(ref[t].ptr, FALSE)]
          /\ Finish(t, Result(TRUE, Nil))
       \/ /\ ref[t].ptr # Nil
          /\ bv[Slot(t)] # ref[t]
          /\ Goto(t, "release")
          /\ UNCHANGED <<bv, res>>
    /\ UNCHANGED <<bk, oldkey, value_count, usage_count, argVars, j, prev, fresh, released, phaseVars>>

(* val_release(v) in exclusive(): cache::entry_release dereferences v. *)
exclusive_release(t) ==
    /\ At(t, "release") /\ op[t] = "exclusive"
    /\ \/ /\ ref[t].ptr = Nil
          /\ crashed' = TRUE
          /\ UNCHANGED <<pc, res, released>>
       \/ /\ ref[t].ptr # Nil
          /\ Release(ref[t].ptr)
          /\ Finish(t, Result(TRUE, Nil))
          /\ UNCHANGED crashed
    /\ UNCHANGED <<tableVars, argVars, j, prev, fresh, freedkeys, phase, settled>>

-----------------------------------------------------------------------------
(* The steps of collect() around this table.                               *)

(* _entries = building; _building = nullptr. *)
swap ==
    /\ ~crashed
    /\ phase = "building"
    /\ phase' = "current"
    /\ UNCHANGED <<tableVars, pc, argVars, j, prev, res, heapVars, settled, crashed>>

(* gc_flush() returns: no operation that still uses the old table is left. *)
flushed ==
    /\ ~crashed
    /\ phase = "current"
    /\ \A t \in Threads : pc[t] # "idle" => ~ref[t].shared
    /\ phase' = "exclusive"
    /\ UNCHANGED <<tableVars, pc, argVars, j, prev, res, heapVars, settled, crashed>>

Call(t) ==
    \/ find(t) \/ remove(t) \/ exclusive(t)
    \/ store(t, "set") \/ store(t, "add") \/ store(t, "replace")
    \/ store_shared(t, "set") \/ store_shared(t, "add")

Step(t) ==
    \/ iterate_buckets(t) \/ find_bucket(t) \/ set_key(t) \/ usage_incr(t)
    \/ find_value(t) \/ set_value(t) \/ add_value(t)
    \/ replace_load(t) \/ replace_value(t)
    \/ changed_value(t)
    \/ remove_value(t) \/ remove_decr(t) \/ remove_release(t)
    \/ exclusive_value(t) \/ exclusive_release(t)
    \/ return(t)

Next == (\E t \in Threads : Call(t) \/ Step(t)) \/ swap \/ flushed

Spec == Init /\ [][Next]_vars

-----------------------------------------------------------------------------
(* Properties.                                                             *)

(* Every variable holds a value of its type. *)
TypeOK ==
    /\ bk \in [Buckets -> Keys \cup {Nil}]
    /\ bv \in [Buckets -> Refs]
    /\ oldkey \in SUBSET Buckets
    /\ value_count \in Int
    /\ usage_count \in Int
    /\ pc \in [Threads -> PCs]
    /\ op \in [Threads -> Ops]
    /\ key \in [Threads -> Keys]
    /\ ref \in [Threads -> Refs]
    /\ j \in [Threads -> 1..Size]
    /\ prev \in [Threads -> Refs]
    /\ res \in [Threads -> Results]
    /\ fresh \in SUBSET Entries
    /\ released \in [Entries -> Nat]
    /\ freedkeys \in SUBSET Keys
    /\ phase \in {"building", "current", "exclusive"}
    /\ settled \in SUBSET OldKeys
    /\ crashed \in BOOLEAN
    /\ \A t \in Threads :
           op[t] \in {"set", "add", "replace"} => ref[t].ptr \in Entries

(* The first n - 1 probes of a walk for k meet buckets of other keys. *)
Passed(k, n) == \A i \in 1..(n - 1) : bk[Probe[k][i]] \notin {Nil, k}

(* A key lies where a walk for it from the first probe on finds it. *)
KeysReachable ==
    \A b \in Buckets : bk[b] # Nil =>
        \E i \in 1..Size : Probe[bk[b]][i] = b /\ Passed(bk[b], i)

(* A walk under way has not passed its key or an empty bucket. *)
WalksPassed ==
    \A t \in Threads :
        pc[t] \in {"iterate", "action"} => Passed(key[t], j[t])

(* A thread working on a value is at the bucket of its key. *)
AtOwnBucket ==
    \A t \in Threads :
        pc[t] \in {"usage", "value", "cas"} => bk[Slot(t)] = key[t]

(***************************************************************************)
(* The inductive invariant behind the uniqueness of buckets.  Keys are     *)
(* never removed from buckets, so what a walk has passed stays passed.     *)
(***************************************************************************)
WalkInv == KeysReachable /\ WalksPassed /\ AtOwnBucket

(***************************************************************************)
(* Threads that race to insert the same key agree on its bucket: set_key   *)
(* never leaves a key in two buckets, so no value is hidden behind another.*)
(***************************************************************************)
OneBucketPerKey ==
    \A b, c \in Buckets : bk[b] = bk[c] /\ bk[b] # Nil => b = c

(* The value the table holds for k. *)
ValueOf(k) ==
    IF \E b \in Buckets : bk[b] = k
    THEN bv[CHOOSE b \in Buckets : bk[b] = k].ptr
    ELSE Nil

(* An operation has taken effect once it has written or read the value. *)
Done(t) ==
    \/ pc[t] \in {"changed", "decr", "return"}
    \/ pc[t] = "release" /\ op[t] = "remove"

Operation(t) ==
    [st |-> IF pc[t] = "idle" THEN "idle" ELSE IF Done(t) THEN "done" ELSE "called",
     op |-> IF pc[t] = "idle" THEN "none" ELSE op[t],
     key |-> IF pc[t] = "idle" THEN Nil ELSE key[t],
     val |-> ref[t].ptr,
     res |-> res[t]]

Map == INSTANCE AtomicMap
    WITH map <- [k \in Keys |-> ValueOf(k)],
         call <- [t \in Threads |-> Operation(t)]

(***************************************************************************)
(* The table is linearizable: find, set, add, replace, remove and          *)
(* exclusive, however their loads, swaps and exchanges interleave, are     *)
(* operations of an atomic map, and a set or add is refused for want of a  *)
(* bucket only when its key has no value.                                  *)
(***************************************************************************)
Linearizable == Map!Spec

(* The numbers of holders of an entry that must release it one day. *)
Unpublished(t) ==
    /\ op[t] \in {"set", "add", "replace"}
    /\ ~ref[t].shared
    /\ \/ pc[t] \in {"iterate", "action", "usage", "value", "cas"}
       \/ pc[t] = "return" /\ ~res[t].ok

Displaced(t) ==
    \/ pc[t] \in {"changed", "decr"}
    \/ pc[t] = "release" /\ op[t] = "remove"

InOldTable(k) ==
    \/ k \notin settled
    \/ \E t \in Threads :
           /\ op[t] = "exclusive" /\ key[t] = k
           /\ pc[t] \in {"iterate", "action", "value", "release"}

Owners(e) ==
    Cardinality({f \in fresh : f = e})
    + Cardinality({t \in Threads : Unpublished(t) /\ ref[t].ptr = e})
    + Cardinality({b \in Buckets : bv[b] = Ref(e, FALSE)})
    + Cardinality({t \in Threads : Displaced(t) /\ prev[t] = Ref(e, FALSE)})
    + Cardinality({k \in OldKeys : OldValue[k] = e /\ InOldTable(k)})
    + released[e]

(***************************************************************************)
(* val_release() is called exactly once for every entry: no interleaving   *)
(* of set, replace, remove and exclusive leaks one (no owner left) or      *)
(* releases it twice (two owners).                                         *)
(***************************************************************************)
EntryOwnedOnce == \A e \in Entries : Owners(e) = 1

(***************************************************************************)
(* An entry handed to val_release() is not in the table any more, shared   *)
(* or not, so the deferred delete cannot leave a dangling pointer behind.  *)
(***************************************************************************)
NoDanglingValue == \A b \in Buckets : bv[b].ptr # Nil => released[bv[b].ptr] = 0

(***************************************************************************)
(* Once exclusive() has dealt with an old key, its key object is either    *)
(* the one in the table or has been released, never both and never neither.*)
(***************************************************************************)
OldKeyOwnedOnce ==
    \A k \in settled :
        (\A t \in Threads : key[t] = k /\ op[t] = "exclusive" => pc[t] = "idle")
        => (k \in freedkeys <=> \A b \in oldkey : bk[b] # k)

(***************************************************************************)
(* The counters differ from the table by exactly the updates under way, so *)
(* usage(), which collect() sizes the next table by, never counts too many.*)
(***************************************************************************)
CountsExact ==
    /\ usage_count = Cardinality({b \in Buckets : bk[b] # Nil})
                     - Cardinality({t \in Threads : pc[t] = "usage"})
    /\ value_count = Cardinality({b \in Buckets : bv[b].ptr # Nil})
                     - Cardinality({t \in Threads : pc[t] = "changed" /\ prev[t] = NullRef})
                     + Cardinality({t \in Threads : pc[t] = "decr"})
=============================================================================
