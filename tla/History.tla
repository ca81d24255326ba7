------------------------------- MODULE History -------------------------------
(***************************************************************************)
(* The chain of versions of one entry (src/src/history.h, class            *)
(* mv_object).  While a table is being rebuilt the entry stays where both  *)
(* tables point to, and set, add, replace and del work on its chain: each  *)
(* walks from the entry to the version without a newer one and changes     *)
(* that version's newer_ with a compare-and-exchange.                      *)
(*                                                                         *)
(* newer_ is a pointer with a flag in its lowest bit.  flagged_ptr         *)
(* compares both together, so the test "!= nullptr" holds for a null       *)
(* pointer with del_flag set, and the walk of set, replace or del then     *)
(* goes on to address 0: the process dies, and nothing happens after.      *)
(* compare_exchange_weak fails only on a different value, as on x86.       *)
(***************************************************************************)
EXTENDS Naturals, FiniteSets

CONSTANTS Threads,   \* the threads that operate on the entry
          Versions,  \* addresses of entries, each used for one operation
          Base,      \* the version in the table
          Nil        \* nullptr

ASSUME BaseAssumption == Base \in Versions
ASSUME NilAssumption == Nil \notin Versions \cup BOOLEAN

VARIABLES
    newer,    \* newer_ of every version
    op,       \* the operation each thread is in, "none" between operations
    mine,     \* the version its operation brings, Nil when it brings none
    at,       \* the version its walk has reached, Nil when it is not walking
    res,      \* what its operation returns
    used,     \* the versions that some operation has brought
    crashed   \* a walk has gone on to the null pointer

vars == <<newer, op, mine, at, res, used, crashed>>

(* flagged_ptr: a pointer and del_flag. *)
flagged_ptr(p, f) == [ptr |-> p, del |-> f]

nullptr == flagged_ptr(Nil, FALSE)
deleted == flagged_ptr(Nil, TRUE)

Init ==
    /\ newer = [v \in Versions |-> nullptr]
    /\ op = [t \in Threads |-> "none"]
    /\ mine = [t \in Threads |-> Nil]
    /\ at = [t \in Threads |-> Nil]
    /\ res = [t \in Threads |-> Nil]
    /\ used = {Base}
    /\ crashed = FALSE

Idle(t) == ~crashed /\ op[t] = "none"

(* The caller found Base in the table and has allocated version v. *)
Bring(t, o) ==
    /\ Idle(t)
    /\ \E v \in Versions \ used :
           /\ mine' = [mine EXCEPT ![t] = v]
           /\ used' = used \cup {v}
    /\ op' = [op EXCEPT ![t] = o]
    /\ at' = [at EXCEPT ![t] = Base]
    /\ UNCHANGED <<newer, res, crashed>>

(* An operation that brings no version. *)
Ask(t, o) ==
    /\ Idle(t)
    /\ op' = [op EXCEPT ![t] = o]
    /\ at' = [at EXCEPT ![t] = Base]
    /\ UNCHANGED <<newer, mine, res, used, crashed>>

Walking(t, o) == ~crashed /\ op[t] = o /\ at[t] # Nil

(* The operation returns r. *)
Finish(t, r) ==
    /\ res' = [res EXCEPT ![t] = r]
    /\ at' = [at EXCEPT ![t] = Nil]
    /\ UNCHANGED <<op, mine, used, crashed>>

(* The compare-and-exchange of newer_ succeeds. *)
Exchange(t, to, r) ==
    /\ newer' = [newer EXCEPT ![at[t]] = to]
    /\ Finish(t, r)

(* Mutant of Follow: the flagged pointer is used without get_ptr(). *)
FollowFlagged(t) ==
    /\ at' = [at EXCEPT ![t] = newer[at[t]]]
    /\ UNCHANGED <<newer, op, mine, res, used, crashed>>

(* The recursive call on expected.get_ptr(), which may be null. *)
Follow(t) ==
    /\ LET next == newer[at[t]].ptr
       IN \/ /\ next # Nil
             /\ at' = [at EXCEPT ![t] = next]
             /\ UNCHANGED crashed
          \/ /\ next = Nil
             /\ crashed' = TRUE
             /\ UNCHANGED at
    /\ UNCHANGED <<newer, op, mine, res, used>>

-----------------------------------------------------------------------------
(* One compare-and-exchange, or one load, per step.                        *)

(* Mutant of mv_set: newer_ is stored without a comparison. *)
mv_set_store(t) ==
    /\ Walking(t, "set")
    /\ Exchange(t, flagged_ptr(mine[t], FALSE), TRUE)

mv_set(t) ==
    /\ Walking(t, "set")
    /\ \/ /\ newer[at[t]] = nullptr
          /\ Exchange(t, flagged_ptr(mine[t], FALSE), TRUE)
       \/ newer[at[t]] # nullptr /\ Follow(t)

(* Mutant of mv_add: the comparison is with a null pointer without the flag. *)
mv_add_unflagged(t) ==
    /\ Walking(t, "add")
    /\ \/ /\ newer[at[t]] = nullptr
          /\ Exchange(t, flagged_ptr(mine[t], FALSE), TRUE)
       \/ newer[at[t]] # nullptr /\ Follow(t)

mv_add(t) ==
    /\ Walking(t, "add")
    /\ \/ /\ newer[at[t]] = deleted
          /\ Exchange(t, flagged_ptr(mine[t], FALSE), TRUE)
       \/ newer[at[t]] \notin {deleted, nullptr} /\ Follow(t)
       \/ newer[at[t]] = nullptr /\ Finish(t, FALSE) /\ UNCHANGED newer

(* return false is not reached: the null pointer is never the one flagged. *)
mv_replace(t) ==
    /\ Walking(t, "replace")
    /\ \/ /\ newer[at[t]] = nullptr
          /\ Exchange(t, flagged_ptr(mine[t], FALSE), TRUE)
       \/ newer[at[t]] # nullptr /\ Follow(t)

(* Mutant of mv_del: a version that has a newer one is deleted too. *)
mv_del_any(t) ==
    /\ Walking(t, "del")
    /\ Exchange(t, deleted, TRUE)

mv_del(t) ==
    /\ Walking(t, "del")
    /\ \/ newer[at[t]] = nullptr /\ Exchange(t, deleted, TRUE)
       \/ newer[at[t]] # nullptr /\ Follow(t)

(* tail(nullptr) *)
newest(t) ==
    /\ Walking(t, "newest")
    /\ \/ newer[at[t]].ptr # Nil /\ Follow(t)
       \/ newer[at[t]] = deleted /\ Finish(t, Nil) /\ UNCHANGED newer
       \/ newer[at[t]] = nullptr /\ Finish(t, at[t]) /\ UNCHANGED newer

(* The caller goes on. *)
return(t) ==
    /\ ~crashed /\ op[t] # "none" /\ at[t] = Nil
    /\ op' = [op EXCEPT ![t] = "none"]
    /\ mine' = [mine EXCEPT ![t] = Nil]
    /\ res' = [res EXCEPT ![t] = Nil]
    /\ UNCHANGED <<newer, at, used, crashed>>

Call(t) ==
    \/ Bring(t, "set") \/ Bring(t, "add") \/ Bring(t, "replace")
    \/ Ask(t, "del") \/ Ask(t, "newest")

Step(t) == mv_set(t) \/ mv_add(t) \/ mv_replace(t) \/ mv_del(t) \/ newest(t) \/ return(t)

Next == \E t \in Threads : Call(t) \/ Step(t)

Spec == Init /\ [][Next]_vars

-----------------------------------------------------------------------------
(* Properties.                                                             *)

(* Every variable holds a value of its type. *)
TypeOK ==
    /\ newer \in [Versions -> [ptr : Versions \cup {Nil}, del : BOOLEAN]]
    /\ op \in [Threads -> {"none", "set", "add", "replace", "del", "newest"}]
    /\ mine \in [Threads -> Versions \cup {Nil}]
    /\ at \in [Threads -> Versions \cup {Nil}]
    /\ res \in [Threads -> Versions \cup {Nil} \cup BOOLEAN]
    /\ used \in SUBSET Versions
    /\ crashed \in BOOLEAN

(* v is on the chain that starts in the table. *)
Linked(v) == v = Base \/ \E u \in Versions : newer[u].ptr = v

(* No version has two predecessors, and the first one has none. *)
OnePredecessor ==
    \A u, v \in Versions : newer[u].ptr # Nil =>
        /\ newer[u].ptr # Base
        /\ newer[u].ptr = newer[v].ptr => u = v

(* A link leads from a version on the chain; a deleted version is the last. *)
LinksOnChain ==
    \A u \in Versions : newer[u] # nullptr =>
        Linked(u) /\ (newer[u].del => newer[u].ptr = Nil)

(***************************************************************************)
(* Concurrent writers never fork the chain or lose one another's versions: *)
(* exactly one version on it has no newer one.                             *)
(***************************************************************************)
OneTail ==
    \E v \in Versions :
        /\ Linked(v) /\ newer[v].ptr = Nil
        /\ \A u \in Versions : Linked(u) /\ newer[u].ptr = Nil => u = v

(* Walks stay on the chain; a version not yet linked is its thread's own. *)
WalksOnChain ==
    \A t \in Threads :
        /\ at[t] # Nil => Linked(at[t])
        /\ op[t] \in {"set", "add", "replace"} => mine[t] # Nil
        /\ at[t] # Nil /\ op[t] \in {"set", "add", "replace"} => ~Linked(mine[t])

OwnVersions ==
    /\ Base \in used
    /\ \A v \in Versions : Linked(v) => v \in used
    /\ \A t \in Threads : mine[t] # Nil => mine[t] \in used
    /\ \A s, t \in Threads : mine[s] # Nil /\ mine[s] = mine[t] => s = t

(* The inductive invariant behind OneTail. *)
ChainInv ==
    OnePredecessor /\ LinksOnChain /\ OneTail /\ WalksOnChain /\ OwnVersions

(***************************************************************************)
(* What has been linked stays linked: a reader on its way along the chain  *)
(* is never cut off from the newest version.                               *)
(***************************************************************************)
StaysLinked == [][\A v \in Versions : Linked(v) => Linked(v)']_vars

(* The current version, Nil after a delete. *)
Current ==
    LET tail == CHOOSE v \in Versions : Linked(v) /\ newer[v].ptr = Nil
    IN IF newer[tail].del THEN Nil ELSE tail

(***************************************************************************)
(* Every operation that does not run into the null pointer reads or        *)
(* replaces the current version in one step between call and return.       *)
(***************************************************************************)
Abstract == INSTANCE AtomicVersion WITH
    current <- Current,
    call <- [t \in Threads |->
                [st |-> IF op[t] = "none" THEN "idle"
                        ELSE IF at[t] = Nil THEN "done" ELSE "called",
                 op |-> op[t], version |-> mine[t], res |-> res[t]]]

Linearizable == Abstract!Spec
=============================================================================
