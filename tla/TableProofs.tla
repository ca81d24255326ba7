----------------------------- MODULE TableProofs -----------------------------
(***************************************************************************)
(* Proofs about Table, for any number of threads, keys and buckets and any *)
(* probe sequence.                                                         *)
(***************************************************************************)
EXTENDS Table, TLAPS

LEMMA AnyKeyIsKey == AnyKey \in Keys
BY KeysAssumption DEF AnyKey

LEMMA NullRefIsRef == NullRef \in Refs
BY DEF NullRef, Ref, Refs

LEMMA RefIsRef ==
    ASSUME NEW p \in Entries \cup {Nil}, NEW s \in BOOLEAN
    PROVE  Ref(p, s) \in Refs
BY DEF Ref, Refs

LEMMA ResultIsResult ==
    ASSUME NEW ok \in BOOLEAN, NEW cur \in Entries \cup {Nil}
    PROVE  Result(ok, cur) \in Results
BY DEF Result, Results

LEMMA RefusedIsResult == Refused \in Results
BY ResultIsResult DEF Refused

LEMMA SlotIsBucket ==
    ASSUME TypeOK, NEW t \in Threads
    PROVE  Slot(t) \in Buckets
<1>1. key[t] \in Keys /\ j[t] \in 1..Size BY DEF TypeOK
<1>2. Probe[key[t]] \in [1..Size -> Buckets] BY <1>1, ProbeAssumption
<1> QED BY <1>1, <1>2 DEF Slot

-----------------------------------------------------------------------------
(* Type correctness.                                                       *)

(* A call keeps the types: its arguments are a key and a value_ref. *)
LEMMA BeginType ==
    ASSUME TypeOK, NEW t \in Threads, NEW o \in Ops, NEW k \in Keys, NEW r \in Refs,
           Begin(t, o, k, r),
           o \in {"set", "add", "replace"} => r.ptr \in Entries,
           fresh' \in SUBSET Entries, settled' \in SUBSET OldKeys
    PROVE  TypeOK'
<1>1. pc' \in [Threads -> PCs] BY DEF TypeOK, Begin, Goto, PCs
<1>2. /\ op' \in [Threads -> Ops]
      /\ key' \in [Threads -> Keys]
      /\ ref' \in [Threads -> Refs]
  BY DEF TypeOK, Begin
<1>3. j' \in [Threads -> 1..Size] BY SizeAssumption DEF TypeOK, Begin
<1>4. \A u \in Threads :
          op'[u] \in {"set", "add", "replace"} => ref'[u].ptr \in Entries
  BY DEF TypeOK, Begin
<1> QED BY <1>1, <1>2, <1>3, <1>4 DEF TypeOK, Begin, tableVars

LEMMA CallType ==
    ASSUME TypeOK, NEW t \in Threads, Call(t)
    PROVE  TypeOK'
<1>1. CASE find(t)
  BY <1>1, BeginType, NullRefIsRef DEF find, TypeOK, Ops, Finders
<1>2. CASE remove(t)
  BY <1>2, BeginType, NullRefIsRef DEF remove, TypeOK, Ops, Finders
<1>3. CASE exclusive(t)
  <2>1. PICK k \in OldKeys \ settled :
            /\ Begin(t, "exclusive", k, Ref(OldValue[k], TRUE))
            /\ settled' = settled \cup {k}
    BY <1>3 DEF exclusive
  <2>2. k \in Keys /\ Ref(OldValue[k], TRUE) \in Refs
    BY OldAssumption, RefIsRef
  <2> QED BY <1>3, <2>1, <2>2, BeginType DEF exclusive, TypeOK, Ops, Finders
<1>4. ASSUME NEW o \in {"set", "add", "replace"}, store(t, o) PROVE TypeOK'
  <2>1. PICK k \in Keys, e \in fresh :
            Begin(t, o, k, Ref(e, FALSE)) /\ fresh' = fresh \ {e}
    BY <1>4 DEF store
  <2>2. Ref(e, FALSE) \in Refs /\ Ref(e, FALSE).ptr \in Entries
    BY RefIsRef DEF TypeOK, Ref
  <2> QED BY <1>4, <2>1, <2>2, BeginType DEF store, TypeOK, Ops, Finders, Storers
<1>5. ASSUME NEW o \in {"set", "add"}, store_shared(t, o) PROVE TypeOK'
  <2>1. PICK k \in OldKeys :
            OldValue[k] # Nil /\ Begin(t, o, k, Ref(OldValue[k], TRUE))
    BY <1>5 DEF store_shared
  <2>2. /\ k \in Keys
        /\ Ref(OldValue[k], TRUE) \in Refs
        /\ Ref(OldValue[k], TRUE).ptr \in Entries
    BY <2>1, OldAssumption, RefIsRef DEF Ref
  <2> QED BY <1>5, <2>1, <2>2, BeginType DEF store_shared, TypeOK, Ops, Storers
<1> QED BY <1>1, <1>2, <1>3, <1>4, <1>5 DEF Call

(* The steps of the walk. *)
LEMMA AdvanceType ==
    ASSUME TypeOK, NEW t \in Threads, Advance(t) \/ (NotFound(t) /\ UNCHANGED j)
    PROVE  /\ pc' \in [Threads -> PCs]
           /\ j' \in [Threads -> 1..Size]
           /\ res' \in [Threads -> Results]
           /\ freedkeys' \in SUBSET Keys
<1>1. ASSUME NotFound(t)
      PROVE  /\ pc' \in [Threads -> PCs]
             /\ res' \in [Threads -> Results]
             /\ freedkeys' \in SUBSET Keys
  BY <1>1, RefusedIsResult DEF TypeOK, NotFound, Finish, Goto, PCs
<1>2. CASE NotFound(t) /\ UNCHANGED j
  BY <1>1, <1>2 DEF TypeOK
<1>3. CASE Advance(t)
  BY <1>1, <1>3, SizeAssumption DEF TypeOK, Advance, Goto, PCs
<1> QED BY <1>2, <1>3

LEMMA WalkType ==
    ASSUME TypeOK, NEW t \in Threads,
           iterate_buckets(t) \/ find_bucket(t) \/ set_key(t) \/ usage_incr(t)
    PROVE  TypeOK'
<1>1. CASE iterate_buckets(t)
  <2>1. /\ pc' \in [Threads -> PCs]
        /\ j' \in [Threads -> 1..Size]
        /\ res' \in [Threads -> Results]
        /\ freedkeys' \in SUBSET Keys
    BY <1>1, AdvanceType DEF iterate_buckets, TypeOK, Goto, PCs
  <2> QED BY <1>1, <2>1
          DEF TypeOK, iterate_buckets, tableVars, argVars, phaseVars
<1>2. CASE find_bucket(t)
  <2>1. /\ pc' \in [Threads -> PCs]
        /\ j' \in [Threads -> 1..Size]
        /\ res' \in [Threads -> Results]
        /\ freedkeys' \in SUBSET Keys
    BY <1>2, AdvanceType DEF find_bucket, TypeOK, Goto, PCs
  <2> QED BY <1>2, <2>1
          DEF TypeOK, find_bucket, tableVars, argVars, phaseVars
<1>3. CASE set_key(t)
  <2>1. /\ pc' \in [Threads -> PCs]
        /\ j' \in [Threads -> 1..Size]
        /\ res' \in [Threads -> Results]
        /\ freedkeys' \in SUBSET Keys
    BY <1>3, AdvanceType DEF set_key, TypeOK, Goto, PCs
  <2>2. /\ bk' \in [Buckets -> Keys \cup {Nil}]
        /\ oldkey' \in SUBSET Buckets
    BY <1>3, SlotIsBucket DEF set_key, TypeOK
  <2> QED BY <1>3, <2>1, <2>2 DEF TypeOK, set_key, argVars, phaseVars
<1>4. CASE usage_incr(t)
  BY <1>4 DEF TypeOK, usage_incr, Goto, PCs, argVars, heapVars, phaseVars
<1> QED BY <1>1, <1>2, <1>3, <1>4

(* The steps on a bucket's value. *)
LEMMA ValueType ==
    ASSUME TypeOK, NEW t \in Threads,
           \/ find_value(t) \/ set_value(t) \/ add_value(t)
           \/ replace_load(t) \/ replace_value(t)
           \/ remove_value(t) \/ exclusive_value(t)
    PROVE  TypeOK'
<1> USE SlotIsBucket, NullRefIsRef, RefusedIsResult
<1>1. /\ bv[Slot(t)] \in Refs
      /\ bv[Slot(t)].ptr \in Entries \cup {Nil}
      /\ ref[t] \in Refs
      /\ ref[t].ptr \in Entries \cup {Nil}
      /\ Nil \in Entries \cup {Nil}
  BY DEF TypeOK, Refs
<1>2. CASE find_value(t)
  <2>1. Result(bv[Slot(t)].ptr # Nil, bv[Slot(t)].ptr) \in Results
    BY <1>1, ResultIsResult
  <2> QED BY <1>2, <2>1
          DEF TypeOK, find_value, Finish, Goto, PCs, tableVars, argVars, heapVars, phaseVars
<1>3. CASE set_value(t)
  <2>1. Result(TRUE, Nil) \in Results BY <1>1, ResultIsResult
  <2>4. bv' \in [Buckets -> Refs] /\ prev' \in [Threads -> Refs]
    BY <1>1, <1>3 DEF TypeOK, set_value
  <2>5. res' \in [Threads -> Results]
    BY <1>3, <2>1 DEF TypeOK, set_value, Finish
  <2>6. pc' \in [Threads -> PCs]
    BY <1>3 DEF TypeOK, set_value, Finish, Goto, PCs
  <2> QED BY <1>3, <2>4, <2>5, <2>6
          DEF TypeOK, set_value, argVars, heapVars, phaseVars
<1>4. CASE add_value(t)
  <2>1. /\ Result(TRUE, ref[t].ptr) \in Results
        /\ Result(FALSE, bv[Slot(t)].ptr) \in Results
    BY <1>1, ResultIsResult
  <2>2. bv' \in [Buckets -> Refs] /\ prev' \in [Threads -> Refs]
    BY <1>1, <1>4 DEF TypeOK, add_value
  <2>3. res' \in [Threads -> Results]
    BY <1>4, <2>1 DEF TypeOK, add_value, Finish
  <2>4. pc' \in [Threads -> PCs]
    BY <1>4 DEF TypeOK, add_value, Finish, Goto, PCs
  <2> QED BY <1>4, <2>2, <2>3, <2>4 DEF TypeOK, add_value, argVars, heapVars, phaseVars
<1>5. CASE replace_load(t)
  BY <1>1, <1>5
  DEF TypeOK, replace_load, ReplaceCheck, Finish, Goto, PCs, tableVars, argVars, heapVars, phaseVars
<1>6. CASE replace_value(t)
  <2>1. Result(TRUE, Nil) \in Results BY <1>1, ResultIsResult
  <2>4. bv' \in [Buckets -> Refs] /\ prev' \in [Threads -> Refs]
    BY <1>1, <1>6 DEF TypeOK, replace_value, ReplaceCheck
  <2>5. res' \in [Threads -> Results]
    BY <1>6, <2>1 DEF TypeOK, replace_value, ReplaceCheck, Finish
  <2>6. pc' \in [Threads -> PCs]
    BY <1>6 DEF TypeOK, replace_value, ReplaceCheck, Finish, Goto, PCs
  <2> QED BY <1>6, <2>4, <2>5, <2>6
          DEF TypeOK, replace_value, argVars, heapVars, phaseVars
<1>7. CASE remove_value(t)
  <2>1. Result(TRUE, Nil) \in Results BY <1>1, ResultIsResult
  <2>4. bv' \in [Buckets -> Refs] /\ prev' \in [Threads -> Refs]
    BY <1>1, <1>7 DEF TypeOK, remove_value
  <2>5. res' \in [Threads -> Results]
    BY <1>7, <2>1 DEF TypeOK, remove_value, Finish
  <2>6. pc' \in [Threads -> PCs]
    BY <1>7 DEF TypeOK, remove_value, Finish, Goto, PCs
  <2> QED BY <1>7, <2>4, <2>5, <2>6
          DEF TypeOK, remove_value, argVars, heapVars, phaseVars
<1>8. CASE exclusive_value(t)
  <2>1. Result(TRUE, Nil) \in Results BY <1>1, ResultIsResult
  <2>2. Ref(ref[t].ptr, FALSE) \in Refs BY <1>1, RefIsRef
  <2>3. freedkeys' \in SUBSET Keys BY <1>8 DEF TypeOK, exclusive_value
  <2>4. bv' \in [Buckets -> Refs] /\ prev' \in [Threads -> Refs]
    BY <1>1, <1>8, <2>2 DEF TypeOK, exclusive_value
  <2>5. res' \in [Threads -> Results]
    BY <1>8, <2>1 DEF TypeOK, exclusive_value, Finish
  <2>6. pc' \in [Threads -> PCs]
    BY <1>8 DEF TypeOK, exclusive_value, Finish, Goto, PCs
  <2> QED BY <1>8, <2>3, <2>4, <2>5, <2>6
          DEF TypeOK, exclusive_value, argVars, heapVars, phaseVars
<1> QED BY <1>2, <1>3, <1>4, <1>5, <1>6, <1>7, <1>8

(* The steps that count and release. *)
LEMMA ReleaseType ==
    ASSUME TypeOK, NEW t \in Threads,
           \/ changed_value(t) \/ remove_decr(t) \/ remove_release(t)
           \/ exclusive_release(t) \/ return(t)
    PROVE  TypeOK'
<1>1. ASSUME NEW e, Release(e) PROVE released' \in [Entries -> Nat]
  <2>1. CASE e \in Entries BY <1>1, <2>1 DEF TypeOK, Release
  <2>2. CASE e \notin Entries
    <3>1. released' = released BY <1>1, <2>2, Zenon DEF TypeOK, Release
    <3> QED BY <3>1 DEF TypeOK
  <2> QED BY <2>1, <2>2
<1>2. ASSUME ReleasePrev(t)
      PROVE released' \in [Entries -> Nat] /\ pc' \in [Threads -> PCs]
  BY <1>1, <1>2 DEF TypeOK, ReleasePrev, Goto, PCs
<1>3. CASE changed_value(t)
  <2>1. released' \in [Entries -> Nat] /\ pc' \in [Threads -> PCs]
    BY <1>2, <1>3 DEF TypeOK, changed_value, Goto, PCs
  <2>2. value_count' \in Int BY <1>3 DEF TypeOK, changed_value
  <2> QED BY <1>3, <2>1, <2>2 DEF TypeOK, changed_value, argVars, phaseVars
<1>4. CASE remove_decr(t)
  BY <1>4 DEF TypeOK, remove_decr, Goto, PCs, argVars, heapVars, phaseVars
<1>5. CASE remove_release(t)
  BY <1>2, <1>5 DEF TypeOK, remove_release, tableVars, argVars, phaseVars
<1>6. CASE exclusive_release(t)
  <2>1. Result(TRUE, Nil) \in Results BY ResultIsResult
  <2>2. released' \in [Entries -> Nat] BY <1>1, <1>6 DEF TypeOK, exclusive_release
  <2> QED BY <1>6, <2>1, <2>2
          DEF TypeOK, exclusive_release, Finish, Goto, PCs, tableVars, argVars
<1>7. CASE return(t)
  <2>1. fresh' \in SUBSET Entries
    <3>1. CASE Rejected(t)
      \* A rejected entry came from the pool: it is an entry, not Nil.
      <4>1. ref[t].ptr \in Entries BY <3>1 DEF Rejected, TypeOK
      <4> QED BY <1>7, <3>1, <4>1 DEF return, TypeOK
    <3> QED BY <1>7, <3>1 DEF return, TypeOK
  <2>2. \A u \in Threads :
            op'[u] \in {"set", "add", "replace"} => ref'[u].ptr \in Entries
    BY <1>7 DEF TypeOK, return
  <2>3. j' \in [Threads -> 1..Size] BY <1>7, SizeAssumption DEF TypeOK, return
  <2> QED BY <1>7, <2>1, <2>2, <2>3, AnyKeyIsKey, NullRefIsRef, RefusedIsResult
          DEF TypeOK, return, Goto, PCs, Ops, Finders, tableVars, phaseVars
<1> QED BY <1>3, <1>4, <1>5, <1>6, <1>7

LEMMA InitType == Init => TypeOK
<1> SUFFICES ASSUME Init PROVE TypeOK
  OBVIOUS
<1>1. fresh \in SUBSET Entries /\ released \in [Entries -> Nat] /\ settled \in SUBSET OldKeys
  BY DEF Init
<1>2. j \in [Threads -> 1..Size] BY SizeAssumption DEF Init
<1>3. /\ op \in [Threads -> Ops] /\ key \in [Threads -> Keys]
      /\ ref \in [Threads -> Refs] /\ prev \in [Threads -> Refs]
      /\ res \in [Threads -> Results] /\ bv \in [Buckets -> Refs]
  BY AnyKeyIsKey, NullRefIsRef, RefusedIsResult DEF Init, Ops, Finders
<1>4. /\ bk \in [Buckets -> Keys \cup {Nil}] /\ pc \in [Threads -> PCs]
      /\ value_count \in Int /\ usage_count \in Int
  BY DEF Init, PCs
<1>5. \A t \in Threads : op[t] = "find" BY DEF Init
<1> QED BY <1>1, <1>2, <1>3, <1>4, <1>5 DEF Init, TypeOK

LEMMA NextType ==
    ASSUME TypeOK, [Next]_vars
    PROVE  TypeOK'
<1>1. ASSUME NEW t \in Threads, Call(t) PROVE TypeOK' BY <1>1, CallType
<1>2. ASSUME NEW t \in Threads, Step(t) PROVE TypeOK'
  BY <1>2, WalkType, ValueType, ReleaseType DEF Step
<1>3. CASE swap BY <1>3 DEF TypeOK, swap, tableVars, argVars, heapVars
<1>4. CASE flushed BY <1>4 DEF TypeOK, flushed, tableVars, argVars, heapVars
<1>5. CASE UNCHANGED vars
  BY <1>5 DEF TypeOK, vars, tableVars, argVars, heapVars, phaseVars
<1> QED BY <1>1, <1>2, <1>3, <1>4, <1>5 DEF Next

(* In every reachable state of the table each variable has its type. *)
THEOREM TypeCorrect == Spec => []TypeOK
<1>1. Init => TypeOK BY InitType
<1>2. TypeOK /\ [Next]_vars => TypeOK' BY NextType
<1> QED BY <1>1, <1>2, PTL DEF Spec

-----------------------------------------------------------------------------
(***************************************************************************)
(* A key has one bucket.  The walks only depend on the keys of the buckets *)
(* and on each thread's pc, key and j, so we first say how a step of       *)
(* thread t moves t through its walk and what it writes into a bucket.     *)
(***************************************************************************)
SameWalk(t) == key'[t] = key[t] /\ j'[t] = j[t]

Claims(t) ==
    /\ pc[t] = "action"
    /\ bk[Slot(t)] = Nil
    /\ bk' = [bk EXCEPT ![Slot(t)] = key[t]]
    /\ pc'[t] = "usage"
    /\ SameWalk(t)

Moves(t) ==
    \/ pc'[t] \notin {"iterate", "action", "usage", "value", "cas"}
    \/ pc'[t] = "iterate" /\ j'[t] = 1
    \/ /\ pc'[t] = "iterate" /\ pc[t] \in {"iterate", "action"}
       /\ key'[t] = key[t] /\ j'[t] = j[t] + 1
       /\ bk[Slot(t)] \notin {Nil, key[t]}
    \/ pc[t] = "iterate" /\ pc'[t] = "action" /\ SameWalk(t)
    \/ /\ pc[t] = "action" /\ pc'[t] = "value" /\ SameWalk(t)
       /\ bk[Slot(t)] = key[t]
    \/ /\ pc[t] \in {"usage", "value", "cas"} /\ pc'[t] \in {"value", "cas"}
       /\ SameWalk(t)

Others(t) ==
    \A u \in Threads \ {t} : pc'[u] = pc[u] /\ SameWalk(u)

LEMMA CallMoves ==
    ASSUME TypeOK, NEW t \in Threads, Call(t)
    PROVE  Others(t) /\ bk' = bk /\ Moves(t)
<1>1. ASSUME NEW o, NEW k, NEW r, Begin(t, o, k, r)
      PROVE  Others(t) /\ bk' = bk /\ Moves(t)
  BY <1>1 DEF TypeOK, Begin, Goto, Others, SameWalk, Moves, tableVars
<1> QED BY <1>1 DEF Call, find, remove, exclusive, store, store_shared

LEMMA AdvanceMoves ==
    ASSUME TypeOK, NEW t \in Threads,
           pc[t] \in {"iterate", "action"}, UNCHANGED argVars,
           \/ Advance(t) /\ bk[Slot(t)] \notin {Nil, key[t]}
           \/ NotFound(t) /\ UNCHANGED j
    PROVE  Others(t) /\ Moves(t)
<1>1. ASSUME NotFound(t), UNCHANGED j PROVE Others(t) /\ Moves(t)
  BY <1>1 DEF TypeOK, NotFound, Finish, Goto, Others, SameWalk, Moves, argVars
<1>2. CASE Advance(t) /\ bk[Slot(t)] \notin {Nil, key[t]}
  <2>1. CASE j[t] < Size
    BY <1>2, <2>1 DEF TypeOK, Advance, Goto, Others, SameWalk, Moves, argVars
  <2> QED BY <1>1, <1>2, <2>1 DEF Advance
<1> QED BY <1>1, <1>2

LEMMA StepMoves ==
    ASSUME TypeOK, NEW t \in Threads, Step(t)
    PROVE  Others(t) /\ (Claims(t) \/ (bk' = bk /\ Moves(t)))
<1>1. CASE iterate_buckets(t)
  <2>1. bk' = bk /\ UNCHANGED argVars /\ pc[t] = "iterate"
    BY <1>1 DEF iterate_buckets, At, tableVars
  <2>2. CASE Goto(t, "action") /\ UNCHANGED j
    BY <2>1, <2>2 DEF TypeOK, Goto, Others, SameWalk, Moves, argVars
  <2> QED BY <1>1, <2>1, <2>2, AdvanceMoves DEF iterate_buckets
<1>2. CASE find_bucket(t)
  <2>1. bk' = bk /\ UNCHANGED argVars /\ pc[t] = "action"
    BY <1>2 DEF find_bucket, At, tableVars
  <2>2. CASE bk[Slot(t)] = key[t] /\ Goto(t, "value") /\ UNCHANGED j
    BY <2>1, <2>2 DEF TypeOK, Goto, Others, SameWalk, Moves, argVars
  <2> QED BY <1>2, <2>1, <2>2, AdvanceMoves DEF find_bucket
<1>3. CASE set_key(t)
  <2>1. UNCHANGED argVars /\ pc[t] = "action" BY <1>3 DEF set_key, At
  <2>2. CASE /\ bk[Slot(t)] = Nil /\ bk' = [bk EXCEPT ![Slot(t)] = key[t]]
             /\ Goto(t, "usage") /\ UNCHANGED j
    BY <2>1, <2>2 DEF TypeOK, Goto, Others, SameWalk, Claims, argVars
  <2>3. CASE bk' = bk /\ bk[Slot(t)] = key[t] /\ Goto(t, "value") /\ UNCHANGED j
    BY <2>1, <2>3 DEF TypeOK, Goto, Others, SameWalk, Moves, argVars
  <2> QED BY <1>3, <2>1, <2>2, <2>3, AdvanceMoves DEF set_key
<1>4. CASE usage_incr(t)
  BY <1>4 DEF TypeOK, usage_incr, At, Goto, Others, SameWalk, Moves, argVars
<1>5. CASE find_value(t)
  BY <1>5 DEF TypeOK, find_value, Finish, Goto, Others, SameWalk, Moves, argVars, tableVars
<1>6. CASE set_value(t)
  BY <1>6 DEF TypeOK, set_value, Goto, Others, SameWalk, Moves, argVars
<1>7. CASE add_value(t)
  BY <1>7 DEF TypeOK, add_value, Finish, Goto, Others, SameWalk, Moves, argVars
<1>8. CASE replace_load(t)
  BY <1>8 DEF TypeOK, replace_load, ReplaceCheck, Finish, At, Goto, Others, SameWalk,
              Moves, argVars, tableVars
<1>9. CASE replace_value(t)
  BY <1>9 DEF TypeOK, replace_value, ReplaceCheck, Finish, At, Goto, Others, SameWalk,
              Moves, argVars
<1>10. CASE remove_value(t)
  BY <1>10 DEF TypeOK, remove_value, Finish, Goto, Others, SameWalk, Moves, argVars
<1>11. CASE changed_value(t)
  BY <1>11 DEF TypeOK, changed_value, ReleasePrev, Goto, Others, SameWalk, Moves, argVars
<1>12. CASE remove_decr(t)
  BY <1>12 DEF TypeOK, remove_decr, Goto, Others, SameWalk, Moves, argVars
<1>13. CASE remove_release(t)
  BY <1>13 DEF TypeOK, remove_release, ReleasePrev, Goto, Others, SameWalk, Moves,
               argVars, tableVars
<1>14. CASE exclusive_value(t)
  BY <1>14 DEF TypeOK, exclusive_value, Finish, Goto, Others, SameWalk, Moves, argVars
<1>15. CASE exclusive_release(t)
  BY <1>15 DEF TypeOK, exclusive_release, At, Finish, Goto, Others, SameWalk, Moves,
               argVars, tableVars
<1>16. CASE return(t)
  BY <1>16 DEF TypeOK, return, Goto, Others, SameWalk, Moves, tableVars
<1> QED BY <1>1, <1>2, <1>3, <1>4, <1>5, <1>6, <1>7, <1>8, <1>9, <1>10, <1>11,
           <1>12, <1>13, <1>14, <1>15, <1>16 DEF Step

(* Keys stay in their buckets, so what a walk has passed stays passed. *)
KeysStay == \A b \in Buckets : bk[b] # Nil => bk'[b] = bk[b]

PassedNext(k, n) == \A i \in 1..(n - 1) : bk'[Probe[k][i]] \notin {Nil, k}

LEMMA PassedStays ==
    ASSUME NEW k \in Keys, NEW n \in 1..Size, KeysStay, Passed(k, n)
    PROVE  PassedNext(k, n)
<1> SUFFICES ASSUME NEW i \in 1..(n - 1) PROVE bk'[Probe[k][i]] \notin {Nil, k}
  BY DEF PassedNext
<1>1. i \in 1..Size BY SizeAssumption
<1>2. Probe[k][i] \in Buckets BY <1>1, ProbeAssumption
<1> QED BY <1>2 DEF KeysStay, Passed

LEMMA ReachableStays ==
    ASSUME TypeOK, KeysReachable, KeysStay, NEW b \in Buckets, bk[b] # Nil
    PROVE  \E i \in 1..Size : Probe[bk'[b]][i] = b /\ PassedNext(bk'[b], i)
<1>1. PICK i \in 1..Size : Probe[bk[b]][i] = b /\ Passed(bk[b], i)
  BY DEF KeysReachable
<1>2. bk'[b] = bk[b] /\ bk[b] \in Keys BY DEF KeysStay, TypeOK
<1>3. PassedNext(bk[b], i) BY <1>1, <1>2, PassedStays
<1> QED BY <1>1, <1>2, <1>3

LEMMA WalkInvStutters ==
    ASSUME WalkInv, UNCHANGED <<bk, pc, key, j>>
    PROVE  WalkInv'
BY DEF WalkInv, KeysReachable, WalksPassed, AtOwnBucket, Passed, Slot

(* A thread that is not moved keeps its part of the invariant. *)
LEMMA OtherWalks ==
    ASSUME TypeOK, WalkInv, KeysStay,
           NEW u \in Threads, pc'[u] = pc[u], SameWalk(u)
    PROVE  /\ pc'[u] \in {"iterate", "action"} => PassedNext(key'[u], j'[u])
           /\ pc'[u] \in {"usage", "value", "cas"} => bk'[Slot(u)'] = key'[u]
<1>1. key[u] \in Keys /\ j[u] \in 1..Size /\ Slot(u) \in Buckets
  BY SlotIsBucket DEF TypeOK
<1>2. key'[u] = key[u] /\ j'[u] = j[u] /\ Slot(u)' = Slot(u)
  BY DEF SameWalk, Slot
<1>3. ASSUME pc[u] \in {"iterate", "action"} PROVE PassedNext(key[u], j[u])
  BY <1>1, <1>3, PassedStays DEF WalkInv, WalksPassed
<1>4. ASSUME pc[u] \in {"usage", "value", "cas"} PROVE bk'[Slot(u)] = key[u]
  BY <1>1, <1>4, NilAssumption DEF WalkInv, AtOwnBucket, KeysStay
<1> QED BY <1>2, <1>3, <1>4

(* A step that writes no key. *)
LEMMA WalkInvMoves ==
    ASSUME TypeOK, TypeOK', WalkInv, NEW t \in Threads, Others(t), bk' = bk, Moves(t)
    PROVE  WalkInv'
<1>1. KeysStay BY DEF KeysStay
<1>2. KeysReachable' BY DEF WalkInv, KeysReachable, Passed
<1>3. key[t] \in Keys /\ j[t] \in 1..Size /\ Slot(t) \in Buckets
  BY SlotIsBucket DEF TypeOK
<1>4. /\ pc'[t] \in {"iterate", "action"} => PassedNext(key'[t], j'[t])
      /\ pc'[t] \in {"usage", "value", "cas"} => bk'[Slot(t)'] = key'[t]
  <2>1. CASE pc'[t] \notin {"iterate", "action", "usage", "value", "cas"}
    BY <2>1
  <2>2. CASE pc'[t] = "iterate" /\ j'[t] = 1
    BY <2>2 DEF PassedNext
  <2>3. CASE /\ pc'[t] = "iterate" /\ pc[t] \in {"iterate", "action"}
             /\ key'[t] = key[t] /\ j'[t] = j[t] + 1
             /\ bk[Slot(t)] \notin {Nil, key[t]}
    <3>1. Passed(key[t], j[t]) BY <2>3 DEF WalkInv, WalksPassed
    <3>2. ASSUME NEW i \in 1..j[t] PROVE bk[Probe[key[t]][i]] \notin {Nil, key[t]}
      <4>1. CASE i = j[t] BY <2>3, <4>1 DEF Slot
      <4>2. CASE i # j[t]
        <5>1. i \in 1..(j[t] - 1) BY <1>3, <4>2, SizeAssumption
        <5> QED BY <3>1, <5>1 DEF Passed
      <4> QED BY <4>1, <4>2
    <3>3. 1..(j'[t] - 1) = 1..j[t] BY <1>3, <2>3
    <3> QED BY <2>3, <3>2, <3>3 DEF PassedNext
  <2>4. CASE pc[t] = "iterate" /\ pc'[t] = "action" /\ SameWalk(t)
    BY <2>4 DEF WalkInv, WalksPassed, SameWalk, Passed, PassedNext
  <2>5. CASE /\ pc[t] = "action" /\ pc'[t] = "value" /\ SameWalk(t)
             /\ bk[Slot(t)] = key[t]
    BY <2>5 DEF SameWalk, Slot
  <2>6. CASE /\ pc[t] \in {"usage", "value", "cas"} /\ pc'[t] \in {"value", "cas"}
             /\ SameWalk(t)
    BY <2>6 DEF WalkInv, AtOwnBucket, SameWalk, Slot
  <2> QED BY <2>1, <2>2, <2>3, <2>4, <2>5, <2>6 DEF Moves
<1>5. ASSUME NEW u \in Threads \ {t}
      PROVE  /\ pc'[u] \in {"iterate", "action"} => PassedNext(key'[u], j'[u])
             /\ pc'[u] \in {"usage", "value", "cas"} => bk'[Slot(u)'] = key'[u]
  BY <1>1, <1>5, OtherWalks DEF Others
<1>6. WalksPassed' BY <1>4, <1>5 DEF WalksPassed, Passed, PassedNext
<1>7. AtOwnBucket' BY <1>4, <1>5 DEF AtOwnBucket
<1> QED BY <1>2, <1>6, <1>7 DEF WalkInv

(* The step that puts a key into an empty bucket. *)
LEMMA WalkInvClaims ==
    ASSUME TypeOK, WalkInv, NEW t \in Threads, Others(t), Claims(t)
    PROVE  WalkInv'
<1>1. key[t] \in Keys /\ j[t] \in 1..Size /\ Slot(t) \in Buckets
  BY SlotIsBucket DEF TypeOK
<1>2. bk' = [bk EXCEPT ![Slot(t)] = key[t]] /\ bk[Slot(t)] = Nil BY DEF Claims
<1>3. KeysStay BY <1>1, <1>2 DEF KeysStay, TypeOK
<1>4. bk'[Slot(t)] = key[t] BY <1>1, <1>2 DEF TypeOK
<1>5. KeysReachable'
  <2> SUFFICES ASSUME NEW b \in Buckets, bk'[b] # Nil
               PROVE  \E i \in 1..Size : Probe[bk'[b]][i] = b /\ PassedNext(bk'[b], i)
    BY DEF KeysReachable, Passed, PassedNext
  <2>1. CASE bk[b] # Nil BY <1>3, <2>1, ReachableStays DEF WalkInv
  <2>2. CASE bk[b] = Nil
    <3>1. b = Slot(t) BY <1>1, <1>2, <2>2 DEF TypeOK
    <3>2. PassedNext(key[t], j[t])
      BY <1>1, <1>3, PassedStays DEF WalkInv, WalksPassed, Claims
    <3> QED BY <1>1, <1>4, <3>1, <3>2 DEF Slot
  <2> QED BY <2>1, <2>2
<1>6. ASSUME NEW u \in Threads \ {t}
      PROVE  /\ pc'[u] \in {"iterate", "action"} => PassedNext(key'[u], j'[u])
             /\ pc'[u] \in {"usage", "value", "cas"} => bk'[Slot(u)'] = key'[u]
  BY <1>3, <1>6, OtherWalks DEF Others
<1>7. pc'[t] = "usage" /\ bk'[Slot(t)'] = key'[t]
  BY <1>4 DEF Claims, SameWalk, Slot
<1>8. WalksPassed' BY <1>6, <1>7 DEF WalksPassed, Passed, PassedNext
<1>9. AtOwnBucket' BY <1>6, <1>7 DEF AtOwnBucket
<1> QED BY <1>5, <1>8, <1>9 DEF WalkInv

LEMMA WalkInvInductive ==
    ASSUME TypeOK, TypeOK', WalkInv, [Next]_vars
    PROVE  WalkInv'
<1>1. ASSUME NEW t \in Threads, Call(t) PROVE WalkInv'
  BY <1>1, CallMoves, WalkInvMoves
<1>2. ASSUME NEW t \in Threads, Step(t) PROVE WalkInv'
  BY <1>2, StepMoves, WalkInvMoves, WalkInvClaims
<1>3. CASE swap \/ flushed \/ UNCHANGED vars
  BY <1>3, WalkInvStutters DEF swap, flushed, vars, tableVars, argVars
<1> QED BY <1>1, <1>2, <1>3 DEF Next

(***************************************************************************)
(* Every key is where a walk from the first probe finds it, no walk under  *)
(* way has missed its key, and a thread works on the bucket of its own key.*)
(***************************************************************************)
THEOREM WalksCorrect == Spec => []WalkInv
<1>1. Init => WalkInv
  BY DEF Init, WalkInv, KeysReachable, WalksPassed, AtOwnBucket
<1>2. TypeOK /\ TypeOK' /\ WalkInv /\ [Next]_vars => WalkInv'
  BY WalkInvInductive
<1> QED BY <1>1, <1>2, TypeCorrect, PTL DEF Spec

LEMMA ReachableUnique ==
    ASSUME TypeOK, WalkInv
    PROVE  OneBucketPerKey
<1> SUFFICES ASSUME NEW b \in Buckets, NEW c \in Buckets, bk[b] = bk[c], bk[b] # Nil
             PROVE  b = c
  BY DEF OneBucketPerKey
<1>1. PICK i \in 1..Size : Probe[bk[b]][i] = b /\ Passed(bk[b], i)
  BY DEF WalkInv, KeysReachable
<1>2. PICK h \in 1..Size : Probe[bk[b]][h] = c /\ Passed(bk[b], h)
  BY DEF WalkInv, KeysReachable
<1>3. ~ i < h
  <2> SUFFICES ASSUME i < h PROVE FALSE OBVIOUS
  <2>1. i \in 1..(h - 1) BY SizeAssumption
  <2> QED BY <1>1, <1>2, <2>1 DEF Passed
<1>4. ~ h < i
  <2> SUFFICES ASSUME h < i PROVE FALSE OBVIOUS
  <2>1. h \in 1..(i - 1) BY SizeAssumption
  <2> QED BY <1>1, <1>2, <2>1 DEF Passed
<1>5. i = h BY <1>3, <1>4, SizeAssumption
<1> QED BY <1>1, <1>2, <1>5

(***************************************************************************)
(* However many threads race to insert keys, and whatever the probe        *)
(* sequences are, set_key never gives one key two buckets.                 *)
(***************************************************************************)
THEOREM KeysUnique == Spec => []OneBucketPerKey
<1>1. TypeOK /\ WalkInv => OneBucketPerKey BY ReachableUnique
<1> QED BY <1>1, TypeCorrect, WalksCorrect, PTL
=============================================================================
