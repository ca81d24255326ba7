--------------------------- MODULE TableOwnership ---------------------------
(***************************************************************************)
(* Proofs about who owns what in Table: the entries, the key objects of    *)
(* the old table and the counters, for any number of threads, keys and     *)
(* buckets, any probe sequence and any old table; and, resting on them,    *)
(* that Table implements AtomicMap.                                        *)
(***************************************************************************)
EXTENDS TableProofs, FiniteSetTheorems

-----------------------------------------------------------------------------
(***************************************************************************)
(* What is known of a thread from its place in the code.  Operations that  *)
(* share an entry with the old table end before exclusive() begins, which  *)
(* is what collect() calls gc_flush() for.                                 *)
(***************************************************************************)
Local(t) ==
    /\ pc[t] = "idle" => op[t] = "find"
    /\ pc[t] = "usage" => op[t] \in Storers
    /\ pc[t] = "cas" => op[t] = "replace" /\ prev[t] # NullRef
    /\ pc[t] = "changed" => op[t] \in {"set", "add", "replace"} /\ res[t].ok
    /\ pc[t] = "decr" => op[t] = "remove" /\ prev[t] # NullRef
    /\ pc[t] = "release" => op[t] = "exclusive" \/ (op[t] = "remove" /\ prev[t] # NullRef)
    /\ ~Done(t) => res[t] = Refused
    /\ op[t] \in {"find", "remove"} => ref[t] = NullRef
    /\ op[t] = "replace" => ~ref[t].shared
    /\ op[t] = "exclusive" =>
           phase = "exclusive" /\ key[t] \in settled /\ ref[t] = Ref(OldValue[key[t]], TRUE)
    /\ op[t] \in Storers /\ ref[t].shared =>
           /\ phase # "exclusive" /\ key[t] \in OldKeys
           /\ ref[t] = Ref(OldValue[key[t]], TRUE)

(* exclusive() has not begun before its phase, and runs once at a time. *)
OneExclusive ==
    /\ phase # "exclusive" => settled = {}
    /\ \A t, u \in Threads : op[t] = "exclusive" /\ op[u] = "exclusive" => t = u

(* The only null value_ref is the one without a flag; an empty bucket has it. *)
NullUnflagged ==
    /\ \A b \in Buckets : bv[b].ptr = Nil \/ bk[b] = Nil => bv[b] = NullRef
    /\ \A t \in Threads : prev[t].ptr = Nil => prev[t] = NullRef

ThreadInv == (\A t \in Threads : Local(t)) /\ OneExclusive /\ NullUnflagged

(* The variables that a thread owns. *)
SameThread(u) ==
    /\ pc'[u] = pc[u] /\ op'[u] = op[u] /\ key'[u] = key[u] /\ ref'[u] = ref[u]
    /\ prev'[u] = prev[u] /\ res'[u] = res[u]

OthersSame(t) == \A u \in Threads \ {t} : SameThread(u)

LEMMA CallOthers ==
    ASSUME TypeOK, NEW t \in Threads, Call(t)
    PROVE  OthersSame(t)
<1>1. ASSUME NEW o, NEW k, NEW r, Begin(t, o, k, r) PROVE OthersSame(t)
  BY <1>1 DEF TypeOK, Begin, Goto, OthersSame, SameThread
<1> QED BY <1>1 DEF Call, find, remove, exclusive, store, store_shared

LEMMA AdvanceOthers ==
    ASSUME TypeOK, NEW t \in Threads, Advance(t) \/ NotFound(t)
    PROVE  \A u \in Threads \ {t} : pc'[u] = pc[u] /\ res'[u] = res[u]
BY DEF TypeOK, Advance, NotFound, Finish, Goto

LEMMA StepOthers ==
    ASSUME TypeOK, NEW t \in Threads, Step(t)
    PROVE  OthersSame(t)
<1> USE DEF OthersSame, SameThread, argVars
<1>1. CASE iterate_buckets(t)
  BY <1>1, AdvanceOthers DEF iterate_buckets, TypeOK, Goto
<1>2. CASE find_bucket(t)
  BY <1>2, AdvanceOthers DEF find_bucket, TypeOK, Goto
<1>3. CASE set_key(t)
  BY <1>3, AdvanceOthers DEF set_key, TypeOK, Goto
<1>4. CASE usage_incr(t) BY <1>4 DEF TypeOK, usage_incr, Goto
<1>5. CASE find_value(t) BY <1>5 DEF TypeOK, find_value, Finish, Goto
<1>6. CASE set_value(t) BY <1>6 DEF TypeOK, set_value, Goto
<1>7. CASE add_value(t) BY <1>7 DEF TypeOK, add_value, Finish, Goto
<1>8. CASE replace_load(t) BY <1>8 DEF TypeOK, replace_load, ReplaceCheck, Finish, Goto
<1>9. CASE replace_value(t) BY <1>9 DEF TypeOK, replace_value, ReplaceCheck, Finish, Goto
<1>10. CASE remove_value(t) BY <1>10 DEF TypeOK, remove_value, Finish, Goto
<1>11. CASE changed_value(t) BY <1>11 DEF TypeOK, changed_value, ReleasePrev, Goto
<1>12. CASE remove_decr(t) BY <1>12 DEF TypeOK, remove_decr, Goto
<1>13. CASE remove_release(t) BY <1>13 DEF TypeOK, remove_release, ReleasePrev, Goto
<1>14. CASE exclusive_value(t) BY <1>14 DEF TypeOK, exclusive_value, Finish, Goto
<1>15. CASE exclusive_release(t) BY <1>15 DEF TypeOK, exclusive_release, Finish, Goto
<1>16. CASE return(t) BY <1>16 DEF TypeOK, return, Goto
<1> QED BY <1>1, <1>2, <1>3, <1>4, <1>5, <1>6, <1>7, <1>8, <1>9, <1>10, <1>11,
           <1>12, <1>13, <1>14, <1>15, <1>16 DEF Step

(* No step of an operation touches the phase or, but for exclusive(), settled. *)
LEMMA StepPhase ==
    ASSUME NEW t \in Threads, Step(t)
    PROVE  phase' = phase /\ settled' = settled
BY DEF Step, iterate_buckets, find_bucket, set_key, usage_incr, find_value, set_value,
       add_value, replace_load, replace_value, remove_value, changed_value, remove_decr,
       remove_release, exclusive_value, exclusive_release, return, phaseVars

LEMMA OtherLocal ==
    ASSUME NEW u \in Threads, Local(u), SameThread(u), phase' = phase,
           settled \subseteq settled'
    PROVE  Local(u)'
BY DEF Local, SameThread, Done

(* Null pointers carry no flag. *)
LEMMA NullRefs ==
    /\ NullRef.ptr = Nil /\ NullRef.shared = FALSE /\ Refused.ok = FALSE
    /\ \A p, s : Ref(p, s).ptr = p /\ Ref(p, s).shared = s
    /\ \A r \in Refs : r = Ref(r.ptr, r.shared)
BY DEF NullRef, Ref, Refs, Refused, Result

LEMMA BeginLocal ==
    ASSUME TypeOK, NEW t \in Threads, NEW o \in Ops, NEW k \in Keys, NEW r \in Refs,
           Begin(t, o, k, r), Local(t),
           o \in {"find", "remove"} => r = NullRef,
           o = "replace" => ~r.shared,
           o = "exclusive" => phase = "exclusive" /\ k \in settled' /\ r = Ref(OldValue[k], TRUE),
           o \in Storers /\ r.shared =>
               phase # "exclusive" /\ k \in OldKeys /\ r = Ref(OldValue[k], TRUE)
    PROVE  Local(t)'
<1>1. /\ pc[t] = "idle" /\ pc'[t] = "iterate" /\ op'[t] = o /\ key'[t] = k /\ ref'[t] = r
      /\ res' = res /\ phase' = phase
  BY DEF TypeOK, Begin, At, Goto
<1>2. res[t] = Refused BY <1>1 DEF Local, Done
<1> QED BY <1>1, <1>2 DEF Local, Done

LEMMA CallLocal ==
    ASSUME TypeOK, ThreadInv, NEW t \in Threads, Call(t)
    PROVE  Local(t)' /\ phase' = phase /\ settled \subseteq settled'
<1> USE DEF ThreadInv
<1>1. CASE find(t)
  <2>1. PICK k \in Keys : Begin(t, "find", k, NullRef) BY <1>1 DEF find
  <2>2. Local(t)' BY <2>1, BeginLocal, NullRefIsRef DEF Ops, Finders, Storers
  <2> QED BY <1>1, <2>1, <2>2 DEF find, Begin
<1>2. CASE remove(t)
  <2>1. PICK k \in Keys : Begin(t, "remove", k, NullRef) BY <1>2 DEF remove
  <2>2. Local(t)' BY <2>1, BeginLocal, NullRefIsRef DEF Ops, Finders, Storers
  <2> QED BY <1>2, <2>1, <2>2 DEF remove, Begin
<1>3. CASE exclusive(t)
  <2>1. PICK k \in OldKeys \ settled :
            /\ Begin(t, "exclusive", k, Ref(OldValue[k], TRUE))
            /\ settled' = settled \cup {k}
    BY <1>3 DEF exclusive
  <2>2. k \in Keys /\ Ref(OldValue[k], TRUE) \in Refs /\ phase = "exclusive"
    BY <1>3, OldAssumption, RefIsRef DEF exclusive
  <2>3. Local(t)' BY <2>1, <2>2, BeginLocal DEF Ops, Finders, Storers
  <2> QED BY <2>1, <2>3 DEF Begin
<1>4. ASSUME NEW o \in {"set", "add", "replace"}, store(t, o)
      PROVE  Local(t)' /\ phase' = phase /\ settled \subseteq settled'
  <2>1. PICK k \in Keys, e \in fresh : Begin(t, o, k, Ref(e, FALSE)) BY <1>4 DEF store
  <2>2. Ref(e, FALSE) \in Refs /\ ~Ref(e, FALSE).shared
    BY RefIsRef, NullRefs DEF TypeOK
  <2>3. Local(t)' BY <2>1, <2>2, BeginLocal DEF Ops, Finders, Storers
  <2> QED BY <1>4, <2>1, <2>3 DEF store, Begin
<1>5. ASSUME NEW o \in {"set", "add"}, store_shared(t, o)
      PROVE  Local(t)' /\ phase' = phase /\ settled \subseteq settled'
  <2>1. PICK k \in OldKeys : Begin(t, o, k, Ref(OldValue[k], TRUE)) BY <1>5 DEF store_shared
  <2>2. k \in Keys /\ Ref(OldValue[k], TRUE) \in Refs /\ phase # "exclusive"
    BY <1>5, OldAssumption, RefIsRef DEF store_shared
  <2>3. Local(t)' BY <2>1, <2>2, BeginLocal DEF Ops, Finders, Storers
  <2> QED BY <1>5, <2>1, <2>3 DEF store_shared, Begin
<1> QED BY <1>1, <1>2, <1>3, <1>4, <1>5 DEF Call

LEMMA WalkLocal ==
    ASSUME TypeOK, NEW t \in Threads, Local(t),
           iterate_buckets(t) \/ find_bucket(t) \/ set_key(t) \/ usage_incr(t)
    PROVE  Local(t)'
<1>1. ASSUME pc[t] \in {"iterate", "action"}, UNCHANGED <<op, key, ref, phase, settled, prev>>,
             Advance(t) \/ NotFound(t)
      PROVE  Local(t)'
  <2>1. \/ pc'[t] = "iterate" /\ res'[t] = res[t]
        \/ pc'[t] = "return"
        \/ op[t] = "exclusive" /\ pc'[t] = "release" /\ res'[t] = res[t]
    BY <1>1 DEF TypeOK, Advance, NotFound, Finish, Goto
  <2>2. res[t] = Refused BY <1>1 DEF Local, Done
  <2> QED BY <1>1, <2>1, <2>2 DEF Local, Done
<1>2. ASSUME NEW p \in {"action", "usage", "value"}, Goto(t, p),
             pc[t] \in {"iterate", "action", "usage"}, p = "usage" => op[t] \in Storers,
             UNCHANGED <<op, key, ref, phase, settled, prev, res>>
      PROVE  Local(t)'
  BY <1>2 DEF TypeOK, Local, Done, Goto
<1>3. CASE iterate_buckets(t)
  BY <1>1, <1>2, <1>3 DEF iterate_buckets, At, argVars, phaseVars
<1>4. CASE find_bucket(t)
  BY <1>1, <1>2, <1>4 DEF find_bucket, At, argVars, phaseVars
<1>5. CASE set_key(t)
  BY <1>1, <1>2, <1>5 DEF set_key, At, argVars, phaseVars
<1>6. CASE usage_incr(t)
  BY <1>2, <1>6 DEF usage_incr, At, argVars, phaseVars
<1> QED BY <1>3, <1>4, <1>5, <1>6

LEMMA ValueLocal ==
    ASSUME TypeOK, NEW t \in Threads, Local(t),
           \/ find_value(t) \/ set_value(t) \/ add_value(t)
           \/ replace_load(t) \/ replace_value(t)
           \/ remove_value(t) \/ exclusive_value(t)
    PROVE  Local(t)'
<1> USE DEF Done
<1>1. \A c : Result(TRUE, c).ok = TRUE BY DEF Result
<1>2. UNCHANGED <<op, key, ref, phase, settled>>
  BY DEF find_value, set_value, add_value, replace_load, replace_value, remove_value,
         exclusive_value, argVars, phaseVars
<1>3. /\ op[t] = "exclusive" =>
             phase = "exclusive" /\ key[t] \in settled /\ ref[t] = Ref(OldValue[key[t]], TRUE)
      /\ op[t] \in Storers /\ ref[t].shared =>
             /\ phase # "exclusive" /\ key[t] \in OldKeys
             /\ ref[t] = Ref(OldValue[key[t]], TRUE)
      /\ op[t] \in {"find", "remove"} => ref[t] = NullRef
      /\ op[t] = "replace" => ~ref[t].shared
      /\ ~Done(t) => res[t] = Refused
  BY DEF Local
<1>4. SUFFICES /\ \/ pc'[t] = "return"
                  \/ pc'[t] = "cas" /\ op[t] = "replace" /\ prev'[t] # NullRef /\ res'[t] = res[t]
                  \/ pc'[t] = "changed" /\ op[t] \in {"set", "add", "replace"} /\ res'[t].ok
                  \/ pc'[t] = "decr" /\ op[t] = "remove" /\ prev'[t] # NullRef
                  \/ pc'[t] = "release" /\ op[t] = "exclusive" /\ res'[t] = res[t]
               /\ pc[t] \in {"value", "cas"}
  BY <1>2, <1>3 DEF Local
<1>5. CASE find_value(t) BY <1>5 DEF TypeOK, find_value, At, Finish, Goto
<1>6. CASE set_value(t)
  <2>1. res'[t] = Result(TRUE, Nil) BY <1>6 DEF TypeOK, set_value
  <2> QED BY <1>1, <1>6, <2>1 DEF TypeOK, set_value, At, Goto
<1>7. CASE add_value(t)
  <2>1. CASE res' = [res EXCEPT ![t] = Result(TRUE, ref[t].ptr)] /\ Goto(t, "changed")
    <3>1. res'[t] = Result(TRUE, ref[t].ptr) BY <2>1 DEF TypeOK
    <3> QED BY <1>1, <1>7, <2>1, <3>1 DEF TypeOK, add_value, At, Goto
  <2>2. CASE Finish(t, Result(FALSE, bv[Slot(t)].ptr))
    BY <1>7, <2>2 DEF TypeOK, add_value, At, Finish, Goto
  <2> QED BY <1>7, <2>1, <2>2 DEF add_value
<1>8. CASE replace_load(t)
  BY <1>8 DEF TypeOK, replace_load, ReplaceCheck, At, Finish, Goto
<1>9. CASE replace_value(t)
  <2>1. pc[t] = "cas" /\ op[t] = "replace" BY <1>9 DEF Local, replace_value, At
  <2>2. CASE res' = [res EXCEPT ![t] = Result(TRUE, Nil)] /\ Goto(t, "changed")
    <3>1. res'[t] = Result(TRUE, Nil) BY <2>2 DEF TypeOK
    <3> QED BY <1>1, <2>1, <2>2, <3>1 DEF TypeOK, Goto
  <2>3. CASE ReplaceCheck(t, bv[Slot(t)])
    BY <2>1, <2>3 DEF TypeOK, ReplaceCheck, Finish, Goto
  <2> QED BY <1>9, <2>2, <2>3 DEF replace_value
<1>10. CASE remove_value(t) BY <1>10 DEF TypeOK, remove_value, At, Finish, Goto
<1>11. CASE exclusive_value(t) BY <1>11 DEF TypeOK, exclusive_value, At, Finish, Goto
<1> QED BY <1>5, <1>6, <1>7, <1>8, <1>9, <1>10, <1>11

LEMMA ReleaseLocal ==
    ASSUME TypeOK, NEW t \in Threads, Local(t),
           \/ changed_value(t) \/ remove_decr(t) \/ remove_release(t)
           \/ exclusive_release(t) \/ return(t)
    PROVE  Local(t)'
<1> USE DEF Done
<1>1. CASE changed_value(t)
  BY <1>1 DEF TypeOK, Local, changed_value, At, ReleasePrev, Goto, argVars, phaseVars
<1>2. CASE remove_decr(t)
  BY <1>2 DEF TypeOK, Local, remove_decr, At, Goto, argVars, phaseVars
<1>3. CASE remove_release(t)
  BY <1>3 DEF TypeOK, Local, remove_release, At, ReleasePrev, Goto, argVars, phaseVars
<1>4. CASE exclusive_release(t)
  BY <1>4 DEF TypeOK, Local, exclusive_release, At, Finish, Goto, argVars, phaseVars
<1>5. CASE return(t)
  BY <1>5, NullRefs DEF TypeOK, Local, return, Goto, phaseVars, Storers
<1> QED BY <1>1, <1>2, <1>3, <1>4, <1>5

LEMMA StepLocal ==
    ASSUME TypeOK, NEW t \in Threads, Local(t), Step(t)
    PROVE  Local(t)'
BY WalkLocal, ValueLocal, ReleaseLocal DEF Step

(* Every value_ref that a step writes is null without a flag, or an entry. *)
LEMMA NullUnflaggedKept ==
    ASSUME TypeOK, WalkInv, ThreadInv, NEW t \in Threads, Step(t)
    PROVE  NullUnflagged'
<1> DEFINE Bucket(b) == (bv'[b].ptr = Nil \/ bk'[b] = Nil) => bv'[b] = NullRef
           Thread(u) == prev'[u].ptr = Nil => prev'[u] = NullRef
<1> SUFFICES (\A b \in Buckets : Bucket(b)) /\ (\A u \in Threads : Thread(u))
  BY DEF NullUnflagged
<1> USE DEF ThreadInv, NullUnflagged
<1>1. Slot(t) \in Buckets /\ Slot(t)' = Probe[key'[t]][j'[t]] BY SlotIsBucket DEF Slot
<1>2. CASE UNCHANGED <<bk, bv, prev>> BY <1>2
<1>3. CASE iterate_buckets(t) \/ find_bucket(t) \/ usage_incr(t) \/ find_value(t)
           \/ changed_value(t) \/ remove_decr(t) \/ remove_release(t) \/ exclusive_release(t)
  BY <1>2, <1>3 DEF iterate_buckets, find_bucket, usage_incr, find_value, changed_value,
                    remove_decr, remove_release, exclusive_release, tableVars
<1>4. CASE set_key(t)
  <2>1. \A b \in Buckets : bk'[b] = bk[b] \/ (bk[b] = Nil /\ bk'[b] # Nil)
    BY <1>1, <1>4, NilAssumption DEF TypeOK, set_key
  <2> QED BY <1>4, <2>1 DEF set_key
<1>5. CASE return(t)
  BY <1>5, NullRefs DEF return, TypeOK, tableVars
<1>6. CASE replace_load(t)
  BY <1>1, <1>6 DEF replace_load, ReplaceCheck, TypeOK, tableVars
<1>7. ASSUME NEW r, bv' = [bv EXCEPT ![Slot(t)] = r], bk' = bk, bk[Slot(t)] # Nil,
             r.ptr = Nil => r = NullRef,
             prev' = prev \/ prev' = [prev EXCEPT ![t] = bv[Slot(t)]]
      PROVE  (\A b \in Buckets : Bucket(b)) /\ (\A u \in Threads : Thread(u))
  BY <1>1, <1>7 DEF TypeOK
<1>8. ASSUME pc[t] \in {"value", "cas"} PROVE bk[Slot(t)] # Nil
  BY <1>8, NilAssumption DEF TypeOK, WalkInv, AtOwnBucket
<1>9. ASSUME op[t] \in {"set", "add", "replace"} PROVE ref[t].ptr # Nil
  BY <1>9, NilAssumption DEF TypeOK
<1>10. CASE set_value(t)
  BY <1>7, <1>8, <1>9, <1>10 DEF set_value, At
<1>11. CASE add_value(t)
  <2>1. CASE bv[Slot(t)] = NullRef
    BY <1>7, <1>8, <1>9, <1>11, <2>1 DEF add_value, At
  <2> QED BY <1>2, <1>11, <2>1 DEF add_value
<1>12. CASE replace_value(t)
  <2>1. op[t] = "replace" BY <1>12 DEF Local, replace_value, At
  <2>2. CASE bv[Slot(t)] = prev[t]
    BY <1>7, <1>8, <1>9, <1>12, <2>1, <2>2 DEF replace_value, At
  <2>3. CASE bv[Slot(t)] # prev[t]
    BY <1>1, <1>12, <2>3 DEF TypeOK, replace_value, ReplaceCheck
  <2> QED BY <2>2, <2>3
<1>13. CASE remove_value(t)
  BY <1>7, <1>8, <1>13 DEF remove_value, At
<1>14. CASE exclusive_value(t)
  <2>1. CASE bv' = bv BY <1>2, <1>14, <2>1 DEF exclusive_value
  <2>2. CASE ref[t].ptr # Nil /\ bv' = [bv EXCEPT ![Slot(t)] = Ref(ref[t].ptr, FALSE)]
    BY <1>7, <1>8, <1>14, <2>2, NullRefs, ZenonT(40) DEF exclusive_value, At
  <2> QED BY <1>14, <2>1, <2>2 DEF exclusive_value
<1> QED BY <1>3, <1>4, <1>5, <1>6, <1>10, <1>11, <1>12, <1>13, <1>14 DEF Step

LEMMA OneExclusiveKept ==
    ASSUME TypeOK, ThreadInv, NEW t \in Threads, Call(t) \/ Step(t)
    PROVE  OneExclusive'
<1> USE DEF ThreadInv
<1>1. OthersSame(t) BY CallOthers, StepOthers
<1>2. CASE Step(t)
  <2>1. op'[t] = "exclusive" => op[t] = "exclusive"
    BY <1>2 DEF TypeOK, Step, iterate_buckets, find_bucket, set_key, usage_incr, find_value,
        set_value, add_value, replace_load, replace_value, remove_value, changed_value,
        remove_decr, remove_release, exclusive_value, exclusive_release, return, argVars
  <2>2. \A u \in Threads : op'[u] = "exclusive" => op[u] = "exclusive"
    BY <1>1, <2>1 DEF OthersSame, SameThread
  <2> QED BY <1>2, <2>2, StepPhase DEF OneExclusive
<1>3. CASE exclusive(t)
  <2>1. phase' = "exclusive" BY <1>3 DEF exclusive, Begin
  <2>2. \A u \in Threads : op[u] # "exclusive" BY <1>3 DEF exclusive, Local
  <2>3. \A u \in Threads \ {t} : op'[u] # "exclusive"
    BY <1>1, <2>2 DEF OthersSame, SameThread
  <2> QED BY <2>1, <2>3 DEF OneExclusive
<1>4. ASSUME NEW o \in Ops, NEW k, NEW r, o # "exclusive", Begin(t, o, k, r), settled' = settled
      PROVE  OneExclusive'
  <2>1. op'[t] # "exclusive" /\ phase' = phase BY <1>4 DEF TypeOK, Begin
  <2>2. \A u \in Threads : op'[u] = "exclusive" => op[u] = "exclusive"
    BY <1>1, <2>1 DEF OthersSame, SameThread
  <2> QED BY <1>4, <2>1, <2>2 DEF OneExclusive
<1>5. CASE Call(t) /\ ~exclusive(t)
  BY <1>4, <1>5 DEF Call, find, remove, store, store_shared, Ops, Finders, Storers
<1> QED BY <1>2, <1>3, <1>5

LEMMA ThreadInvInductive ==
    ASSUME TypeOK, WalkInv, ThreadInv, [Next]_vars
    PROVE  ThreadInv'
<1> USE DEF ThreadInv
<1>1. ASSUME NEW t \in Threads, Call(t) PROVE ThreadInv'
  <2>1. Local(t)' /\ phase' = phase /\ settled \subseteq settled' BY <1>1, CallLocal
  <2>2. \A u \in Threads \ {t} : Local(u)'
    BY <1>1, <2>1, CallOthers, OtherLocal DEF OthersSame
  <2>3. UNCHANGED <<bk, bv, prev>>
    BY <1>1 DEF Call, find, remove, exclusive, store, store_shared, Begin, tableVars
  <2>4. NullUnflagged' BY <2>3 DEF NullUnflagged
  <2> QED BY <1>1, <2>1, <2>2, <2>4, OneExclusiveKept
<1>2. ASSUME NEW t \in Threads, Step(t) PROVE ThreadInv'
  <2>1. \A u \in Threads \ {t} : Local(u)'
    BY <1>2, StepOthers, StepPhase, OtherLocal DEF OthersSame
  <2> QED BY <1>2, <2>1, StepLocal, OneExclusiveKept, NullUnflaggedKept
<1>3. ASSUME UNCHANGED <<tableVars, pc, argVars, prev, res, settled>>,
             phase' = "exclusive" => (phase = "exclusive" \/ \A t \in Threads : pc[t] # "idle" => ~ref[t].shared),
             phase = "exclusive" => phase' = "exclusive"
      PROVE  ThreadInv'
  <2>1. ASSUME NEW u \in Threads PROVE Local(u)'
    <3>1. /\ op'[u] = op[u] /\ pc'[u] = pc[u] /\ key'[u] = key[u] /\ ref'[u] = ref[u]
          /\ prev'[u] = prev[u] /\ res'[u] = res[u] /\ settled' = settled
      BY <1>3 DEF argVars
    <3>2. op[u] = "exclusive" => phase' = "exclusive" BY <1>3 DEF Local
    <3>3. op[u] \in Storers /\ ref[u].shared => phase' # "exclusive"
      BY <1>3 DEF Local, Storers
    <3> QED BY <3>1, <3>2, <3>3 DEF Local, Done
  <2>2. OneExclusive' /\ NullUnflagged'
    BY <1>3 DEF OneExclusive, NullUnflagged, tableVars, argVars
  <2> QED BY <2>1, <2>2
<1>4. CASE swap BY <1>3, <1>4 DEF swap, heapVars
<1>5. CASE flushed BY <1>3, <1>5 DEF flushed
<1>6. CASE UNCHANGED vars BY <1>3, <1>6 DEF vars, phaseVars
<1> QED BY <1>1, <1>2, <1>4, <1>5, <1>6 DEF Next

(***************************************************************************)
(* What an operation brings and what it has done so far are what its place *)
(* in the code says, and operations that share entries with the old table  *)
(* and calls of exclusive() never overlap.                                 *)
(***************************************************************************)
THEOREM ThreadsCorrect == Spec => []ThreadInv
<1>1. Init => ThreadInv
  BY NullRefs, AnyKeyIsKey DEF Init, ThreadInv, Local, Done, OneExclusive, NullUnflagged, Storers
<1>2. TypeOK /\ WalkInv /\ ThreadInv /\ [Next]_vars => ThreadInv' BY ThreadInvInductive
<1> QED BY <1>1, <1>2, TypeCorrect, WalksCorrect, PTL DEF Spec

-----------------------------------------------------------------------------
(***************************************************************************)
(* What one step may write into the buckets.                               *)
(***************************************************************************)
ClaimsBucket(t) ==
    /\ pc[t] = "action" /\ op[t] \in Storers /\ bk[Slot(t)] = Nil
    /\ bk' = [bk EXCEPT ![Slot(t)] = key[t]]
    /\ oldkey' = IF ref[t].shared THEN oldkey \cup {Slot(t)} ELSE oldkey
    /\ bv' = bv

WritesValue(t) ==
    /\ pc[t] \in {"value", "cas"}
    /\ UNCHANGED <<bk, oldkey>>
    /\ \/ op[t] \in {"set", "add", "replace"} /\ bv' = [bv EXCEPT ![Slot(t)] = ref[t]]
       \/ bv' = [bv EXCEPT ![Slot(t)] = NullRef]

(* Only the steps of exclusive() do more to the old table's objects. *)
LEMMA StepWrites ==
    ASSUME TypeOK, NEW t \in Threads, Local(t), Step(t), op[t] # "exclusive"
    PROVE  /\ UNCHANGED <<bk, bv, oldkey>> \/ ClaimsBucket(t) \/ WritesValue(t)
           /\ freedkeys' = freedkeys /\ op'[t] # "exclusive"
<1>1. freedkeys' = freedkeys
  BY DEF Step, iterate_buckets, find_bucket, set_key, usage_incr, find_value,
         set_value, add_value, replace_load, replace_value, remove_value, changed_value,
         remove_decr, remove_release, exclusive_value, exclusive_release, return, Advance,
         NotFound, heapVars
<1>2. op'[t] # "exclusive"
  BY DEF TypeOK, Step, iterate_buckets, find_bucket, set_key, usage_incr, find_value,
         set_value, add_value, replace_load, replace_value, remove_value, changed_value,
         remove_decr, remove_release, exclusive_value, exclusive_release, return, argVars
<1>3. CASE iterate_buckets(t) \/ find_bucket(t) \/ usage_incr(t) \/ find_value(t)
           \/ replace_load(t) \/ changed_value(t) \/ remove_decr(t) \/ remove_release(t)
           \/ return(t)
  BY <1>1, <1>2, <1>3 DEF iterate_buckets, find_bucket, usage_incr, find_value, replace_load,
         changed_value, remove_decr, remove_release, return, tableVars
<1>4. CASE set_key(t) BY <1>1, <1>2, <1>4 DEF set_key, At, ClaimsBucket
<1>5. CASE set_value(t) BY <1>1, <1>2, <1>5 DEF set_value, At, WritesValue
<1>6. CASE add_value(t) BY <1>1, <1>2, <1>6 DEF add_value, At, WritesValue
<1>7. CASE replace_value(t) BY <1>1, <1>2, <1>7 DEF Local, replace_value, At, WritesValue
<1>8. CASE remove_value(t) BY <1>1, <1>2, <1>8 DEF Local, remove_value, At, WritesValue
<1> QED BY <1>3, <1>4, <1>5, <1>6, <1>7, <1>8
        DEF Step, exclusive_value, exclusive_release

(* A walk that ends without a bucket has shown that its key is in none. *)
LEMMA WalkEnds ==
    ASSUME TypeOK, WalkInv, NEW t \in Threads, pc[t] \in {"iterate", "action"},
           bk[Slot(t)] = Nil \/ (j[t] = Size /\ bk[Slot(t)] # key[t])
    PROVE  \A b \in Buckets : bk[b] # key[t]
<1> SUFFICES ASSUME NEW b \in Buckets, bk[b] = key[t] PROVE FALSE
  OBVIOUS
<1>1. key[t] \in Keys /\ j[t] \in 1..Size /\ key[t] # Nil BY NilAssumption DEF TypeOK
<1>2. PICK i \in 1..Size : Probe[key[t]][i] = b /\ Passed(key[t], i)
  BY <1>1 DEF WalkInv, KeysReachable
<1>3. Passed(key[t], j[t]) BY DEF WalkInv, WalksPassed
<1>4. ~ i < j[t]
  <2> SUFFICES ASSUME i < j[t] PROVE FALSE OBVIOUS
  <2>1. i \in 1..(j[t] - 1) BY <1>1, SizeAssumption
  <2> QED BY <1>2, <1>3, <2>1 DEF Passed
<1>5. i # j[t] BY <1>1, <1>2 DEF Slot
<1>6. j[t] < i /\ j[t] # Size BY <1>1, <1>4, <1>5, SizeAssumption
<1>7. j[t] \in 1..(i - 1) BY <1>1, <1>6, SizeAssumption
<1>8. bk[Slot(t)] # Nil BY <1>2, <1>7 DEF Passed, Slot
<1> QED BY <1>6, <1>8

(* The two ways in which a walk ends without a bucket. *)
LEMMA NotFoundAbsent ==
    ASSUME TypeOK, WalkInv, NEW t \in Threads, iterate_buckets(t) \/ find_bucket(t) \/ set_key(t),
           pc'[t] \in {"release", "return"}
    PROVE  /\ NotFound(t) /\ \A b \in Buckets : bk[b] # key[t]
           /\ UNCHANGED <<bk, bv, oldkey>>
<1>1. pc[t] \in {"iterate", "action"} /\ t \in DOMAIN pc
  BY DEF iterate_buckets, find_bucket, set_key, At, TypeOK
<1>2. ASSUME Advance(t) PROVE j[t] = Size /\ NotFound(t)
  <2>1. j[t] \in 1..Size BY DEF TypeOK
  <2>2. ~(j[t] < Size) BY <1>1, <1>2 DEF Advance, Goto
  <2> QED BY <1>2, <2>1, <2>2, SizeAssumption DEF Advance
<1>3. ASSUME NEW p, Goto(t, p) PROVE pc'[t] = p BY <1>1, <1>3 DEF Goto
<1>4. CASE iterate_buckets(t)
  <2>1. bk[Slot(t)] \notin {Nil, key[t]} /\ Advance(t) BY <1>3, <1>4 DEF iterate_buckets
  <2> QED BY <1>1, <1>2, <1>4, <2>1, WalkEnds DEF iterate_buckets, tableVars
<1>5. CASE find_bucket(t)
  <2>1. \/ bk[Slot(t)] \notin {Nil, key[t]} /\ Advance(t)
        \/ bk[Slot(t)] = Nil /\ NotFound(t)
    BY <1>3, <1>5 DEF find_bucket
  <2> QED BY <1>1, <1>2, <1>5, <2>1, WalkEnds DEF find_bucket, tableVars
<1>6. CASE set_key(t)
  <2>1. bk[Slot(t)] \notin {Nil, key[t]} /\ Advance(t) /\ UNCHANGED <<bk, oldkey>>
    BY <1>3, <1>6 DEF set_key
  <2> QED BY <1>1, <1>2, <1>6, <2>1, WalkEnds DEF set_key
<1> QED BY <1>4, <1>5, <1>6

-----------------------------------------------------------------------------
(***************************************************************************)
(* The objects of the old table.  A shared value is the one the old table  *)
(* has for the key of the bucket, and the old table has it still; when     *)
(* exclusive() is about to release it, no bucket shares it any more.       *)
(***************************************************************************)
SharedInv ==
    /\ \A b \in Buckets : bv[b].shared =>
           /\ bk[b] \in OldKeys /\ bv[b] = Ref(OldValue[bk[b]], TRUE)
           /\ InOldTable(bk[b])
    /\ \A t \in Threads : op[t] = "exclusive" /\ pc[t] = "release" =>
           \A b \in Buckets : bk[b] = key[t] => ~bv[b].shared

(* exclusive() has not yet decided about the key object of k. *)
Undecided(k) ==
    \E t \in Threads :
        op[t] = "exclusive" /\ key[t] = k /\ pc[t] \in {"iterate", "action", "value"}

(* exclusive() releases the key objects that are in no bucket, and no others. *)
OldKeyInv ==
    /\ \A b \in oldkey : bk[b] # Nil
    /\ freedkeys \subseteq settled
    /\ \A k \in settled :
           IF Undecided(k) THEN k \notin freedkeys
           ELSE k \in freedkeys <=> \A b \in oldkey : bk[b] # k

OldInv == SharedInv /\ OldKeyInv

(* InOldTable(k) and Undecided(k) after the step, for a k that is not primed. *)
InOldTableNext(k) ==
    \/ k \notin settled'
    \/ \E t \in Threads :
           /\ op'[t] = "exclusive" /\ key'[t] = k
           /\ pc'[t] \in {"iterate", "action", "value", "release"}

UndecidedNext(k) ==
    \E t \in Threads :
        op'[t] = "exclusive" /\ key'[t] = k /\ pc'[t] \in {"iterate", "action", "value"}

(* The invariant after a step in these terms. *)
LEMMA OldInvNext ==
    /\ SharedInv' <=>
           /\ \A b \in Buckets : bv'[b].shared =>
                  /\ bk'[b] \in OldKeys /\ bv'[b] = Ref(OldValue[bk'[b]], TRUE)
                  /\ InOldTableNext(bk'[b])
           /\ \A t \in Threads : op'[t] = "exclusive" /\ pc'[t] = "release" =>
                  \A b \in Buckets : bk'[b] = key'[t] => ~bv'[b].shared
    /\ OldKeyInv' <=>
           /\ \A b \in oldkey' : bk'[b] # Nil
           /\ freedkeys' \subseteq settled'
           /\ \A k \in settled' :
                  IF UndecidedNext(k) THEN k \notin freedkeys'
                  ELSE k \in freedkeys' <=> \A b \in oldkey' : bk'[b] # k
BY DEF SharedInv, OldKeyInv, InOldTable, InOldTableNext, Undecided, UndecidedNext

(* A step outside exclusive() changes nothing about the calls of exclusive(). *)
LEMMA ExclusiveSame ==
    ASSUME OneExclusive, NEW t \in Threads, OthersSame(t), op[t] # "exclusive", op'[t] # "exclusive",
           settled' = settled
    PROVE  /\ \A k : InOldTableNext(k) <=> InOldTable(k)
           /\ \A k : UndecidedNext(k) <=> Undecided(k)
           /\ \A u \in Threads : op'[u] = "exclusive" => SameThread(u) /\ op[u] = "exclusive"
BY DEF InOldTable, Undecided, InOldTableNext, UndecidedNext, OthersSame, SameThread

LEMMA OldInvQuiet ==
    ASSUME TypeOK, TypeOK', WalkInv, OneBucketPerKey, ThreadInv, OldInv,
           NEW t \in Threads, OthersSame(t),
           op[t] # "exclusive", op'[t] # "exclusive", settled' = settled, freedkeys' = freedkeys,
           UNCHANGED <<bk, bv, oldkey>> \/ ClaimsBucket(t) \/ WritesValue(t)
    PROVE  OldInv'
<1> USE OldInvNext DEF ThreadInv
<1>1. /\ \A k : InOldTableNext(k) <=> InOldTable(k)
      /\ \A k : UndecidedNext(k) <=> Undecided(k)
      /\ \A u \in Threads : op'[u] = "exclusive" => SameThread(u) /\ op[u] = "exclusive"
  BY ExclusiveSame
<1> DEFINE Shares(b) ==
               bv[b].shared => bk[b] \in OldKeys /\ bv[b] = Ref(OldValue[bk[b]], TRUE)
                               /\ InOldTable(bk[b])
           Settles(u) ==
               op[u] = "exclusive" /\ pc[u] = "release" =>
                   \A b \in Buckets : bk[b] = key[u] => ~bv[b].shared
<1>2. (\A b \in Buckets : Shares(b)) /\ (\A u \in Threads : Settles(u))
  BY DEF OldInv, SharedInv
<1>3. CASE UNCHANGED <<bk, bv, oldkey>>
  <2>1. SharedInv'
    <3>1. ASSUME NEW b \in Buckets, bv'[b].shared
          PROVE  /\ bk'[b] \in OldKeys /\ bv'[b] = Ref(OldValue[bk'[b]], TRUE)
                 /\ InOldTableNext(bk'[b])
      BY <1>1, <1>3, <1>2, <3>1
    <3>2. ASSUME NEW u \in Threads, op'[u] = "exclusive", pc'[u] = "release",
                 NEW b \in Buckets, bk'[b] = key'[u]
          PROVE  ~bv'[b].shared
      BY <1>1, <1>3, <1>2, <3>2 DEF SameThread
    <3> QED BY <3>1, <3>2
  <2>2. OldKeyInv' BY <1>1, <1>3 DEF OldInv, OldKeyInv
  <2> QED BY <2>1, <2>2 DEF OldInv
<1>4. CASE ClaimsBucket(t)
  <2>1. /\ Slot(t) \in Buckets /\ key[t] \in Keys /\ key[t] # Nil
        /\ bk[Slot(t)] = Nil /\ bv[Slot(t)] = NullRef /\ bv' = bv
        /\ bk'[Slot(t)] = key[t] /\ \A b \in Buckets \ {Slot(t)} : bk'[b] = bk[b]
    BY <1>4, SlotIsBucket, NilAssumption DEF ClaimsBucket, TypeOK, NullUnflagged
  <2>2. ~bv[Slot(t)].shared BY <2>1, NullRefs
  <2>3. SharedInv'
    <3>1. ASSUME NEW b \in Buckets, bv'[b].shared
          PROVE  /\ bk'[b] \in OldKeys /\ bv'[b] = Ref(OldValue[bk'[b]], TRUE)
                 /\ InOldTableNext(bk'[b])
      BY <1>1, <1>2, <2>1, <2>2, <3>1
    <3>2. ASSUME NEW u \in Threads, op'[u] = "exclusive", pc'[u] = "release",
                 NEW b \in Buckets, bk'[b] = key'[u]
          PROVE  ~bv'[b].shared
      BY <1>1, <1>2, <2>1, <2>2, <3>2 DEF SameThread
    <3> QED BY <3>1, <3>2
  <2>4. Slot(t) \notin oldkey /\ oldkey \subseteq Buckets BY <2>1 DEF OldInv, OldKeyInv, TypeOK
  <2>5. CASE ~ref[t].shared
    <3>1. oldkey' = oldkey BY <1>4, <2>5 DEF ClaimsBucket
    <3>2. \A b \in oldkey : bk'[b] = bk[b] BY <2>1, <2>4
    <3> QED BY <1>1, <2>3, <3>1, <3>2 DEF OldInv, OldKeyInv
  <2>6. CASE ref[t].shared
    \* Entries are only shared before exclusive() begins.
    <3>1. settled = {} BY <1>4, <2>6 DEF ClaimsBucket, Local, OneExclusive
    <3>2. oldkey' = oldkey \cup {Slot(t)} BY <1>4, <2>6 DEF ClaimsBucket
    <3>3. \A b \in oldkey' : bk'[b] # Nil
      BY <2>1, <2>4, <3>2 DEF OldInv, OldKeyInv
    <3> QED BY <2>3, <3>1, <3>3 DEF OldInv, OldKeyInv
  <2> QED BY <2>5, <2>6
<1>5. CASE WritesValue(t)
  <2>1. OldKeyInv' BY <1>1, <1>5 DEF OldInv, OldKeyInv, WritesValue
  <2>2. Slot(t) \in Buckets /\ bk[Slot(t)] = key[t] /\ bk' = bk
    BY <1>5, SlotIsBucket DEF WritesValue, WalkInv, AtOwnBucket
  <2>3. /\ \A b \in Buckets \ {Slot(t)} : bv'[b] = bv[b]
        /\ bv'[Slot(t)].shared => op[t] \in {"set", "add", "replace"} /\ bv'[Slot(t)] = ref[t]
    BY <1>5, <2>2, NullRefs DEF WritesValue, TypeOK
  <2>4. ASSUME bv'[Slot(t)].shared
        PROVE  /\ key[t] \in OldKeys /\ bv'[Slot(t)] = Ref(OldValue[key[t]], TRUE)
               /\ settled = {}
    BY <2>3, <2>4 DEF Local, OneExclusive, Storers
  <2>5. ASSUME NEW u \in Threads, op[u] = "exclusive" PROVE ~bv'[Slot(t)].shared
    <3>1. settled # {} BY <2>5 DEF Local
    <3> QED BY <2>4, <3>1
  <2>6. SharedInv'
    <3>1. ASSUME NEW b \in Buckets, bv'[b].shared
          PROVE  /\ bk'[b] \in OldKeys /\ bv'[b] = Ref(OldValue[bk'[b]], TRUE)
                 /\ InOldTableNext(bk'[b])
      <4>1. CASE b = Slot(t)
        BY <1>1, <2>2, <2>4, <3>1, <4>1 DEF InOldTable
      <4>2. CASE b # Slot(t)
        BY <1>1, <2>2, <2>3, <3>1, <4>2 DEF OldInv, SharedInv
      <4> QED BY <4>1, <4>2
    <3>2. ASSUME NEW u \in Threads, op'[u] = "exclusive", pc'[u] = "release",
                 NEW b \in Buckets, bk'[b] = key'[u]
          PROVE  ~bv'[b].shared
      BY <1>1, <2>2, <2>3, <2>5, <3>2 DEF OldInv, SharedInv, SameThread
    <3> QED BY <3>1, <3>2
  <2> QED BY <2>1, <2>6 DEF OldInv
<1> QED BY <1>3, <1>4, <1>5

(***************************************************************************)
(* A step of exclusive() for an old key k leaves the other keys alone.     *)
(***************************************************************************)
LEMMA OldInvSettles ==
    ASSUME OneExclusive, OldInv, NEW t \in Threads, op[t] = "exclusive", OthersSame(t),
           NEW k, k = key[t], op'[t] = "exclusive" => key'[t] = k,
           settled' = settled, k \in settled,
           UNCHANGED <<bk, oldkey>>,
           \A b \in Buckets : bv'[b] = bv[b] \/ ~bv'[b].shared,
           freedkeys' \in {freedkeys, freedkeys \cup {k}},
           \/ op'[t] = "exclusive" /\ pc'[t] \in {"iterate", "action", "value"}
              /\ freedkeys' = freedkeys /\ pc[t] \in {"iterate", "action"}
           \/ /\ \A b \in Buckets : bk[b] = k => ~bv'[b].shared
              /\ op'[t] = "exclusive" => pc'[t] \in {"release", "return"}
              /\ k \in freedkeys' <=> \A b \in oldkey : bk[b] # k
    PROVE  OldInv'
<1>1. \A u \in Threads : (op[u] = "exclusive" \/ op'[u] = "exclusive") => u = t
  BY DEF OneExclusive, OthersSame, SameThread
<1>2. \A l : l # k => (InOldTableNext(l) <=> InOldTable(l))
  BY <1>1 DEF InOldTable, InOldTableNext
<1>3. \A l : l # k => (UndecidedNext(l) <=> Undecided(l))
  BY <1>1 DEF Undecided, UndecidedNext
<1>4. /\ \A b \in Buckets : bv[b].shared =>
             bk[b] \in OldKeys /\ bv[b] = Ref(OldValue[bk[b]], TRUE) /\ InOldTable(bk[b])
      /\ \A l \in settled : IF Undecided(l) THEN l \notin freedkeys
                            ELSE l \in freedkeys <=> \A b \in oldkey : bk[b] # l
      /\ freedkeys \subseteq settled /\ \A b \in oldkey : bk[b] # Nil
  BY DEF OldInv, SharedInv, OldKeyInv
<1>5. SharedInv'
  <2>1. ASSUME NEW b \in Buckets, bv'[b].shared
        PROVE  /\ bk'[b] \in OldKeys /\ bv'[b] = Ref(OldValue[bk'[b]], TRUE)
               /\ InOldTableNext(bk'[b])
    <3>1. bk'[b] = bk[b] /\ bv'[b] = bv[b] BY <2>1
    <3>2. bk[b] \in OldKeys /\ bv[b] = Ref(OldValue[bk[b]], TRUE) /\ InOldTable(bk[b])
      BY <1>4, <2>1, <3>1
    <3>3. InOldTableNext(bk[b])
      <4>1. CASE bk[b] = k BY <2>1, <4>1 DEF InOldTableNext
      <4>2. CASE bk[b] # k BY <1>2, <3>2, <4>2
      <4> QED BY <4>1, <4>2
    <3> QED BY <3>1, <3>2, <3>3
  <2>2. ASSUME NEW u \in Threads, op'[u] = "exclusive", pc'[u] = "release",
               NEW b \in Buckets, bk'[b] = key'[u]
        PROVE  ~bv'[b].shared
    BY <1>1, <2>2
  <2> QED BY <2>1, <2>2, OldInvNext
<1>6. OldKeyInv'
  <2>1. ASSUME NEW l \in settled'
        PROVE  IF UndecidedNext(l) THEN l \notin freedkeys'
               ELSE l \in freedkeys' <=> \A b \in oldkey' : bk'[b] # l
    <3>1. CASE l # k
      <4>1. (l \in freedkeys' <=> l \in freedkeys) BY <3>1
      <4> QED BY <1>3, <1>4, <3>1, <4>1
    <3>2. CASE l = k /\ op'[t] = "exclusive" /\ pc'[t] \in {"iterate", "action", "value"}
      <4>1. Undecided(k) BY <3>2 DEF Undecided
      <4>2. UndecidedNext(k) /\ freedkeys' = freedkeys BY <3>2 DEF UndecidedNext
      <4> QED BY <1>4, <3>2, <4>1, <4>2
    <3>3. CASE l = k /\ (op'[t] = "exclusive" => pc'[t] \notin {"iterate", "action", "value"})
      <4>1. ~UndecidedNext(k) BY <1>1, <3>3 DEF UndecidedNext
      <4> QED BY <3>3, <4>1
    <3> QED BY <3>1, <3>2, <3>3
  <2>2. freedkeys' \subseteq settled' BY <1>4
  <2> QED BY <1>4, <2>1, <2>2, OldInvNext
<1> QED BY <1>5, <1>6 DEF OldInv

LEMMA OldInvExclusive ==
    ASSUME TypeOK, WalkInv, OneBucketPerKey, ThreadInv, OldInv,
           NEW t \in Threads, Step(t), op[t] = "exclusive"
    PROVE  OldInv'
<1> USE DEF ThreadInv
<1>1. /\ OthersSame(t) /\ settled' = settled /\ key[t] \in settled
      /\ ref[t] = Ref(OldValue[key[t]], TRUE) /\ OneExclusive
  BY StepOthers, StepPhase DEF Local
<1>2. t \in DOMAIN pc /\ Slot(t) \in Buckets BY SlotIsBucket DEF TypeOK
<1>3. ASSUME iterate_buckets(t) \/ find_bucket(t) PROVE OldInv'
  <2>1. /\ UNCHANGED <<bk, bv, oldkey, op, key>> /\ pc[t] \in {"iterate", "action"}
    BY <1>3 DEF iterate_buckets, find_bucket, At, tableVars, argVars
  <2>2. CASE pc'[t] \in {"release", "return"}
    <3>1. NotFound(t) /\ \A b \in Buckets : bk[b] # key[t] BY <1>3, <2>2, NotFoundAbsent
    <3>2. freedkeys' = freedkeys \cup {key[t]} /\ oldkey \subseteq Buckets
      BY <3>1 DEF NotFound, TypeOK
    <3> QED BY <1>1, <2>1, <2>2, <3>1, <3>2, OldInvSettles
  <2>3. CASE pc'[t] \notin {"release", "return"}
    <3>1. ~NotFound(t) BY <1>2, <2>3 DEF NotFound, Goto
    <3>2. freedkeys' = freedkeys /\ pc'[t] \in {"iterate", "action", "value"}
      BY <1>2, <1>3, <3>1 DEF iterate_buckets, find_bucket, Advance, Goto
    <3> QED BY <1>1, <2>1, <3>2, OldInvSettles
  <2> QED BY <2>2, <2>3
<1>4. ASSUME exclusive_value(t) PROVE OldInv'
  <2>1. /\ UNCHANGED <<bk, oldkey, op, key>> /\ pc[t] = "value" /\ bk[Slot(t)] = key[t]
        /\ pc'[t] \in {"release", "return"}
    BY <1>2, <1>4 DEF exclusive_value, At, Finish, Goto, argVars, WalkInv, AtOwnBucket
  <2>2. \A b \in Buckets : bk[b] = key[t] => b = Slot(t)
    BY <1>2, <2>1, NilAssumption DEF OneBucketPerKey, TypeOK
  <2>3. bv[Slot(t)].shared => bv[Slot(t)] = ref[t] /\ ref[t].ptr # Nil
    <3>1. bv[Slot(t)].shared => bv[Slot(t)] = ref[t] BY <1>1, <1>2, <2>1 DEF OldInv, SharedInv
    <3>2. bv[Slot(t)].ptr = Nil => ~bv[Slot(t)].shared
      BY <1>2, NullRefs DEF NullUnflagged
    <3> QED BY <3>1, <3>2
  <2>4. /\ ~bv'[Slot(t)].shared
        /\ \A b \in Buckets : bv'[b] = bv[b] \/ ~bv'[b].shared
    <3>1. CASE bv' = [bv EXCEPT ![Slot(t)] = Ref(ref[t].ptr, FALSE)]
      BY <1>2, <3>1, NullRefs DEF TypeOK
    <3>2. CASE bv' = bv /\ ~(ref[t].ptr # Nil /\ bv[Slot(t)] = ref[t])
      BY <2>3, <3>2
    <3> QED BY <1>4, <3>1, <3>2 DEF exclusive_value
  <2>5. key[t] \notin freedkeys
    <3>1. Undecided(key[t]) BY <1>1, <2>1 DEF Undecided
    <3> QED BY <1>1, <3>1 DEF OldInv, OldKeyInv
  <2>6. /\ freedkeys' = IF Slot(t) \in oldkey THEN freedkeys ELSE freedkeys \cup {key[t]}
        /\ oldkey \subseteq Buckets
    BY <1>4 DEF exclusive_value, TypeOK
  <2>7. key[t] \in freedkeys' <=> \A b \in oldkey : bk[b] # key[t]
    BY <2>1, <2>2, <2>5, <2>6
  <2>8. \A b \in Buckets : bk[b] = key[t] => ~bv'[b].shared BY <2>2, <2>4
  <2> QED BY <1>1, <2>1, <2>4, <2>6, <2>7, <2>8, OldInvSettles
<1>5. ASSUME exclusive_release(t) PROVE OldInv'
  <2>1. /\ UNCHANGED <<bk, bv, oldkey, op, key, freedkeys>> /\ pc[t] = "release"
        /\ pc'[t] \in {"release", "return"}
    BY <1>2, <1>5 DEF exclusive_release, At, Finish, Goto, argVars, tableVars
  <2>2. \A b \in Buckets : bk[b] = key[t] => ~bv'[b].shared
    BY <2>1 DEF OldInv, SharedInv
  <2>3. key[t] \in freedkeys' <=> \A b \in oldkey : bk[b] # key[t]
    <3>1. ~Undecided(key[t]) BY <2>1 DEF Undecided, OneExclusive
    <3> QED BY <1>1, <2>1, <3>1 DEF OldInv, OldKeyInv
  <2> QED BY <1>1, <2>1, <2>2, <2>3, OldInvSettles
<1>6. ASSUME return(t) PROVE OldInv'
  <2>1. /\ UNCHANGED <<bk, bv, oldkey, freedkeys>> /\ pc[t] = "return" /\ op'[t] = "find"
    BY <1>6 DEF return, At, tableVars, TypeOK
  <2>2. \A b \in Buckets : bk[b] = key[t] => ~bv'[b].shared
    <3>1. ~InOldTable(key[t]) BY <1>1, <2>1 DEF InOldTable, OneExclusive
    <3> QED BY <2>1, <3>1 DEF OldInv, SharedInv
  <2>3. key[t] \in freedkeys' <=> \A b \in oldkey : bk[b] # key[t]
    <3>1. ~Undecided(key[t]) BY <2>1 DEF Undecided, OneExclusive
    <3> QED BY <1>1, <2>1, <3>1 DEF OldInv, OldKeyInv
  <2> QED BY <1>1, <2>1, <2>2, <2>3, OldInvSettles
<1>7. iterate_buckets(t) \/ find_bucket(t) \/ exclusive_value(t) \/ exclusive_release(t) \/ return(t)
  BY DEF Step, Local, set_key, usage_incr, find_value, set_value, add_value, replace_load,
         replace_value, remove_value, changed_value, remove_decr, remove_release, At, Storers
<1> QED BY <1>3, <1>4, <1>5, <1>6, <1>7

(* The call of exclusive() for an old key. *)
LEMMA OldInvCallExclusive ==
    ASSUME TypeOK, ThreadInv, OldInv, NEW t \in Threads, exclusive(t)
    PROVE  OldInv'
<1>1. PICK k \in OldKeys \ settled :
          /\ Begin(t, "exclusive", k, Ref(OldValue[k], TRUE))
          /\ settled' = settled \cup {k}
  BY DEF exclusive
<1>2. /\ UNCHANGED <<bk, bv, oldkey, freedkeys>>
      /\ pc'[t] = "iterate" /\ op'[t] = "exclusive" /\ key'[t] = k
  BY <1>1 DEF Begin, Goto, tableVars, TypeOK
<1>3. OthersSame(t) BY CallOthers DEF Call
<1>4. \A u \in Threads : op[u] # "exclusive" BY DEF exclusive, ThreadInv, Local
<1>5. \A u \in Threads : op'[u] = "exclusive" => u = t
  BY <1>3, <1>4 DEF OthersSame, SameThread
<1>6. InOldTableNext(k) /\ UndecidedNext(k) BY <1>2 DEF InOldTableNext, UndecidedNext
<1>7. \A l : l # k => /\ InOldTableNext(l) <=> InOldTable(l)
                      /\ ~Undecided(l) /\ ~UndecidedNext(l)
  BY <1>1, <1>2, <1>4, <1>5 DEF InOldTable, InOldTableNext, Undecided, UndecidedNext
<1>8. /\ \A b \in Buckets : bv[b].shared =>
             bk[b] \in OldKeys /\ bv[b] = Ref(OldValue[bk[b]], TRUE) /\ InOldTable(bk[b])
      /\ \A l \in settled : IF Undecided(l) THEN l \notin freedkeys
                            ELSE l \in freedkeys <=> \A b \in oldkey : bk[b] # l
      /\ freedkeys \subseteq settled /\ \A b \in oldkey : bk[b] # Nil
  BY DEF OldInv, SharedInv, OldKeyInv
<1>9. SharedInv'
  <2>1. ASSUME NEW b \in Buckets, bv'[b].shared
        PROVE  /\ bk'[b] \in OldKeys /\ bv'[b] = Ref(OldValue[bk'[b]], TRUE)
               /\ InOldTableNext(bk'[b])
    BY <1>2, <1>6, <1>7, <1>8, <2>1
  <2>2. ASSUME NEW u \in Threads, op'[u] = "exclusive" PROVE pc'[u] # "release"
    BY <1>2, <1>5, <2>2
  <2> QED BY <2>1, <2>2, OldInvNext
<1>10. OldKeyInv'
  <2>1. ASSUME NEW l \in settled'
        PROVE  IF UndecidedNext(l) THEN l \notin freedkeys'
               ELSE l \in freedkeys' <=> \A b \in oldkey' : bk'[b] # l
    <3>1. CASE l = k BY <1>1, <1>2, <1>6, <1>8, <3>1
    <3>2. CASE l # k
      <4>1. l \in settled BY <1>1, <3>2
      <4> QED BY <1>2, <1>7, <1>8, <3>2, <4>1
    <3> QED BY <3>1, <3>2
  <2> QED BY <1>1, <1>2, <1>8, <2>1, OldInvNext
<1> QED BY <1>9, <1>10 DEF OldInv

LEMMA OldInvInductive ==
    ASSUME TypeOK, TypeOK', WalkInv, OneBucketPerKey, ThreadInv, OldInv, [Next]_vars
    PROVE  OldInv'
<1> USE DEF ThreadInv
<1>1. ASSUME NEW t \in Threads, Call(t) PROVE OldInv'
  <2>1. CASE exclusive(t) BY <2>1, OldInvCallExclusive
  <2>2. ASSUME NEW o \in Ops, NEW k, NEW r, o # "exclusive", Begin(t, o, k, r), settled' = settled
        PROVE  OldInv'
    <3>1. op[t] # "exclusive" /\ op'[t] # "exclusive" BY <2>2 DEF Begin, At, Local, TypeOK
    <3>2. UNCHANGED <<bk, bv, oldkey, freedkeys>> BY <2>2 DEF Begin, tableVars
    <3> QED BY <1>1, <2>2, <3>1, <3>2, CallOthers, OldInvQuiet
  <2> QED BY <1>1, <2>1, <2>2
          DEF Call, find, remove, store, store_shared, Ops, Finders, Storers
<1>2. ASSUME NEW t \in Threads, Step(t) PROVE OldInv'
  <2>1. CASE op[t] = "exclusive" BY <1>2, <2>1, OldInvExclusive
  <2>2. CASE op[t] # "exclusive"
    BY <1>2, <2>2, StepWrites, StepOthers, StepPhase, OldInvQuiet
  <2> QED BY <2>1, <2>2
<1>3. CASE swap \/ flushed \/ UNCHANGED vars
  <2>1. UNCHANGED <<bk, bv, oldkey, pc, op, key, freedkeys, settled>>
    BY <1>3 DEF swap, flushed, vars, tableVars, argVars, heapVars, phaseVars
  <2>2. SharedInv' BY <2>1 DEF OldInv, SharedInv, InOldTable
  <2>3. OldKeyInv' BY <2>1 DEF OldInv, OldKeyInv, Undecided
  <2> QED BY <2>2, <2>3 DEF OldInv
<1> QED BY <1>1, <1>2, <1>3 DEF Next

(***************************************************************************)
(* A value that both tables refer to is one the old table still owns, and  *)
(* exclusive() releases it only when the new table has another one.        *)
(***************************************************************************)
THEOREM OldObjectsCorrect == Spec => []OldInv
<1>1. Init => OldInv
  BY NullRefs, ZenonT(40) DEF Init, OldInv, SharedInv, OldKeyInv
<1>2. TypeOK /\ TypeOK' /\ WalkInv /\ OneBucketPerKey /\ ThreadInv /\ OldInv /\ [Next]_vars
      => OldInv'
  BY OldInvInductive
<1> QED BY <1>1, <1>2, TypeCorrect, WalksCorrect, KeysUnique, ThreadsCorrect, PTL DEF Spec

(***************************************************************************)
(* Of every old key object that exclusive() has dealt with, exactly one of *)
(* two things is true: a bucket of the new table holds it, or it was       *)
(* released.                                                               *)
(***************************************************************************)
THEOREM OldKeyOwnedOnceCorrect == Spec => []OldKeyOwnedOnce
<1>1. OldInv => OldKeyOwnedOnce
  <2> SUFFICES ASSUME OldInv, NEW k \in settled,
                      \A t \in Threads : key[t] = k /\ op[t] = "exclusive" => pc[t] = "idle"
               PROVE  k \in freedkeys <=> \A b \in oldkey : bk[b] # k
    BY DEF OldKeyOwnedOnce
  <2>1. ~Undecided(k) BY DEF Undecided
  <2> QED BY <2>1 DEF OldInv, OldKeyInv
<1> QED BY <1>1, OldObjectsCorrect, PTL

-----------------------------------------------------------------------------
(***************************************************************************)
(* The entries.  Each holder holds at most one entry: a thread the one it  *)
(* has not stored yet or the one it has displaced, a bucket the value that *)
(* is its own, an old key its value until exclusive() has dealt with it,   *)
(* and every entry has a place in the pool and one among the released.     *)
(* Each step leaves all of this alone or makes two holders exchange what   *)
(* they hold, so that every entry has one holder all the time.             *)
(***************************************************************************)
Held(t) ==
    IF Unpublished(t) THEN ref[t].ptr
    ELSE IF Displaced(t) /\ ~prev[t].shared THEN prev[t].ptr ELSE Nil

InBucket(b) == IF bv[b].shared THEN Nil ELSE bv[b].ptr
InOld(k) == IF InOldTable(k) THEN OldValue[k] ELSE Nil
InPool(e) == IF e \in fresh THEN e ELSE Nil
InTrash(e) == IF released[e] # 0 THEN e ELSE Nil

Holders ==
    ({"thread"} \X Threads) \cup ({"bucket"} \X Buckets) \cup ({"old"} \X OldKeys)
    \cup ({"pool"} \X Entries) \cup ({"trash"} \X Entries)

Holding(x) ==
    CASE x[1] = "thread" -> Held(x[2])
      [] x[1] = "bucket" -> InBucket(x[2])
      [] x[1] = "old" -> InOld(x[2])
      [] x[1] = "pool" -> InPool(x[2])
      [] x[1] = "trash" -> InTrash(x[2])

HolderInv ==
    /\ \A e \in Entries : \E x \in Holders : Holding(x) = e
    /\ \A x, y \in Holders : Holding(x) = Holding(y) => x = y \/ Holding(x) = Nil

OwnInv == HolderInv /\ \A e \in Entries : released[e] \in {0, 1}

LEMMA HolderKinds ==
    /\ \A t \in Threads : <<"thread", t>> \in Holders
    /\ \A b \in Buckets : <<"bucket", b>> \in Holders
    /\ \A k \in OldKeys : <<"old", k>> \in Holders
    /\ \A e \in Entries : <<"pool", e>> \in Holders /\ <<"trash", e>> \in Holders
    /\ \A x \in Holders :
           \/ \E t \in Threads : x = <<"thread", t>>
           \/ \E b \in Buckets : x = <<"bucket", b>>
           \/ \E k \in OldKeys : x = <<"old", k>>
           \/ \E e \in Entries : x = <<"pool", e>>
           \/ \E e \in Entries : x = <<"trash", e>>
BY DEF Holders

LEMMA HoldingKinds ==
    /\ \A t : Holding(<<"thread", t>>) = Held(t)
    /\ \A b : Holding(<<"bucket", b>>) = InBucket(b)
    /\ \A k : Holding(<<"old", k>>) = InOld(k)
    /\ \A e : Holding(<<"pool", e>>) = InPool(e)
    /\ \A e : Holding(<<"trash", e>>) = InTrash(e)
BY DEF Holding

LEMMA Exchange ==
    ASSUME HolderInv, NEW x \in Holders, NEW y \in Holders,
           \A z \in Holders \ {x, y} : Holding(z)' = Holding(z),
           Holding(x)' = Holding(y), Holding(y)' = Holding(x)
    PROVE  HolderInv'
<1>1. ASSUME NEW e \in Entries PROVE \E z \in Holders : Holding(z)' = e
  <2>1. PICK z \in Holders : Holding(z) = e BY DEF HolderInv
  <2> QED BY <2>1
<1>2. ASSUME NEW u \in Holders, NEW v \in Holders, Holding(u)' = Holding(v)'
      PROVE  u = v \/ Holding(u)' = Nil
  BY <1>2 DEF HolderInv
<1> QED BY <1>1, <1>2 DEF HolderInv

(* The holders that a step leaves alone. *)
SameHeld(T) == \A u \in Threads \ T : Held(u)' = Held(u)
SameBuckets(B) == \A b \in Buckets \ B : InBucket(b)' = InBucket(b)
SameOld(K) == \A k \in OldKeys \ K : InOld(k)' = InOld(k)
SamePool(E) == \A e \in Entries \ E : InPool(e)' = InPool(e)
SameTrash(E) == \A e \in Entries \ E : InTrash(e)' = InTrash(e)

LEMMA HoldersSame ==
    ASSUME NEW T, NEW B, NEW K, NEW P, NEW R,
           SameHeld(T), SameBuckets(B), SameOld(K), SamePool(P), SameTrash(R),
           NEW z \in Holders,
           \A t \in T : z # <<"thread", t>>, \A b \in B : z # <<"bucket", b>>,
           \A k \in K : z # <<"old", k>>, \A e \in P : z # <<"pool", e>>,
           \A e \in R : z # <<"trash", e>>
    PROVE  Holding(z)' = Holding(z)
<1>1. ASSUME NEW t \in Threads, z = <<"thread", t>> PROVE Holding(z)' = Holding(z)
  BY <1>1 DEF Holding, SameHeld
<1>2. ASSUME NEW b \in Buckets, z = <<"bucket", b>> PROVE Holding(z)' = Holding(z)
  BY <1>2 DEF Holding, SameBuckets
<1>3. ASSUME NEW k \in OldKeys, z = <<"old", k>> PROVE Holding(z)' = Holding(z)
  BY <1>3 DEF Holding, SameOld
<1>4. ASSUME NEW e \in Entries, z = <<"pool", e>> PROVE Holding(z)' = Holding(z)
  BY <1>4 DEF Holding, SamePool
<1>5. ASSUME NEW e \in Entries, z = <<"trash", e>> PROVE Holding(z)' = Holding(z)
  BY <1>5 DEF Holding, SameTrash
<1> QED BY <1>1, <1>2, <1>3, <1>4, <1>5, HolderKinds

LEMMA NoExchange ==
    ASSUME HolderInv, SameHeld({}), SameBuckets({}), SameOld({}), SamePool({}), SameTrash({})
    PROVE  HolderInv'
<1>1. \A z \in Holders : Holding(z)' = Holding(z) BY HoldersSame
<1>2. \A e \in Entries : \E z \in Holders : Holding(z)' = e
  BY <1>1 DEF HolderInv
<1>3. \A x, y \in Holders : Holding(x)' = Holding(y)' => x = y \/ Holding(x)' = Nil
  BY <1>1 DEF HolderInv
<1> QED BY <1>2, <1>3 DEF HolderInv

LEMMA ThreadBucketExchange ==
    ASSUME HolderInv, NEW t \in Threads, NEW b \in Buckets,
           SameHeld({t}), SameBuckets({b}), SameOld({}), SamePool({}), SameTrash({}),
           Held(t)' = InBucket(b), InBucket(b)' = Held(t)
    PROVE  HolderInv'
<1> DEFINE x == <<"thread", t>>
           y == <<"bucket", b>>
<1>1. x \in Holders /\ y \in Holders BY HolderKinds
<1>2. Holding(x)' = Holding(y) /\ Holding(y)' = Holding(x) BY DEF Holding
<1>3. \A z \in Holders \ {x, y} : Holding(z)' = Holding(z) BY HoldersSame
<1> HIDE DEF x, y
<1> QED BY <1>1, <1>2, <1>3, Exchange

LEMMA ThreadPoolExchange ==
    ASSUME HolderInv, NEW t \in Threads, NEW e \in Entries,
           SameHeld({t}), SameBuckets({}), SameOld({}), SamePool({e}), SameTrash({}),
           Held(t)' = InPool(e), InPool(e)' = Held(t)
    PROVE  HolderInv'
<1> DEFINE x == <<"thread", t>>
           y == <<"pool", e>>
<1>1. x \in Holders /\ y \in Holders BY HolderKinds
<1>2. Holding(x)' = Holding(y) /\ Holding(y)' = Holding(x) BY DEF Holding
<1>3. \A z \in Holders \ {x, y} : Holding(z)' = Holding(z) BY HoldersSame
<1> HIDE DEF x, y
<1> QED BY <1>1, <1>2, <1>3, Exchange

LEMMA ThreadTrashExchange ==
    ASSUME HolderInv, NEW t \in Threads, NEW e \in Entries,
           SameHeld({t}), SameBuckets({}), SameOld({}), SamePool({}), SameTrash({e}),
           Held(t)' = InTrash(e), InTrash(e)' = Held(t)
    PROVE  HolderInv'
<1> DEFINE x == <<"thread", t>>
           y == <<"trash", e>>
<1>1. x \in Holders /\ y \in Holders BY HolderKinds
<1>2. Holding(x)' = Holding(y) /\ Holding(y)' = Holding(x) BY DEF Holding
<1>3. \A z \in Holders \ {x, y} : Holding(z)' = Holding(z) BY HoldersSame
<1> HIDE DEF x, y
<1> QED BY <1>1, <1>2, <1>3, Exchange

LEMMA OldBucketExchange ==
    ASSUME HolderInv, NEW k \in OldKeys, NEW b \in Buckets,
           SameHeld({}), SameBuckets({b}), SameOld({k}), SamePool({}), SameTrash({}),
           InOld(k)' = InBucket(b), InBucket(b)' = InOld(k)
    PROVE  HolderInv'
<1> DEFINE x == <<"old", k>>
           y == <<"bucket", b>>
<1>1. x \in Holders /\ y \in Holders BY HolderKinds
<1>2. Holding(x)' = Holding(y) /\ Holding(y)' = Holding(x) BY DEF Holding
<1>3. \A z \in Holders \ {x, y} : Holding(z)' = Holding(z) BY HoldersSame
<1> HIDE DEF x, y
<1> QED BY <1>1, <1>2, <1>3, Exchange

LEMMA OldTrashExchange ==
    ASSUME HolderInv, NEW k \in OldKeys, NEW e \in Entries,
           SameHeld({}), SameBuckets({}), SameOld({k}), SamePool({}), SameTrash({e}),
           InOld(k)' = InTrash(e), InTrash(e)' = InOld(k)
    PROVE  HolderInv'
<1> DEFINE x == <<"old", k>>
           y == <<"trash", e>>
<1>1. x \in Holders /\ y \in Holders BY HolderKinds
<1>2. Holding(x)' = Holding(y) /\ Holding(y)' = Holding(x) BY DEF Holding
<1>3. \A z \in Holders \ {x, y} : Holding(z)' = Holding(z) BY HoldersSame
<1> HIDE DEF x, y
<1> QED BY <1>1, <1>2, <1>3, Exchange

(* What a thread or an old key holds is neither released nor in the pool. *)
LEMMA HeldOnce ==
    ASSUME HolderInv, NEW e \in Entries,
           \/ \E t \in Threads : Held(t) = e
           \/ \E b \in Buckets : InBucket(b) = e
           \/ \E k \in OldKeys : InOld(k) = e
    PROVE  released[e] = 0 /\ e \notin fresh
<1>1. PICK x \in Holders : Holding(x) = e /\ x # <<"trash", e>> /\ x # <<"pool", e>>
  <2>1. CASE \E t \in Threads : Held(t) = e
    <3>1. PICK t \in Threads : Held(t) = e BY <2>1
    <3>2. <<"thread", t>> # <<"trash", e>> /\ <<"thread", t>> # <<"pool", e>> OBVIOUS
    <3> QED BY <3>1, <3>2, HolderKinds, HoldingKinds
  <2>2. CASE \E b \in Buckets : InBucket(b) = e
    <3>1. PICK b \in Buckets : InBucket(b) = e BY <2>2
    <3>2. <<"bucket", b>> # <<"trash", e>> /\ <<"bucket", b>> # <<"pool", e>> OBVIOUS
    <3> QED BY <3>1, <3>2, HolderKinds, HoldingKinds
  <2>3. CASE \E k \in OldKeys : InOld(k) = e
    <3>1. PICK k \in OldKeys : InOld(k) = e BY <2>3
    <3>2. <<"old", k>> # <<"trash", e>> /\ <<"old", k>> # <<"pool", e>> OBVIOUS
    <3> QED BY <3>1, <3>2, HolderKinds, HoldingKinds
  <2> QED BY <2>1, <2>2, <2>3
<1>2. e # Nil BY NilAssumption
<1>3. <<"trash", e>> \in Holders /\ <<"pool", e>> \in Holders BY HolderKinds
<1>4. Holding(<<"trash", e>>) # e /\ Holding(<<"pool", e>>) # e
  BY <1>1, <1>2, <1>3 DEF HolderInv
<1> QED BY <1>4, HoldingKinds DEF InTrash, InPool

LEMMA OthersHeld ==
    ASSUME NEW t \in Threads, OthersSame(t)
    PROVE  SameHeld({t})
BY DEF OthersSame, SameThread, SameHeld, Held, Unpublished, Displaced

LEMMA OldKept ==
    ASSUME OneExclusive, NEW t \in Threads, OthersSame(t), op[t] # "exclusive",
           op'[t] # "exclusive", settled' = settled
    PROVE  SameOld({})
<1>1. \A k : InOldTableNext(k) <=> InOldTable(k) BY ExclusiveSame
<1>2. ASSUME NEW k \in OldKeys PROVE InOldTable(k)' <=> InOldTable(k)
  BY <1>1 DEF InOldTable, InOldTableNext
<1> QED BY <1>2 DEF SameOld, InOld

LEMMA HeapKept ==
    /\ bv' = bv => SameBuckets({})
    /\ fresh' = fresh => SamePool({})
    /\ released' = released => SameTrash({})
BY DEF SameBuckets, InBucket, SamePool, InPool, SameTrash, InTrash

(* A step that touches no entry and leaves the thread what it holds. *)
LEMMA QuietOwn ==
    ASSUME OwnInv, OneExclusive, NEW t \in Threads, OthersSame(t),
           op[t] # "exclusive", op'[t] # "exclusive", settled' = settled,
           UNCHANGED <<bv, fresh, released>>, Held(t)' = Held(t)
    PROVE  OwnInv'
<1>1. SameHeld({}) BY OthersHeld DEF SameHeld
<1>2. HolderInv' BY <1>1, OldKept, HeapKept, NoExchange DEF OwnInv
<1> QED BY <1>2 DEF OwnInv

(* A thread gives up a displaced value, which is then released. *)
LEMMA ReleaseOwn ==
    ASSUME TypeOK, OwnInv, OneExclusive, NEW t \in Threads, OthersSame(t),
           op[t] # "exclusive", op'[t] # "exclusive", settled' = settled,
           UNCHANGED <<bv, fresh>>, ReleasePrev(t), ~Unpublished(t), Displaced(t),
           ~Unpublished(t)', ~Displaced(t)', prev[t].ptr \in Entries
    PROVE  OwnInv'
<1>1. Held(t)' = Nil BY DEF Held
<1>2. CASE prev[t].shared
  <2>1. Held(t) = Nil /\ released' = released BY <1>2 DEF Held, ReleasePrev
  <2> QED BY <1>1, <2>1, QuietOwn
<1>3. CASE ~prev[t].shared
  <2>1. PICK e \in Entries : e = prev[t].ptr OBVIOUS
  <2>2. Held(t) = e BY <1>3, <2>1 DEF Held
  <2>3. released[e] = 0 BY <2>2, HeldOnce DEF OwnInv
  <2>4. released' = [released EXCEPT ![e] = @ + 1] BY <1>3, <2>1 DEF ReleasePrev, Release
  <2>5. released'[e] = 1 /\ \A f \in Entries \ {e} : released'[f] = released[f]
    BY <2>3, <2>4 DEF TypeOK
  <2>6. InTrash(e) = Nil /\ InTrash(e)' = e BY <2>3, <2>5 DEF InTrash
  <2>7. SameTrash({e}) BY <2>5 DEF SameTrash, InTrash
  <2>8. HolderInv'
    BY <1>1, <2>2, <2>6, <2>7, OthersHeld, OldKept, HeapKept, ThreadTrashExchange DEF OwnInv
  <2> QED BY <2>5, <2>8 DEF OwnInv
<1> QED BY <1>2, <1>3

(* A thread and a bucket exchange their values. *)
LEMMA BucketOwn ==
    ASSUME TypeOK, OwnInv, OneExclusive, NEW t \in Threads, OthersSame(t),
           op[t] # "exclusive", op'[t] # "exclusive", settled' = settled,
           UNCHANGED <<fresh, released>>,
           NEW b \in Buckets, NEW r, bv' = [bv EXCEPT ![b] = r],
           Held(t) = (IF r.shared THEN Nil ELSE r.ptr),
           Held(t)' = InBucket(b)
    PROVE  OwnInv'
<1>1. bv'[b] = r /\ \A c \in Buckets \ {b} : bv'[c] = bv[c] BY DEF TypeOK
<1>2. SameBuckets({b}) BY <1>1 DEF SameBuckets, InBucket
<1>3. InBucket(b)' = Held(t) BY <1>1 DEF InBucket
<1>4. HolderInv'
  BY <1>2, <1>3, OthersHeld, OldKept, HeapKept, ThreadBucketExchange DEF OwnInv
<1> QED BY <1>4 DEF OwnInv

LEMMA WalkOwn ==
    ASSUME TypeOK, ThreadInv, OwnInv, NEW t \in Threads, op[t] # "exclusive",
           \/ iterate_buckets(t) \/ find_bucket(t) \/ set_key(t) \/ usage_incr(t)
           \/ find_value(t) \/ replace_load(t) \/ remove_decr(t)
    PROVE  OwnInv'
<1>1. OthersSame(t) /\ settled' = settled /\ OneExclusive
  BY StepOthers, StepPhase DEF Step, ThreadInv
<1>2. UNCHANGED <<bv, fresh, released, op, ref>>
  BY DEF iterate_buckets, find_bucket, set_key, usage_incr, find_value, replace_load,
         remove_decr, tableVars, argVars, heapVars
<1>3. op'[t] = op[t] /\ ref'[t] = ref[t] BY <1>2
<1>4. Held(t)' = Held(t)
  <2>1. ASSUME pc[t] \in {"iterate", "action", "usage", "value"},
               \/ pc'[t] \in {"iterate", "action", "usage", "value", "cas"}
               \/ pc'[t] = "return" /\ ~res'[t].ok
               \/ pc'[t] = "return" /\ op[t] = "find"
        PROVE  Held(t)' = Held(t)
    BY <1>3, <2>1 DEF Held, Unpublished, Displaced
  <2>2. ~Refused.ok BY NullRefs
  <2>3. ASSUME Advance(t) \/ NotFound(t)
        PROVE  pc'[t] = "iterate" \/ (pc'[t] = "return" /\ ~res'[t].ok)
    BY <2>2, <2>3 DEF Advance, NotFound, Finish, Goto, TypeOK
  <2>4. CASE iterate_buckets(t) BY <2>1, <2>3, <2>4 DEF iterate_buckets, At, Goto, TypeOK
  <2>5. CASE find_bucket(t) BY <2>1, <2>3, <2>5 DEF find_bucket, At, Goto, TypeOK
  <2>6. CASE set_key(t) BY <2>1, <2>3, <2>6 DEF set_key, At, Goto, TypeOK
  <2>7. CASE usage_incr(t) BY <2>1, <2>7 DEF usage_incr, At, Goto, TypeOK
  <2>8. CASE find_value(t) BY <2>1, <2>8 DEF find_value, At, Finish, Goto, TypeOK
  <2>9. CASE replace_load(t)
    BY <2>1, <2>2, <2>9 DEF replace_load, ReplaceCheck, At, Finish, Goto, TypeOK
  <2>10. CASE remove_decr(t)
    <3>1. op[t] = "remove" BY <2>10 DEF ThreadInv, Local, remove_decr, At
    <3>2. pc[t] = "decr" /\ pc'[t] = "release" /\ prev'[t] = prev[t]
      BY <2>10 DEF remove_decr, At, Goto, TypeOK
    <3> QED BY <1>3, <3>1, <3>2 DEF Held, Unpublished, Displaced
  <2> QED BY <2>4, <2>5, <2>6, <2>7, <2>8, <2>9, <2>10
<1> QED BY <1>1, <1>2, <1>3, <1>4, QuietOwn

LEMMA ValueOwn ==
    ASSUME TypeOK, ThreadInv, OwnInv, NEW t \in Threads, op[t] # "exclusive",
           set_value(t) \/ add_value(t) \/ replace_value(t) \/ remove_value(t)
    PROVE  OwnInv'
<1>1. OthersSame(t) /\ settled' = settled /\ OneExclusive /\ Local(t)
  BY StepOthers, StepPhase DEF Step, ThreadInv
<1>2. UNCHANGED <<fresh, released, op, ref>>
  BY DEF set_value, add_value, replace_value, remove_value, argVars, heapVars
<1>3. op'[t] = op[t] /\ ref'[t] = ref[t] BY <1>2
<1>4. PICK b \in Buckets : b = Slot(t) BY SlotIsBucket
<1>5. ASSUME op[t] \in {"set", "add", "replace"}, pc[t] \in {"value", "cas"},
             bv' = [bv EXCEPT ![b] = ref[t]], pc'[t] = "changed", prev'[t] = bv[b]
      PROVE  OwnInv'
  <2>1. Held(t) = (IF ref[t].shared THEN Nil ELSE ref[t].ptr)
    BY <1>5 DEF Held, Unpublished, Displaced
  <2>2. Held(t)' = InBucket(b)
    BY <1>5 DEF Held, Unpublished, Displaced, InBucket
  <2> QED BY <1>1, <1>2, <1>3, <1>5, <2>1, <2>2, BucketOwn
<1>6. CASE set_value(t)
  <2>1. pc'[t] = "changed" /\ prev'[t] = bv[b] /\ pc[t] = "value"
    BY <1>4, <1>6 DEF set_value, At, Goto, TypeOK
  <2> QED BY <1>4, <1>5, <1>6, <2>1 DEF set_value
<1>7. CASE add_value(t)
  <2>1. CASE bv[b] = NullRef
    <3>1. pc'[t] = "changed" /\ prev'[t] = bv[b] /\ pc[t] = "value"
      BY <1>4, <1>7, <2>1 DEF add_value, At, Goto, TypeOK
    <3> QED BY <1>4, <1>5, <1>7, <2>1, <3>1 DEF add_value
  <2>2. CASE bv[b] # NullRef
    <3>1. res'[t] = Result(FALSE, bv[b].ptr) /\ bv' = bv /\ pc[t] = "value" /\ pc'[t] = "return"
      BY <1>4, <1>7, <2>2 DEF add_value, At, Finish, Goto, TypeOK
    <3>2. ~res'[t].ok BY <3>1 DEF Result
    <3>3. Held(t)' = Held(t) BY <1>3, <3>1, <3>2 DEF Held, Unpublished, Displaced
    <3> QED BY <1>1, <1>2, <1>3, <3>1, <3>3, QuietOwn
  <2> QED BY <2>1, <2>2
<1>8. CASE replace_value(t)
  <2>0. op[t] = "replace" /\ pc[t] = "cas" BY <1>1, <1>8 DEF replace_value, At, Local
  <2>1. CASE bv[b] = prev[t]
    <3>1. pc'[t] = "changed" /\ prev'[t] = bv[b]
      BY <1>4, <1>8, <2>1 DEF replace_value, At, Goto, TypeOK
    <3> QED BY <1>4, <1>5, <1>8, <2>0, <2>1, <3>1 DEF replace_value
  <2>2. CASE bv[b] # prev[t]
    <3>1. bv' = bv /\ (pc'[t] = "cas" \/ (pc'[t] = "return" /\ ~res'[t].ok))
      BY <1>4, <1>8, <2>2, NullRefs DEF replace_value, ReplaceCheck, At, Finish, Goto, TypeOK
    <3>3. Held(t)' = Held(t) BY <1>3, <2>0, <3>1 DEF Held, Unpublished, Displaced
    <3> QED BY <1>1, <1>2, <1>3, <3>1, <3>3, QuietOwn
  <2> QED BY <2>1, <2>2
<1>9. CASE remove_value(t)
  <2>1. op[t] = "remove" /\ pc[t] = "value" /\ bv' = [bv EXCEPT ![b] = NullRef]
    BY <1>4, <1>9 DEF remove_value, At
  <2>2. Held(t) = Nil BY <2>1 DEF Held, Unpublished, Displaced
  <2>3. Held(t)' = InBucket(b)
    <3>1. CASE bv[b] = NullRef
      <4>1. pc'[t] = "return" BY <1>4, <1>9, <3>1 DEF remove_value, Finish, Goto, TypeOK
      <4> QED BY <1>3, <2>1, <3>1, <4>1, NullRefs DEF Held, Unpublished, Displaced, InBucket
    <3>2. CASE bv[b] # NullRef
      <4>1. pc'[t] = "decr" /\ prev'[t] = bv[b]
        BY <1>4, <1>9, <3>2 DEF remove_value, Goto, TypeOK
      <4> QED BY <1>3, <2>1, <4>1 DEF Held, Unpublished, Displaced, InBucket
    <3> QED BY <3>1, <3>2
  <2>4. Held(t) = (IF NullRef.shared THEN Nil ELSE NullRef.ptr) BY <2>2, NullRefs
  <2> QED BY <1>1, <1>2, <1>3, <2>1, <2>3, <2>4, BucketOwn
<1> QED BY <1>6, <1>7, <1>8, <1>9

LEMMA CountOwn ==
    ASSUME TypeOK, ThreadInv, OwnInv, NEW t \in Threads, op[t] # "exclusive",
           changed_value(t) \/ remove_release(t) \/ return(t)
    PROVE  OwnInv'
<1>1. OthersSame(t) /\ settled' = settled /\ OneExclusive /\ Local(t) /\ prev[t] \in Refs
  BY StepOthers, StepPhase DEF Step, ThreadInv, TypeOK
<1>2. prev[t] # NullRef => prev[t].ptr \in Entries
  BY <1>1 DEF ThreadInv, NullUnflagged, Refs
<1>3. CASE changed_value(t)
  <2>1. /\ pc[t] = "changed" /\ pc'[t] = "return" /\ UNCHANGED <<bv, fresh, op, ref, prev, res>>
        /\ op[t] \in {"set", "add", "replace"} /\ res[t].ok
    BY <1>1, <1>3 DEF changed_value, ReleasePrev, At, Goto, argVars, Local, TypeOK
  <2>2. ~Unpublished(t) /\ Displaced(t) /\ ~Unpublished(t)' /\ ~Displaced(t)'
    BY <2>1 DEF Unpublished, Displaced
  <2>3. CASE prev[t] = NullRef
    <3>1. Held(t)' = Held(t) BY <2>1, <2>2, <2>3, NullRefs DEF Held
    <3>2. released' = released BY <1>3, <2>3 DEF changed_value
    <3> QED BY <1>1, <2>1, <3>1, <3>2, QuietOwn
  <2>4. CASE prev[t] # NullRef
    BY <1>1, <1>2, <1>3, <2>1, <2>2, <2>4, ReleaseOwn DEF changed_value
  <2> QED BY <2>3, <2>4
<1>4. CASE remove_release(t)
  <2>1. /\ pc[t] = "release" /\ pc'[t] = "return" /\ UNCHANGED <<bv, fresh, op, ref, prev>>
        /\ op[t] = "remove"
    BY <1>4 DEF remove_release, ReleasePrev, At, Goto, argVars, tableVars, TypeOK
  <2>2. ~Unpublished(t) /\ Displaced(t) /\ ~Unpublished(t)' /\ ~Displaced(t)'
    BY <2>1 DEF Unpublished, Displaced
  <2>3. prev[t] # NullRef BY <1>1, <2>1 DEF Local
  <2> QED BY <1>1, <1>2, <1>4, <2>1, <2>2, <2>3, ReleaseOwn DEF remove_release
<1>5. CASE return(t)
  <2>1. /\ pc[t] = "return" /\ pc'[t] = "idle" /\ op'[t] = "find" /\ UNCHANGED <<bv, released>>
        /\ fresh' = IF Rejected(t) THEN fresh \cup {ref[t].ptr} ELSE fresh
    BY <1>5 DEF return, At, Goto, tableVars, TypeOK
  <2>2. Held(t)' = Nil BY <2>1 DEF Held, Unpublished, Displaced
  <2>3. Rejected(t) <=> Unpublished(t) BY <2>1 DEF Rejected, Unpublished
  <2>4. CASE ~Rejected(t)
    <3>1. Held(t) = Nil BY <2>1, <2>3, <2>4 DEF Held, Displaced
    <3> QED BY <1>1, <2>1, <2>2, <2>4, <3>1, QuietOwn
  <2>5. CASE Rejected(t)
    <3>1. PICK e \in Entries : e = ref[t].ptr BY <2>5 DEF Rejected, TypeOK
    <3>2. Held(t) = e /\ fresh' = fresh \cup {e} BY <2>1, <2>3, <2>5, <3>1 DEF Held
    <3>3. e \notin fresh BY <3>2, HeldOnce DEF OwnInv
    <3>4. InPool(e) = Nil /\ InPool(e)' = e /\ SamePool({e})
      BY <3>2, <3>3 DEF InPool, SamePool
    <3>5. SameHeld({t}) /\ SameBuckets({}) /\ SameOld({}) /\ SameTrash({})
      BY <1>1, <2>1, OthersHeld, OldKept, HeapKept
    <3>6. HolderInv' BY <2>2, <3>2, <3>4, <3>5, ThreadPoolExchange DEF OwnInv
    <3> QED BY <2>1, <3>6 DEF OwnInv
  <2> QED BY <2>4, <2>5
<1> QED BY <1>3, <1>4, <1>5

(* A step of exclusive() for the old key k: at most k loses what it holds. *)
LEMMA ExclusiveHolds ==
    ASSUME TypeOK, ThreadInv, NEW t \in Threads, Step(t), op[t] = "exclusive",
           NEW k, k = key[t]
    PROVE  /\ k \in OldKeys /\ ref[t] = Ref(OldValue[k], TRUE)
           /\ SameHeld({}) /\ SameOld({k})
           /\ InOldTable(k) <=> pc[t] \in {"iterate", "action", "value", "release"}
           /\ InOldTable(k)' <=>
                  op'[t] = "exclusive" /\ pc'[t] \in {"iterate", "action", "value", "release"}
<1>1. OthersSame(t) /\ settled' = settled /\ OneExclusive /\ Local(t)
  BY StepOthers, StepPhase DEF Step, ThreadInv
<1>2. k \in settled /\ k \in OldKeys /\ ref[t] = Ref(OldValue[k], TRUE)
  BY <1>1 DEF Local, TypeOK
<1>3. iterate_buckets(t) \/ find_bucket(t) \/ exclusive_value(t) \/ exclusive_release(t) \/ return(t)
  BY <1>1 DEF Step, Local, set_key, usage_incr, find_value, set_value, add_value, replace_load,
         replace_value, remove_value, changed_value, remove_decr, remove_release, At, Storers
<1>4. \/ op'[t] = "exclusive" /\ key'[t] = k
         /\ pc'[t] \in {"iterate", "action", "value", "release", "return"}
      \/ op'[t] = "find" /\ pc'[t] = "idle"
  BY <1>3 DEF iterate_buckets, find_bucket, exclusive_value, exclusive_release, return, Advance,
              NotFound, Finish, Goto, At, argVars, TypeOK
<1>5. Held(t) = Nil /\ Held(t)' = Nil
  BY <1>1, <1>4 DEF Held, Unpublished, Displaced, Local
<1>6. SameHeld({}) BY <1>1, <1>5, OthersHeld DEF SameHeld
<1>7. \A u \in Threads : (op[u] = "exclusive" \/ op'[u] = "exclusive") => u = t
  BY <1>1 DEF OneExclusive, OthersSame, SameThread
<1>8. ASSUME NEW l \in OldKeys, l # k PROVE InOldTable(l)' <=> InOldTable(l)
  BY <1>1, <1>4, <1>7, <1>8 DEF InOldTable
<1>9. SameOld({k}) BY <1>8 DEF SameOld, InOld
<1>10. InOldTable(k) <=> pc[t] \in {"iterate", "action", "value", "release"}
  BY <1>2, <1>7 DEF InOldTable
<1>11. InOldTable(k)' <=>
           op'[t] = "exclusive" /\ pc'[t] \in {"iterate", "action", "value", "release"}
  BY <1>1, <1>2, <1>4, <1>7 DEF InOldTable
<1> QED BY <1>2, <1>6, <1>9, <1>10, <1>11

LEMMA ExclusiveOwn ==
    ASSUME TypeOK, ThreadInv, OwnInv, NEW t \in Threads, Step(t), op[t] = "exclusive"
    PROVE  OwnInv'
<1>1. PICK k \in Keys : k = key[t] BY DEF TypeOK
<1>2. /\ k \in OldKeys /\ ref[t] = Ref(OldValue[k], TRUE)
      /\ SameHeld({}) /\ SameOld({k})
      /\ InOldTable(k) <=> pc[t] \in {"iterate", "action", "value", "release"}
      /\ InOldTable(k)' <=>
             op'[t] = "exclusive" /\ pc'[t] \in {"iterate", "action", "value", "release"}
  BY <1>1, ExclusiveHolds
<1>3. ref[t].ptr = OldValue[k] /\ ref[t].shared BY <1>2 DEF Ref
<1>4. ASSUME UNCHANGED <<bv, fresh, released>>, InOld(k)' = InOld(k) PROVE OwnInv'
  <2>1. SameOld({}) BY <1>2, <1>4 DEF SameOld
  <2>2. HolderInv' BY <1>2, <1>4, <2>1, HeapKept, NoExchange DEF OwnInv
  <2> QED BY <1>4, <2>2 DEF OwnInv
<1>5. CASE iterate_buckets(t) \/ find_bucket(t)
  <2>1. /\ UNCHANGED <<bv, fresh, released, op>> /\ pc[t] \in {"iterate", "action"}
        /\ pc'[t] \in {"iterate", "action", "value", "release"}
    BY <1>5 DEF iterate_buckets, find_bucket, Advance, NotFound, Goto, At, argVars, tableVars, TypeOK
  <2>2. InOld(k)' = InOld(k) BY <1>2, <2>1 DEF InOld
  <2> QED BY <1>4, <2>1, <2>2
<1>6. CASE exclusive_value(t)
  <2>1. UNCHANGED <<fresh, released, op>> /\ pc[t] = "value"
    BY <1>6 DEF exclusive_value, At, argVars
  <2>2. PICK b \in Buckets : b = Slot(t) BY SlotIsBucket
  <2>3. CASE ref[t].ptr = Nil
    <3>1. InOld(k) = Nil /\ InOld(k)' = Nil BY <1>3, <2>3 DEF InOld
    <3>2. bv' = bv BY <1>6, <2>3 DEF exclusive_value
    <3> QED BY <1>4, <2>1, <3>1, <3>2
  <2>4. CASE ref[t].ptr # Nil /\ bv[b] # ref[t]
    <3>1. bv' = bv /\ pc'[t] = "release" BY <1>6, <2>2, <2>4 DEF exclusive_value, Goto, TypeOK
    <3>2. InOld(k)' = InOld(k) BY <1>2, <2>1, <3>1 DEF InOld
    <3> QED BY <1>4, <2>1, <3>1, <3>2
  <2>5. CASE ref[t].ptr # Nil /\ bv[b] = ref[t]
    <3>1. bv' = [bv EXCEPT ![b] = Ref(ref[t].ptr, FALSE)] /\ pc'[t] = "return"
      BY <1>6, <2>2, <2>5 DEF exclusive_value, Finish, Goto, TypeOK
    <3>2. bv'[b] = Ref(OldValue[k], FALSE) /\ \A c \in Buckets \ {b} : bv'[c] = bv[c]
      BY <1>3, <3>1 DEF TypeOK
    <3>3. InBucket(b) = Nil /\ InBucket(b)' = OldValue[k]
      BY <1>3, <2>5, <3>2 DEF InBucket, Ref
    <3>4. InOld(k) = OldValue[k] /\ InOld(k)' = Nil BY <1>2, <2>1, <3>1 DEF InOld
    <3>5. SameBuckets({b}) BY <3>2 DEF SameBuckets, InBucket
    <3>6. HolderInv'
      BY <1>2, <2>1, <3>3, <3>4, <3>5, HeapKept, OldBucketExchange DEF OwnInv
    <3> QED BY <2>1, <3>6 DEF OwnInv
  <2> QED BY <2>3, <2>4, <2>5
<1>7. CASE exclusive_release(t)
  <2>1. UNCHANGED <<bv, fresh, op>> /\ pc[t] = "release"
    BY <1>7 DEF exclusive_release, At, argVars, tableVars
  <2>2. CASE ref[t].ptr = Nil
    <3>1. UNCHANGED <<pc, released>> BY <1>7, <2>2 DEF exclusive_release
    <3>2. InOld(k)' = InOld(k) BY <1>2, <2>1, <3>1 DEF InOld
    <3> QED BY <1>4, <2>1, <3>1, <3>2
  <2>3. CASE ref[t].ptr # Nil
    <3>1. PICK e \in Entries : e = OldValue[k] BY <1>2, <1>3, <2>3, OldAssumption
    <3>2. released' = [released EXCEPT ![e] = @ + 1] /\ pc'[t] = "return"
      BY <1>3, <1>7, <2>3, <3>1 DEF exclusive_release, Release, Finish, Goto, TypeOK
    <3>3. InOld(k) = e /\ InOld(k)' = Nil BY <1>2, <2>1, <3>1, <3>2 DEF InOld
    <3>4. released[e] = 0 BY <1>2, <3>3, HeldOnce DEF OwnInv
    <3>5. released'[e] = 1 /\ \A f \in Entries \ {e} : released'[f] = released[f]
      BY <3>2, <3>4 DEF TypeOK
    <3>6. InTrash(e) = Nil /\ InTrash(e)' = e BY <3>4, <3>5 DEF InTrash
    <3>7. SameTrash({e}) BY <3>5 DEF SameTrash, InTrash
    <3>8. HolderInv'
      BY <1>2, <2>1, <3>3, <3>6, <3>7, HeapKept, OldTrashExchange DEF OwnInv
    <3> QED BY <3>5, <3>8 DEF OwnInv
  <2> QED BY <2>2, <2>3
<1>8. CASE return(t)
  <2>1. UNCHANGED <<bv, fresh, released>> /\ pc[t] = "return" /\ pc'[t] = "idle"
    BY <1>8 DEF return, Rejected, At, Goto, tableVars, TypeOK
  <2>2. InOld(k)' = InOld(k) BY <1>2, <2>1 DEF InOld
  <2> QED BY <1>4, <2>1, <2>2
<1>9. iterate_buckets(t) \/ find_bucket(t) \/ exclusive_value(t) \/ exclusive_release(t) \/ return(t)
  BY DEF Step, ThreadInv, Local, set_key, usage_incr, find_value, set_value, add_value,
         replace_load, replace_value, remove_value, changed_value, remove_decr, remove_release,
         At, Storers
<1> QED BY <1>5, <1>6, <1>7, <1>8, <1>9

LEMMA CallOwn ==
    ASSUME TypeOK, ThreadInv, OwnInv, NEW t \in Threads, Call(t)
    PROVE  OwnInv'
<1>1. OthersSame(t) /\ OneExclusive /\ Local(t) BY CallOthers DEF ThreadInv
<1>2. ASSUME NEW o, NEW k, NEW r, Begin(t, o, k, r)
      PROVE  /\ UNCHANGED <<bv, released>> /\ Held(t) = Nil /\ op[t] # "exclusive"
             /\ op'[t] = o /\ pc'[t] = "iterate" /\ ref'[t] = r
  BY <1>1, <1>2 DEF Begin, At, Goto, tableVars, TypeOK, Held, Unpublished, Displaced, Local
<1>3. ASSUME NEW o \in Ops, NEW k, NEW r, Begin(t, o, k, r), o # "exclusive",
             o \in {"set", "add", "replace"} => r.shared, UNCHANGED <<fresh, settled>>
      PROVE  OwnInv'
  <2>1. Held(t)' = Nil BY <1>2, <1>3 DEF Held, Unpublished, Displaced
  <2> QED BY <1>1, <1>2, <1>3, <2>1, QuietOwn
<1>4. CASE find(t) \/ remove(t)
  BY <1>3, <1>4 DEF find, remove, Ops, Finders, Storers
<1>5. ASSUME NEW o \in {"set", "add"}, store_shared(t, o) PROVE OwnInv'
  <2>1. PICK k \in OldKeys : Begin(t, o, k, Ref(OldValue[k], TRUE)) BY <1>5 DEF store_shared
  <2>2. Ref(OldValue[k], TRUE).shared BY NullRefs
  <2> QED BY <1>3, <1>5, <2>1, <2>2 DEF store_shared, Ops, Finders, Storers
<1>6. ASSUME NEW o \in {"set", "add", "replace"}, store(t, o) PROVE OwnInv'
  <2>1. PICK k \in Keys, e \in fresh : Begin(t, o, k, Ref(e, FALSE)) /\ fresh' = fresh \ {e}
    BY <1>6 DEF store
  <2>2. settled' = settled /\ e \in Entries BY <1>6 DEF store, TypeOK
  <2>3. Held(t)' = e
    <3>1. op'[t] = o /\ pc'[t] = "iterate" /\ ref'[t] = Ref(e, FALSE) BY <1>2, <2>1
    <3>2. ref'[t].ptr = e /\ ~ref'[t].shared BY <3>1 DEF Ref
    <3> QED BY <3>1, <3>2 DEF Held, Unpublished
  <2>4. InPool(e) = e /\ InPool(e)' = Nil /\ SamePool({e}) BY <2>1 DEF InPool, SamePool
  <2>5. SameHeld({t}) /\ SameBuckets({}) /\ SameOld({}) /\ SameTrash({})
    BY <1>1, <1>2, <2>1, <2>2, OthersHeld, OldKept, HeapKept
  <2>6. HolderInv' BY <1>2, <2>1, <2>2, <2>3, <2>4, <2>5, ThreadPoolExchange DEF OwnInv
  <2> QED BY <1>2, <2>1, <2>6 DEF OwnInv
<1>7. CASE exclusive(t)
  <2>1. PICK k \in OldKeys \ settled :
            /\ Begin(t, "exclusive", k, Ref(OldValue[k], TRUE))
            /\ settled' = settled \cup {k}
    BY <1>7 DEF exclusive
  <2>2. fresh' = fresh /\ key'[t] = k BY <1>7, <2>1 DEF exclusive, Begin, TypeOK
  <2>3. Held(t)' = Nil
    <3>1. op'[t] = "exclusive" /\ pc'[t] = "iterate" BY <1>2, <2>1
    <3> QED BY <3>1 DEF Held, Unpublished, Displaced
  <2>4. SameHeld({}) BY <1>1, <1>2, <2>1, <2>3, OthersHeld DEF SameHeld
  <2>5. \A u \in Threads : op[u] # "exclusive" BY <1>7 DEF exclusive, ThreadInv, Local
  <2>6. \A u \in Threads : op'[u] = "exclusive" => u = t
    BY <1>1, <2>5 DEF OthersSame, SameThread
  <2>7. ASSUME NEW l \in OldKeys PROVE InOldTable(l)' <=> InOldTable(l)
    BY <1>2, <2>1, <2>2, <2>5, <2>6 DEF InOldTable
  <2>8. SameOld({}) BY <2>7 DEF SameOld, InOld
  <2>9. HolderInv' BY <1>2, <2>1, <2>2, <2>4, <2>8, HeapKept, NoExchange DEF OwnInv
  <2> QED BY <1>2, <2>1, <2>9 DEF OwnInv
<1> QED BY <1>4, <1>5, <1>6, <1>7 DEF Call

LEMMA OwnInvInductive ==
    ASSUME TypeOK, ThreadInv, OwnInv, [Next]_vars
    PROVE  OwnInv'
<1>1. ASSUME NEW t \in Threads, Step(t) PROVE OwnInv'
  <2>1. CASE op[t] = "exclusive" BY <1>1, <2>1, ExclusiveOwn
  <2>2. CASE op[t] # "exclusive"
    BY <1>1, <2>2, WalkOwn, ValueOwn, CountOwn DEF Step, exclusive_value, exclusive_release
  <2> QED BY <2>1, <2>2
<1>2. CASE swap \/ flushed \/ UNCHANGED vars
  <2>1. UNCHANGED <<bv, pc, op, key, ref, prev, res, fresh, released, settled>>
    BY <1>2 DEF swap, flushed, vars, tableVars, argVars, heapVars, phaseVars
  <2>2. SameHeld({}) /\ SameOld({})
    BY <2>1 DEF SameHeld, Held, Unpublished, Displaced, SameOld, InOld, InOldTable
  <2>3. HolderInv' BY <2>1, <2>2, HeapKept, NoExchange DEF OwnInv
  <2> QED BY <2>1, <2>3 DEF OwnInv
<1> QED BY <1>1, <1>2, CallOwn DEF Next

(* At first the pool has the entries that the old table does not have. *)
LEMMA OwnInvInit == Init => OwnInv
<1> SUFFICES ASSUME Init PROVE OwnInv
  OBVIOUS
<1>1. \A t \in Threads : Held(t) = Nil BY DEF Init, Held, Unpublished, Displaced
<1>2. \A b \in Buckets : InBucket(b) = Nil BY NullRefs DEF Init, InBucket
<1>3. \A k \in OldKeys : InOld(k) = OldValue[k] BY DEF Init, InOld, InOldTable
<1>4. \A e \in Entries : InPool(e) = (IF e \in OldEntries THEN Nil ELSE e) /\ InTrash(e) = Nil
  BY DEF Init, InPool, InTrash
<1>5. ASSUME NEW e \in Entries PROVE \E x \in Holders : Holding(x) = e
  <2>1. CASE e \in OldEntries
    <3>1. PICK k \in OldKeys : OldValue[k] = e BY <2>1 DEF OldEntries
    <3> QED BY <1>3, <3>1, HolderKinds, HoldingKinds
  <2>2. CASE e \notin OldEntries
    BY <1>4, <2>2, HolderKinds, HoldingKinds
  <2> QED BY <2>1, <2>2
<1>6. ASSUME NEW x \in Holders, Holding(x) # Nil
      PROVE  \/ \E k \in OldKeys : x = <<"old", k>> /\ Holding(x) = OldValue[k]
             \/ \E e \in Entries \ OldEntries : x = <<"pool", e>> /\ Holding(x) = e
  BY <1>1, <1>2, <1>3, <1>4, <1>6, HolderKinds, HoldingKinds
<1>7. ASSUME NEW x \in Holders, NEW y \in Holders, Holding(x) = Holding(y), Holding(x) # Nil
      PROVE  x = y
  <2>1. \A k \in OldKeys : OldValue[k] # Nil => OldValue[k] \in OldEntries
    BY DEF OldEntries
  <2>2. CASE \E k \in OldKeys : x = <<"old", k>> /\ Holding(x) = OldValue[k]
    <3>1. PICK k \in OldKeys : x = <<"old", k>> /\ Holding(x) = OldValue[k] BY <2>2
    <3>2. PICK l \in OldKeys : y = <<"old", l>> /\ Holding(y) = OldValue[l]
      BY <1>6, <1>7, <2>1, <3>1
    <3> QED BY <1>7, <3>1, <3>2, OldAssumption
  <2>3. CASE \E e \in Entries \ OldEntries : x = <<"pool", e>> /\ Holding(x) = e
    BY <1>6, <1>7, <2>1, <2>3
  <2> QED BY <1>6, <1>7, <2>2, <2>3
<1>8. \A e \in Entries : released[e] = 0 BY DEF Init
<1> QED BY <1>5, <1>7, <1>8 DEF OwnInv, HolderInv

(* Every entry has exactly one holder, and is released at most once. *)
THEOREM HoldersCorrect == Spec => []OwnInv
<1>1. TypeOK /\ ThreadInv /\ OwnInv /\ [Next]_vars => OwnInv' BY OwnInvInductive
<1> QED BY <1>1, OwnInvInit, TypeCorrect, ThreadsCorrect, PTL DEF Spec

LEMMA NoneOrOne ==
    /\ Cardinality({}) = 0
    /\ \A x : Cardinality({x}) = 1
BY FS_EmptySet, FS_Singleton

(* The holders in the terms in which Owners counts them. *)
LEMMA HoldersCounted ==
    ASSUME TypeOK, ThreadInv, NEW e \in Entries
    PROVE  /\ \A t \in Threads : Unpublished(t) => ~Displaced(t)
           /\ \A t \in Threads : Unpublished(t) => (ref[t].ptr = e <=> Held(t) = e)
           /\ \A t \in Threads : Displaced(t) => (prev[t] = Ref(e, FALSE) <=> Held(t) = e)
           /\ \A t \in Threads : Held(t) = e => Unpublished(t) \/ Displaced(t)
           /\ \A b \in Buckets : bv[b] = Ref(e, FALSE) <=> InBucket(b) = e
           /\ \A k \in OldKeys : OldValue[k] = e /\ InOldTable(k) <=> InOld(k) = e
           /\ e \in fresh <=> InPool(e) = e
           /\ released[e] # 0 <=> InTrash(e) = e
<1>1. e # Nil BY NilAssumption
<1>2. \A r \in Refs : r = Ref(e, FALSE) <=> r.ptr = e /\ ~r.shared BY DEF Ref, Refs
<1>3. \A t \in Threads : prev[t] \in Refs BY DEF TypeOK
<1>4. \A b \in Buckets : bv[b] \in Refs BY DEF TypeOK
<1>5. \A t \in Threads : Unpublished(t) => ~Displaced(t) BY DEF Unpublished, Displaced
<1>6. \A t \in Threads : Unpublished(t) => (ref[t].ptr = e <=> Held(t) = e) BY DEF Held
<1>7. \A t \in Threads : Displaced(t) => (prev[t] = Ref(e, FALSE) <=> Held(t) = e)
  BY <1>1, <1>2, <1>3, <1>5 DEF Held
<1>8. \A t \in Threads : Held(t) = e => Unpublished(t) \/ Displaced(t) BY <1>1 DEF Held
<1>9. \A b \in Buckets : bv[b] = Ref(e, FALSE) <=> InBucket(b) = e
  BY <1>1, <1>2, <1>4 DEF InBucket
<1>10. \A k \in OldKeys : OldValue[k] = e /\ InOldTable(k) <=> InOld(k) = e
  BY <1>1 DEF InOld
<1>11. (e \in fresh <=> InPool(e) = e) /\ (released[e] # 0 <=> InTrash(e) = e)
  BY <1>1 DEF InPool, InTrash
<1> QED BY <1>5, <1>6, <1>7, <1>8, <1>9, <1>10, <1>11

LEMMA OwnersOne ==
    ASSUME TypeOK, ThreadInv, OwnInv, NEW e \in Entries
    PROVE  Owners(e) = 1
<1> DEFINE F == {f \in fresh : f = e}
           U == {t \in Threads : Unpublished(t) /\ ref[t].ptr = e}
           B == {b \in Buckets : bv[b] = Ref(e, FALSE)}
           D == {t \in Threads : Displaced(t) /\ prev[t] = Ref(e, FALSE)}
           K == {k \in OldKeys : OldValue[k] = e /\ InOldTable(k)}
<1>1. PICK x \in Holders : Holding(x) = e BY DEF OwnInv, HolderInv
<1>2. \A y \in Holders : Holding(y) = e => y = x BY <1>1, NilAssumption DEF OwnInv, HolderInv
<1>3. /\ \A t \in Threads : Held(t) = e <=> x = <<"thread", t>>
      /\ \A b \in Buckets : InBucket(b) = e <=> x = <<"bucket", b>>
      /\ \A k \in OldKeys : InOld(k) = e <=> x = <<"old", k>>
      /\ InPool(e) = e <=> x = <<"pool", e>>
      /\ InTrash(e) = e <=> x = <<"trash", e>>
  BY <1>1, <1>2, HolderKinds, HoldingKinds
<1>4. /\ F = {f \in {e} : x = <<"pool", e>>}
      /\ U = {t \in Threads : Unpublished(t) /\ x = <<"thread", t>>}
      /\ B = {b \in Buckets : x = <<"bucket", b>>}
      /\ D = {t \in Threads : Displaced(t) /\ x = <<"thread", t>>}
      /\ K = {k \in OldKeys : x = <<"old", k>>}
      /\ released[e] = IF x = <<"trash", e>> THEN 1 ELSE 0
  <2>1. F = {f \in {e} : x = <<"pool", e>>}
    <3>1. e \in fresh <=> x = <<"pool", e>> BY <1>3, HoldersCounted
    <3> QED BY <3>1
  <2>2. U = {t \in Threads : Unpublished(t) /\ x = <<"thread", t>>} BY <1>3, HoldersCounted, ZenonT(40)
  <2>3. B = {b \in Buckets : x = <<"bucket", b>>} BY <1>3, HoldersCounted, ZenonT(40)
  <2>4. D = {t \in Threads : Displaced(t) /\ x = <<"thread", t>>} BY <1>3, HoldersCounted, ZenonT(40)
  <2>5. K = {k \in OldKeys : x = <<"old", k>>} BY <1>3, HoldersCounted, ZenonT(40)
  <2>6. released[e] = IF x = <<"trash", e>> THEN 1 ELSE 0
    BY <1>3, HoldersCounted DEF OwnInv
  <2> QED BY <2>1, <2>2, <2>3, <2>4, <2>5, <2>6
<1>5. Owners(e) = Cardinality(F) + Cardinality(U) + Cardinality(B) + Cardinality(D)
                  + Cardinality(K) + released[e]
  BY DEF Owners
<1> HIDE DEF F, U, B, D, K
<1>6. Cardinality({}) = 0 /\ \A y : Cardinality({y}) = 1 BY NoneOrOne
<1>7. ASSUME NEW t \in Threads, x = <<"thread", t>> PROVE Owners(e) = 1
  <2>1. F = {} /\ B = {} /\ K = {} /\ released[e] = 0 BY <1>4, <1>7
  <2>2. CASE Unpublished(t)
    <3>1. U = {t} BY <1>4, <1>7, <2>2
    <3>2. ~Displaced(t) BY <2>2, HoldersCounted
    <3>3. D = {} BY <1>4, <1>7, <3>2
    <3>4. Cardinality(U) = 1 /\ Cardinality(D) = 0 BY <1>6, <3>1, <3>3
    <3> QED BY <1>5, <1>6, <2>1, <3>4
  <2>3. CASE ~Unpublished(t)
    <3>1. Displaced(t) BY <1>1, <1>7, <2>3, HoldersCounted, HoldingKinds
    <3>2. U = {} BY <1>4, <1>7, <2>3
    <3>3. D = {t} BY <1>4, <1>7, <3>1
    <3>4. Cardinality(U) = 0 /\ Cardinality(D) = 1 BY <1>6, <3>2, <3>3
    <3> QED BY <1>5, <1>6, <2>1, <3>4
  <2> QED BY <2>2, <2>3
<1>8. ASSUME NEW b \in Buckets, x = <<"bucket", b>> PROVE Owners(e) = 1
  <2>1. F = {} /\ U = {} /\ D = {} /\ K = {} /\ released[e] = 0 BY <1>4, <1>8
  <2>2. B = {b} BY <1>4, <1>8
  <2>3. Cardinality(B) = 1 BY <1>6, <2>2
  <2> QED BY <1>5, <1>6, <2>1, <2>3
<1>9. ASSUME NEW k \in OldKeys, x = <<"old", k>> PROVE Owners(e) = 1
  <2>1. F = {} /\ U = {} /\ D = {} /\ B = {} /\ released[e] = 0 BY <1>4, <1>9
  <2>2. K = {k} BY <1>4, <1>9
  <2>3. Cardinality(K) = 1 BY <1>6, <2>2
  <2> QED BY <1>5, <1>6, <2>1, <2>3
<1>10. CASE x = <<"pool", e>>
  <2>1. B = {} /\ U = {} /\ D = {} /\ K = {} /\ released[e] = 0 BY <1>4, <1>10
  <2>2. F = {e} BY <1>4, <1>10
  <2>3. Cardinality(F) = 1 BY <1>6, <2>2
  <2> QED BY <1>5, <1>6, <2>1, <2>3
<1>11. CASE x = <<"trash", e>>
  <2>1. F = {} /\ B = {} /\ U = {} /\ D = {} /\ K = {} /\ released[e] = 1 BY <1>4, <1>11
  <2> QED BY <1>5, <1>6, <2>1
<1>12. ASSUME NEW f \in Entries, x = <<"pool", f>> \/ x = <<"trash", f>> PROVE f = e
  BY <1>1, <1>12, HoldingKinds, NilAssumption DEF InPool, InTrash
<1> QED BY <1>7, <1>8, <1>9, <1>10, <1>11, <1>12, HolderKinds

(***************************************************************************)
(* Every entry is released exactly once, by whoever displaced it, by the   *)
(* caller whose store was refused or by exclusive(): however threads race  *)
(* for a bucket, none leaks one and no two release the same.               *)
(***************************************************************************)
THEOREM EntryOwnedOnceCorrect == Spec => []EntryOwnedOnce
<1>1. TypeOK /\ ThreadInv /\ OwnInv => EntryOwnedOnce BY OwnersOne DEF EntryOwnedOnce
<1> QED BY <1>1, TypeCorrect, ThreadsCorrect, HoldersCorrect, PTL

(***************************************************************************)
(* No bucket refers to an entry that was released: one that is its own has *)
(* no other holder, and one it shares the old table still has.             *)
(***************************************************************************)
THEOREM NoDanglingValueCorrect == Spec => []NoDanglingValue
<1>1. TypeOK /\ OldInv /\ OwnInv => NoDanglingValue
  <2> SUFFICES ASSUME TypeOK, OldInv, OwnInv, NEW b \in Buckets, bv[b].ptr # Nil
               PROVE  released[bv[b].ptr] = 0
    BY DEF NoDanglingValue
  <2>1. PICK e \in Entries : e = bv[b].ptr BY DEF TypeOK, Refs
  <2>2. CASE ~bv[b].shared
    <3>1. InBucket(b) = e BY <2>1, <2>2 DEF InBucket
    <3> QED BY <2>1, <3>1, HeldOnce DEF OwnInv
  <2>3. CASE bv[b].shared
    <3>1. bk[b] \in OldKeys /\ bv[b] = Ref(OldValue[bk[b]], TRUE) /\ InOldTable(bk[b])
      BY <2>3 DEF OldInv, SharedInv
    <3>2. InOld(bk[b]) = e BY <2>1, <3>1 DEF InOld, Ref
    <3> QED BY <2>1, <3>1, <3>2, HeldOnce DEF OwnInv
  <2> QED BY <2>2, <2>3
<1> QED BY <1>1, TypeCorrect, OldObjectsCorrect, HoldersCorrect, PTL

-----------------------------------------------------------------------------
(***************************************************************************)
(* The counters.  A step changes at most one bucket and one thread, so     *)
(* that each of the sets counted gains or loses at most one element.       *)
(***************************************************************************)
Bit(p) == IF p THEN 1 ELSE 0

LEMMA ToggleCardinality ==
    ASSUME NEW A, IsFiniteSet(A), NEW S \in SUBSET A, NEW R \in SUBSET A, NEW x \in A,
           \A y \in A \ {x} : y \in R <=> y \in S
    PROVE  /\ Cardinality(S) \in Int /\ Cardinality(R) \in Int
           /\ Cardinality(R) = Cardinality(S) + Bit(x \in R) - Bit(x \in S)
<1>1. IsFiniteSet(S) /\ IsFiniteSet(R) BY FS_Subset
<1>2. Cardinality(S) \in Int /\ Cardinality(R) \in Int BY <1>1, FS_CardinalityType
<1>3. CASE x \in R /\ x \notin S
  <2>1. R = S \cup {x} BY <1>3
  <2>2. Cardinality(R) = Cardinality(S) + 1 BY <1>1, <1>3, <2>1, FS_AddElement
  <2> QED BY <1>2, <1>3, <2>2 DEF Bit
<1>4. CASE x \notin R /\ x \in S
  <2>1. S = R \cup {x} BY <1>4
  <2>2. Cardinality(S) = Cardinality(R) + 1 BY <1>1, <1>4, <2>1, FS_AddElement
  <2> QED BY <1>2, <1>4, <2>2 DEF Bit
<1>5. CASE x \in R <=> x \in S
  <2>1. R = S BY <1>5
  <2> QED BY <1>2, <2>1 DEF Bit
<1> QED BY <1>3, <1>4, <1>5

(* The change of each counter that a step of t at bucket b accounts for. *)
UsageChange(t, b) ==
    Bit(bk'[b] # Nil) - Bit(bk[b] # Nil) - Bit(pc'[t] = "usage") + Bit(pc[t] = "usage")

ValueChange(t, b) ==
    Bit(bv'[b].ptr # Nil) - Bit(bv[b].ptr # Nil)
    - Bit(pc'[t] = "changed" /\ prev'[t] = NullRef) + Bit(pc[t] = "changed" /\ prev[t] = NullRef)
    + Bit(pc'[t] = "decr") - Bit(pc[t] = "decr")

LEMMA CountsStep ==
    ASSUME CountsExact, NEW t \in Threads, NEW b \in Buckets, OthersSame(t),
           \A c \in Buckets \ {b} : bk'[c] = bk[c] /\ bv'[c] = bv[c],
           usage_count' = usage_count + UsageChange(t, b),
           value_count' = value_count + ValueChange(t, b)
    PROVE  CountsExact'
<1> DEFINE Filled == {c \in Buckets : bk[c] # Nil}
           Valued == {c \in Buckets : bv[c].ptr # Nil}
           Claiming == {u \in Threads : pc[u] = "usage"}
           Adding == {u \in Threads : pc[u] = "changed" /\ prev[u] = NullRef}
           Dropping == {u \in Threads : pc[u] = "decr"}
<1>1. /\ Cardinality(Filled) \in Int /\ Cardinality(Filled') \in Int
      /\ Cardinality(Filled') = Cardinality(Filled) + Bit(bk'[b] # Nil) - Bit(bk[b] # Nil)
  <2>1. \A c \in Buckets \ {b} : c \in Filled' <=> c \in Filled OBVIOUS
  <2>2. (b \in Filled' <=> bk'[b] # Nil) /\ (b \in Filled <=> bk[b] # Nil) OBVIOUS
  <2>3. Filled \in SUBSET Buckets /\ Filled' \in SUBSET Buckets OBVIOUS
  <2> HIDE DEF Filled
  <2> QED BY <2>1, <2>2, <2>3, FiniteAssumption, ToggleCardinality DEF Bit
<1>2. /\ Cardinality(Valued) \in Int /\ Cardinality(Valued') \in Int
      /\ Cardinality(Valued') = Cardinality(Valued) + Bit(bv'[b].ptr # Nil) - Bit(bv[b].ptr # Nil)
  <2>1. \A c \in Buckets \ {b} : c \in Valued' <=> c \in Valued OBVIOUS
  <2>2. (b \in Valued' <=> bv'[b].ptr # Nil) /\ (b \in Valued <=> bv[b].ptr # Nil) OBVIOUS
  <2>3. Valued \in SUBSET Buckets /\ Valued' \in SUBSET Buckets OBVIOUS
  <2> HIDE DEF Valued
  <2> QED BY <2>1, <2>2, <2>3, FiniteAssumption, ToggleCardinality DEF Bit
<1>3. /\ Cardinality(Claiming) \in Int /\ Cardinality(Claiming') \in Int
      /\ Cardinality(Claiming') = Cardinality(Claiming)
                                  + Bit(pc'[t] = "usage") - Bit(pc[t] = "usage")
  <2>1. \A u \in Threads \ {t} : u \in Claiming' <=> u \in Claiming
    BY DEF OthersSame, SameThread
  <2>2. (t \in Claiming' <=> pc'[t] = "usage") /\ (t \in Claiming <=> pc[t] = "usage") OBVIOUS
  <2>3. Claiming \in SUBSET Threads /\ Claiming' \in SUBSET Threads OBVIOUS
  <2> HIDE DEF Claiming
  <2> QED BY <2>1, <2>2, <2>3, FiniteAssumption, ToggleCardinality DEF Bit
<1>4. /\ Cardinality(Adding) \in Int /\ Cardinality(Adding') \in Int
      /\ Cardinality(Adding') = Cardinality(Adding)
                                + Bit(pc'[t] = "changed" /\ prev'[t] = NullRef)
                                - Bit(pc[t] = "changed" /\ prev[t] = NullRef)
  <2>1. \A u \in Threads \ {t} : u \in Adding' <=> u \in Adding
    BY DEF OthersSame, SameThread, NullRef
  <2>2. /\ t \in Adding' <=> pc'[t] = "changed" /\ prev'[t] = NullRef
        /\ t \in Adding <=> pc[t] = "changed" /\ prev[t] = NullRef
    BY DEF NullRef
  <2>3. Adding \in SUBSET Threads /\ Adding' \in SUBSET Threads OBVIOUS
  <2> HIDE DEF Adding
  <2> QED BY <2>1, <2>2, <2>3, FiniteAssumption, ToggleCardinality DEF Bit
<1>5. /\ Cardinality(Dropping) \in Int /\ Cardinality(Dropping') \in Int
      /\ Cardinality(Dropping') = Cardinality(Dropping)
                                  + Bit(pc'[t] = "decr") - Bit(pc[t] = "decr")
  <2>1. \A u \in Threads \ {t} : u \in Dropping' <=> u \in Dropping
    BY DEF OthersSame, SameThread
  <2>2. (t \in Dropping' <=> pc'[t] = "decr") /\ (t \in Dropping <=> pc[t] = "decr") OBVIOUS
  <2>3. Dropping \in SUBSET Threads /\ Dropping' \in SUBSET Threads OBVIOUS
  <2> HIDE DEF Dropping
  <2> QED BY <2>1, <2>2, <2>3, FiniteAssumption, ToggleCardinality DEF Bit
<1>6. /\ usage_count = Cardinality(Filled) - Cardinality(Claiming)
      /\ value_count = Cardinality(Valued) - Cardinality(Adding) + Cardinality(Dropping)
  BY DEF CountsExact
<1>7. CountsExact' <=>
        /\ usage_count' = Cardinality(Filled') - Cardinality(Claiming')
        /\ value_count' = Cardinality(Valued') - Cardinality(Adding') + Cardinality(Dropping')
  BY DEF CountsExact
<1>8. \A p : Bit(p) \in Int BY DEF Bit
<1> HIDE DEF Filled, Valued, Claiming, Adding, Dropping
<1>9. usage_count' = Cardinality(Filled') - Cardinality(Claiming')
  BY <1>1, <1>3, <1>6, <1>8 DEF UsageChange
<1>10. value_count' = Cardinality(Valued') - Cardinality(Adding') + Cardinality(Dropping')
  BY <1>2, <1>4, <1>5, <1>6, <1>8 DEF ValueChange
<1> QED BY <1>7, <1>9, <1>10

(* A step that is no update of a counter and changes no bucket. *)
LEMMA CountsQuiet ==
    ASSUME TypeOK, CountsExact, NEW t \in Threads, OthersSame(t),
           UNCHANGED <<bk, bv, value_count, usage_count>>,
           pc[t] \notin {"usage", "changed", "decr"},
           pc'[t] \notin {"usage", "changed", "decr"}
    PROVE  CountsExact'
<1>1. PICK b \in Buckets : b = Slot(t) BY SlotIsBucket
<1>2. UsageChange(t, b) = 0 /\ ValueChange(t, b) = 0 BY DEF UsageChange, ValueChange, Bit
<1> QED BY <1>2, CountsStep DEF TypeOK

LEMMA CountsKept ==
    ASSUME TypeOK, WalkInv, ThreadInv, CountsExact, NEW t \in Threads, Step(t)
    PROVE  CountsExact'
<1> USE DEF ThreadInv
<1>1. OthersSame(t) /\ Local(t) /\ t \in DOMAIN pc /\ t \in DOMAIN prev
  BY StepOthers DEF TypeOK
<1>2. PICK b \in Buckets : b = Slot(t) BY SlotIsBucket
<1>3. bv[b] \in Refs /\ ref[t] \in Refs /\ prev[t] \in Refs /\ bv \in [Buckets -> Refs]
  BY DEF TypeOK
<1>4. \A r \in Refs : Bit(r.ptr # Nil) = IF r.ptr = Nil THEN 0 ELSE 1 BY DEF Bit
<1>5. bv[b] = NullRef <=> bv[b].ptr = Nil BY NullRefs DEF NullUnflagged
<1>6. value_count \in Int /\ usage_count \in Int BY DEF TypeOK
<1>7. ASSUME Advance(t) \/ NotFound(t), pc[t] \in {"iterate", "action"},
             UNCHANGED <<bk, bv, value_count, usage_count>>
      PROVE  CountsExact'
  <2>1. pc'[t] \in {"iterate", "return", "release"}
    BY <1>1, <1>7 DEF Advance, NotFound, Finish, Goto
  <2> QED BY <1>1, <1>7, <2>1, CountsQuiet
<1>8. ASSUME NEW p \in {"action", "value", "return", "cas", "idle", "release"}, Goto(t, p),
             pc[t] \in {"iterate", "action", "value", "cas", "release", "return"},
             UNCHANGED <<bk, bv, value_count, usage_count>>
      PROVE  CountsExact'
  <2>1. pc'[t] = p BY <1>1, <1>8 DEF Goto
  <2> QED BY <1>1, <1>8, <2>1, CountsQuiet
<1>9. CASE iterate_buckets(t) BY <1>7, <1>8, <1>9 DEF iterate_buckets, At, tableVars
<1>10. CASE find_bucket(t) BY <1>7, <1>8, <1>10 DEF find_bucket, At, tableVars
<1>11. CASE set_key(t)
  <2>1. CASE bk[b] # Nil BY <1>2, <1>7, <1>8, <1>11, <2>1 DEF set_key, At
  <2>2. CASE bk[b] = Nil
    <3>1. /\ pc[t] = "action" /\ pc'[t] = "usage" /\ bk' = [bk EXCEPT ![b] = key[t]]
          /\ key[t] # Nil /\ UNCHANGED <<bv, value_count, usage_count>>
      BY <1>1, <1>2, <1>11, <2>2, NilAssumption DEF set_key, At, Goto, TypeOK
    <3>2. bk'[b] # Nil /\ \A c \in Buckets \ {b} : bk'[c] = bk[c] BY <3>1 DEF TypeOK
    <3>3. UsageChange(t, b) = 0 /\ ValueChange(t, b) = 0
      BY <2>2, <3>1, <3>2 DEF UsageChange, ValueChange, Bit
    <3> QED BY <1>1, <1>6, <3>1, <3>2, <3>3, CountsStep
  <2> QED BY <2>1, <2>2
<1>12. CASE usage_incr(t)
  <2>1. /\ pc[t] = "usage" /\ pc'[t] = "value" /\ usage_count' = usage_count + 1
        /\ UNCHANGED <<bk, bv, value_count>>
    BY <1>1, <1>12 DEF usage_incr, At, Goto
  <2>2. UsageChange(t, b) = 1 /\ ValueChange(t, b) = 0
    BY <2>1 DEF UsageChange, ValueChange, Bit
  <2> QED BY <1>1, <1>6, <2>1, <2>2, CountsStep
<1>13. CASE find_value(t) BY <1>8, <1>13 DEF find_value, Finish, At, tableVars
<1>14. ASSUME op[t] \in {"set", "add", "replace"}, pc[t] \in {"value", "cas"},
              bv' = [bv EXCEPT ![b] = ref[t]], pc'[t] = "changed", prev'[t] = bv[b],
              UNCHANGED <<bk, value_count, usage_count>>
       PROVE  CountsExact'
  <2>1. ref[t].ptr # Nil BY <1>14, NilAssumption DEF TypeOK
  <2>2. bv'[b] = ref[t] /\ \A c \in Buckets \ {b} : bv'[c] = bv[c] BY <1>3, <1>14
  <2>3. UsageChange(t, b) = 0 BY <1>14 DEF UsageChange, Bit
  <2>4. ValueChange(t, b) = 0
    <3>1. Bit(bv'[b].ptr # Nil) = 1 BY <2>1, <2>2 DEF Bit
    <3>2. Bit(pc'[t] = "changed" /\ prev'[t] = NullRef) = 1 - Bit(bv[b].ptr # Nil)
      BY <1>5, <1>14 DEF Bit
    <3>3. /\ Bit(pc[t] = "changed" /\ prev[t] = NullRef) = 0
          /\ Bit(pc'[t] = "decr") = 0 /\ Bit(pc[t] = "decr") = 0
      BY <1>14 DEF Bit
    <3>4. Bit(bv[b].ptr # Nil) \in Int BY DEF Bit
    <3> QED BY <3>1, <3>2, <3>3, <3>4 DEF ValueChange
  <2> QED BY <1>1, <1>6, <1>14, <2>2, <2>3, <2>4, CountsStep
<1>15. CASE set_value(t)
  BY <1>1, <1>2, <1>14, <1>15 DEF set_value, At, Goto
<1>16. CASE add_value(t)
  <2>1. CASE bv[b] = NullRef
    <3>1. pc'[t] = "changed" /\ prev'[t] = bv[b] BY <1>1, <1>2, <1>16, <2>1 DEF add_value, Goto
    <3> QED BY <1>2, <1>14, <1>16, <2>1, <3>1 DEF add_value, At
  <2>2. CASE bv[b] # NullRef BY <1>2, <1>8, <1>16, <2>2 DEF add_value, Finish, At
  <2> QED BY <2>1, <2>2
<1>17. CASE replace_load(t)
  BY <1>8, <1>17 DEF replace_load, ReplaceCheck, Finish, At, tableVars
<1>18. CASE replace_value(t)
  <2>1. CASE bv[b] = prev[t]
    <3>1. pc'[t] = "changed" /\ prev'[t] = bv[b] /\ op[t] = "replace"
      BY <1>1, <1>2, <1>18, <2>1 DEF replace_value, Goto, At, Local
    <3> QED BY <1>2, <1>14, <1>18, <2>1, <3>1 DEF replace_value, At
  <2>2. CASE bv[b] # prev[t]
    BY <1>2, <1>8, <1>18, <2>2 DEF replace_value, ReplaceCheck, Finish, At
  <2> QED BY <2>1, <2>2
<1>19. CASE remove_value(t)
  <2>1. /\ pc[t] = "value" /\ bv' = [bv EXCEPT ![b] = NullRef]
        /\ UNCHANGED <<bk, value_count, usage_count>>
    BY <1>2, <1>19 DEF remove_value, At
  <2>2. CASE bv[b] = NullRef
    <3>1. bv' = bv BY <1>3, <2>1, <2>2
    <3> QED BY <1>2, <1>8, <1>19, <2>1, <2>2, <3>1 DEF remove_value, Finish
  <2>3. CASE bv[b] # NullRef
    <3>1. pc'[t] = "decr" BY <1>1, <1>2, <1>19, <2>3 DEF remove_value, Goto
    <3>2. bv'[b].ptr = Nil /\ \A c \in Buckets \ {b} : bv'[c] = bv[c]
      BY <1>3, <2>1, NullRefs
    <3>3. UsageChange(t, b) = 0 /\ ValueChange(t, b) = 0
      BY <1>5, <2>1, <2>3, <3>1, <3>2 DEF UsageChange, ValueChange, Bit
    <3> QED BY <1>1, <1>6, <2>1, <3>2, <3>3, CountsStep
  <2> QED BY <2>2, <2>3
<1>20. CASE changed_value(t)
  <2>1. /\ pc[t] = "changed" /\ pc'[t] = "return" /\ UNCHANGED <<bk, bv, usage_count, prev>>
    BY <1>1, <1>20 DEF changed_value, ReleasePrev, At, Goto
  <2>2. value_count' = value_count + Bit(prev[t] = NullRef) BY <1>6, <1>20 DEF changed_value, Bit
  <2>3. UsageChange(t, b) = 0 /\ ValueChange(t, b) = Bit(prev[t] = NullRef)
    BY <2>1 DEF UsageChange, ValueChange, Bit
  <2> QED BY <1>1, <1>6, <2>1, <2>2, <2>3, CountsStep
<1>21. CASE remove_decr(t)
  <2>1. /\ pc[t] = "decr" /\ pc'[t] = "release" /\ UNCHANGED <<bk, bv, usage_count>>
        /\ value_count' = value_count - 1
    BY <1>1, <1>21 DEF remove_decr, At, Goto
  <2>2. UsageChange(t, b) = 0 /\ ValueChange(t, b) = -1
    BY <2>1 DEF UsageChange, ValueChange, Bit
  <2> QED BY <1>1, <1>6, <2>1, <2>2, CountsStep
<1>22. CASE remove_release(t)
  BY <1>8, <1>22 DEF remove_release, ReleasePrev, At, tableVars
<1>23. CASE exclusive_value(t)
  <2>1. CASE bv' = bv
    BY <1>8, <1>23, <2>1 DEF exclusive_value, Finish, At
  <2>2. CASE ref[t].ptr # Nil /\ bv[b] = ref[t] /\ bv' = [bv EXCEPT ![b] = Ref(ref[t].ptr, FALSE)]
    <3>1. pc[t] = "value" /\ pc'[t] = "return" /\ UNCHANGED <<bk, value_count, usage_count>>
      BY <1>1, <1>2, <1>23, <2>2 DEF exclusive_value, Finish, Goto, At
    <3>2. bv'[b].ptr = ref[t].ptr /\ \A c \in Buckets \ {b} : bv'[c] = bv[c]
      BY <1>3, <2>2 DEF Ref
    <3>3. bv[b].ptr # Nil /\ bv'[b].ptr # Nil BY <2>2, <3>2
    <3>4. UsageChange(t, b) = 0 /\ ValueChange(t, b) = 0
      BY <3>1, <3>3 DEF UsageChange, ValueChange, Bit
    <3> QED BY <1>1, <1>6, <3>1, <3>2, <3>4, CountsStep
  <2> QED BY <1>2, <1>23, <2>1, <2>2 DEF exclusive_value
<1>24. CASE exclusive_release(t)
  <2>1. /\ pc[t] = "release" /\ pc'[t] \in {"release", "return"}
        /\ UNCHANGED <<bk, bv, value_count, usage_count>>
    BY <1>1, <1>24 DEF exclusive_release, Finish, Goto, At, tableVars
  <2> QED BY <1>1, <2>1, CountsQuiet
<1>25. CASE return(t) BY <1>8, <1>25 DEF return, At, tableVars
<1> QED BY <1>9, <1>10, <1>11, <1>12, <1>13, <1>15, <1>16, <1>17, <1>18, <1>19, <1>20,
           <1>21, <1>22, <1>23, <1>24, <1>25 DEF Step

(***************************************************************************)
(* value_count and usage_count are what the table holds but for the        *)
(* updates that threads still have to make, whatever order they make them  *)
(* in.                                                                     *)
(***************************************************************************)
THEOREM CountsExactCorrect == Spec => []CountsExact
<1>1. Init => CountsExact
  <2> SUFFICES ASSUME Init PROVE CountsExact
    OBVIOUS
  <2>1. {b \in Buckets : bk[b] # Nil} = {} BY DEF Init
  <2>2. {b \in Buckets : bv[b].ptr # Nil} = {} BY NullRefs DEF Init
  <2>3. {t \in Threads : pc[t] = "usage"} = {} BY DEF Init
  <2>4. {t \in Threads : pc[t] = "changed" /\ prev[t] = NullRef} = {} BY DEF Init
  <2>5. {t \in Threads : pc[t] = "decr"} = {} BY DEF Init
  <2>6. usage_count = 0 /\ value_count = 0 BY DEF Init
  <2>7. Cardinality({}) = 0 BY NoneOrOne
  <2>8. /\ Cardinality({b \in Buckets : bv[b].ptr # Nil}) = 0
        /\ Cardinality({t \in Threads : pc[t] = "changed" /\ prev[t] = NullRef}) = 0
        /\ Cardinality({t \in Threads : pc[t] = "decr"}) = 0
    BY <2>2, <2>4, <2>5, <2>7
  <2>9. /\ Cardinality({b \in Buckets : bk[b] # Nil}) = 0
        /\ Cardinality({t \in Threads : pc[t] = "usage"}) = 0
    BY <2>1, <2>3, <2>7
  <2> QED BY <2>6, <2>8, <2>9 DEF CountsExact
<1>2. TypeOK /\ WalkInv /\ ThreadInv /\ CountsExact /\ [Next]_vars => CountsExact'
  <2> SUFFICES ASSUME TypeOK, WalkInv, ThreadInv, CountsExact, [Next]_vars PROVE CountsExact'
    OBVIOUS
  <2>1. ASSUME NEW t \in Threads, Call(t) PROVE CountsExact'
    <3>1. /\ UNCHANGED <<bk, bv, value_count, usage_count>>
          /\ pc[t] = "idle" /\ pc'[t] = "iterate"
      BY <2>1 DEF Call, find, remove, exclusive, store, store_shared, Begin, At, Goto,
                  tableVars, TypeOK
    <3> QED BY <2>1, <3>1, CallOthers, CountsQuiet
  <2>2. CASE swap \/ flushed \/ UNCHANGED vars
    <3>1. UNCHANGED <<bk, bv, value_count, usage_count, pc, prev>>
      BY <2>2 DEF swap, flushed, vars, tableVars
    <3> QED BY <3>1 DEF CountsExact, NullRef
  <2> QED BY <2>1, <2>2, CountsKept DEF Next
<1> QED BY <1>1, <1>2, TypeCorrect, WalksCorrect, ThreadsCorrect, PTL DEF Spec
-----------------------------------------------------------------------------
(***************************************************************************)
(* Table implements AtomicMap: each operation takes effect in one step, at *)
(* its exchange, its compare-and-swap, its load, or the end of a walk that *)
(* has found no bucket, and every other step changes nothing that a caller *)
(* can see.                                                                *)
(***************************************************************************)

(* The state of the atomic map that a state of the table stands for. *)
MapNow == [k \in Keys |-> ValueOf(k)]
CallNow == [t \in Threads |-> Operation(t)]

-----------------------------------------------------------------------------
(* The map.                                                                *)

LEMMA FoundValue ==
    ASSUME OneBucketPerKey, NEW b \in Buckets, NEW k \in Keys, bk[b] = k
    PROVE  ValueOf(k) = bv[b].ptr
<1>1. (CHOOSE c \in Buckets : bk[c] = k) = b BY NilAssumption DEF OneBucketPerKey
<1> QED BY <1>1 DEF ValueOf

LEMMA AbsentValue ==
    ASSUME NEW k \in Keys, \A b \in Buckets : bk[b] # k
    PROVE  ValueOf(k) = Nil
BY DEF ValueOf

LEMMA SameMap ==
    ASSUME UNCHANGED <<bk, bv>>
    PROVE  MapNow' = MapNow
BY DEF MapNow, ValueOf

LEMMA NextValues ==
    ASSUME OneBucketPerKey'
    PROVE  /\ \A b \in Buckets, k \in Keys : bk'[b] = k => ValueOf(k)' = bv'[b].ptr
           /\ \A k \in Keys : (\A b \in Buckets : bk'[b] # k) => ValueOf(k)' = Nil
<1>1. ASSUME NEW b \in Buckets, NEW k \in Keys, bk'[b] = k PROVE ValueOf(k)' = bv'[b].ptr
  <2>1. \A c \in Buckets : bk'[c] = k => c = b BY <1>1, NilAssumption DEF OneBucketPerKey
  <2>2. (CHOOSE c \in Buckets : bk'[c] = k) = b BY <1>1, <2>1
  <2> QED BY <1>1, <2>2 DEF ValueOf
<1>2. ASSUME NEW k \in Keys, \A b \in Buckets : bk'[b] # k PROVE ValueOf(k)' = Nil
  BY <1>2 DEF ValueOf
<1> QED BY <1>1, <1>2

(* What is written into the bucket of a key is the new value of the key. *)
LEMMA WriteMap ==
    ASSUME TypeOK, OneBucketPerKey, OneBucketPerKey',
           NEW b \in Buckets, NEW k \in Keys, bk[b] = k, bk' = bk,
           NEW r, bv' = [bv EXCEPT ![b] = r]
    PROVE  MapNow' = [MapNow EXCEPT ![k] = r.ptr]
<1>1. bv'[b] = r /\ \A c \in Buckets \ {b} : bv'[c] = bv[c] BY DEF TypeOK
<1>2. ValueOf(k)' = r.ptr BY <1>1, NextValues
<1>3. ASSUME NEW l \in Keys, l # k PROVE ValueOf(l)' = ValueOf(l)
  <2>1. CASE \E c \in Buckets : bk[c] = l
    <3>1. PICK c \in Buckets : bk[c] = l BY <2>1
    <3>2. c # b BY <1>3, <3>1
    <3> QED BY <1>1, <3>1, <3>2, NextValues, FoundValue
  <2>2. CASE \A c \in Buckets : bk[c] # l
    BY <2>2, NextValues, AbsentValue
  <2> QED BY <2>1, <2>2
<1> QED BY <1>2, <1>3 DEF MapNow

(* A bucket that a thread claims for its key has no value yet. *)
LEMMA ClaimMap ==
    ASSUME TypeOK, WalkInv, OneBucketPerKey, OneBucketPerKey', ThreadInv,
           NEW t \in Threads, ClaimsBucket(t)
    PROVE  MapNow' = MapNow
<1>1. PICK b \in Buckets : b = Slot(t) BY SlotIsBucket
<1>2. /\ bk[b] = Nil /\ bk' = [bk EXCEPT ![b] = key[t]] /\ bv' = bv /\ pc[t] = "action"
  BY <1>1 DEF ClaimsBucket
<1>3. key[t] \in Keys /\ bk'[b] = key[t] /\ \A c \in Buckets \ {b} : bk'[c] = bk[c]
  BY <1>2 DEF TypeOK
<1>4. \A c \in Buckets : bk[c] # key[t] BY <1>1, <1>2, WalkEnds
<1>5. bv'[b].ptr = Nil BY <1>2, NullRefs DEF ThreadInv, NullUnflagged
<1>6. ASSUME NEW l \in Keys PROVE ValueOf(l)' = ValueOf(l)
  <2>1. CASE l = key[t]
    <3>1. ValueOf(l) = Nil BY <1>4, <2>1, AbsentValue
    <3>2. ValueOf(l)' = Nil BY <1>3, <1>5, <2>1, NextValues
    <3> QED BY <3>1, <3>2
  <2>2. CASE l # key[t] /\ \E c \in Buckets : bk[c] = l
    <3>1. PICK c \in Buckets : bk[c] = l BY <2>2
    <3>2. c # b /\ bk'[c] = l BY <1>2, <1>3, <3>1, NilAssumption
    <3> QED BY <1>2, <3>1, <3>2, NextValues, FoundValue
  <2>3. CASE l # key[t] /\ \A c \in Buckets : bk[c] # l
    <3>1. \A c \in Buckets : bk'[c] # l BY <1>3, <2>3
    <3> QED BY <2>3, <3>1, NextValues, AbsentValue
  <2> QED BY <2>1, <2>2, <2>3
<1> QED BY <1>6 DEF MapNow

-----------------------------------------------------------------------------
(* The calls.                                                              *)

LEMMA CallsOthers ==
    ASSUME NEW t \in Threads, OthersSame(t)
    PROVE  CallNow' = [CallNow EXCEPT ![t] = Operation(t)']
<1>1. \A u \in Threads \ {t} : Operation(u)' = Operation(u)
  BY DEF OthersSame, SameThread, Operation, Done
<1> QED BY <1>1 DEF CallNow

LEMMA StutterStep ==
    ASSUME NEW t \in Threads, OthersSame(t), MapNow' = MapNow, Operation(t)' = Operation(t)
    PROVE  UNCHANGED Map!vars
<1>1. CallNow' = CallNow BY CallsOthers DEF CallNow
<1> QED BY <1>1 DEF Map!vars, MapNow, CallNow

LEMMA IdleOperation ==
    ASSUME NEW t \in Threads, Local(t), pc[t] = "idle"
    PROVE  Operation(t) = Map!Idle
BY NullRefs DEF Local, Done, Operation, Map!Idle, Map!Operation, Map!Refused, Map!Result,
                Refused, Result

LEMMA CallStep ==
    ASSUME TypeOK, TypeOK', NEW t \in Threads, ThreadInv, ThreadInv', Call(t)
    PROVE  Map!Call(t)
<1>1. OthersSame(t) BY CallOthers
<1>2. /\ pc[t] = "idle" /\ pc'[t] = "iterate" /\ UNCHANGED <<bk, bv, res>>
  BY DEF Call, find, remove, exclusive, store, store_shared, Begin, At, Goto, tableVars, TypeOK
<1>3. MapNow' = MapNow BY <1>2, SameMap
<1>4. CallNow[t] = Map!Idle BY <1>2, IdleOperation DEF ThreadInv, CallNow
<1>5. op'[t] \in Map!Ops /\ key'[t] \in Keys /\ ref'[t].ptr \in Entries \cup {Nil}
  BY DEF TypeOK, Ops, Finders, Storers, Map!Ops, Refs
<1>6. res'[t] = Refused BY <1>2 DEF ThreadInv, Local, Done
<1>7. Operation(t)' = Map!Operation("called", op'[t], key'[t], ref'[t].ptr, Map!Refused)
  BY <1>2, <1>6 DEF Operation, Done, Map!Operation, Map!Refused, Map!Result, Refused, Result
<1>8. CallNow' = [CallNow EXCEPT ![t] =
                      Map!Operation("called", op'[t], key'[t], ref'[t].ptr, Map!Refused)]
  BY <1>1, <1>7, CallsOthers
<1> QED BY <1>3, <1>4, <1>5, <1>8 DEF Map!Call, MapNow, CallNow

LEMMA ReturnStep ==
    ASSUME TypeOK, NEW t \in Threads, ThreadInv', return(t)
    PROVE  Map!Return(t)
<1>1. OthersSame(t) BY StepOthers DEF Step
<1>2. pc[t] = "return" /\ pc'[t] = "idle" /\ UNCHANGED <<bk, bv>>
  BY DEF return, At, Goto, tableVars, TypeOK
<1>3. MapNow' = MapNow BY <1>2, SameMap
<1>4. CallNow[t].st = "done" BY <1>2 DEF CallNow, Operation, Done
<1>5. Operation(t)' = Map!Idle
  <2>1. res'[t] = Refused /\ ref'[t] = NullRef BY <1>2 DEF ThreadInv, Local, Done
  <2> QED BY <1>2, <2>1, NullRefs DEF Operation, Done, Map!Idle, Map!Operation, Map!Refused,
          Map!Result, Refused, Result
<1>6. CallNow' = [CallNow EXCEPT ![t] = Map!Idle] BY <1>1, <1>5, CallsOthers
<1> QED BY <1>3, <1>4, <1>6 DEF Map!Return, MapNow, CallNow

(* The thread keeps its arguments. *)
SameCall(t) == op'[t] = op[t] /\ key'[t] = key[t] /\ ref'[t] = ref[t]

(* A step on the way to the effect of the operation, or after it. *)
LEMMA InvisibleStep ==
    ASSUME NEW t \in Threads, OthersSame(t), MapNow' = MapNow, SameCall(t),
           pc[t] # "idle", pc'[t] # "idle", Done(t)' <=> Done(t), res'[t] = res[t]
    PROVE  UNCHANGED Map!vars
<1>1. Operation(t)' = Operation(t) BY DEF SameCall, Operation
<1> QED BY <1>1, StutterStep

(* The step in which the operation takes effect. *)
LEMMA ApplyStep ==
    ASSUME NEW t \in Threads, OthersSame(t), SameCall(t),
           pc[t] # "idle", pc'[t] # "idle", ~Done(t), Done(t)',
           Map!Effect(op[t], key[t], ref[t].ptr, MapNow', res'[t])
    PROVE  Map!Apply(t)
<1>1. /\ CallNow[t] = [st |-> "called", op |-> op[t], key |-> key[t], val |-> ref[t].ptr,
                       res |-> res[t]]
      /\ Operation(t)' = [st |-> "done", op |-> op[t], key |-> key[t], val |-> ref[t].ptr,
                          res |-> res'[t]]
  BY DEF CallNow, Operation, SameCall
<1>2. CallNow' = [CallNow EXCEPT ![t] = Operation(t)'] BY CallsOthers
<1>3. CallNow'[t] = Operation(t)' BY DEF CallNow
<1>4. Operation(t)' = [CallNow[t] EXCEPT !.st = "done", !.res = CallNow'[t].res]
  <2>1. PICK c : c = CallNow[t] OBVIOUS
  <2>2. PICK r : r = res'[t] OBVIOUS
  <2>3. PICK o, k, v, q : o = op[t] /\ k = key[t] /\ v = ref[t].ptr /\ q = res[t] OBVIOUS
  <2>4. CallNow'[t].res = r BY <1>1, <1>3, <2>2
  <2>5. c = [st |-> "called", op |-> o, key |-> k, val |-> v, res |-> q]
    BY <1>1, <2>1, <2>3
  <2>6. [c EXCEPT !.st = "done", !.res = r]
        = [st |-> "done", op |-> o, key |-> k, val |-> v, res |-> r]
    <3>1. DOMAIN c = {"st", "op", "key", "val", "res"} BY <2>5
    <3>2. [c EXCEPT !.st = "done", !.res = r]
          = [f \in DOMAIN c |-> IF f = "res" THEN r ELSE IF f = "st" THEN "done" ELSE c[f]]
      BY <2>5
    <3>3. [st |-> "done", op |-> o, key |-> k, val |-> v, res |-> r]
          = [f \in {"st", "op", "key", "val", "res"} |->
                IF f = "res" THEN r ELSE IF f = "st" THEN "done" ELSE c[f]]
      BY <2>5
    <3> QED BY <3>1, <3>2, <3>3
  <2> QED BY <1>1, <2>1, <2>2, <2>3, <2>4, <2>6
<1>5. CallNow' = [CallNow EXCEPT ![t].st = "done", ![t].res = CallNow'[t].res]
  BY <1>2, <1>4 DEF CallNow
<1>6. /\ CallNow[t].st = "called" /\ CallNow[t].op = op[t] /\ CallNow[t].key = key[t]
      /\ CallNow[t].val = ref[t].ptr /\ CallNow'[t].res = res'[t]
  BY <1>1, <1>3
<1>7. Map!Effect(CallNow[t].op, CallNow[t].key, CallNow[t].val, MapNow', CallNow'[t].res)
  BY <1>6
<1> QED BY <1>5, <1>6, <1>7 DEF Map!Apply, CallNow, MapNow

(* The results and effects, in the terms of this module. *)
LEMMA Effects ==
    ASSUME NEW k \in Keys, NEW o, NEW v, NEW m, NEW r,
           \/ o = "find" /\ m = MapNow /\ r = Result(MapNow[k] # Nil, MapNow[k])
           \/ o = "set" /\ m = [MapNow EXCEPT ![k] = v] /\ r = Result(TRUE, Nil)
           \/ /\ o = "add" /\ MapNow[k] = Nil
              /\ m = [MapNow EXCEPT ![k] = v] /\ r = Result(TRUE, v)
           \/ o = "add" /\ MapNow[k] # Nil /\ m = MapNow /\ r = Result(FALSE, MapNow[k])
           \/ o \in {"set", "add"} /\ MapNow[k] = Nil /\ m = MapNow /\ r = Refused
           \/ /\ o = "replace" /\ MapNow[k] # Nil
              /\ m = [MapNow EXCEPT ![k] = v] /\ r = Result(TRUE, Nil)
           \/ o = "replace" /\ MapNow[k] = Nil /\ m = MapNow /\ r = Refused
           \/ o = "remove" /\ m = [MapNow EXCEPT ![k] = Nil] /\ r = Result(MapNow[k] # Nil, Nil)
           \/ o = "exclusive" /\ m = MapNow /\ r = Result(TRUE, Nil)
    PROVE  Map!Effect(o, k, v, m, r)
BY DEF Map!Effect, Map!Result, Map!Refused, Result, Refused, MapNow

-----------------------------------------------------------------------------
(* The steps.                                                              *)

LEMMA WalkImplements ==
    ASSUME TypeOK, WalkInv, OneBucketPerKey, OneBucketPerKey', ThreadInv, NEW t \in Threads,
           iterate_buckets(t) \/ find_bucket(t) \/ set_key(t) \/ usage_incr(t)
    PROVE  Map!Apply(t) \/ UNCHANGED Map!vars
<1>1. OthersSame(t) /\ Local(t) BY StepOthers DEF Step, ThreadInv
<1>2. SameCall(t) /\ pc[t] \in {"iterate", "action", "usage"} /\ ~Done(t) /\ t \in DOMAIN pc
      /\ pc[t] # "idle" /\ t \in DOMAIN res
  BY DEF iterate_buckets, find_bucket, set_key, usage_incr, SameCall, argVars, At, Done, TypeOK
<1>3. MapNow' = MapNow
  <2>1. UNCHANGED <<bk, bv>> \/ ClaimsBucket(t)
    BY DEF iterate_buckets, find_bucket, set_key, usage_incr, tableVars, ClaimsBucket, At
  <2> QED BY <2>1, SameMap, ClaimMap
<1>4. ASSUME res'[t] = res[t], pc'[t] \in {"iterate", "action", "usage", "value"}
      PROVE  UNCHANGED Map!vars
  <2>1. pc'[t] # "idle" /\ ~Done(t)' BY <1>4 DEF Done
  <2> QED BY <1>1, <1>2, <1>3, <1>4, <2>1, InvisibleStep
<1>5. CASE usage_incr(t)
  BY <1>2, <1>4, <1>5 DEF usage_incr, Goto
<1>6. ASSUME iterate_buckets(t) \/ find_bucket(t) \/ set_key(t), pc'[t] \in {"release", "return"}
      PROVE  Map!Apply(t) \/ UNCHANGED Map!vars
  <2>1. NotFound(t) /\ \A b \in Buckets : bk[b] # key[t] BY <1>6, NotFoundAbsent
  <2>2. CASE op[t] = "exclusive"
    <3>1. pc'[t] = "release" /\ res' = res /\ op'[t] = "exclusive"
      BY <1>2, <2>1, <2>2 DEF NotFound, Goto, SameCall
    <3>2. pc'[t] # "idle" /\ ~Done(t)' BY <3>1 DEF Done
    <3> QED BY <1>1, <1>2, <1>3, <3>1, <3>2, InvisibleStep
  <2>3. CASE op[t] # "exclusive"
    <3>1. pc'[t] = "return" /\ res'[t] = Refused
      BY <1>2, <2>1, <2>3 DEF NotFound, Finish, Goto
    <3>2. key[t] \in Keys /\ op[t] \in Ops BY DEF TypeOK
    <3>3. MapNow[key[t]] = Nil BY <2>1, <3>2, AbsentValue DEF MapNow
    <3>4. Refused = Result(MapNow[key[t]] # Nil, MapNow[key[t]])
          /\ Refused = Result(MapNow[key[t]] # Nil, Nil)
      BY <3>3 DEF Refused, Result
    <3>5. MapNow = [MapNow EXCEPT ![key[t]] = Nil] BY <3>2, <3>3 DEF MapNow
    <3>6. Map!Effect(op[t], key[t], ref[t].ptr, MapNow', res'[t])
      BY <1>3, <2>3, <3>1, <3>2, <3>3, <3>4, <3>5, Effects DEF Ops, Finders, Storers
    <3>7. pc'[t] # "idle" /\ Done(t)' BY <3>1 DEF Done
    <3> QED BY <1>1, <1>2, <3>6, <3>7, ApplyStep
  <2> QED BY <2>2, <2>3
<1>7. ASSUME Advance(t) \/ NotFound(t)
      PROVE  \/ pc'[t] = "iterate" /\ res'[t] = res[t]
             \/ pc'[t] \in {"release", "return"}
  BY <1>2, <1>7 DEF Advance, NotFound, Finish, Goto
<1>8. CASE iterate_buckets(t)
  BY <1>2, <1>4, <1>6, <1>7, <1>8 DEF iterate_buckets, Goto
<1>9. CASE find_bucket(t)
  BY <1>2, <1>4, <1>6, <1>7, <1>9 DEF find_bucket, Goto
<1>10. CASE set_key(t)
  BY <1>2, <1>4, <1>6, <1>7, <1>10 DEF set_key, Goto
<1> QED BY <1>5, <1>8, <1>9, <1>10

LEMMA ValueImplements ==
    ASSUME TypeOK, WalkInv, OneBucketPerKey, OneBucketPerKey', ThreadInv, NEW t \in Threads,
           \/ find_value(t) \/ set_value(t) \/ add_value(t) \/ replace_load(t)
           \/ replace_value(t) \/ remove_value(t) \/ exclusive_value(t)
    PROVE  Map!Apply(t) \/ UNCHANGED Map!vars
<1>1. OthersSame(t) /\ Local(t) BY StepOthers DEF Step, ThreadInv
<1>2. /\ SameCall(t) /\ pc[t] \in {"value", "cas"} /\ ~Done(t) /\ t \in DOMAIN pc
      /\ pc[t] # "idle" /\ t \in DOMAIN res /\ t \in DOMAIN prev /\ bk' = bk
  BY DEF find_value, set_value, add_value, replace_load, replace_value, remove_value,
         exclusive_value, SameCall, argVars, tableVars, At, Done, TypeOK
<1>3. PICK b \in Buckets : b = Slot(t) BY SlotIsBucket
<1>4. PICK k \in Keys : k = key[t] BY DEF TypeOK
<1>5. bk[b] = k BY <1>2, <1>3, <1>4 DEF WalkInv, AtOwnBucket
<1>6. MapNow[k] = bv[b].ptr BY <1>5, FoundValue DEF MapNow
<1>7. bv[b] = NullRef <=> bv[b].ptr = Nil BY NullRefs DEF ThreadInv, NullUnflagged
<1>8. bv' = bv => MapNow' = MapNow BY <1>2, SameMap
<1>9. \A r : bv' = [bv EXCEPT ![b] = r] => MapNow' = [MapNow EXCEPT ![k] = r.ptr]
  BY <1>2, <1>5, WriteMap
<1>10. ASSUME NEW p \in {"changed", "decr", "return"}, Goto(t, p),
              Map!Effect(op[t], k, ref[t].ptr, MapNow', res'[t])
       PROVE  Map!Apply(t)
  <2>1. pc'[t] # "idle" /\ Done(t)' BY <1>2, <1>10 DEF Goto, Done
  <2> QED BY <1>1, <1>2, <1>4, <1>10, <2>1, ApplyStep
<1>11. ASSUME NEW p \in {"cas", "release"}, Goto(t, p), bv' = bv, res'[t] = res[t],
              op[t] # "remove"
       PROVE  UNCHANGED Map!vars
  <2>1. pc'[t] # "idle" /\ ~Done(t)' BY <1>2, <1>11 DEF Goto, Done, SameCall
  <2> QED BY <1>1, <1>2, <1>8, <1>11, <2>1, InvisibleStep
<1>12. CASE find_value(t)
  <2>1. bv' = bv /\ res'[t] = Result(MapNow[k] # Nil, MapNow[k]) /\ op[t] = "find"
    BY <1>2, <1>3, <1>6, <1>12 DEF find_value, Finish, tableVars
  <2>2. Map!Effect(op[t], k, ref[t].ptr, MapNow', res'[t]) BY <1>8, <2>1, Effects
  <2> QED BY <1>10, <1>12, <2>2 DEF find_value, Finish
<1>13. CASE set_value(t)
  <2>1. /\ MapNow' = [MapNow EXCEPT ![k] = ref[t].ptr] /\ res'[t] = Result(TRUE, Nil)
        /\ op[t] = "set"
    BY <1>2, <1>3, <1>9, <1>13 DEF set_value
  <2>2. Map!Effect(op[t], k, ref[t].ptr, MapNow', res'[t]) BY <2>1, Effects
  <2> QED BY <1>10, <1>13, <2>2 DEF set_value
<1>14. CASE add_value(t)
  <2>1. CASE bv[b] = NullRef
    <3>1. /\ MapNow' = [MapNow EXCEPT ![k] = ref[t].ptr] /\ res'[t] = Result(TRUE, ref[t].ptr)
          /\ op[t] = "add" /\ MapNow[k] = Nil /\ Goto(t, "changed")
      BY <1>2, <1>3, <1>6, <1>7, <1>9, <1>14, <2>1 DEF add_value
    <3>2. Map!Effect(op[t], k, ref[t].ptr, MapNow', res'[t]) BY <3>1, Effects
    <3> QED BY <1>10, <3>1, <3>2
  <2>2. CASE bv[b] # NullRef
    <3>1. /\ MapNow' = MapNow /\ res'[t] = Result(FALSE, MapNow[k])
          /\ op[t] = "add" /\ MapNow[k] # Nil /\ Goto(t, "return")
      BY <1>2, <1>3, <1>6, <1>7, <1>8, <1>14, <2>2 DEF add_value, Finish
    <3>2. Map!Effect(op[t], k, ref[t].ptr, MapNow', res'[t]) BY <3>1, Effects
    <3> QED BY <1>10, <3>1, <3>2
  <2> QED BY <2>1, <2>2
<1>15. ASSUME op[t] = "replace", ReplaceCheck(t, bv[b]), bv' = bv
       PROVE  Map!Apply(t) \/ UNCHANGED Map!vars
  <2>1. CASE bv[b] = NullRef
    <3>1. MapNow' = MapNow /\ res'[t] = Refused /\ MapNow[k] = Nil /\ Goto(t, "return")
      BY <1>2, <1>6, <1>7, <1>8, <1>15, <2>1 DEF ReplaceCheck, Finish
    <3>2. Map!Effect(op[t], k, ref[t].ptr, MapNow', res'[t]) BY <1>15, <3>1, Effects
    <3> QED BY <1>10, <3>1, <3>2
  <2>2. CASE bv[b] # NullRef BY <1>11, <1>15, <2>2 DEF ReplaceCheck
  <2> QED BY <2>1, <2>2
<1>16. CASE replace_load(t) BY <1>3, <1>15, <1>16 DEF replace_load, tableVars
<1>17. CASE replace_value(t)
  <2>1. op[t] = "replace" /\ prev[t] # NullRef BY <1>1, <1>17 DEF replace_value, At, Local
  <2>2. CASE bv[b] = prev[t]
    <3>1. /\ MapNow' = [MapNow EXCEPT ![k] = ref[t].ptr] /\ res'[t] = Result(TRUE, Nil)
          /\ MapNow[k] # Nil /\ Goto(t, "changed")
      BY <1>2, <1>3, <1>6, <1>7, <1>9, <1>17, <2>1, <2>2 DEF replace_value
    <3>2. Map!Effect(op[t], k, ref[t].ptr, MapNow', res'[t]) BY <2>1, <3>1, Effects
    <3> QED BY <1>10, <3>1, <3>2
  <2>3. CASE bv[b] # prev[t] BY <1>3, <1>15, <1>17, <2>1, <2>3 DEF replace_value
  <2> QED BY <2>2, <2>3
<1>18. CASE remove_value(t)
  <2>1. op[t] = "remove" /\ bv' = [bv EXCEPT ![b] = NullRef] BY <1>3, <1>18 DEF remove_value
  <2>2. MapNow' = [MapNow EXCEPT ![k] = Nil] BY <1>9, <2>1, NullRefs
  <2>3. /\ res'[t] = Result(MapNow[k] # Nil, Nil)
        /\ Goto(t, "return") \/ Goto(t, "decr")
    <3>1. CASE bv[b] = NullRef
      BY <1>2, <1>3, <1>6, <1>7, <1>18, <3>1 DEF remove_value, Finish, Refused
    <3>2. CASE bv[b] # NullRef
      BY <1>2, <1>3, <1>6, <1>7, <1>18, <3>2 DEF remove_value
    <3> QED BY <3>1, <3>2
  <2>4. Map!Effect(op[t], k, ref[t].ptr, MapNow', res'[t]) BY <2>1, <2>2, <2>3, Effects
  <2> QED BY <1>10, <2>3, <2>4
<1>19. CASE exclusive_value(t)
  <2>1. op[t] = "exclusive" BY <1>19 DEF exclusive_value
  <2>2. CASE Goto(t, "release") /\ bv' = bv /\ res' = res BY <1>11, <2>1, <2>2
  <2>3. CASE /\ Finish(t, Result(TRUE, Nil))
             /\ \/ bv' = bv
                \/ bv[b] = ref[t] /\ bv' = [bv EXCEPT ![b] = Ref(ref[t].ptr, FALSE)]
    <3>1. MapNow' = MapNow
      <4>1. CASE bv[b] = ref[t] /\ bv' = [bv EXCEPT ![b] = Ref(ref[t].ptr, FALSE)]
        <5>1. Ref(ref[t].ptr, FALSE).ptr = ref[t].ptr BY DEF Ref
        <5>2. MapNow' = [MapNow EXCEPT ![k] = ref[t].ptr] BY <1>9, <4>1, <5>1
        <5>3. [MapNow EXCEPT ![k] = MapNow[k]] = MapNow BY DEF MapNow
        <5> QED BY <1>6, <4>1, <5>2, <5>3
      <4> QED BY <1>8, <2>3, <4>1
    <3>2. res'[t] = Result(TRUE, Nil) /\ Goto(t, "return") BY <1>2, <2>3 DEF Finish
    <3>3. Map!Effect(op[t], k, ref[t].ptr, MapNow', res'[t]) BY <2>1, <3>1, <3>2, Effects
    <3> QED BY <1>10, <3>2, <3>3
  <2> QED BY <1>3, <1>19, <2>2, <2>3 DEF exclusive_value
<1> QED BY <1>12, <1>13, <1>14, <1>16, <1>17, <1>18, <1>19

(* What follows the effect: counting, releasing, returning. *)
LEMMA ReleaseImplements ==
    ASSUME TypeOK, ThreadInv, ThreadInv', NEW t \in Threads,
           \/ changed_value(t) \/ remove_decr(t) \/ remove_release(t)
           \/ exclusive_release(t) \/ return(t)
    PROVE  Map!Apply(t) \/ Map!Return(t) \/ UNCHANGED Map!vars
<1>1. OthersSame(t) /\ Local(t) BY StepOthers DEF Step, ThreadInv
<1>2. t \in DOMAIN pc /\ t \in DOMAIN res BY DEF TypeOK
<1>3. CASE return(t) BY <1>3, ReturnStep
<1>4. CASE changed_value(t) \/ remove_decr(t) \/ remove_release(t)
  <2>1. /\ UNCHANGED <<bk, bv, res>> /\ SameCall(t) /\ Done(t) /\ Done(t)'
        /\ pc[t] # "idle" /\ pc'[t] # "idle"
    BY <1>1, <1>2, <1>4 DEF changed_value, remove_decr, remove_release, ReleasePrev, Goto, At,
       argVars, tableVars, SameCall, Done, Local
  <2> QED BY <1>1, <2>1, SameMap, InvisibleStep
<1>5. CASE exclusive_release(t)
  <2>1. /\ UNCHANGED <<bk, bv>> /\ SameCall(t) /\ ~Done(t) /\ pc[t] = "release"
        /\ op[t] = "exclusive"
    BY <1>5 DEF exclusive_release, At, argVars, tableVars, SameCall, Done
  <2>2. CASE UNCHANGED <<pc, res>>
    <3>1. ~Done(t)' /\ pc'[t] # "idle" /\ pc[t] # "idle" BY <2>1, <2>2 DEF Done, SameCall
    <3> QED BY <1>1, <2>1, <2>2, <3>1, SameMap, InvisibleStep
  <2>3. CASE Finish(t, Result(TRUE, Nil))
    <3>1. res'[t] = Result(TRUE, Nil) /\ pc'[t] = "return" BY <1>2, <2>3 DEF Finish, Goto
    <3>2. MapNow' = MapNow /\ key[t] \in Keys BY <2>1, SameMap DEF TypeOK
    <3>3. Map!Effect(op[t], key[t], ref[t].ptr, MapNow', res'[t])
      BY <2>1, <3>1, <3>2, Effects
    <3>4. Done(t)' /\ pc[t] # "idle" /\ pc'[t] # "idle" BY <2>1, <3>1 DEF Done
    <3> QED BY <1>1, <2>1, <3>3, <3>4, ApplyStep
  <2> QED BY <1>5, <2>2, <2>3 DEF exclusive_release
<1> QED BY <1>3, <1>4, <1>5

LEMMA NextImplements ==
    ASSUME TypeOK, TypeOK', WalkInv, OneBucketPerKey, OneBucketPerKey', ThreadInv, ThreadInv',
           [Next]_vars
    PROVE  [Map!Next]_(Map!vars)
<1>1. ASSUME NEW t \in Threads, Call(t) PROVE Map!Next
  BY <1>1, CallStep DEF Map!Next
<1>2. ASSUME NEW t \in Threads, Step(t) PROVE Map!Next \/ UNCHANGED Map!vars
  <2>1. Map!Apply(t) \/ Map!Return(t) \/ UNCHANGED Map!vars
    BY <1>2, WalkImplements, ValueImplements, ReleaseImplements DEF Step
  <2> QED BY <2>1 DEF Map!Next
<1>3. CASE swap \/ flushed \/ UNCHANGED vars
  <2>1. UNCHANGED <<bk, bv, pc, op, key, ref, res>>
    BY <1>3 DEF swap, flushed, vars, tableVars, argVars
  <2>2. CallNow' = CallNow BY <2>1 DEF CallNow, Operation, Done
  <2> QED BY <2>1, <2>2, SameMap DEF Map!vars, MapNow, CallNow
<1> QED BY <1>1, <1>2, <1>3 DEF Next

LEMMA InitImplements == Init => Map!Init
<1> SUFFICES ASSUME Init PROVE Map!Init
  OBVIOUS
<1>1. \A k \in Keys : ValueOf(k) = Nil
  BY AbsentValue, NilAssumption DEF Init
<1>2. ASSUME NEW t \in Threads PROVE Operation(t) = Map!Idle
  <2>1. /\ pc[t] = "idle" /\ ref[t] = NullRef /\ res[t] = Refused BY DEF Init
  <2> QED BY <2>1, NullRefs DEF Operation, Map!Idle, Map!Operation, Map!Refused, Map!Result,
                                Refused, Result
<1> QED BY <1>1, <1>2 DEF Map!Init

(***************************************************************************)
(* The table is linearizable: whatever loads, exchanges and compare-and-   *)
(* swaps of set, add, replace, remove, find and exclusive interleave, the  *)
(* callers see the operations of an atomic map.                            *)
(***************************************************************************)
THEOREM TableLinearizable == Spec => Linearizable
<1>1. TypeOK /\ TypeOK' /\ WalkInv /\ OneBucketPerKey /\ OneBucketPerKey' /\ ThreadInv
      /\ ThreadInv' /\ [Next]_vars => [Map!Next]_(Map!vars)
  BY NextImplements
<1> QED BY <1>1, InitImplements, TypeCorrect, WalksCorrect, KeysUnique, ThreadsCorrect, PTL
        DEF Spec, Linearizable, Map!Spec
=============================================================================
