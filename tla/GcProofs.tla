------------------------------- MODULE GcProofs -------------------------------
(***************************************************************************)
(* Proofs about Gc, for any number of CPUs and objects, with and without   *)
(* recycled addresses and threads that leave.                              *)
(***************************************************************************)
EXTENDS Gc, SequenceTheorems, TLAPS

(* Sequences, one element at a time. *)
LEMMA AppendFacts ==
    ASSUME NEW s \in Seq(Objects), NEW a \in Objects
    PROVE  /\ Append(s, a) \in Seq(Objects)
           /\ Len(Append(s, a)) = Len(s) + 1
           /\ \A n \in 1..Len(s) : Append(s, a)[n] = s[n]
           /\ Append(s, a)[Len(s) + 1] = a
BY AppendProperties

LEMMA SubSeqFacts ==
    ASSUME NEW s \in Seq(Objects), NEW k \in 0..Len(s)
    PROVE  LET t == SubSeq(s, k + 1, Len(s))
           IN /\ t \in Seq(Objects)
              /\ Len(t) = Len(s) - k
              /\ \A n \in 1..Len(t) : t[n] = s[n + k]
<1> DEFINE t == SubSeq(s, k + 1, Len(s))
<1>1. Len(s) \in Nat OBVIOUS
<1>2. /\ t \in Seq(Objects)
      /\ Len(t) = IF k + 1 <= Len(s) THEN Len(s) - (k + 1) + 1 ELSE 0
      /\ \A n \in 1..Len(s) - (k + 1) + 1 : t[n] = s[k + 1 + n - 1]
  <2>1. \A x \in (k + 1)..Len(s) : s[x] \in Objects BY <1>1
  <2> QED BY <1>1, <2>1, SubSeqProperties
<1>3. Len(t) = Len(s) - k BY <1>1, <1>2
<1>4. ASSUME NEW n \in 1..Len(t) PROVE t[n] = s[n + k]
  BY <1>1, <1>2, <1>3
<1> QED BY <1>2, <1>3, <1>4

LEMMA ListedIsObject ==
    ASSUME TypeOK, NEW c \in Cpus, NEW n \in 1..Len(pending[c])
    PROVE  pending[c][n] \in Objects
BY DEF TypeOK

-----------------------------------------------------------------------------
(* Type correctness.                                                       *)

LEMMA NewestType ==
    ASSUME TypeOK, NEW c \in Cpus
    PROVE  Newest(c) \in Objects \cup {Nil}
<1>1. CASE pending[c] = <<>> BY <1>1 DEF Newest
<1>2. CASE pending[c] # <<>>
  <2>1. pending[c] \in Seq(Objects) BY DEF TypeOK
  <2>2. Len(pending[c]) \in 1..Len(pending[c]) BY <1>2, <2>1
  <2> QED BY <1>2, <2>1, <2>2 DEF Newest
<1> QED BY <1>1, <1>2

(***************************************************************************)
(* The two conjuncts of TypeOK about several variables, separated so that  *)
(* the typing of each variable can be proved on its own.                   *)
(***************************************************************************)
VarTypes ==
    /\ mask \in SUBSET Cpus
    /\ life \in [Cpus -> {"new", "running", "leaving", "left", "gone"}]
    /\ state \in [Objects -> {"unused", "live", "freed", "deleted"}]
    /\ seen \in [Objects -> SUBSET Cpus]
    /\ pending \in [Cpus -> Seq(Objects)]
    /\ last_observed \in [Cpus -> [Cpus -> Objects \cup {Nil}]]
    /\ refs \in [Cpus -> SUBSET Objects]
    /\ pc \in [Cpus -> {"idle", "observe", "mark", "walk", "exit"}]
    /\ i \in [Cpus -> Cpus]
    /\ head \in [Cpus -> Objects \cup {Nil}]
    /\ at \in [Cpus -> Nat]
    /\ acc \in [Cpus -> SUBSET Cpus]

AtListed == \A c \in Cpus : at[c] <= Len(pending[c])

MarkHasHead == \A c \in Cpus : pc[c] = "mark" => head[c] # Nil

LEMMA TypeParts == TypeOK <=> VarTypes /\ AtListed /\ MarkHasHead
BY DEF TypeOK, VarTypes, AtListed, MarkHasHead

LEMMA ObservedType ==
    ASSUME TypeOK, NEW c \in Cpus, NEW h \in Objects \cup {Nil}, Observed(c, h),
           UNCHANGED pending
    PROVE  /\ last_observed' \in [Cpus -> [Cpus -> Objects \cup {Nil}]]
           /\ i' \in [Cpus -> Cpus]
           /\ pc' \in [Cpus -> {"idle", "observe", "mark", "walk", "exit"}]
           /\ pc'[c] # "mark" /\ \A d \in Cpus \ {c} : pc'[d] = pc[d]
           /\ at' \in [Cpus -> Nat]
           /\ AtListed'
<1>1. last_observed' \in [Cpus -> [Cpus -> Objects \cup {Nil}]]
  BY DEF TypeOK, Observed
<1>2. i[c] \in Nat /\ i[c] >= 1 /\ i[c] <= MaxCpus BY MaxCpusAssumption DEF TypeOK, Cpus
<1>3. 1 \in Cpus /\ (i[c] < MaxCpus => i[c] + 1 \in Cpus)
  BY <1>2, MaxCpusAssumption DEF Cpus
<1>4. Len(pending[c]) \in Nat BY DEF TypeOK
<1>5. i' \in [Cpus -> Cpus] BY <1>3 DEF TypeOK, Observed, NextCpu
<1>6. /\ pc' \in [Cpus -> {"idle", "observe", "mark", "walk", "exit"}]
      /\ pc'[c] # "mark" /\ \A d \in Cpus \ {c} : pc'[d] = pc[d]
  BY DEF TypeOK, Observed, NextCpu, Goto
<1>7. at' \in [Cpus -> Nat] BY <1>4 DEF TypeOK, Observed, NextCpu
<1>8. ASSUME NEW d \in Cpus PROVE at'[d] <= Len(pending[d])
  <2>1. at[d] \in Nat /\ at[d] <= Len(pending[d]) /\ Len(pending[d]) \in Nat
    BY DEF TypeOK
  <2>2. CASE UNCHANGED at BY <2>1, <2>2
  <2>3. CASE at' = [at EXCEPT ![c] = Len(pending[c])]
    BY <2>1, <2>3 DEF TypeOK
  <2> QED BY <2>2, <2>3 DEF Observed, NextCpu
<1>9. AtListed' BY <1>8 DEF AtListed
<1> QED BY <1>1, <1>5, <1>6, <1>7, <1>9

LEMMA EndCheckpointType ==
    ASSUME TypeOK, NEW c \in Cpus, EndCheckpoint(c)
    PROVE  /\ pc' \in [Cpus -> {"idle", "observe", "mark", "walk", "exit"}]
           /\ pc'[c] # "mark" /\ \A d \in Cpus \ {c} : pc'[d] = pc[d]
           /\ life' \in [Cpus -> {"new", "running", "leaving", "left", "gone"}]
           /\ at' \in [Cpus -> Nat]
           /\ at'[c] = 0 /\ \A d \in Cpus \ {c} : at'[d] = at[d]
           /\ acc' \in [Cpus -> SUBSET Cpus]
BY DEF TypeOK, EndCheckpoint, Goto

LEMMA InitType == Init => TypeOK
<1> SUFFICES ASSUME Init PROVE TypeOK
  OBVIOUS
<1>1. pending \in [Cpus -> Seq(Objects)] BY DEF Init
<1>2. i \in [Cpus -> Cpus] BY MaxCpusAssumption DEF Init, Cpus
<1> QED BY <1>1, <1>2 DEF Init, TypeOK

LEMMA NextType ==
    ASSUME TypeOK, [Next]_vars
    PROVE  TypeOK'
<1> USE DEF VarTypes, AtListed, MarkHasHead
<1> SUFFICES VarTypes' /\ AtListed' /\ MarkHasHead'
  BY DEF TypeOK
<1>1. ASSUME NEW c \in Cpus, cpu_init(c) PROVE VarTypes' /\ AtListed' /\ MarkHasHead'
  BY <1>1 DEF TypeOK, cpu_init, objVars, walkVars
<1>2. ASSUME NEW c \in Cpus, alloc(c) PROVE VarTypes' /\ AtListed' /\ MarkHasHead'
  BY <1>2 DEF TypeOK, alloc, cpuVars, walkVars
<1>3. ASSUME NEW c \in Cpus, lookup(c) PROVE VarTypes' /\ AtListed' /\ MarkHasHead'
  BY <1>3 DEF TypeOK, lookup, cpuVars, objVars, walkVars
<1>4. ASSUME NEW c \in Cpus, gc_free(c) PROVE VarTypes' /\ AtListed' /\ MarkHasHead'
  <2>1. PICK a \in Objects :
            /\ state' = [state EXCEPT ![a] = "freed"]
            /\ pending' = [pending EXCEPT ![c] = Append(@, a)]
    BY <1>4 DEF gc_free
  <2>2. pending[c] \in Seq(Objects) BY DEF TypeOK
  <2>3. /\ Append(pending[c], a) \in Seq(Objects)
        /\ Len(Append(pending[c], a)) = Len(pending[c]) + 1
    BY <2>2, AppendFacts
  <2>4. VarTypes' /\ MarkHasHead'
    BY <1>4, <2>1, <2>3 DEF TypeOK, gc_free, cpuVars, walkVars
  <2>5. ASSUME NEW d \in Cpus PROVE at'[d] <= Len(pending'[d])
    <3>1. at' = at /\ at[d] \in Nat /\ at[d] <= Len(pending[d])
      BY <1>4 DEF TypeOK, gc_free, walkVars
    <3>2. CASE d = c BY <2>1, <2>2, <2>3, <3>1, <3>2 DEF TypeOK
    <3>3. CASE d # c BY <2>1, <3>1, <3>3 DEF TypeOK
    <3> QED BY <3>2, <3>3
  <2> QED BY <2>4, <2>5
<1>5. ASSUME NEW c \in Cpus, gc_checkpoint(c) \/ gc_exit(c) \/ cpu_exit(c)
      PROVE  VarTypes' /\ AtListed' /\ MarkHasHead'
  <2>1. BeginCheckpoint(c) BY <1>5 DEF gc_checkpoint, gc_exit, cpu_exit
  <2>2. /\ life' \in [Cpus -> {"new", "running", "leaving", "left", "gone"}]
        /\ mask' \in SUBSET Cpus
    <3>1. CASE gc_checkpoint(c) BY <3>1 DEF TypeOK, gc_checkpoint, cpuVars
    <3>2. CASE gc_exit(c) BY <3>2 DEF TypeOK, gc_exit
    <3>3. CASE cpu_exit(c) BY <3>3 DEF TypeOK, cpu_exit
    <3> QED BY <1>5, <3>1, <3>2, <3>3
  <2> QED BY <2>1, <2>2 DEF TypeOK, BeginCheckpoint, Goto, objVars, walkVars
<1>6. ASSUME NEW c \in Cpus, observe(c) PROVE VarTypes' /\ AtListed' /\ MarkHasHead'
  <2> DEFINE h == Newest(i[c])
  <2>1. h \in Objects \cup {Nil} BY NewestType DEF TypeOK
  <2>2. CASE Observed(c, h) /\ UNCHANGED head
    <3>1. UNCHANGED pending BY <1>6 DEF observe, objVars
    <3> QED BY <1>6, <2>1, <2>2, <3>1, ObservedType DEF TypeOK, observe, cpuVars, objVars
  <2>3. CASE /\ h # Nil /\ head' = [head EXCEPT ![c] = h]
             /\ Goto(c, "mark") /\ UNCHANGED <<last_observed, i, at>>
    BY <1>6, <2>1, <2>3 DEF TypeOK, observe, Goto, cpuVars, objVars
  <2> QED BY <1>6, <2>2, <2>3 DEF observe
<1>7. ASSUME NEW c \in Cpus, mark(c) PROVE VarTypes' /\ AtListed' /\ MarkHasHead'
  <2>1. head[c] \in Objects BY <1>7 DEF TypeOK, mark
  <2>2. UNCHANGED pending BY <1>7 DEF mark
  <2>3. /\ last_observed' \in [Cpus -> [Cpus -> Objects \cup {Nil}]]
        /\ i' \in [Cpus -> Cpus]
        /\ pc' \in [Cpus -> {"idle", "observe", "mark", "walk", "exit"}]
        /\ pc'[c] # "mark" /\ \A d \in Cpus \ {c} : pc'[d] = pc[d]
        /\ at' \in [Cpus -> Nat]
        /\ AtListed'
    BY <1>7, <2>1, <2>2, ObservedType DEF mark
  <2>4. seen' \in [Objects -> SUBSET Cpus] BY <1>7, <2>1 DEF mark, TypeOK
  <2>5. head' \in [Cpus -> Objects \cup {Nil}] BY <1>7 DEF mark, TypeOK
  <2>6. MarkHasHead' BY <1>7, <2>3 DEF mark, TypeOK
  <2> QED BY <1>7, <2>3, <2>4, <2>5, <2>6 DEF TypeOK, mark, cpuVars
<1>8. ASSUME NEW c \in Cpus, service(c) PROVE VarTypes' /\ AtListed' /\ MarkHasHead'
  <2> DEFINE list == pending[c]
             s == acc[c] \cup seen[list[at[c]]]
             tail == {list[n] : n \in 1..at[c]}
  <2>0. list \in Seq(Objects) /\ at[c] \in 0..Len(list) BY DEF TypeOK
  <2>1. CASE at[c] = 0 /\ EndCheckpoint(c) /\ UNCHANGED <<state, pending>>
    BY <1>8, <2>0, <2>1, EndCheckpointType DEF TypeOK, service
  <2>2. CASE /\ at[c] > 0
             /\ pending' = [pending EXCEPT ![c] = SubSeq(list, at[c] + 1, Len(list))]
             /\ state' = [a \in Objects |-> IF a \in tail THEN "deleted" ELSE state[a]]
             /\ EndCheckpoint(c)
    <3>1. SubSeq(list, at[c] + 1, Len(list)) \in Seq(Objects)
      BY <2>0, SubSeqFacts
    <3>2. pending' \in [Cpus -> Seq(Objects)] BY <2>2, <3>1 DEF TypeOK
    <3>3. state' \in [Objects -> {"unused", "live", "freed", "deleted"}]
      BY <2>2 DEF TypeOK
    <3>4. VarTypes' /\ MarkHasHead'
      BY <1>8, <2>2, <3>2, <3>3, EndCheckpointType DEF TypeOK, service
    <3>5. ASSUME NEW d \in Cpus PROVE at'[d] <= Len(pending'[d])
      <4>1. CASE d = c BY <2>2, <3>1, <4>1, EndCheckpointType DEF TypeOK
      <4>2. CASE d # c BY <2>2, <4>2, EndCheckpointType DEF TypeOK
      <4> QED BY <4>1, <4>2
    <3> QED BY <3>4, <3>5
  <2>3. CASE /\ at[c] > 0
             /\ at' = [at EXCEPT ![c] = @ - 1]
             /\ acc' = [acc EXCEPT ![c] = s]
             /\ UNCHANGED <<state, pending, life, pc>>
    <3>1. list[at[c]] \in Objects BY <2>0, <2>3
    <3>2. s \in SUBSET Cpus BY <3>1 DEF TypeOK
    <3>3. VarTypes' /\ MarkHasHead' BY <1>8, <2>3, <3>2 DEF TypeOK, service
    <3>4. ASSUME NEW d \in Cpus PROVE at'[d] <= Len(pending[d])
      BY <2>0, <2>3 DEF TypeOK
    <3> QED BY <2>3, <3>3, <3>4
  <2> QED BY <1>8, <2>1, <2>2, <2>3 DEF service
<1>9. CASE UNCHANGED vars
  BY <1>9 DEF TypeOK, vars, cpuVars, objVars, walkVars
<1> QED BY <1>1, <1>2, <1>3, <1>4, <1>5, <1>6, <1>7, <1>8, <1>9 DEF Next, Checkpoint

(* In every reachable state each variable of the collector has its type. *)
THEOREM TypeCorrect == Spec => []TypeOK
<1>1. Init => TypeOK BY InitType
<1>2. TypeOK /\ [Next]_vars => TypeOK' BY NextType
<1> QED BY <1>1, <1>2, PTL DEF Spec

-----------------------------------------------------------------------------
(***************************************************************************)
(* The grace period.  One lemma per action.                                *)
(***************************************************************************)
LEMMA GraceInit == Init => GraceInv
<1> SUFFICES ASSUME Init PROVE GraceInv
  OBVIOUS
<1>1. \A c \in Cpus : Len(pending[c]) = 0 BY DEF Init
<1>2. ListsDisjoint /\ ListedAreFreed /\ Grace /\ MarkedObserved
  BY <1>1 DEF ListsDisjoint, ListedAreFreed, Grace, MarkedObserved
<1>3. NoUseAfterFree /\ RefsBetweenCheckpoints /\ AccSeen /\ MarkedHeadListed
  BY DEF Init, NoUseAfterFree, RefsBetweenCheckpoints, AccSeen, MarkedHeadListed
<1>4. LiveUnseen /\ MaskIsRunning
  BY DEF Init, LiveUnseen, MaskIsRunning
<1> QED BY <1>2, <1>3, <1>4 DEF GraceInv

(* A step that leaves the objects and the lists alone keeps their parts. *)
LEMMA ListsStay ==
    ASSUME GraceInv, UNCHANGED <<state, pending>>
    PROVE  ListsDisjoint' /\ ListedAreFreed'
BY DEF GraceInv, ListsDisjoint, ListedAreFreed

LEMMA GraceCpuInit ==
    ASSUME TypeOK, GraceInv, NEW c \in Cpus, cpu_init(c)
    PROVE  GraceInv'
<1> USE DEF cpu_init, objVars, walkVars
<1>1. ListsDisjoint' /\ ListedAreFreed' BY ListsStay
<1>2. c \notin mask /\ refs[c] = {} /\ pc[c] = "idle"
  BY DEF GraceInv, MaskIsRunning, RefsBetweenCheckpoints
<1>3. \A a \in Objects : c \notin seen[a] BY DEF GraceInv, LiveUnseen
<1>4. \A d \in Cpus : d # c => life'[d] = life[d] BY DEF TypeOK
<1>5. life'[c] = "running" BY DEF TypeOK
<1>6. MaskIsRunning' BY <1>2, <1>4, <1>5 DEF GraceInv, MaskIsRunning
<1>7. NoUseAfterFree' /\ AccSeen' BY DEF GraceInv, NoUseAfterFree, AccSeen
<1>8. RefsBetweenCheckpoints' BY <1>2, <1>4 DEF GraceInv, RefsBetweenCheckpoints
<1>9. Grace' BY <1>2 DEF GraceInv, Grace, Unseen
<1>10. MarkedObserved' BY <1>3, ListedIsObject DEF GraceInv, MarkedObserved
<1>11. MarkedHeadListed' BY <1>2 DEF GraceInv, MarkedHeadListed, Unseen
<1>12. LiveUnseen' BY <1>3, <1>4, <1>5 DEF GraceInv, LiveUnseen
<1> QED BY <1>1, <1>6, <1>7, <1>8, <1>9, <1>10, <1>11, <1>12 DEF GraceInv

LEMMA GraceAlloc ==
    ASSUME TypeOK, GraceInv, NEW c \in Cpus, alloc(c)
    PROVE  GraceInv'
<1> USE DEF cpuVars, walkVars
<1>1. PICK a \in Objects :
          /\ state[a] \in {"unused", "deleted"}
          /\ state' = [state EXCEPT ![a] = "live"]
          /\ seen' = [seen EXCEPT ![a] = {}]
  BY DEF alloc
<1>2. UNCHANGED <<mask, life, pending, last_observed, refs, pc, i, head, at, acc>>
  BY DEF alloc
<1>3. ASSUME NEW d \in Cpus, NEW n \in 1..Len(pending[d])
      PROVE  pending[d][n] # a
  BY <1>1 DEF GraceInv, ListedAreFreed
<1>4. ASSUME NEW d \in Cpus, NEW n \in 1..Len(pending[d])
      PROVE  seen'[pending[d][n]] = seen[pending[d][n]]
  BY <1>1, <1>3, ListedIsObject DEF TypeOK
<1>5. ListsDisjoint' BY <1>2 DEF GraceInv, ListsDisjoint
<1>6. ListedAreFreed'
  BY <1>1, <1>2, <1>3, ListedIsObject DEF GraceInv, ListedAreFreed, TypeOK
<1>7. NoUseAfterFree' BY <1>1, <1>2 DEF GraceInv, NoUseAfterFree, TypeOK
<1>8. RefsBetweenCheckpoints' /\ MaskIsRunning'
  BY <1>2 DEF GraceInv, RefsBetweenCheckpoints, MaskIsRunning
<1>9. ASSUME NEW d \in Cpus, NEW e \in Cpus, NEW n \in 1..Len(pending[e]), Unseen(d, e, n)
      PROVE  Unseen(d, e, n)'
  <2> SUFFICES ASSUME NEW m \in n..Len(pending[e]) PROVE d \notin seen'[pending[e][m]]
    BY <1>2 DEF Unseen
  <2>1. m \in 1..Len(pending[e]) BY DEF TypeOK
  <2> QED BY <1>4, <1>9, <2>1 DEF Unseen
<1>10. Grace'
  <2> SUFFICES ASSUME NEW e \in Cpus, NEW d \in mask, NEW n \in 1..Len(pending[e]),
                      pending[e][n] \in refs[d]
               PROVE  Unseen(d, e, n)'
    BY <1>2 DEF Grace
  <2>1. d \in Cpus /\ Unseen(d, e, n) BY DEF GraceInv, Grace, TypeOK
  <2> QED BY <1>9, <2>1
<1>11. AccSeen'
  <2> SUFFICES ASSUME NEW d \in Cpus, NEW e \in acc[d]
               PROVE  \E m \in (at[d] + 1)..Len(pending[d]) : e \in seen'[pending[d][m]]
    BY <1>2 DEF GraceInv, AccSeen
  <2>1. PICK m \in (at[d] + 1)..Len(pending[d]) : e \in seen[pending[d][m]]
    BY DEF GraceInv, AccSeen
  <2>2. m \in 1..Len(pending[d]) BY DEF TypeOK
  <2> QED BY <1>4, <2>1, <2>2
<1>12. MarkedObserved' BY <1>2, <1>4 DEF GraceInv, MarkedObserved
<1>13. MarkedHeadListed' BY <1>2, <1>9 DEF GraceInv, MarkedHeadListed, TypeOK
<1>14. LiveUnseen' BY <1>1, <1>2 DEF GraceInv, LiveUnseen, TypeOK
<1> QED BY <1>5, <1>6, <1>7, <1>8, <1>10, <1>11, <1>12, <1>13, <1>14 DEF GraceInv

LEMMA GraceLookup ==
    ASSUME TypeOK, GraceInv, NEW c \in Cpus, lookup(c)
    PROVE  GraceInv'
<1> USE DEF cpuVars, objVars, walkVars
<1>1. PICK a \in Objects :
          state[a] = "live" /\ refs' = [refs EXCEPT ![c] = @ \cup {a}]
  BY DEF lookup
<1>2. UNCHANGED <<mask, life, state, seen, pending, last_observed, pc, i, head, at, acc>>
  BY DEF lookup
<1>3. life[c] = "running" /\ pc[c] = "idle" /\ c \in mask
  BY DEF lookup, Working, GraceInv, MaskIsRunning
<1>4. NoUseAfterFree' BY <1>1, <1>2 DEF GraceInv, NoUseAfterFree, TypeOK
<1>5. RefsBetweenCheckpoints'
  BY <1>1, <1>2, <1>3 DEF GraceInv, RefsBetweenCheckpoints, TypeOK
<1>6. ASSUME NEW d \in Cpus, NEW n \in 1..Len(pending[d]) PROVE pending[d][n] # a
  BY <1>1 DEF GraceInv, ListedAreFreed
<1>7. Grace'
  <2> SUFFICES ASSUME NEW e \in Cpus, NEW d \in mask, NEW n \in 1..Len(pending[e]),
                      pending[e][n] \in refs'[d]
               PROVE  Unseen(d, e, n)
    BY <1>2 DEF Grace, Unseen
  <2>1. pending[e][n] \in refs[d] BY <1>1, <1>6 DEF TypeOK
  <2> QED BY <2>1 DEF GraceInv, Grace
<1>8. AccSeen' /\ MarkedObserved' /\ MarkedHeadListed' /\ LiveUnseen' /\ MaskIsRunning'
  BY <1>2 DEF GraceInv, AccSeen, MarkedObserved, MarkedHeadListed, LiveUnseen,
              MaskIsRunning, Unseen
<1> QED BY <1>2, <1>4, <1>5, <1>7, <1>8, ListsStay DEF GraceInv

(* An object is appended to c's list; it was live, so it carries no mark. *)
LEMMA GraceFree ==
    ASSUME TypeOK, GraceInv, NEW c \in Cpus, gc_free(c)
    PROVE  GraceInv'
<1> USE DEF cpuVars, walkVars
<1>1. PICK a \in Objects :
          /\ state[a] = "live"
          /\ state' = [state EXCEPT ![a] = "freed"]
          /\ pending' = [pending EXCEPT ![c] = Append(@, a)]
  BY DEF gc_free
<1>2. UNCHANGED <<mask, life, seen, last_observed, refs, pc, i, head, at, acc>>
  BY DEF gc_free
<1>3. pc[c] = "idle" BY DEF gc_free, Working
<1>4. \A d \in Cpus : pending[d] \in Seq(Objects) /\ Len(pending[d]) \in Nat
  BY DEF TypeOK
<1>5. /\ Len(pending'[c]) = Len(pending[c]) + 1
      /\ \A n \in 1..Len(pending[c]) : pending'[c][n] = pending[c][n]
      /\ pending'[c][Len(pending[c]) + 1] = a
  BY <1>1, <1>4, AppendFacts DEF TypeOK
<1>6. \A d \in Cpus \ {c} : pending'[d] = pending[d] BY <1>1 DEF TypeOK
<1>7. ASSUME NEW d \in Cpus, NEW n \in 1..Len(pending[d]) PROVE pending[d][n] # a
  BY <1>1 DEF GraceInv, ListedAreFreed
<1>8. \A d \in mask : d \notin seen[a]
  BY <1>1 DEF GraceInv, LiveUnseen
\* An element of a new list is an element of the old one, or a at the end.
<1>9. ASSUME NEW d \in Cpus, NEW n \in 1..Len(pending'[d])
      PROVE  \/ n \in 1..Len(pending[d]) /\ pending'[d][n] = pending[d][n]
             \/ d = c /\ n = Len(pending[c]) + 1 /\ pending'[d][n] = a
  <2>1. CASE d = c
    <3>1. n \in 1..Len(pending[c]) \/ n = Len(pending[c]) + 1 BY <1>4, <1>5, <2>1
    <3> QED BY <1>5, <2>1, <3>1
  <2>2. CASE d # c BY <1>6, <2>2
  <2> QED BY <2>1, <2>2
<1>10. ListsDisjoint'
  <2> SUFFICES ASSUME NEW d \in Cpus, NEW e \in Cpus,
                      NEW m \in 1..Len(pending'[d]), NEW n \in 1..Len(pending'[e]),
                      pending'[d][m] = pending'[e][n]
               PROVE  d = e /\ m = n
    BY DEF ListsDisjoint
  <2>1. CASE m \in 1..Len(pending[d]) /\ pending'[d][m] = pending[d][m]
    <3>1. n \in 1..Len(pending[e]) /\ pending'[e][n] = pending[e][n]
      BY <1>7, <1>9, <2>1
    <3>2. pending[d][m] = pending[e][n] BY <2>1, <3>1
    <3>3. ListsDisjoint BY DEF GraceInv
    <3> QED BY <2>1, <3>1, <3>2, <3>3 DEF ListsDisjoint
  <2>2. CASE d = c /\ m = Len(pending[c]) + 1 /\ pending'[d][m] = a
    BY <1>7, <1>9, <2>2
  <2> QED BY <1>9, <2>1, <2>2
<1>11. ListedAreFreed'
  <2> SUFFICES ASSUME NEW d \in Cpus, NEW n \in 1..Len(pending'[d])
               PROVE  state'[pending'[d][n]] = "freed"
    BY DEF ListedAreFreed
  <2>1. CASE n \in 1..Len(pending[d]) /\ pending'[d][n] = pending[d][n]
    BY <1>1, <1>7, <2>1, ListedIsObject DEF GraceInv, ListedAreFreed, TypeOK
  <2>2. CASE pending'[d][n] = a BY <1>1, <2>2 DEF TypeOK
  <2> QED BY <1>9, <2>1, <2>2
\* What d has not seen before the step it has not seen after it.
<1>12. ASSUME NEW d \in mask, NEW e \in Cpus, NEW n \in 1..Len(pending[e]),
              Unseen(d, e, n)
       PROVE  Unseen(d, e, n)'
  <2> SUFFICES ASSUME NEW m \in n..Len(pending'[e]) PROVE d \notin seen[pending'[e][m]]
    BY <1>2 DEF Unseen
  <2>1. Len(pending'[e]) \in Nat BY <1>4, <1>5, <1>6
  <2>2. m \in 1..Len(pending'[e]) /\ n <= m BY <1>4, <2>1
  <2>3. CASE m \in 1..Len(pending[e]) /\ pending'[e][m] = pending[e][m]
    <3>1. m \in n..Len(pending[e]) BY <1>4, <2>2, <2>3
    <3> QED BY <1>12, <2>3, <3>1 DEF Unseen
  <2>4. CASE pending'[e][m] = a BY <1>8, <2>4
  <2> QED BY <1>9, <2>2, <2>3, <2>4
<1>13. Grace'
  <2> SUFFICES ASSUME NEW e \in Cpus, NEW d \in mask, NEW n \in 1..Len(pending'[e]),
                      pending'[e][n] \in refs[d]
               PROVE  Unseen(d, e, n)'
    BY <1>2 DEF Grace
  <2>1. CASE n \in 1..Len(pending[e]) /\ pending'[e][n] = pending[e][n]
    BY <1>12, <2>1 DEF GraceInv, Grace
  <2>2. CASE e = c /\ n = Len(pending[c]) + 1 /\ pending'[e][n] = a
    <3>1. \A m \in n..Len(pending'[e]) : m = n BY <1>4, <1>5, <2>2
    <3> QED BY <1>2, <1>8, <2>2, <3>1 DEF Unseen
  <2> QED BY <1>9, <2>1, <2>2
<1>14. AccSeen'
  <2> SUFFICES ASSUME NEW d \in Cpus
               PROVE  /\ pc[d] # "walk" => acc[d] = {}
                      /\ \A e \in acc[d] : \E m \in (at[d] + 1)..Len(pending'[d]) :
                             e \in seen[pending'[d][m]]
    BY <1>2 DEF AccSeen
  <2>1. CASE d = c BY <1>3, <2>1 DEF GraceInv, AccSeen
  <2>2. CASE d # c BY <1>6, <2>2 DEF GraceInv, AccSeen
  <2> QED BY <2>1, <2>2
<1>15. MarkedObserved'
  <2> SUFFICES ASSUME NEW e \in Cpus, NEW d \in mask, NEW n \in 1..Len(pending'[e]),
                      d \in seen[pending'[e][n]]
               PROVE  \E m \in n..Len(pending'[e]) : last_observed[d][e] = pending'[e][m]
    BY <1>2 DEF MarkedObserved
  <2>1. n \in 1..Len(pending[e]) /\ pending'[e][n] = pending[e][n]
    BY <1>8, <1>9
  <2>2. PICK m \in n..Len(pending[e]) : last_observed[d][e] = pending[e][m]
    BY <2>1 DEF GraceInv, MarkedObserved
  <2>3. m \in 1..Len(pending[e]) /\ m \in n..Len(pending'[e]) /\ pending'[e][m] = pending[e][m]
    BY <1>4, <1>5, <1>6
  <2> QED BY <2>2, <2>3
<1>16. MarkedHeadListed'
  <2> SUFFICES ASSUME NEW d \in mask, pc[d] = "mark"
               PROVE  \E n \in 1..Len(pending'[i[d]]) :
                          pending'[i[d]][n] = head[d] /\ Unseen(d, i[d], n)'
    BY <1>2 DEF MarkedHeadListed, Unseen
  <2>1. i[d] \in Cpus BY DEF TypeOK
  <2>2. PICK n \in 1..Len(pending[i[d]]) :
            pending[i[d]][n] = head[d] /\ Unseen(d, i[d], n)
    BY DEF GraceInv, MarkedHeadListed
  <2>3. n \in 1..Len(pending'[i[d]]) /\ pending'[i[d]][n] = pending[i[d]][n]
    <3>1. CASE i[d] = c BY <1>4, <1>5, <2>1, <3>1
    <3>2. CASE i[d] # c BY <1>6, <2>1, <3>2
    <3> QED BY <3>1, <3>2
  <2>4. Unseen(d, i[d], n)' BY <1>2, <1>12, <2>1, <2>2
  <2> QED BY <2>2, <2>3, <2>4
<1>17. NoUseAfterFree' BY <1>1, <1>2 DEF GraceInv, NoUseAfterFree, TypeOK
<1>18. LiveUnseen' BY <1>1, <1>2 DEF GraceInv, LiveUnseen, TypeOK
<1>19. RefsBetweenCheckpoints' /\ MaskIsRunning'
  BY <1>2 DEF GraceInv, RefsBetweenCheckpoints, MaskIsRunning
<1> QED BY <1>10, <1>11, <1>13, <1>14, <1>15, <1>16, <1>17, <1>18, <1>19 DEF GraceInv

(* The thread gives up its references; the mask may lose it. *)
LEMMA GraceBegin ==
    ASSUME TypeOK, GraceInv, NEW c \in Cpus, gc_checkpoint(c) \/ gc_exit(c) \/ cpu_exit(c)
    PROVE  GraceInv'
<1> USE DEF cpuVars, objVars, walkVars
<1>1. /\ refs' = [refs EXCEPT ![c] = {}]
      /\ pc' = [pc EXCEPT ![c] = "observe"]
      /\ UNCHANGED <<state, seen, pending, last_observed, i, head, at, acc>>
  BY DEF gc_checkpoint, gc_exit, cpu_exit, BeginCheckpoint, Goto
<1>2. pc[c] \in {"idle", "exit"}
  BY DEF gc_checkpoint, gc_exit, cpu_exit, Working
<1>3. /\ mask' \subseteq mask /\ \A d \in Cpus \ {c} : d \in mask <=> d \in mask'
      /\ \A d \in Cpus \ {c} : life'[d] = life[d]
      /\ life'[c] # "new" /\ (c \in mask' <=> life'[c] \in {"running", "leaving"})
  <2>1. CASE gc_checkpoint(c)
    BY <2>1 DEF gc_checkpoint, Working, GraceInv, MaskIsRunning
  <2>2. CASE gc_exit(c) BY <2>2 DEF gc_exit, Working, GraceInv, MaskIsRunning, TypeOK
  <2>3. CASE cpu_exit(c) BY <2>3 DEF cpu_exit, TypeOK
  <2> QED BY <2>1, <2>2, <2>3
<1>4. \A d \in Cpus \ {c} : refs'[d] = refs[d] /\ pc'[d] = pc[d] BY <1>1 DEF TypeOK
<1>5. refs'[c] = {} /\ pc'[c] = "observe" BY <1>1 DEF TypeOK
<1>6. NoUseAfterFree' BY <1>1, <1>4, <1>5 DEF GraceInv, NoUseAfterFree
<1>7. RefsBetweenCheckpoints'
  BY <1>3, <1>4, <1>5 DEF GraceInv, RefsBetweenCheckpoints
<1>8. Grace'
  <2> SUFFICES ASSUME NEW e \in Cpus, NEW d \in mask', NEW n \in 1..Len(pending[e]),
                      pending[e][n] \in refs'[d]
               PROVE  Unseen(d, e, n)
    BY <1>1 DEF Grace, Unseen
  <2>1. d \in mask /\ d # c /\ d \in Cpus BY <1>3, <1>5 DEF TypeOK
  <2> QED BY <1>4, <2>1 DEF GraceInv, Grace
<1>9. AccSeen'
  <2>1. acc[c] = {} BY <1>2 DEF GraceInv, AccSeen
  <2> QED BY <1>1, <1>4, <2>1 DEF GraceInv, AccSeen
<1>10. MarkedObserved' BY <1>1, <1>3 DEF GraceInv, MarkedObserved
<1>11. MarkedHeadListed'
  <2> SUFFICES ASSUME NEW d \in mask', pc'[d] = "mark"
               PROVE  \E n \in 1..Len(pending[i[d]]) :
                          pending[i[d]][n] = head[d] /\ Unseen(d, i[d], n)
    BY <1>1 DEF MarkedHeadListed, Unseen
  <2>1. d \in mask /\ d \in Cpus \ {c} BY <1>3, <1>5 DEF TypeOK
  <2> QED BY <1>4, <2>1 DEF GraceInv, MarkedHeadListed
<1>12. LiveUnseen'
  <2>1. ASSUME NEW a \in Objects, NEW d \in seen[a] PROVE life'[d] # "new"
    <3>1. d \in Cpus BY DEF TypeOK
    <3> QED BY <1>3, <3>1 DEF GraceInv, LiveUnseen
  <2> QED BY <1>1, <1>3, <2>1 DEF GraceInv, LiveUnseen
<1>13. MaskIsRunning' BY <1>3, <1>4 DEF GraceInv, MaskIsRunning
<1> QED BY <1>1, <1>6, <1>7, <1>8, <1>9, <1>10, <1>11, <1>12, <1>13, ListsStay DEF GraceInv

LEMMA NewestIsLast ==
    ASSUME TypeOK, NEW c \in Cpus, Newest(c) # Nil
    PROVE  /\ Len(pending[c]) \in 1..Len(pending[c])
           /\ Newest(c) = pending[c][Len(pending[c])]
<1>1. pending[c] \in Seq(Objects) /\ pending[c] # <<>> BY DEF TypeOK, Newest
<1> QED BY <1>1 DEF Newest

LEMMA NewestNil ==
    ASSUME TypeOK, NEW c \in Cpus, Newest(c) = Nil
    PROVE  Len(pending[c]) = 0
<1>1. CASE pending[c] = <<>> BY <1>1
<1>2. CASE pending[c] # <<>>
  <2>1. pending[c] \in Seq(Objects) BY DEF TypeOK
  <2>2. pending[c][Len(pending[c])] \in Objects BY <1>2, <2>1
  <2> QED BY <1>2, <2>2, ObjectsAssumption DEF Newest
<1> QED BY <1>1, <1>2

(* What leaving the loop body of checkpoint() does to thread c. *)
LEMMA ObservedEffect ==
    ASSUME TypeOK, GraceInv, NEW c \in Cpus, NEW h, Observed(c, h),
           pc[c] \in {"observe", "mark"}, UNCHANGED <<pending, acc>>
    PROVE  /\ \A d \in Cpus \ {c} : pc'[d] = pc[d] /\ i'[d] = i[d] /\ at'[d] = at[d]
           /\ pc'[c] \in {"observe", "walk"}
           /\ acc[c] = {}
           /\ last_observed'[c][i[c]] = h
           /\ \A d \in Cpus, e \in Cpus :
                  d # c \/ e # i[c] => last_observed'[d][e] = last_observed[d][e]
<1>1. /\ \A d \in Cpus \ {c} : pc'[d] = pc[d] /\ i'[d] = i[d] /\ at'[d] = at[d]
      /\ pc'[c] \in {"observe", "walk"}
  BY DEF TypeOK, Observed, NextCpu, Goto
<1>2. acc[c] = {} BY DEF GraceInv, AccSeen
<1>3. i[c] \in Cpus BY DEF TypeOK
<1>4. last_observed'[c][i[c]] = h BY <1>3 DEF TypeOK, Observed
<1>5. \A d \in Cpus, e \in Cpus :
          d # c \/ e # i[c] => last_observed'[d][e] = last_observed[d][e]
  BY <1>3 DEF TypeOK, Observed
<1> QED BY <1>1, <1>2, <1>4, <1>5

LEMMA GraceObserve ==
    ASSUME TypeOK, GraceInv, NEW c \in Cpus, observe(c)
    PROVE  GraceInv'
<1> USE DEF cpuVars, objVars
<1> DEFINE h == Newest(i[c])
<1>1. /\ UNCHANGED <<mask, life, state, seen, pending, refs, acc>>
      /\ pc[c] = "observe"
  BY DEF observe
<1>2. i[c] \in Cpus /\ mask \subseteq Cpus BY DEF TypeOK
<1>3. NoUseAfterFree' /\ LiveUnseen' /\ Grace'
  BY <1>1 DEF GraceInv, NoUseAfterFree, LiveUnseen, Grace, Unseen
<1>4. refs[c] = {} BY <1>1 DEF GraceInv, RefsBetweenCheckpoints
<1>5. life[c] # "new" BY <1>1 DEF GraceInv, MaskIsRunning
<1>6. ASSUME h = Nil \/ h = last_observed[c][i[c]], Observed(c, h), UNCHANGED head
      PROVE  RefsBetweenCheckpoints' /\ AccSeen' /\ MarkedObserved'
             /\ MarkedHeadListed' /\ MaskIsRunning'
  <2>1. /\ \A d \in Cpus \ {c} : pc'[d] = pc[d] /\ i'[d] = i[d] /\ at'[d] = at[d]
        /\ pc'[c] \in {"observe", "walk"}
        /\ acc[c] = {}
        /\ last_observed'[c][i[c]] = h
        /\ \A d \in Cpus, e \in Cpus :
               d # c \/ e # i[c] => last_observed'[d][e] = last_observed[d][e]
    BY <1>1, <1>6, ObservedEffect
  <2>2. RefsBetweenCheckpoints' /\ MaskIsRunning'
    BY <1>1, <1>4, <1>5, <2>1 DEF GraceInv, RefsBetweenCheckpoints, MaskIsRunning
  <2>3. AccSeen' BY <1>1, <2>1 DEF GraceInv, AccSeen
  <2>4. MarkedObserved'
    <3> SUFFICES ASSUME NEW e \in Cpus, NEW d \in mask, NEW n \in 1..Len(pending[e]),
                        d \in seen[pending[e][n]]
                 PROVE  \E m \in n..Len(pending[e]) : last_observed'[d][e] = pending[e][m]
      BY <1>1 DEF MarkedObserved
    <3>1. PICK m \in n..Len(pending[e]) : last_observed[d][e] = pending[e][m]
      BY DEF GraceInv, MarkedObserved
    <3>2. last_observed'[d][e] = last_observed[d][e]
      <4>1. CASE d = c /\ e = i[c]
        <5>1. h # Nil BY <1>2, <4>1, NewestNil DEF TypeOK
        <5> QED BY <1>6, <2>1, <4>1, <5>1
      <4>2. CASE d # c \/ e # i[c] BY <1>2, <2>1, <4>2
      <4> QED BY <4>1, <4>2
    <3> QED BY <3>1, <3>2
  <2>5. MarkedHeadListed'
    BY <1>1, <1>2, <1>6, <2>1 DEF GraceInv, MarkedHeadListed, Unseen
  <2> QED BY <2>2, <2>3, <2>4, <2>5
<1>7. ASSUME h # Nil, h # last_observed[c][i[c]],
             head' = [head EXCEPT ![c] = h], Goto(c, "mark"),
             UNCHANGED <<last_observed, i, at>>
      PROVE  RefsBetweenCheckpoints' /\ AccSeen' /\ MarkedObserved'
             /\ MarkedHeadListed' /\ MaskIsRunning'
  <2>1. /\ pc'[c] = "mark" /\ head'[c] = h
        /\ \A d \in Cpus \ {c} : pc'[d] = pc[d] /\ head'[d] = head[d]
    BY <1>7 DEF Goto, TypeOK
  <2>2. RefsBetweenCheckpoints' /\ MaskIsRunning'
    BY <1>1, <1>4, <1>5, <2>1 DEF GraceInv, RefsBetweenCheckpoints, MaskIsRunning
  <2>3. AccSeen' /\ MarkedObserved'
    BY <1>1, <1>7, <2>1 DEF GraceInv, AccSeen, MarkedObserved
  <2>4. MarkedHeadListed'
    <3> SUFFICES ASSUME NEW d \in mask, pc'[d] = "mark"
                 PROVE  \E n \in 1..Len(pending[i[d]]) :
                            pending[i[d]][n] = head'[d] /\ Unseen(d, i[d], n)
      BY <1>1, <1>7 DEF MarkedHeadListed, Unseen
    <3>1. CASE d = c
      <4> DEFINE n == Len(pending[i[c]])
      <4>1. n \in 1..n /\ h = pending[i[c]][n] BY <1>2, <1>7, NewestIsLast
      <4>2. ASSUME c \in seen[pending[i[c]][n]] PROVE FALSE
        <5>1. PICK m \in n..n : last_observed[c][i[c]] = pending[i[c]][m]
          BY <1>2, <3>1, <4>1, <4>2 DEF GraceInv, MarkedObserved
        <5>2. m = n BY <4>1
        <5> QED BY <1>7, <4>1, <5>1, <5>2
      <4>3. \A m \in n..n : m = n BY <4>1
      <4>4. Unseen(c, i[c], n) BY <4>2, <4>3 DEF Unseen
      <4> QED BY <2>1, <3>1, <4>1, <4>4
    <3>2. CASE d # c BY <1>2, <2>1, <3>2 DEF GraceInv, MarkedHeadListed
    <3> QED BY <3>1, <3>2
  <2> QED BY <2>2, <2>3, <2>4
<1>8. RefsBetweenCheckpoints' /\ AccSeen' /\ MarkedObserved'
      /\ MarkedHeadListed' /\ MaskIsRunning'
  BY <1>6, <1>7 DEF observe
<1> QED BY <1>1, <1>3, <1>8, ListsStay DEF GraceInv

(* Only thread c's bit of the observed head changes. *)
LEMMA GraceMark ==
    ASSUME TypeOK, GraceInv, NEW c \in Cpus, mark(c)
    PROVE  GraceInv'
<1> USE DEF cpuVars
<1>1. /\ UNCHANGED <<mask, life, state, pending, refs, acc>>
      /\ pc[c] = "mark" /\ Observed(c, head[c])
      /\ seen' = [seen EXCEPT ![head[c]] = @ \cup {c}]
  BY DEF mark
<1>2. i[c] \in Cpus /\ mask \subseteq Cpus /\ head[c] \in Objects
  BY <1>1 DEF TypeOK
<1>3. /\ \A d \in Cpus \ {c} : pc'[d] = pc[d] /\ i'[d] = i[d] /\ at'[d] = at[d]
      /\ pc'[c] \in {"observe", "walk"}
      /\ acc[c] = {}
      /\ last_observed'[c][i[c]] = head[c]
      /\ \A d \in Cpus, e \in Cpus :
             d # c \/ e # i[c] => last_observed'[d][e] = last_observed[d][e]
  BY <1>1, ObservedEffect
<1>4. \A d \in Cpus \ {c} : head'[d] = head[d] BY DEF mark, TypeOK
<1>5. ASSUME NEW a \in Objects
      PROVE  /\ seen[a] \subseteq seen'[a]
             /\ \A d \in seen'[a] : d \in seen[a] \/ (d = c /\ a = head[c])
  BY <1>1 DEF TypeOK
<1>6. refs[c] = {} BY <1>1 DEF GraceInv, RefsBetweenCheckpoints
<1>7. life[c] # "new" BY <1>1 DEF GraceInv, MaskIsRunning
<1>8. NoUseAfterFree' /\ RefsBetweenCheckpoints' /\ MaskIsRunning'
  BY <1>1, <1>3, <1>6, <1>7
  DEF GraceInv, NoUseAfterFree, RefsBetweenCheckpoints, MaskIsRunning
\* Another thread has seen nothing new.
<1>9. ASSUME NEW d \in Cpus \ {c}, NEW e \in Cpus, NEW n \in 1..Len(pending[e]),
             Unseen(d, e, n)
      PROVE  \A m \in n..Len(pending[e]) : d \notin seen'[pending[e][m]]
  <2> SUFFICES ASSUME NEW m \in n..Len(pending[e]) PROVE d \notin seen'[pending[e][m]]
    OBVIOUS
  <2>1. m \in 1..Len(pending[e]) BY DEF TypeOK
  <2>2. pending[e][m] \in Objects BY <2>1, ListedIsObject
  <2> QED BY <1>5, <1>9, <2>2 DEF Unseen
<1>10. Grace'
  <2> SUFFICES ASSUME NEW e \in Cpus, NEW d \in mask, NEW n \in 1..Len(pending[e]),
                      pending[e][n] \in refs[d]
               PROVE  \A m \in n..Len(pending[e]) : d \notin seen'[pending[e][m]]
    BY <1>1 DEF Grace, Unseen
  <2>1. d \in Cpus \ {c} BY <1>2, <1>6
  <2>2. Unseen(d, e, n) BY DEF GraceInv, Grace
  <2> QED BY <1>9, <2>1, <2>2
<1>11. AccSeen'
  <2>1. ASSUME NEW d \in Cpus, NEW e \in acc[d]
        PROVE  \E m \in (at'[d] + 1)..Len(pending[d]) : e \in seen'[pending[d][m]]
    <3>1. d # c /\ at'[d] = at[d] BY <1>3, <2>1
    <3>2. PICK m \in (at[d] + 1)..Len(pending[d]) : e \in seen[pending[d][m]]
      BY <2>1 DEF GraceInv, AccSeen
    <3>3. m \in 1..Len(pending[d]) BY DEF TypeOK
    <3>4. e \in seen'[pending[d][m]] BY <1>5, <3>2, <3>3, ListedIsObject
    <3> QED BY <3>1, <3>4
  <2>2. ASSUME NEW d \in Cpus, pc'[d] # "walk" PROVE acc[d] = {}
    BY <1>3, <2>2 DEF GraceInv, AccSeen
  <2> QED BY <1>1, <2>1, <2>2 DEF AccSeen
<1>12. MarkedObserved'
  <2> SUFFICES ASSUME NEW e \in Cpus, NEW d \in mask, NEW n \in 1..Len(pending[e]),
                      d \in seen'[pending[e][n]]
               PROVE  \E m \in n..Len(pending[e]) : last_observed'[d][e] = pending[e][m]
    BY <1>1 DEF MarkedObserved
  <2>1. pending[e][n] \in Objects /\ Len(pending[e]) \in Nat
    BY ListedIsObject DEF TypeOK
  <2>2. CASE d = c
    <3>1. PICK p \in 1..Len(pending[i[c]]) :
              pending[i[c]][p] = head[c] /\ Unseen(c, i[c], p)
      BY <1>1, <2>2 DEF GraceInv, MarkedHeadListed
    <3>2. CASE e = i[c]
      <4>1. n <= p
        <5>1. CASE pending[e][n] = head[c]
          BY <1>2, <3>1, <3>2, <5>1 DEF GraceInv, ListsDisjoint
        <5>2. CASE pending[e][n] # head[c]
          <6>1. c \in seen[pending[e][n]] BY <1>5, <2>1, <2>2, <5>2
          <6> QED BY <2>1, <3>1, <3>2, <6>1 DEF Unseen
        <5> QED BY <5>1, <5>2
      <4>2. p \in n..Len(pending[e]) BY <2>1, <3>1, <3>2, <4>1
      <4> QED BY <1>3, <2>2, <3>1, <3>2, <4>2
    <3>3. CASE e # i[c]
      <4>1. pending[e][n] # head[c]
        BY <1>2, <3>1, <3>3 DEF GraceInv, ListsDisjoint
      <4>2. c \in seen[pending[e][n]] BY <1>5, <2>1, <2>2, <4>1
      <4>3. last_observed'[d][e] = last_observed[d][e] BY <1>3, <2>2, <3>3
      <4> QED BY <2>2, <4>2, <4>3 DEF GraceInv, MarkedObserved
    <3> QED BY <3>2, <3>3
  <2>3. CASE d # c
    <3>1. d \in seen[pending[e][n]] BY <1>5, <2>1, <2>3
    <3>2. last_observed'[d][e] = last_observed[d][e] BY <1>2, <1>3, <2>3
    <3> QED BY <3>1, <3>2 DEF GraceInv, MarkedObserved
  <2> QED BY <2>2, <2>3
<1>13. MarkedHeadListed'
  <2> SUFFICES ASSUME NEW d \in mask, pc'[d] = "mark"
               PROVE  \E n \in 1..Len(pending[i'[d]]) :
                          /\ pending[i'[d]][n] = head'[d]
                          /\ \A m \in n..Len(pending[i'[d]]) :
                                 d \notin seen'[pending[i'[d]][m]]
    BY <1>1 DEF MarkedHeadListed, Unseen
  <2>1. d \in Cpus \ {c} BY <1>2, <1>3
  <2>2. i'[d] = i[d] /\ i[d] \in Cpus /\ head'[d] = head[d] /\ pc[d] = "mark"
    BY <1>3, <1>4, <2>1 DEF TypeOK
  <2>3. PICK n \in 1..Len(pending[i[d]]) :
            pending[i[d]][n] = head[d] /\ Unseen(d, i[d], n)
    BY <2>2 DEF GraceInv, MarkedHeadListed
  <2> QED BY <1>9, <2>1, <2>2, <2>3
<1>14. LiveUnseen'
  <2> SUFFICES ASSUME NEW a \in Objects
               PROVE  /\ state[a] = "live" => seen'[a] \cap mask = {}
                      /\ \A d \in seen'[a] : life[d] # "new"
    BY <1>1 DEF LiveUnseen
  <2>1. \A d \in seen'[a] : life[d] # "new" BY <1>5, <1>7 DEF GraceInv, LiveUnseen
  <2>2. ASSUME state[a] = "live", NEW d \in mask, d \in seen'[a] PROVE FALSE
    <3>1. d = c /\ a = head[c] BY <1>5, <2>2 DEF GraceInv, LiveUnseen
    <3>2. PICK p \in 1..Len(pending[i[c]]) : pending[i[c]][p] = head[c]
      BY <1>1, <2>2, <3>1 DEF GraceInv, MarkedHeadListed
    <3> QED BY <1>2, <2>2, <3>1, <3>2 DEF GraceInv, ListedAreFreed
  <2> QED BY <2>1, <2>2
<1> QED BY <1>1, <1>8, <1>10, <1>11, <1>12, <1>13, <1>14, ListsStay DEF GraceInv

(* The end of a checkpoint changes nothing the objects depend on. *)
LEMMA EndCheckpointEffect ==
    ASSUME TypeOK, GraceInv, NEW c \in Cpus, EndCheckpoint(c), pc[c] = "walk"
    PROVE  /\ \A d \in Cpus \ {c} : /\ pc'[d] = pc[d] /\ at'[d] = at[d]
                                    /\ acc'[d] = acc[d] /\ life'[d] = life[d]
           /\ pc'[c] \in {"idle", "exit"} /\ acc'[c] = {} /\ refs[c] = {}
           /\ life'[c] # "new"
           /\ life'[c] \in {"running", "leaving"} <=> life[c] \in {"running", "leaving"}
<1>1. refs[c] = {} /\ life[c] # "new"
  BY DEF GraceInv, RefsBetweenCheckpoints, MaskIsRunning
<1>2. /\ \A d \in Cpus \ {c} : /\ pc'[d] = pc[d] /\ at'[d] = at[d]
                               /\ acc'[d] = acc[d] /\ life'[d] = life[d]
      /\ pc'[c] \in {"idle", "exit"} /\ acc'[c] = {}
  BY DEF TypeOK, EndCheckpoint, Goto
<1>3. life'[c] = IF life[c] = "left" THEN "gone" ELSE life[c]
  BY DEF TypeOK, EndCheckpoint
<1> QED BY <1>1, <1>2, <1>3

(* The parts that only look at threads, after the end of a checkpoint. *)
LEMMA ThreadsAfterEnd ==
    ASSUME TypeOK, GraceInv, NEW c \in Cpus, EndCheckpoint(c), pc[c] = "walk",
           UNCHANGED <<mask, seen, refs>>
    PROVE  /\ RefsBetweenCheckpoints' /\ MaskIsRunning'
           /\ \A a \in Objects : \A d \in seen[a] : life'[d] # "new"
<1>1. /\ \A d \in Cpus \ {c} : pc'[d] = pc[d] /\ life'[d] = life[d]
      /\ refs[c] = {} /\ life'[c] # "new"
      /\ life'[c] \in {"running", "leaving"} <=> life[c] \in {"running", "leaving"}
  BY EndCheckpointEffect
<1>2. RefsBetweenCheckpoints' /\ MaskIsRunning'
  BY <1>1 DEF GraceInv, RefsBetweenCheckpoints, MaskIsRunning
<1>3. ASSUME NEW a \in Objects, NEW d \in seen[a] PROVE life'[d] # "new"
  <2>1. d \in Cpus BY DEF TypeOK
  <2> QED BY <1>1, <2>1 DEF GraceInv, LiveUnseen
<1> QED BY <1>2, <1>3

(* pop_ready() reaches the end of the list: nothing is ready. *)
LEMMA GraceNothingReady ==
    ASSUME TypeOK, GraceInv, NEW c \in Cpus, EndCheckpoint(c), pc[c] = "walk",
           UNCHANGED <<state, pending, mask, seen, last_observed, refs, i, head>>
    PROVE  GraceInv'
<1>1. /\ \A d \in Cpus \ {c} : pc'[d] = pc[d] /\ at'[d] = at[d] /\ acc'[d] = acc[d]
      /\ pc'[c] \in {"idle", "exit"} /\ acc'[c] = {}
  BY EndCheckpointEffect
<1>2. NoUseAfterFree' /\ Grace' /\ MarkedObserved'
  BY DEF GraceInv, NoUseAfterFree, Grace, MarkedObserved, Unseen
<1>3. AccSeen' BY <1>1 DEF GraceInv, AccSeen
<1>4. mask \subseteq Cpus BY DEF TypeOK
<1>5. MarkedHeadListed' BY <1>1, <1>4 DEF GraceInv, MarkedHeadListed, Unseen
<1>6. LiveUnseen' BY ThreadsAfterEnd DEF GraceInv, LiveUnseen
<1> QED BY <1>2, <1>3, <1>5, <1>6, ListsStay, ThreadsAfterEnd DEF GraceInv

(* pop_ready() goes on to the next older node. *)
LEMMA GraceNextNode ==
    ASSUME TypeOK, GraceInv, NEW c \in Cpus, pc[c] = "walk", at[c] > 0,
           at' = [at EXCEPT ![c] = @ - 1],
           acc' = [acc EXCEPT ![c] = acc[c] \cup seen[pending[c][at[c]]]],
           UNCHANGED <<state, pending, life, pc, mask, seen, last_observed, refs, i, head>>
    PROVE  GraceInv'
<1>1. /\ NoUseAfterFree' /\ RefsBetweenCheckpoints' /\ Grace' /\ MarkedObserved'
      /\ MarkedHeadListed' /\ LiveUnseen' /\ MaskIsRunning'
  BY DEF GraceInv, NoUseAfterFree, RefsBetweenCheckpoints, Grace, MarkedObserved,
         MarkedHeadListed, LiveUnseen, MaskIsRunning, Unseen
<1>2. AccSeen'
  <2>1. ASSUME NEW d \in Cpus, NEW e \in acc'[d]
        PROVE  \E m \in (at'[d] + 1)..Len(pending[d]) : e \in seen[pending[d][m]]
    <3>1. CASE d # c BY <2>1, <3>1 DEF GraceInv, AccSeen, TypeOK
    <3>2. CASE d = c
      <4>1. /\ at[c] \in Nat /\ at[c] <= Len(pending[c]) /\ Len(pending[c]) \in Nat
            /\ at'[c] = at[c] - 1
        BY DEF TypeOK
      <4>2. CASE e \in acc[c]
        <5>1. PICK m \in (at[c] + 1)..Len(pending[c]) : e \in seen[pending[c][m]]
          BY <4>2 DEF GraceInv, AccSeen
        <5>2. m \in (at'[c] + 1)..Len(pending[c]) BY <4>1
        <5> QED BY <3>2, <5>1, <5>2
      <4>3. CASE e \in seen[pending[c][at[c]]]
        <5>1. at[c] \in (at'[c] + 1)..Len(pending[c]) BY <4>1
        <5> QED BY <3>2, <4>3, <5>1
      <4> QED BY <2>1, <3>2, <4>2, <4>3 DEF TypeOK
    <3> QED BY <3>1, <3>2
  <2>2. ASSUME NEW d \in Cpus, pc[d] # "walk" PROVE acc'[d] = {}
    BY <2>2 DEF GraceInv, AccSeen, TypeOK
  <2> QED BY <2>1, <2>2 DEF AccSeen
<1> QED BY <1>1, <1>2, ListsStay DEF GraceInv

(***************************************************************************)
(* pop_ready() finds the mask covered and service() deletes the tail: every*)
(* registered CPU has seen a node at or after the cut, so none still       *)
(* refers to a node of the tail and none is about to mark one.             *)
(***************************************************************************)
CutAt(c) ==
    pending' = [pending EXCEPT ![c] = SubSeq(pending[c], at[c] + 1, Len(pending[c]))]

LEMMA GraceCut ==
    ASSUME TypeOK, GraceInv, NEW c \in Cpus, EndCheckpoint(c), pc[c] = "walk", at[c] > 0,
           cpu_seen_all(acc[c] \cup seen[pending[c][at[c]]]),
           CutAt(c),
           state' = [a \in Objects |->
                        IF a \in {pending[c][n] : n \in 1..at[c]}
                        THEN "deleted" ELSE state[a]],
           UNCHANGED <<mask, seen, last_observed, refs, i, head>>
    PROVE  GraceInv'
<1> DEFINE k == at[c]
           list == pending[c]
           tail == {list[n] : n \in 1..k}
<1>0. /\ mask' = mask /\ seen' = seen /\ last_observed' = last_observed
      /\ refs' = refs /\ i' = i /\ head' = head
  OBVIOUS
<1>1. \A d \in Cpus : pending[d] \in Seq(Objects) /\ Len(pending[d]) \in Nat
  BY DEF TypeOK
<1>2. k \in Nat /\ k > 0 /\ k <= Len(list) BY DEF TypeOK
<1>3. /\ Len(pending'[c]) = Len(list) - k
      /\ \A n \in 1..Len(pending'[c]) : pending'[c][n] = list[n + k]
  <2>1. k \in 0..Len(list) BY <1>1, <1>2
  <2>2. pending'[c] = SubSeq(list, k + 1, Len(list)) BY DEF TypeOK, CutAt
  <2>3. list \in Seq(Objects) BY <1>1
  <2> HIDE DEF list, k
  <2>4. /\ Len(SubSeq(list, k + 1, Len(list))) = Len(list) - k
        /\ \A n \in 1..Len(SubSeq(list, k + 1, Len(list))) :
               SubSeq(list, k + 1, Len(list))[n] = list[n + k]
    BY <2>1, <2>3, SubSeqFacts
  <2> QED BY <2>2, <2>4
<1>4. \A d \in Cpus \ {c} : pending'[d] = pending[d] BY DEF TypeOK, CutAt
<1>5. \A d \in Cpus \ {c} : pc'[d] = pc[d] /\ at'[d] = at[d] /\ acc'[d] = acc[d]
  BY EndCheckpointEffect
<1>6. pc'[c] \in {"idle", "exit"} /\ acc'[c] = {} BY EndCheckpointEffect
<1>7. mask \subseteq Cpus BY DEF TypeOK
\* Every registered CPU has seen a node at or after the cut.
<1>8. ASSUME NEW d \in mask, NEW n \in 1..k PROVE ~Unseen(d, c, n)
  <2>1. d \in acc[c] \cup seen[list[k]] BY DEF cpu_seen_all
  <2>2. PICK m \in k..Len(list) : d \in seen[list[m]]
    <3>1. CASE d \in acc[c]
      <4>1. PICK m \in (k + 1)..Len(list) : d \in seen[list[m]]
        BY <3>1 DEF GraceInv, AccSeen
      <4>2. m \in k..Len(list) BY <1>1, <1>2
      <4> QED BY <4>1, <4>2
    <3>2. CASE d \in seen[list[k]]
      <4>1. k \in k..Len(list) BY <1>1, <1>2
      <4> QED BY <3>2, <4>1
    <3> QED BY <2>1, <3>1, <3>2
  <2>3. m \in n..Len(list) BY <1>1, <1>2
  <2> QED BY <2>2, <2>3 DEF Unseen
\* The new lists are suffixes of the old ones.
<1> DEFINE off(d) == IF d = c THEN k ELSE 0
<1>9. ASSUME NEW d \in Cpus
      PROVE  /\ off(d) \in Nat /\ off(d) <= Len(pending[d])
             /\ Len(pending'[d]) = Len(pending[d]) - off(d)
             /\ \A n \in 1..Len(pending'[d]) :
                    /\ n + off(d) \in 1..Len(pending[d])
                    /\ pending'[d][n] = pending[d][n + off(d)]
  <2>1. CASE d = c
    <3>1. Len(list) \in Nat BY <1>1
    <3>2. off(d) = k /\ pending[d] = list /\ pending'[d] = pending'[c] BY <2>1
    <3> HIDE DEF off, list, k
    <3>3. Len(pending'[c]) = Len(list) - k BY <1>3
    <3>4. ASSUME NEW n \in 1..Len(pending'[c])
          PROVE  n + k \in 1..Len(list) /\ pending'[c][n] = list[n + k]
      <4>1. n + k \in 1..Len(list) BY <1>2, <3>1, <3>3
      <4> QED BY <1>3, <4>1
    <3> QED BY <1>2, <3>2, <3>3, <3>4
  <2>2. CASE d # c BY <1>1, <1>4, <2>2
  <2> QED BY <2>1, <2>2
<1>10. ASSUME NEW d \in Cpus, NEW n \in 1..Len(pending'[d])
       PROVE  pending'[d][n] \notin tail
  <2> SUFFICES ASSUME NEW m \in 1..k, pending'[d][n] = list[m] PROVE FALSE
    OBVIOUS
  <2>1. /\ n + off(d) \in 1..Len(pending[d]) /\ m \in 1..Len(list)
        /\ pending[d][n + off(d)] = list[m]
    BY <1>1, <1>2, <1>9
  <2>2. d = c /\ n + off(d) = m BY <2>1 DEF GraceInv, ListsDisjoint
  <2>3. n + k = m BY <2>2
  <2> QED BY <1>1, <1>2, <1>9, <2>3
<1> HIDE DEF off
<1>11. ListsDisjoint'
  <2> SUFFICES ASSUME NEW d \in Cpus, NEW e \in Cpus,
                      NEW m \in 1..Len(pending'[d]), NEW n \in 1..Len(pending'[e]),
                      pending'[d][m] = pending'[e][n]
               PROVE  d = e /\ m = n
    BY DEF ListsDisjoint
  <2>1. /\ m + off(d) \in 1..Len(pending[d]) /\ n + off(e) \in 1..Len(pending[e])
        /\ pending[d][m + off(d)] = pending[e][n + off(e)]
        /\ off(d) \in Nat /\ m \in Int /\ n \in Int
    <3>1. \A x \in Cpus : Len(pending'[x]) \in Int BY <1>1, <1>9
    <3>2. m \in Int /\ n \in Int BY <3>1
    <3> QED BY <1>9, <3>2
  <2>2. d = e /\ m + off(d) = n + off(e) BY <2>1 DEF GraceInv, ListsDisjoint
  <2> QED BY <2>1, <2>2
<1>12. ListedAreFreed'
  <2> SUFFICES ASSUME NEW d \in Cpus, NEW n \in 1..Len(pending'[d])
               PROVE  state'[pending'[d][n]] = "freed"
    BY DEF ListedAreFreed
  <2>1. n + off(d) \in 1..Len(pending[d]) /\ pending'[d][n] = pending[d][n + off(d)]
    BY <1>9
  <2>2. pending'[d][n] \in Objects /\ state[pending'[d][n]] = "freed"
    BY <2>1, ListedIsObject DEF GraceInv, ListedAreFreed
  <2> QED BY <1>10, <2>2
<1>13. NoUseAfterFree'
  <2> SUFFICES ASSUME NEW d \in Cpus, NEW a \in refs[d]
               PROVE  state'[a] \in {"live", "freed"}
    BY DEF NoUseAfterFree
  <2>1. a \in Objects /\ state[a] \in {"live", "freed"} /\ d \in mask
    BY DEF GraceInv, NoUseAfterFree, RefsBetweenCheckpoints, TypeOK
  <2>2. ASSUME NEW n \in 1..k, a = list[n] PROVE FALSE
    <3>1. n \in 1..Len(list) BY <1>1, <1>2
    <3> QED BY <1>8, <2>1, <2>2, <3>1 DEF GraceInv, Grace
  <2> QED BY <2>1, <2>2
\* Unseen for an old list carries over to what is left of it.
<1>14. ASSUME NEW d, NEW e \in Cpus, NEW n \in 1..Len(pending'[e]),
              Unseen(d, e, n + off(e))
       PROVE  \A m \in n..Len(pending'[e]) : d \notin seen[pending'[e][m]]
  <2> SUFFICES ASSUME NEW m \in n..Len(pending'[e]) PROVE d \notin seen[pending'[e][m]]
    OBVIOUS
  <2>1. off(e) \in Nat /\ Len(pending'[e]) = Len(pending[e]) - off(e) BY <1>9
  <2>2. m \in 1..Len(pending'[e]) /\ m + off(e) \in (n + off(e))..Len(pending[e])
    <3>1. Len(pending[e]) \in Nat BY <1>1
    <3>2. Len(pending'[e]) \in Int BY <2>1, <3>1
    <3>3. n \in Int /\ n >= 1 /\ m \in Int /\ m >= n /\ m <= Len(pending'[e]) BY <3>2
    <3> QED BY <2>1, <3>1, <3>2, <3>3
  <2>3. pending'[e][m] = pending[e][m + off(e)] BY <1>9, <2>2
  <2> QED BY <1>14, <2>2, <2>3 DEF Unseen
<1>15. Grace'
  <2> SUFFICES ASSUME NEW e \in Cpus, NEW d \in mask, NEW n \in 1..Len(pending'[e]),
                      pending'[e][n] \in refs[d]
               PROVE  \A m \in n..Len(pending'[e]) : d \notin seen[pending'[e][m]]
    BY DEF Grace, Unseen
  <2>1. n + off(e) \in 1..Len(pending[e]) /\ pending'[e][n] = pending[e][n + off(e)]
    BY <1>9
  <2>2. Unseen(d, e, n + off(e)) BY <2>1 DEF GraceInv, Grace
  <2> QED BY <1>14, <2>2
<1>16. AccSeen'
  <2>1. ASSUME NEW d \in Cpus
        PROVE  /\ pc'[d] # "walk" => acc'[d] = {}
               /\ \A e \in acc'[d] : \E m \in (at'[d] + 1)..Len(pending'[d]) :
                      e \in seen[pending'[d][m]]
    <3>1. CASE d = c BY <1>6, <3>1
    <3>2. CASE d # c BY <1>4, <1>5, <3>2 DEF GraceInv, AccSeen
    <3> QED BY <3>1, <3>2
  <2> QED BY <2>1 DEF AccSeen
<1>17. MarkedObserved'
  <2> SUFFICES ASSUME NEW e \in Cpus, NEW d \in mask, NEW n \in 1..Len(pending'[e]),
                      d \in seen[pending'[e][n]]
               PROVE  \E m \in n..Len(pending'[e]) : last_observed[d][e] = pending'[e][m]
    BY <1>0 DEF MarkedObserved
  <2>1. /\ n + off(e) \in 1..Len(pending[e]) /\ pending'[e][n] = pending[e][n + off(e)]
        /\ off(e) \in Nat /\ Len(pending'[e]) = Len(pending[e]) - off(e)
    BY <1>9
  <2>2. PICK m \in (n + off(e))..Len(pending[e]) : last_observed[d][e] = pending[e][m]
    BY <2>1 DEF GraceInv, MarkedObserved
  <2>3. /\ m - off(e) \in n..Len(pending'[e]) /\ m - off(e) \in 1..Len(pending'[e])
        /\ (m - off(e)) + off(e) = m
    <3>1. Len(pending[e]) \in Nat BY <1>1
    <3>2. Len(pending'[e]) \in Int BY <2>1, <3>1
    <3>3. n \in Int /\ n >= 1 BY <3>2
    <3>4. m \in Int /\ m >= n + off(e) /\ m <= Len(pending[e]) BY <2>1, <3>1, <3>3
    <3> QED BY <2>1, <3>1, <3>2, <3>3, <3>4, SMTT(30)
  <2>4. pending'[e][m - off(e)] = pending[e][m] BY <1>9, <2>3
  <2> QED BY <2>2, <2>3, <2>4
<1>18. MarkedHeadListed'
  <2> SUFFICES ASSUME NEW d \in mask, pc'[d] = "mark"
               PROVE  \E n \in 1..Len(pending'[i[d]]) :
                          /\ pending'[i[d]][n] = head[d]
                          /\ \A m \in n..Len(pending'[i[d]]) :
                                 d \notin seen[pending'[i[d]][m]]
    BY <1>0 DEF MarkedHeadListed, Unseen
  <2>1. d \in Cpus \ {c} /\ i[d] \in Cpus BY <1>6, <1>7 DEF TypeOK
  <2>2. pc[d] = "mark" BY <1>5, <2>1
  <2>3. PICK p \in 1..Len(pending[i[d]]) :
            pending[i[d]][p] = head[d] /\ Unseen(d, i[d], p)
    BY <2>2 DEF GraceInv, MarkedHeadListed
  <2>4. p > off(i[d])
    <3>1. CASE i[d] = c
      <4>1. p \notin 1..k BY <1>8, <2>3, <3>1
      <4> QED BY <1>1, <1>2, <2>1, <3>1, <4>1 DEF off
    <3>2. CASE i[d] # c BY <1>1, <2>1, <3>2 DEF off
    <3> QED BY <3>1, <3>2
  <2>5. off(i[d]) \in Nat /\ Len(pending'[i[d]]) = Len(pending[i[d]]) - off(i[d])
    BY <1>9, <2>1
  <2>6. p - off(i[d]) \in 1..Len(pending'[i[d]]) /\ (p - off(i[d])) + off(i[d]) = p
    <3>1. Len(pending[i[d]]) \in Nat BY <1>1, <2>1
    <3>2. p \in Int /\ p <= Len(pending[i[d]]) BY <3>1
    <3> QED BY <2>4, <2>5, <3>1, <3>2
  <2>7. pending'[i[d]][p - off(i[d])] = pending[i[d]][p] BY <1>9, <2>1, <2>6
  <2>8. \A m \in (p - off(i[d]))..Len(pending'[i[d]]) : d \notin seen[pending'[i[d]][m]]
    BY <1>14, <2>1, <2>3, <2>6
  <2> QED BY <2>3, <2>6, <2>7, <2>8
<1>19. LiveUnseen' BY ThreadsAfterEnd DEF GraceInv, LiveUnseen
<1> QED BY <1>11, <1>12, <1>13, <1>15, <1>16, <1>17, <1>18, <1>19, ThreadsAfterEnd
        DEF GraceInv

LEMMA GraceService ==
    ASSUME TypeOK, GraceInv, NEW c \in Cpus, service(c)
    PROVE  GraceInv'
<1>1. pc[c] = "walk" /\ UNCHANGED <<mask, seen, last_observed, refs, i, head>>
  BY DEF service
<1>2. CASE EndCheckpoint(c) /\ UNCHANGED <<state, pending>>
  BY <1>1, <1>2, GraceNothingReady
<1>3. CASE /\ at[c] > 0
           /\ cpu_seen_all(acc[c] \cup seen[pending[c][at[c]]])
           /\ pending' = [pending EXCEPT
                             ![c] = SubSeq(pending[c], at[c] + 1, Len(pending[c]))]
           /\ state' = [a \in Objects |->
                           IF a \in {pending[c][n] : n \in 1..at[c]}
                           THEN "deleted" ELSE state[a]]
           /\ EndCheckpoint(c)
  BY <1>1, <1>3, GraceCut DEF CutAt
<1>4. CASE /\ at[c] > 0
           /\ at' = [at EXCEPT ![c] = @ - 1]
           /\ acc' = [acc EXCEPT ![c] = acc[c] \cup seen[pending[c][at[c]]]]
           /\ UNCHANGED <<state, pending, life, pc>>
  BY <1>1, <1>4, GraceNextNode
<1> QED BY <1>2, <1>3, <1>4 DEF service

LEMMA GraceStutters ==
    ASSUME GraceInv, UNCHANGED vars
    PROVE  GraceInv'
<1> USE DEF vars, cpuVars, objVars, walkVars
<1>1. NoUseAfterFree' /\ ListsDisjoint' /\ ListedAreFreed' /\ RefsBetweenCheckpoints'
  BY DEF GraceInv, NoUseAfterFree, ListsDisjoint, ListedAreFreed, RefsBetweenCheckpoints
<1>2. Grace' /\ AccSeen' /\ MarkedObserved' /\ MarkedHeadListed'
  BY DEF GraceInv, Grace, AccSeen, MarkedObserved, MarkedHeadListed, Unseen
<1>3. LiveUnseen' /\ MaskIsRunning' BY DEF GraceInv, LiveUnseen, MaskIsRunning
<1> QED BY <1>1, <1>2, <1>3 DEF GraceInv

(***************************************************************************)
(* The grace period holds with any number of CPUs: whoever refers to a     *)
(* freed object has marked nothing at or after it in its list, and a head  *)
(* that a registered CPU is about to mark is still on its list.            *)
(***************************************************************************)
THEOREM GraceCorrect == Spec => []GraceInv
<1>1. Init => GraceInv BY GraceInit
<1>2. TypeOK /\ GraceInv /\ [Next]_vars => GraceInv'
  BY GraceCpuInit, GraceAlloc, GraceLookup, GraceFree, GraceBegin, GraceObserve,
     GraceMark, GraceService, GraceStutters
  DEF Next, Checkpoint
<1> QED BY <1>1, <1>2, TypeCorrect, PTL DEF Spec

(***************************************************************************)
(* No object is deleted while a thread refers to it: for any number of     *)
(* CPUs, recycled addresses, and threads that start and leave.             *)
(***************************************************************************)
THEOREM NoUseAfterFreeCorrect == Spec => []NoUseAfterFree
<1>1. GraceInv => NoUseAfterFree BY DEF GraceInv
<1> QED BY <1>1, GraceCorrect, PTL
=============================================================================
