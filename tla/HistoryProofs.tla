---------------------------- MODULE HistoryProofs ----------------------------
(***************************************************************************)
(* Proofs about History, for any sets of threads and versions.             *)
(***************************************************************************)
EXTENDS History, TLAPS

LEMMA BaseIsVersion == Base \in Versions /\ Nil \notin Versions
BY BaseAssumption, NilAssumption

-----------------------------------------------------------------------------
(* Type correctness.                                                       *)

LEMMA ExchangeType ==
    ASSUME TypeOK, NEW t \in Threads, at[t] # Nil, NEW p \in Versions \cup {Nil},
           NEW f \in BOOLEAN, Exchange(t, flagged_ptr(p, f), TRUE)
    PROVE  TypeOK'
BY DEF TypeOK, Exchange, Finish, flagged_ptr

LEMMA FinishType ==
    ASSUME TypeOK, NEW t \in Threads, NEW r \in Versions \cup {Nil} \cup BOOLEAN,
           Finish(t, r), UNCHANGED newer
    PROVE  TypeOK'
BY DEF TypeOK, Finish

LEMMA FollowType ==
    ASSUME TypeOK, NEW t \in Threads, at[t] # Nil, Follow(t)
    PROVE  TypeOK'
<1>1. at[t] \in Versions /\ newer[at[t]].ptr \in Versions \cup {Nil} BY DEF TypeOK
<1> QED BY <1>1 DEF TypeOK, Follow

LEMMA TypeNext == TypeOK /\ [Next]_vars => TypeOK'
<1> SUFFICES ASSUME TypeOK, [Next]_vars PROVE TypeOK'
  OBVIOUS
<1> USE BaseIsVersion
<1>1. ASSUME NEW t \in Threads, NEW o \in {"set", "add", "replace"}, Bring(t, o)
      PROVE  TypeOK'
  BY <1>1 DEF TypeOK, Bring
<1>2. ASSUME NEW t \in Threads, NEW o \in {"del", "newest"}, Ask(t, o)
      PROVE  TypeOK'
  BY <1>2 DEF TypeOK, Ask
<1>3. ASSUME NEW t \in Threads, mv_set(t) \/ mv_add(t) \/ mv_replace(t) PROVE TypeOK'
  <2>1. at[t] # Nil /\ mine[t] \in Versions \cup {Nil}
    BY <1>3 DEF TypeOK, mv_set, mv_add, mv_replace, Walking
  <2>2. CASE Exchange(t, flagged_ptr(mine[t], FALSE), TRUE)
    BY <2>1, <2>2, ExchangeType
  <2>3. CASE Follow(t) BY <2>1, <2>3, FollowType
  <2>4. CASE Finish(t, FALSE) /\ UNCHANGED newer BY <2>4, FinishType
  <2> QED BY <1>3, <2>2, <2>3, <2>4 DEF mv_set, mv_add, mv_replace
<1>4. ASSUME NEW t \in Threads, mv_del(t) PROVE TypeOK'
  <2>1. at[t] # Nil BY <1>4 DEF mv_del, Walking
  <2>2. CASE Exchange(t, deleted, TRUE)
    BY <2>1, <2>2, ExchangeType DEF deleted
  <2>3. CASE Follow(t) BY <2>1, <2>3, FollowType
  <2> QED BY <1>4, <2>2, <2>3 DEF mv_del
<1>5. ASSUME NEW t \in Threads, newest(t) PROVE TypeOK'
  <2>1. at[t] # Nil /\ at[t] \in Versions BY <1>5 DEF newest, Walking, TypeOK
  <2>2. CASE Follow(t) BY <2>1, <2>2, FollowType
  <2>3. CASE Finish(t, Nil) /\ UNCHANGED newer BY <2>3, FinishType
  <2>4. CASE Finish(t, at[t]) /\ UNCHANGED newer BY <2>1, <2>4, FinishType
  <2> QED BY <1>5, <2>2, <2>3, <2>4 DEF newest
<1>6. ASSUME NEW t \in Threads, return(t) PROVE TypeOK' BY <1>6 DEF TypeOK, return
<1>7. CASE UNCHANGED vars BY <1>7 DEF TypeOK, vars
<1> QED BY <1>1, <1>2, <1>3, <1>4, <1>5, <1>6, <1>7 DEF Next, Call, Step

(* Every variable of History keeps its type, for any threads and versions. *)
THEOREM TypeCorrect == Spec => []TypeOK
<1>1. Init => TypeOK
  <2> SUFFICES ASSUME Init PROVE TypeOK
    OBVIOUS
  <2>1. newer \in [Versions -> [ptr : Versions \cup {Nil}, del : BOOLEAN]]
    BY DEF Init, nullptr, flagged_ptr
  <2>2. used \in SUBSET Versions /\ crashed \in BOOLEAN BY BaseIsVersion DEF Init
  <2> QED BY <2>1, <2>2 DEF Init, TypeOK
<1> QED BY <1>1, TypeNext, PTL DEF Spec

-----------------------------------------------------------------------------
(* The chain.                                                              *)

LEMMA ChainInit == Init => ChainInv
<1> SUFFICES ASSUME Init PROVE ChainInv
  OBVIOUS
<1> USE BaseIsVersion
<1>1. \A v \in Versions : newer[v].ptr = Nil /\ newer[v] = nullptr
  BY DEF Init, nullptr, flagged_ptr
<1>2. \A v \in Versions : Linked(v) <=> v = Base BY <1>1 DEF Linked
<1>3. OnePredecessor /\ LinksOnChain BY <1>1 DEF OnePredecessor, LinksOnChain
<1>4. OneTail BY <1>1, <1>2 DEF OneTail
<1>5. WalksOnChain /\ OwnVersions BY <1>2 DEF Init, WalksOnChain, OwnVersions
<1> QED BY <1>3, <1>4, <1>5 DEF ChainInv

(* The parts that only depend on newer stay true when it does not change. *)
LEMMA ChainStays ==
    ASSUME ChainInv, UNCHANGED newer
    PROVE  /\ OnePredecessor' /\ LinksOnChain' /\ OneTail'
           /\ \A v : Linked(v)' <=> Linked(v)
<1>1. \A v : Linked(v)' <=> Linked(v) BY DEF Linked
<1>2. OnePredecessor' BY DEF ChainInv, OnePredecessor
<1>3. LinksOnChain' BY <1>1 DEF ChainInv, LinksOnChain, nullptr
<1>4. OneTail' BY <1>1 DEF ChainInv, OneTail
<1> QED BY <1>1, <1>2, <1>3, <1>4

(***************************************************************************)
(* A compare-and-exchange that succeeds found the one version without a    *)
(* newer one: the version it links becomes the last instead.               *)
(***************************************************************************)
LEMMA ChainLink ==
    ASSUME TypeOK, ChainInv, NEW t \in Threads,
           op[t] \in {"set", "add", "replace"}, at[t] # Nil, newer[at[t]].ptr = Nil,
           Exchange(t, flagged_ptr(mine[t], FALSE), TRUE)
    PROVE  ChainInv'
<1> DEFINE n == at[t]
           e == mine[t]
           L(v) == v = Base \/ \E u \in Versions : newer'[u].ptr = v
<1> USE BaseIsVersion
<1>1. n \in Versions /\ e \in Versions /\ Linked(n) /\ ~Linked(e) /\ e # n /\ e # Base
  BY DEF TypeOK, ChainInv, WalksOnChain, Linked
<1>2. newer[e] = nullptr /\ newer[e].ptr = Nil
  <2>1. newer[e] = nullptr BY <1>1 DEF ChainInv, LinksOnChain
  <2> QED BY <2>1 DEF nullptr, flagged_ptr
<1>3. /\ newer'[n].ptr = e /\ newer'[n].del = FALSE
      /\ \A v \in Versions \ {n} : newer'[v] = newer[v]
  BY <1>1 DEF Exchange, flagged_ptr, TypeOK
<1>4. \A v \in Versions : L(v) <=> Linked(v) \/ v = e
  BY <1>1, <1>3 DEF Linked
<1>5. OnePredecessor'
  <2> SUFFICES ASSUME NEW u \in Versions, NEW v \in Versions, newer'[u].ptr # Nil
               PROVE  /\ newer'[u].ptr # Base
                      /\ newer'[u].ptr = newer'[v].ptr => u = v
    BY DEF OnePredecessor
  <2>1. \A w \in Versions : newer[w].ptr # e BY <1>1 DEF Linked
  <2> QED BY <1>1, <1>3, <2>1 DEF ChainInv, OnePredecessor
<1>6. LinksOnChain'
  <2> SUFFICES ASSUME NEW u \in Versions, newer'[u] # nullptr
               PROVE  L(u) /\ (newer'[u].del => newer'[u].ptr = Nil)
    BY DEF LinksOnChain, nullptr, Linked
  <2> QED BY <1>1, <1>3, <1>4 DEF ChainInv, LinksOnChain
<1>7. OneTail'
  <2>1. L(e) /\ newer'[e].ptr = Nil BY <1>1, <1>2, <1>3, <1>4
  <2>2. ASSUME NEW u \in Versions, L(u), newer'[u].ptr = Nil PROVE u = e
    BY <1>1, <1>3, <1>4, <2>2 DEF ChainInv, OneTail
  <2> QED BY <1>1, <2>1, <2>2 DEF OneTail, Linked
<1>8. WalksOnChain'
  <2>1. ASSUME NEW s \in Threads
        PROVE  /\ at'[s] # Nil => L(at'[s])
               /\ op[s] \in {"set", "add", "replace"} => mine[s] # Nil
               /\ at'[s] # Nil /\ op[s] \in {"set", "add", "replace"} => ~L(mine[s])
    <3>1. CASE s = t BY <3>1 DEF ChainInv, WalksOnChain, Exchange, Finish, TypeOK
    <3>2. CASE s # t
      <4>1. /\ at'[s] = at[s] /\ at[s] \in Versions \cup {Nil}
            /\ mine[s] \in Versions \cup {Nil}
        BY <3>2 DEF Exchange, Finish, TypeOK
      <4>2. mine[s] # e BY <1>1, <3>2 DEF ChainInv, OwnVersions
      <4> QED BY <1>4, <4>1, <4>2 DEF ChainInv, WalksOnChain
    <3> QED BY <3>1, <3>2
  <2>2. op' = op /\ mine' = mine BY DEF Exchange, Finish
  <2>3. ASSUME NEW s \in Threads
        PROVE  /\ at'[s] # Nil => L(at'[s])
               /\ op'[s] \in {"set", "add", "replace"} => mine'[s] # Nil
               /\ at'[s] # Nil /\ op'[s] \in {"set", "add", "replace"} => ~L(mine'[s])
    BY <2>1, <2>2
  <2> QED BY <2>3 DEF WalksOnChain, Linked
<1>9. OwnVersions'
  <2>1. \A v \in Versions : L(v) => v \in used BY <1>1, <1>4 DEF ChainInv, OwnVersions
  <2> QED BY <2>1 DEF ChainInv, OwnVersions, Exchange, Finish, Linked
<1> QED BY <1>5, <1>6, <1>7, <1>8, <1>9 DEF ChainInv

(* A delete leaves the chain as it is and flags its last version. *)
LEMMA ChainDelete ==
    ASSUME TypeOK, ChainInv, NEW t \in Threads, at[t] # Nil, newer[at[t]].ptr = Nil,
           Exchange(t, deleted, TRUE)
    PROVE  ChainInv'
<1> DEFINE n == at[t]
<1>1. n \in Versions /\ Linked(n) BY DEF TypeOK, ChainInv, WalksOnChain
<1>2. /\ newer'[n].ptr = Nil
      /\ \A v \in Versions : newer'[v].ptr = newer[v].ptr
      /\ \A v \in Versions \ {n} : newer'[v] = newer[v]
  BY <1>1 DEF Exchange, deleted, flagged_ptr, TypeOK
<1>3. \A v : Linked(v)' <=> Linked(v) BY <1>2 DEF Linked
<1>4. OnePredecessor' BY <1>2 DEF ChainInv, OnePredecessor
<1>5. LinksOnChain'
  <2> SUFFICES ASSUME NEW u \in Versions, newer'[u] # nullptr
               PROVE  Linked(u)' /\ (newer'[u].del => newer'[u].ptr = Nil)
    BY DEF LinksOnChain, nullptr
  <2> QED BY <1>1, <1>2, <1>3 DEF ChainInv, LinksOnChain
<1>6. OneTail' BY <1>2, <1>3 DEF ChainInv, OneTail
<1>7. WalksOnChain'
  BY <1>3 DEF ChainInv, WalksOnChain, Exchange, Finish, TypeOK
<1>8. OwnVersions' BY <1>3 DEF ChainInv, OwnVersions, Exchange, Finish
<1> QED BY <1>4, <1>5, <1>6, <1>7, <1>8 DEF ChainInv

LEMMA ChainFinish ==
    ASSUME TypeOK, ChainInv, NEW t \in Threads, NEW r, Finish(t, r), UNCHANGED newer
    PROVE  ChainInv'
<1>1. WalksOnChain' BY ChainStays DEF ChainInv, WalksOnChain, Finish, TypeOK
<1>2. OwnVersions' BY ChainStays DEF ChainInv, OwnVersions, Finish
<1> QED BY <1>1, <1>2, ChainStays DEF ChainInv

LEMMA ChainFollow ==
    ASSUME TypeOK, ChainInv, NEW t \in Threads, at[t] # Nil, Follow(t)
    PROVE  ChainInv'
<1>1. UNCHANGED newer BY DEF Follow
<1>2. at[t] \in Versions BY DEF TypeOK
<1>3. WalksOnChain'
  <2>1. newer[at[t]].ptr # Nil => Linked(newer[at[t]].ptr) BY <1>2 DEF Linked
  <2> QED BY <1>1, <2>1, ChainStays DEF ChainInv, WalksOnChain, Follow, TypeOK
<1>4. OwnVersions' BY <1>1, ChainStays DEF ChainInv, OwnVersions, Follow
<1> QED BY <1>1, <1>3, <1>4, ChainStays DEF ChainInv

LEMMA ChainNext == TypeOK /\ ChainInv /\ [Next]_vars => ChainInv'
<1> SUFFICES ASSUME TypeOK, ChainInv, [Next]_vars PROVE ChainInv'
  OBVIOUS
<1> USE BaseIsVersion
<1>1. ASSUME NEW t \in Threads, NEW o \in {"set", "add", "replace"}, Bring(t, o)
      PROVE  ChainInv'
  <2>1. PICK v \in Versions \ used :
            mine' = [mine EXCEPT ![t] = v] /\ used' = used \cup {v}
    BY <1>1 DEF Bring
  <2>2. UNCHANGED newer BY <1>1 DEF Bring
  <2>3. ~Linked(v) /\ Linked(Base) BY <2>1 DEF ChainInv, OwnVersions, Linked
  <2>4. WalksOnChain'
    BY <1>1, <2>1, <2>2, <2>3, ChainStays DEF ChainInv, WalksOnChain, Bring, TypeOK
  <2>5. OwnVersions'
    BY <1>1, <2>1, <2>2, ChainStays DEF ChainInv, OwnVersions, TypeOK
  <2> QED BY <2>2, <2>4, <2>5, ChainStays DEF ChainInv
<1>2. ASSUME NEW t \in Threads, NEW o \in {"del", "newest"}, Ask(t, o)
      PROVE  ChainInv'
  <2>1. UNCHANGED newer BY <1>2 DEF Ask
  <2>2. Linked(Base) BY DEF Linked
  <2>3. WalksOnChain'
    BY <1>2, <2>1, <2>2, ChainStays DEF ChainInv, WalksOnChain, Ask, TypeOK
  <2>4. OwnVersions' BY <1>2, <2>1, ChainStays DEF ChainInv, OwnVersions, Ask
  <2> QED BY <2>1, <2>3, <2>4, ChainStays DEF ChainInv
<1>3. ASSUME NEW t \in Threads, mv_set(t) \/ mv_add(t) \/ mv_replace(t)
      PROVE  ChainInv'
  <2>1. at[t] # Nil /\ op[t] \in {"set", "add", "replace"}
    BY <1>3 DEF mv_set, mv_add, mv_replace, Walking
  <2>2. CASE /\ newer[at[t]] \in {nullptr, deleted}
             /\ Exchange(t, flagged_ptr(mine[t], FALSE), TRUE)
    <3>1. newer[at[t]].ptr = Nil BY <2>2 DEF nullptr, deleted, flagged_ptr
    <3> QED BY <2>1, <2>2, <3>1, ChainLink
  <2>3. CASE Follow(t) BY <2>1, <2>3, ChainFollow
  <2>4. CASE Finish(t, FALSE) /\ UNCHANGED newer BY <2>4, ChainFinish
  <2> QED BY <1>3, <2>2, <2>3, <2>4 DEF mv_set, mv_add, mv_replace
<1>4. ASSUME NEW t \in Threads, mv_del(t) PROVE ChainInv'
  <2>1. at[t] # Nil BY <1>4 DEF mv_del, Walking
  <2>2. CASE newer[at[t]] = nullptr /\ Exchange(t, deleted, TRUE)
    <3>1. newer[at[t]].ptr = Nil BY <2>2 DEF nullptr, flagged_ptr
    <3> QED BY <2>1, <2>2, <3>1, ChainDelete
  <2>3. CASE Follow(t) BY <2>1, <2>3, ChainFollow
  <2> QED BY <1>4, <2>2, <2>3 DEF mv_del
<1>5. ASSUME NEW t \in Threads, newest(t) PROVE ChainInv'
  <2>1. at[t] # Nil BY <1>5 DEF newest, Walking
  <2>2. CASE Follow(t) BY <2>1, <2>2, ChainFollow
  <2>3. CASE Finish(t, Nil) /\ UNCHANGED newer BY <2>3, ChainFinish
  <2>4. CASE Finish(t, at[t]) /\ UNCHANGED newer BY <2>4, ChainFinish
  <2> QED BY <1>5, <2>2, <2>3, <2>4 DEF newest
<1>6. ASSUME NEW t \in Threads, return(t) PROVE ChainInv'
  <2>1. UNCHANGED newer BY <1>6 DEF return
  <2>2. WalksOnChain'
    BY <1>6, <2>1, ChainStays DEF ChainInv, WalksOnChain, return, TypeOK
  <2>3. OwnVersions'
    BY <1>6, <2>1, ChainStays DEF ChainInv, OwnVersions, return, TypeOK
  <2> QED BY <2>1, <2>2, <2>3, ChainStays DEF ChainInv
<1>7. CASE UNCHANGED vars
  <2>1. UNCHANGED newer BY <1>7 DEF vars
  <2>2. WalksOnChain' /\ OwnVersions'
    BY <1>7, <2>1, ChainStays DEF vars, ChainInv, WalksOnChain, OwnVersions
  <2> QED BY <2>1, <2>2, ChainStays DEF ChainInv
<1> QED BY <1>1, <1>2, <1>3, <1>4, <1>5, <1>6, <1>7 DEF Next, Call, Step

(***************************************************************************)
(* Any number of concurrent writers keep the versions of an entry in one   *)
(* chain with one last version.                                            *)
(***************************************************************************)
THEOREM ChainCorrect == Spec => []ChainInv
BY ChainInit, ChainNext, TypeCorrect, PTL DEF Spec

-----------------------------------------------------------------------------
(* Nothing is ever unlinked.                                               *)

(* newer_ only changes where it held no pointer. *)
LEMMA PointersKept ==
    ASSUME TypeOK, [Next]_vars, NEW u \in Versions, newer[u].ptr # Nil
    PROVE  newer'[u].ptr = newer[u].ptr
<1>1. ASSUME NEW t \in Threads, mv_set(t) \/ mv_add(t) \/ mv_replace(t) \/ mv_del(t)
      PROVE  newer'[u].ptr = newer[u].ptr
  <2>1. CASE UNCHANGED newer BY <2>1
  <2>2. CASE /\ newer[at[t]] \in {nullptr, deleted}
             /\ \E x : newer' = [newer EXCEPT ![at[t]] = x]
    <3>1. u # at[t] BY <2>2 DEF nullptr, deleted, flagged_ptr
    <3> QED BY <2>2, <3>1 DEF TypeOK
  <2> QED BY <1>1, <2>1, <2>2
          DEF mv_set, mv_add, mv_replace, mv_del, Exchange, Follow
<1>2. CASE UNCHANGED newer BY <1>2
<1>3. CASE UNCHANGED vars BY <1>3 DEF vars
<1> QED BY <1>1, <1>2, <1>3
        DEF Next, Call, Step, Bring, Ask, newest, return, Follow

(***************************************************************************)
(* A version that is on the chain stays on it: a reader on its way along   *)
(* the chain cannot be cut off from the newest version.                    *)
(***************************************************************************)
THEOREM StaysLinkedCorrect == Spec => StaysLinked
<1>1. TypeOK /\ [Next]_vars => [\A v \in Versions : Linked(v) => Linked(v)']_vars
  <2> SUFFICES ASSUME TypeOK, [Next]_vars, NEW v \in Versions, Linked(v)
               PROVE  v = Base \/ \E u \in Versions : newer'[u].ptr = v
    BY DEF Linked
  <2>1. CASE v = Base BY <2>1
  <2>2. ASSUME NEW u \in Versions, newer[u].ptr = v PROVE newer'[u].ptr = v
    <3>1. newer[u].ptr # Nil BY <2>2, BaseIsVersion
    <3> QED BY <2>2, <3>1, PointersKept
  <2> QED BY <2>1, <2>2 DEF Linked
<1> QED BY <1>1, TypeCorrect, PTL DEF Spec, StaysLinked

-----------------------------------------------------------------------------
(***************************************************************************)
(* History implements AtomicVersion: an operation takes effect at its      *)
(* compare-and-exchange or its load of the last version, and a step along  *)
(* the chain changes nothing that a caller can see.                        *)
(***************************************************************************)

(* A thread in no operation has neither a version nor a result. *)
IdleInv == \A t \in Threads : op[t] = "none" => mine[t] = Nil /\ res[t] = Nil

LEMMA IdleNext == TypeOK /\ IdleInv /\ [Next]_vars => IdleInv'
<1> SUFFICES ASSUME TypeOK, IdleInv, [Next]_vars PROVE IdleInv'
  OBVIOUS
<1>1. ASSUME NEW t \in Threads, NEW o \in {"set", "add", "replace"}, Bring(t, o) PROVE IdleInv'
  BY <1>1 DEF TypeOK, IdleInv, Bring
<1>2. ASSUME NEW t \in Threads, NEW o \in {"del", "newest"}, Ask(t, o) PROVE IdleInv'
  BY <1>2 DEF TypeOK, IdleInv, Ask
<1>3. ASSUME NEW t \in Threads, NEW r, op[t] # "none", Finish(t, r) PROVE IdleInv'
  BY <1>3 DEF TypeOK, IdleInv, Finish
<1>4. CASE UNCHANGED <<op, mine, res>> BY <1>4 DEF IdleInv
<1>5. ASSUME NEW t \in Threads, mv_set(t) \/ mv_add(t) \/ mv_replace(t) \/ mv_del(t) \/ newest(t)
      PROVE  IdleInv'
  BY <1>3, <1>4, <1>5 DEF mv_set, mv_add, mv_replace, mv_del, newest, Walking, Exchange, Follow
<1>6. ASSUME NEW t \in Threads, return(t) PROVE IdleInv' BY <1>6 DEF TypeOK, IdleInv, return
<1> QED BY <1>1, <1>2, <1>4, <1>5, <1>6 DEF Next, Call, Step, vars

LEMMA IdleCorrect == Spec => []IdleInv
<1>1. Init => IdleInv BY DEF Init, IdleInv
<1> QED BY <1>1, IdleNext, TypeCorrect, PTL DEF Spec

(* The version without a newer one is the current version. *)
LEMMA TailIsCurrent ==
    ASSUME ChainInv, NEW v \in Versions, Linked(v), newer[v].ptr = Nil
    PROVE  Current = IF newer[v].del THEN Nil ELSE v
<1>1. \A u \in Versions : Linked(u) /\ newer[u].ptr = Nil => u = v
  BY DEF ChainInv, OneTail
<1>2. (CHOOSE u \in Versions : Linked(u) /\ newer[u].ptr = Nil) = v BY <1>1
<1> QED BY <1>2 DEF Current

LinkedNext(v) == v = Base \/ \E u \in Versions : newer'[u].ptr = v

LEMMA NextTailIsCurrent ==
    ASSUME ChainInv', NEW v \in Versions, LinkedNext(v), newer'[v].ptr = Nil
    PROVE  Current' = IF newer'[v].del THEN Nil ELSE v
<1>1. \A u \in Versions : LinkedNext(u) /\ newer'[u].ptr = Nil => u = v
  BY DEF ChainInv, OneTail, Linked, LinkedNext
<1>2. (CHOOSE u \in Versions : LinkedNext(u) /\ newer'[u].ptr = Nil) = v BY <1>1
<1> QED BY <1>2 DEF Current, Linked, LinkedNext

LEMMA SameCurrent ==
    ASSUME UNCHANGED newer
    PROVE  Current' = Current
BY DEF Current, Linked

(* The operation of a thread as AtomicVersion has it. *)
Operation(t) ==
    [st |-> IF op[t] = "none" THEN "idle" ELSE IF at[t] = Nil THEN "done" ELSE "called",
     op |-> op[t], version |-> mine[t], res |-> res[t]]

CallNow == [t \in Threads |-> Operation(t)]

OthersSame(t) ==
    \A u \in Threads \ {t} :
        op'[u] = op[u] /\ mine'[u] = mine[u] /\ at'[u] = at[u] /\ res'[u] = res[u]

LEMMA CallsOthers ==
    ASSUME NEW t \in Threads, OthersSame(t)
    PROVE  CallNow' = [CallNow EXCEPT ![t] = Operation(t)']
<1>1. \A u \in Threads \ {t} : Operation(u)' = Operation(u) BY DEF OthersSame, Operation
<1> QED BY <1>1 DEF CallNow

LEMMA CallStep ==
    ASSUME TypeOK, IdleInv, NEW t \in Threads, Call(t)
    PROVE  Abstract!Call(t)
<1>1. /\ OthersSame(t) /\ op[t] = "none" /\ op'[t] \in Abstract!Ops /\ at'[t] = Base
      /\ mine'[t] \in Versions \cup {Nil} /\ res'[t] = Nil /\ UNCHANGED newer
  BY DEF TypeOK, IdleInv, Call, Bring, Ask, Idle, OthersSame, Abstract!Ops
<1>2. CallNow[t] = Abstract!Idle
  BY <1>1 DEF CallNow, Operation, IdleInv, Abstract!Idle, Abstract!Operation
<1>3. Operation(t)' = Abstract!Operation("called", op'[t], mine'[t], Nil)
  BY <1>1, BaseIsVersion DEF Operation, Abstract!Ops, Abstract!Operation
<1>4. CallNow' = [CallNow EXCEPT ![t] = Abstract!Operation("called", op'[t], mine'[t], Nil)]
  BY <1>1, <1>3, CallsOthers
<1> QED BY <1>1, <1>2, <1>4, SameCurrent DEF Abstract!Call, CallNow, Operation

LEMMA ReturnStep ==
    ASSUME TypeOK, NEW t \in Threads, return(t)
    PROVE  Abstract!Return(t)
<1>1. OthersSame(t) BY DEF TypeOK, return, OthersSame
<1>2. /\ op[t] # "none" /\ at[t] = Nil /\ op'[t] = "none" /\ mine'[t] = Nil
      /\ res'[t] = Nil /\ UNCHANGED newer
  BY DEF TypeOK, return
<1>3. CallNow[t].st = "done" BY <1>2 DEF CallNow, Operation
<1>4. Operation(t)' = Abstract!Idle BY <1>2 DEF Operation, Abstract!Idle, Abstract!Operation
<1>5. CallNow' = [CallNow EXCEPT ![t] = Abstract!Idle] BY <1>1, <1>4, CallsOthers
<1> QED BY <1>2, <1>3, <1>5, SameCurrent DEF Abstract!Return, CallNow, Operation

LEMMA FollowStep ==
    ASSUME TypeOK, NEW t \in Threads, at[t] # Nil, op[t] # "none", Follow(t)
    PROVE  UNCHANGED Abstract!vars
<1>1. OthersSame(t) BY DEF TypeOK, Follow, OthersSame
<1>2. UNCHANGED <<newer, op, mine, res>> /\ at'[t] # Nil BY DEF TypeOK, Follow
<1>3. Operation(t)' = Operation(t) BY <1>2 DEF Operation
<1>4. CallNow' = CallNow BY <1>1, <1>3, CallsOthers DEF CallNow
<1> QED BY <1>2, <1>4, SameCurrent DEF Abstract!vars, CallNow, Operation

(* The step that ends a walk is the one in which the operation takes effect. *)
LEMMA ApplyStep ==
    ASSUME TypeOK, NEW t \in Threads, at[t] # Nil, op[t] # "none", NEW r, Finish(t, r),
           Abstract!Effect(op[t], mine[t], Current', r)
    PROVE  Abstract!Apply(t)
<1>1. OthersSame(t) BY DEF TypeOK, Finish, OthersSame
<1>2. UNCHANGED <<op, mine>> /\ at'[t] = Nil /\ res'[t] = r BY DEF TypeOK, Finish
<1>3. PICK c : c = CallNow[t] OBVIOUS
<1>4. PICK o, v, q : o = op[t] /\ v = mine[t] /\ q = res[t] OBVIOUS
<1>5. c = [st |-> "called", op |-> o, version |-> v, res |-> q]
  BY <1>3, <1>4 DEF CallNow, Operation
<1>6. Operation(t)' = [st |-> "done", op |-> o, version |-> v, res |-> r]
  BY <1>2, <1>4 DEF Operation
<1>7. [c EXCEPT !.st = "done", !.res = r]
      = [st |-> "done", op |-> o, version |-> v, res |-> r]
  <2>1. DOMAIN c = {"st", "op", "version", "res"} BY <1>5
  <2>2. [c EXCEPT !.st = "done", !.res = r]
        = [f \in DOMAIN c |-> IF f = "res" THEN r ELSE IF f = "st" THEN "done" ELSE c[f]]
    BY <1>5
  <2>3. [st |-> "done", op |-> o, version |-> v, res |-> r]
        = [f \in {"st", "op", "version", "res"} |->
              IF f = "res" THEN r ELSE IF f = "st" THEN "done" ELSE c[f]]
    BY <1>5
  <2> QED BY <2>1, <2>2, <2>3
<1>8. CallNow' = [CallNow EXCEPT ![t] = Operation(t)'] BY <1>1, CallsOthers
<1>9. CallNow'[t] = Operation(t)' BY DEF CallNow
<1>10. CallNow'[t].res = r BY <1>6, <1>9
<1>11. CallNow' = [CallNow EXCEPT ![t].st = "done", ![t].res = CallNow'[t].res]
  BY <1>3, <1>6, <1>7, <1>8, <1>10 DEF CallNow
<1>12. /\ CallNow[t].st = "called" /\ CallNow[t].op = op[t] /\ CallNow[t].version = mine[t]
  BY <1>3, <1>4, <1>5
<1>13. Abstract!Effect(CallNow[t].op, CallNow[t].version, Current', CallNow'[t].res)
  BY <1>10, <1>12
<1> QED BY <1>11, <1>12, <1>13 DEF Abstract!Apply, CallNow, Operation

LEMMA StepImplements ==
    ASSUME TypeOK, ChainInv, ChainInv', NEW t \in Threads,
           mv_set(t) \/ mv_add(t) \/ mv_replace(t) \/ mv_del(t) \/ newest(t)
    PROVE  Abstract!Apply(t) \/ UNCHANGED Abstract!vars
<1> USE BaseIsVersion
<1>1. at[t] # Nil /\ op[t] # "none"
  BY DEF mv_set, mv_add, mv_replace, mv_del, newest, Walking
<1>2. PICK n \in Versions : n = at[t] BY <1>1 DEF TypeOK
<1>3. Linked(n) BY <1>1, <1>2 DEF ChainInv, WalksOnChain
<1>4. newer[n] = nullptr => Current = n
  BY <1>3, TailIsCurrent DEF nullptr, flagged_ptr
<1>5. newer[n] = deleted => Current = Nil
  BY <1>3, TailIsCurrent DEF deleted, flagged_ptr
<1>6. CASE Follow(t) BY <1>1, <1>6, FollowStep
<1>7. ASSUME op[t] \in {"set", "add", "replace"}, newer[n] \in {nullptr, deleted},
             Exchange(t, flagged_ptr(mine[t], FALSE), TRUE)
      PROVE  Current' = mine[t]
  <2>1. PICK e \in Versions : e = mine[t] BY <1>7 DEF TypeOK, ChainInv, WalksOnChain
  <2>2. ~Linked(e) BY <1>1, <1>7, <2>1 DEF ChainInv, WalksOnChain
  <2>3. newer[e] = nullptr BY <2>2 DEF ChainInv, LinksOnChain
  <2>4. newer' = [newer EXCEPT ![n] = flagged_ptr(e, FALSE)] BY <1>2, <1>7, <2>1 DEF Exchange
  <2>5. newer'[n].ptr = e /\ newer'[e] = nullptr
    BY <1>3, <2>2, <2>3, <2>4 DEF TypeOK, flagged_ptr
  <2>6. LinkedNext(e) /\ newer'[e].ptr = Nil /\ ~newer'[e].del
    BY <2>5 DEF LinkedNext, nullptr, flagged_ptr
  <2> QED BY <2>1, <2>6, NextTailIsCurrent
<1>8. CASE mv_set(t) \/ mv_replace(t)
  <2>1. CASE newer[n] = nullptr /\ Exchange(t, flagged_ptr(mine[t], FALSE), TRUE)
    <3>1. Current # Nil /\ Current' = mine[t] /\ op[t] \in {"set", "replace"}
      BY <1>4, <1>7, <1>8, <2>1 DEF mv_set, mv_replace, Walking
    <3>2. Abstract!Effect(op[t], mine[t], Current', TRUE) BY <3>1 DEF Abstract!Effect
    <3> QED BY <1>1, <2>1, <3>2, ApplyStep DEF Exchange
  <2> QED BY <1>2, <1>6, <1>8, <2>1 DEF mv_set, mv_replace
<1>9. CASE mv_add(t)
  <2>1. op[t] = "add" BY <1>9 DEF mv_add, Walking
  <2>2. CASE newer[n] = deleted /\ Exchange(t, flagged_ptr(mine[t], FALSE), TRUE)
    <3>1. Current = Nil /\ Current' = mine[t] BY <1>5, <1>7, <2>1, <2>2
    <3>2. Abstract!Effect(op[t], mine[t], Current', TRUE) BY <2>1, <3>1 DEF Abstract!Effect
    <3> QED BY <1>1, <2>2, <3>2, ApplyStep DEF Exchange
  <2>3. CASE newer[n] = nullptr /\ Finish(t, FALSE) /\ UNCHANGED newer
    <3>1. Current # Nil /\ Current' = Current BY <1>4, <2>3, SameCurrent
    <3>2. Abstract!Effect(op[t], mine[t], Current', FALSE) BY <2>1, <3>1 DEF Abstract!Effect
    <3> QED BY <1>1, <2>3, <3>2, ApplyStep
  <2> QED BY <1>2, <1>6, <1>9, <2>2, <2>3 DEF mv_add
<1>10. CASE mv_del(t)
  <2>1. CASE newer[n] = nullptr /\ Exchange(t, deleted, TRUE)
    <3>1. newer' = [newer EXCEPT ![n] = deleted] BY <1>2, <2>1 DEF Exchange
    <3>2. newer'[n] = deleted BY <3>1 DEF TypeOK
    <3>3. newer'[n].ptr = Nil /\ newer'[n].del BY <3>2 DEF deleted, flagged_ptr
    <3>4. LinkedNext(n)
      <4>1. CASE n = Base BY <4>1 DEF LinkedNext
      <4>2. ASSUME NEW u \in Versions, newer[u].ptr = n PROVE LinkedNext(n)
        <5>1. u # n BY <2>1, <4>2 DEF nullptr, flagged_ptr
        <5>2. newer'[u] = newer[u] BY <3>1, <5>1 DEF TypeOK
        <5> QED BY <4>2, <5>2 DEF LinkedNext
      <4> QED BY <1>3, <4>1, <4>2 DEF Linked
    <3>5. Current # Nil /\ Current' = Nil BY <1>4, <2>1, <3>3, <3>4, NextTailIsCurrent
    <3>6. op[t] = "del" BY <1>10 DEF mv_del, Walking
    <3>7. Abstract!Effect(op[t], mine[t], Current', TRUE) BY <3>5, <3>6 DEF Abstract!Effect
    <3> QED BY <1>1, <2>1, <3>7, ApplyStep DEF Exchange
  <2> QED BY <1>2, <1>6, <1>10, <2>1 DEF mv_del
<1>11. CASE newest(t)
  <2>1. op[t] = "newest" BY <1>11 DEF newest, Walking
  <2>2. ASSUME NEW r, Finish(t, r), r = Current, UNCHANGED newer PROVE Abstract!Apply(t)
    <3>1. Current' = Current BY <2>2, SameCurrent
    <3>2. Abstract!Effect(op[t], mine[t], Current', r) BY <2>1, <2>2, <3>1 DEF Abstract!Effect
    <3> QED BY <1>1, <2>2, <3>2, ApplyStep
  <2>3. CASE newer[n] = deleted /\ Finish(t, Nil) /\ UNCHANGED newer BY <1>5, <2>2, <2>3
  <2>4. CASE newer[n] = nullptr /\ Finish(t, n) /\ UNCHANGED newer BY <1>4, <2>2, <2>4
  <2> QED BY <1>2, <1>6, <1>11, <2>3, <2>4 DEF newest
<1> QED BY <1>8, <1>9, <1>10, <1>11

(***************************************************************************)
(* An operation that is not cut short by the null pointer reads or         *)
(* replaces the current version in one step, however the walks of other    *)
(* threads along the chain interleave with it.                             *)
(***************************************************************************)
THEOREM HistoryLinearizable == Spec => Linearizable
<1>1. Init => Abstract!Init
  <2> SUFFICES ASSUME Init PROVE Abstract!Init
    OBVIOUS
  <2>1. ChainInv BY ChainInit
  <2>2. Linked(Base) /\ newer[Base].ptr = Nil /\ ~newer[Base].del /\ Base \in Versions
    BY BaseIsVersion DEF Init, Linked, nullptr, flagged_ptr
  <2>3. Current = Base BY <2>1, <2>2, TailIsCurrent
  <2>4. \A t \in Threads : Operation(t) = Abstract!Idle
    BY DEF Init, Operation, Abstract!Idle, Abstract!Operation
  <2> QED BY <2>3, <2>4 DEF Abstract!Init, Operation
<1>2. TypeOK /\ ChainInv /\ ChainInv' /\ IdleInv /\ [Next]_vars
      => [Abstract!Next]_(Abstract!vars)
  <2> SUFFICES ASSUME TypeOK, ChainInv, ChainInv', IdleInv, [Next]_vars
               PROVE  Abstract!Next \/ UNCHANGED Abstract!vars
    OBVIOUS
  <2>1. ASSUME NEW t \in Threads, Call(t) \/ Step(t)
        PROVE  Abstract!Next \/ UNCHANGED Abstract!vars
    <3>1. \/ Abstract!Call(t) \/ Abstract!Apply(t) \/ Abstract!Return(t)
          \/ UNCHANGED Abstract!vars
      BY <2>1, CallStep, ReturnStep, StepImplements DEF Step
    <3> QED BY <3>1 DEF Abstract!Next
  <2>2. CASE UNCHANGED vars
    <3>1. CallNow' = CallNow BY <2>2 DEF vars, CallNow, Operation
    <3> QED BY <2>2, <3>1, SameCurrent DEF vars, Abstract!vars, CallNow, Operation
  <2> QED BY <2>1, <2>2 DEF Next
<1> QED BY <1>1, <1>2, TypeCorrect, ChainCorrect, IdleCorrect, PTL
        DEF Spec, Linearizable, Abstract!Spec
=============================================================================
