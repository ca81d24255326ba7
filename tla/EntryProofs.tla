----------------------------- MODULE EntryProofs -----------------------------
(***************************************************************************)
(* Proofs about Entry, for any threads, chunks and texts.                  *)
(***************************************************************************)
EXTENDS Entry, WellFoundedInduction, TLAPS

-----------------------------------------------------------------------------
(* The inductive invariant.                                                *)

(* Where each operation goes, and what it has loaded by then. *)
PlaceInv ==
    \A t \in Threads :
        /\ pc[t] = "idle" => op[t] = "read" /\ h[t] = Nil
        /\ op[t] = "read" => pc[t] \in {"idle", "walk"} /\ arg[t] = Nil /\ z[t] = Nil
        /\ op[t] # "read" => arg[t] \in Chunks
        /\ op[t] = "append" => pc[t] \in {"exchange", "link"} /\ z[t] = Nil
        /\ op[t] = "prepend" => pc[t] \in {"load_head", "swap_head"} /\ z[t] = Nil
        /\ op[t] \in {"incr", "decr", "cas"} => pc[t] \in {"load_head", "load_tail", "walk", "swap", "free"}
        /\ pc[t] = "free" => op[t] # "cas"
        /\ pc[t] \in {"idle", "exchange", "load_head"} => h[t] = Nil
        /\ pc[t] = "load_head" /\ op[t] # "cas" => z[t] = Nil
        /\ pc[t] = "load_tail" => z[t] = Nil /\ (op[t] # "cas" => h[t] # Nil)
        /\ pc[t] \in {"link", "swap_head", "walk", "swap", "free"} => h[t] \in Chunks
        /\ pc[t] \in {"walk", "swap", "free"} /\ op[t] # "read" => z[t] \in Chunks
        /\ pc[t] # "idle" => head # Nil

(* The chunk an operation has brought is its own until it is part of the value. *)
Brings(t) == op[t] # "read" /\ pc[t] # "free"

ArgInv ==
    /\ \A t \in Threads :
           Brings(t) => where[arg[t]] = IF pc[t] = "link" THEN "linked" ELSE "private"
    /\ \A t, u \in Threads : Brings(t) /\ Brings(u) /\ arg[t] = arg[u] => t = u

(* Memory that nobody has, or that only holds a new value, is not linked to more. *)
EndInv ==
    /\ \A m \in Chunks : where[m] = "fresh" => next[m] = Nil
    /\ \A t \in Threads : Brings(t) /\ pc[t] # "link" /\ op[t] # "prepend" => next[arg[t]] = Nil

(* What was loaded is memory in use, unless it was freed since. *)
InUse(m) == where[m] \in {"linked", "replaced", "leaked"}

UseInv ==
    /\ \A t \in Threads : t \notin stale /\ pc[t] # "free" =>
           \A m \in {h[t], z[t]} \cap Chunks : InUse(m)
    /\ \A t \in stale : pc[t] \notin {"idle", "exchange", "link", "free"}

(***************************************************************************)
(* The value: s has the n chunks that are linked, from head to tail.  Each *)
(* is linked to the next one, or an append() is about to link it.          *)
(***************************************************************************)
Links(s, n) ==
    /\ \A i \in 1..n, j \in 1..n : s[i] = s[j] => i = j
    /\ \A m \in Chunks : where[m] = "linked" <=> \E i \in 1..n : s[i] = m
    /\ n = 0 => head = Nil /\ tail = Nil
    /\ n # 0 => head = s[1] /\ tail = s[n] /\ next[s[n]] = Nil
    /\ \A i \in 1..n : i # n =>
           \/ next[s[i]] = s[i + 1]
           \/ next[s[i]] = Nil /\ \E t \in Threads : pc[t] = "link" /\ h[t] = s[i] /\ arg[t] = s[i + 1]
    /\ \A t \in Threads : pc[t] = "link" =>
           \E i \in 1..n : i # n /\ h[t] = s[i] /\ arg[t] = s[i + 1] /\ next[s[i]] = Nil

ChainInv == \E n \in Nat : \E s \in [1..n -> Chunks] : Links(s, n)

(***************************************************************************)
(* No cycles, not even in memory that is private or leaked, or of links    *)
(* yet to be made: they all lead to a lower rank.                          *)
(***************************************************************************)
Ranked(rank) ==
    /\ \A m \in Chunks : next[m] # Nil => rank[next[m]] < rank[m]
    /\ \A t \in Threads : pc[t] = "swap_head" => rank[h[t]] < rank[arg[t]]
    /\ \A t \in Threads : pc[t] = "link" => rank[arg[t]] < rank[h[t]]

RankInv == \E rank \in [Chunks -> Nat] : Ranked(rank)

(* The p of n chunks from m on, up to chunk y or to where the links end. *)
Path(link, p, n, m, y) ==
    /\ n # 0 /\ p[1] = m
    /\ \A i \in 1..n : i # n => p[i] # y /\ link[p[i]] = p[i + 1]
    /\ p[n] = y \/ link[p[n]] = Nil

(* A value that incr() or decr() has replaced is its to free. *)
Owns(own, t) ==
    \E n \in Nat : \E p \in [1..n -> Chunks] :
        /\ Path(next, p, n, h[t], Nil) /\ p[n] = z[t]
        /\ \A i \in 1..n : where[p[i]] = "replaced" /\ own[p[i]] = t

FreeInv == \E own : \A t \in Threads : pc[t] = "free" => Owns(own, t)

(***************************************************************************)
(* What is about to be swapped has been read as a whole: as long as head   *)
(* and tail are the ones loaded nothing is appended.                       *)
(***************************************************************************)
Current(t) == pc[t] = "swap" /\ t \notin stale /\ head = h[t] /\ tail = z[t]

SwapInv ==
    \A t \in Threads : Current(t) =>
        /\ \A u \in Threads : pc[u] # "link"
        /\ op[t] = "cas" => Content(Chain) = token[t]

EntryInv ==
    TypeOK /\ PlaceInv /\ ArgInv /\ EndInv /\ UseInv /\ ChainInv /\ RankInv /\ FreeInv /\ SwapInv

-----------------------------------------------------------------------------
(* Induction: a set of numbers has a least one.                            *)

LEMMA Least ==
    ASSUME NEW T, T \subseteq Nat, T # {}
    PROVE  \E x \in T : \A y \in T : x <= y
<1> DEFINE R == {ss \in Nat \X Nat : ss[1] < ss[2]}
<1>1. R = OpToRel(<, Nat) BY DEF OpToRel
<1>2. IsWellFoundedOn(R, Nat) BY <1>1, NatLessThanWellFounded
<1>3. PICK x \in T : \A y \in T : ~(<<y, x>> \in R) BY <1>2, WFMin
<1>4. ASSUME NEW y \in T PROVE x <= y
  <2>1. <<y, x>> \notin R BY <1>3
  <2>2. x \in Nat /\ y \in Nat OBVIOUS
  <2>3. <<y, x>> \in Nat \X Nat BY <2>2
  <2>4. ~(<<y, x>>[1] < <<y, x>>[2]) BY <2>1, <2>3
  <2>5. ~(y < x) BY <2>4
  <2> QED BY <2>2, <2>5
<1> QED BY <1>4

(* A function on 0..l can be defined by what each value makes of the one before. *)
Steps(step, T, l) == \A i \in 1..l, x \in T : step[i][x] \in T

Follows(f, step, start, T, n) ==
    f \in [0..n -> T] /\ f[0] = start /\ \A i \in 1..n : f[i] = step[i][f[i - 1]]

LEMMA Recursion ==
    ASSUME NEW T, NEW start \in T, NEW l \in Nat, NEW step, Steps(step, T, l)
    PROVE  \E f : Follows(f, step, start, T, l)
<1> DEFINE Is(f, n) == Follows(f, step, start, T, n)
           D == {n \in 0..l : \A f : ~Is(f, n)}
<1>1. D = {}
  <2>1. SUFFICES ASSUME D # {} PROVE FALSE OBVIOUS
  <2>2. D \subseteq Nat OBVIOUS
  <2>3. PICK n \in D : \A m \in D : n <= m BY <2>1, <2>2, Least
  <2>4. n \in 0..l /\ \A f : ~Is(f, n) OBVIOUS
  <2>5. n # 0
    <3>1. PICK f : f = [i \in 0..0 |-> start] OBVIOUS
    <3>2. f \in [0..0 -> T] /\ f[0] = start BY <3>1
    <3>3. Is(f, 0) BY <3>2 DEF Follows
    <3> QED BY <2>4, <3>3
  <2>6. n - 1 \in 0..l /\ ~(n <= n - 1) /\ n \in 1..l BY <2>4, <2>5
  <2>7. PICK f : Is(f, n - 1)
    <3>1. n - 1 \notin D BY <2>3, <2>6
    <3> QED BY <2>6, <3>1
  <2>7a. f \in [0..n - 1 -> T] /\ f[0] = start /\ \A i \in 1..n - 1 : f[i] = step[i][f[i - 1]]
    BY <2>7 DEF Follows
  <2>8. PICK e \in T : e = step[n][f[n - 1]]
    <3>1. f[n - 1] \in T BY <2>6, <2>7a
    <3> QED BY <2>6, <3>1 DEF Steps
  <2>9. PICK g : g = [i \in 0..n |-> IF i = n THEN e ELSE f[i]] OBVIOUS
  <2>10. \A i \in 0..n : i # n => i \in 0..n - 1 BY <2>4
  <2>11. g \in [0..n -> T] /\ g[0] = start BY <2>5, <2>6, <2>7a, <2>9, <2>10
  <2>12. ASSUME NEW i \in 1..n PROVE g[i] = step[i][g[i - 1]]
    <3>1. i \in 0..n /\ i - 1 \in 0..n /\ i - 1 # n BY <2>4, <2>12
    <3>2. g[i - 1] = f[i - 1] BY <2>9, <3>1
    <3>3. CASE i = n BY <2>8, <2>9, <3>1, <3>2, <3>3
    <3>4. CASE i # n
      <4>1. g[i] = f[i] /\ i \in 1..n - 1 BY <2>4, <2>9, <2>12, <3>1, <3>4
      <4> QED BY <2>7a, <3>2, <4>1
    <3> QED BY <3>3, <3>4
  <2>13. Is(g, n) BY <2>11, <2>12 DEF Follows
  <2> QED BY <2>4, <2>13
<1>2. l \in 0..l OBVIOUS
<1>3. \E f : Is(f, l)
  <2>1. SUFFICES ASSUME \A f : ~Is(f, l) PROVE FALSE OBVIOUS
  <2>2. l \in D BY <1>2, <2>1
  <2> HIDE DEF D
  <2> QED BY <1>1, <2>2
<1> QED BY <1>3

(* A function on 1..n is a sequence. *)
LEMMA FunSeq ==
    ASSUME NEW S, NEW n \in Nat, NEW p \in [1..n -> S]
    PROVE  p \in Seq(S) /\ Len(p) = n /\ DOMAIN p = 1..n
OBVIOUS

-----------------------------------------------------------------------------
(* Walks.  Where links have no cycle the recursive Walk is the one path.   *)

(* Links that lead to lower ranks. *)
Down(link, rank) ==
    /\ link \in [Chunks -> Chunks \cup {Nil}] /\ rank \in [Chunks -> Nat]
    /\ \A m \in Chunks : link[m] # Nil => rank[link[m]] < rank[m]

LEMMA PathCons ==
    ASSUME NEW link, NEW y, NEW m \in Chunks, m # y, link[m] \in Chunks,
           NEW n \in Nat, NEW p \in [1..n -> Chunks], Path(link, p, n, link[m], y),
           NEW q, q = [i \in 1..n + 1 |-> IF i = 1 THEN m ELSE p[i - 1]]
    PROVE  q \in [1..n + 1 -> Chunks] /\ Path(link, q, n + 1, m, y)
<1>1. \A i \in 1..n + 1 : i # 1 => i - 1 \in 1..n OBVIOUS
<1>2. q \in [1..n + 1 -> Chunks] BY <1>1
<1>3. n # 0 /\ p[1] = link[m] BY DEF Path
<1>4. ASSUME NEW i \in 1..n + 1, i # n + 1 PROVE q[i] # y /\ link[q[i]] = q[i + 1]
  <2>1. i + 1 \in 1..n + 1 /\ i + 1 # 1 /\ (i + 1) - 1 = i /\ i \in 1..n BY <1>4
  <2>2. q[i + 1] = p[i] BY <2>1
  <2>3. CASE i = 1 BY <1>3, <2>2, <2>3
  <2>4. CASE i # 1
    <3>1. q[i] = p[i - 1] /\ i - 1 \in 1..n /\ i - 1 # n /\ (i - 1) + 1 = i BY <1>4, <2>4
    <3> QED BY <2>2, <3>1 DEF Path
  <2> QED BY <2>3, <2>4
<1>5. q[n + 1] = p[n]
  <2>1. n + 1 \in 1..n + 1 /\ n + 1 # 1 /\ (n + 1) - 1 = n BY <1>3
  <2> QED BY <2>1
<1>6. n + 1 # 0 /\ q[1] = m OBVIOUS
<1>7. q[n + 1] = y \/ link[q[n + 1]] = Nil BY <1>5 DEF Path
<1> QED BY <1>2, <1>4, <1>6, <1>7 DEF Path

LEMMA PathExists ==
    ASSUME NEW link, NEW rank, Down(link, rank), NEW y, NEW m \in Chunks
    PROVE  \E n \in Nat : \E p \in [1..n -> Chunks] : Path(link, p, n, m, y)
<1> DEFINE Has(c) == \E n \in Nat : \E p \in [1..n -> Chunks] : Path(link, p, n, c, y)
<1> DEFINE D == {rank[c] : c \in {c \in Chunks : ~Has(c)}}
<1>1. SUFFICES ASSUME ~Has(m) PROVE FALSE OBVIOUS
<1>2. D \subseteq Nat BY DEF Down
<1>3. D # {} BY <1>1
<1> HIDE DEF D
<1>4. PICK x \in D : \A w \in D : x <= w BY <1>2, <1>3, Least
<1>5. PICK c \in Chunks : ~Has(c) /\ x = rank[c] BY <1>4 DEF D
<1>6. CASE c = y \/ link[c] = Nil
  <2> DEFINE q == [i \in 1..1 |-> c]
  <2>1. 1 \in Nat /\ q \in [1..1 -> Chunks] /\ q[1] = c OBVIOUS
  <2>2. \A i \in 1..1 : i = 1 OBVIOUS
  <2>3. Path(link, q, 1, c, y) BY <1>6, <2>1, <2>2 DEF Path
  <2> QED BY <1>5, <2>1, <2>3
<1>7. CASE c # y /\ link[c] # Nil
  <2>1. link[c] \in Chunks /\ rank[link[c]] < rank[c] /\ rank[link[c]] \in Nat /\ rank[c] \in Nat
    BY <1>7 DEF Down
  <2>2. Has(link[c])
    <3>1. SUFFICES ASSUME ~Has(link[c]) PROVE FALSE OBVIOUS
    <3>2. rank[link[c]] \in D BY <2>1, <3>1 DEF D
    <3> QED BY <1>4, <1>5, <2>1, <3>2
  <2>3. PICK n \in Nat : \E p \in [1..n -> Chunks] : Path(link, p, n, link[c], y) BY <2>2
  <2>4. PICK p \in [1..n -> Chunks] : Path(link, p, n, link[c], y) BY <2>3
  <2>5. PICK q : q = [i \in 1..n + 1 |-> IF i = 1 THEN c ELSE p[i - 1]] OBVIOUS
  <2>6. q \in [1..n + 1 -> Chunks] /\ Path(link, q, n + 1, c, y) BY <1>7, <2>1, <2>4, <2>5, PathCons, SMTT(30)
  <2>7. n + 1 \in Nat OBVIOUS
  <2> QED BY <1>5, <2>6, <2>7
<1> QED BY <1>6, <1>7

LEMMA PathInside ==
    ASSUME NEW link, NEW y, NEW m,
           NEW n \in Nat, NEW p \in [1..n -> Chunks], Path(link, p, n, m, y),
           NEW k \in Nat, NEW q \in [1..k -> Chunks], Path(link, q, k, m, y), Nil \notin Chunks
    PROVE  \A i \in 1..n : i <= k /\ p[i] = q[i]
<1> DEFINE D == {i \in 1..n : ~(i <= k /\ p[i] = q[i])}
<1>1. SUFFICES ASSUME D # {} PROVE FALSE OBVIOUS
<1>2. D \subseteq Nat OBVIOUS
<1>3. PICK i \in D : \A j \in D : i <= j BY <1>1, <1>2, Least
<1>4. i \in 1..n /\ ~(i <= k /\ p[i] = q[i]) OBVIOUS
<1>5. i # 1
  <2>1. k # 0 /\ p[1] = q[1] BY DEF Path
  <2> QED BY <1>4, <2>1
<1>6. i - 1 \in 1..n /\ i - 1 # n /\ (i - 1) + 1 = i /\ ~(i <= i - 1) BY <1>4, <1>5
<1>7. i - 1 \notin D BY <1>3, <1>6
<1>8. i - 1 <= k /\ p[i - 1] = q[i - 1] BY <1>6, <1>7
<1>9. p[i - 1] # y /\ link[p[i - 1]] = p[i] /\ p[i] \in Chunks BY <1>4, <1>6 DEF Path
<1>10. i - 1 # k BY <1>8, <1>9 DEF Path
<1>11. i - 1 \in 1..k /\ i <= k BY <1>6, <1>8, <1>10
<1>12. link[q[i - 1]] = q[i] BY <1>6, <1>10, <1>11 DEF Path
<1> QED BY <1>4, <1>8, <1>9, <1>11, <1>12

LEMMA PathUnique ==
    ASSUME NEW link, NEW y, NEW m,
           NEW n \in Nat, NEW p \in [1..n -> Chunks], Path(link, p, n, m, y),
           NEW k \in Nat, NEW q \in [1..k -> Chunks], Path(link, q, k, m, y)
    PROVE  n = k /\ p = q
<1>1. \A i \in 1..n : i <= k /\ p[i] = q[i] BY PathInside, NilAssumption
<1>2. \A i \in 1..k : i <= n /\ q[i] = p[i] BY PathInside, NilAssumption
<1>3. n # 0 /\ k # 0 BY DEF Path
<1>4. n \in 1..n /\ k \in 1..k BY <1>3
<1>5. n = k BY <1>1, <1>2, <1>4
<1> QED BY <1>1, <1>5

(* f is a solution of the equation of Walk. *)
Walks(f, link, y) ==
    f = [c \in Chunks \cup {Nil} |->
            IF c = Nil THEN <<>>
            ELSE <<c>> \o (IF c = y THEN <<>> ELSE f[link[c]])]

(* The path from c on. *)
Route(link, c, y) ==
    CHOOSE p : \E n \in Nat : p \in [1..n -> Chunks] /\ Path(link, p, n, c, y)

LEMMA RouteIs ==
    ASSUME NEW link, NEW y, NEW c,
           NEW n \in Nat, NEW p \in [1..n -> Chunks], Path(link, p, n, c, y)
    PROVE  Route(link, c, y) = p
<1> DEFINE Q(q) == \E k \in Nat : q \in [1..k -> Chunks] /\ Path(link, q, k, c, y)
<1>1. Q(p) OBVIOUS
<1>2. \A q : Q(q) => q = p BY PathUnique
<1>3. (CHOOSE q : Q(q)) = p
  <2> HIDE DEF Q
  <2> QED BY <1>1, <1>2
<1> QED BY <1>3 DEF Route

LEMMA RouteCons ==
    ASSUME NEW link, NEW rank, Down(link, rank), NEW y, NEW c \in Chunks
    PROVE  /\ c = y \/ link[c] = Nil => Route(link, c, y) = <<c>>
           /\ c # y /\ link[c] # Nil => Route(link, c, y) = <<c>> \o Route(link, link[c], y)
           /\ \E n \in Nat : Route(link, c, y) \in [1..n -> Chunks]
<1>1. CASE c = y \/ link[c] = Nil
  <2>0. PICK p : p = <<c>> OBVIOUS
  <2>1. p \in [1..1 -> Chunks] /\ p[1] = c BY <2>0
  <2>2. \A i \in 1..1 : i = 1 OBVIOUS
  <2>3. Path(link, p, 1, c, y) BY <1>1, <2>1, <2>2 DEF Path
  <2>4. 1 \in Nat OBVIOUS
  <2>5. Route(link, c, y) = p BY <2>1, <2>3, <2>4, RouteIs
  <2> QED BY <1>1, <2>0, <2>1, <2>4, <2>5
<1>2. CASE c # y /\ link[c] # Nil
  <2>1. link[c] \in Chunks BY <1>2 DEF Down
  <2>2. PICK n \in Nat : \E p \in [1..n -> Chunks] : Path(link, p, n, link[c], y) BY <2>1, PathExists
  <2>3. PICK p \in [1..n -> Chunks] : Path(link, p, n, link[c], y) BY <2>2
  <2>4. PICK q : q = [i \in 1..n + 1 |-> IF i = 1 THEN c ELSE p[i - 1]] OBVIOUS
  <2>5. q \in [1..n + 1 -> Chunks] /\ Path(link, q, n + 1, c, y) BY <1>2, <2>1, <2>3, <2>4, PathCons
  <2>6. n + 1 \in Nat OBVIOUS
  <2>7. Route(link, c, y) = q /\ Route(link, link[c], y) = p BY <2>1, <2>3, <2>5, <2>6, RouteIs
  <2>8. q = <<c>> \o p
    <3>1. p \in Seq(Chunks) /\ Len(p) = n /\ q \in Seq(Chunks) /\ Len(q) = n + 1 BY <2>5, FunSeq, <2>6
    <3>2. PICK r : r = <<c>> \o p OBVIOUS
    <3>3. r \in Seq(Chunks) /\ Len(r) = n + 1 BY <3>1, <3>2
    <3>4. ASSUME NEW i \in 1..n + 1 PROVE r[i] = q[i]
      <4>1. CASE i = 1 BY <2>4, <3>1, <3>2, <4>1
      <4>2. CASE i # 1
        <5>1. q[i] = p[i - 1] BY <2>4, <4>2
        <5>2. r[i] = p[i - 1] BY <3>1, <3>2, <4>2
        <5> QED BY <5>1, <5>2
      <4> QED BY <4>1, <4>2
    <3>5. r = q BY <3>1, <3>3, <3>4
    <3> QED BY <3>2, <3>5
  <2> QED BY <1>2, <2>5, <2>6, <2>7, <2>8
<1> QED BY <1>1, <1>2

LEMMA WalkRoute ==
    ASSUME NEW link, NEW rank, Down(link, rank), NEW y, NEW m \in Chunks \cup {Nil}
    PROVE  Walk(link, m, y) = IF m = Nil THEN <<>> ELSE Route(link, m, y)
<1> DEFINE F == [c \in Chunks \cup {Nil} |-> IF c = Nil THEN <<>> ELSE Route(link, c, y)]
<1> DEFINE f == CHOOSE f : f = [c \in Chunks \cup {Nil} |->
                                  IF c = Nil THEN <<>>
                                  ELSE <<c>> \o (IF c = y THEN <<>> ELSE f[link[c]])]
<1>0. Nil \notin Chunks BY NilAssumption
<1>1. ASSUME NEW c \in Chunks
      PROVE  Route(link, c, y) = <<c>> \o (IF c = y THEN <<>> ELSE F[link[c]])
  <2>0. link[c] \in Chunks \cup {Nil} BY DEF Down
  <2>1. CASE c = y
    <3>1. Route(link, c, y) = <<c>> BY <2>1, RouteCons
    <3>2. <<c>> \o <<>> = <<c>> OBVIOUS
    <3> QED BY <2>1, <3>1, <3>2
  <2>2. CASE c # y /\ link[c] = Nil
    <3>1. Route(link, c, y) = <<c>> BY <2>2, RouteCons
    <3>2. <<c>> \o <<>> = <<c>> /\ F[link[c]] = <<>> BY <2>0, <2>2
    <3> QED BY <2>2, <3>1, <3>2
  <2>3. CASE c # y /\ link[c] # Nil
    <3>1. Route(link, c, y) = <<c>> \o Route(link, link[c], y) BY <2>3, RouteCons
    <3>2. F[link[c]] = Route(link, link[c], y) BY <2>0, <2>3
    <3> QED BY <2>3, <3>1, <3>2
  <2> QED BY <2>1, <2>2, <2>3
<1>2. Walks(F, link, y)
  <2>1. ASSUME NEW c \in Chunks \cup {Nil}
        PROVE  F[c] = IF c = Nil THEN <<>> ELSE <<c>> \o (IF c = y THEN <<>> ELSE F[link[c]])
    BY <1>1, ZenonT(60)
  <2>2. DOMAIN F = Chunks \cup {Nil} /\ F = [c \in Chunks \cup {Nil} |-> F[c]] OBVIOUS
  <2> HIDE DEF F
  <2> QED BY <2>1, <2>2 DEF Walks
<1> HIDE DEF F
<1>3. Walks(f, link, y)
  <2>1. f = [c \in Chunks \cup {Nil} |-> IF c = Nil THEN <<>> ELSE <<c>> \o (IF c = y THEN <<>> ELSE f[link[c]])]
    BY <1>2 DEF Walks
  <2> QED BY <2>1, ZenonT(60) DEF Walks
<1>4. Walk(link, m, y) = f[m] BY DEF Walk
<1> HIDE DEF f
<1>5. ASSUME NEW c \in Chunks, f[c] # F[c] PROVE FALSE
  <2> DEFINE D == {rank[d] : d \in {d \in Chunks : f[d] # F[d]}}
  <2>1. D \subseteq Nat BY DEF Down
  <2>2. D # {} BY <1>5
  <2> HIDE DEF D
  <2>3. PICK x \in D : \A w \in D : x <= w BY <2>1, <2>2, Least
  <2>4. PICK d \in Chunks : f[d] # F[d] /\ x = rank[d] BY <2>3 DEF D
  <2>5. /\ f[d] = <<d>> \o (IF d = y THEN <<>> ELSE f[link[d]])
        /\ F[d] = <<d>> \o (IF d = y THEN <<>> ELSE F[link[d]])
        /\ f[Nil] = <<>> /\ F[Nil] = <<>>
    BY <1>0, <1>2, <1>3 DEF Walks
  <2>6. d # y /\ f[link[d]] # F[link[d]] BY <2>4, <2>5
  <2>7. link[d] # Nil BY <2>5, <2>6
  <2>8. link[d] \in Chunks /\ rank[link[d]] < rank[d] /\ rank[link[d]] \in Nat /\ rank[d] \in Nat
    BY <2>7 DEF Down
  <2>9. rank[link[d]] \in D BY <2>6, <2>8 DEF D
  <2> QED BY <2>3, <2>4, <2>8, <2>9
<1>6. f[m] = F[m]
  <2>1. f[Nil] = <<>> /\ F[Nil] = <<>> BY <1>2, <1>3 DEF Walks
  <2> QED BY <1>5, <2>1
<1> QED BY <1>4, <1>6 DEF F

(* Walk finds the path there is. *)
LEMMA WalkIs ==
    ASSUME NEW link, NEW rank, Down(link, rank), NEW y, NEW m \in Chunks,
           NEW n \in Nat, NEW p \in [1..n -> Chunks], Path(link, p, n, m, y)
    PROVE  Walk(link, m, y) = p
<1>1. m # Nil BY NilAssumption
<1>2. Walk(link, m, y) = Route(link, m, y) BY <1>1, WalkRoute
<1> QED BY <1>2, RouteIs

LEMMA WalkType ==
    ASSUME NEW link, NEW rank, Down(link, rank), NEW y, NEW m \in Chunks \cup {Nil}
    PROVE  Walk(link, m, y) \in Seq(Chunks) /\ (m = Nil => Walk(link, m, y) = <<>>)
<1>1. CASE m = Nil
  <2>1. Walk(link, m, y) = <<>> BY <1>1, WalkRoute
  <2> QED BY <2>1
<1>2. CASE m # Nil
  <2>1. m \in Chunks BY <1>2
  <2>2. Walk(link, m, y) = Route(link, m, y) BY <1>2, WalkRoute
  <2>3. PICK n \in Nat : Route(link, m, y) \in [1..n -> Chunks] BY <2>1, RouteCons
  <2>4. Route(link, m, y) \in Seq(Chunks) BY <2>3, FunSeq
  <2> QED BY <1>2, <2>2, <2>4
<1> QED BY <1>1, <1>2

-----------------------------------------------------------------------------
(* Numbers and texts.                                                      *)

Below(M) == [at : {"before", "digits", "after", "not a number"}, a : 0..M - 1]
Scan == Below(Modulus)
Start == [at |-> "before", a |-> 0]

LEMMA ScanTypes ==
    /\ Start \in Scan
    /\ \A r \in Scan, c \in Chars : atoi_char(r, c) \in Scan
<1>1. PICK M \in Nat \ {0} : M = Modulus BY NumberAssumption
<1>2. Scan = Below(M) BY <1>1 DEF Scan
<1>3. Start \in Below(M) BY DEF Start, Below
<1>4. ASSUME NEW r \in Below(M), NEW c \in Chars PROVE atoi_char(r, c) \in Below(M)
  <2>1. r.a \in 0..M - 1 /\ r.at \in {"before", "digits", "after", "not a number"} BY DEF Below
  <2>2. CASE c \in 0..9 /\ r.at \in {"before", "digits"}
    <3>7. \A e \in 0..M - 1 : e \in Nat OBVIOUS
    <3>8. r.a \in Nat BY <2>1, <3>7
    <3>9. c \in Nat BY <2>2
    <3>5. PICK b \in Nat, d \in Nat : b = r.a /\ d = c BY <3>8, <3>9
    <3>6. b * 10 + d \in Nat OBVIOUS
    <3>0. PICK x \in Nat : x = b * 10 + d BY <3>6
    <3>1. x % M \in 0..M - 1 OBVIOUS
    <3>2. c # Space BY <2>2 DEF Space
    <3>3. atoi_char(r, c) = [at |-> "digits", a |-> (r.a * 10 + c) % Modulus] BY <2>2, <3>2 DEF atoi_char
    <3>4. atoi_char(r, c) = [at |-> "digits", a |-> x % M] BY <1>1, <3>0, <3>3, <3>5
    <3>10. [at |-> "digits", a |-> x % M] \in Below(M) BY <3>1 DEF Below
    <3> QED BY <3>4, <3>10
  <2>3. CASE c = Space
    <3>1. c \notin 0..9 BY <2>3 DEF Space
    <3>2. atoi_char(r, c) = r \/ atoi_char(r, c) = [r EXCEPT !.at = "after"]
      BY <2>3, <3>1 DEF atoi_char
    <3> QED BY <2>1, <3>2 DEF Below
  <2>4. CASE ~(c \in 0..9 /\ r.at \in {"before", "digits"}) /\ c # Space
    <3>1. atoi_char(r, c) = [r EXCEPT !.at = "not a number"] BY <2>4 DEF atoi_char
    <3> QED BY <2>1, <3>1 DEF Below
  <2> QED BY <2>2, <2>3, <2>4
<1> QED BY <1>2, <1>3, <1>4

(* f has what mem_atoi() knows after each of the first n characters of s. *)
Scans(f, s, n) ==
    /\ f \in [0..n -> Scan] /\ f[0] = Start
    /\ \A i \in 1..n : f[i] = atoi_char(f[i - 1], s[i])

LEMMA ScansExist ==
    ASSUME NEW s \in Seq(Chars)
    PROVE  \E f : Scans(f, s, Len(s))
<1>0. PICK l \in Nat : l = Len(s) /\ \A i \in 1..l : s[i] \in Chars OBVIOUS
<1>1. PICK step : step = [i \in 1..l |-> [r \in Scan |-> atoi_char(r, s[i])]] OBVIOUS
<1>2. \A i \in 1..l, r \in Scan : step[i][r] = atoi_char(r, s[i]) BY <1>1
<1>3. Steps(step, Scan, l) BY <1>0, <1>2, ScanTypes DEF Steps
<1>4. Start \in Scan BY ScanTypes
<1>5. PICK f : Follows(f, step, Start, Scan, l) BY <1>3, <1>4, Recursion
<1>6. \A i \in 1..l : f[i - 1] \in Scan BY <1>5 DEF Follows
<1>7. Scans(f, s, l) BY <1>2, <1>5, <1>6 DEF Scans, Follows
<1> QED BY <1>0, <1>7

(* What mem_atoi() returns is what it knows after the last character. *)
LEMMA AtoiScans ==
    ASSUME NEW s \in Seq(Chars)
    PROVE  \E f : Scans(f, s, Len(s)) /\ mem_atoi(s) = f[Len(s)]
<1>0. PICK l \in Nat : l = Len(s) OBVIOUS
<1> DEFINE r == CHOOSE r : r = [i \in 0..Len(s) |-> IF i = 0 THEN [at |-> "before", a |-> 0]
                                                    ELSE atoi_char(r[i - 1], s[i])]
<1>1. PICK f : Scans(f, s, l) BY <1>0, ScansExist
<1>2. f = [i \in 0..Len(s) |-> IF i = 0 THEN [at |-> "before", a |-> 0] ELSE atoi_char(f[i - 1], s[i])]
  <2>1. f \in [0..l -> Scan] /\ f[0] = Start /\ \A i \in 1..l : f[i] = atoi_char(f[i - 1], s[i])
    BY <1>1 DEF Scans
  <2>2. \A i \in 0..l : f[i] = IF i = 0 THEN Start ELSE atoi_char(f[i - 1], s[i]) BY <2>1
  <2> QED BY <1>0, <2>1, <2>2 DEF Start
<1>3. r = [i \in 0..Len(s) |-> IF i = 0 THEN [at |-> "before", a |-> 0] ELSE atoi_char(r[i - 1], s[i])]
  BY <1>2
<1>4. mem_atoi(s) = r[l] BY <1>0 DEF mem_atoi
<1> HIDE DEF r
<1>5. DOMAIN r = 0..l /\ r[0] = Start /\ \A i \in 1..l : r[i] = atoi_char(r[i - 1], s[i])
  BY <1>0, <1>3, SMTT(30) DEF Start
<1>6. \A i \in 0..l : r[i] \in Scan
  <2> DEFINE D == {i \in 0..l : r[i] \notin Scan}
  <2>1. SUFFICES ASSUME D # {} PROVE FALSE OBVIOUS
  <2>2. D \subseteq Nat OBVIOUS
  <2>3. PICK i \in D : \A j \in D : i <= j BY <2>1, <2>2, Least
  <2>4. i \in 0..l /\ r[i] \notin Scan OBVIOUS
  <2>5. i # 0 BY <1>5, <2>4, ScanTypes
  <2>6. i - 1 \in 0..l /\ ~(i <= i - 1) /\ i \in 1..l BY <2>4, <2>5
  <2>7. r[i - 1] \in Scan BY <2>3, <2>6
  <2>8. s[i] \in Chars BY <1>0, <2>6
  <2> QED BY <1>5, <2>4, <2>6, <2>7, <2>8, ScanTypes
<1>7. r \in [0..l -> Scan]
  <2>1. r = [i \in 0..l |-> r[i]] BY <1>0, <1>3
  <2> QED BY <1>6, <2>1
<1> QED BY <1>0, <1>4, <1>5, <1>7 DEF Scans

LEMMA AtoiType ==
    ASSUME NEW s \in Seq(Chars)
    PROVE  mem_atoi(s) \in Scan
<1>1. PICK f : Scans(f, s, Len(s)) /\ mem_atoi(s) = f[Len(s)] BY AtoiScans
<1>2. Len(s) \in Nat OBVIOUS
<1> QED BY <1>1, <1>2 DEF Scans

(* f has the digits of the numbers up to n; 0 has none. *)
Digits(f, n) ==
    /\ f \in [0..n -> Seq(Chars)]
    /\ \A m \in 0..n : f[m] = IF m = 0 THEN <<>> ELSE f[m \div 10] \o <<m % 10>>

LEMMA DigitsExist ==
    ASSUME NEW a \in Nat
    PROVE  \E f : Digits(f, a)
<1> DEFINE D == {n \in 0..a : \A f : ~Digits(f, n)}
<1>1. SUFFICES ASSUME \A f : ~Digits(f, a) PROVE FALSE OBVIOUS
<1>2. D # {} /\ D \subseteq Nat
  <2>1. a \in 0..a OBVIOUS
  <2> QED BY <1>1, <2>1
<1>3. PICK n \in D : \A m \in D : n <= m BY <1>2, Least
<1>4. n \in 0..a /\ n \in Nat /\ \A f : ~Digits(f, n) OBVIOUS
<1>5. n # 0
  <2>1. PICK f : f = [m \in 0..0 |-> <<>>] OBVIOUS
  <2>2. <<>> \in Seq(Chars) OBVIOUS
  <2>3. Digits(f, 0) BY <2>1, <2>2 DEF Digits
  <2> QED BY <1>4, <2>3
<1>6. n - 1 \in 0..a /\ n - 1 \notin D BY <1>3, <1>4, <1>5
<1>7. PICK f : Digits(f, n - 1) BY <1>6
<1>8. n \div 10 \in 0..n - 1 /\ n % 10 \in 0..9 BY <1>4, <1>5
<1>9. PICK e : e = f[n \div 10] \o <<n % 10>> OBVIOUS
<1>10. e \in Seq(Chars)
  <2>1. f[n \div 10] \in Seq(Chars) BY <1>7, <1>8 DEF Digits
  <2>2. <<n % 10>> \in Seq(Chars) BY <1>8 DEF Chars
  <2> QED BY <1>9, <2>1, <2>2
<1>11. PICK g : g = [m \in 0..n |-> IF m = n THEN e ELSE f[m]] OBVIOUS
<1>12. \A m \in 0..n : m # n => m \in 0..n - 1 BY <1>4
<1>13. g \in [0..n -> Seq(Chars)] BY <1>7, <1>10, <1>11, <1>12 DEF Digits
<1>14. ASSUME NEW m \in 0..n
       PROVE  g[m] = IF m = 0 THEN <<>> ELSE g[m \div 10] \o <<m % 10>>
  <2>1. CASE m = n
    <3>1. g[m \div 10] = f[n \div 10] BY <1>4, <1>8, <1>11, <2>1
    <3>2. g[m] = e BY <1>11, <1>14, <2>1
    <3> QED BY <1>5, <1>9, <2>1, <3>1, <3>2
  <2>2. CASE m # n
    <3>1. m \in 0..n - 1 BY <1>12, <1>14, <2>2
    <3>2. g[m] = f[m] BY <1>11, <1>14, <2>2
    <3>3. CASE m = 0 BY <1>7, <3>1, <3>2, <3>3 DEF Digits
    <3>4. CASE m # 0
      <4>1. m \div 10 \in 0..n - 1 /\ m \div 10 \in 0..n /\ m \div 10 # n BY <1>4, <3>1, <3>4
      <4>2. g[m \div 10] = f[m \div 10] BY <1>11, <4>1
      <4>3. f[m] = f[m \div 10] \o <<m % 10>> BY <1>7, <3>1, <3>4 DEF Digits
      <4> QED BY <3>2, <3>4, <4>2, <4>3
    <3> QED BY <3>3, <3>4
  <2> QED BY <2>1, <2>2
<1>15. Digits(g, n) BY <1>13, <1>14 DEF Digits
<1> QED BY <1>4, <1>15

LEMMA FormattedNumber ==
    ASSUME NEW a \in Nat
    PROVE  Formatted(a) \in Seq(Chars)
<1> DEFINE d == CHOOSE d : d = [n \in 0..a |-> IF n = 0 THEN <<>> ELSE d[n \div 10] \o <<n % 10>>]
<1>1. PICK f : Digits(f, a) BY DigitsExist
<1>2. f = [n \in 0..a |-> IF n = 0 THEN <<>> ELSE f[n \div 10] \o <<n % 10>>] BY <1>1 DEF Digits
<1>3. d = [n \in 0..a |-> IF n = 0 THEN <<>> ELSE d[n \div 10] \o <<n % 10>>] BY <1>2
<1>4. Formatted(a) = IF a < 10 THEN <<a>> ELSE d[a] BY DEF Formatted
<1> HIDE DEF d
<1>5. \A n \in 0..a : d[n] = IF n = 0 THEN <<>> ELSE d[n \div 10] \o <<n % 10>> BY <1>3
<1>6. \A n \in 0..a : d[n] \in Seq(Chars)
  <2> DEFINE D == {n \in 0..a : d[n] \notin Seq(Chars)}
  <2>1. SUFFICES ASSUME D # {} PROVE FALSE OBVIOUS
  <2>2. D \subseteq Nat OBVIOUS
  <2>3. PICK n \in D : \A m \in D : n <= m BY <2>1, <2>2, Least
  <2>4. n \in 0..a /\ d[n] \notin Seq(Chars) OBVIOUS
  <2>5. n # 0
    <3>1. <<>> \in Seq(Chars) /\ 0 \in 0..a OBVIOUS
    <3>2. d[0] = <<>> BY <1>5, <3>1
    <3> QED BY <2>4, <3>1, <3>2
  <2>6. n \div 10 \in 0..a /\ ~(n <= n \div 10) /\ n % 10 \in 0..9 BY <2>4, <2>5
  <2>7. d[n \div 10] \in Seq(Chars) BY <2>3, <2>6
  <2>8. <<n % 10>> \in Seq(Chars) BY <2>6 DEF Chars
  <2>9. d[n] = d[n \div 10] \o <<n % 10>> BY <1>5, <2>4, <2>5
  <2>10. d[n] \in Seq(Chars) BY <2>7, <2>8, <2>9
  <2> QED BY <2>4, <2>10
<1>7. CASE a < 10
  <2>1. a \in Chars BY <1>7 DEF Chars
  <2> QED BY <1>4, <1>7, <2>1
<1>8. CASE ~(a < 10)
  <2>1. a \in 0..a OBVIOUS
  <2> QED BY <1>4, <1>6, <1>8, <2>1
<1> QED BY <1>7, <1>8

LEMMA FormattedType ==
    ASSUME NEW r \in Scan
    PROVE  Formatted(incr(r.a)) \in Seq(Chars) /\ Formatted(decr(r.a)) \in Seq(Chars)
<1>1. PICK M \in Nat \ {0} : M = Modulus BY NumberAssumption
<1>2. r.a \in 0..M - 1 BY <1>1 DEF Scan, Below
<1>3. Amount \in Nat BY NumberAssumption
<1>4. incr(r.a) \in Nat
  <2>1. r.a + Amount \in Nat BY <1>2, <1>3
  <2>2. (r.a + Amount) % M \in 0..M - 1 BY <2>1
  <2> QED BY <1>1, <2>2 DEF incr
<1>5. decr(r.a) \in Nat BY <1>2, <1>3 DEF decr
<1> QED BY <1>4, <1>5, FormattedNumber

(* f has the texts of the first n of s, each with those before it. *)
Flats(f, s, n) ==
    /\ f \in [1..n -> Seq(Chars)]
    /\ \A i \in 1..n : f[i] = IF i = 1 THEN s[i] ELSE f[i - 1] \o s[i]

LEMMA FlatsExist ==
    ASSUME NEW s \in Seq(Seq(Chars))
    PROVE  \E f : Flats(f, s, Len(s))
<1>0. PICK l \in Nat : l = Len(s) OBVIOUS
<1> DEFINE D == {n \in 0..l : \A f : ~Flats(f, s, n)}
<1>1. D = {}
  <2>1. SUFFICES ASSUME D # {} PROVE FALSE OBVIOUS
  <2>2. D \subseteq Nat OBVIOUS
  <2>3. PICK n \in D : \A m \in D : n <= m BY <2>1, <2>2, Least
  <2>4. n \in 0..l /\ \A f : ~Flats(f, s, n) OBVIOUS
  <2>5. n # 0
    <3>1. Flats([i \in 1..0 |-> <<>>], s, 0) BY DEF Flats
    <3> QED BY <3>1, <2>4
  <2>6. n - 1 \in 0..l /\ ~(n <= n - 1) /\ n \in 1..n BY <2>4, <2>5
  <2>7. n - 1 \notin D BY <2>3, <2>6
  <2>8. PICK f : Flats(f, s, n - 1) BY <2>6, <2>7
  <2>9. PICK e : e = IF n = 1 THEN s[n] ELSE f[n - 1] \o s[n] OBVIOUS
  <2>10. /\ f \in [1..n - 1 -> Seq(Chars)]
         /\ \A i \in 1..n - 1 : f[i] = IF i = 1 THEN s[i] ELSE f[i - 1] \o s[i]
    BY <2>8 DEF Flats
  <2>11. e \in Seq(Chars)
    <3>1. s[n] \in Seq(Chars) BY <1>0, <2>4, <2>5
    <3>2. CASE n = 1 BY <2>9, <3>1, <3>2
    <3>3. CASE n # 1
      <4>1. n - 1 \in 1..n - 1 BY <2>4, <2>5, <3>3
      <4>2. f[n - 1] \in Seq(Chars) BY <2>10, <4>1
      <4>3. f[n - 1] \o s[n] \in Seq(Chars) BY <3>1, <4>2
      <4> QED BY <2>9, <3>3, <4>3
    <3> QED BY <3>2, <3>3
  <2>12. PICK g : g = [i \in 1..n |-> IF i = n THEN e ELSE f[i]] OBVIOUS
  <2>13. g \in [1..n -> Seq(Chars)]
    <3>1. \A i \in 1..n : i # n => i \in 1..n - 1 BY <2>4
    <3> QED BY <2>10, <2>11, <2>12, <3>1
  <2>14. ASSUME NEW i \in 1..n PROVE g[i] = IF i = 1 THEN s[i] ELSE g[i - 1] \o s[i]
    <3>1. CASE i = n
      <4>1. g[i] = e BY <2>12, <3>1
      <4>2. CASE n = 1 BY <2>9, <3>1, <4>1, <4>2
      <4>3. CASE n # 1
        <5>1. n - 1 \in 1..n /\ n - 1 # n BY <2>4, <2>5, <4>3
        <5>2. g[n - 1] = f[n - 1] BY <2>12, <5>1
        <5> QED BY <2>9, <3>1, <4>1, <4>3, <5>2
      <4> QED BY <4>2, <4>3
    <3>2. CASE i # n
      <4>1. g[i] = f[i] /\ i \in 1..n - 1 BY <2>4, <2>12, <3>2
      <4>2. CASE i = 1 BY <2>10, <4>1, <4>2
      <4>3. CASE i # 1
        <5>1. i - 1 \in 1..n /\ i - 1 # n BY <2>4, <4>1, <4>3
        <5>2. g[i - 1] = f[i - 1] BY <2>12, <5>1
        <5> QED BY <2>10, <4>1, <4>3, <5>2
      <4> QED BY <4>2, <4>3
    <3> QED BY <3>1, <3>2
  <2>15. Flats(g, s, n) BY <2>13, <2>14 DEF Flats
  <2> QED BY <2>4, <2>15
<1>2. l \in 0..l OBVIOUS
<1>3. \E f : Flats(f, s, l)
  <2>1. SUFFICES ASSUME \A f : ~Flats(f, s, l) PROVE FALSE OBVIOUS
  <2>2. l \in D BY <1>2, <2>1
  <2> HIDE DEF D
  <2> QED BY <1>1, <2>2
<1> QED BY <1>0, <1>3

LEMMA EmptySeq ==
    ASSUME NEW S, NEW s \in Seq(S), Len(s) = 0
    PROVE  s = <<>>
OBVIOUS

LEMMA FlattenType ==
    ASSUME NEW s \in Seq(Seq(Chars))
    PROVE  FlattenSeq(s) \in Seq(Chars)
<1>0. PICK l \in Nat : l = Len(s) OBVIOUS
<1>1. CASE l = 0
  <2>1. s = <<>> BY <1>0, <1>1, EmptySeq
  <2>2. FlattenSeq(s) = s BY <1>0, <1>1 DEF FlattenSeq
  <2>3. <<>> \in Seq(Chars) OBVIOUS
  <2> QED BY <2>1, <2>2, <2>3
<1>2. CASE l # 0
  <2> DEFINE r == CHOOSE r : r = [i \in 1..Len(s) |-> IF i = 1 THEN s[i] ELSE r[i - 1] \o s[i]]
  <2>1. PICK f : Flats(f, s, l) BY <1>0, FlatsExist
  <2>2. f = [i \in 1..Len(s) |-> IF i = 1 THEN s[i] ELSE f[i - 1] \o s[i]] BY <1>0, <2>1 DEF Flats
  <2>3. r = [i \in 1..Len(s) |-> IF i = 1 THEN s[i] ELSE r[i - 1] \o s[i]] BY <2>2
  <2>4. FlattenSeq(s) = r[l] BY <1>0, <1>2 DEF FlattenSeq
  <2> HIDE DEF r
  <2>5. \A i \in 1..l : r[i] = IF i = 1 THEN s[i] ELSE r[i - 1] \o s[i] BY <1>0, <2>3
  <2>6. \A i \in 1..l : r[i] \in Seq(Chars)
    <3> DEFINE D == {i \in 1..l : r[i] \notin Seq(Chars)}
    <3>1. SUFFICES ASSUME D # {} PROVE FALSE OBVIOUS
    <3>2. D \subseteq Nat OBVIOUS
    <3>3. PICK i \in D : \A j \in D : i <= j BY <3>1, <3>2, Least
    <3>4. i \in 1..l /\ r[i] \notin Seq(Chars) OBVIOUS
    <3>5. s[i] \in Seq(Chars) BY <1>0, <3>4
    <3>6. i # 1 BY <2>5, <3>4, <3>5
    <3>7. i - 1 \in 1..l /\ ~(i <= i - 1) BY <3>4, <3>6
    <3>8. r[i - 1] \in Seq(Chars) BY <3>3, <3>7
    <3>9. r[i - 1] \o s[i] \in Seq(Chars) BY <3>5, <3>8
    <3> QED BY <2>5, <3>4, <3>6, <3>9
  <2>7. l \in 1..l BY <1>2
  <2> QED BY <2>4, <2>6, <2>7
<1> QED BY <1>1, <1>2

LEMMA ContentType ==
    ASSUME text \in [Chunks -> Seq(Chars)], NEW s \in Seq(Chunks)
    PROVE  Content(s) \in Seq(Seq(Chars)) /\ Len(Content(s)) = Len(s)
<1>1. PICK n \in Nat : n = Len(s) /\ DOMAIN s = 1..n OBVIOUS
<1>2. \A i \in 1..n : text[s[i]] \in Seq(Chars) BY <1>1
<1>3. Content(s) \in [1..n -> Seq(Chars)] BY <1>1, <1>2 DEF Content
<1>4. PICK c : c = Content(s) OBVIOUS
<1>5. c \in Seq(Seq(Chars)) /\ Len(c) = n BY <1>3, <1>4, FunSeq
<1> QED BY <1>1, <1>4, <1>5

-----------------------------------------------------------------------------
(* Type correctness.                                                       *)

LEMMA RankDown ==
    ASSUME TypeOK, RankInv
    PROVE  \E rank : Down(next, rank)
<1>1. PICK rank \in [Chunks -> Nat] : Ranked(rank) BY DEF RankInv
<1>2. Down(next, rank) BY <1>1 DEF Down, Ranked, TypeOK
<1> QED BY <1>2

LEMMA ReadingType ==
    ASSUME TypeOK, RankInv, NEW t \in Threads
    PROVE  Reading(t) \subseteq Seq(Seq(Chars))
<1>1. PICK rank : Down(next, rank) BY RankDown
<1>2. Walk(next, h[t], z[t]) \in Seq(Chunks) BY <1>1, WalkType DEF TypeOK
<1>3. Content(Walk(next, h[t], z[t])) \in Seq(Seq(Chars)) BY <1>2, ContentType DEF TypeOK
<1>4. ASSUME NEW x \in Texts PROVE <<x>> \in Seq(Seq(Chars))
  <2>1. x \in Seq(Chars) BY TextsAssumption
  <2>2. PICK S : S = Seq(Chars) OBVIOUS
  <2>3. <<x>> \in Seq(S) BY <2>1, <2>2
  <2> QED BY <2>2, <2>3
<1>5. {<<x>> : x \in Texts} \subseteq Seq(Seq(Chars)) BY <1>4
<1>6. PICK c : c = Content(Walk(next, h[t], z[t])) OBVIOUS
<1>7. Reading(t) \subseteq {<<x>> : x \in Texts} \cup {c} BY <1>6 DEF Reading
<1> QED BY <1>3, <1>5, <1>6, <1>7

(* A thread that ends its operation has nothing loaded. *)
LEMMA LeaveType ==
    ASSUME TypeOK, NEW t \in Threads, Leave(t)
    PROVE  /\ pc' \in [Threads -> Places] /\ op' \in [Threads -> Ops]
           /\ arg' \in [Threads -> Chunks \cup {Nil}]
           /\ h' \in [Threads -> Chunks \cup {Nil}] /\ z' \in [Threads -> Chunks \cup {Nil}]
BY DEF TypeOK, Leave, Goto, Places, Ops

LEMMA BecomeType ==
    ASSUME TypeOK, NEW M, NEW w \in {"fresh", "private", "linked", "replaced", "leaked"}, Become(M, w)
    PROVE  where' \in [Chunks -> {"fresh", "private", "linked", "replaced", "leaked"}]
BY DEF TypeOK, Become

(* What every operation but a walk leaves well typed. *)
LEMMA TypeMoves ==
    ASSUME TypeOK, NEW t \in Threads,
           \/ \E o \in Ops \ {"read"} : Begin(t, o)
           \/ read_head(t) \/ load_head(t) \/ load_tail(t) \/ append_exchange(t)
           \/ append_link(t) \/ prepend_swap(t) \/ walk_fault(t)
    PROVE  TypeOK'
<1> USE DEF At, Goto, Become, Leave, Done, dataVars, memVars, localVars
<1>0. <<>> \in Seq(Seq(Chars)) OBVIOUS
<1>1. ASSUME NEW o \in Ops \ {"read"}, Begin(t, o) PROVE TypeOK'
  <2>1. PICK m \in Chunks : /\ where' = [c \in Chunks |-> IF c \in {m} THEN "private" ELSE where[c]]
                            /\ arg' = [arg EXCEPT ![t] = m]
                            /\ text' = text \/ \E x \in Texts : text' = [text EXCEPT ![m] = x]
    BY <1>1 DEF Begin
  <2>2. text' \in [Chunks -> Seq(Chars)] BY <2>1, TextsAssumption DEF TypeOK
  <2>3. where' \in [Chunks -> {"fresh", "private", "linked", "replaced", "leaked"}] BY <2>1 DEF TypeOK
  <2>4. pc' \in [Threads -> Places] /\ op' \in [Threads -> Ops] BY <1>1 DEF Begin, TypeOK, Places
  <2>5. arg' \in [Threads -> Chunks \cup {Nil}] BY <2>1 DEF TypeOK
  <2>6. token' \in [Threads -> Seq(Seq(Chars))]
    <3>1. token' = token \/ token' = [token EXCEPT ![t] = <<>>] \/ token' = [token EXCEPT ![t] = token[t]]
      BY <1>1 DEF Begin
    <3> QED BY <1>0, <3>1 DEF TypeOK
  <2> QED BY <1>1, <2>2, <2>3, <2>4, <2>5, <2>6 DEF Begin, TypeOK
<1>2. CASE read_head(t)
  <2>1. token' \in [Threads -> Seq(Seq(Chars))] BY <1>0, <1>2 DEF read_head, TypeOK
  <2> QED BY <1>2, <2>1 DEF read_head, TypeOK, Places
<1>3. CASE load_head(t) BY <1>3 DEF load_head, TypeOK, Places
<1>4. CASE load_tail(t) BY <1>4 DEF load_tail, TypeOK, Places
<1>5. CASE append_exchange(t) BY <1>5 DEF append_exchange, TypeOK, Places
<1>6. CASE append_link(t) BY <1>6 DEF append_link, TypeOK, Places, Ops
<1>7. CASE prepend_swap(t)
  <2>1. next' \in [Chunks -> Chunks \cup {Nil}] BY <1>7 DEF prepend_swap, TypeOK
  <2>2. UNCHANGED <<tail, text, token, fault>> BY <1>7 DEF prepend_swap
  <2>3. CASE head' = arg[t] /\ Become({arg[t]}, "linked") /\ Leave(t) /\ stale' = stale \ {t}
    <3> HIDE DEF Leave, Become
    <3>1. arg[t] \in Chunks \cup {Nil} BY DEF TypeOK
    <3> QED BY <2>1, <2>2, <2>3, <3>1, LeaveType, BecomeType DEF TypeOK
  <2>4. CASE h' = [h EXCEPT ![t] = head] /\ stale' = stale \ {t} /\ UNCHANGED <<head, where, pc, op, arg, z>>
    BY <2>1, <2>2, <2>4 DEF TypeOK
  <2> QED BY <1>7, <2>3, <2>4 DEF prepend_swap
<1>8. CASE walk_fault(t) BY <1>8 DEF walk_fault, Fault, TypeOK
<1> QED BY <1>1, <1>2, <1>3, <1>4, <1>5, <1>6, <1>7, <1>8

LEMMA TypeWalks ==
    ASSUME TypeOK, RankInv, NEW t \in Threads, read(t) \/ incrdecr(t) \/ cas(t)
    PROVE  TypeOK'
<1> USE DEF At, Goto, Become, Leave, Done, dataVars, memVars, localVars
<1>0. ASSUME \/ Become({arg[t]}, "leaked") /\ Done(t)
             \/ Goto(t, "swap") /\ UNCHANGED <<where, op, arg, h, z, stale>>,
             text' \in [Chunks -> Seq(Chars)], UNCHANGED <<head, tail, next, token, fault>>
      PROVE  TypeOK'
  <2>1. CASE Become({arg[t]}, "leaked") /\ Leave(t) /\ stale' = stale \ {t}
    <3> HIDE DEF Leave, Become
    <3> QED BY <1>0, <2>1, LeaveType, BecomeType DEF TypeOK
  <2>2. CASE Goto(t, "swap") /\ UNCHANGED <<where, op, arg, h, z, stale>>
    BY <1>0, <2>2 DEF TypeOK, Places
  <2> QED BY <1>0, <2>1, <2>2
<1>1. CASE read(t)
  <2>1. PICK s \in Reading(t) : token' = [token EXCEPT ![t] = s] BY <1>1 DEF read
  <2>2. s \in Seq(Seq(Chars)) BY ReadingType
  <2>3. token' \in [Threads -> Seq(Seq(Chars))] BY <2>1, <2>2 DEF TypeOK
  <2> QED BY <1>1, <2>3 DEF read, TypeOK, Places, Ops
<1>2. CASE incrdecr(t)
  <2>1. PICK s \in Reading(t) :
             LET r == mem_atoi(FlattenSeq(s))
             IN \/ /\ Become({arg[t]}, "leaked")
                   /\ Done(t)
                   /\ text' = text
                \/ /\ text' = [text EXCEPT ![arg[t]] =
                                Formatted(IF op[t] = "incr" THEN incr(r.a) ELSE decr(r.a))]
                   /\ Goto(t, "swap")
                   /\ UNCHANGED <<where, op, arg, h, z, stale>>
    BY <1>2 DEF incrdecr
  <2>2. s \in Seq(Seq(Chars)) BY ReadingType
  <2>3. PICK r : r = mem_atoi(FlattenSeq(s)) OBVIOUS
  <2>4. r \in Scan BY <2>2, <2>3, FlattenType, AtoiType
  <2>5. PICK x : x = Formatted(IF op[t] = "incr" THEN incr(r.a) ELSE decr(r.a)) OBVIOUS
  <2>6. x \in Seq(Chars) BY <2>4, <2>5, FormattedType
  <2>7. text' = text \/ text' = [text EXCEPT ![arg[t]] = x] BY <2>1, <2>3, <2>5
  <2>8. text' \in [Chunks -> Seq(Chars)] BY <2>6, <2>7 DEF TypeOK
  <2>9. \/ Become({arg[t]}, "leaked") /\ Done(t)
        \/ Goto(t, "swap") /\ UNCHANGED <<where, op, arg, h, z, stale>>
    BY <2>1
  <2>10. UNCHANGED <<head, tail, next, token, fault>> BY <1>2 DEF incrdecr
  <2> QED BY <1>0, <2>8, <2>9, <2>10
<1>3. CASE cas(t)
  <2>1. \/ Become({arg[t]}, "leaked") /\ Done(t)
        \/ Goto(t, "swap") /\ UNCHANGED <<where, op, arg, h, z, stale>>
    BY <1>3 DEF cas
  <2>2. UNCHANGED <<head, tail, next, text, token, fault>> BY <1>3 DEF cas
  <2>3. text' \in [Chunks -> Seq(Chars)] BY <2>2 DEF TypeOK
  <2> QED BY <1>0, <2>1, <2>2, <2>3
<1> QED BY <1>1, <1>2, <1>3

LEMMA TypeSwaps ==
    ASSUME TypeOK, NEW t \in Threads, cmpxchg128(t) \/ free(t) \/ destroy
    PROVE  TypeOK'
<1> USE DEF At, Goto, Become, Leave, Done, dataVars, memVars, localVars
<1>0. ASSUME NEW M, mem_free(M)
      PROVE  /\ next' \in [Chunks -> Chunks \cup {Nil}] /\ text' \in [Chunks -> Seq(Chars)]
             /\ where' \in [Chunks -> {"fresh", "private", "linked", "replaced", "leaked"}]
             /\ stale' \in SUBSET Threads
  <2>1. <<>> \in Seq(Chars) OBVIOUS
  <2>2. text' \in [Chunks -> Seq(Chars)] BY <1>0, <2>1 DEF mem_free, TypeOK
  <2> QED BY <1>0, <2>2 DEF mem_free, TypeOK
<1>1. CASE cmpxchg128(t)
  <2>1. CASE NotSwapped(t)
    <3>1. UNCHANGED <<head, tail, next, text, token, fault>> BY <2>1 DEF NotSwapped
    <3>2. CASE Become({arg[t]}, "leaked") /\ Leave(t) /\ stale' = stale \ {t}
      <4> HIDE DEF Leave, Become
      <4> QED BY <3>1, <3>2, LeaveType, BecomeType DEF TypeOK
    <3>3. CASE op[t] # "cas" BY <2>1, <3>1, <3>3 DEF NotSwapped, TypeOK, Places
    <3> QED BY <2>1, <3>2, <3>3 DEF NotSwapped
  <2>2. CASE Swapped(t)
    <3>1. CASE Fault("recycled") BY <3>1 DEF Fault, TypeOK
    <3>2. CASE head' = arg[t]
      <4>1. where' \in [Chunks -> {"fresh", "private", "linked", "replaced", "leaked"}]
        BY <2>2, <3>2 DEF Swapped, Fault, TypeOK
      <4> QED BY <2>2, <3>1, <3>2, <4>1, ZenonT(60) DEF Swapped, TypeOK, Places, Ops
    <3> QED BY <2>2, <3>1, <3>2 DEF Swapped
  <2> QED BY <1>1, <2>1, <2>2 DEF cmpxchg128
<1>2. CASE free(t) BY <1>0, <1>2 DEF free, TypeOK, Places, Ops
<1>3. CASE destroy BY <1>0, <1>3 DEF destroy, TypeOK
<1> QED BY <1>1, <1>2, <1>3

-----------------------------------------------------------------------------
(* What each step does, chunk by chunk and thread by thread.               *)

(* The types of what leads from chunk to chunk. *)
Shape ==
    /\ head \in Chunks \cup {Nil} /\ tail \in Chunks \cup {Nil}
    /\ next \in [Chunks -> Chunks \cup {Nil}]
    /\ where \in [Chunks -> {"fresh", "private", "linked", "replaced", "leaked"}]
    /\ pc \in [Threads -> Places] /\ op \in [Threads -> Ops]
    /\ arg \in [Threads -> Chunks \cup {Nil}]
    /\ h \in [Threads -> Chunks \cup {Nil}] /\ z \in [Threads -> Chunks \cup {Nil}]
    /\ stale \subseteq Threads

(* What the other threads know does not change. *)
Others(t) ==
    \A u \in Threads : u # t =>
        /\ pc'[u] = pc[u] /\ op'[u] = op[u] /\ arg'[u] = arg[u] /\ h'[u] = h[u] /\ z'[u] = z[u]
        /\ token'[u] = token[u]

(* What t keeps, and who has stale addresses. *)
KeepsOp(t) == op'[t] = op[t] /\ arg'[t] = arg[t]
KeepsStale == stale' = stale
NoLonger(t) == stale' = stale \ {t}

Ended(t) == pc'[t] = "idle" /\ op'[t] = "read" /\ arg'[t] = Nil /\ h'[t] = Nil /\ z'[t] = Nil

(* What becomes of the entry and of its memory. *)
SameData == head' = head /\ tail' = tail
SameNext == \A m \in Chunks : next'[m] = next[m]
SameText == \A m \in Chunks : text'[m] = text[m]
SameWhere == \A m \in Chunks : where'[m] = where[m]
Only(m, w) == \A c \in Chunks : where'[c] = IF c = m THEN w ELSE where[c]
TextBut(m) == \A c \in Chunks : c # m => text'[c] = text[c]
NextBut(m, n) == \A c \in Chunks : next'[c] = IF c = m THEN n ELSE next[c]

Begun(t, m) ==
    /\ Others(t) /\ KeepsStale /\ SameData /\ SameNext /\ TextBut(m)
    /\ pc[t] = "idle" /\ head # Nil /\ where[m] = "fresh" /\ Only(m, "private")
    /\ op'[t] \in Ops \ {"read"} /\ arg'[t] = m /\ h'[t] = h[t] /\ z'[t] = z[t]
    /\ op'[t] \notin {"incr", "decr"} => text'[m] \in Texts
    /\ \/ op'[t] = "append" /\ pc'[t] = "exchange"
       \/ op'[t] # "append" /\ pc'[t] = "load_head"
       \/ op'[t] = "cas" /\ pc'[t] = "load_tail"

Loaded(t) ==
    /\ Others(t) /\ KeepsOp(t) /\ KeepsStale /\ SameData /\ SameNext /\ SameText /\ SameWhere
    /\ head # Nil
    /\ \/ pc[t] = "idle" /\ h'[t] = head /\ z'[t] = z[t] /\ pc'[t] = "walk"
       \/ /\ pc[t] = "load_head" /\ h'[t] = head /\ z'[t] = z[t]
          /\ \/ op[t] = "prepend" /\ pc'[t] = "swap_head"
             \/ op[t] \in {"incr", "decr", "cas"} /\ z[t] # Nil /\ pc'[t] = "walk"
             \/ op[t] \in {"incr", "decr", "cas"} /\ z[t] = Nil /\ pc'[t] = "load_tail"
       \/ /\ pc[t] = "load_tail" /\ h'[t] = h[t] /\ z'[t] = tail /\ op[t] \in {"incr", "decr", "cas"}
          /\ pc'[t] = IF h[t] = Nil THEN "load_head" ELSE "walk"

Exchanged(t) ==
    /\ Others(t) /\ KeepsOp(t) /\ KeepsStale /\ SameNext /\ SameText
    /\ pc[t] = "exchange" /\ op[t] = "append" /\ pc'[t] = "link" /\ h'[t] = tail /\ z'[t] = z[t]
    /\ head' = head /\ tail' = arg[t] /\ Only(arg[t], "linked")

LinkedTo(t) ==
    /\ Others(t) /\ Ended(t) /\ NoLonger(t) /\ SameData /\ SameText /\ SameWhere
    /\ pc[t] = "link" /\ op[t] = "append" /\ NextBut(h[t], arg[t])

Prepended(t) ==
    /\ Others(t) /\ Ended(t) /\ NoLonger(t) /\ SameText
    /\ pc[t] = "swap_head" /\ op[t] = "prepend" /\ NextBut(arg[t], h[t])
    /\ head = h[t] /\ head' = arg[t] /\ tail' = tail /\ Only(arg[t], "linked")

Reloaded(t) ==
    /\ Others(t) /\ KeepsOp(t) /\ NoLonger(t) /\ SameData /\ SameText /\ SameWhere
    /\ pc[t] = "swap_head" /\ op[t] = "prepend" /\ NextBut(arg[t], h[t])
    /\ pc'[t] = "swap_head" /\ h'[t] = head /\ z'[t] = z[t]

WasRead(t) ==
    /\ Others(t) /\ Ended(t) /\ NoLonger(t) /\ SameData /\ SameNext /\ SameText /\ SameWhere
    /\ pc[t] = "walk" /\ op[t] = "read"

Threw(t) ==
    /\ Others(t) /\ Ended(t) /\ NoLonger(t) /\ SameData /\ SameNext /\ SameText
    /\ pc[t] \in {"walk", "swap"} /\ op[t] \in {"incr", "decr", "cas"} /\ Only(arg[t], "leaked")

(* What incr() or decr() makes of the value s. *)
Leaves(o, s, x) ==
    LET r == mem_atoi(FlattenSeq(s))
    IN r.at # "not a number" /\ x = Formatted(IF o = "incr" THEN incr(r.a) ELSE decr(r.a))

Computed(t) ==
    /\ Others(t) /\ KeepsOp(t) /\ KeepsStale /\ SameData /\ SameNext /\ SameWhere /\ TextBut(arg[t])
    /\ pc[t] = "walk" /\ op[t] \in {"incr", "decr", "cas"} /\ Reading(t) # {}
    /\ token'[t] = token[t] /\ (op[t] = "cas" => token[t] \in Reading(t) /\ SameText)
    /\ op[t] # "cas" => \E s \in Reading(t) : Leaves(op[t], s, text'[arg[t]])
    /\ pc'[t] = "swap" /\ h'[t] = h[t] /\ z'[t] = z[t]

Retried(t) ==
    /\ Others(t) /\ KeepsOp(t) /\ NoLonger(t) /\ SameData /\ SameNext /\ SameText /\ SameWhere
    /\ pc[t] = "swap" /\ op[t] \in {"incr", "decr"}
    /\ pc'[t] = "load_head" /\ h'[t] = Nil /\ z'[t] = Nil

Replaced(t) ==
    /\ Others(t) /\ SameNext /\ SameText /\ Current(t)
    /\ op[t] \in {"incr", "decr", "cas"} /\ head' = arg[t] /\ tail' = arg[t]
    /\ \A m \in Chunks : where'[m] = IF m = arg[t] THEN "linked"
                                     ELSE IF Contains(Chain, m)
                                     THEN IF op[t] = "cas" THEN "leaked" ELSE "replaced"
                                     ELSE where[m]
    /\ \/ op[t] = "cas" /\ Ended(t) /\ NoLonger(t)
       \/ op[t] # "cas" /\ pc'[t] = "free" /\ h'[t] = h[t] /\ z'[t] = z[t] /\ KeepsOp(t) /\ KeepsStale

(* The chunks M are freed. *)
Freed(M) ==
    /\ \A c \in Chunks :
           /\ where'[c] = IF c \in M THEN "fresh" ELSE where[c]
           /\ next'[c] = IF c \in M THEN Nil ELSE next[c]
           /\ c \notin M => text'[c] = text[c]
    /\ stale' = stale \cup {u \in Threads : pc[u] # "free" /\ {h[u], z[u]} \cap M # {}}

FreedBy(t) ==
    /\ Others(t) /\ Ended(t) /\ SameData /\ pc[t] = "free" /\ op[t] \in {"incr", "decr"}
    /\ Freed(ToSet(Walk(next, h[t], Nil)))

Destroyed ==
    /\ \A u \in Threads :
           /\ pc'[u] = pc[u] /\ op'[u] = op[u] /\ arg'[u] = arg[u] /\ h'[u] = h[u] /\ z'[u] = z[u]
           /\ token'[u] = token[u] /\ pc[u] = "idle"
    /\ head # Nil /\ head' = Nil /\ tail' = Nil /\ Freed(ToSet(Chain))

(* Nothing but fault changes. *)
Stopped ==
    UNCHANGED <<head, tail, next, text, where, pc, op, arg, h, z, token, stale>>

Kinds(t) ==
    \/ \E m \in Chunks : Begun(t, m)
    \/ Loaded(t) \/ Exchanged(t) \/ LinkedTo(t) \/ Prepended(t) \/ Reloaded(t) \/ WasRead(t)
    \/ Threw(t) \/ Computed(t) \/ Retried(t) \/ Replaced(t) \/ FreedBy(t) \/ Stopped

LEMMA ShapeOK ==
    ASSUME TypeOK
    PROVE  Shape
BY DEF TypeOK, Shape

LEMMA DoneIs ==
    ASSUME Shape, NEW t \in Threads, Done(t)
    PROVE  /\ Ended(t) /\ NoLonger(t)
           /\ token' = token => Others(t)
BY DEF Shape, Done, Leave, Goto, Ended, NoLonger, Others

LEMMA BeginKind ==
    ASSUME TypeOK, NEW t \in Threads, NEW o \in Ops \ {"read"}, Begin(t, o)
    PROVE  \E m \in Chunks : Begun(t, m)
<1>1. PICK m \in Chunks : /\ where[m] = "fresh" /\ Become({m}, "private") /\ arg' = [arg EXCEPT ![t] = m]
                          /\ \/ o \in {"incr", "decr"} /\ text' = text
                             \/ \E x \in Texts : text' = [text EXCEPT ![m] = x]
  BY DEF Begin
<1>2. Only(m, "private") BY <1>1 DEF Only, Become
<1>3. TextBut(m) BY <1>1 DEF TextBut, TypeOK
<1>4. Others(t) BY <1>1 DEF Begin, TypeOK, Others, Goto, localVars
<1>5. /\ op'[t] = o /\ arg'[t] = m /\ h' = h /\ z' = z /\ stale' = stale /\ next' = next
      /\ head' = head /\ tail' = tail
  BY <1>1 DEF Begin, TypeOK, dataVars, localVars
<1>6. \/ o = "append" /\ pc'[t] = "exchange"
      \/ o # "append" /\ pc'[t] = "load_head"
      \/ o = "cas" /\ pc'[t] = "load_tail"
  BY DEF Begin, TypeOK, Goto
<1>7. pc[t] = "idle" /\ head # Nil BY DEF Begin, At
<1>8. op'[t] \notin {"incr", "decr"} => text'[m] \in Texts BY <1>1, <1>5 DEF TypeOK
<1> QED BY <1>1, <1>2, <1>3, <1>4, <1>5, <1>6, <1>7, <1>8 DEF Begun, SameData, SameNext, KeepsStale

LEMMA LoadKind ==
    ASSUME TypeOK, PlaceInv, NEW t \in Threads, read_head(t) \/ load_head(t) \/ load_tail(t)
    PROVE  Loaded(t)
<1> USE ShapeOK DEF Shape, At, Goto, dataVars, memVars, localVars, Loaded, SameData, SameNext, SameText,
        SameWhere, KeepsStale, KeepsOp, Others
<1>1. CASE read_head(t) BY <1>1 DEF read_head, TypeOK
<1>2. CASE load_head(t) BY <1>2 DEF load_head, PlaceInv
<1>3. CASE load_tail(t) BY <1>3 DEF load_tail, PlaceInv
<1> QED BY <1>1, <1>2, <1>3

LEMMA AppendKind ==
    ASSUME TypeOK, NEW t \in Threads
    PROVE  /\ append_exchange(t) => Exchanged(t)
           /\ append_link(t) => LinkedTo(t)
           /\ prepend_swap(t) => Prepended(t) \/ Reloaded(t)
<1>0. Shape BY ShapeOK
<1> USE DEF At, dataVars, memVars, localVars, SameData, SameNext, SameText,
        SameWhere, KeepsStale, KeepsOp, Only, NextBut
<1>1. ASSUME append_exchange(t) PROVE Exchanged(t)
  BY <1>0, <1>1 DEF append_exchange, Exchanged, Shape, Goto, Become, Others
<1>2. ASSUME append_link(t) PROVE LinkedTo(t)
  <2>1. Others(t) /\ Ended(t) /\ NoLonger(t) BY <1>0, <1>2, DoneIs DEF append_link
  <2> QED BY <1>0, <1>2, <2>1 DEF append_link, LinkedTo, Shape
<1>3. ASSUME prepend_swap(t) PROVE Prepended(t) \/ Reloaded(t)
  <2>1. CASE head = h[t]
    <3>1. Others(t) /\ Ended(t) /\ NoLonger(t) BY <1>0, <1>3, <2>1, DoneIs DEF prepend_swap
    <3> QED BY <1>0, <1>3, <2>1, <3>1 DEF prepend_swap, Prepended, Shape, Become
  <2>2. CASE head # h[t]
    BY <1>0, <1>3, <2>2 DEF prepend_swap, Reloaded, Shape, Others, NoLonger
  <2> QED BY <2>1, <2>2
<1> QED BY <1>1, <1>2, <1>3

LEMMA WalkKind ==
    ASSUME TypeOK, PlaceInv, NEW t \in Threads
    PROVE  /\ walk_fault(t) => Stopped
           /\ read(t) => WasRead(t)
           /\ incrdecr(t) \/ cas(t) => Threw(t) \/ Computed(t)
<1>0. Shape BY ShapeOK
<1> USE DEF At, dataVars, memVars, localVars, SameData, SameNext, SameText,
        SameWhere, KeepsStale, KeepsOp, Only
<1>1. ASSUME walk_fault(t) PROVE Stopped BY <1>1 DEF walk_fault, Fault, Stopped
<1>2. ASSUME read(t) PROVE WasRead(t)
  <2>1. \A u \in Threads : u # t => token'[u] = token[u] BY <1>2 DEF read, TypeOK
  <2>2. Ended(t) /\ NoLonger(t) BY <1>0, <1>2, DoneIs DEF read
  <2>3. Others(t) BY <1>0, <1>2, <2>1 DEF read, Others, Shape, Done, Leave, Goto
  <2> QED BY <1>2, <2>2, <2>3 DEF read, WasRead
<1>3. ASSUME pc[t] \in {"walk", "swap"}, op[t] \in {"incr", "decr", "cas"}, Become({arg[t]}, "leaked"), Done(t),
             UNCHANGED <<head, tail, next, text, token>>
      PROVE  Threw(t)
  <2>1. Others(t) /\ Ended(t) /\ NoLonger(t) BY <1>0, <1>3, DoneIs
  <2> QED BY <1>3, <2>1 DEF Threw, Become
<1>4. ASSUME incrdecr(t) PROVE Threw(t) \/ Computed(t)
  <2>0. PICK s \in Reading(t) : \E x :
             \/ Become({arg[t]}, "leaked") /\ Done(t) /\ text' = text
             \/ /\ text' = [text EXCEPT ![arg[t]] = x] /\ Goto(t, "swap") /\ Leaves(op[t], s, x)
                /\ UNCHANGED <<where, op, arg, localVars>>
    BY <1>4 DEF incrdecr, Leaves
  <2>1. PICK x :
             \/ Become({arg[t]}, "leaked") /\ Done(t) /\ text' = text
             \/ /\ text' = [text EXCEPT ![arg[t]] = x] /\ Goto(t, "swap") /\ Leaves(op[t], s, x)
                /\ UNCHANGED <<where, op, arg, localVars>>
    BY <2>0
  <2>2. pc[t] = "walk" /\ op[t] \in {"incr", "decr"} /\ UNCHANGED <<dataVars, next, token, fault>>
    BY <1>4 DEF incrdecr
  <2>3. CASE Done(t) /\ Become({arg[t]}, "leaked") /\ text' = text BY <1>3, <2>2, <2>3
  <2>4. CASE /\ text' = [text EXCEPT ![arg[t]] = x] /\ Goto(t, "swap") /\ Leaves(op[t], s, x)
             /\ UNCHANGED <<where, op, arg, localVars>>
    <3>1. TextBut(arg[t]) BY <2>4 DEF TextBut, TypeOK
    <3>2. arg[t] \in Chunks BY <2>2 DEF PlaceInv
    <3>3. text'[arg[t]] = x BY <2>4, <3>2 DEF TypeOK
    <3> HIDE DEF Leaves
    <3> QED BY <1>0, <2>0, <2>1, <2>2, <2>4, <3>1, <3>3 DEF Computed, Shape, Goto, Others
  <2> QED BY <2>1, <2>3, <2>4
<1>5. ASSUME cas(t) PROVE Threw(t) \/ Computed(t)
  <2>1. PICK s \in Reading(t) :
             \/ Become({arg[t]}, "leaked") /\ Done(t)
             \/ s = token[t] /\ Goto(t, "swap") /\ UNCHANGED <<where, op, arg, localVars>>
    BY <1>5 DEF cas
  <2>2. pc[t] = "walk" /\ op[t] = "cas" /\ UNCHANGED <<dataVars, memVars, token, fault>> BY <1>5 DEF cas
  <2>3. CASE Done(t) /\ Become({arg[t]}, "leaked") BY <1>3, <2>2, <2>3
  <2>4. CASE s = token[t] /\ Goto(t, "swap") /\ UNCHANGED <<where, op, arg, localVars>>
    <3>1. TextBut(arg[t]) BY <2>2 DEF TextBut
    <3> QED BY <1>0, <2>1, <2>2, <2>4, <3>1 DEF Computed, Shape, Goto, Others
  <2> QED BY <2>1, <2>3, <2>4
<1> QED BY <1>1, <1>2, <1>4, <1>5

LEMMA SwapKind ==
    ASSUME TypeOK, PlaceInv, NEW t \in Threads, cmpxchg128(t)
    PROVE  Threw(t) \/ Retried(t) \/ Replaced(t) \/ Stopped
<1>0. Shape BY ShapeOK
<1> USE DEF At, dataVars, memVars, localVars, SameData, SameNext, SameText,
        SameWhere, KeepsStale, KeepsOp
<1>1. pc[t] = "swap" /\ op[t] \in {"incr", "decr", "cas"} BY DEF cmpxchg128
<1>2. CASE NotSwapped(t)
  <2>0. UNCHANGED <<head, tail, next, text, token, fault>> BY <1>2 DEF NotSwapped
  <2>1. CASE op[t] = "cas"
    <3>1. Others(t) /\ Ended(t) /\ NoLonger(t) BY <1>0, <1>2, <2>0, <2>1, DoneIs DEF NotSwapped
    <3> QED BY <1>1, <1>2, <2>0, <2>1, <3>1 DEF NotSwapped, Threw, Become, Only
  <2>2. CASE op[t] # "cas"
    BY <1>0, <1>1, <1>2, <2>0, <2>2 DEF NotSwapped, Retried, Shape, Others, Goto, NoLonger
  <2> QED BY <2>1, <2>2
<1>3. CASE Swapped(t) /\ head = h[t] /\ tail = z[t]
  <2>1. CASE Fault("recycled") BY <2>1 DEF Fault, Stopped
  <2>2. CASE t \notin stale
    <3>1. Current(t) BY <1>1, <1>3, <2>2 DEF Current
    <3>2. UNCHANGED <<next, text, token, fault>> BY <1>3, <2>2 DEF Swapped
    <3>3. CASE op[t] = "cas"
      <4>1. Others(t) /\ Ended(t) /\ NoLonger(t) BY <1>0, <1>3, <2>2, <3>2, <3>3, DoneIs DEF Swapped
      <4> QED BY <1>1, <1>3, <2>2, <3>1, <3>2, <3>3, <4>1 DEF Swapped, Replaced
    <3>4. CASE op[t] # "cas"
      BY <1>0, <1>1, <1>3, <2>2, <3>1, <3>2, <3>4 DEF Swapped, Replaced, Shape, Others, Goto
    <3> QED BY <3>3, <3>4
  <2> QED BY <1>3, <2>1, <2>2 DEF Swapped
<1> QED BY <1>2, <1>3 DEF cmpxchg128

LEMMA FreeKind ==
    ASSUME TypeOK
    PROVE  /\ \A t \in Threads : free(t) => FreedBy(t)
           /\ destroy => Destroyed
<1>0. Shape BY ShapeOK
<1>1. ASSUME NEW M, mem_free(M) PROVE Freed(M)
  BY <1>1 DEF mem_free, Become, Freed
<1>2. ASSUME NEW t \in Threads, free(t) PROVE FreedBy(t)
  <2>1. Freed(ToSet(Walk(next, h[t], Nil))) BY <1>1, <1>2 DEF free
  <2>2. Ended(t) BY <1>0, <1>2 DEF free, Leave, Goto, Ended, Shape
  <2>3. Others(t) BY <1>0, <1>2 DEF free, Leave, Goto, Others, Shape
  <2> QED BY <1>2, <2>1, <2>2, <2>3 DEF free, FreedBy, At, SameData, dataVars
<1>3. ASSUME destroy PROVE Destroyed
  <2>1. Freed(ToSet(Chain)) BY <1>1, <1>3 DEF destroy
  <2> QED BY <1>3, <2>1 DEF destroy, Destroyed, At
<1> QED BY <1>2, <1>3

LEMMA StepKinds ==
    ASSUME TypeOK, PlaceInv, [Next]_vars
    PROVE  Destroyed \/ Stopped \/ \E t \in Threads : Kinds(t)
<1>1. CASE UNCHANGED vars BY <1>1 DEF vars, dataVars, memVars, localVars, Stopped
<1>2. CASE destroy BY <1>2, FreeKind
<1>3. ASSUME NEW t \in Threads, Step(t) PROVE Kinds(t)
  <2>1. CASE load_head(t) \/ load_tail(t) BY <2>1, LoadKind DEF Kinds
  <2>2. CASE append_exchange(t) \/ append_link(t) \/ prepend_swap(t) BY <2>2, AppendKind DEF Kinds
  <2>3. CASE walk_fault(t) \/ read(t) \/ incrdecr(t) \/ cas(t) BY <2>3, WalkKind DEF Kinds
  <2>4. CASE cmpxchg128(t) BY <2>4, SwapKind DEF Kinds
  <2>5. CASE free(t) BY <2>5, FreeKind DEF Kinds
  <2> QED BY <1>3, <2>1, <2>2, <2>3, <2>4, <2>5 DEF Step
<1>4. ASSUME NEW t \in Threads, read_head(t) PROVE Kinds(t) BY <1>4, LoadKind DEF Kinds
<1>5. ASSUME NEW t \in Threads, NEW o \in Ops \ {"read"}, Begin(t, o) PROVE Kinds(t)
  BY <1>5, BeginKind DEF Kinds
<1> QED BY <1>1, <1>2, <1>3, <1>4, <1>5 DEF Next

-----------------------------------------------------------------------------
(* What the invariant says of the chain.                                   *)

LEMMA ChainFacts ==
    ASSUME Shape, PlaceInv, ArgInv, ChainInv
    PROVE  /\ head = Nil <=> tail = Nil
           /\ head # Nil => where[head] = "linked" /\ where[tail] = "linked" /\ next[tail] = Nil
           /\ head = Nil => \A m \in Chunks : where[m] # "linked"
           /\ \A t \in Threads : pc[t] = "link" =>
                  h[t] \in Chunks /\ where[h[t]] = "linked" /\ next[h[t]] = Nil /\ h[t] # tail
           /\ \A t, u \in Threads : pc[t] = "link" /\ pc[u] = "link" /\ h[t] = h[u] => t = u
           /\ \A m \in Chunks : where[m] = "linked" /\ next[m] # Nil => where[next[m]] = "linked"
<1>1. PICK n \in Nat : \E s \in [1..n -> Chunks] : Links(s, n) BY DEF ChainInv
<1>2. PICK s \in [1..n -> Chunks] : Links(s, n) BY <1>1
<1>3. n # 0 => 1 \in 1..n /\ n \in 1..n OBVIOUS
<1>4. \A i \in 1..n : s[i] \in Chunks /\ s[i] # Nil /\ where[s[i]] = "linked" BY <1>2, NilAssumption DEF Links
<1>5. /\ head = Nil <=> tail = Nil
      /\ head # Nil => where[head] = "linked" /\ where[tail] = "linked" /\ next[tail] = Nil
  BY <1>2, <1>3, <1>4 DEF Links
<1>6. ASSUME head = Nil, NEW m \in Chunks PROVE where[m] # "linked"
  <2>1. n = 0 BY <1>2, <1>3, <1>4, <1>6 DEF Links
  <2> QED BY <1>2, <2>1 DEF Links
<1>7. ASSUME NEW t \in Threads, pc[t] = "link"
      PROVE  h[t] \in Chunks /\ where[h[t]] = "linked" /\ next[h[t]] = Nil /\ h[t] # tail
  <2>1. PICK i \in 1..n : i # n /\ h[t] = s[i] /\ next[s[i]] = Nil BY <1>2, <1>7 DEF Links
  <2>2. n # 0 /\ n \in 1..n BY <2>1
  <2>3. tail = s[n] BY <1>2, <2>2 DEF Links
  <2>4. s[i] # s[n] BY <1>2, <2>1, <2>2 DEF Links
  <2> QED BY <1>4, <2>1, <2>3, <2>4
<1>8. ASSUME NEW t \in Threads, NEW u \in Threads, pc[t] = "link", pc[u] = "link", h[t] = h[u] PROVE t = u
  <2>1. PICK i \in 1..n : h[t] = s[i] /\ arg[t] = s[i + 1] BY <1>2, <1>8 DEF Links
  <2>2. PICK j \in 1..n : h[u] = s[j] /\ arg[u] = s[j + 1] BY <1>2, <1>8 DEF Links
  <2>3. i = j
    <3>1. \A k \in 1..n, l \in 1..n : s[k] = s[l] => k = l BY <1>2 DEF Links
    <3>2. s[i] = s[j] BY <1>8, <2>1, <2>2
    <3> QED BY <3>1, <3>2
  <2>4. Brings(t) /\ Brings(u) BY <1>8 DEF PlaceInv, Brings
  <2> QED BY <2>1, <2>2, <2>3, <2>4 DEF ArgInv
<1>9. ASSUME NEW m \in Chunks, where[m] = "linked", next[m] # Nil PROVE where[next[m]] = "linked"
  <2>1. PICK i \in 1..n : s[i] = m BY <1>2, <1>9 DEF Links
  <2>2. i # n BY <1>2, <1>9, <2>1 DEF Links
  <2>3. next[m] = s[i + 1]
    <3>1. next[s[i]] = s[i + 1] \/ next[s[i]] = Nil BY <1>2, <2>1, <2>2 DEF Links
    <3> QED BY <1>9, <2>1, <3>1
  <2>4. i + 1 \in 1..n BY <2>2
  <2> QED BY <1>4, <2>3, <2>4
<1> QED BY <1>5, <1>6, <1>7, <1>8, <1>9

(* The walk along links that are all set. *)
LEMMA ChainSeq ==
    ASSUME NEW link, NEW rank, Down(link, rank), NEW n \in Nat, NEW s \in [1..n -> Chunks], n # 0,
           \A i \in 1..n : i # n => link[s[i]] = s[i + 1], link[s[n]] = Nil
    PROVE  Walk(link, s[1], Nil) = s
<1>1. s[1] \in Chunks /\ \A i \in 1..n : s[i] # Nil BY NilAssumption
<1>2. Path(link, s, n, s[1], Nil) BY <1>1 DEF Path
<1> QED BY <1>1, <1>2, WalkIs

LEMMA ChainIs ==
    ASSUME Shape, RankInv, \A t \in Threads : pc[t] # "link",
           NEW n \in Nat, NEW s \in [1..n -> Chunks], Links(s, n)
    PROVE  Chain = s
<1>1. PICK rank : Down(next, rank)
  <2>1. PICK rank \in [Chunks -> Nat] : Ranked(rank) BY DEF RankInv
  <2>2. Down(next, rank) BY <2>1 DEF Down, Ranked, Shape
  <2> QED BY <2>2
<1>2. CASE n = 0
  <2>1. head = Nil BY <1>2 DEF Links
  <2>2. head \in Chunks \cup {Nil} BY DEF Shape
  <2>3. Chain = <<>> BY <1>1, <2>1, <2>2, WalkType DEF Chain
  <2>4. s = <<>>
    <3>1. s \in Seq(Chunks) /\ Len(s) = 0 BY <1>2, FunSeq
    <3> QED BY <3>1, EmptySeq
  <2> QED BY <2>3, <2>4
<1>3. CASE n # 0
  <2>1. head = s[1] /\ next[s[n]] = Nil BY <1>3 DEF Links
  <2>2. \A i \in 1..n : i # n => next[s[i]] = s[i + 1] BY DEF Links
  <2>3. Walk(next, s[1], Nil) = s BY <1>1, <1>3, <2>1, <2>2, ChainSeq
  <2> QED BY <2>1, <2>3 DEF Chain
<1> QED BY <1>2, <1>3

LEMMA ChainSet ==
    ASSUME Shape, RankInv, ChainInv, \A t \in Threads : pc[t] # "link"
    PROVE  /\ ToSet(Chain) = {m \in Chunks : where[m] = "linked"}
           /\ \A m \in Chunks : Contains(Chain, m) <=> where[m] = "linked"
           /\ IsInjective(Chain)
           /\ head # Nil => Last(Chain) = tail
<1>1. PICK n \in Nat : \E s \in [1..n -> Chunks] : Links(s, n) BY DEF ChainInv
<1>2. PICK s \in [1..n -> Chunks] : Links(s, n) BY <1>1
<1>3. Chain = s BY <1>2, ChainIs
<1>4. DOMAIN s = 1..n /\ Len(s) = n BY FunSeq
<1>5. \A m \in Chunks : where[m] = "linked" <=> \E i \in 1..n : s[i] = m BY <1>2 DEF Links
<1>6. ToSet(Chain) = {m \in Chunks : where[m] = "linked"} BY <1>3, <1>4, <1>5 DEF ToSet
<1>7. \A m \in Chunks : Contains(Chain, m) <=> where[m] = "linked" BY <1>3, <1>4, <1>5 DEF Contains
<1>8. IsInjective(Chain) BY <1>2, <1>3, <1>4 DEF IsInjective, Links
<1>9. head # Nil => Last(Chain) = tail BY <1>2, <1>3, <1>4 DEF Last, Links
<1> QED BY <1>6, <1>7, <1>8, <1>9

(* What free() walks along is what the thread has replaced. *)
LEMMA FreeWalk ==
    ASSUME Shape, RankInv, NEW own, NEW t \in Threads, Owns(own, t), h[t] \in Chunks
    PROVE  /\ ToSet(Walk(next, h[t], Nil)) \subseteq Chunks
           /\ \A m \in ToSet(Walk(next, h[t], Nil)) : where[m] = "replaced" /\ own[m] = t
           /\ Last(Walk(next, h[t], Nil)) = z[t]
<1>1. PICK rank : Down(next, rank)
  <2>1. PICK rank \in [Chunks -> Nat] : Ranked(rank) BY DEF RankInv
  <2>2. Down(next, rank) BY <2>1 DEF Down, Ranked, Shape
  <2> QED BY <2>2
<1>2. PICK n \in Nat : \E p \in [1..n -> Chunks] :
           /\ Path(next, p, n, h[t], Nil) /\ p[n] = z[t]
           /\ \A i \in 1..n : where[p[i]] = "replaced" /\ own[p[i]] = t
  BY DEF Owns
<1>3. PICK p \in [1..n -> Chunks] :
           /\ Path(next, p, n, h[t], Nil) /\ p[n] = z[t]
           /\ \A i \in 1..n : where[p[i]] = "replaced" /\ own[p[i]] = t
  BY <1>2
<1>4. Walk(next, h[t], Nil) = p BY <1>1, <1>3, WalkIs
<1>5. DOMAIN p = 1..n /\ Len(p) = n BY FunSeq
<1>6. ToSet(p) = {p[i] : i \in 1..n} BY <1>5 DEF ToSet
<1>7. Last(p) = p[n] BY <1>5 DEF Last
<1> QED BY <1>3, <1>4, <1>6, <1>7

LEMMA FreedWas ==
    ASSUME Shape, PlaceInv, RankInv, FreeInv, NEW t \in Threads, FreedBy(t)
    PROVE  \E M \in SUBSET Chunks : Freed(M) /\ \A m \in M : where[m] = "replaced"
<1>1. PICK own : \A u \in Threads : pc[u] = "free" => Owns(own, u) BY DEF FreeInv
<1>2. pc[t] = "free" /\ h[t] \in Chunks BY DEF FreedBy, PlaceInv
<1>3. PICK M : M = ToSet(Walk(next, h[t], Nil)) OBVIOUS
<1>4. M \subseteq Chunks /\ \A m \in M : where[m] = "replaced" BY <1>1, <1>2, <1>3, FreeWalk
<1>5. Freed(M) BY <1>3 DEF FreedBy
<1> QED BY <1>4, <1>5

LEMMA DestroyedWas ==
    ASSUME Shape, RankInv, ChainInv, Destroyed
    PROVE  Freed({m \in Chunks : where[m] = "linked"})
<1>1. \A t \in Threads : pc[t] # "link" BY DEF Destroyed
<1>2. ToSet(Chain) = {m \in Chunks : where[m] = "linked"} BY <1>1, ChainSet
<1> QED BY <1>2 DEF Destroyed

LEMMA ReplacedWas ==
    ASSUME Shape, RankInv, ChainInv, SwapInv, NEW t \in Threads, Replaced(t)
    PROVE  /\ \A u \in Threads : pc[u] # "link"
           /\ \A m \in Chunks : where'[m] = IF m = arg[t] THEN "linked"
                                            ELSE IF where[m] = "linked"
                                            THEN IF op[t] = "cas" THEN "leaked" ELSE "replaced"
                                            ELSE where[m]
<1>1. Current(t) BY DEF Replaced
<1>2. \A u \in Threads : pc[u] # "link" BY <1>1 DEF SwapInv
<1>3. \A m \in Chunks : Contains(Chain, m) <=> where[m] = "linked" BY <1>2, ChainSet
<1> QED BY <1>2, <1>3 DEF Replaced

-----------------------------------------------------------------------------
(* The parts of the invariant that are about single threads and chunks.    *)

LEMMA PlaceNext ==
    ASSUME Shape, Shape', PlaceInv, head = Nil <=> tail = Nil, NEW t \in Threads, Kinds(t)
    PROVE  PlaceInv'
<1> USE DEF Shape, Others, KeepsOp, KeepsStale, NoLonger, Ended, SameData, SameNext, SameWhere, Only, NextBut
<1> USE NilAssumption
<1>1. ASSUME NEW m \in Chunks, Begun(t, m) PROVE PlaceInv' BY <1>1 DEF Begun, PlaceInv, Ops
<1>2. CASE Loaded(t)
  <2>1. head' = head /\ head # Nil BY <1>2 DEF Loaded
  <2>2. head \in Chunks /\ tail \in Chunks BY <2>1
  <2>3. CASE pc[t] = "idle" BY <1>2, <2>1, <2>2, <2>3 DEF Loaded, PlaceInv
  <2>4. CASE pc[t] = "load_head" BY <1>2, <2>1, <2>2, <2>4 DEF Loaded, PlaceInv
  <2>5. CASE pc[t] = "load_tail" BY <1>2, <2>1, <2>2, <2>5 DEF Loaded, PlaceInv
  <2> QED BY <1>2, <2>3, <2>4, <2>5 DEF Loaded
<1>3. CASE Exchanged(t) BY <1>3 DEF Exchanged, PlaceInv, Ops
<1>4. CASE LinkedTo(t) BY <1>4 DEF LinkedTo, PlaceInv, Ops
<1>5. CASE Prepended(t) BY <1>5 DEF Prepended, PlaceInv, Ops
<1>6. CASE Reloaded(t) BY <1>6 DEF Reloaded, PlaceInv, Ops
<1>7. CASE WasRead(t) BY <1>7 DEF WasRead, PlaceInv, Ops
<1>8. CASE Threw(t) BY <1>8 DEF Threw, PlaceInv, Ops
<1>9. CASE Computed(t) BY <1>9 DEF Computed, PlaceInv, Ops
<1>10. CASE Retried(t) BY <1>10 DEF Retried, PlaceInv, Ops
<1>11. CASE Replaced(t)
  <2>1. pc[t] = "swap" BY <1>11 DEF Replaced, Current
  <2> QED BY <1>11, <2>1 DEF Replaced, PlaceInv
<1>12. CASE FreedBy(t)
  <2>1. Others(t) /\ Ended(t) /\ SameData BY <1>12 DEF FreedBy
  <2> QED BY <2>1 DEF PlaceInv
<1>13. CASE Stopped BY <1>13 DEF Stopped, PlaceInv
<1> QED BY <1>1, <1>2, <1>3, <1>4, <1>5, <1>6, <1>7, <1>8, <1>9, <1>10, <1>11, <1>12, <1>13 DEF Kinds

LEMMA ArgNext ==
    ASSUME Shape, Shape', PlaceInv, PlaceInv', ArgInv, RankInv, ChainInv, FreeInv, SwapInv, NEW t \in Threads, Kinds(t)
    PROVE  ArgInv'
<1> USE DEF Shape, Others, KeepsOp, KeepsStale, NoLonger, Ended, SameData, SameNext, SameWhere, Only, NextBut
<1> USE NilAssumption
<1>1. ASSUME NEW m \in Chunks, Begun(t, m) PROVE ArgInv' BY <1>1, SMTT(30) DEF Begun, PlaceInv, ArgInv, Brings
<1>2. CASE Loaded(t) BY <1>2 DEF Loaded, PlaceInv, ArgInv, Brings
<1>3. CASE Exchanged(t) BY <1>3 DEF Exchanged, PlaceInv, ArgInv, Brings
<1>4. CASE LinkedTo(t) BY <1>4 DEF LinkedTo, PlaceInv, ArgInv, Brings
<1>5. CASE Prepended(t) BY <1>5 DEF Prepended, PlaceInv, ArgInv, Brings
<1>6. CASE Reloaded(t) BY <1>6 DEF Reloaded, PlaceInv, ArgInv, Brings
<1>7. CASE WasRead(t) BY <1>7 DEF WasRead, PlaceInv, ArgInv, Brings
<1>8. CASE Threw(t) BY <1>8, SMTT(30) DEF Threw, PlaceInv, ArgInv, Brings
<1>9. CASE Computed(t) BY <1>9 DEF Computed, PlaceInv, ArgInv, Brings
<1>10. CASE Retried(t) BY <1>10 DEF Retried, PlaceInv, ArgInv, Brings
<1>11. CASE Replaced(t)
  <2>1. Others(t) /\ SameNext BY <1>11 DEF Replaced
  <2>2. \/ Ended(t)
        \/ op[t] # "cas" /\ pc'[t] = "free" /\ h'[t] = h[t] /\ z'[t] = z[t] /\ KeepsOp(t)
    BY <1>11 DEF Replaced
  <2>3. pc[t] = "swap" /\ op[t] \in {"incr", "decr", "cas"} BY <1>11 DEF Replaced, Current
  <2>4. \A m \in Chunks : where'[m] = IF m = arg[t] THEN "linked"
                                       ELSE IF where[m] = "linked"
                                       THEN IF op[t] = "cas" THEN "leaked" ELSE "replaced"
                                       ELSE where[m]
    BY <1>11, ReplacedWas
  <2>5. \A u \in Threads : pc[u] # "link" BY <1>11, ReplacedWas
  <2> QED BY <2>1, <2>2, <2>3, <2>4, <2>5 DEF PlaceInv, ArgInv, Brings
<1>12. CASE FreedBy(t)
  <2>1. Others(t) /\ Ended(t) /\ pc[t] = "free" BY <1>12 DEF FreedBy
  <2>2. PICK M \in SUBSET Chunks : Freed(M) /\ \A m \in M : where[m] = "replaced" BY <1>12, FreedWas
  <2>3. /\ \A c \in Chunks : /\ where'[c] = IF c \in M THEN "fresh" ELSE where[c]
                             /\ next'[c] = IF c \in M THEN Nil ELSE next[c]
    BY <2>2 DEF Freed
  <2> QED BY <2>1, <2>2, <2>3 DEF PlaceInv, ArgInv, Brings
<1>13. CASE Stopped BY <1>13 DEF Stopped, ArgInv, Brings
<1> QED BY <1>1, <1>2, <1>3, <1>4, <1>5, <1>6, <1>7, <1>8, <1>9, <1>10, <1>11, <1>12, <1>13 DEF Kinds

LEMMA EndNext ==
    ASSUME Shape, Shape', PlaceInv, PlaceInv', ArgInv, ArgInv', EndInv, RankInv, ChainInv, FreeInv, SwapInv, NEW t \in Threads, Kinds(t)
    PROVE  EndInv'
<1> USE DEF Shape, Others, KeepsOp, KeepsStale, NoLonger, Ended, SameData, SameNext, SameWhere, Only, NextBut
<1> USE NilAssumption
<1>1. ASSUME NEW m \in Chunks, Begun(t, m) PROVE EndInv' BY <1>1 DEF Begun, PlaceInv, ArgInv, EndInv, Brings
<1>2. CASE Loaded(t) BY <1>2 DEF Loaded, PlaceInv, ArgInv, EndInv, Brings
<1>3. CASE Exchanged(t) BY <1>3 DEF Exchanged, PlaceInv, ArgInv, EndInv, Brings
<1>4. CASE LinkedTo(t)
  <2>1. where[h[t]] = "linked" BY <1>4, ChainFacts DEF LinkedTo
  <2> QED BY <1>4, <2>1 DEF LinkedTo, PlaceInv, ArgInv, EndInv, Brings
<1>5. CASE Prepended(t) BY <1>5, SMTT(30) DEF Prepended, PlaceInv, ArgInv, EndInv, Brings
<1>6. CASE Reloaded(t) BY <1>6 DEF Reloaded, PlaceInv, ArgInv, EndInv, Brings
<1>7. CASE WasRead(t) BY <1>7 DEF WasRead, PlaceInv, ArgInv, EndInv, Brings
<1>8. CASE Threw(t) BY <1>8 DEF Threw, PlaceInv, ArgInv, EndInv, Brings
<1>9. CASE Computed(t) BY <1>9 DEF Computed, PlaceInv, ArgInv, EndInv, Brings
<1>10. CASE Retried(t) BY <1>10 DEF Retried, PlaceInv, ArgInv, EndInv, Brings
<1>11. CASE Replaced(t)
  <2>1. Others(t) /\ SameNext BY <1>11 DEF Replaced
  <2>2. \/ Ended(t)
        \/ op[t] # "cas" /\ pc'[t] = "free" /\ h'[t] = h[t] /\ z'[t] = z[t] /\ KeepsOp(t)
    BY <1>11 DEF Replaced
  <2>3. pc[t] = "swap" /\ op[t] \in {"incr", "decr", "cas"} BY <1>11 DEF Replaced, Current
  <2>4. \A m \in Chunks : where'[m] = IF m = arg[t] THEN "linked"
                                       ELSE IF where[m] = "linked"
                                       THEN IF op[t] = "cas" THEN "leaked" ELSE "replaced"
                                       ELSE where[m]
    BY <1>11, ReplacedWas
  <2>5. \A u \in Threads : pc[u] # "link" BY <1>11, ReplacedWas
  <2>6. \A m \in Chunks : where'[m] = "fresh" => next'[m] = Nil BY <2>1, <2>4 DEF EndInv
  <2> QED BY <2>1, <2>2, <2>3, <2>6 DEF Brings, EndInv
<1>12. CASE FreedBy(t)
  <2>1. Others(t) /\ Ended(t) /\ pc[t] = "free" BY <1>12 DEF FreedBy
  <2>2. PICK M \in SUBSET Chunks : Freed(M) /\ \A m \in M : where[m] = "replaced" BY <1>12, FreedWas
  <2>3. /\ \A c \in Chunks : /\ where'[c] = IF c \in M THEN "fresh" ELSE where[c]
                             /\ next'[c] = IF c \in M THEN Nil ELSE next[c]
    BY <2>2 DEF Freed
  <2> QED BY <2>1, <2>2, <2>3 DEF PlaceInv, ArgInv, Brings, EndInv
<1>13. CASE Stopped BY <1>13 DEF Stopped, EndInv, Brings
<1> QED BY <1>1, <1>2, <1>3, <1>4, <1>5, <1>6, <1>7, <1>8, <1>9, <1>10, <1>11, <1>12, <1>13 DEF Kinds

LEMMA UseFrame ==
    ASSUME Shape, Shape', UseInv, NEW t \in Threads, Others(t), \A m \in Chunks : InUse(m) => InUse(m)',
           \A u \in Threads : u # t => (u \in stale' <=> u \in stale),
           t \notin stale' /\ pc'[t] # "free" => \A m \in {h'[t], z'[t]} \cap Chunks : InUse(m)',
           t \in stale' => pc'[t] \notin {"idle", "exchange", "link", "free"}
    PROVE  UseInv'
<1>1. ASSUME NEW u \in Threads, u \notin stale', pc'[u] # "free"
      PROVE  \A m \in {h'[u], z'[u]} \cap Chunks : InUse(m)'
  <2>1. CASE u = t BY <1>1, <2>1
  <2>2. CASE u # t
    <3>1. pc[u] # "free" /\ u \notin stale /\ h'[u] = h[u] /\ z'[u] = z[u] BY <1>1, <2>2 DEF Others
    <3> QED BY <3>1 DEF UseInv
  <2> QED BY <2>1, <2>2
<1>2. ASSUME NEW u \in stale' PROVE pc'[u] \notin {"idle", "exchange", "link", "free"}
  <2>1. u \in Threads BY DEF Shape
  <2>2. CASE u # t BY <2>1, <2>2 DEF UseInv, Others
  <2> QED BY <2>2
<1> QED BY <1>1, <1>2 DEF UseInv

LEMMA UseNext ==
    ASSUME Shape, Shape', PlaceInv, PlaceInv', ArgInv, UseInv, RankInv, ChainInv, FreeInv, SwapInv, NEW t \in Threads, Kinds(t)
    PROVE  UseInv'
<1> USE DEF Shape, Others, KeepsOp, KeepsStale, NoLonger, Ended, SameData, SameNext, SameWhere, Only, NextBut
<1>1. ASSUME NEW m \in Chunks, Begun(t, m) PROVE UseInv' BY <1>1 DEF Begun, PlaceInv, UseInv, InUse
<1>2. CASE Loaded(t)
  <2>0. where[head] = "linked" /\ where[tail] = "linked" BY <1>2, ChainFacts, NilAssumption DEF Loaded, PlaceInv
  <2>1. \A m \in Chunks : InUse(m) => InUse(m)' BY <1>2 DEF Loaded, InUse
  <2>2. t \notin stale' => \A m \in {h'[t], z'[t]} \cap Chunks : InUse(m)' BY <1>2, <2>1, NilAssumption, <2>0 DEF Loaded, UseInv, PlaceInv, InUse
  <2>3. Others(t) BY <1>2 DEF Loaded
  <2>4. \A u \in Threads : u # t => (u \in stale' <=> u \in stale) BY <1>2 DEF Loaded
  <2>5. t \in stale' => pc'[t] \notin {"idle", "exchange", "link", "free"} BY <1>2 DEF Loaded, UseInv
  <2> QED BY <2>1, <2>2, <2>3, <2>4, <2>5, UseFrame
<1>3. CASE Exchanged(t)
  <2>0. where[head] = "linked" /\ where[tail] = "linked" BY <1>3, ChainFacts, NilAssumption DEF Exchanged, PlaceInv
  <2>1. \A m \in Chunks : InUse(m) => InUse(m)' BY <1>3 DEF Exchanged, InUse
  <2>2. t \notin stale' => \A m \in {h'[t], z'[t]} \cap Chunks : InUse(m)' BY <1>3, <2>1, NilAssumption, <2>0 DEF Exchanged, UseInv, PlaceInv, InUse
  <2>3. Others(t) BY <1>3 DEF Exchanged
  <2>4. \A u \in Threads : u # t => (u \in stale' <=> u \in stale) BY <1>3 DEF Exchanged
  <2>5. t \in stale' => pc'[t] \notin {"idle", "exchange", "link", "free"} BY <1>3 DEF Exchanged, UseInv
  <2> QED BY <2>1, <2>2, <2>3, <2>4, <2>5, UseFrame
<1>4. CASE LinkedTo(t)
  <2>1. \A m \in Chunks : InUse(m) => InUse(m)' BY <1>4 DEF LinkedTo, InUse
  <2>2. t \notin stale' => \A m \in {h'[t], z'[t]} \cap Chunks : InUse(m)' BY <1>4, <2>1, NilAssumption DEF LinkedTo, UseInv, PlaceInv, InUse
  <2>3. Others(t) BY <1>4 DEF LinkedTo
  <2>4. \A u \in Threads : u # t => (u \in stale' <=> u \in stale) BY <1>4 DEF LinkedTo
  <2>5. t \in stale' => pc'[t] \notin {"idle", "exchange", "link", "free"} BY <1>4 DEF LinkedTo, UseInv
  <2> QED BY <2>1, <2>2, <2>3, <2>4, <2>5, UseFrame
<1>5. CASE Prepended(t)
  <2>1. \A m \in Chunks : InUse(m) => InUse(m)' BY <1>5 DEF Prepended, InUse
  <2>2. t \notin stale' => \A m \in {h'[t], z'[t]} \cap Chunks : InUse(m)' BY <1>5, <2>1, NilAssumption DEF Prepended, UseInv, PlaceInv, InUse
  <2>3. Others(t) BY <1>5 DEF Prepended
  <2>4. \A u \in Threads : u # t => (u \in stale' <=> u \in stale) BY <1>5 DEF Prepended
  <2>5. t \in stale' => pc'[t] \notin {"idle", "exchange", "link", "free"} BY <1>5 DEF Prepended, UseInv
  <2> QED BY <2>1, <2>2, <2>3, <2>4, <2>5, UseFrame
<1>6. CASE Reloaded(t)
  <2>0. where[head] = "linked" /\ where[tail] = "linked" BY <1>6, ChainFacts, NilAssumption DEF Reloaded, PlaceInv
  <2>1. \A m \in Chunks : InUse(m) => InUse(m)' BY <1>6 DEF Reloaded, InUse
  <2>2. t \notin stale' => \A m \in {h'[t], z'[t]} \cap Chunks : InUse(m)' BY <1>6, <2>1, NilAssumption, <2>0 DEF Reloaded, UseInv, PlaceInv, InUse
  <2>3. Others(t) BY <1>6 DEF Reloaded
  <2>4. \A u \in Threads : u # t => (u \in stale' <=> u \in stale) BY <1>6 DEF Reloaded
  <2>5. t \in stale' => pc'[t] \notin {"idle", "exchange", "link", "free"} BY <1>6 DEF Reloaded, UseInv
  <2> QED BY <2>1, <2>2, <2>3, <2>4, <2>5, UseFrame
<1>7. CASE WasRead(t)
  <2>1. \A m \in Chunks : InUse(m) => InUse(m)' BY <1>7 DEF WasRead, InUse
  <2>2. t \notin stale' => \A m \in {h'[t], z'[t]} \cap Chunks : InUse(m)' BY <1>7, <2>1, NilAssumption DEF WasRead, UseInv, PlaceInv, InUse
  <2>3. Others(t) BY <1>7 DEF WasRead
  <2>4. \A u \in Threads : u # t => (u \in stale' <=> u \in stale) BY <1>7 DEF WasRead
  <2>5. t \in stale' => pc'[t] \notin {"idle", "exchange", "link", "free"} BY <1>7 DEF WasRead, UseInv
  <2> QED BY <2>1, <2>2, <2>3, <2>4, <2>5, UseFrame
<1>8. CASE Threw(t)
  <2>1. \A m \in Chunks : InUse(m) => InUse(m)' BY <1>8 DEF Threw, InUse
  <2>2. t \notin stale' => \A m \in {h'[t], z'[t]} \cap Chunks : InUse(m)' BY <1>8, <2>1, NilAssumption DEF Threw, UseInv, PlaceInv, InUse
  <2>3. Others(t) BY <1>8 DEF Threw
  <2>4. \A u \in Threads : u # t => (u \in stale' <=> u \in stale) BY <1>8 DEF Threw
  <2>5. t \in stale' => pc'[t] \notin {"idle", "exchange", "link", "free"} BY <1>8 DEF Threw, UseInv
  <2> QED BY <2>1, <2>2, <2>3, <2>4, <2>5, UseFrame
<1>9. CASE Computed(t)
  <2>1. \A m \in Chunks : InUse(m) => InUse(m)' BY <1>9 DEF Computed, InUse
  <2>2. t \notin stale' => \A m \in {h'[t], z'[t]} \cap Chunks : InUse(m)' BY <1>9, <2>1, NilAssumption DEF Computed, UseInv, PlaceInv, InUse
  <2>3. Others(t) BY <1>9 DEF Computed
  <2>4. \A u \in Threads : u # t => (u \in stale' <=> u \in stale) BY <1>9 DEF Computed
  <2>5. t \in stale' => pc'[t] \notin {"idle", "exchange", "link", "free"} BY <1>9 DEF Computed, UseInv
  <2> QED BY <2>1, <2>2, <2>3, <2>4, <2>5, UseFrame
<1>10. CASE Retried(t)
  <2>1. \A m \in Chunks : InUse(m) => InUse(m)' BY <1>10 DEF Retried, InUse
  <2>2. t \notin stale' => \A m \in {h'[t], z'[t]} \cap Chunks : InUse(m)' BY <1>10, <2>1, NilAssumption DEF Retried, UseInv, PlaceInv, InUse
  <2>3. Others(t) BY <1>10 DEF Retried
  <2>4. \A u \in Threads : u # t => (u \in stale' <=> u \in stale) BY <1>10 DEF Retried
  <2>5. t \in stale' => pc'[t] \notin {"idle", "exchange", "link", "free"} BY <1>10 DEF Retried, UseInv
  <2> QED BY <2>1, <2>2, <2>3, <2>4, <2>5, UseFrame
<1>11. CASE Replaced(t)
  <2>1. Others(t) /\ SameNext BY <1>11 DEF Replaced
  <2>2. \/ Ended(t) /\ NoLonger(t)
        \/ op[t] # "cas" /\ pc'[t] = "free" /\ h'[t] = h[t] /\ z'[t] = z[t] /\ KeepsOp(t) /\ KeepsStale
    BY <1>11 DEF Replaced
  <2>3. pc[t] = "swap" /\ op[t] \in {"incr", "decr", "cas"} BY <1>11 DEF Replaced, Current
  <2>4. \A m \in Chunks : where'[m] = IF m = arg[t] THEN "linked"
                                       ELSE IF where[m] = "linked"
                                       THEN IF op[t] = "cas" THEN "leaked" ELSE "replaced"
                                       ELSE where[m]
    BY <1>11, ReplacedWas
  <2>5. t \notin stale BY <1>11 DEF Replaced, Current
  <2>6. \A m \in Chunks : InUse(m) => InUse(m)' BY <2>4 DEF InUse
  <2>7. ASSUME NEW u \in Threads, u \notin stale', pc'[u] # "free"
        PROVE  \A m \in {h'[u], z'[u]} \cap Chunks : InUse(m)'
    BY <2>1, <2>2, <2>3, <2>6, <2>7, NilAssumption DEF UseInv
  <2> QED BY <2>1, <2>2, <2>3, <2>5, <2>7 DEF UseInv
<1>12. CASE FreedBy(t)
  <2>1. Others(t) /\ Ended(t) /\ pc[t] = "free" BY <1>12 DEF FreedBy
  <2>2. PICK M \in SUBSET Chunks : Freed(M) /\ \A m \in M : where[m] = "replaced" BY <1>12, FreedWas
  <2>3. \A c \in Chunks : InUse(c) /\ c \notin M => InUse(c)' BY <2>2 DEF Freed, InUse
  <2>4. stale' = stale \cup {u \in Threads : pc[u] # "free" /\ {h[u], z[u]} \cap M # {}} BY <2>2 DEF Freed
  <2>5. ASSUME NEW u \in Threads, u \notin stale', pc'[u] # "free"
        PROVE  \A m \in {h'[u], z'[u]} \cap Chunks : InUse(m)'
    <3>1. CASE u = t BY <2>1, <3>1, NilAssumption
    <3>2. CASE u # t
      <4>1. pc[u] # "free" /\ h'[u] = h[u] /\ z'[u] = z[u] /\ u \notin stale BY <2>1, <2>4, <2>5, <3>2
      <4>2. {h[u], z[u]} \cap M = {} BY <2>4, <2>5, <4>1
      <4> QED BY <2>3, <4>1, <4>2 DEF UseInv
    <3> QED BY <3>1, <3>2
  <2>6. ASSUME NEW u \in stale' PROVE pc'[u] \notin {"idle", "exchange", "link", "free"}
    <3>0. u \in Threads BY <2>6
    <3>1. CASE u \in stale
      <4>1. u # t BY <2>1, <3>1 DEF UseInv
      <4> QED BY <2>1, <3>0, <3>1, <4>1 DEF UseInv
    <3>2. CASE u \notin stale
      <4>1. pc[u] # "free" /\ {h[u], z[u]} \cap M # {} BY <2>4, <2>6, <3>2
      <4>2. h[u] # Nil \/ z[u] # Nil BY <4>1, NilAssumption
      <4>3. pc[u] \notin {"idle", "exchange"} BY <3>0, <4>2 DEF PlaceInv, Ops
      <4>4. pc[u] # "link"
        <5>1. pc[u] = "link" => where[h[u]] = "linked" /\ z[u] = Nil BY <3>0, ChainFacts DEF PlaceInv, Ops
        <5> QED BY <2>2, <4>1, <5>1, NilAssumption
      <4> QED BY <2>1, <3>0, <4>1, <4>3, <4>4
    <3> QED BY <3>1, <3>2
  <2> QED BY <2>5, <2>6 DEF UseInv
<1>13. CASE Stopped BY <1>13 DEF Stopped, UseInv, InUse
<1> QED BY <1>1, <1>2, <1>3, <1>4, <1>5, <1>6, <1>7, <1>8, <1>9, <1>10, <1>11, <1>12, <1>13 DEF Kinds

-----------------------------------------------------------------------------
(* There are no cycles.                                                    *)

(* Chunks outside of a set that no link leaves can rank above all of it. *)
LEMMA RankAbove ==
    ASSUME Shape, PlaceInv, NEW rank \in [Chunks -> Nat], Ranked(rank), NEW L, NEW b \in Chunks, b \in L,
           \A m \in Chunks : m \in L /\ next[m] # Nil => next[m] \in L,
           \A u \in Threads : pc[u] = "swap_head" /\ arg[u] \in L => h[u] \in L,
           \A u \in Threads : pc[u] = "link" /\ h[u] \in L => arg[u] \in L
    PROVE  \E r \in [Chunks -> Nat] : Ranked(r) /\ \A a \in Chunks : a \notin L => r[b] < r[a]
<1>1. PICK r : r = [m \in Chunks |-> IF m \in L THEN rank[m] ELSE rank[m] + rank[b] + 1] OBVIOUS
<1>2. r \in [Chunks -> Nat] BY <1>1
<1>3. ASSUME NEW c \in Chunks, NEW d \in Chunks, rank[d] < rank[c], c \in L => d \in L PROVE r[d] < r[c]
  <2>1. rank[c] \in Nat /\ rank[d] \in Nat /\ rank[b] \in Nat OBVIOUS
  <2> QED BY <1>1, <1>3, <2>1
<1>4. \A m \in Chunks : next[m] # Nil => r[next[m]] < r[m] BY <1>3 DEF Ranked, Shape
<1>5. \A u \in Threads : pc[u] \in {"swap_head", "link"} => arg[u] \in Chunks /\ h[u] \in Chunks
  BY DEF PlaceInv
<1>6. \A u \in Threads : pc[u] = "swap_head" => r[h[u]] < r[arg[u]] BY <1>3, <1>5 DEF Ranked
<1>7. \A u \in Threads : pc[u] = "link" => r[arg[u]] < r[h[u]] BY <1>3, <1>5 DEF Ranked
<1>8. ASSUME NEW a \in Chunks, a \notin L PROVE r[b] < r[a]
  <2>1. rank[a] \in Nat /\ rank[b] \in Nat OBVIOUS
  <2> QED BY <1>1, <1>8, <2>1
<1> QED BY <1>2, <1>4, <1>6, <1>7, <1>8 DEF Ranked

(* In particular what a prepend() brings above the value, *)
LEMMA RankPrivate ==
    ASSUME Shape, PlaceInv, ArgInv, ChainInv, RankInv, head # Nil
    PROVE  \E r \in [Chunks -> Nat] :
               Ranked(r) /\ \A a \in Chunks : where[a] # "linked" => r[head] < r[a]
<1>1. PICK rank \in [Chunks -> Nat] : Ranked(rank) BY DEF RankInv
<1>2. PICK L : L = {m \in Chunks : where[m] = "linked"} OBVIOUS
<1>3. head \in Chunks /\ head \in L BY <1>2, ChainFacts DEF Shape
<1>4. \A m \in Chunks : m \in L /\ next[m] # Nil => next[m] \in L BY <1>2, ChainFacts DEF Shape
<1>5. ASSUME NEW u \in Threads, pc[u] = "swap_head" PROVE arg[u] \notin L
  BY <1>2, <1>5 DEF ArgInv, PlaceInv, Brings
<1>6. ASSUME NEW u \in Threads, pc[u] = "link" PROVE arg[u] \in L
  BY <1>2, <1>6 DEF ArgInv, PlaceInv, Brings
<1>7. PICK r \in [Chunks -> Nat] : Ranked(r) /\ \A a \in Chunks : a \notin L => r[head] < r[a]
  BY <1>1, <1>3, <1>4, <1>5, <1>6, RankAbove
<1> QED BY <1>2, <1>7

(* and the value above what an append() brings. *)
LEMMA RankValue ==
    ASSUME Shape, PlaceInv, ArgInv, EndInv, ChainInv, RankInv,
           NEW t \in Threads, pc[t] = "exchange", op[t] = "append"
    PROVE  \E r \in [Chunks -> Nat] : Ranked(r) /\ \A a \in Chunks : a # arg[t] => r[arg[t]] < r[a]
<1>1. PICK rank \in [Chunks -> Nat] : Ranked(rank) BY DEF RankInv
<1>2. PICK b \in Chunks : b = arg[t] BY DEF PlaceInv
<1>3. Brings(t) BY DEF Brings
<1>4. next[b] = Nil /\ where[b] = "private" BY <1>2, <1>3 DEF EndInv, ArgInv
<1>5. ASSUME NEW u \in Threads, pc[u] = "swap_head" PROVE arg[u] # b
  <2>1. Brings(u) BY <1>5 DEF PlaceInv, Brings
  <2>2. u # t BY <1>5
  <2> QED BY <1>2, <1>3, <2>1, <2>2 DEF ArgInv
<1>6. ASSUME NEW u \in Threads, pc[u] = "link" PROVE h[u] # b BY <1>4, <1>6, ChainFacts
<1>7. PICK r \in [Chunks -> Nat] : Ranked(r) /\ \A a \in Chunks : a \notin {b} => r[b] < r[a]
  <2>1. \A m \in Chunks : m \in {b} /\ next[m] # Nil => next[m] \in {b} BY <1>4
  <2>2. \A u \in Threads : pc[u] = "swap_head" /\ arg[u] \in {b} => h[u] \in {b} BY <1>5
  <2>3. \A u \in Threads : pc[u] = "link" /\ h[u] \in {b} => arg[u] \in {b} BY <1>6
  <2>4. b \in {b} OBVIOUS
  <2>5. PICK L : L = {b} OBVIOUS
  <2>6. PICK r \in [Chunks -> Nat] : Ranked(r) /\ \A a \in Chunks : a \notin L => r[b] < r[a]
    BY <1>1, <2>1, <2>2, <2>3, <2>4, <2>5, RankAbove
  <2> QED BY <2>5, <2>6
<1> QED BY <1>2, <1>7

LEMMA RankNext ==
    ASSUME Shape, Shape', PlaceInv, ArgInv, EndInv, ChainInv, RankInv, NEW t \in Threads, Kinds(t)
    PROVE  RankInv'
<1> USE DEF Shape, Others, KeepsOp, KeepsStale, NoLonger, Ended, SameData, SameNext, SameWhere, Only, NextBut
<1>0. PICK rank \in [Chunks -> Nat] : Ranked(rank) BY DEF RankInv
<1>1. ASSUME NEW m \in Chunks, Begun(t, m) PROVE RankInv'
  <2>1. pc'[t] \notin {"swap_head", "link"} /\ Others(t) /\ SameNext BY <1>1 DEF Begun
  <2>2. Ranked(rank)' BY <1>0, <2>1 DEF Ranked
  <2> QED BY <1>0, <2>2 DEF RankInv
<1>2. CASE Loaded(t)
  <2>1. CASE op[t] = "prepend" /\ pc[t] = "load_head"
    <3>1. PICK r \in [Chunks -> Nat] :
               Ranked(r) /\ \A a \in Chunks : where[a] # "linked" => r[head] < r[a]
      BY <1>2, RankPrivate DEF Loaded
    <3>2. arg[t] \in Chunks /\ where[arg[t]] = "private" BY <2>1 DEF PlaceInv, ArgInv, Brings
    <3>3. Ranked(r)' BY <1>2, <2>1, <3>1, <3>2 DEF Loaded, Ranked
    <3> QED BY <3>1, <3>3 DEF RankInv
  <2>2. CASE ~(op[t] = "prepend" /\ pc[t] = "load_head")
    <3>1. pc'[t] \notin {"swap_head", "link"} BY <1>2, <2>2 DEF Loaded
    <3>2. Others(t) /\ SameNext BY <1>2 DEF Loaded
    <3>3. Ranked(rank)' BY <1>0, <3>1, <3>2 DEF Ranked
    <3> QED BY <1>0, <3>3 DEF RankInv
  <2> QED BY <2>1, <2>2
<1>3. CASE Exchanged(t)
  <2>1. pc[t] = "exchange" /\ op[t] = "append" BY <1>3 DEF Exchanged
  <2>2. PICK r \in [Chunks -> Nat] : Ranked(r) /\ \A a \in Chunks : a # arg[t] => r[arg[t]] < r[a]
    BY <2>1, RankValue
  <2>3. tail \in Chunks /\ where[tail] = "linked" BY <2>1, ChainFacts DEF PlaceInv
  <2>4. arg[t] \in Chunks /\ where[arg[t]] = "private" BY <2>1 DEF PlaceInv, ArgInv, Brings
  <2>5. Ranked(r)' BY <1>3, <2>2, <2>3, <2>4 DEF Exchanged, Ranked
  <2> QED BY <2>2, <2>5 DEF RankInv
<1>4. CASE LinkedTo(t)
  <2>1. Ranked(rank)' BY <1>4, <1>0 DEF LinkedTo, Ranked
  <2> QED BY <1>0, <2>1 DEF RankInv
<1>5. CASE Prepended(t)
  <2>1. Ranked(rank)' BY <1>5, <1>0 DEF Prepended, Ranked
  <2> QED BY <1>0, <2>1 DEF RankInv
<1>6. CASE Reloaded(t)
  <2>1. pc[t] = "swap_head" /\ op[t] = "prepend" BY <1>6 DEF Reloaded
  <2>2. head # Nil BY <2>1 DEF PlaceInv
  <2>3. PICK r \in [Chunks -> Nat] :
             Ranked(r) /\ \A a \in Chunks : where[a] # "linked" => r[head] < r[a]
    BY <2>2, RankPrivate
  <2>4. arg[t] \in Chunks /\ where[arg[t]] = "private" BY <2>1 DEF PlaceInv, ArgInv, Brings
  <2>5. Ranked(r)' BY <1>6, <2>3, <2>4 DEF Reloaded, Ranked
  <2> QED BY <2>3, <2>5 DEF RankInv
<1>7. CASE WasRead(t)
  <2>1. Ranked(rank)' BY <1>7, <1>0 DEF WasRead, Ranked
  <2> QED BY <1>0, <2>1 DEF RankInv
<1>8. CASE Threw(t)
  <2>1. Ranked(rank)' BY <1>8, <1>0 DEF Threw, Ranked
  <2> QED BY <1>0, <2>1 DEF RankInv
<1>9. CASE Computed(t)
  <2>1. Ranked(rank)' BY <1>9, <1>0 DEF Computed, Ranked
  <2> QED BY <1>0, <2>1 DEF RankInv
<1>10. CASE Retried(t)
  <2>1. Ranked(rank)' BY <1>10, <1>0 DEF Retried, Ranked
  <2> QED BY <1>0, <2>1 DEF RankInv
<1>11. CASE Replaced(t)
  <2>1. Others(t) /\ SameNext /\ pc'[t] \in {"idle", "free"} BY <1>11 DEF Replaced
  <2>2. Ranked(rank)' BY <1>0, <2>1 DEF Ranked
  <2> QED BY <1>0, <2>2 DEF RankInv
<1>12. CASE FreedBy(t)
  <2>1. Others(t) /\ pc'[t] = "idle" BY <1>12 DEF FreedBy
  <2>2. \A c \in Chunks : next'[c] = Nil \/ next'[c] = next[c] BY <1>12 DEF FreedBy, Freed
  <2>3. Ranked(rank)' BY <1>0, <2>1, <2>2 DEF Ranked
  <2> QED BY <1>0, <2>3 DEF RankInv
<1>13. CASE Stopped BY <1>13 DEF Stopped, RankInv, Ranked
<1> QED BY <1>1, <1>2, <1>3, <1>4, <1>5, <1>6, <1>7, <1>8, <1>9, <1>10, <1>11, <1>12, <1>13 DEF Kinds

-----------------------------------------------------------------------------
(* The value is what is linked.                                            *)

(* Steps that neither touch the value nor begin or end a link. *)
LEMMA ChainFrame ==
    ASSUME NEW n \in Nat, NEW s \in [1..n -> Chunks], Links(s, n),
           head' = head, tail' = tail,
           \A m \in Chunks : where'[m] = "linked" <=> where[m] = "linked",
           \A m \in Chunks : where[m] = "linked" => next'[m] = next[m],
           \A u \in Threads : pc'[u] = "link" <=> pc[u] = "link",
           \A u \in Threads : pc[u] = "link" => h'[u] = h[u] /\ arg'[u] = arg[u]
    PROVE  Links(s, n)'
<1>1. \A i \in 1..n : where[s[i]] = "linked" /\ s[i] \in Chunks BY DEF Links
<1>2. \A i \in 1..n : next'[s[i]] = next[s[i]] BY <1>1
<1>3. \A i \in 1..n, j \in 1..n : s[i] = s[j] => i = j BY DEF Links
<1>4. \A m \in Chunks : where'[m] = "linked" <=> \E i \in 1..n : s[i] = m BY DEF Links
<1>5. /\ n = 0 => head' = Nil /\ tail' = Nil
      /\ n # 0 => head' = s[1] /\ tail' = s[n] /\ next'[s[n]] = Nil
  <2>1. n # 0 => n \in 1..n OBVIOUS
  <2> QED BY <1>2, <2>1 DEF Links
<1>6. ASSUME NEW i \in 1..n, i # n
      PROVE  \/ next'[s[i]] = s[i + 1]
             \/ next'[s[i]] = Nil /\ \E t \in Threads : pc'[t] = "link" /\ h'[t] = s[i] /\ arg'[t] = s[i + 1]
  <2>1. \/ next[s[i]] = s[i + 1]
        \/ next[s[i]] = Nil /\ \E t \in Threads : pc[t] = "link" /\ h[t] = s[i] /\ arg[t] = s[i + 1]
    BY <1>6 DEF Links
  <2> QED BY <1>2, <2>1
<1>7. ASSUME NEW t \in Threads, pc'[t] = "link"
      PROVE  \E i \in 1..n : i # n /\ h'[t] = s[i] /\ arg'[t] = s[i + 1] /\ next'[s[i]] = Nil
  <2>1. pc[t] = "link" /\ h'[t] = h[t] /\ arg'[t] = arg[t] BY <1>7
  <2>2. PICK i \in 1..n : i # n /\ h[t] = s[i] /\ arg[t] = s[i + 1] /\ next[s[i]] = Nil BY <2>1 DEF Links
  <2> QED BY <1>2, <2>1, <2>2
<1> QED BY <1>3, <1>4, <1>5, <1>6, <1>7 DEF Links

(* The texts that do not change: those of the value, and of what others bring. *)
LEMMA TextKept ==
    ASSUME Shape, PlaceInv, ArgInv, RankInv, FreeInv, NEW t \in Threads, Kinds(t)
    PROVE  /\ \A c \in Chunks : where[c] = "linked" => text'[c] = text[c]
           /\ \A u \in Threads : u # t /\ Brings(u) => text'[arg[u]] = text[arg[u]]
<1>1. ASSUME NEW m \in Chunks, TextBut(m), where[m] # "linked",
             \A u \in Threads : u # t /\ Brings(u) => arg[u] # m
      PROVE  /\ \A c \in Chunks : where[c] = "linked" => text'[c] = text[c]
             /\ \A u \in Threads : u # t /\ Brings(u) => text'[arg[u]] = text[arg[u]]
  <2>1. \A u \in Threads : Brings(u) => arg[u] \in Chunks BY DEF Brings, PlaceInv
  <2> QED BY <1>1, <2>1 DEF TextBut
<1>2. ASSUME NEW m \in Chunks, Begun(t, m) PROVE TextBut(m) /\ where[m] = "fresh" BY <1>2 DEF Begun
<1>3. \A u \in Threads : Brings(u) => where[arg[u]] \in {"linked", "private"} /\ arg[u] \in Chunks
  BY DEF ArgInv, Brings, PlaceInv
<1>4. CASE \E m \in Chunks : Begun(t, m) BY <1>1, <1>2, <1>3, <1>4
<1>5. CASE Computed(t)
  <2>1. TextBut(arg[t]) /\ pc[t] = "walk" /\ op[t] # "read" BY <1>5 DEF Computed
  <2>2. Brings(t) BY <2>1 DEF Brings
  <2>3. arg[t] \in Chunks /\ where[arg[t]] = "private" BY <2>1, <2>2 DEF PlaceInv, ArgInv
  <2>4. \A u \in Threads : u # t /\ Brings(u) => arg[u] # arg[t] BY <2>2 DEF ArgInv
  <2> QED BY <1>1, <2>1, <2>3, <2>4
<1>6. CASE FreedBy(t)
  <2>1. PICK M \in SUBSET Chunks : Freed(M) /\ \A m \in M : where[m] = "replaced" BY <1>6, FreedWas
  <2> QED BY <1>3, <2>1 DEF Freed
<1>7. CASE SameText BY <1>3, <1>7 DEF SameText
<1>8. CASE Stopped BY <1>8 DEF Stopped
<1>9. SameText \/ Stopped \/ Computed(t) \/ FreedBy(t) \/ \E m \in Chunks : Begun(t, m)
  BY DEF Kinds, Loaded, Exchanged, LinkedTo, Prepended, Reloaded, WasRead, Threw, Retried, Replaced
<1> QED BY <1>4, <1>5, <1>6, <1>7, <1>8, <1>9

(* Chain r of k has one more than s of n. *)
Extends(s, n, r, k, m) == k = n + 1 /\ r[k] = m /\ \A i \in 1..n : r[i] = s[i]
Precedes(s, n, r, k, m) == k = n + 1 /\ r[1] = m /\ \A i \in 1..n : r[i + 1] = s[i]

(* The exchange of tail adds a chunk at the end, yet to be linked. *)
LEMMA ChainExchanged ==
    ASSUME Shape, PlaceInv, ArgInv, EndInv, NEW t \in Threads, Exchanged(t),
           NEW n \in Nat, NEW s \in [1..n -> Chunks], Links(s, n)
    PROVE  \E k \in Nat : \E r \in [1..k -> Chunks] : Links(r, k)' /\ Extends(s, n, r, k, arg[t])
<1>0. PICK a \in Chunks : a = arg[t] BY DEF Exchanged, PlaceInv
<1>1. /\ pc[t] = "exchange" /\ pc'[t] = "link" /\ h'[t] = tail /\ arg'[t] = a
      /\ head' = head /\ tail' = a /\ \A c \in Chunks : next'[c] = next[c]
      /\ \A c \in Chunks : where'[c] = IF c = a THEN "linked" ELSE where[c]
      /\ \A u \in Threads : u # t => pc'[u] = pc[u] /\ h'[u] = h[u] /\ arg'[u] = arg[u]
  BY <1>0 DEF Exchanged, KeepsOp, SameNext, Only, Others
<1>2. where[a] = "private" /\ next[a] = Nil BY <1>0 DEF Exchanged, ArgInv, EndInv, Brings
<1>3. n # 0 BY <1>1 DEF PlaceInv, Links
<1>4. PICK k \in Nat : k = n + 1 OBVIOUS
<1>5. PICK r : r = [i \in 1..k |-> IF i = k THEN a ELSE s[i]] OBVIOUS
<1>6. \A i \in 1..n : i \in 1..k /\ i # k /\ r[i] = s[i] BY <1>4, <1>5
<1>7. k \in 1..k /\ r[k] = a /\ k # 0 BY <1>4, <1>5
<1>8. \A i \in 1..k : i # k => i \in 1..n BY <1>4
<1>9. r \in [1..k -> Chunks] BY <1>5, <1>8
<1>10. \A i \in 1..n : s[i] \in Chunks /\ where[s[i]] = "linked" /\ s[i] # a BY <1>2 DEF Links
<1>11. \A i \in 1..k, j \in 1..k : r[i] = r[j] => i = j
  <2>1. \A i \in 1..n, j \in 1..n : s[i] = s[j] => i = j BY DEF Links
  <2> QED BY <1>6, <1>7, <1>8, <1>10, <2>1
<1>12. ASSUME NEW m \in Chunks PROVE where'[m] = "linked" <=> \E i \in 1..k : r[i] = m
  <2>1. where[m] = "linked" <=> \E i \in 1..n : s[i] = m BY DEF Links
  <2> QED BY <1>1, <1>6, <1>7, <1>8, <2>1
<1>13. head' = r[1] /\ tail' = r[k] /\ next'[r[k]] = Nil
  <2>1. 1 \in 1..n BY <1>3
  <2>2. head = s[1] BY <1>3 DEF Links
  <2> QED BY <1>1, <1>2, <1>6, <1>7, <2>1, <2>2
<1>14. tail = s[n] /\ next[s[n]] = Nil /\ n \in 1..n BY <1>3 DEF Links
<1>15. ASSUME NEW i \in 1..k, i # k
       PROVE  \/ next'[r[i]] = r[i + 1]
              \/ next'[r[i]] = Nil /\ \E u \in Threads : pc'[u] = "link" /\ h'[u] = r[i] /\ arg'[u] = r[i + 1]
  <2>0. i \in 1..n /\ r[i] = s[i] /\ next'[s[i]] = next[s[i]] BY <1>1, <1>6, <1>8, <1>10, <1>15
  <2>1. CASE i = n
    <3>1. r[i + 1] = a /\ next'[r[i]] = Nil /\ h'[t] = r[i] BY <1>1, <1>4, <1>7, <1>14, <2>0, <2>1
    <3> QED BY <1>1, <3>1
  <2>2. CASE i # n
    <3>1. i + 1 \in 1..n /\ r[i + 1] = s[i + 1] BY <1>6, <2>0, <2>2
    <3>2. \/ next[s[i]] = s[i + 1]
          \/ next[s[i]] = Nil /\ \E u \in Threads : pc[u] = "link" /\ h[u] = s[i] /\ arg[u] = s[i + 1]
      BY <2>0, <2>2 DEF Links
    <3>3. \A u \in Threads : pc[u] = "link" => u # t BY <1>1
    <3> QED BY <1>1, <2>0, <3>1, <3>2, <3>3
  <2> QED BY <2>1, <2>2
<1>16. ASSUME NEW u \in Threads, pc'[u] = "link"
       PROVE  \E i \in 1..k : i # k /\ h'[u] = r[i] /\ arg'[u] = r[i + 1] /\ next'[r[i]] = Nil
  <2>1. CASE u = t
    <3>1. n \in 1..k /\ n # k /\ r[n] = s[n] /\ r[n + 1] = a BY <1>4, <1>6, <1>7, <1>14
    <3>2. next'[r[n]] = Nil BY <1>1, <1>14, <3>1
    <3> QED BY <1>1, <1>14, <2>1, <3>1, <3>2
  <2>2. CASE u # t
    <3>1. pc[u] = "link" /\ h'[u] = h[u] /\ arg'[u] = arg[u] BY <1>1, <1>16, <2>2
    <3>2. PICK i \in 1..n : i # n /\ h[u] = s[i] /\ arg[u] = s[i + 1] /\ next[s[i]] = Nil BY <3>1 DEF Links
    <3>3. i \in 1..k /\ i # k /\ i + 1 \in 1..n /\ r[i] = s[i] /\ r[i + 1] = s[i + 1] BY <1>6, <3>2
    <3>4. next'[r[i]] = Nil BY <1>1, <1>10, <3>2, <3>3
    <3> QED BY <3>1, <3>2, <3>3, <3>4
  <2> QED BY <2>1, <2>2
<1>17. Links(r, k)' BY <1>7, <1>11, <1>12, <1>13, <1>15, <1>16 DEF Links
<1>18. Extends(s, n, r, k, arg[t]) BY <1>0, <1>4, <1>6, <1>7 DEF Extends
<1> QED BY <1>9, <1>17, <1>18

(* The link closes the gap that the exchange has left. *)
LEMMA ChainLinked ==
    ASSUME Shape, PlaceInv, ArgInv, ChainInv, NEW t \in Threads, LinkedTo(t),
           NEW n \in Nat, NEW s \in [1..n -> Chunks], Links(s, n)
    PROVE  Links(s, n)'
<1>1. /\ pc[t] = "link" /\ pc'[t] = "idle" /\ head' = head /\ tail' = tail
      /\ \A c \in Chunks : next'[c] = IF c = h[t] THEN arg[t] ELSE next[c]
      /\ \A c \in Chunks : where'[c] = where[c]
      /\ \A u \in Threads : u # t => pc'[u] = pc[u] /\ h'[u] = h[u] /\ arg'[u] = arg[u]
  BY DEF LinkedTo, Ended, SameData, SameWhere, NextBut, Others
<1>2. PICK g \in 1..n : g # n /\ h[t] = s[g] /\ arg[t] = s[g + 1] BY <1>1 DEF Links
<1>3. \A i \in 1..n, j \in 1..n : s[i] = s[j] => i = j BY DEF Links
<1>4. \A i \in 1..n : next'[s[i]] = IF i = g THEN s[g + 1] ELSE next[s[i]] BY <1>1, <1>2, <1>3
<1>5. \A m \in Chunks : where'[m] = "linked" <=> \E i \in 1..n : s[i] = m BY <1>1 DEF Links
<1>6. n # 0 /\ head' = s[1] /\ tail' = s[n] /\ next'[s[n]] = Nil
  <2>1. n # 0 /\ n \in 1..n BY <1>2
  <2> QED BY <1>1, <1>2, <1>4, <2>1 DEF Links
<1>7. ASSUME NEW i \in 1..n, i # n
      PROVE  \/ next'[s[i]] = s[i + 1]
             \/ next'[s[i]] = Nil /\ \E u \in Threads : pc'[u] = "link" /\ h'[u] = s[i] /\ arg'[u] = s[i + 1]
  <2>1. CASE i = g BY <1>4, <2>1
  <2>2. CASE i # g
    <3>1. \/ next[s[i]] = s[i + 1]
          \/ next[s[i]] = Nil /\ \E u \in Threads : pc[u] = "link" /\ h[u] = s[i] /\ arg[u] = s[i + 1]
      BY <1>7 DEF Links
    <3>2. h[t] # s[i] BY <1>2, <1>3, <2>2
    <3> QED BY <1>1, <1>4, <2>2, <3>1, <3>2
  <2> QED BY <2>1, <2>2
<1>8. ASSUME NEW u \in Threads, pc'[u] = "link"
      PROVE  \E i \in 1..n : i # n /\ h'[u] = s[i] /\ arg'[u] = s[i + 1] /\ next'[s[i]] = Nil
  <2>1. u # t BY <1>1, <1>8
  <2>2. pc[u] = "link" /\ h'[u] = h[u] /\ arg'[u] = arg[u] BY <1>1, <1>8, <2>1
  <2>3. PICK i \in 1..n : i # n /\ h[u] = s[i] /\ arg[u] = s[i + 1] /\ next[s[i]] = Nil BY <2>2 DEF Links
  <2>4. h[u] # h[t] BY <1>1, <2>1, <2>2, ChainFacts
  <2>5. i # g BY <1>2, <2>3, <2>4
  <2>6. next'[s[i]] = Nil BY <1>4, <2>3, <2>5
  <2> QED BY <2>2, <2>3, <2>6
<1> QED BY <1>3, <1>5, <1>6, <1>7, <1>8 DEF Links

(* The swap of head adds a chunk in front. *)
LEMMA ChainPrepended ==
    ASSUME Shape, PlaceInv, ArgInv, NEW t \in Threads, Prepended(t),
           NEW n \in Nat, NEW s \in [1..n -> Chunks], Links(s, n)
    PROVE  \E k \in Nat : \E r \in [1..k -> Chunks] : Links(r, k)' /\ Precedes(s, n, r, k, arg[t])
<1>0. PICK a \in Chunks : a = arg[t] BY DEF Prepended, PlaceInv
<1>1. /\ pc[t] = "swap_head" /\ pc'[t] = "idle" /\ head' = a /\ tail' = tail /\ head = h[t]
      /\ \A c \in Chunks : next'[c] = IF c = a THEN head ELSE next[c]
      /\ \A c \in Chunks : where'[c] = IF c = a THEN "linked" ELSE where[c]
      /\ \A u \in Threads : u # t => pc'[u] = pc[u] /\ h'[u] = h[u] /\ arg'[u] = arg[u]
  BY <1>0 DEF Prepended, Ended, NextBut, Only, Others
<1>2. where[a] = "private" BY <1>0 DEF Prepended, ArgInv, Brings
<1>3. n # 0 BY <1>1 DEF PlaceInv, Links
<1>4. PICK k \in Nat : k = n + 1 OBVIOUS
<1>5. PICK r : r = [i \in 1..k |-> IF i = 1 THEN a ELSE s[i - 1]] OBVIOUS
<1>6. \A i \in 1..n : i + 1 \in 1..k /\ i + 1 # 1 /\ r[i + 1] = s[i]
  <2>1. ASSUME NEW i \in 1..n PROVE i + 1 \in 1..k /\ i + 1 # 1 /\ (i + 1) - 1 = i BY <1>4
  <2> QED BY <1>5, <2>1
<1>7. 1 \in 1..k /\ r[1] = a /\ k # 0 /\ r[k] = s[n] /\ k \in 1..k
  <2>1. n \in 1..n BY <1>3
  <2> QED BY <1>3, <1>4, <1>5, <1>6, <2>1
<1>8. \A i \in 1..k : i # 1 => i - 1 \in 1..n /\ r[i] = s[i - 1] BY <1>4, <1>5
<1>9. r \in [1..k -> Chunks] BY <1>5, <1>8
<1>10. \A i \in 1..n : s[i] \in Chunks /\ where[s[i]] = "linked" /\ s[i] # a BY <1>2 DEF Links
<1>11. ASSUME NEW i \in 1..k, NEW j \in 1..k, r[i] = r[j] PROVE i = j
  <2>1. \A b \in 1..n, c \in 1..n : s[b] = s[c] => b = c BY DEF Links
  <2>2. CASE i = 1 \/ j = 1 BY <1>7, <1>8, <1>10, <1>11, <2>2, ZenonT(60)
  <2>3. CASE i # 1 /\ j # 1
    <3>1. i - 1 = j - 1 BY <1>8, <1>11, <2>1, <2>3
    <3> QED BY <3>1
  <2> QED BY <2>2, <2>3
<1>12. ASSUME NEW m \in Chunks PROVE where'[m] = "linked" <=> \E i \in 1..k : r[i] = m
  <2>1. where[m] = "linked" <=> \E i \in 1..n : s[i] = m BY DEF Links
  <2>2. (\E i \in 1..k : r[i] = m) <=> m = a \/ \E i \in 1..n : s[i] = m
    <3>1. ASSUME NEW i \in 1..n, s[i] = m PROVE \E j \in 1..k : r[j] = m BY <1>6, <3>1
    <3>2. ASSUME NEW i \in 1..k, r[i] = m PROVE m = a \/ \E j \in 1..n : s[j] = m BY <1>7, <1>8, <3>2
    <3> QED BY <1>7, <3>1, <3>2
  <2> QED BY <1>1, <2>1, <2>2
<1>13. head' = r[1] /\ tail' = r[k] /\ next'[r[k]] = Nil
  <2>1. n \in 1..n BY <1>3
  <2>2. tail = s[n] /\ next[s[n]] = Nil BY <1>3 DEF Links
  <2> QED BY <1>1, <1>7, <1>10, <2>1, <2>2
<1>14. ASSUME NEW i \in 1..n PROVE next'[s[i]] = next[s[i]] BY <1>1, <1>10
<1>15. ASSUME NEW i \in 1..k, i # k
       PROVE  \/ next'[r[i]] = r[i + 1]
              \/ next'[r[i]] = Nil /\ \E u \in Threads : pc'[u] = "link" /\ h'[u] = r[i] /\ arg'[u] = r[i + 1]
  <2>1. CASE i = 1
    <3>1. 1 \in 1..n /\ head = s[1] BY <1>3 DEF Links
    <3>2. r[i + 1] = s[1] BY <1>6, <2>1, <3>1
    <3> QED BY <1>1, <1>7, <2>1, <3>1, <3>2
  <2>2. CASE i # 1
    <3>1. PICK j \in 1..n : j = i - 1 BY <1>8, <2>2
    <3>2. j # n /\ j + 1 = i /\ j + 1 \in 1..n BY <1>4, <1>15, <2>2, <3>1
    <3>3. r[i] = s[j] /\ r[i + 1] = s[j + 1] BY <1>6, <3>1, <3>2
    <3>4. \/ next[s[j]] = s[j + 1]
          \/ next[s[j]] = Nil /\ \E u \in Threads : pc[u] = "link" /\ h[u] = s[j] /\ arg[u] = s[j + 1]
      BY <3>2 DEF Links
    <3>5. \A u \in Threads : pc[u] = "link" => u # t BY <1>1
    <3> QED BY <1>1, <1>14, <3>3, <3>4, <3>5
  <2> QED BY <2>1, <2>2
<1>16. ASSUME NEW u \in Threads, pc'[u] = "link"
       PROVE  \E i \in 1..k : i # k /\ h'[u] = r[i] /\ arg'[u] = r[i + 1] /\ next'[r[i]] = Nil
  <2>1. u # t BY <1>1, <1>16
  <2>2. pc[u] = "link" /\ h'[u] = h[u] /\ arg'[u] = arg[u] BY <1>1, <1>16, <2>1
  <2>3. PICK j \in 1..n : j # n /\ h[u] = s[j] /\ arg[u] = s[j + 1] /\ next[s[j]] = Nil BY <2>2 DEF Links
  <2>4. PICK i \in 1..k : i = j + 1 BY <1>6
  <2>5. i # k /\ j + 1 \in 1..n BY <1>4, <2>3, <2>4
  <2>6. r[i] = s[j] /\ r[i + 1] = s[j + 1] BY <1>6, <2>4, <2>5
  <2> QED BY <1>14, <2>2, <2>3, <2>5, <2>6
<1>17. Links(r, k)' BY <1>7, <1>11, <1>12, <1>13, <1>15, <1>16 DEF Links
<1>18. Precedes(s, n, r, k, arg[t]) BY <1>0, <1>4, <1>6, <1>7 DEF Precedes
<1> QED BY <1>9, <1>17, <1>18

(* The swap of head and tail leaves one chunk. *)
LEMMA ChainReplaced ==
    ASSUME Shape, PlaceInv, ArgInv, EndInv, ChainInv, RankInv, SwapInv, NEW t \in Threads, Replaced(t)
    PROVE  \E r \in [1..1 -> Chunks] : Links(r, 1)' /\ r[1] = arg[t]
<1>0. PICK a \in Chunks : a = arg[t] BY DEF Replaced, PlaceInv
<1>1. /\ pc[t] = "swap" /\ head' = a /\ tail' = a /\ \A c \in Chunks : next'[c] = next[c]
      /\ pc'[t] \in {"idle", "free"} /\ \A u \in Threads : u # t => pc'[u] = pc[u]
  BY <1>0 DEF Replaced, Current, Ended, SameNext, Others
<1>2. where[a] = "private" /\ next[a] = Nil
  <2>1. Brings(t) /\ op[t] \in {"incr", "decr", "cas"} BY <1>1 DEF Replaced, Brings
  <2> QED BY <1>0, <1>1, <2>1 DEF ArgInv, EndInv
<1>3. \A m \in Chunks : where'[m] = "linked" <=> m = a BY <1>0, ReplacedWas
<1>4. \A u \in Threads : pc'[u] # "link" BY <1>1, ReplacedWas
<1>5. PICK r : r = [i \in 1..1 |-> a] OBVIOUS
<1>6. r \in [1..1 -> Chunks] /\ r[1] = a /\ \A i \in 1..1 : i = 1 BY <1>5
<1>7. Links(r, 1)' BY <1>1, <1>2, <1>3, <1>4, <1>6 DEF Links
<1> QED BY <1>0, <1>6, <1>7

(* One step leaves the chain alone, or puts a chunk at an end of it or in its place. *)
LEMMA ChainStep ==
    ASSUME Shape, Shape', PlaceInv, ArgInv, EndInv, ChainInv, RankInv, FreeInv, SwapInv, NEW t \in Threads, Kinds(t),
           NEW n \in Nat, NEW s \in [1..n -> Chunks], Links(s, n)
    PROVE  \/ Links(s, n)' /\ \A i \in 1..n : text'[s[i]] = text[s[i]]
           \/ \E k \in Nat : \E r \in [1..k -> Chunks] :
                  /\ Links(r, k)'
                  /\ \/ Exchanged(t) /\ Extends(s, n, r, k, arg[t])
                     \/ Prepended(t) /\ Precedes(s, n, r, k, arg[t])
                     \/ Replaced(t) /\ k = 1 /\ r[1] = arg[t]
<1>00. SUFFICES (\A i \in 1..n : text'[s[i]] = text[s[i]]) =>
           \/ Links(s, n)'
           \/ \E k \in Nat : \E r \in [1..k -> Chunks] :
                  /\ Links(r, k)'
                  /\ \/ Exchanged(t) /\ Extends(s, n, r, k, arg[t])
                     \/ Prepended(t) /\ Precedes(s, n, r, k, arg[t])
                     \/ Replaced(t) /\ k = 1 /\ r[1] = arg[t]
  <2>1. \A i \in 1..n : text'[s[i]] = text[s[i]] BY TextKept DEF Links
  <2> QED BY <2>1
<1> USE DEF Shape, Others, KeepsOp, KeepsStale, NoLonger, Ended, SameData, SameNext, SameWhere, Only, NextBut
<1>1. ASSUME NEW m \in Chunks, Begun(t, m) PROVE Links(s, n)'
  <2>1. head' = head /\ tail' = tail BY <1>1 DEF Begun
  <2>2. \A c \in Chunks : where'[c] = "linked" <=> where[c] = "linked" BY <1>1 DEF Begun, PlaceInv, ArgInv, Brings
  <2>3. \A c \in Chunks : where[c] = "linked" => next'[c] = next[c] BY <1>1 DEF Begun, PlaceInv, ArgInv, Brings
  <2>4. \A u \in Threads : pc'[u] = "link" <=> pc[u] = "link" BY <1>1 DEF Begun
  <2>5. \A u \in Threads : pc[u] = "link" => h'[u] = h[u] /\ arg'[u] = arg[u] BY <1>1 DEF Begun
  <2> QED BY <2>1, <2>2, <2>3, <2>4, <2>5, ChainFrame
<1>2. CASE Loaded(t)
  <2>1. head' = head /\ tail' = tail BY <1>2 DEF Loaded
  <2>2. \A c \in Chunks : where'[c] = "linked" <=> where[c] = "linked" BY <1>2 DEF Loaded, PlaceInv, ArgInv, Brings
  <2>3. \A c \in Chunks : where[c] = "linked" => next'[c] = next[c] BY <1>2 DEF Loaded, PlaceInv, ArgInv, Brings
  <2>4. \A u \in Threads : pc'[u] = "link" <=> pc[u] = "link" BY <1>2 DEF Loaded
  <2>5. \A u \in Threads : pc[u] = "link" => h'[u] = h[u] /\ arg'[u] = arg[u] BY <1>2 DEF Loaded
  <2> QED BY <2>1, <2>2, <2>3, <2>4, <2>5, ChainFrame
<1>3. CASE Exchanged(t)
  BY <1>3, ChainExchanged
<1>4. CASE LinkedTo(t)
  BY <1>4, ChainLinked
<1>5. CASE Prepended(t)
  BY <1>5, ChainPrepended
<1>6. CASE Reloaded(t)
  <2>1. head' = head /\ tail' = tail BY <1>6 DEF Reloaded
  <2>2. \A c \in Chunks : where'[c] = "linked" <=> where[c] = "linked" BY <1>6 DEF Reloaded, PlaceInv, ArgInv, Brings
  <2>3. \A c \in Chunks : where[c] = "linked" => next'[c] = next[c] BY <1>6 DEF Reloaded, PlaceInv, ArgInv, Brings
  <2>4. \A u \in Threads : pc'[u] = "link" <=> pc[u] = "link" BY <1>6 DEF Reloaded
  <2>5. \A u \in Threads : pc[u] = "link" => h'[u] = h[u] /\ arg'[u] = arg[u] BY <1>6 DEF Reloaded
  <2> QED BY <2>1, <2>2, <2>3, <2>4, <2>5, ChainFrame
<1>7. CASE WasRead(t)
  <2>1. head' = head /\ tail' = tail BY <1>7 DEF WasRead
  <2>2. \A c \in Chunks : where'[c] = "linked" <=> where[c] = "linked" BY <1>7 DEF WasRead, PlaceInv, ArgInv, Brings
  <2>3. \A c \in Chunks : where[c] = "linked" => next'[c] = next[c] BY <1>7 DEF WasRead, PlaceInv, ArgInv, Brings
  <2>4. \A u \in Threads : pc'[u] = "link" <=> pc[u] = "link" BY <1>7 DEF WasRead
  <2>5. \A u \in Threads : pc[u] = "link" => h'[u] = h[u] /\ arg'[u] = arg[u] BY <1>7 DEF WasRead
  <2> QED BY <2>1, <2>2, <2>3, <2>4, <2>5, ChainFrame
<1>8. CASE Threw(t)
  <2>1. head' = head /\ tail' = tail BY <1>8 DEF Threw
  <2>2. \A c \in Chunks : where'[c] = "linked" <=> where[c] = "linked" BY <1>8 DEF Threw, PlaceInv, ArgInv, Brings
  <2>3. \A c \in Chunks : where[c] = "linked" => next'[c] = next[c] BY <1>8 DEF Threw, PlaceInv, ArgInv, Brings
  <2>4. \A u \in Threads : pc'[u] = "link" <=> pc[u] = "link" BY <1>8 DEF Threw
  <2>5. \A u \in Threads : pc[u] = "link" => h'[u] = h[u] /\ arg'[u] = arg[u] BY <1>8 DEF Threw
  <2> QED BY <2>1, <2>2, <2>3, <2>4, <2>5, ChainFrame
<1>9. CASE Computed(t)
  <2>1. head' = head /\ tail' = tail BY <1>9 DEF Computed
  <2>2. \A c \in Chunks : where'[c] = "linked" <=> where[c] = "linked" BY <1>9 DEF Computed, PlaceInv, ArgInv, Brings
  <2>3. \A c \in Chunks : where[c] = "linked" => next'[c] = next[c] BY <1>9 DEF Computed, PlaceInv, ArgInv, Brings
  <2>4. \A u \in Threads : pc'[u] = "link" <=> pc[u] = "link" BY <1>9 DEF Computed
  <2>5. \A u \in Threads : pc[u] = "link" => h'[u] = h[u] /\ arg'[u] = arg[u] BY <1>9 DEF Computed
  <2> QED BY <2>1, <2>2, <2>3, <2>4, <2>5, ChainFrame
<1>10. CASE Retried(t)
  <2>1. head' = head /\ tail' = tail BY <1>10 DEF Retried
  <2>2. \A c \in Chunks : where'[c] = "linked" <=> where[c] = "linked" BY <1>10 DEF Retried, PlaceInv, ArgInv, Brings
  <2>3. \A c \in Chunks : where[c] = "linked" => next'[c] = next[c] BY <1>10 DEF Retried, PlaceInv, ArgInv, Brings
  <2>4. \A u \in Threads : pc'[u] = "link" <=> pc[u] = "link" BY <1>10 DEF Retried
  <2>5. \A u \in Threads : pc[u] = "link" => h'[u] = h[u] /\ arg'[u] = arg[u] BY <1>10 DEF Retried
  <2> QED BY <2>1, <2>2, <2>3, <2>4, <2>5, ChainFrame
<1>11. CASE Replaced(t)
  <2>1. PICK r \in [1..1 -> Chunks] : Links(r, 1)' /\ r[1] = arg[t] BY <1>11, ChainReplaced
  <2>2. 1 \in Nat OBVIOUS
  <2> QED BY <1>11, <2>1, <2>2
<1>12. CASE FreedBy(t)
  <2>0. PICK M \in SUBSET Chunks : Freed(M) /\ \A m \in M : where[m] = "replaced" BY <1>12, FreedWas
  <2>1. head' = head /\ tail' = tail /\ Others(t) /\ Ended(t) /\ pc[t] = "free" BY <1>12 DEF FreedBy
  <2>2. \A c \in Chunks : where'[c] = "linked" <=> where[c] = "linked" BY <2>0 DEF Freed
  <2>3. \A c \in Chunks : where[c] = "linked" => next'[c] = next[c] BY <2>0 DEF Freed
  <2>4. \A u \in Threads : pc'[u] = "link" <=> pc[u] = "link" BY <2>1
  <2>5. \A u \in Threads : pc[u] = "link" => h'[u] = h[u] /\ arg'[u] = arg[u] BY <2>1
  <2> QED BY <2>1, <2>2, <2>3, <2>4, <2>5, ChainFrame
<1>13. CASE Stopped
  BY <1>13, ChainFrame DEF Stopped
<1> QED BY <1>1, <1>2, <1>3, <1>4, <1>5, <1>6, <1>7, <1>8, <1>9, <1>10, <1>11, <1>12, <1>13 DEF Kinds

LEMMA ChainNext ==
    ASSUME Shape, Shape', PlaceInv, ArgInv, EndInv, ChainInv, RankInv, FreeInv, SwapInv, NEW t \in Threads, Kinds(t)
    PROVE  ChainInv'
<1>1. PICK n \in Nat : \E s \in [1..n -> Chunks] : Links(s, n) BY DEF ChainInv
<1>2. PICK s \in [1..n -> Chunks] : Links(s, n) BY <1>1
<1>3. \/ Links(s, n)'
      \/ \E k \in Nat : \E r \in [1..k -> Chunks] : Links(r, k)'
  BY <1>2, ChainStep
<1> QED BY <1>3 DEF ChainInv

-----------------------------------------------------------------------------
(* What has been replaced is freed by who has replaced it.                 *)

LEMMA OwnsFrame ==
    ASSUME NEW own, NEW mine, NEW u \in Threads, Owns(own, u), h'[u] = h[u], z'[u] = z[u],
           \A m \in Chunks : where[m] = "replaced" /\ own[m] = u =>
               where'[m] = "replaced" /\ next'[m] = next[m] /\ mine[m] = u
    PROVE  Owns(mine, u)'
<1>1. PICK n \in Nat : \E p \in [1..n -> Chunks] :
           /\ Path(next, p, n, h[u], Nil) /\ p[n] = z[u]
           /\ \A i \in 1..n : where[p[i]] = "replaced" /\ own[p[i]] = u
  BY DEF Owns
<1>2. PICK p \in [1..n -> Chunks] :
           /\ Path(next, p, n, h[u], Nil) /\ p[n] = z[u]
           /\ \A i \in 1..n : where[p[i]] = "replaced" /\ own[p[i]] = u
  BY <1>1
<1>3. \A i \in 1..n : where'[p[i]] = "replaced" /\ next'[p[i]] = next[p[i]] /\ mine[p[i]] = u BY <1>2
<1>4. Path(next', p, n, h'[u], Nil)
  <2>1. n # 0 /\ n \in 1..n BY <1>2 DEF Path
  <2> QED BY <1>2, <1>3, <2>1 DEF Path
<1>5. p[n] = z'[u] BY <1>2
<1> QED BY <1>3, <1>4, <1>5, SMTT(30) DEF Owns

LEMMA FreeNext ==
    ASSUME Shape, Shape', PlaceInv, ArgInv, ChainInv, RankInv, FreeInv, SwapInv, NEW t \in Threads, Kinds(t)
    PROVE  FreeInv'
<1> USE DEF Shape, Others, KeepsOp, KeepsStale, NoLonger, Ended, SameData, SameNext, SameWhere, Only, NextBut
<1>0. PICK own : \A u \in Threads : pc[u] = "free" => Owns(own, u) BY DEF FreeInv
<1>00. ASSUME \A c \in Chunks : where[c] = "replaced" => where'[c] = "replaced" /\ next'[c] = next[c],
              Others(t), pc'[t] # "free"
       PROVE  FreeInv'
  <2>1. ASSUME NEW u \in Threads, pc'[u] = "free" PROVE Owns(own, u)'
    <3>1. u # t BY <1>00, <2>1
    <3>2. pc[u] = "free" /\ h'[u] = h[u] /\ z'[u] = z[u] BY <1>00, <2>1, <3>1
    <3> QED BY <1>0, <1>00, <3>2, OwnsFrame
  <2> QED BY <2>1 DEF FreeInv
<1>1. ASSUME NEW m \in Chunks, Begun(t, m) PROVE FreeInv'
  <2>1. \A c \in Chunks : where[c] = "replaced" => where'[c] = "replaced" /\ next'[c] = next[c]
    BY <1>1 DEF Begun, PlaceInv, ArgInv, Brings
  <2>2. Others(t) /\ pc'[t] # "free" BY <1>1 DEF Begun
  <2> QED BY <1>00, <2>1, <2>2
<1>2. CASE Loaded(t)
  <2>1. \A c \in Chunks : where[c] = "replaced" => where'[c] = "replaced" /\ next'[c] = next[c]
    BY <1>2 DEF Loaded, PlaceInv, ArgInv, Brings
  <2>2. Others(t) /\ pc'[t] # "free" BY <1>2 DEF Loaded
  <2> QED BY <1>00, <2>1, <2>2
<1>3. CASE Exchanged(t)
  <2>1. \A c \in Chunks : where[c] = "replaced" => where'[c] = "replaced" /\ next'[c] = next[c]
    BY <1>3 DEF Exchanged, PlaceInv, ArgInv, Brings
  <2>2. Others(t) /\ pc'[t] # "free" BY <1>3 DEF Exchanged
  <2> QED BY <1>00, <2>1, <2>2
<1>4. CASE LinkedTo(t)
  <2>0. h[t] \in Chunks /\ where[h[t]] = "linked" BY <1>4, ChainFacts DEF LinkedTo
  <2>1. \A c \in Chunks : where[c] = "replaced" => where'[c] = "replaced" /\ next'[c] = next[c]
    BY <1>4, <2>0 DEF LinkedTo, PlaceInv, ArgInv, Brings
  <2>2. Others(t) /\ pc'[t] # "free" BY <1>4 DEF LinkedTo
  <2> QED BY <1>00, <2>1, <2>2
<1>5. CASE Prepended(t)
  <2>1. \A c \in Chunks : where[c] = "replaced" => where'[c] = "replaced" /\ next'[c] = next[c]
    BY <1>5 DEF Prepended, PlaceInv, ArgInv, Brings
  <2>2. Others(t) /\ pc'[t] # "free" BY <1>5 DEF Prepended
  <2> QED BY <1>00, <2>1, <2>2
<1>6. CASE Reloaded(t)
  <2>1. \A c \in Chunks : where[c] = "replaced" => where'[c] = "replaced" /\ next'[c] = next[c]
    BY <1>6 DEF Reloaded, PlaceInv, ArgInv, Brings
  <2>2. Others(t) /\ pc'[t] # "free" BY <1>6 DEF Reloaded
  <2> QED BY <1>00, <2>1, <2>2
<1>7. CASE WasRead(t)
  <2>1. \A c \in Chunks : where[c] = "replaced" => where'[c] = "replaced" /\ next'[c] = next[c]
    BY <1>7 DEF WasRead, PlaceInv, ArgInv, Brings
  <2>2. Others(t) /\ pc'[t] # "free" BY <1>7 DEF WasRead
  <2> QED BY <1>00, <2>1, <2>2
<1>8. CASE Threw(t)
  <2>1. \A c \in Chunks : where[c] = "replaced" => where'[c] = "replaced" /\ next'[c] = next[c]
    BY <1>8 DEF Threw, PlaceInv, ArgInv, Brings
  <2>2. Others(t) /\ pc'[t] # "free" BY <1>8 DEF Threw
  <2> QED BY <1>00, <2>1, <2>2
<1>9. CASE Computed(t)
  <2>1. \A c \in Chunks : where[c] = "replaced" => where'[c] = "replaced" /\ next'[c] = next[c]
    BY <1>9 DEF Computed, PlaceInv, ArgInv, Brings
  <2>2. Others(t) /\ pc'[t] # "free" BY <1>9 DEF Computed
  <2> QED BY <1>00, <2>1, <2>2
<1>10. CASE Retried(t)
  <2>1. \A c \in Chunks : where[c] = "replaced" => where'[c] = "replaced" /\ next'[c] = next[c]
    BY <1>10 DEF Retried, PlaceInv, ArgInv, Brings
  <2>2. Others(t) /\ pc'[t] # "free" BY <1>10 DEF Retried
  <2> QED BY <1>00, <2>1, <2>2
<1>11. CASE Replaced(t)
  <2>1. Others(t) /\ SameNext BY <1>11 DEF Replaced
  <2>2. PICK a \in Chunks : a = arg[t] /\ where[a] = "private"
    BY <1>11 DEF Replaced, Current, PlaceInv, ArgInv, Brings
  <2>3. /\ \A m \in Chunks : where'[m] = IF m = a THEN "linked"
                                       ELSE IF where[m] = "linked"
                                       THEN IF op[t] = "cas" THEN "leaked" ELSE "replaced"
                                       ELSE where[m]
        /\ \A u \in Threads : pc[u] # "link"
    BY <1>11, <2>2, ReplacedWas
  <2>4. PICK mine : mine = [m \in Chunks |-> IF where[m] = "linked" THEN t ELSE own[m]] OBVIOUS
  <2>5. ASSUME NEW u \in Threads, pc'[u] = "free", u # t PROVE Owns(mine, u)'
    <3>1. pc[u] = "free" /\ h'[u] = h[u] /\ z'[u] = z[u] BY <2>1, <2>5
    <3>2. \A m \in Chunks : where[m] = "replaced" /\ own[m] = u =>
             where'[m] = "replaced" /\ next'[m] = next[m] /\ mine[m] = u
      BY <2>1, <2>2, <2>3, <2>4
    <3> QED BY <1>0, <3>1, <3>2, OwnsFrame
  <2>6. ASSUME pc'[t] = "free" PROVE Owns(mine, t)'
    <3>1. op[t] # "cas" /\ h'[t] = h[t] /\ z'[t] = z[t] /\ head = h[t] /\ tail = z[t] /\ h[t] \in Chunks
      BY <1>11, <2>6 DEF Replaced, Current, PlaceInv
    <3>2. PICK n \in Nat : \E s \in [1..n -> Chunks] : Links(s, n) BY DEF ChainInv
    <3>3. PICK s \in [1..n -> Chunks] : Links(s, n) BY <3>2
    <3>4. n # 0 /\ n \in 1..n BY <3>1, <3>3, NilAssumption DEF Links
    <3>5. \A i \in 1..n : s[i] \in Chunks /\ s[i] # Nil /\ where[s[i]] = "linked" BY <3>3, NilAssumption DEF Links
    <3>6. \A i \in 1..n : where'[s[i]] = "replaced" /\ mine[s[i]] = t BY <2>2, <2>3, <2>4, <3>1, <3>5
    <3>7. \A i \in 1..n : i # n => next'[s[i]] = s[i + 1] BY <2>1, <2>3, <3>3, <3>5 DEF Links
    <3>8. s[1] = h[t] /\ s[n] = z[t] /\ next'[s[n]] = Nil BY <2>1, <3>1, <3>3, <3>4, <3>5 DEF Links
    <3>9. Path(next', s, n, h'[t], Nil) BY <3>1, <3>4, <3>5, <3>7, <3>8 DEF Path
    <3> QED BY <3>1, <3>6, <3>8, <3>9 DEF Owns
  <2> QED BY <2>5, <2>6 DEF FreeInv
<1>12. CASE FreedBy(t)
  <2>1. Others(t) /\ pc'[t] = "idle" /\ pc[t] = "free" /\ h[t] \in Chunks BY <1>12 DEF FreedBy, PlaceInv
  <2>2. PICK M : M = ToSet(Walk(next, h[t], Nil)) OBVIOUS
  <2>3. \A m \in M : own[m] = t BY <1>0, <2>1, <2>2, FreeWalk
  <2>4. Freed(M) BY <1>12, <2>2 DEF FreedBy
  <2>5. ASSUME NEW u \in Threads, pc'[u] = "free" PROVE Owns(own, u)'
    <3>1. u # t BY <2>1, <2>5
    <3>2. pc[u] = "free" /\ h'[u] = h[u] /\ z'[u] = z[u] BY <2>1, <2>5, <3>1
    <3>3. \A m \in Chunks : where[m] = "replaced" /\ own[m] = u =>
             where'[m] = "replaced" /\ next'[m] = next[m] /\ own[m] = u
      BY <2>3, <2>4, <3>1 DEF Freed
    <3> QED BY <1>0, <3>2, <3>3, OwnsFrame
  <2> QED BY <2>5 DEF FreeInv
<1>13. CASE Stopped
  <2>1. ASSUME NEW u \in Threads, pc'[u] = "free" PROVE Owns(own, u)'
    <3>1. pc[u] = "free" BY <1>13, <2>1 DEF Stopped
    <3> QED BY <1>0, <1>13, <3>1, OwnsFrame DEF Stopped
  <2> QED BY <2>1 DEF FreeInv
<1> QED BY <1>1, <1>2, <1>3, <1>4, <1>5, <1>6, <1>7, <1>8, <1>9, <1>10, <1>11, <1>12, <1>13 DEF Kinds

-----------------------------------------------------------------------------
(* What is swapped has been read as a whole.                               *)

(* A walk from head that arrives at tail has met the whole value. *)
LEMMA Arrives ==
    ASSUME Shape, PlaceInv, ArgInv, ChainInv, RankInv, head # Nil, Connected(head, tail)
    PROVE  (\A u \in Threads : pc[u] # "link") /\ Walk(next, head, tail) = Chain
<1>1. PICK n \in Nat : \E s \in [1..n -> Chunks] : Links(s, n) BY DEF ChainInv
<1>2. PICK s \in [1..n -> Chunks] : Links(s, n) BY <1>1
<1>3. n # 0 /\ n \in 1..n /\ head = s[1] /\ tail = s[n] BY <1>2 DEF Links
<1>4. \A i \in 1..n, j \in 1..n : s[i] = s[j] => i = j BY <1>2 DEF Links
<1> DEFINE K == {k \in 1..n : k = n \/ next[s[k]] = Nil}
<1>5. K \subseteq Nat /\ K # {} BY <1>3
<1>6. PICK k \in K : \A j \in K : k <= j BY <1>5, Least
<1>7. k \in 1..n /\ (k = n \/ next[s[k]] = Nil) OBVIOUS
<1>8. ASSUME NEW i \in 1..k, i # k PROVE s[i] # tail /\ next[s[i]] = s[i + 1]
  <2>1. i \in 1..n /\ ~(k <= i) /\ i # n BY <1>7, <1>8
  <2>2. i \notin K BY <1>6, <2>1
  <2>3. next[s[i]] # Nil BY <2>1, <2>2
  <2>4. next[s[i]] = s[i + 1] \/ next[s[i]] = Nil BY <1>2, <2>1 DEF Links
  <2> QED BY <1>3, <1>4, <2>1, <2>3, <2>4
<1>9. PICK p : p = [i \in 1..k |-> s[i]] OBVIOUS
<1>10. k \in Nat /\ k # 0 /\ 1 \in 1..k /\ k \in 1..k /\ \A i \in 1..k : i \in 1..n BY <1>7
<1>11. p \in [1..k -> Chunks] /\ \A i \in 1..k : p[i] = s[i] BY <1>9, <1>10
<1>12. \A i \in 1..k : i # k => i + 1 \in 1..k BY <1>10
<1>13. Path(next, p, k, head, tail)
  <2>1. \A i \in 1..k : i # k => p[i] # tail /\ next[p[i]] = p[i + 1] BY <1>8, <1>11, <1>12
  <2>2. p[k] = tail \/ next[p[k]] = Nil BY <1>3, <1>7, <1>10, <1>11
  <2> QED BY <1>3, <1>10, <1>11, <2>1, <2>2 DEF Path
<1>14. PICK rank : Down(next, rank)
  <2>1. PICK rank \in [Chunks -> Nat] : Ranked(rank) BY DEF RankInv
  <2>2. Down(next, rank) BY <2>1 DEF Down, Ranked, Shape
  <2> QED BY <2>2
<1>15. Walk(next, head, tail) = p
  <2>1. head \in Chunks BY DEF Shape
  <2> QED BY <1>10, <1>11, <1>13, <1>14, <2>1, WalkIs
<1>16. k = n
  <2>1. Contains(p, tail) BY <1>15 DEF Connected
  <2>2. Len(p) = k BY <1>10, <1>11, FunSeq
  <2>3. PICK i \in 1..k : p[i] = tail BY <2>1, <2>2 DEF Contains
  <2>4. i = n BY <1>3, <1>4, <1>10, <1>11, <2>3
  <2> QED BY <1>7, <2>3, <2>4
<1>17. ASSUME NEW u \in Threads, pc[u] = "link" PROVE FALSE
  <2>1. PICK i \in 1..n : i # n /\ next[s[i]] = Nil BY <1>2, <1>17 DEF Links
  <2>2. i \in K /\ ~(k <= i) BY <1>16, <2>1
  <2> QED BY <1>6, <2>2
<1>18. Chain = s BY <1>2, <1>17, ChainIs
<1>19. p = s BY <1>11, <1>16
<1> QED BY <1>15, <1>17, <1>18, <1>19

(* A step that does not touch the value leaves what it has. *)
LEMMA ContentSame ==
    ASSUME Shape, Shape', ChainInv, RankInv, RankInv', \A u \in Threads : pc[u] # "link", head' = head,
           \A m \in Chunks : where[m] = "linked" => next'[m] = next[m] /\ text'[m] = text[m]
    PROVE  Content(Chain)' = Content(Chain)
<1>1. PICK n \in Nat : \E s \in [1..n -> Chunks] : Links(s, n) BY DEF ChainInv
<1>2. PICK s \in [1..n -> Chunks] : Links(s, n) BY <1>1
<1>3. Chain = s BY <1>2, ChainIs
<1>4. PICK rank : Down(next', rank)
  <2>1. PICK rank \in [Chunks -> Nat] : Ranked(rank)' BY DEF RankInv
  <2>2. Down(next', rank) BY <2>1 DEF Down, Ranked, Shape
  <2> QED BY <2>2
<1>5. \A i \in 1..n : where[s[i]] = "linked" /\ next'[s[i]] = next[s[i]] /\ text'[s[i]] = text[s[i]]
  BY <1>2 DEF Links
<1>6. Walk(next', head', Nil) = s
  <2>1. CASE n = 0
    <3>1. head' = Nil BY <1>2, <2>1 DEF Links
    <3>2. Walk(next', Nil, Nil) = <<>> BY <1>4, WalkType
    <3>3. s \in Seq(Chunks) /\ Len(s) = 0 BY <2>1, FunSeq
    <3> QED BY <3>1, <3>2, <3>3, EmptySeq
  <2>2. CASE n # 0
    <3>1. n \in 1..n /\ head' = s[1] /\ next[s[n]] = Nil BY <1>2, <2>2 DEF Links
    <3>2. \A i \in 1..n : i # n => next'[s[i]] = s[i + 1] BY <1>2, <1>5 DEF Links
    <3>3. next'[s[n]] = Nil BY <1>5, <3>1
    <3> QED BY <1>4, <2>2, <3>1, <3>2, <3>3, ChainSeq
  <2> QED BY <2>1, <2>2
<1>7. Chain' = s BY <1>6 DEF Chain
<1>8. DOMAIN s = 1..n OBVIOUS
<1>9. Content(Chain)' = [i \in 1..n |-> text'[s[i]]] BY <1>7, <1>8 DEF Content
<1>10. Content(Chain) = [i \in 1..n |-> text[s[i]]] BY <1>3, <1>8 DEF Content
<1> QED BY <1>5, <1>9, <1>10

(* The others that have read the value as a whole. *)
LEMMA SwapFrame ==
    ASSUME Shape, Shape', ChainInv, RankInv, RankInv', SwapInv, NEW t \in Threads, Others(t),
           NEW u \in Threads, u # t, Current(u)', u \notin stale, head' = head, tail' = tail, pc'[t] # "link",
           \A m \in Chunks : where[m] = "linked" => next'[m] = next[m] /\ text'[m] = text[m]
    PROVE  /\ \A v \in Threads : pc'[v] # "link"
           /\ op'[u] = "cas" => Content(Chain)' = token'[u]
<1>1. Current(u) /\ op'[u] = op[u] /\ token'[u] = token[u] BY DEF Current, Others
<1>2. \A v \in Threads : pc[v] # "link" BY <1>1 DEF SwapInv
<1>3. Content(Chain)' = Content(Chain) BY <1>2, ContentSame
<1>4. op[u] = "cas" => Content(Chain) = token[u] BY <1>1 DEF SwapInv
<1> QED BY <1>1, <1>2, <1>3, <1>4 DEF Others

(* What has been loaded is not the chunk another thread brings. *)
LEMMA NotBrought ==
    ASSUME Shape, PlaceInv, ArgInv, UseInv, NEW t \in Threads, Brings(t), pc[t] # "link",
           NEW u \in Threads, pc[u] = "swap", u \notin stale
    PROVE  h[u] # arg[t] /\ z[u] # arg[t]
<1>1. where[arg[t]] = "private" BY DEF ArgInv
<1>2. h[u] \in Chunks /\ z[u] \in Chunks
  <2>1. op[u] # "read" BY DEF PlaceInv
  <2> QED BY <2>1 DEF PlaceInv
<1>3. InUse(h[u]) /\ InUse(z[u]) BY <1>2 DEF UseInv
<1> QED BY <1>1, <1>3 DEF InUse

LEMMA SwapNext ==
    ASSUME Shape, Shape', PlaceInv, ArgInv, UseInv, ChainInv, RankInv, RankInv', FreeInv, SwapInv, NEW t \in Threads, Kinds(t)
    PROVE  SwapInv'
<1> USE DEF Shape, Others, KeepsOp, KeepsStale, NoLonger, Ended, SameData, SameNext, SameWhere, Only, NextBut, SameText
<1>0. ASSUME Others(t), head' = head, tail' = tail, pc'[t] # "link", pc'[t] # "swap",
             \A u \in Threads : u # t => (u \in stale' <=> u \in stale),
             \A c \in Chunks : where[c] = "linked" => next'[c] = next[c] /\ text'[c] = text[c]
      PROVE  SwapInv'
  <2> HIDE DEF Shape, Others
  <2>1. ASSUME NEW u \in Threads, Current(u)'
        PROVE  /\ \A v \in Threads : pc'[v] # "link"
               /\ op'[u] = "cas" => Content(Chain)' = token'[u]
    <3>1. u # t /\ u \notin stale BY <1>0, <2>1 DEF Current
    <3> QED BY <1>0, <2>1, <3>1, SwapFrame
  <2> QED BY <2>1 DEF SwapInv
<1>1. ASSUME NEW m \in Chunks, Begun(t, m) PROVE SwapInv'
  <2>1. Others(t) /\ head' = head /\ tail' = tail BY <1>1 DEF Begun, TextBut
  <2>2. pc'[t] # "link" /\ pc'[t] # "swap" BY <1>1 DEF Begun, TextBut
  <2>3. \A u \in Threads : u # t => (u \in stale' <=> u \in stale) BY <1>1 DEF Begun, TextBut
  <2>4. \A c \in Chunks : where[c] = "linked" => next'[c] = next[c] /\ text'[c] = text[c]
    BY <1>1 DEF Begun, TextBut, PlaceInv, ArgInv, Brings
  <2> QED BY <1>0, <2>1, <2>2, <2>3, <2>4
<1>2. CASE Loaded(t)
  <2>1. Others(t) /\ head' = head /\ tail' = tail BY <1>2 DEF Loaded
  <2>2. pc'[t] # "link" /\ pc'[t] # "swap" BY <1>2 DEF Loaded
  <2>3. \A u \in Threads : u # t => (u \in stale' <=> u \in stale) BY <1>2 DEF Loaded
  <2>4. \A c \in Chunks : where[c] = "linked" => next'[c] = next[c] /\ text'[c] = text[c]
    BY <1>2 DEF Loaded, PlaceInv, ArgInv, Brings
  <2> QED BY <1>0, <2>1, <2>2, <2>3, <2>4
<1>3. CASE Exchanged(t)
  <2>1. ASSUME NEW u \in Threads, Current(u)' PROVE FALSE
    <3>1. u # t BY <1>3, <2>1 DEF Exchanged, Current
    <3>2. pc[u] = "swap" /\ u \notin stale /\ h'[u] = h[u] /\ z'[u] = z[u] BY <1>3, <2>1, <3>1 DEF Exchanged, Current
    <3>3. Brings(t) /\ pc[t] # "link" BY <1>3 DEF Exchanged, Brings, Current
    <3>4. h[u] # arg[t] /\ z[u] # arg[t] BY <3>2, <3>3, NotBrought
    <3> QED BY <1>3, <2>1, <3>2, <3>4 DEF Exchanged, Current
  <2> QED BY <2>1 DEF SwapInv
<1>4. CASE LinkedTo(t)
  <2>1. ASSUME NEW u \in Threads, Current(u)' PROVE FALSE
    <3>1. u # t BY <1>4, <2>1 DEF LinkedTo, Current
    <3>2. Current(u) BY <1>4, <2>1, <3>1 DEF LinkedTo, Current
    <3> QED BY <1>4, <3>2 DEF LinkedTo, SwapInv
  <2> QED BY <2>1 DEF SwapInv
<1>5. CASE Prepended(t)
  <2>1. ASSUME NEW u \in Threads, Current(u)' PROVE FALSE
    <3>1. u # t BY <1>5, <2>1 DEF Prepended, Current
    <3>2. pc[u] = "swap" /\ u \notin stale /\ h'[u] = h[u] /\ z'[u] = z[u] BY <1>5, <2>1, <3>1 DEF Prepended, Current
    <3>3. Brings(t) /\ pc[t] # "link" BY <1>5 DEF Prepended, Brings, Current
    <3>4. h[u] # arg[t] /\ z[u] # arg[t] BY <3>2, <3>3, NotBrought
    <3> QED BY <1>5, <2>1, <3>2, <3>4 DEF Prepended, Current
  <2> QED BY <2>1 DEF SwapInv
<1>6. CASE Reloaded(t)
  <2>1. Others(t) /\ head' = head /\ tail' = tail BY <1>6 DEF Reloaded
  <2>2. pc'[t] # "link" /\ pc'[t] # "swap" BY <1>6 DEF Reloaded
  <2>3. \A u \in Threads : u # t => (u \in stale' <=> u \in stale) BY <1>6 DEF Reloaded
  <2>4. \A c \in Chunks : where[c] = "linked" => next'[c] = next[c] /\ text'[c] = text[c]
    BY <1>6 DEF Reloaded, PlaceInv, ArgInv, Brings
  <2> QED BY <1>0, <2>1, <2>2, <2>3, <2>4
<1>7. CASE WasRead(t)
  <2>1. Others(t) /\ head' = head /\ tail' = tail BY <1>7 DEF WasRead
  <2>2. pc'[t] # "link" /\ pc'[t] # "swap" BY <1>7 DEF WasRead
  <2>3. \A u \in Threads : u # t => (u \in stale' <=> u \in stale) BY <1>7 DEF WasRead
  <2>4. \A c \in Chunks : where[c] = "linked" => next'[c] = next[c] /\ text'[c] = text[c]
    BY <1>7 DEF WasRead, PlaceInv, ArgInv, Brings
  <2> QED BY <1>0, <2>1, <2>2, <2>3, <2>4
<1>8. CASE Threw(t)
  <2>1. Others(t) /\ head' = head /\ tail' = tail BY <1>8 DEF Threw
  <2>2. pc'[t] # "link" /\ pc'[t] # "swap" BY <1>8 DEF Threw
  <2>3. \A u \in Threads : u # t => (u \in stale' <=> u \in stale) BY <1>8 DEF Threw
  <2>4. \A c \in Chunks : where[c] = "linked" => next'[c] = next[c] /\ text'[c] = text[c]
    BY <1>8 DEF Threw, PlaceInv, ArgInv, Brings
  <2> QED BY <1>0, <2>1, <2>2, <2>3, <2>4
<1>9. CASE Computed(t)
  <2>1. Others(t) /\ head' = head /\ tail' = tail /\ pc'[t] = "swap" BY <1>9 DEF Computed
  <2>2. stale' = stale BY <1>9 DEF Computed
  <2>3. \A c \in Chunks : where[c] = "linked" => next'[c] = next[c] /\ text'[c] = text[c]
    BY <1>9 DEF Computed, TextBut, PlaceInv, ArgInv, Brings
  <2>4. ASSUME NEW u \in Threads, Current(u)', u # t
        PROVE  /\ \A v \in Threads : pc'[v] # "link"
               /\ op'[u] = "cas" => Content(Chain)' = token'[u]
    <3>1. u \notin stale BY <2>2, <2>4 DEF Current
    <3> QED BY <2>1, <2>3, <2>4, <3>1, SwapFrame
  <2>5. ASSUME Current(t)'
        PROVE  /\ \A v \in Threads : pc'[v] # "link"
               /\ op'[t] = "cas" => Content(Chain)' = token'[t]
    <3>1. /\ t \notin stale /\ head = h[t] /\ tail = z[t] /\ op[t] # "read" /\ Reading(t) # {}
          /\ op'[t] = op[t] /\ token'[t] = token[t]
      BY <1>9, <2>2, <2>5 DEF Computed, Current
    <3>2. Connected(head, tail) /\ Reading(t) = {Content(Walk(next, head, tail))} BY <3>1 DEF Reading
    <3>3. head # Nil BY <1>9 DEF Computed, PlaceInv
    <3>4. (\A v \in Threads : pc[v] # "link") /\ Walk(next, head, tail) = Chain BY <3>2, <3>3, Arrives
    <3>5. op[t] = "cas" => token[t] = Content(Chain)
      <4>1. op[t] = "cas" => token[t] \in Reading(t) BY <1>9 DEF Computed
      <4> QED BY <3>2, <3>4, <4>1
    <3>6. Content(Chain)' = Content(Chain) BY <2>1, <2>3, <3>4, ContentSame
    <3>7. \A v \in Threads : pc'[v] # "link" BY <2>1, <3>4
    <3> QED BY <3>1, <3>5, <3>6, <3>7
  <2> QED BY <2>4, <2>5 DEF SwapInv
<1>10. CASE Retried(t)
  <2>1. Others(t) /\ head' = head /\ tail' = tail BY <1>10 DEF Retried
  <2>2. pc'[t] # "link" /\ pc'[t] # "swap" BY <1>10 DEF Retried
  <2>3. \A u \in Threads : u # t => (u \in stale' <=> u \in stale) BY <1>10 DEF Retried
  <2>4. \A c \in Chunks : where[c] = "linked" => next'[c] = next[c] /\ text'[c] = text[c]
    BY <1>10 DEF Retried, PlaceInv, ArgInv, Brings
  <2> QED BY <1>0, <2>1, <2>2, <2>3, <2>4
<1>11. CASE Replaced(t)
  <2>1. ASSUME NEW u \in Threads, Current(u)' PROVE FALSE
    <3>1. u # t BY <1>11, <2>1 DEF Replaced, Current
    <3>2. pc[u] = "swap" /\ u \notin stale /\ h'[u] = h[u] /\ z'[u] = z[u] BY <1>11, <2>1, <3>1 DEF Replaced, Current
    <3>3. Brings(t) /\ pc[t] # "link" BY <1>11 DEF Replaced, Brings, Current
    <3>4. h[u] # arg[t] /\ z[u] # arg[t] BY <3>2, <3>3, NotBrought
    <3> QED BY <1>11, <2>1, <3>2, <3>4 DEF Replaced, Current
  <2> QED BY <2>1 DEF SwapInv
<1>12. CASE FreedBy(t)
  <2>0. PICK M \in SUBSET Chunks : Freed(M) /\ \A m \in M : where[m] = "replaced" BY <1>12, FreedWas
  <2>1. Others(t) /\ head' = head /\ tail' = tail /\ pc'[t] = "idle" BY <1>12 DEF FreedBy
  <2>2. \A u \in Threads : u \notin stale' => u \notin stale BY <2>0 DEF Freed
  <2>3. \A c \in Chunks : where[c] = "linked" => next'[c] = next[c] /\ text'[c] = text[c]
    BY <2>0 DEF Freed
  <2>4. ASSUME NEW u \in Threads, Current(u)'
        PROVE  /\ \A v \in Threads : pc'[v] # "link"
               /\ op'[u] = "cas" => Content(Chain)' = token'[u]
    <3>1. u # t /\ u \notin stale BY <2>1, <2>2, <2>4 DEF Current
    <3> QED BY <2>1, <2>3, <2>4, <3>1, SwapFrame
  <2> QED BY <2>4 DEF SwapInv
<1>13. CASE Stopped
  <2>1. Chain' = Chain BY <1>13 DEF Stopped, Chain, Walk
  <2>2. \A u \in Threads : Current(u)' => Current(u) BY <1>13 DEF Stopped, Current
  <2>3. Content(Chain)' = Content(Chain) BY <1>13, <2>1 DEF Stopped, Content
  <2> QED BY <1>13, <2>2, <2>3 DEF Stopped, SwapInv
<1> QED BY <1>1, <1>2, <1>3, <1>4, <1>5, <1>6, <1>7, <1>8, <1>9, <1>10, <1>11, <1>12, <1>13 DEF Kinds

-----------------------------------------------------------------------------
(* The invariant holds.                                                    *)

LEMMA DestroyNext ==
    ASSUME EntryInv, Shape, Shape', Destroyed
    PROVE  PlaceInv' /\ ArgInv' /\ EndInv' /\ UseInv' /\ ChainInv' /\ RankInv' /\ FreeInv' /\ SwapInv'
<1> DEFINE M == {m \in Chunks : where[m] = "linked"}
<1>1. Freed(M) BY DestroyedWas DEF EntryInv
<1>2. /\ \A c \in Chunks : /\ where'[c] = IF c \in M THEN "fresh" ELSE where[c]
                           /\ next'[c] = IF c \in M THEN Nil ELSE next[c]
      /\ stale' = stale \cup {u \in Threads : pc[u] # "free" /\ {h[u], z[u]} \cap M # {}}
  BY <1>1 DEF Freed
<1>3. \A u \in Threads :
          /\ pc'[u] = "idle" /\ pc[u] = "idle" /\ op'[u] = op[u] /\ arg'[u] = arg[u]
          /\ h'[u] = h[u] /\ z'[u] = z[u]
  BY DEF Destroyed
<1>4. \A u \in Threads : op[u] = "read" /\ h[u] = Nil /\ z[u] = Nil BY <1>3 DEF EntryInv, PlaceInv
<1>5. PlaceInv'
  <2>1. PlaceInv BY DEF EntryInv
  <2> QED BY <1>3, <1>4, <2>1 DEF PlaceInv
<1>6. ArgInv' BY <1>3, <1>4 DEF ArgInv, Brings
<1>7. EndInv'
  <2>1. EndInv BY DEF EntryInv
  <2> QED BY <1>2, <1>3, <1>4, <2>1 DEF EndInv, Brings
<1>8. stale' = {}
  <2>1. \A u \in stale : FALSE BY <1>3 DEF EntryInv, UseInv, Shape
  <2>2. \A u \in Threads : {h[u], z[u]} \cap M = {} BY <1>4, NilAssumption
  <2> QED BY <1>2, <2>1, <2>2
<1>9. UseInv' BY <1>3, <1>4, <1>8, NilAssumption DEF UseInv
<1>10. ChainInv'
  <2>1. PICK s : s = [i \in 1..0 |-> First] OBVIOUS
  <2>2. s \in [1..0 -> Chunks] /\ \A i \in 1..0 : FALSE BY <2>1
  <2>3. head' = Nil /\ tail' = Nil BY DEF Destroyed
  <2>4. \A m \in Chunks : where'[m] # "linked" BY <1>2
  <2>5. Links(s, 0)' BY <1>3, <2>2, <2>3, <2>4 DEF Links
  <2>6. 0 \in Nat OBVIOUS
  <2> QED BY <2>2, <2>5, <2>6 DEF ChainInv
<1>11. RankInv'
  <2>1. PICK rank \in [Chunks -> Nat] : Ranked(rank) BY DEF EntryInv, RankInv
  <2>2. Ranked(rank)' BY <1>2, <1>3, <2>1 DEF Ranked
  <2> QED BY <2>2 DEF RankInv
<1>12. FreeInv' BY <1>3 DEF FreeInv
<1>13. SwapInv' BY <1>3 DEF SwapInv, Current
<1> QED BY <1>5, <1>6, <1>7, <1>9, <1>10, <1>11, <1>12, <1>13

LEMMA EntryInit ==
    ASSUME Init
    PROVE  EntryInv
<1> USE NilAssumption
<1>1. TypeOK
  <2>1. <<>> \in Seq(Chars) /\ <<>> \in Seq(Seq(Chars)) OBVIOUS
  <2>2. PICK x \in Texts : text = [m \in Chunks |-> IF m = First THEN x ELSE <<>>] BY DEF Init
  <2>3. text \in [Chunks -> Seq(Chars)] BY <2>1, <2>2, TextsAssumption
  <2>4. token \in [Threads -> Seq(Seq(Chars))] BY <2>1 DEF Init
  <2> QED BY <2>3, <2>4 DEF Init, TypeOK, Places, Ops
<1>2. \A u \in Threads : pc[u] = "idle" /\ op[u] = "read" /\ arg[u] = Nil /\ h[u] = Nil /\ z[u] = Nil
  BY DEF Init
<1>3. PlaceInv BY <1>2 DEF PlaceInv
<1>4. ArgInv BY <1>2 DEF ArgInv, Brings
<1>5. EndInv BY <1>2 DEF Init, EndInv, Brings
<1>6. UseInv BY <1>2 DEF Init, UseInv
<1>7. ChainInv
  <2>1. PICK s : s = [i \in 1..1 |-> First] OBVIOUS
  <2>2. s \in [1..1 -> Chunks] /\ s[1] = First /\ \A i \in 1..1 : i = 1 BY <2>1
  <2>3. Links(s, 1) BY <1>2, <2>2 DEF Links, Init
  <2>4. 1 \in Nat OBVIOUS
  <2> QED BY <2>2, <2>3, <2>4 DEF ChainInv
<1>8. RankInv
  <2>1. PICK rank : rank = [m \in Chunks |-> 0] OBVIOUS
  <2>2. rank \in [Chunks -> Nat] /\ Ranked(rank) BY <1>2, <2>1 DEF Ranked, Init
  <2> QED BY <2>2 DEF RankInv
<1>9. FreeInv BY <1>2 DEF FreeInv
<1>10. SwapInv BY <1>2 DEF SwapInv, Current
<1> QED BY <1>1, <1>3, <1>4, <1>5, <1>6, <1>7, <1>8, <1>9, <1>10 DEF EntryInv

LEMMA TypeNext ==
    ASSUME TypeOK, RankInv, [Next]_vars
    PROVE  TypeOK'
<1>1. CASE UNCHANGED vars BY <1>1 DEF vars, dataVars, memVars, localVars, TypeOK
<1>2. CASE destroy
  <2>1. CASE Threads # {}
    <3>1. PICK t \in Threads : TRUE BY <2>1
    <3> QED BY <1>2, <3>1, TypeSwaps
  <2>2. CASE Threads = {}
    <3>1. Freed(ToSet(Chain)) /\ head' = Nil /\ tail' = Nil BY <1>2, FreeKind DEF Destroyed
    <3>2. mem_free(ToSet(Chain)) /\ UNCHANGED <<pc, op, arg, h, z, token, fault>> BY <1>2 DEF destroy
    <3>3. <<>> \in Seq(Chars) OBVIOUS
    <3>4. text' \in [Chunks -> Seq(Chars)] BY <3>2, <3>3 DEF mem_free, TypeOK
    <3>5. next' \in [Chunks -> Chunks \cup {Nil}] BY <3>2 DEF mem_free, TypeOK
    <3>6. where' \in [Chunks -> {"fresh", "private", "linked", "replaced", "leaked"}]
      BY <3>2 DEF mem_free, Become, TypeOK
    <3>7. stale' \in SUBSET Threads BY <3>2 DEF mem_free, TypeOK
    <3> QED BY <3>1, <3>2, <3>4, <3>5, <3>6, <3>7 DEF TypeOK
  <2> QED BY <2>1, <2>2
<1>3. ASSUME NEW t \in Threads, Step(t) PROVE TypeOK'
  <2>1. CASE cmpxchg128(t) \/ free(t) BY <2>1, TypeSwaps
  <2>2. CASE read(t) \/ incrdecr(t) \/ cas(t) BY <2>2, TypeWalks
  <2>3. CASE ~(cmpxchg128(t) \/ free(t) \/ read(t) \/ incrdecr(t) \/ cas(t)) BY <1>3, <2>3, TypeMoves DEF Step
  <2> QED BY <2>1, <2>2, <2>3
<1>4. ASSUME NEW t \in Threads, read_head(t) PROVE TypeOK' BY <1>4, TypeMoves
<1>5. ASSUME NEW t \in Threads, NEW o \in Ops \ {"read"}, Begin(t, o) PROVE TypeOK' BY <1>5, TypeMoves
<1> QED BY <1>1, <1>2, <1>3, <1>4, <1>5 DEF Next

LEMMA EntryNext ==
    ASSUME EntryInv, [Next]_vars
    PROVE  EntryInv'
<1>1. TypeOK' BY TypeNext DEF EntryInv
<1>2. Shape BY ShapeOK DEF EntryInv
<1>3. Shape' BY <1>1 DEF TypeOK, Shape
<1>4. CASE Destroyed BY <1>1, <1>2, <1>3, <1>4, DestroyNext DEF EntryInv
<1>5. ASSUME NEW t \in Threads, Kinds(t) PROVE EntryInv'
  <2>0. /\ TypeOK /\ PlaceInv /\ ArgInv /\ EndInv /\ UseInv /\ ChainInv /\ RankInv /\ FreeInv /\ SwapInv
    BY DEF EntryInv
  <2>1. head = Nil <=> tail = Nil BY <1>2, <2>0, ChainFacts
  <2>2. PlaceInv' BY <1>2, <1>3, <1>5, <2>0, <2>1, PlaceNext
  <2>3. ArgInv' BY <1>2, <1>3, <1>5, <2>0, <2>2, ArgNext
  <2>4. EndInv' BY <1>2, <1>3, <1>5, <2>0, <2>2, <2>3, EndNext
  <2>5. UseInv' BY <1>2, <1>3, <1>5, <2>0, <2>2, UseNext
  <2>6. ChainInv' BY <1>2, <1>3, <1>5, <2>0, ChainNext
  <2>7. RankInv' BY <1>2, <1>3, <1>5, <2>0, RankNext
  <2>8. FreeInv' BY <1>2, <1>3, <1>5, <2>0, FreeNext
  <2>9. SwapInv' BY <1>2, <1>3, <1>5, <2>0, <2>7, SwapNext
  <2> QED BY <1>1, <2>2, <2>3, <2>4, <2>5, <2>6, <2>7, <2>8, <2>9 DEF EntryInv
<1>6. CASE Stopped
  <2>1. CASE Threads # {}
    <3>1. PICK t \in Threads : TRUE BY <2>1
    <3>2. Kinds(t) BY <1>6 DEF Kinds
    <3> QED BY <1>5, <3>2
  <2>2. CASE Threads = {}
    <3>1. PlaceInv' /\ ArgInv' /\ FreeInv' /\ SwapInv' BY <2>2 DEF PlaceInv, ArgInv, FreeInv, SwapInv
    <3>2. EndInv' BY <1>6, <2>2 DEF EntryInv, EndInv, Stopped
    <3>3. UseInv' BY <1>3, <2>2 DEF UseInv, Shape
    <3>4. PICK n \in Nat : \E s \in [1..n -> Chunks] : Links(s, n) BY DEF EntryInv, ChainInv
    <3>5. PICK s \in [1..n -> Chunks] : Links(s, n) BY <3>4
    <3>6. Links(s, n)' BY <1>6, <3>5, ChainFrame DEF Stopped
    <3>7. PICK rank \in [Chunks -> Nat] : Ranked(rank) BY DEF EntryInv, RankInv
    <3>8. Ranked(rank)' BY <1>6, <3>7 DEF Stopped, Ranked
    <3>9. ChainInv' /\ RankInv' BY <3>6, <3>8 DEF ChainInv, RankInv
    <3> QED BY <1>1, <3>1, <3>2, <3>3, <3>9 DEF EntryInv
  <2> QED BY <2>1, <2>2
<1>7. Destroyed \/ Stopped \/ \E t \in Threads : Kinds(t) BY StepKinds DEF EntryInv
<1> QED BY <1>4, <1>5, <1>6, <1>7

(***************************************************************************)
(* Whatever the threads of any entry do, in any order: the chunks that are *)
(* linked are one sequence from head to tail with the links that append()  *)
(* has yet to make as its only gaps, no links form a cycle, and what a     *)
(* thread has loaded, replaced or is about to swap is as described above.  *)
(***************************************************************************)
THEOREM EntryCorrect == Spec => []EntryInv
<1>1. Init => EntryInv BY EntryInit
<1>2. EntryInv /\ [Next]_vars => EntryInv' BY EntryNext
<1> QED BY <1>1, <1>2, PTL DEF Spec

(* Every variable of an entry and of its threads keeps its type. *)
THEOREM TypeCorrect == Spec => []TypeOK
<1>1. EntryInv => TypeOK BY DEF EntryInv
<1> QED BY <1>1, EntryCorrect, PTL

(***************************************************************************)
(* Nothing that append() or prepend() stored is lost (entry.cc 25-27):     *)
(* when no link is missing the chain from head to tail is all the memory   *)
(* that is linked, and has nothing twice.                                  *)
(***************************************************************************)
THEOREM NothingLostCorrect == Spec => []NothingLost
<1>1. ASSUME EntryInv PROVE NothingLost
  <2>1. Shape /\ RankInv /\ ChainInv BY <1>1, ShapeOK DEF EntryInv
  <2> QED BY <2>1, ChainSet DEF NothingLost
<1> QED BY <1>1, EntryCorrect, PTL

(***************************************************************************)
(* incr() and decr() free what they have replaced, all of it and nothing   *)
(* else, and the chunk an append() is about to link to is still part of    *)
(* the value and has no successor (the assertion of entry.cc 26).          *)
(***************************************************************************)
THEOREM FreesItsOwnCorrect == Spec => []FreesItsOwn
<1>1. ASSUME EntryInv PROVE FreesItsOwn
  <2>1. Shape /\ PlaceInv /\ ArgInv /\ UseInv /\ RankInv /\ ChainInv /\ FreeInv BY <1>1, ShapeOK DEF EntryInv
  <2>2. PICK own : \A u \in Threads : pc[u] = "free" => Owns(own, u) BY <2>1 DEF FreeInv
  <2>3. ASSUME NEW t \in Threads, pc[t] = "free"
        PROVE  /\ \A m \in ToSet(Walk(next, h[t], Nil)) : where[m] = "replaced"
               /\ Last(Walk(next, h[t], Nil)) = z[t]
    <3>1. h[t] \in Chunks BY <2>1, <2>3 DEF PlaceInv
    <3> QED BY <2>1, <2>2, <2>3, <3>1, FreeWalk
  <2>4. ASSUME NEW t \in Threads, pc[t] = "link"
        PROVE  where[h[t]] = "linked" /\ next[h[t]] = Nil /\ t \notin stale
    BY <2>1, <2>4, ChainFacts DEF UseInv
  <2> QED BY <2>3, <2>4 DEF FreesItsOwn
<1> QED BY <1>1, EntryCorrect, PTL

(***************************************************************************)
(* A cas() that succeeds (entry.cc 167) replaces the value that its client *)
(* has read.                                                               *)
(***************************************************************************)
THEOREM CasFreshCorrect == Spec => CasFresh
<1>1. ASSUME EntryInv, [Next]_vars
      PROVE  [\A t \in Threads :
                 pc[t] = "swap" /\ op[t] = "cas" /\ head' = arg[t] => Content(Chain) = token[t]]_vars
  <2>1. SUFFICES ASSUME NEW t \in Threads, pc[t] = "swap", op[t] = "cas", head' = arg[t],
                        Content(Chain) # token[t]
                 PROVE  FALSE
    OBVIOUS
  <2>2. Shape /\ TypeOK /\ PlaceInv /\ ArgInv /\ UseInv /\ ChainInv /\ RankInv /\ FreeInv /\ SwapInv
    BY <1>1, ShapeOK DEF EntryInv
  <2>3. Brings(t) /\ arg[t] \in Chunks /\ where[arg[t]] = "private"
    BY <2>1, <2>2 DEF Brings, PlaceInv, ArgInv
  <2>4. head' # head BY <2>1, <2>2, <2>3, ChainFacts, NilAssumption
  <2>5. ASSUME NEW u \in Threads, Brings(u), pc[u] # "swap" PROVE arg[u] # arg[t]
    BY <2>1, <2>2, <2>3, <2>5 DEF ArgInv
  <2>6. ~Destroyed /\ ~Stopped BY <2>1, <2>3, <2>4, NilAssumption DEF Destroyed, Stopped
  <2>7. PICK u \in Threads : Kinds(u) BY <1>1, <2>2, <2>6, StepKinds
  <2>8. ~Replaced(u)
    <3>1. SUFFICES ASSUME Replaced(u) PROVE FALSE OBVIOUS
    <3>2. Current(u) /\ head' = arg[u] /\ op[u] \in {"incr", "decr", "cas"} BY <3>1 DEF Replaced
    <3>3. Brings(u) BY <3>2 DEF Brings, Current
    <3>4. u = t BY <2>1, <2>2, <2>3, <3>2, <3>3 DEF ArgInv
    <3> QED BY <2>1, <2>2, <3>2, <3>4 DEF SwapInv
  <2>9. ~Prepended(u)
    <3>1. SUFFICES ASSUME Prepended(u) PROVE FALSE OBVIOUS
    <3>2. Brings(u) /\ pc[u] # "swap" /\ head' = arg[u] BY <3>1 DEF Prepended, Brings
    <3> QED BY <2>1, <2>5, <3>2
  <2>10. head' = head
    <3> USE DEF SameData
    <3>1. ASSUME NEW m \in Chunks, Begun(u, m) PROVE head' = head BY <3>1 DEF Begun
    <3>2. CASE Loaded(u) \/ Exchanged(u) \/ LinkedTo(u) \/ Reloaded(u) \/ WasRead(u)
      BY <3>2 DEF Loaded, Exchanged, LinkedTo, Reloaded, WasRead
    <3>3. CASE Threw(u) \/ Computed(u) \/ Retried(u) \/ FreedBy(u) BY <3>3 DEF Threw, Computed, Retried, FreedBy
    <3> QED BY <2>6, <2>7, <2>8, <2>9, <3>1, <3>2, <3>3 DEF Kinds
  <2> QED BY <2>4, <2>10
<1> QED BY <1>1, EntryCorrect, PTL DEF Spec, CasFresh

-----------------------------------------------------------------------------
(* Writers are atomic.                                                     *)

(* The links, those that append() has yet to make included. *)
AllLinks == [m \in Chunks |-> Linked(m)]

ValueInv ==
    \A n \in Nat : \A s \in [1..n -> Chunks] : Links(s, n) => Value = [i \in 1..n |-> text[s[i]]]

(* The value is what the linked chunks hold, from head to tail. *)
LEMMA ValueIs == EntryInv => ValueInv
<1> SUFFICES ASSUME EntryInv, NEW n \in Nat, NEW s \in [1..n -> Chunks], Links(s, n)
             PROVE  Value = [i \in 1..n |-> text[s[i]]]
  BY DEF ValueInv
<1>1. Shape /\ PlaceInv /\ ArgInv /\ ChainInv /\ RankInv BY ShapeOK DEF EntryInv
<1>0. \A i \in 1..n, j \in 1..n : s[i] = s[j] => i = j BY DEF Links
<1>2. ASSUME NEW m \in Chunks
      PROVE  \/ /\ AllLinks[m] = next[m]
                /\ \A u \in Threads : ~(pc[u] = "link" /\ h[u] = m)
             \/ \E u \in Threads : pc[u] = "link" /\ h[u] = m /\ AllLinks[m] = arg[u]
  <2> DEFINE S == {u \in Threads : pc[u] = "link" /\ h[u] = m}
  <2>1. AllLinks[m] = IF S = {} THEN next[m] ELSE arg[CHOOSE u \in S : TRUE] BY DEF AllLinks, Linked
  <2>2. S # {} => (CHOOSE u \in S : TRUE) \in S OBVIOUS
  <2> QED BY <2>1, <2>2
<1>3. ASSUME NEW i \in 1..n, i # n PROVE AllLinks[s[i]] = s[i + 1]
  <2>1. \/ next[s[i]] = s[i + 1]
        \/ next[s[i]] = Nil /\ \E u \in Threads : pc[u] = "link" /\ h[u] = s[i] /\ arg[u] = s[i + 1]
    BY <1>3 DEF Links
  <2>2. s[i] \in Chunks /\ s[i + 1] \in Chunks BY <1>3
  <2>3. ASSUME NEW u \in Threads, pc[u] = "link", h[u] = s[i] PROVE arg[u] = s[i + 1]
    <3>1. PICK j \in 1..n : h[u] = s[j] /\ arg[u] = s[j + 1] BY <2>3 DEF Links
    <3>2. i = j BY <1>0, <1>3, <2>3, <3>1
    <3> QED BY <3>1, <3>2
  <2>4. CASE AllLinks[s[i]] = next[s[i]] /\ \A u \in Threads : ~(pc[u] = "link" /\ h[u] = s[i])
    BY <2>1, <2>4
  <2> QED BY <1>2, <2>2, <2>3, <2>4
<1>4. n # 0 => AllLinks[s[n]] = Nil
  <2>1. SUFFICES ASSUME n # 0 PROVE AllLinks[s[n]] = Nil OBVIOUS
  <2>2. n \in 1..n /\ next[s[n]] = Nil BY <2>1 DEF Links
  <2>3. ASSUME NEW u \in Threads, pc[u] = "link" PROVE h[u] # s[n]
    <3>1. PICK j \in 1..n : j # n /\ h[u] = s[j] BY <2>3 DEF Links
    <3> QED BY <2>2, <3>1 DEF Links
  <2>4. s[n] \in Chunks BY <2>2
  <2> QED BY <1>2, <2>2, <2>3, <2>4
<1>5. PICK rank : Down(AllLinks, rank)
  <2>1. PICK rank \in [Chunks -> Nat] : Ranked(rank) BY <1>1 DEF RankInv
  <2>2. ASSUME NEW m \in Chunks
        PROVE  AllLinks[m] \in Chunks \cup {Nil} /\ (AllLinks[m] # Nil => rank[AllLinks[m]] < rank[m])
    <3>1. CASE AllLinks[m] = next[m] BY <1>1, <2>1, <3>1 DEF Shape, Ranked
    <3>2. CASE \E u \in Threads : pc[u] = "link" /\ h[u] = m /\ AllLinks[m] = arg[u]
      BY <1>1, <2>1, <3>2 DEF Shape, Ranked
    <3> QED BY <1>2, <3>1, <3>2
  <2>3. AllLinks \in [Chunks -> Chunks \cup {Nil}]
    <3>1. AllLinks = [m \in Chunks |-> AllLinks[m]] BY DEF AllLinks
    <3> QED BY <2>2, <3>1
  <2>4. Down(AllLinks, rank) BY <2>1, <2>2, <2>3 DEF Down
  <2> QED BY <2>4
<1>6. Walk(AllLinks, head, Nil) = s
  <2>1. CASE n = 0
    <3>1. head = Nil BY <2>1 DEF Links
    <3>2. Walk(AllLinks, Nil, Nil) = <<>> BY <1>5, WalkType
    <3>3. s \in Seq(Chunks) /\ Len(s) = 0 BY <2>1, FunSeq
    <3> QED BY <3>1, <3>2, <3>3, EmptySeq
  <2>2. CASE n # 0
    <3>1. head = s[1] BY <2>2 DEF Links
    <3> QED BY <1>3, <1>4, <1>5, <2>2, <3>1, ChainSeq
  <2> QED BY <2>1, <2>2
<1>7. Value = Content(s) BY <1>6 DEF Value, AllLinks
<1> QED BY <1>7 DEF Content

LEMMA ValueNext == EntryInv' => ValueInv'
BY ValueIs, PTL

(* What is brought is what a client wrote, or the number computed from the value. *)
TextInv ==
    \A t \in Threads :
        /\ Brings(t) /\ op[t] \notin {"incr", "decr"} => text[arg[t]] \in Texts
        /\ Current(t) /\ op[t] # "cas" => Leaves(op[t], Content(Chain), text[arg[t]])

(* Whatever is about to be swapped was so before, and the value is the one it was. *)
LEMMA StillCurrent ==
    ASSUME EntryInv, EntryInv', NEW t \in Threads, Kinds(t),
           NEW u \in Threads, Current(u)', ~(Computed(t) /\ u = t)
    PROVE  /\ Current(u) /\ Content(Chain)' = Content(Chain)
           /\ op'[u] = op[u] /\ arg'[u] = arg[u] /\ text'[arg[u]] = text[arg[u]]
<1>0. /\ Shape /\ Shape' /\ PlaceInv /\ ArgInv /\ UseInv /\ ChainInv /\ RankInv /\ RankInv' /\ FreeInv /\ SwapInv
  <2>1. Shape /\ Shape'
    <3>1. Shape BY ShapeOK DEF EntryInv
    <3>2. Shape' BY DEF EntryInv, TypeOK, Shape
    <3> QED BY <3>1, <3>2
  <2> QED BY <2>1 DEF EntryInv
<1> USE <1>0
<1>1. pc'[u] = "swap" /\ u \notin stale' /\ head' = h'[u] /\ tail' = z'[u] BY DEF Current
<1>2. CASE Stopped
  <2>1. Chain' = Chain BY <1>2 DEF Stopped, Chain, Walk
  <2>2. Content(Chain)' = Content(Chain) BY <1>2, <2>1 DEF Stopped, Content
  <2> QED BY <1>2, <2>2 DEF Stopped, Current
<1>3. CASE ~Stopped
  <2>1. u # t /\ Others(t)
    <3> USE DEF Ended
    <3>1. Others(t) BY <1>3 DEF Kinds, Begun, Loaded, Exchanged, LinkedTo, Prepended, Reloaded, WasRead, Threw,
                               Computed, Retried, Replaced, FreedBy
    <3>2. pc'[t] = "swap" => Computed(t) BY <1>3 DEF Kinds, Begun, Loaded, Exchanged, LinkedTo, Prepended, Reloaded, WasRead,
                                     Threw, Computed, Retried, Replaced, FreedBy
    <3> QED BY <1>1, <3>1, <3>2
  <2>2. /\ pc[u] = "swap" /\ h'[u] = h[u] /\ z'[u] = z[u] /\ op'[u] = op[u] /\ arg'[u] = arg[u]
    BY <1>1, <2>1 DEF Others
  <2>3. u \notin stale
    <3> USE DEF KeepsStale, NoLonger
    <3>1. CASE FreedBy(t)
      <4>1. PICK M \in SUBSET Chunks : Freed(M) BY <3>1, FreedWas
      <4> QED BY <1>1, <4>1 DEF Freed
    <3>2. CASE ~FreedBy(t)
      <4>1. \A v \in Threads : v # t => (v \in stale' <=> v \in stale)
        BY <1>3, <3>2 DEF Kinds, Begun, Loaded, Exchanged, LinkedTo, Prepended, Reloaded, WasRead,
                          Threw, Computed, Retried, Replaced
      <4> QED BY <1>1, <2>1, <4>1
    <3> QED BY <3>1, <3>2
  <2>4. ~Exchanged(t) /\ ~Prepended(t) /\ ~Replaced(t)
    <3>1. SUFFICES ASSUME Exchanged(t) \/ Prepended(t) \/ Replaced(t) PROVE FALSE OBVIOUS
    <3>2. Brings(t) /\ pc[t] # "link" /\ (head' = arg[t] \/ tail' = arg[t])
      BY <3>1 DEF Exchanged, Prepended, Replaced, Brings, Current
    <3>3. h[u] # arg[t] /\ z[u] # arg[t] BY <2>2, <2>3, <3>2, NotBrought
    <3> QED BY <1>1, <2>2, <3>2, <3>3
  <2>5. head' = head /\ tail' = tail
    BY <1>3, <2>4 DEF Kinds, Begun, Loaded, LinkedTo, Reloaded, WasRead, Threw, Computed, Retried, FreedBy, SameData
  <2>6. Current(u) BY <1>1, <2>2, <2>3, <2>5 DEF Current
  <2>7. \A v \in Threads : pc[v] # "link" BY <2>6 DEF SwapInv
  <2>8. \A m \in Chunks : where[m] = "linked" => next'[m] = next[m]
    <3> USE DEF SameNext
    <3>1. CASE Reloaded(t)
      <4>1. NextBut(arg[t], h[t]) /\ Brings(t) /\ pc[t] # "link" BY <3>1 DEF Reloaded, Brings
      <4>2. where[arg[t]] = "private" BY <4>1 DEF ArgInv
      <4> QED BY <4>1, <4>2 DEF NextBut
    <3>2. CASE FreedBy(t)
      <4>1. PICK M \in SUBSET Chunks : Freed(M) /\ \A m \in M : where[m] = "replaced" BY <3>2, FreedWas
      <4> QED BY <4>1 DEF Freed
    <3>3. ~LinkedTo(t) BY <2>7 DEF LinkedTo
    <3> QED BY <1>3, <2>4, <3>1, <3>2, <3>3 DEF Kinds, Begun, Loaded, WasRead, Threw, Computed, Retried
  <2>9. \A m \in Chunks : where[m] = "linked" => text'[m] = text[m] BY TextKept
  <2>10. Content(Chain)' = Content(Chain) BY <2>5, <2>7, <2>8, <2>9, ContentSame
  <2>11. Brings(u)
    <3>1. op[u] # "read" BY <2>2 DEF PlaceInv
    <3> QED BY <2>2, <3>1 DEF Brings
  <2>12. text'[arg[u]] = text[arg[u]] BY <2>1, <2>11, TextKept
  <2> QED BY <2>2, <2>6, <2>10, <2>12
<1> QED BY <1>2, <1>3

LEMMA TextNext ==
    ASSUME EntryInv, EntryInv', TextInv, [Next]_vars
    PROVE  TextInv'
<1>0. /\ Shape /\ Shape' /\ TypeOK /\ PlaceInv /\ PlaceInv' /\ ArgInv /\ ChainInv /\ RankInv /\ RankInv'
      /\ FreeInv
  <2>1. Shape BY ShapeOK DEF EntryInv
  <2>2. Shape' BY DEF EntryInv, TypeOK, Shape
  <2> QED BY <2>1, <2>2 DEF EntryInv
<1> SUFFICES ASSUME NEW u \in Threads
             PROVE  /\ Brings(u)' /\ op'[u] \notin {"incr", "decr"} => text'[arg'[u]] \in Texts
                    /\ Current(u)' /\ op'[u] # "cas" => Leaves(op'[u], Content(Chain)', text'[arg'[u]])
  BY DEF TextInv
<1>1. /\ Brings(u) /\ op[u] \notin {"incr", "decr"} => text[arg[u]] \in Texts
      /\ Current(u) /\ op[u] # "cas" => Leaves(op[u], Content(Chain), text[arg[u]])
  BY DEF TextInv
<1>2. CASE Destroyed
  <2>1. pc'[u] = "idle" BY <1>2 DEF Destroyed
  <2>2. op'[u] = "read" BY <1>0, <2>1 DEF PlaceInv
  <2> QED BY <2>1, <2>2 DEF Brings, Current
<1>3. ASSUME NEW t \in Threads, Kinds(t), Brings(u)', op'[u] \notin {"incr", "decr"}
      PROVE  text'[arg'[u]] \in Texts
  <2>0. op'[u] # "read" /\ pc'[u] # "free" BY <1>3 DEF Brings
  <2>1. CASE Stopped BY <1>1, <1>3, <2>0, <2>1 DEF Stopped, Brings
  <2>2. CASE u # t /\ ~Stopped
    <3>1. Others(t) BY <1>3, <2>2 DEF Kinds, Begun, Loaded, Exchanged, LinkedTo, Prepended, Reloaded, WasRead, Threw,
                                      Computed, Retried, Replaced, FreedBy
    <3>2. pc'[u] = pc[u] /\ op'[u] = op[u] /\ arg'[u] = arg[u] BY <2>2, <3>1 DEF Others
    <3>3. Brings(u) BY <2>0, <3>2 DEF Brings
    <3>4. text'[arg[u]] = text[arg[u]] BY <1>0, <1>3, <2>2, <3>3, TextKept
    <3> QED BY <1>1, <1>3, <3>2, <3>3, <3>4
  <2>3. CASE u = t /\ \E m \in Chunks : Begun(t, m) BY <1>3, <2>3 DEF Begun
  <2>4. CASE u = t /\ KeepsOp(t) /\ SameText /\ pc[t] # "free"
    <3>1. Brings(u) /\ op'[u] = op[u] /\ arg'[u] = arg[u] BY <2>0, <2>4 DEF KeepsOp, Brings
    <3>2. arg[u] \in Chunks BY <1>0, <3>1 DEF Brings, PlaceInv
    <3> QED BY <1>1, <1>3, <2>4, <3>1, <3>2 DEF SameText
  <2>5. Loaded(t) \/ Exchanged(t) \/ Reloaded(t) => KeepsOp(t) /\ SameText /\ pc[t] # "free"
    BY DEF Loaded, Exchanged, Reloaded
  <2>6. u = t => ~(LinkedTo(t) \/ Prepended(t) \/ WasRead(t) \/ Threw(t) \/ FreedBy(t))
    BY <2>0 DEF LinkedTo, Prepended, WasRead, Threw, FreedBy, Ended
  <2>7. u = t => ~Replaced(t) BY <2>0 DEF Replaced, Ended
  <2>8. u = t => ~Retried(t) BY <1>3 DEF Retried, KeepsOp
  <2>9. u = t /\ Computed(t) => KeepsOp(t) /\ SameText /\ pc[t] # "free"
    <3>1. u = t /\ Computed(t) => op[t] = "cas" BY <1>3 DEF Computed, KeepsOp
    <3> QED BY <3>1 DEF Computed
  <2> QED BY <1>3, <2>1, <2>2, <2>3, <2>4, <2>5, <2>6, <2>7, <2>8, <2>9 DEF Kinds
<1>4. ASSUME NEW t \in Threads, Kinds(t), Current(u)', op'[u] # "cas"
      PROVE  Leaves(op'[u], Content(Chain)', text'[arg'[u]])
  <2>1. CASE ~(Computed(t) /\ u = t)
    <3>1. /\ Current(u) /\ Content(Chain)' = Content(Chain) /\ op'[u] = op[u] /\ arg'[u] = arg[u]
          /\ text'[arg[u]] = text[arg[u]]
      BY <1>4, <2>1, StillCurrent
    <3> QED BY <1>1, <1>4, <3>1
  <2>2. CASE Computed(t) /\ u = t
    <3>1. /\ t \notin stale /\ head = h[t] /\ tail = z[t] /\ op[t] # "read" /\ Reading(t) # {}
          /\ op'[t] = op[t] /\ arg'[t] = arg[t] /\ head' = head
      BY <1>4, <2>2 DEF Computed, Current, KeepsOp, KeepsStale, SameData
    <3>2. Connected(head, tail) /\ Reading(t) = {Content(Walk(next, head, tail))} BY <3>1 DEF Reading
    <3>3. head # Nil BY <1>0, <2>2 DEF Computed, PlaceInv
    <3>4. (\A v \in Threads : pc[v] # "link") /\ Walk(next, head, tail) = Chain BY <1>0, <3>2, <3>3, Arrives
    <3>5. \A m \in Chunks : where[m] = "linked" => next'[m] = next[m] /\ text'[m] = text[m]
      <4>1. \A m \in Chunks : where[m] = "linked" => text'[m] = text[m] BY <1>0, <1>4, TextKept
      <4> QED BY <2>2, <4>1 DEF Computed, SameNext
    <3>6. Content(Chain)' = Content(Chain) BY <1>0, <3>1, <3>4, <3>5, ContentSame
    <3>7. PICK s \in Reading(t) : Leaves(op[t], s, text'[arg[t]]) BY <1>4, <2>2, <3>1 DEF Computed
    <3>8. s = Content(Chain) BY <3>2, <3>4, <3>7
    <3> QED BY <2>2, <3>1, <3>6, <3>7, <3>8
  <2> QED BY <2>1, <2>2
<1>5. \E t \in Threads : Kinds(t) \/ Destroyed
  <2>1. Destroyed \/ Stopped \/ \E t \in Threads : Kinds(t) BY <1>0, StepKinds
  <2>2. Stopped => Kinds(u) BY DEF Kinds
  <2> QED BY <2>1, <2>2
<1> QED BY <1>2, <1>3, <1>4, <1>5

(***************************************************************************)
(* The number of a text: mem_atoi() takes it character by character and    *)
(* modulo Modulus, Number all at once.                                     *)
(***************************************************************************)
Sums(f, s, n) ==
    /\ f \in [0..n -> Nat] /\ f[0] = 0
    /\ \A i \in 1..n : f[i] = IF s[i] = Space THEN f[i - 1] ELSE 10 * f[i - 1] + s[i]

LEMMA SumsExist ==
    ASSUME NEW s \in Seq(Chars)
    PROVE  \E f : Sums(f, s, Len(s))
<1>0. PICK l \in Nat : l = Len(s) /\ \A i \in 1..l : s[i] \in Chars OBVIOUS
<1>1. PICK step : step = [i \in 1..l |-> [a \in Nat |-> IF s[i] = Space THEN a ELSE 10 * a + s[i]]] OBVIOUS
<1>2. \A i \in 1..l, a \in Nat : step[i][a] = IF s[i] = Space THEN a ELSE 10 * a + s[i] BY <1>1
<1>3. Steps(step, Nat, l)
  <2>1. ASSUME NEW i \in 1..l, NEW a \in Nat PROVE step[i][a] \in Nat
    <3>1. PICK c \in Nat : c = s[i] BY <1>0 DEF Chars
    <3>2. 10 * a + c \in Nat OBVIOUS
    <3> QED BY <1>2, <3>1, <3>2
  <2> QED BY <2>1 DEF Steps
<1>4. 0 \in Nat OBVIOUS
<1>5. PICK f : Follows(f, step, 0, Nat, l) BY <1>3, <1>4, Recursion
<1>6. \A i \in 1..l : f[i - 1] \in Nat BY <1>5 DEF Follows
<1>7. Sums(f, s, l) BY <1>2, <1>5, <1>6 DEF Sums, Follows
<1> QED BY <1>0, <1>7

LEMMA NumberSums ==
    ASSUME NEW s \in Seq(Chars)
    PROVE  \E f : Sums(f, s, Len(s)) /\ Abstract!Number(s) = f[Len(s)] % Modulus
<1>0. PICK l \in Nat : l = Len(s) OBVIOUS
<1> DEFINE r == CHOOSE r : r = [n \in 0..Len(s) |-> IF n = 0 THEN 0
                                                    ELSE IF s[n] = Space THEN r[n - 1]
                                                    ELSE 10 * r[n - 1] + s[n]]
<1>1. PICK f : Sums(f, s, l) BY <1>0, SumsExist
<1>2. f = [n \in 0..Len(s) |-> IF n = 0 THEN 0 ELSE IF s[n] = Space THEN f[n - 1] ELSE 10 * f[n - 1] + s[n]]
  <2>1. f \in [0..l -> Nat] /\ f[0] = 0
        /\ \A i \in 1..l : f[i] = IF s[i] = Space THEN f[i - 1] ELSE 10 * f[i - 1] + s[i]
    BY <1>1 DEF Sums
  <2> QED BY <1>0, <2>1
<1>3. r = [n \in 0..Len(s) |-> IF n = 0 THEN 0 ELSE IF s[n] = Space THEN r[n - 1] ELSE 10 * r[n - 1] + s[n]]
  BY <1>2
<1>4. Abstract!Number(s) = r[l] % Modulus BY <1>0 DEF Abstract!Number, Abstract!Space, Space
<1> HIDE DEF r
<1>5. /\ DOMAIN r = 0..l /\ r[0] = 0
      /\ \A i \in 1..l : r[i] = IF s[i] = Space THEN r[i - 1] ELSE 10 * r[i - 1] + s[i]
  BY <1>0, <1>3, SMTT(30)
<1>6. \A i \in 0..l : r[i] \in Nat
  <2> DEFINE D == {i \in 0..l : r[i] \notin Nat}
  <2>1. SUFFICES ASSUME D # {} PROVE FALSE OBVIOUS
  <2>2. D \subseteq Nat OBVIOUS
  <2>3. PICK i \in D : \A j \in D : i <= j BY <2>1, <2>2, Least
  <2>4. i \in 0..l /\ r[i] \notin Nat OBVIOUS
  <2>5. i # 0 BY <1>5, <2>4
  <2>6. i - 1 \in 0..l /\ ~(i <= i - 1) /\ i \in 1..l BY <2>4, <2>5
  <2>7. r[i - 1] \in Nat BY <2>3, <2>6
  <2>8. s[i] \in Nat BY <1>0, <2>6 DEF Chars
  <2>9. r[i] = IF s[i] = Space THEN r[i - 1] ELSE 10 * r[i - 1] + s[i] BY <1>5, <2>6
  <2>10. 10 * r[i - 1] + s[i] \in Nat BY <2>7, <2>8
  <2> QED BY <2>4, <2>7, <2>9, <2>10
<1>7. r \in [0..l -> Nat]
  <2>1. r = [n \in 0..l |-> r[n]] BY <1>0, <1>3
  <2> QED BY <1>6, <2>1
<1>8. Sums(r, s, l) BY <1>5, <1>7 DEF Sums
<1> QED BY <1>0, <1>4, <1>8

(* The remainder of a sum is that of the sum of remainders. *)
LEMMA Remainder ==
    ASSUME NEW M \in Nat \ {0}, NEW x \in Nat, NEW c \in Nat
    PROVE  ((x % M) * 10 + c) % M = (10 * x + c) % M
<1>1. ASSUME NEW a \in Nat, NEW b \in Nat, NEW r \in 0..M - 1, NEW s \in 0..M - 1, a < b
      PROVE  M * a + r # M * b + s
  <2>1. PICK k \in Nat : b = a + 1 + k BY <1>1
  <2>2. M * b = M * a + M + M * k BY <2>1
  <2>3. M * k \in Nat /\ M * a \in Nat /\ M * b \in Nat OBVIOUS
  <2>4. PICK p \in Nat, q \in Nat, w \in Nat : p = M * a /\ q = M * k /\ w = M * b BY <2>3
  <2>5. w = p + M + q BY <2>2, <2>4
  <2> QED BY <2>4, <2>5
<1>2. ASSUME NEW a \in Nat, NEW b \in Nat, NEW r \in 0..M - 1, NEW s \in 0..M - 1, M * a + r = M * b + s
      PROVE  r = s
  <2>1. ~(a < b) /\ ~(b < a) BY <1>1, <1>2
  <2>2. a = b BY <2>1
  <2> QED BY <1>2, <2>2
<1>3. ASSUME NEW y \in Nat PROVE y = M * (y \div M) + (y % M) /\ y % M \in 0..M - 1 /\ y \div M \in Nat
  <2>1. y = M * (y \div M) + (y % M) /\ y % M \in 0..M - 1 OBVIOUS
  <2>2. y \div M \in Nat OBVIOUS
  <2> QED BY <2>1, <2>2
<1>4. PICK q \in Nat, r \in 0..M - 1 : q = x \div M /\ r = x % M /\ x = M * q + r BY <1>3
<1>5. PICK y \in Nat : y = r * 10 + c OBVIOUS
<1>6. PICK p \in Nat, u \in 0..M - 1 : u = y % M /\ y = M * p + u BY <1>3
<1>7. PICK w \in Nat : w = 10 * x + c OBVIOUS
<1>8. PICK o \in Nat, v \in 0..M - 1 : v = w % M /\ w = M * o + v BY <1>3
<1>9. w = M * (10 * q) + y BY <1>4, <1>5, <1>7
<1>10. w = M * (10 * q + p) + u
  <2>1. M * (10 * q + p) = M * (10 * q) + M * p OBVIOUS
  <2> QED BY <1>6, <1>9, <2>1
<1>11. 10 * q + p \in Nat OBVIOUS
<1>12. u = v BY <1>2, <1>8, <1>10, <1>11
<1> QED BY <1>4, <1>5, <1>6, <1>7, <1>8, <1>12

(* What the first n characters of s are, if those from i to j are digits. *)
Spelled(s, n, i, j) == \A m \in 1..n : IF m \in i..j THEN s[m] \in 0..9 ELSE s[m] = Space

Knows(r, a, s, n) ==
    \/ r.at = "not a number"
    \/ /\ r.a = a % Modulus
       /\ \/ r.at = "before" /\ Spelled(s, n, 1, 0)
          \/ r.at = "digits" /\ \E i \in 1..n : Spelled(s, n, i, n)
          \/ r.at = "after" /\ \E i \in 1..n, j \in 1..n : Spelled(s, n, i, j)

LEMMA KnowsNext ==
    ASSUME NEW s \in Seq(Chars), NEW n \in 1..Len(s), NEW r \in Scan, NEW a \in Nat, Knows(r, a, s, n - 1)
    PROVE  Knows(atoi_char(r, s[n]), IF s[n] = Space THEN a ELSE 10 * a + s[n], s, n)
<1>0. PICK c \in Chars : c = s[n] OBVIOUS
<1>1. n \in Nat /\ n \in 1..n /\ \A m \in 1..n : m # n => m \in 1..n - 1 OBVIOUS
<1>2. PICK M \in Nat \ {0} : M = Modulus BY NumberAssumption
<1>3. ASSUME NEW i, NEW j, Spelled(s, n - 1, i, j), n \notin i..j, c = Space PROVE Spelled(s, n, i, j)
  BY <1>0, <1>1, <1>3, ZenonT(60) DEF Spelled
<1>4. r.at \in {"before", "digits", "after", "not a number"} BY DEF Scan, Below
<1>5. CASE c = Space
  <2>1. c \notin 0..9 BY <1>5 DEF Space
  <2>2. CASE r.at = "digits"
    <3>1. PICK i \in 1..n - 1 : Spelled(s, n - 1, i, n - 1) BY <2>2 DEF Knows
    <3>2. i \in 1..n /\ n - 1 \in 1..n /\ n \notin i..n - 1 BY <3>1
    <3>3. Spelled(s, n, i, n - 1) BY <1>3, <1>5, <3>1, <3>2
    <3>4. atoi_char(r, c) = [r EXCEPT !.at = "after"] BY <1>5, <2>1, <2>2 DEF atoi_char
    <3>5. atoi_char(r, c).at = "after" /\ atoi_char(r, c).a = r.a BY <3>4 DEF Scan, Below
    <3>6. r.a = a % Modulus BY <2>2 DEF Knows
    <3> QED BY <1>0, <1>5, <3>2, <3>3, <3>5, <3>6 DEF Knows
  <2>3. CASE r.at # "digits"
    <3>1. atoi_char(r, c) = r BY <1>5, <2>1, <2>3 DEF atoi_char
    <3>2. CASE r.at = "before"
      <4>1. r.a = a % Modulus /\ Spelled(s, n - 1, 1, 0) BY <3>2 DEF Knows
      <4>2. n \notin 1..0 OBVIOUS
      <4>3. Spelled(s, n, 1, 0) BY <1>3, <1>5, <4>1, <4>2
      <4> QED BY <1>0, <1>5, <3>1, <3>2, <4>1, <4>3 DEF Knows
    <3>3. CASE r.at = "after"
      <4>1. PICK i \in 1..n - 1, j \in 1..n - 1 : Spelled(s, n - 1, i, j) BY <3>3 DEF Knows
      <4>2. r.a = a % Modulus BY <3>3 DEF Knows
      <4>3. i \in 1..n /\ j \in 1..n /\ n \notin i..j BY <4>1
      <4>4. Spelled(s, n, i, j) BY <1>3, <1>5, <4>1, <4>3
      <4> QED BY <1>0, <1>5, <3>1, <3>3, <4>2, <4>3, <4>4 DEF Knows
    <3>4. CASE r.at = "not a number" BY <1>0, <3>1, <3>4 DEF Knows
    <3> QED BY <1>4, <2>3, <3>2, <3>3, <3>4
  <2> QED BY <2>2, <2>3
<1>6. CASE c \in 0..9 /\ r.at \in {"before", "digits"}
  <2>1. c # Space BY <1>6 DEF Space
  <2>2. atoi_char(r, c) = [at |-> "digits", a |-> (r.a * 10 + c) % Modulus] BY <1>6, <2>1 DEF atoi_char
  <2>3. r.a = a % M BY <1>2, <1>6 DEF Knows
  <2>4. ((a % M) * 10 + c) % M = (10 * a + c) % M
    <3>1. c \in Nat BY <1>6
    <3> QED BY <3>1, Remainder
  <2>5. atoi_char(r, c).at = "digits" /\ atoi_char(r, c).a = (10 * a + c) % M BY <1>2, <2>2, <2>3, <2>4
  <2>6. \E i \in 1..n : Spelled(s, n, i, n)
    <3>1. CASE r.at = "before"
      <4>1. Spelled(s, n - 1, 1, 0) BY <3>1 DEF Knows
      <4>2. \A m \in 1..n - 1 : s[m] = Space /\ m \notin n..n BY <4>1 DEF Spelled
      <4>3. s[n] \in 0..9 /\ n \in n..n BY <1>0, <1>6
      <4>4. Spelled(s, n, n, n) BY <1>1, <4>2, <4>3 DEF Spelled
      <4> QED BY <1>1, <4>4
    <3>2. CASE r.at = "digits"
      <4>1. PICK i \in 1..n - 1 : Spelled(s, n - 1, i, n - 1) BY <3>2 DEF Knows
      <4>2. i \in 1..n /\ n \in i..n /\ \A m \in 1..n - 1 : m \in i..n <=> m \in i..n - 1 BY <4>1
      <4>3. s[n] \in 0..9 BY <1>0, <1>6
      <4>4. Spelled(s, n, i, n) BY <1>1, <4>1, <4>2, <4>3 DEF Spelled
      <4> QED BY <4>2, <4>4
    <3> QED BY <1>6, <3>1, <3>2
  <2> QED BY <1>0, <1>2, <2>1, <2>5, <2>6 DEF Knows
<1>7. CASE c # Space /\ ~(c \in 0..9 /\ r.at \in {"before", "digits"})
  <2>1. atoi_char(r, c) = [r EXCEPT !.at = "not a number"] BY <1>7 DEF atoi_char
  <2>2. atoi_char(r, c).at = "not a number" BY <2>1 DEF Scan, Below
  <2> QED BY <1>0, <2>2 DEF Knows
<1> QED BY <1>5, <1>6, <1>7

(* mem_atoi() takes for a number what is one, and for the number it is. *)
LEMMA AtoiNumber ==
    ASSUME NEW s \in Seq(Chars), NEW r \in Scan, r = mem_atoi(s)
    PROVE  r.at # "not a number" => Abstract!IsNumber(s) /\ r.a = Abstract!Number(s)
<1>0. PICK l \in Nat : l = Len(s) OBVIOUS
<1>1. PICK f : Scans(f, s, l) /\ r = f[l] BY <1>0, AtoiScans
<1>2. PICK g : Sums(g, s, l) /\ Abstract!Number(s) = g[l] % Modulus BY <1>0, NumberSums
<1>3. /\ f \in [0..l -> Scan] /\ f[0] = Start /\ \A i \in 1..l : f[i] = atoi_char(f[i - 1], s[i])
      /\ g \in [0..l -> Nat] /\ g[0] = 0
      /\ \A i \in 1..l : g[i] = IF s[i] = Space THEN g[i - 1] ELSE 10 * g[i - 1] + s[i]
  BY <1>1, <1>2 DEF Scans, Sums
<1>4. Knows(f[0], g[0], s, 0)
  <2>1. 0 % Modulus = 0
    <3>1. PICK M \in Nat \ {0} : M = Modulus BY NumberAssumption
    <3>2. 0 % M = 0 OBVIOUS
    <3> QED BY <3>1, <3>2
  <2>2. f[0].at = "before" /\ f[0].a = 0 BY <1>3 DEF Start
  <2>3. Spelled(s, 0, 1, 0) BY DEF Spelled
  <2> QED BY <1>3, <2>1, <2>2, <2>3 DEF Knows
<1>5. Knows(f[l], g[l], s, l)
  <2> DEFINE D == {i \in 0..l : ~Knows(f[i], g[i], s, i)}
  <2>1. SUFFICES ASSUME D # {} PROVE FALSE
    <3>1. l \in 0..l OBVIOUS
    <3> QED BY <3>1
  <2>2. D \subseteq Nat OBVIOUS
  <2>3. PICK i \in D : \A j \in D : i <= j BY <2>1, <2>2, Least
  <2>4. i \in 0..l /\ ~Knows(f[i], g[i], s, i) OBVIOUS
  <2>5. i # 0 BY <1>4, <2>4
  <2>6. i - 1 \in 0..l /\ ~(i <= i - 1) /\ i \in 1..l BY <2>4, <2>5
  <2>7. Knows(f[i - 1], g[i - 1], s, i - 1) BY <2>3, <2>6
  <2>8. f[i - 1] \in Scan /\ g[i - 1] \in Nat /\ i \in 1..Len(s) BY <1>0, <1>3, <2>6
  <2>9. Knows(atoi_char(f[i - 1], s[i]), IF s[i] = Space THEN g[i - 1] ELSE 10 * g[i - 1] + s[i], s, i)
    BY <2>7, <2>8, KnowsNext
  <2>10. /\ f[i] = atoi_char(f[i - 1], s[i])
         /\ g[i] = IF s[i] = Space THEN g[i - 1] ELSE 10 * g[i - 1] + s[i]
    BY <1>3, <2>6
  <2> QED BY <2>4, <2>9, <2>10
<1>6. ASSUME r.at # "not a number"
      PROVE  /\ r.a = g[l] % Modulus
             /\ \/ Spelled(s, l, 1, 0)
                \/ \E i \in 1..l : Spelled(s, l, i, l)
                \/ \E i \in 1..l, j \in 1..l : Spelled(s, l, i, j)
  BY <1>1, <1>5, <1>6 DEF Knows
<1>7. ASSUME r.at # "not a number" PROVE \E i \in 1..l + 1, j \in 0..l : Spelled(s, l, i, j)
  <2>1. 1 \in 1..l + 1 /\ 0 \in 0..l /\ \A i \in 1..l : i \in 1..l + 1 /\ i \in 0..l OBVIOUS
  <2>2. l \in 0..l OBVIOUS
  <2> QED BY <1>6, <1>7, <2>1, <2>2
<1>8. ASSUME r.at # "not a number" PROVE Abstract!IsNumber(s)
  <2>1. DOMAIN s = 1..l BY <1>0
  <2> QED BY <1>0, <1>7, <1>8, <2>1 DEF Spelled, Abstract!IsNumber, Abstract!Space, Space
<1> QED BY <1>1, <1>2, <1>6, <1>8

LEMMA SameSeq ==
    ASSUME NEW S, NEW a \in Seq(S), NEW b \in Seq(S), Len(a) = Len(b), \A i \in 1..Len(a) : a[i] = b[i]
    PROVE  a = b
OBVIOUS

LEMMA AppendSeq ==
    ASSUME NEW S, NEW v \in Seq(S), NEW x \in S
    PROVE  /\ Append(v, x) \in Seq(S) /\ Len(Append(v, x)) = Len(v) + 1
           /\ \A i \in 1..Len(v) : Append(v, x)[i] = v[i]
           /\ Append(v, x)[Len(v) + 1] = x
OBVIOUS

LEMMA PrependSeq ==
    ASSUME NEW S, NEW v \in Seq(S), NEW x \in S
    PROVE  /\ <<x>> \o v \in Seq(S) /\ Len(<<x>> \o v) = Len(v) + 1
           /\ \A i \in 1..Len(v) : (<<x>> \o v)[i + 1] = v[i]
           /\ (<<x>> \o v)[1] = x
<1>1. <<x>> \in Seq(S) /\ Len(<<x>>) = 1 /\ <<x>>[1] = x OBVIOUS
<1>2. PICK y \in Seq(S) : y = <<x>> BY <1>1
<1>3. y \o v \in Seq(S) /\ Len(y \o v) = Len(v) + 1 BY <1>1, <1>2
<1>4. ASSUME NEW i \in 1..Len(v) PROVE (y \o v)[i + 1] = v[i] BY <1>1, <1>2
<1>5. (y \o v)[1] = x BY <1>1, <1>2
<1> QED BY <1>2, <1>3, <1>4, <1>5

(* Sequences as functions. *)
LEMMA Longer ==
    ASSUME NEW S, NEW n \in Nat, NEW v \in [1..n -> S], NEW x \in S, NEW k \in Nat, k = n + 1,
           NEW w \in [1..k -> S]
    PROVE  /\ w[k] = x /\ (\A i \in 1..n : w[i] = v[i]) => w = Append(v, x)
           /\ w[1] = x /\ (\A i \in 1..n : w[i + 1] = v[i]) => w = <<x>> \o v
<1>1. v \in Seq(S) /\ Len(v) = n /\ w \in Seq(S) /\ Len(w) = k BY FunSeq
<1>2. ASSUME w[k] = x, \A i \in 1..n : w[i] = v[i] PROVE w = Append(v, x)
  <2>1. PICK a : a = Append(v, x) OBVIOUS
  <2>2. a \in Seq(S) /\ Len(a) = k /\ a[k] = x /\ \A i \in 1..n : a[i] = v[i] BY <1>1, <2>1, AppendSeq
  <2>3. \A i \in 1..k : i # k => i \in 1..n OBVIOUS
  <2>4. \A i \in 1..k : w[i] = a[i] BY <1>2, <2>2, <2>3
  <2> QED BY <1>1, <2>1, <2>2, <2>4, SameSeq
<1>3. ASSUME w[1] = x, \A i \in 1..n : w[i + 1] = v[i] PROVE w = <<x>> \o v
  <2>1. PICK a : a = <<x>> \o v OBVIOUS
  <2>2. a \in Seq(S) /\ Len(a) = k /\ a[1] = x /\ \A i \in 1..n : a[i + 1] = v[i] BY <1>1, <2>1, PrependSeq
  <2>3. \A i \in 1..k : i # 1 => \E j \in 1..n : i = j + 1
    <3>1. ASSUME NEW i \in 1..k, i # 1 PROVE i - 1 \in 1..n /\ i = (i - 1) + 1 BY <3>1
    <3> QED BY <3>1
  <2>4. \A i \in 1..k : w[i] = a[i] BY <1>3, <2>2, <2>3
  <2> QED BY <1>1, <2>1, <2>2, <2>4, SameSeq
<1> QED BY <1>2, <1>3

LEMMA Single ==
    ASSUME NEW S, NEW x \in S, NEW w, w = [i \in 1..1 |-> x]
    PROVE  w = <<x>>
OBVIOUS

LEMMA AbstractInit == Init => Abstract!Init
<1> SUFFICES ASSUME Init PROVE Abstract!Init OBVIOUS
<1>1. EntryInv BY EntryInit
<1>2. ValueInv BY <1>1, ValueIs
<1>3. PICK x \in Texts : text = [m \in Chunks |-> IF m = First THEN x ELSE <<>>] BY DEF Init
<1>4. PICK s : s = [i \in 1..1 |-> First] OBVIOUS
<1>5. s \in [1..1 -> Chunks] /\ s[1] = First /\ (\A i \in 1..1 : s[i] = First /\ i = 1) /\ 1 \in Nat
  BY <1>4, NilAssumption
<1>6. Links(s, 1) BY <1>5 DEF Links, Init
<1>7. Value = [i \in 1..1 |-> text[s[i]]] BY <1>2, <1>5, <1>6 DEF ValueInv
<1>8. text[First] = x BY <1>3, NilAssumption
<1>9. Value = [i \in 1..1 |-> x] BY <1>5, <1>7, <1>8
<1>10. Value = <<x>> BY <1>9
<1> QED BY <1>10 DEF Abstract!Init

(* The two specifications write numbers alike. *)
LEMMA NumeralIs ==
    ASSUME NEW a
    PROVE  Formatted(a) = Abstract!Numeral(a)
BY DEF Formatted, Abstract!Numeral

LEMMA FlattenIs ==
    ASSUME NEW s
    PROVE  FlattenSeq(s) = Abstract!FlattenSeq(s)
BY DEF FlattenSeq, Abstract!FlattenSeq

(* The number that is swapped in comes from all of the value. *)
LEMMA AbstractNumber ==
    ASSUME EntryInv, Value # <<>>, NEW t \in Threads, op[t] \in {"incr", "decr"},
           NEW x, Leaves(op[t], Value, x), Value' = <<x>>, Value \in Seq(Seq(Chars))
    PROVE  Abstract!Next
<1>1. PICK F \in Seq(Chars) : F = FlattenSeq(Value) BY FlattenType
<1>2. PICK r \in Scan : r = mem_atoi(F) BY AtoiType
<1>3. r.at # "not a number" /\ x = Formatted(IF op[t] = "incr" THEN incr(r.a) ELSE decr(r.a))
  BY <1>1, <1>2 DEF Leaves
<1>4. Abstract!IsNumber(F) /\ r.a = Abstract!Number(F) BY <1>2, <1>3, AtoiNumber
<1>5. PICK M \in Nat \ {0} : M = Modulus BY NumberAssumption
<1>6. r.a \in 0..M - 1 BY <1>5 DEF Scan, Below
<1>7. PICK a \in 0..M - 1 : a = r.a BY <1>6
<1>8. CASE op[t] = "incr"
  <2>1. x = Formatted((a + Amount) % Modulus)
    <3>1. x = Formatted(incr(a)) BY <1>3, <1>7, <1>8
    <3> QED BY <3>1 DEF incr
  <2>2. Abstract!Incr
    BY <1>1, <1>4, <1>7, <2>1, FlattenIs, NumeralIs DEF Abstract!Incr
  <2> QED BY <2>2 DEF Abstract!Next
<1>9. CASE op[t] = "decr"
  <2>1. x = Formatted(decr(a)) BY <1>3, <1>7, <1>9
  <2>2. decr(a) = IF a < Amount THEN 0 ELSE a - Amount
    <3>1. a \in Nat /\ Amount \in Nat BY <1>5, NumberAssumption
    <3>2. \A i, j \in Nat : (IF i > j THEN i - j ELSE 0) = IF i < j THEN 0 ELSE i - j OBVIOUS
    <3> QED BY <3>1, <3>2 DEF decr
  <2>3. Abstract!Decr
    BY <1>1, <1>4, <1>7, <2>1, <2>2, FlattenIs, NumeralIs DEF Abstract!Decr
  <2> QED BY <2>3 DEF Abstract!Next
<1> QED BY <1>8, <1>9

(* A value with something in it is one or more texts. *)
LEMMA ValueType ==
    ASSUME TypeOK, NEW n \in Nat, NEW s \in [1..n -> Chunks], NEW v, v = [i \in 1..n |-> text[s[i]]]
    PROVE  v \in [1..n -> Seq(Chars)] /\ v \in Seq(Seq(Chars)) /\ (n # 0 => v # <<>>)
<1>1. \A i \in 1..n : text[s[i]] \in Seq(Chars) BY DEF TypeOK
<1>2. v \in [1..n -> Seq(Chars)] BY <1>1
<1>3. v \in Seq(Seq(Chars)) /\ Len(v) = n BY <1>2, FunSeq
<1>4. Len(<<>>) = 0 OBVIOUS
<1> QED BY <1>2, <1>3, <1>4

(***************************************************************************)
(* An append() takes effect when it exchanges tail, a prepend() when it    *)
(* swaps head, incr(), decr() and cas() when they swap both; no other step *)
(* changes the value but ~entry().                                         *)
(***************************************************************************)
LEMMA AbstractNext ==
    ASSUME EntryInv, EntryInv', TextInv, [Next]_vars
    PROVE  [Abstract!Next]_Value
<1>0. /\ Shape /\ Shape' /\ TypeOK /\ TypeOK' /\ PlaceInv /\ ArgInv /\ EndInv /\ ChainInv /\ ChainInv' /\ RankInv
      /\ FreeInv /\ SwapInv
  <2>1. Shape BY ShapeOK DEF EntryInv
  <2>2. Shape' BY DEF EntryInv, TypeOK, Shape
  <2> QED BY <2>1, <2>2 DEF EntryInv
<1>1. ValueInv /\ ValueInv' BY ValueIs, ValueNext
<1>2. PICK n \in Nat : \E s \in [1..n -> Chunks] : Links(s, n) BY <1>0 DEF ChainInv
<1>3. PICK s \in [1..n -> Chunks] : Links(s, n) BY <1>2
<1>4. Value = [i \in 1..n |-> text[s[i]]] BY <1>1, <1>3 DEF ValueInv
<1>5. /\ Value \in [1..n -> Seq(Chars)] /\ Value \in Seq(Seq(Chars)) /\ (n # 0 => Value # <<>>)
      /\ \A i \in 1..n : Value[i] = text[s[i]]
  BY <1>0, <1>4, ValueType
<1>6. head # Nil => Value # <<>>
  <2>1. head # Nil => n # 0 BY <1>3 DEF Links
  <2> QED BY <1>5, <2>1
<1>7. CASE Stopped
  <2>1. Links(s, n)' BY <1>3, <1>7 DEF Stopped, Links
  <2>2. Value' = [i \in 1..n |-> text'[s[i]]] BY <1>1, <2>1 DEF ValueInv
  <2> QED BY <1>4, <1>7, <2>2 DEF Stopped
<1>8. CASE Destroyed
  <2>1. head # Nil /\ head' = Nil BY <1>8 DEF Destroyed
  <2>2. PICK k \in Nat : \E r \in [1..k -> Chunks] : Links(r, k)' BY <1>0 DEF ChainInv
  <2>3. PICK r \in [1..k -> Chunks] : Links(r, k)' BY <2>2
  <2>4. k = 0
    <3>1. k # 0 => head' = r[1] /\ r[1] \in Chunks BY <2>3 DEF Links
    <3> QED BY <2>1, <3>1, NilAssumption
  <2>5. Value' = [i \in 1..k |-> text'[r[i]]] BY <1>1, <2>3 DEF ValueInv
  <2>6. Value' = <<>>
    <3>1. \A i \in 1..k : text'[r[i]] \in Seq(Chars) BY <1>0 DEF TypeOK
    <3>2. Value' \in [1..k -> Seq(Chars)] BY <2>5, <3>1
    <3>3. Value' \in Seq(Seq(Chars)) /\ Len(Value') = 0 BY <2>4, <3>2, FunSeq
    <3> QED BY <3>3, EmptySeq
  <2> QED BY <1>6, <2>1, <2>6 DEF Abstract!Next, Abstract!Destroy
<1>9. ASSUME NEW t \in Threads, Kinds(t), Links(s, n)', \A i \in 1..n : text'[s[i]] = text[s[i]]
      PROVE  Value' = Value
  <2>1. Value' = [i \in 1..n |-> text'[s[i]]] BY <1>1, <1>9 DEF ValueInv
  <2> QED BY <1>4, <1>9, <2>1
<1>10. ASSUME NEW t \in Threads, Kinds(t), NEW k \in Nat, NEW r \in [1..k -> Chunks], Links(r, k)',
              \/ Exchanged(t) /\ Extends(s, n, r, k, arg[t])
              \/ Prepended(t) /\ Precedes(s, n, r, k, arg[t])
              \/ Replaced(t) /\ k = 1 /\ r[1] = arg[t]
       PROVE  Abstract!Next
  <2>1. /\ Brings(t) /\ arg[t] \in Chunks /\ SameText /\ head # Nil
    <3>1. Brings(t) /\ SameText /\ pc[t] # "idle"
      BY <1>10 DEF Exchanged, Prepended, Replaced, Current, Brings
    <3> QED BY <1>0, <3>1 DEF PlaceInv, Brings
  <2>2. PICK x \in Seq(Chars) : x = text[arg[t]] BY <1>0, <2>1 DEF TypeOK
  <2>3. op[t] \notin {"incr", "decr"} => x \in Texts BY <2>1, <2>2 DEF TextInv
  <2>4. Value # <<>> BY <1>6, <2>1
  <2>5. Value' = [i \in 1..k |-> text[r[i]]]
    <3>1. Value' = [i \in 1..k |-> text'[r[i]]] BY <1>1, <1>10 DEF ValueInv
    <3> QED BY <2>1, <3>1 DEF SameText
  <2>6. Value' \in [1..k -> Seq(Chars)] /\ \A i \in 1..k : Value'[i] = text[r[i]]
    <3>1. \A i \in 1..k : text[r[i]] \in Seq(Chars) BY <1>0 DEF TypeOK
    <3> QED BY <2>5, <3>1
  <2>7. CASE Exchanged(t) /\ Extends(s, n, r, k, arg[t])
    <3>1. k = n + 1 /\ r[k] = arg[t] /\ \A i \in 1..n : r[i] = s[i] BY <2>7 DEF Extends
    <3>2. k \in 1..k /\ \A i \in 1..n : i \in 1..k BY <3>1
    <3>3. Value'[k] = x /\ \A i \in 1..n : Value'[i] = Value[i]
      <4>1. Value'[k] = x BY <2>2, <2>6, <3>1, <3>2
      <4>2. ASSUME NEW i \in 1..n PROVE Value'[i] = Value[i]
        <5>1. Value'[i] = text[s[i]] BY <2>6, <3>1, <3>2
        <5>2. Value[i] = text[s[i]] BY <1>5
        <5> QED BY <5>1, <5>2
      <4> QED BY <4>1, <4>2
    <3>4. Value' = Append(Value, x) BY <1>5, <2>6, <3>1, <3>3, Longer
    <3>5. x \in Texts BY <2>3, <2>7 DEF Exchanged
    <3> QED BY <2>4, <3>4, <3>5 DEF Abstract!Next, Abstract!AppendText
  <2>8. CASE Prepended(t) /\ Precedes(s, n, r, k, arg[t])
    <3>1. k = n + 1 /\ r[1] = arg[t] /\ \A i \in 1..n : r[i + 1] = s[i] BY <2>8 DEF Precedes
    <3>2. 1 \in 1..k /\ \A i \in 1..n : i + 1 \in 1..k BY <3>1
    <3>3. Value'[1] = x /\ \A i \in 1..n : Value'[i + 1] = Value[i]
      <4>1. Value'[1] = x BY <2>2, <2>6, <3>1, <3>2
      <4>2. ASSUME NEW i \in 1..n PROVE Value'[i + 1] = Value[i]
        <5>1. Value'[i + 1] = text[s[i]] BY <2>6, <3>1, <3>2
        <5>2. Value[i] = text[s[i]] BY <1>5
        <5> QED BY <5>1, <5>2
      <4> QED BY <4>1, <4>2
    <3>4. Value' = <<x>> \o Value BY <1>5, <2>6, <3>1, <3>3, Longer
    <3>5. x \in Texts BY <2>3, <2>8 DEF Prepended
    <3> QED BY <2>4, <3>4, <3>5 DEF Abstract!Next, Abstract!PrependText
  <2>9. CASE Replaced(t) /\ k = 1 /\ r[1] = arg[t]
    <3>1. Value' = [i \in 1..1 |-> x]
      <4>1. \A i \in 1..1 : text[r[i]] = x BY <2>2, <2>9
      <4> QED BY <2>5, <2>9, <4>1
    <3>2. Value' = <<x>> BY <3>1, Single
    <3>3. CASE op[t] = "cas"
      <4>1. x \in Texts BY <2>3, <3>3
      <4> QED BY <2>4, <3>2, <4>1 DEF Abstract!Next, Abstract!Replace
    <3>4. CASE op[t] # "cas"
      <4>1. Current(t) /\ op[t] \in {"incr", "decr"} BY <2>9, <3>4 DEF Replaced
      <4>2. \A u \in Threads : pc[u] # "link" BY <1>0, <4>1 DEF SwapInv
      <4>3. Chain = s BY <1>0, <1>3, <4>2, ChainIs
      <4>4. Content(Chain) = Value
        <5>1. DOMAIN s = 1..n BY FunSeq
        <5> QED BY <1>4, <4>3, <5>1 DEF Content
      <4>5. Leaves(op[t], Value, x) BY <2>2, <3>4, <4>1, <4>4 DEF TextInv
      <4> QED BY <1>5, <2>4, <3>2, <4>1, <4>5, AbstractNumber
    <3> QED BY <3>3, <3>4
  <2> QED BY <1>10, <2>7, <2>8, <2>9
<1>11. ASSUME NEW t \in Threads, Kinds(t) PROVE [Abstract!Next]_Value
  <2>1. \/ Links(s, n)' /\ \A i \in 1..n : text'[s[i]] = text[s[i]]
        \/ \E k \in Nat : \E r \in [1..k -> Chunks] :
               /\ Links(r, k)'
               /\ \/ Exchanged(t) /\ Extends(s, n, r, k, arg[t])
                  \/ Prepended(t) /\ Precedes(s, n, r, k, arg[t])
                  \/ Replaced(t) /\ k = 1 /\ r[1] = arg[t]
    BY <1>0, <1>3, <1>11, ChainStep
  <2> QED BY <1>9, <1>10, <1>11, <2>1
<1>12. Destroyed \/ Stopped \/ \E t \in Threads : Kinds(t) BY <1>0, StepKinds
<1> QED BY <1>7, <1>8, <1>11, <1>12

(***************************************************************************)
(* append(), prepend(), incr(), decr() and cas() (entry.cc 20-172) are     *)
(* atomic: each extends the value at an end or replaces all of it, and a   *)
(* number is computed from the value it replaces.                          *)
(***************************************************************************)
THEOREM WritesAtomicCorrect == Spec => WritesAtomic
<1>1. Init => TextInv
  <2>1. Init => \A t \in Threads : ~Brings(t) /\ ~Current(t) BY DEF Init, Brings, Current
  <2> QED BY <2>1 DEF TextInv
<1>2. EntryInv /\ EntryInv' /\ TextInv /\ [Next]_vars => TextInv' BY TextNext
<1>3. EntryInv /\ EntryInv' /\ TextInv /\ [Next]_vars => [Abstract!Next]_Value BY AbstractNext
<1> QED BY <1>1, <1>2, <1>3, AbstractInit, EntryCorrect, PTL DEF Spec, WritesAtomic, Abstract!Spec
=============================================================================
