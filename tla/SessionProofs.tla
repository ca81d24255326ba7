---------------------------- MODULE SessionProofs ----------------------------
(***************************************************************************)
(* Proofs about Session, for any requests, any values in the cache and any *)
(* sizes of the buffers: type correctness, that the staged output fits its *)
(* buffer, that data blocks are taken from the stream exactly, that values *)
(* are written whole, and that every request is answered once.             *)
(***************************************************************************)
EXTENDS Session, WellFoundedInduction, TLAPS

(***************************************************************************)
(* Which operation is pending in which state, and which request the        *)
(* current command came from.                                              *)
(***************************************************************************)
StateInv ==
    /\ io = "read_command" => state_ = "execute_command"
    /\ io = "read_data" => state_ = "execute_write"
    /\ io = "write" => state_ \in {"write_prompt", "read_command", "write_data"}
    /\ state_ = "write_data" => cmd_ \in {"get", "gets"}
    /\ state_ = "execute_write" =>
           cmd_ \in Stores /\ cur \in DOMAIN reqs /\ (left = 0 <=> io = "none")
    /\ state_ = "execute_command" /\ io = "none" /\ cmd_ \in Stores => cur \in DOMAIN reqs
    /\ cmd_ = "unknown" => cur \in DOMAIN reqs

(* Units come from requests that were sent. *)
UnitsInv ==
    /\ \A p \in DOMAIN ibuf : ibuf[p].req \in DOMAIN reqs
    /\ \A p \in DOMAIN net : net[p].req \in DOMAIN reqs

SessionInv == TypeOK /\ StateInv /\ UnitsInv

(***************************************************************************)
(* A command that is about to reply finds room for a line.  incr, decr and *)
(* touch, which loop() dispatches twice, have used up their arguments the  *)
(* second time; an unknown command finds the buffer empty, and a get the   *)
(* margin it keeps.                                                        *)
(***************************************************************************)
RoomInv ==
    /\ io = "read_command" => Used(obuf) = 0
    /\ state_ \in {"execute_command", "execute_write"} /\ ~noreply_ => Used(obuf) < ObufSize
    /\ state_ = "execute_command" /\ cmd_ \in {"incr", "decr", "touch"} /\ ~noreply_ =>
           Used(obuf) = 0 \/ args_ = <<>>
    /\ state_ = "execute_command" /\ cmd_ = "unknown" => Used(obuf) = 0
    /\ state_ = "execute_command" /\ cmd_ \in {"get", "gets"} /\ ~noreply_ =>
           Used(obuf) + ReserveSize <= ObufSize

(* What holds as long as nothing has overflowed, and what holds after it.  *)
Fits == Used(obuf) <= ObufSize
Overflow == crashed /\ ObufFits

-----------------------------------------------------------------------------
(* Induction: a set of numbers has a least one.                            *)

LEMMA Least ==
    ASSUME NEW T, T \subseteq Nat, T # {}
    PROVE  \E x \in T : \A y \in T : x <= y
<1> DEFINE R == {ss \in Nat \X Nat : ss[1] < ss[2]}
<1>1. R = OpToRel(<, Nat) BY DEF OpToRel
<1>2. IsWellFoundedOn(R, Nat) BY <1>1, NatLessThanWellFounded
<1>3. PICK x \in T : \A y \in T : ~(<<y, x>> \in R) BY <1>2, WFMin
<1>4. ASSUME NEW y \in T PROVE x <= y
  <2>1. <<y, x>> \notin R BY <1>3
  <2>2. x \in Nat /\ y \in Nat OBVIOUS
  <2>3. <<y, x>> \in Nat \X Nat BY <2>2
  <2>4. ~(<<y, x>>[1] < <<y, x>>[2]) BY <2>1, <2>3
  <2>5. ~(y < x) BY <2>4
  <2> QED BY <2>2, <2>5
<1> QED BY <1>4

(* f has the partial sums of the first n elements of g. *)
Upto(f, g, n) ==
    /\ f \in [0..n -> Nat] /\ f[0] = 0
    /\ \A i \in 1..n : f[i] = f[i - 1] + g[i]

Sums(f, g) == f = [i \in 0..Len(g) |-> IF i = 0 THEN 0 ELSE f[i - 1] + g[i]]

LEMMA SumsUnique ==
    ASSUME NEW g \in Seq(Nat), NEW f, NEW h, Sums(f, g), Sums(h, g)
    PROVE  f = h
<1>1. SUFFICES ASSUME f # h PROVE FALSE OBVIOUS
<1>0. PICK n \in Nat : n = Len(g) OBVIOUS
<1> DEFINE D == {i \in 0..n : f[i] # h[i]}
<1>2. D \subseteq Nat OBVIOUS
<1>3. /\ f = [i \in 0..n |-> IF i = 0 THEN 0 ELSE f[i - 1] + g[i]]
      /\ h = [i \in 0..n |-> IF i = 0 THEN 0 ELSE h[i - 1] + g[i]]
  BY <1>0 DEF Sums
<1>4. D # {}
  <2>1. \E i \in 0..n : f[i] # h[i] BY <1>1, <1>3
  <2> QED BY <2>1
<1>5. PICK i \in D : \A j \in D : i <= j BY <1>2, <1>4, Least
<1>6. i \in 0..n /\ f[i] # h[i] OBVIOUS
<1>7. i # 0 BY <1>3, <1>6
<1>8. i - 1 \in 0..n /\ ~(i <= i - 1) BY <1>6, <1>7
<1>9. f[i - 1] = h[i - 1] BY <1>5, <1>8
<1> QED BY <1>3, <1>6, <1>7, <1>9

LEMMA SumsUpto ==
    ASSUME NEW g \in Seq(Nat), NEW f, Upto(f, g, Len(g))
    PROVE  Sums(f, g)
BY DEF Upto, Sums

LEMMA SumsExist ==
    ASSUME NEW g \in Seq(Nat)
    PROVE  \E f : Upto(f, g, Len(g))
<1>0. PICK l \in Nat : l = Len(g) OBVIOUS
<1> DEFINE D == {n \in 0..l : \A f : ~Upto(f, g, n)}
<1>1. D = {}
  <2>1. SUFFICES ASSUME D # {} PROVE FALSE OBVIOUS
  <2>2. D \subseteq Nat OBVIOUS
  <2>3. PICK n \in D : \A m \in D : n <= m BY <2>1, <2>2, Least
  <2>4. n \in 0..l /\ \A f : ~Upto(f, g, n) OBVIOUS
  <2>5. n # 0
    <3>1. Upto([i \in 0..0 |-> 0], g, 0) BY DEF Upto
    <3> QED BY <3>1, <2>4
  <2>6. n - 1 \in 0..l /\ ~(n <= n - 1) BY <2>4, <2>5
  <2>7. n - 1 \notin D BY <2>3, <2>6
  <2>8. PICK f : Upto(f, g, n - 1) BY <2>6, <2>7
  <2> DEFINE h == [i \in 0..n |-> IF i = n THEN f[n - 1] + g[n] ELSE f[i]]
  <2>9. n \in 1..Len(g) /\ g[n] \in Nat /\ f[n - 1] \in Nat BY <1>0, <2>4, <2>5, <2>8 DEF Upto
  <2>10. h \in [0..n -> Nat] /\ h[0] = 0 BY <2>8, <2>9 DEF Upto
  <2>11. ASSUME NEW i \in 1..n PROVE h[i] = h[i - 1] + g[i]
    <3>0. i \in 0..n /\ i - 1 \in 0..n /\ i - 1 # n BY <2>4, <2>11
    <3>1. h[i - 1] = f[i - 1] BY <3>0
    <3>2. CASE i = n BY <3>0, <3>1, <3>2
    <3>3. CASE i # n
      <4>1. h[i] = f[i] BY <3>0, <3>3
      <4>2. i \in 1..n - 1 BY <2>4, <2>11, <3>3
      <4>3. f[i] = f[i - 1] + g[i] BY <2>8, <4>2 DEF Upto
      <4> QED BY <3>1, <4>1, <4>3
    <3> QED BY <3>2, <3>3
  <2>12. Upto(h, g, n) BY <2>10, <2>11 DEF Upto
  <2> QED BY <2>4, <2>12
<1>2. l \in 0..l OBVIOUS
<1>3. \E f : Upto(f, g, l)
  <2>1. SUFFICES ASSUME \A f : ~Upto(f, g, l) PROVE FALSE OBVIOUS
  <2>2. l \in D BY <1>2, <2>1
  <2> HIDE DEF D
  <2> QED BY <1>1, <2>2
<1> QED BY <1>0, <1>3

LEMMA TotalIs ==
    ASSUME NEW g \in Seq(Nat), NEW f, Upto(f, g, Len(g))
    PROVE  Total(g) = f[Len(g)]
<1> DEFINE s == CHOOSE s : s = [i \in 0..Len(g) |-> IF i = 0 THEN 0 ELSE s[i - 1] + g[i]]
<1>0. Sums(f, g) BY SumsUpto
<1>1. s = [i \in 0..Len(g) |-> IF i = 0 THEN 0 ELSE s[i - 1] + g[i]] BY <1>0 DEF Sums
<1>2. Sums(s, g) BY <1>1 DEF Sums
<1>3. s = f BY <1>0, <1>2, SumsUnique
<1>4. Total(g) = s[Len(g)] BY DEF Total
<1> QED BY <1>3, <1>4

LEMMA TotalNat ==
    ASSUME NEW g \in Seq(Nat)
    PROVE  Total(g) \in Nat
<1>1. PICK f : Upto(f, g, Len(g)) BY SumsExist
<1>2. f[Len(g)] \in Nat BY <1>1 DEF Upto
<1> QED BY <1>1, <1>2, TotalIs

LEMMA TotalConcat ==
    ASSUME NEW g \in Seq(Nat), NEW h \in Seq(Nat)
    PROVE  Total(g \o h) = Total(g) + Total(h)
<1>0. PICK m \in Nat, n \in Nat : m = Len(g) /\ n = Len(h) OBVIOUS
<1>1. PICK f : Upto(f, g, Len(g)) BY SumsExist
<1>2. PICK e : Upto(e, h, Len(h)) BY SumsExist
<1>3. PICK c : c = g \o h OBVIOUS
<1>4. /\ c \in Seq(Nat) /\ Len(c) = m + n
      /\ \A i \in 1..m : c[i] = g[i]
      /\ \A i \in m + 1..m + n : c[i] = h[i - m]
  BY <1>0, <1>3
<1>5. /\ f \in [0..m -> Nat] /\ f[0] = 0 /\ \A i \in 1..m : f[i] = f[i - 1] + g[i]
      /\ e \in [0..n -> Nat] /\ e[0] = 0 /\ \A i \in 1..n : e[i] = e[i - 1] + h[i]
  BY <1>0, <1>1, <1>2 DEF Upto
<1> DEFINE d == [i \in 0..m + n |-> IF i <= m THEN f[i] ELSE f[m] + e[i - m]]
<1>6. \A i \in 0..m + n : d[i] \in Nat
  <2>1. ASSUME NEW i \in 0..m + n PROVE d[i] \in Nat
    <3>1. CASE i <= m BY <1>5, <3>1
    <3>2. CASE ~(i <= m)
      <4>1. i - m \in 0..n BY <3>2
      <4>2. e[i - m] \in Nat /\ f[m] \in Nat BY <1>5, <4>1
      <4> QED BY <3>2, <4>2
    <3> QED BY <3>1, <3>2
  <2> QED BY <2>1
<1>7. d[0] = 0 /\ d[m + n] = f[m] + e[n]
  <2>1. CASE n = 0 BY <1>5, <2>1
  <2>2. CASE n # 0
    <3>1. ~(m + n <= m) /\ m + n - m = n BY <2>2
    <3> QED BY <1>5, <3>1
  <2> QED BY <2>1, <2>2
<1>8. ASSUME NEW i \in 1..m + n PROVE d[i] = d[i - 1] + c[i]
  <2>1. CASE i \in 1..m BY <1>4, <1>5, <2>1
  <2>2. CASE i \notin 1..m
    <3>1. i - m \in 1..n /\ i \in m + 1..m + n /\ ~(i <= m) BY <2>2
    <3>2. e[i - m] = e[i - m - 1] + h[i - m] BY <1>5, <3>1
    <3>3. d[i] = f[m] + e[i - m] BY <3>1
    <3>4. d[i - 1] = f[m] + e[i - m - 1]
      <4>1. CASE i - 1 = m BY <1>5, <4>1
      <4>2. CASE i - 1 # m
        <5>1. ~(i - 1 <= m) /\ i - 1 - m = i - m - 1 /\ i - 1 \in 0..m + n BY <3>1, <4>2
        <5> QED BY <5>1
      <4> QED BY <4>1, <4>2
    <3>5. c[i] = h[i - m] BY <1>4, <3>1
    <3>6. /\ h[i - m] \in Nat BY <1>0, <3>1
    <3>7. i - m - 1 \in 0..n BY <3>1
    <3>8. e[i - m - 1] \in Nat /\ f[m] \in Nat BY <1>5, <3>7
    <3> QED BY <3>2, <3>3, <3>4, <3>5, <3>6, <3>8
  <2> QED BY <2>1, <2>2
<1>9. d \in [0..m + n -> Nat] BY <1>6
<1>10. Upto(d, c, Len(c)) BY <1>4, <1>7, <1>8, <1>9 DEF Upto
<1> HIDE DEF d
<1>11. Total(c) = f[m] + e[n] BY <1>4, <1>7, <1>10, TotalIs
<1>12. Total(g) = f[m] /\ Total(h) = e[n] BY <1>0, <1>1, <1>2, TotalIs
<1> QED BY <1>3, <1>11, <1>12

LEMMA TotalSmall ==
    /\ Total(<<>>) = 0
    /\ \A n \in Nat : Total(<<n>>) = n
<1>1. Total(<<>>) = 0
  <2>1. Upto([i \in 0..0 |-> 0], <<>>, 0) BY DEF Upto
  <2>2. <<>> \in Seq(Nat) /\ Len(<<>>) = 0 OBVIOUS
  <2> QED BY <2>1, <2>2, TotalIs
<1>2. ASSUME NEW n \in Nat PROVE Total(<<n>>) = n
  <2>1. Upto([i \in 0..1 |-> IF i = 0 THEN 0 ELSE n], <<n>>, 1) BY DEF Upto
  <2>2. <<n>> \in Seq(Nat) /\ Len(<<n>>) = 1 OBVIOUS
  <2>3. PICK f, g : f = [i \in 0..1 |-> IF i = 0 THEN 0 ELSE n] /\ g = <<n>> OBVIOUS
  <2>4. Upto(f, g, Len(g)) /\ g \in Seq(Nat) BY <2>1, <2>2, <2>3
  <2>5. Total(g) = f[Len(g)] BY <2>4, TotalIs
  <2>6. f[1] = n /\ Len(g) = 1 BY <2>2, <2>3
  <2> QED BY <2>3, <2>5, <2>6
<1> QED BY <1>1, <1>2

-----------------------------------------------------------------------------
(* Sequences.                                                              *)

LEMMA DropSeq ==
    ASSUME NEW S, NEW s \in Seq(S), NEW n \in 0..Len(s)
    PROVE  /\ SubSeq(s, n + 1, Len(s)) \in Seq(S)
           /\ Len(SubSeq(s, n + 1, Len(s))) = Len(s) - n
           /\ \A i \in 1..Len(s) - n : SubSeq(s, n + 1, Len(s))[i] = s[i + n]
OBVIOUS

LEMMA TakeSeq ==
    ASSUME NEW S, NEW s \in Seq(S), NEW n \in 0..Len(s)
    PROVE  /\ SubSeq(s, 1, n) \in Seq(S)
           /\ Len(SubSeq(s, 1, n)) = n
           /\ \A i \in 1..n : SubSeq(s, 1, n)[i] = s[i]
OBVIOUS

LEMMA JoinSeq ==
    ASSUME NEW S, NEW s \in Seq(S), NEW r \in Seq(S)
    PROVE  /\ s \o r \in Seq(S)
           /\ Len(s \o r) = Len(s) + Len(r)
           /\ \A i \in 1..Len(s) : (s \o r)[i] = s[i]
           /\ \A i \in 1..Len(r) : (s \o r)[Len(s) + i] = r[i]
           /\ r = <<>> => s \o r = s
OBVIOUS

LEMMA SameSeq ==
    ASSUME NEW S, NEW s \in Seq(S), NEW r \in Seq(S), Len(s) = Len(r),
           \A i \in 1..Len(s) : s[i] = r[i]
    PROVE  s = r
OBVIOUS

-----------------------------------------------------------------------------
(* Types of units, items and requests.                                     *)

Kinds == {"value", "data", "crlf", "end", "status", "number", "error", "prompt", "version", "stats"}

LEMMA ItemTypes ==
    ASSUME TypeOK
    PROVE  /\ \A k \in Kinds : Item(k, 1) \in ItemType
           /\ \A k \in Kinds : \A n \in Nat \ {0} : Item(k, n) \in ItemType
           /\ \A n \in Nat \ {0} : DataItem(n) \in ItemType
           /\ \A w : \A r \in Ropes : ValueItem(w, r) \in ItemType
           /\ \A r \in Ropes : RopeItems(r) \in Seq(ItemType)
<1>1. ASSUME NEW k \in Kinds, NEW n \in Nat \ {0} PROVE Item(k, n) \in ItemType
  BY DEF TypeOK, Item, ItemType, Kinds
<1>2. ASSUME NEW w, NEW r \in Ropes PROVE ValueItem(w, r) \in ItemType
  <2>1. LineSize(w) \in Nat \ {0} BY SizesAssumption DEF LineSize
  <2> QED BY <2>1 DEF TypeOK, Item, ItemType, ValueItem
<1>3. ASSUME NEW r \in Ropes PROVE RopeItems(r) \in Seq(ItemType)
  <2>1. r \in Seq(Nat \ {0}) BY SizesAssumption
  <2>2. PICK n \in Nat : n = Len(r) BY <2>1
  <2>3. \A i \in 1..n : DataItem(r[i]) \in ItemType BY <1>1, <2>1, <2>2 DEF DataItem, Kinds
  <2>4. [i \in DOMAIN r |-> DataItem(r[i])] \in Seq(ItemType) BY <2>1, <2>2, <2>3
  <2>5. <<Item("crlf", 1)>> \in Seq(ItemType) BY <1>1 DEF Kinds
  <2> QED BY <2>4, <2>5 DEF RopeItems
<1> QED BY <1>1, <1>2, <1>3 DEF DataItem, Kinds

LEMMA StagedTypes ==
    ASSUME TypeOK, NEW b \in Seq(ItemType), NEW c \in Seq(ItemType)
    PROVE  send(b, c) \in Seq(ItemType) /\ (noreply_' \in BOOLEAN => SendParsed(b, c) \in Seq(ItemType))
BY JoinSeq DEF send, SendParsed, TypeOK

LEMMA RequestTypes ==
    ASSUME TypeOK, NEW i \in DOMAIN reqs
    PROVE  /\ i \in 1..MaxRequests
           /\ reqs[i].cmd \in Commands \cup {"unknown"} /\ reqs[i].args \in Seq(Words)
           /\ reqs[i].text \in Nat \ {0} /\ reqs[i].data \in Nat
<1>0. reqs \in Seq(Requests) /\ Len(reqs) <= MaxRequests BY DEF TypeOK
<1>1. i \in 1..Len(reqs) /\ Len(reqs) \in Nat /\ reqs[i] \in Requests BY <1>0
<1>2. i \in 1..MaxRequests BY <1>0, <1>1, SizesAssumption
<1>3. reqs[i] \in [cmd : Commands \cup {"unknown"}, args : Seq(Words), text : Nat \ {0}, data : Nat]
  BY <1>1, RequestsAssumption
<1> QED BY <1>2, <1>3

LEMMA WireTypes ==
    ASSUME NEW i \in Nat, NEW r \in Requests
    PROVE  /\ Wire(i, r) \in Seq(UnitType)
           /\ \A p \in DOMAIN Wire(i, r) : Wire(i, r)[p].req = i
<1> DEFINE U == {u \in UnitType : u.req = i}
<1>1. ASSUME NEW p \in {"text", "eol", "data", "crlf"}, NEW n \in Nat PROVE Units(i, p, n) \in Seq(U)
  <2>1. \A k \in 1..n : [req |-> i, part |-> p, n |-> k] \in U BY DEF UnitType
  <2> HIDE DEF U
  <2> QED BY <2>1 DEF Units
<1>2. r.text \in Nat /\ r.data \in Nat BY RequestsAssumption
<1>3. Wire(i, r) \in Seq(U)
  <2> HIDE DEF U
  <2>1. /\ Units(i, "text", r.text) \in Seq(U) /\ Units(i, "eol", 1) \in Seq(U)
        /\ Units(i, "data", r.data) \in Seq(U) /\ Units(i, "crlf", 1) \in Seq(U)
    BY <1>1, <1>2
  <2> QED BY <2>1, JoinSeq DEF Wire
<1> QED BY <1>3

-----------------------------------------------------------------------------
(* Type correctness, action by action.                                     *)

LEMMA PatternType ==
    ASSUME TypeOK
    PROVE  /\ Pattern \in Seq(Words)
           /\ cmd_ \in {"incr", "decr", "touch"} => Len(Pattern) = 2
           /\ cmd_ \in Stores => Len(Pattern) = IF cmd_ = "cas" THEN 5 ELSE 4
<1> USE DEF Stores
<1>1. CASE cmd_ \in Stores \ {"cas"}
  <2>1. Pattern = <<"key", "num", "num", "num">> BY <1>1 DEF Pattern
  <2> QED BY <1>1, <2>1 DEF Words
<1>2. CASE cmd_ = "cas"
  <2>1. Pattern = <<"key", "num", "num", "num", "num">> BY <1>2 DEF Pattern
  <2> QED BY <1>2, <2>1 DEF Words
<1>3. CASE cmd_ \in {"incr", "decr", "touch"}
  <2>1. Pattern = <<"key", "num">> BY <1>3 DEF Pattern
  <2> QED BY <1>3, <2>1 DEF Words
<1>4. CASE cmd_ = "delete"
  <2>1. Pattern = <<"key">> BY <1>4 DEF Pattern
  <2> QED BY <1>4, <2>1 DEF Words
<1>5. CASE cmd_ = "flush_all"
  <2>1. Pattern = <<"num">> \/ Pattern = <<>> BY <1>5 DEF Pattern
  <2>2. <<"num">> \in Seq(Words) /\ <<>> \in Seq(Words) BY DEF Words
  <2> QED BY <1>5, <2>1, <2>2
<1>6. CASE cmd_ \notin Stores \cup {"incr", "decr", "touch", "delete", "flush_all"}
  <2>1. Pattern = <<>> BY <1>6 DEF Pattern
  <2> QED BY <1>6, <2>1 DEF Words
<1> QED BY <1>1, <1>2, <1>3, <1>4, <1>5, <1>6

(* parse_noreply leaves words, and none unless it has found "noreplay". *)
LEMMA ParseTypes ==
    ASSUME TypeOK, parse_noreply
    PROVE  /\ args_' \in Seq(Words) /\ noreply_' \in BOOLEAN /\ cmd_' = cmd_ /\ cur' = cur
           /\ ~noreply_' => args_' = <<>> /\ ~noreply_
           /\ cmd_ \in {"incr", "decr", "touch"} \cup Stores => args_ # <<>>
           /\ noreply_' = (noreply_ \/ Rest # <<>>)
<1>1. Len(Pattern) \in Nat /\ Len(Pattern) <= Len(args_) /\ args_ \in Seq(Words)
  BY PatternType DEF parse_noreply, Malformed, Parsed, TypeOK
<1>2. Rest \in Seq(Words)
  <2>1. PICK n : n = Len(Pattern) OBVIOUS
  <2>2. n \in 0..Len(args_) BY <1>1, <2>1
  <2> QED BY <1>1, <2>1, <2>2, DropSeq DEF Rest
<1>3. args_' \in Seq(Words) BY <1>2 DEF parse_noreply
<1>4. ASSUME cmd_ \in {"incr", "decr", "touch"} \cup Stores PROVE args_ # <<>>
  <2>1. Len(Pattern) \in {2, 4, 5} BY <1>4, PatternType
  <2>2. Len(args_) # 0
    <3>1. PICK n, l \in Nat : n = Len(Pattern) /\ l = Len(args_) BY <1>1
    <3>2. n <= l /\ n \in {2, 4, 5} BY <1>1, <2>1, <3>1
    <3> QED BY <3>1, <3>2
  <2> QED BY <2>2
<1>5. noreply_' \in BOOLEAN /\ noreply_' = (noreply_ \/ Rest # <<>>) BY DEF parse_noreply, TypeOK
<1>6. ~noreply_' => args_' = <<>> /\ ~noreply_ BY <1>5 DEF parse_noreply
<1> QED BY <1>3, <1>4, <1>5, <1>6 DEF parse_noreply

LEMMA ReplyTypes ==
    ASSUME SessionInv, NEW k \in Kinds, obuf' = send(obuf, <<Item(k, 1)>>)
    PROVE  obuf' \in Seq(ItemType)
<1>1. TypeOK /\ <<Item(k, 1)>> \in Seq(ItemType) BY ItemTypes DEF SessionInv
<1> QED BY <1>1, StagedTypes DEF TypeOK

(* The echo of an unknown command is at least a line. *)
LEMMA ErrorTypes ==
    ASSUME SessionInv
    PROVE  /\ ErrorSize \in Nat \ {0} /\ <<Item("error", ErrorSize)>> \in Seq(ItemType)
           /\ obuf' = send(obuf, <<Item("error", ErrorSize)>>) => obuf' \in Seq(ItemType)
<1>1. ErrorSize \in Nat \ {0}
  <2>1. CASE cmd_ = "unknown"
    <3>1. cur \in DOMAIN reqs BY <2>1 DEF SessionInv, StateInv
    <3>2. reqs[cur].text \in Nat /\ reqs[cur].data \in Nat BY <3>1, RequestTypes DEF SessionInv
    <3> QED BY <2>1, <3>2 DEF ErrorSize, EchoSize
  <2>2. CASE cmd_ # "unknown" BY <2>2 DEF ErrorSize
  <2> QED BY <2>1, <2>2
<1>2. TypeOK /\ "error" \in Kinds BY DEF SessionInv, Kinds
<1>3. PICK n \in Nat \ {0} : n = ErrorSize BY <1>1
<1>4. Item("error", n) \in ItemType BY <1>2, ItemTypes
<1>5. <<Item("error", n)>> \in Seq(ItemType) BY <1>4
<1>6. obuf \in Seq(ItemType) BY <1>2 DEF TypeOK
<1> QED BY <1>1, <1>2, <1>3, <1>5, <1>6, StagedTypes

LEMMA ParsedReplyTypes ==
    ASSUME SessionInv, parse_noreply, NEW k \in Kinds, obuf' = SendParsed(obuf, <<Item(k, 1)>>)
    PROVE  obuf' \in Seq(ItemType)
<1>1. TypeOK /\ <<Item(k, 1)>> \in Seq(ItemType) BY ItemTypes DEF SessionInv
<1> QED BY <1>1, StagedTypes, ParseTypes DEF TypeOK

LEMMA ErrorThrown ==
    ASSUME buffer_error PROVE crashed' \in BOOLEAN
BY DEF buffer_error

(* Steps of loop() that change nothing but the state and the output. *)
LEMMA TypeSimple ==
    ASSUME SessionInv,
           bad_command \/ empty_command \/ quit \/ version \/ stopping \/ write_result \/ send_prompt
    PROVE  SessionInv'
<1> USE DEF SessionInv, cmdVars, dataVars, ropeVars, clientVars, Running, Executing, Continue
<1>1. CASE bad_command
  <2>1. obuf' \in Seq(ItemType) BY <1>1, ErrorTypes DEF bad_command, client_error
  <2>2. crashed' \in BOOLEAN BY <1>1, ErrorThrown DEF bad_command, client_error
  <2> QED BY <1>1, <2>1, <2>2 DEF bad_command, client_error, TypeOK, StateInv, UnitsInv, States
<1>2. CASE empty_command \/ quit \/ stopping
  BY <1>2 DEF empty_command, quit, stopping, TypeOK, StateInv, UnitsInv, States
<1>3. CASE version
  <2>1. cmd_ \in Kinds BY <1>3 DEF version, Kinds
  <2>2. obuf' \in Seq(ItemType) BY <1>3, <2>1, ReplyTypes DEF version, Reply
  <2>3. crashed' \in BOOLEAN BY <1>3, ErrorThrown DEF version, Reply
  <2> QED BY <1>3, <2>2, <2>3 DEF version, Reply, TypeOK, StateInv, UnitsInv, States
<1>4. CASE write_result
  BY <1>4 DEF write_result, flush, TypeOK, StateInv, UnitsInv, States
<1>5. CASE send_prompt
  <2>1. <<>> \in Seq(ItemType) /\ <<Item("prompt", 1)>> \in Seq(ItemType)
    BY ItemTypes DEF Kinds
  <2>2. obuf' \in Seq(ItemType) BY <1>5, <2>1, StagedTypes DEF send_prompt
  <2>3. /\ UNCHANGED <<noreply_, cmdVars, ibuf, dataVars, ropeVars, clientVars, net, sent, crashed>>
        /\ state_' = "read_command" /\ out' = obuf'
        /\ io' = IF obuf' = <<>> THEN "none" ELSE "write"
    BY <1>5 DEF send_prompt, flush
  <2> QED BY <2>2, <2>3 DEF TypeOK, StateInv, UnitsInv, States
<1> QED BY <1>1, <1>2, <1>3, <1>4, <1>5

(* The commands with arguments. *)
LEMMA TypeParsing ==
    ASSUME SessionInv, del \/ incr_decr \/ touch \/ flush_all
    PROVE  SessionInv'
<1> USE DEF SessionInv, cmdVars, dataVars, ropeVars, clientVars, Executing, Running, Continue
<1>1. parse_noreply BY DEF del, incr_decr, touch, flush_all
<1>2. args_' \in Seq(Words) /\ noreply_' \in BOOLEAN /\ cmd_' = cmd_ /\ cur' = cur BY <1>1, ParseTypes
<1>3. obuf' \in Seq(ItemType) /\ state_' \in {"execute_command", "write_result"} /\ crashed' \in BOOLEAN
  <2>1. "status" \in Kinds /\ "number" \in Kinds BY DEF Kinds
  <2>2. CASE del BY <1>1, <2>1, <2>2, ParsedReplyTypes, ErrorThrown DEF del, TypeOK
  <2>3. CASE incr_decr BY <1>1, <2>1, <2>3, ParsedReplyTypes, ErrorThrown DEF incr_decr, TypeOK
  <2>4. CASE touch BY <1>1, <2>1, <2>4, ParsedReplyTypes, ErrorThrown DEF touch, TypeOK
  <2>5. CASE flush_all BY <1>1, <2>5 DEF flush_all, TypeOK
  <2> QED BY <2>2, <2>3, <2>4, <2>5
<1>4. /\ UNCHANGED <<io, out, ibuf, dataVars, ropeVars, clientVars, net, sent>>
      /\ io = "none" /\ cmd_ \notin Stores
  BY DEF del, incr_decr, touch, flush_all, Stores
<1> QED BY <1>2, <1>3, <1>4 DEF TypeOK, StateInv, UnitsInv, States

LEMMA TypeGet ==
    ASSUME SessionInv, get
    PROVE  SessionInv'
<1> USE DEF SessionInv, cmdVars, dataVars, ropeVars, clientVars, Executing, Running, Continue
<1>1. /\ state_ = "execute_command" /\ io = "none" /\ cmd_ \in {"get", "gets"}
      /\ UNCHANGED <<noreply_, cmd_, cur, ibuf, dataVars, clientVars, net, sent>>
      /\ crashed' \in BOOLEAN
  BY ErrorThrown DEF get, Reply
<1>2. "status" \in Kinds /\ "end" \in Kinds BY DEF Kinds
<1>3. CASE args_ = <<>> /\ Reply("end") /\ UNCHANGED <<args_, ropeVars>>
  <2>1. obuf' \in Seq(ItemType) BY <1>2, <1>3, ReplyTypes DEF Reply
  <2> QED BY <1>1, <1>3, <2>1 DEF Reply, TypeOK, StateInv, UnitsInv, States, Stores
<1>4. CASE args_ # <<>> /\ args_' = Tail(args_)
  <2>0. args_' \in Seq(Words) BY <1>4 DEF TypeOK
  <2>1. CASE Reply("status") /\ UNCHANGED ropeVars
    <3>1. obuf' \in Seq(ItemType) BY <1>2, <2>1, ReplyTypes DEF Reply
    <3> QED BY <1>1, <2>0, <2>1, <3>1 DEF Reply, TypeOK, StateInv, UnitsInv, States, Stores
  <2>2. ASSUME NEW r \in Ropes, NEW b, b = send(obuf, <<ValueItem(Head(args_), r)>>), FitsObuf(b, r),
               obuf' = send(b, RopeItems(r)), Continue, UNCHANGED <<state_, ropeVars>>
        PROVE  SessionInv'
    <3>1. <<ValueItem(Head(args_), r)>> \in Seq(ItemType) /\ RopeItems(r) \in Seq(ItemType) BY ItemTypes
    <3>2. b \in Seq(ItemType) BY <2>2, <3>1, StagedTypes DEF TypeOK
    <3>3. obuf' \in Seq(ItemType) BY <2>2, <3>1, <3>2, StagedTypes
    <3> QED BY <1>1, <2>0, <2>2, <3>3 DEF TypeOK, StateInv, UnitsInv, States, Stores
  <2>3. ASSUME NEW r \in Ropes, NEW b, b = send(obuf, <<ValueItem(Head(args_), r)>>), odata_' = r, fate' = "live",
               state_' = "write_data", obuf' = b, flush(b)
        PROVE  SessionInv'
    <3>1. <<ValueItem(Head(args_), r)>> \in Seq(ItemType) BY ItemTypes
    <3>2. b \in Seq(ItemType) BY <2>3, <3>1, StagedTypes DEF TypeOK
    <3>3. odata_' \in Seq(Nat \ {0}) BY <2>3, SizesAssumption
    <3>4. out' = b /\ io' = IF b = <<>> THEN "none" ELSE "write" BY <2>3 DEF flush
    <3> QED BY <1>1, <2>0, <2>3, <3>2, <3>3, <3>4 DEF TypeOK, StateInv, UnitsInv, States, Stores
  <2>4. \/ Reply("status") /\ UNCHANGED ropeVars
        \/ \E r \in Ropes : LET b == send(obuf, <<ValueItem(Head(args_), r)>>)
                            IN \/ FitsObuf(b, r) /\ obuf' = send(b, RopeItems(r)) /\ Continue
                                  /\ UNCHANGED <<state_, ropeVars>>
                               \/ odata_' = r /\ fate' = "live" /\ state_' = "write_data"
                                  /\ obuf' = b /\ flush(b)
    BY <1>4 DEF get
  <2> QED BY <2>1, <2>2, <2>3, <2>4
<1> QED BY <1>3, <1>4 DEF get

LEMMA TypeSendData ==
    ASSUME SessionInv, send_data
    PROVE  SessionInv'
<1> USE DEF SessionInv, cmdVars, dataVars, ropeVars, clientVars, Running, Continue
<1>1. /\ state_ = "write_data" /\ io = "none"
      /\ UNCHANGED <<noreply_, cmdVars, ibuf, dataVars, fate, clientVars, net, sent, crashed>>
  BY DEF send_data
<1>2. <<>> \in Seq(ItemType) /\ <<Item("crlf", 1)>> \in Seq(ItemType) BY ItemTypes DEF Kinds
<1>3. CASE odata_ = <<>>
  <2>1. obuf' \in Seq(ItemType) BY <1>2, <1>3, StagedTypes DEF send_data
  <2> QED BY <1>1, <1>3, <2>1 DEF send_data, TypeOK, StateInv, UnitsInv, States, Stores
<1>4. CASE odata_ # <<>>
  <2>1. Head(odata_) \in Nat \ {0} /\ Tail(odata_) \in Seq(Nat \ {0}) BY <1>4 DEF TypeOK
  <2>2. <<DataItem(Head(odata_))>> \in Seq(ItemType) BY <2>1, ItemTypes
  <2>3. /\ out' = <<DataItem(Head(odata_))>> /\ odata_' = Tail(odata_) /\ obuf' = <<>>
        /\ io' = "write" /\ state_' = state_
    BY <1>4 DEF send_data
  <2>4. out' \in Seq(ItemType) /\ out' # <<>> /\ obuf' \in Seq(ItemType) /\ odata_' \in Seq(Nat \ {0})
    BY <1>2, <2>1, <2>2, <2>3
  <2> QED BY <1>1, <2>3, <2>4 DEF TypeOK, StateInv, UnitsInv, States, Stores
<1> QED BY <1>3, <1>4

(* The data block. *)
LEMMA LeastType ==
    ASSUME NEW a \in Nat, NEW b \in Nat
    PROVE  LeastOf(a, b) \in Nat /\ LeastOf(a, b) <= a /\ LeastOf(a, b) <= b /\ LeastOf(a, b) \in {a, b}
BY DEF LeastOf

LEMMA TypeRecvData ==
    ASSUME SessionInv, recv_data
    PROVE  SessionInv'
<1> USE DEF SessionInv, cmdVars, dataVars, ropeVars, clientVars, Executing, Running
<1>1. /\ state_ = "execute_command" /\ io = "none" /\ cmd_ \in Stores /\ parse_noreply
      /\ got' = 0 /\ state_' = "execute_write"
      /\ UNCHANGED <<obuf, stored, ropeVars, out, clientVars, net, sent, crashed>>
  BY DEF recv_data
<1>2. args_' \in Seq(Words) /\ noreply_' \in BOOLEAN /\ cmd_' = cmd_ /\ cur' = cur BY <1>1, ParseTypes
<1>3. cur \in DOMAIN reqs BY <1>1 DEF StateInv
<1>4. PICK bytes \in Nat : bytes = reqs[cur].data BY <1>3, RequestTypes
<1>0. ibuf \in Seq(UnitType) /\ Len(ibuf) \in Nat BY DEF TypeOK
<1>5. PICK ready \in Nat : ready = LeastOf(bytes, Len(ibuf)) /\ ready <= bytes /\ ready <= Len(ibuf)
  BY <1>0, LeastType
<1>6. /\ idata_' = [k \in 1..bytes |-> IF k <= ready THEN ibuf[k] ELSE Uninitialized]
      /\ ibuf' = SubSeq(ibuf, ready + 1, Len(ibuf))
      /\ left' = bytes - ready
      /\ io' = IF ready = bytes THEN "none" ELSE "read_data"
  BY <1>4, <1>5 DEF recv_data
<1>7. /\ ibuf' \in Seq(UnitType) /\ Len(ibuf') = Len(ibuf) - ready
      /\ \A i \in 1..Len(ibuf) - ready : ibuf'[i] = ibuf[i + ready]
  <2>1. ibuf \in Seq(UnitType) /\ ready \in 0..Len(ibuf) BY <1>5 DEF TypeOK
  <2> QED BY <1>6, <2>1, DropSeq
<1>8. Len(ibuf') <= IbufSize
  <2>1. Len(ibuf) <= IbufSize /\ IbufSize \in Nat BY SizesAssumption DEF TypeOK
  <2>2. \A a, b, c \in Nat : b <= a /\ a <= c => a - b <= c OBVIOUS
  <2>3. Len(ibuf) - ready <= IbufSize BY <1>0, <1>5, <2>1, <2>2
  <2> QED BY <1>7, <2>3
<1>9. idata_' \in Seq(UnitType) /\ Len(idata_') = bytes
  <2>1. Uninitialized \in UnitType BY DEF Uninitialized, UnitType
  <2>2. \A k \in 1..ready : ibuf[k] \in UnitType
    <3>1. \A k \in 1..ready : k \in 1..Len(ibuf) BY <1>0, <1>5
    <3> QED BY <1>0, <3>1
  <2>3. \A k \in 1..bytes : (IF k <= ready THEN ibuf[k] ELSE Uninitialized) \in UnitType BY <2>1, <2>2
  <2> QED BY <1>6, <2>3
<1>10. \A p \in DOMAIN ibuf' : ibuf'[p].req \in DOMAIN reqs
  <2>1. ASSUME NEW p \in DOMAIN ibuf' PROVE ibuf'[p].req \in DOMAIN reqs
    <3>1. p \in 1..Len(ibuf) - ready BY <1>7
    <3>2. ibuf'[p] = ibuf[p + ready] /\ p + ready \in DOMAIN ibuf BY <1>0, <1>5, <1>7, <3>1
    <3> QED BY <3>2 DEF UnitsInv
  <2> QED BY <2>1
<1>11. left' \in Nat /\ (left' = 0 <=> io' = "none") /\ io' \in {"none", "read_data"} /\ left' <= bytes
  BY <1>5, <1>6
<1>15. out' = <<>> /\ out' = out BY <1>1 DEF TypeOK
<1>12. TypeOK'
  <2>1. idata_' \in Seq(UnitType) /\ got' \in Nat /\ left' \in Nat /\ got' + left' <= Len(idata_')
    <3>1. got' = 0 BY <1>1
    <3>2. left' \in Nat /\ left' <= bytes BY <1>11
    <3>3. \A g, l \in Nat : g = 0 /\ l <= bytes => g + l <= bytes OBVIOUS
    <3> QED BY <1>9, <3>1, <3>2, <3>3
  <2>2. io' \in {"none", "read_data"} /\ (io' = "write") = (out' # <<>>)
    BY <1>11, <1>15
  <2> QED BY <1>1, <1>2, <1>7, <1>8, <2>1, <2>2 DEF TypeOK, States
<1>13. StateInv' BY <1>1, <1>2, <1>3, <1>11 DEF StateInv
<1>14. UnitsInv' BY <1>1, <1>10 DEF UnitsInv
<1> QED BY <1>12, <1>13, <1>14

LEMMA TypeDataArrives ==
    ASSUME SessionInv, data_arrives
    PROVE  SessionInv'
<1> USE DEF SessionInv, cmdVars, dataVars, ropeVars, clientVars
<1>1. PICK n \in 1..LeastOf(left, Len(net)) :
           /\ idata_' = [k \in DOMAIN idata_ |->
                           IF k \in got+1..got+n THEN net[k - got] ELSE idata_[k]]
           /\ net' = SubSeq(net, n + 1, Len(net))
           /\ got' = got + n
           /\ left' = left - n
           /\ io' = IF left = n THEN "none" ELSE io
  BY DEF data_arrives
<1>0. left \in Nat /\ got \in Nat /\ Len(net) \in Nat /\ net \in Seq(UnitType) BY DEF TypeOK
<1>2. n \in Nat /\ n <= left /\ n <= Len(net) /\ n >= 1
  <2>1. PICK m \in Nat : m = LeastOf(left, Len(net)) /\ m <= left /\ m <= Len(net) BY <1>0, LeastType
  <2> QED BY <1>0, <2>1
<1>3. /\ io = "read_data" /\ state_ = "execute_write"
      /\ UNCHANGED <<state_, noreply_, cmdVars, ibuf, obuf, stored, ropeVars, out, clientVars, sent, crashed>>
  BY DEF data_arrives, StateInv
<1>4. /\ net' \in Seq(UnitType) /\ Len(net') = Len(net) - n
      /\ \A i \in 1..Len(net) - n : net'[i] = net[i + n]
  <2>1. n \in 0..Len(net) BY <1>0, <1>2
  <2> QED BY <1>0, <1>1, <2>1, DropSeq
<1>5. idata_' \in Seq(UnitType) /\ Len(idata_') = Len(idata_)
  <2>1. idata_ \in Seq(UnitType) /\ net \in Seq(UnitType) BY DEF TypeOK
  <2>2. PICK l \in Nat : l = Len(idata_) BY <2>1
  <2>3. \A k \in 1..l : (IF k \in got+1..got+n THEN net[k - got] ELSE idata_[k]) \in UnitType
    BY <1>0, <1>2, <2>1, <2>2
  <2>4. idata_' = [k \in 1..l |-> IF k \in got+1..got+n THEN net[k - got] ELSE idata_[k]]
    BY <1>1, <2>1, <2>2
  <2> QED BY <2>2, <2>3, <2>4
<1>6. \A p \in DOMAIN net' : net'[p].req \in DOMAIN reqs
  <2>1. ASSUME NEW p \in DOMAIN net' PROVE net'[p].req \in DOMAIN reqs
    <3>1. p \in 1..Len(net) - n BY <1>4
    <3>2. net'[p] = net[p + n] BY <1>4, <3>1
    <3>3. p + n \in 1..Len(net) BY <1>0, <1>2, <3>1
    <3>4. p + n \in DOMAIN net BY <1>0, <3>3
    <3> QED BY <3>2, <3>4 DEF UnitsInv
  <2> QED BY <2>1
<1>7. /\ left' \in Nat /\ got' \in Nat /\ got' + left' = got + left
      /\ io' \in {"none", "read_data"} /\ (left' = 0 <=> io' = "none")
  BY <1>0, <1>1, <1>2, <1>3
<1>8. TypeOK' BY <1>3, <1>4, <1>5, <1>7 DEF TypeOK
<1>9. StateInv' BY <1>3, <1>7 DEF StateInv
<1>10. UnitsInv' BY <1>3, <1>6 DEF UnitsInv
<1> QED BY <1>8, <1>9, <1>10

LEMMA TypeDispatchWrite ==
    ASSUME SessionInv, dispatch_write
    PROVE  SessionInv'
<1> USE DEF SessionInv, cmdVars, dataVars, ropeVars, clientVars, Running, Continue
<1>1. /\ state_ = "execute_write" /\ io = "none" /\ state_' = "write_result"
      /\ obuf' = send(obuf, <<Item("status", 1)>>) /\ stored' = Append(stored, [req |-> cur, data |-> idata_])
      /\ UNCHANGED <<io, out, noreply_, cmdVars, ibuf, idata_, got, left, ropeVars, clientVars, net, sent>>
      /\ crashed' \in BOOLEAN
  BY ErrorThrown DEF dispatch_write, Reply
<1>2. obuf' \in Seq(ItemType)
  <2>1. "status" \in Kinds BY DEF Kinds
  <2> QED BY <1>1, <2>1, ReplyTypes
<1>3. cur \in 1..MaxRequests BY <1>1, RequestTypes DEF StateInv
<1>4. stored' \in Seq([req : 1..MaxRequests, data : Seq(UnitType)])
  <2>1. [req |-> cur, data |-> idata_] \in [req : 1..MaxRequests, data : Seq(UnitType)]
    BY <1>3 DEF TypeOK
  <2> QED BY <1>1, <2>1 DEF TypeOK
<1> QED BY <1>1, <1>2, <1>4 DEF TypeOK, StateInv, UnitsInv, States

(* find_end_of_command returns the first end of line. *)
LEMMA EndOfCommand ==
    ASSUME NEW S, NEW b \in Seq(S), NEW e, e = find_end_of_command(b)
    PROVE  /\ e \in 0..Len(b)
           /\ e = 0 => \A i \in 1..Len(b) : ~EndsLine(b[i])
           /\ e # 0 => EndsLine(b[e]) /\ \A i \in 1..e-1 : ~EndsLine(b[i])
<1> DEFINE I == {i \in 1..Len(b) : EndsLine(b[i])}
<1>1. e = IF I # {} THEN Min(I) ELSE 0 BY DEF find_end_of_command, SelectInSeq
<1>2. CASE I = {}
  <2>1. e = 0 BY <1>1, <1>2
  <2> QED BY <1>2, <2>1
<1>3. CASE I # {}
  <2>1. I \subseteq Nat OBVIOUS
  <2>2. \E x \in I : \A y \in I : x <= y BY <1>3, <2>1, Least
  <2>3. Min(I) \in I /\ \A y \in I : Min(I) <= y BY <2>2 DEF Min
  <2>4. e = Min(I) BY <1>1, <1>3
  <2>5. e \in 1..Len(b) /\ EndsLine(b[e]) BY <2>3, <2>4
  <2>6. ASSUME NEW i \in 1..e-1 PROVE ~EndsLine(b[i])
    <3>1. i \in 1..Len(b) /\ ~(e <= i) BY <2>5
    <3> QED BY <2>3, <2>4, <3>1
  <2> QED BY <2>5, <2>6
<1> QED BY <1>2, <1>3

(* A buffer b of units of the stream, at most full. *)
LEMMA TypeCmdReady ==
    ASSUME SessionInv, NEW b \in Seq(UnitType), Len(b) <= IbufSize,
           \A p \in DOMAIN b : b[p].req \in DOMAIN reqs, cmd_ready(b),
           obuf' \in Seq(ItemType), noreply_' \in BOOLEAN, out = <<>>,
           net' \in Seq(UnitType), \A p \in DOMAIN net' : net'[p].req \in DOMAIN reqs,
           UNCHANGED <<dataVars, ropeVars, out, clientVars, sent, crashed>>
    PROVE  SessionInv'
<1> USE DEF SessionInv, cmdVars, dataVars, ropeVars, clientVars
<1>1. PICK e : e = find_end_of_command(b) OBVIOUS
<1>2. e \in 0..Len(b) BY <1>1, EndOfCommand
<1>3. CASE e # 0
  <2>1. /\ cmd_' = Name(Head(b)) /\ cur' = Head(b).req
        /\ args_' = IF Head(b).part = "text" THEN reqs[Head(b).req].args ELSE <<>>
        /\ ibuf' = SubSeq(b, e + 1, Len(b)) /\ state_' = "execute_command" /\ io' = "none"
    BY <1>1, <1>3 DEF cmd_ready
  <2>2. 1 \in DOMAIN b /\ Head(b) = b[1] BY <1>2, <1>3
  <2>3. PICK i \in DOMAIN reqs : i = Head(b).req BY <2>2
  <2>4. i \in 1..MaxRequests /\ reqs[i].cmd \in Commands \cup {"unknown"} /\ reqs[i].args \in Seq(Words)
    BY RequestTypes
  <2>5. cmd_' \in Commands \cup {"empty", "unknown"} /\ cur' = i /\ cur' \in 0..MaxRequests
    BY <2>1, <2>3, <2>4, SizesAssumption DEF Name
  <2>6. args_' \in Seq(Words) BY <2>1, <2>3, <2>4
  <2>7. /\ ibuf' \in Seq(UnitType) /\ Len(ibuf') = Len(b) - e
        /\ \A j \in 1..Len(b) - e : ibuf'[j] = b[j + e]
    BY <1>2, <2>1, DropSeq
  <2>8. Len(ibuf') <= IbufSize BY <1>2, <2>7, SizesAssumption
  <2>9. ASSUME NEW p \in DOMAIN ibuf' PROVE ibuf'[p].req \in DOMAIN reqs
    <3>1. p \in 1..Len(b) - e BY <2>7
    <3>2. ibuf'[p] = b[p + e] /\ p + e \in DOMAIN b BY <1>2, <2>7, <3>1
    <3> QED BY <3>2
  <2>10. TypeOK' BY <2>1, <2>5, <2>6, <2>7, <2>8 DEF TypeOK, States
  <2>11. StateInv' BY <2>1, <2>3, <2>5 DEF StateInv
  <2>12. UnitsInv' BY <2>9 DEF UnitsInv
  <2> QED BY <2>10, <2>11, <2>12
<1>4. CASE e = 0
  <2>1. /\ UNCHANGED cmdVars /\ ibuf' = b
        /\ \/ state_' = "stopping" /\ io' = "none"
           \/ state_' = "execute_command" /\ io' = "read_command"
    BY <1>1, <1>4 DEF cmd_ready
  <2>2. TypeOK' BY <2>1 DEF TypeOK, States
  <2>3. StateInv' BY <2>1 DEF StateInv
  <2>4. UnitsInv' BY <2>1 DEF UnitsInv
  <2> QED BY <2>2, <2>3, <2>4
<1> QED BY <1>3, <1>4

LEMMA TypeRecvCommand ==
    ASSUME SessionInv, recv_command
    PROVE  SessionInv'
<1>1. TypeOK /\ UnitsInv /\ <<>> \in Seq(ItemType) BY DEF SessionInv
<1>2. out = <<>> BY <1>1 DEF recv_command, Running, TypeOK
<1> QED BY <1>1, <1>2, TypeCmdReady DEF recv_command, TypeOK, UnitsInv

(* What a read of n units into the input buffer gives. *)
LEMMA Arrived ==
    ASSUME SessionInv, NEW n \in 1..LeastOf(IbufSize - Len(ibuf), Len(net)),
           net' = SubSeq(net, n + 1, Len(net))
    PROVE  /\ n \in 1..Len(net) /\ Len(ibuf) + n <= IbufSize
           /\ ibuf \o SubSeq(net, 1, n) \in Seq(UnitType)
           /\ Len(ibuf \o SubSeq(net, 1, n)) = Len(ibuf) + n
           /\ \A p \in DOMAIN (ibuf \o SubSeq(net, 1, n)) :
                  (ibuf \o SubSeq(net, 1, n))[p].req \in DOMAIN reqs
           /\ net' \in Seq(UnitType) /\ \A p \in DOMAIN net' : net'[p].req \in DOMAIN reqs
<1>1. /\ ibuf \in Seq(UnitType) /\ net \in Seq(UnitType) /\ Len(ibuf) \in Nat /\ Len(net) \in Nat
      /\ Len(ibuf) <= IbufSize /\ IbufSize \in Nat
  <2>1. ibuf \in Seq(UnitType) /\ net \in Seq(UnitType) /\ Len(ibuf) <= IbufSize
    BY DEF SessionInv, TypeOK
  <2> QED BY <2>1, SizesAssumption
<1>2. IbufSize - Len(ibuf) \in Nat BY <1>1
<1>3. PICK m \in Nat : m = LeastOf(IbufSize - Len(ibuf), Len(net)) /\ m <= IbufSize - Len(ibuf) /\ m <= Len(net)
  BY <1>1, <1>2, LeastType
<1>4. n \in 1..Len(net) /\ n \in 0..Len(net) /\ Len(ibuf) + n <= IbufSize BY <1>1, <1>3
<1>5. PICK t : t = SubSeq(net, 1, n) OBVIOUS
<1>6. t \in Seq(UnitType) /\ Len(t) = n /\ \A i \in 1..n : t[i] = net[i] BY <1>1, <1>4, <1>5, TakeSeq
<1>7. PICK b : b = ibuf \o t OBVIOUS
<1>8. /\ b \in Seq(UnitType) /\ Len(b) = Len(ibuf) + n
      /\ \A i \in 1..Len(ibuf) : b[i] = ibuf[i]
      /\ \A i \in 1..n : b[Len(ibuf) + i] = t[i]
  <2>1. ibuf \in Seq(UnitType) /\ t \in Seq(UnitType) /\ b = ibuf \o t BY <1>1, <1>6, <1>7
  <2>2. /\ b \in Seq(UnitType) /\ Len(b) = Len(ibuf) + Len(t)
        /\ \A i \in 1..Len(ibuf) : b[i] = ibuf[i]
        /\ \A i \in 1..Len(t) : b[Len(ibuf) + i] = t[i]
    BY <2>1, JoinSeq
  <2> QED BY <1>6, <2>2
<1>9. ASSUME NEW p \in DOMAIN b PROVE b[p].req \in DOMAIN reqs
  <2>1. CASE p \in 1..Len(ibuf)
    <3>1. b[p] = ibuf[p] BY <1>8, <2>1
    <3> QED BY <1>1, <2>1, <3>1 DEF SessionInv, UnitsInv
  <2>2. CASE p \notin 1..Len(ibuf)
    <3>1. PICK i \in 1..n : p = Len(ibuf) + i
      <4>1. p \in 1..Len(ibuf) + n BY <1>8
      <4>2. p - Len(ibuf) \in 1..n /\ p = Len(ibuf) + (p - Len(ibuf)) BY <1>1, <2>2, <4>1
      <4> QED BY <4>2
    <3>2. b[p] = net[i] /\ i \in DOMAIN net BY <1>1, <1>4, <1>6, <1>7, <3>1
    <3> QED BY <3>2 DEF SessionInv, UnitsInv
  <2> QED BY <2>1, <2>2
<1>10. net' \in Seq(UnitType) /\ Len(net') = Len(net) - n /\ \A i \in 1..Len(net) - n : net'[i] = net[i + n]
  BY <1>1, <1>4, DropSeq
<1>11. ASSUME NEW p \in DOMAIN net' PROVE net'[p].req \in DOMAIN reqs
  <2>1. p \in 1..Len(net) - n BY <1>10
  <2>2. net'[p] = net[p + n] BY <1>10, <2>1
  <2>3. p + n \in 1..Len(net) BY <1>1, <1>4, <2>1
  <2>4. p + n \in DOMAIN net BY <1>1, <2>3
  <2> QED BY <2>2, <2>4 DEF SessionInv, UnitsInv
<1> QED BY <1>4, <1>5, <1>7, <1>8, <1>9, <1>10, <1>11

LEMMA TypeCmdArrives ==
    ASSUME SessionInv, cmd_arrives
    PROVE  SessionInv'
<1>1. PICK n \in 1..LeastOf(IbufSize - Len(ibuf), Len(net)) :
          cmd_ready(ibuf \o SubSeq(net, 1, n)) /\ net' = SubSeq(net, n + 1, Len(net))
  BY DEF cmd_arrives
<1>2. PICK b : b = ibuf \o SubSeq(net, 1, n) OBVIOUS
<1>3. /\ b \in Seq(UnitType) /\ Len(b) <= IbufSize
      /\ \A p \in DOMAIN b : b[p].req \in DOMAIN reqs
      /\ net' \in Seq(UnitType) /\ \A p \in DOMAIN net' : net'[p].req \in DOMAIN reqs
  BY <1>1, <1>2, Arrived
<1>4. out = <<>> /\ obuf' \in Seq(ItemType) /\ noreply_' \in BOOLEAN
  BY DEF cmd_arrives, SessionInv, TypeOK
<1> QED BY <1>1, <1>2, <1>3, <1>4, TypeCmdReady DEF cmd_arrives

LEMMA TypeCallbacks ==
    ASSUME SessionInv, write_done \/ io_error \/ end_of_file
    PROVE  SessionInv'
<1> USE DEF SessionInv, cmdVars, dataVars, ropeVars, clientVars
<1>1. CASE write_done
  <2>1. sent' \in Seq(ItemType) /\ out' = <<>> /\ io' = "none"
    BY <1>1, JoinSeq DEF write_done, TypeOK
  <2>2. TypeOK' BY <1>1, <2>1 DEF write_done, TypeOK
  <2> QED BY <1>1, <2>2 DEF write_done, StateInv, UnitsInv
<1>2. CASE io_error
  <2>1. PICK n \in 0..Len(out) : sent' = sent \o SubSeq(out, 1, n) BY <1>2 DEF io_error
  <2>2. SubSeq(out, 1, n) \in Seq(ItemType) BY TakeSeq DEF TypeOK
  <2>3. sent' \in Seq(ItemType) BY <2>1, <2>2, JoinSeq DEF TypeOK
  <2>4. /\ state_' = "stopping" /\ io' = "none" /\ out' = <<>>
        /\ UNCHANGED <<noreply_, cmdVars, ibuf, obuf, dataVars, ropeVars, clientVars, net, crashed>>
    BY <1>2 DEF io_error
  <2>5. TypeOK' BY <2>3, <2>4 DEF TypeOK, States
  <2> QED BY <2>4, <2>5 DEF StateInv, UnitsInv
<1>3. CASE end_of_file
  BY <1>3 DEF end_of_file, TypeOK, States, StateInv, UnitsInv
<1> QED BY <1>1, <1>2, <1>3

LEMMA TypeClient ==
    ASSUME SessionInv, Client \/ displace \/ thread_timer
    PROVE  SessionInv'
<1> USE DEF SessionInv, cmdVars, dataVars, ropeVars, clientVars
<1>1. CASE client_send
  <2>1. PICK r \in Requests : reqs' = Append(reqs, r) /\ net' = net \o Wire(Len(reqs) + 1, r)
    BY <1>1 DEF client_send
  <2>2. PICK n \in Nat : n = Len(reqs) BY DEF TypeOK
  <2>3. PICK w : w = Wire(Len(reqs) + 1, r) OBVIOUS
  <2>4. w \in Seq(UnitType) /\ \A p \in DOMAIN w : w[p].req = n + 1
    <3>1. n + 1 \in Nat OBVIOUS
    <3> QED BY <2>2, <2>3, <3>1, WireTypes
  <2>5. reqs \in Seq(Requests) /\ net \in Seq(UnitType) /\ ibuf \in Seq(UnitType) BY DEF TypeOK
  <2>6. /\ reqs' \in Seq(Requests) /\ Len(reqs') = n + 1 /\ DOMAIN reqs' = 1..n + 1 /\ DOMAIN reqs = 1..n
        /\ DOMAIN reqs \subseteq DOMAIN reqs' /\ n + 1 \in DOMAIN reqs'
    BY <2>1, <2>2, <2>5
  <2>7. n + 1 <= MaxRequests BY <1>1, <2>2, SizesAssumption DEF client_send
  <2>8. net' \in Seq(UnitType) /\ \A p \in DOMAIN net' : net'[p].req \in DOMAIN reqs'
    <3>1. /\ net' \in Seq(UnitType) /\ Len(net') = Len(net) + Len(w)
          /\ \A i \in 1..Len(net) : net'[i] = net[i]
          /\ \A i \in 1..Len(w) : net'[Len(net) + i] = w[i]
      BY <2>1, <2>3, <2>4, <2>5, JoinSeq
    <3>2. ASSUME NEW p \in DOMAIN net' PROVE net'[p].req \in DOMAIN reqs'
      <4>1. CASE p \in 1..Len(net)
        <5>1. net'[p] = net[p] BY <3>1, <4>1
        <5>2. net[p].req \in DOMAIN reqs BY <2>5, <4>1 DEF UnitsInv
        <5> QED BY <2>6, <5>1, <5>2
      <4>2. CASE p \notin 1..Len(net)
        <5>1. PICK i \in 1..Len(w) : p = Len(net) + i
          <6>1. p \in 1..Len(net) + Len(w) BY <3>1
          <6>2. p - Len(net) \in 1..Len(w) /\ p = Len(net) + (p - Len(net)) BY <2>4, <2>5, <4>2, <6>1
          <6> QED BY <6>2
        <5>2. net'[p].req = n + 1 BY <2>4, <3>1, <5>1
        <5> QED BY <2>6, <5>2
      <4> QED BY <4>1, <4>2
    <3> QED BY <3>1, <3>2
  <2>9. UNCHANGED <<state_, noreply_, cmdVars, ibuf, obuf, dataVars, ropeVars, io, out, closed, sent, crashed>>
    BY <1>1 DEF client_send
  <2>10. TypeOK' BY <2>2, <2>6, <2>7, <2>8, <2>9 DEF TypeOK
  <2>11. StateInv' BY <2>6, <2>9 DEF StateInv
  <2>12. UnitsInv' BY <2>6, <2>8, <2>9 DEF UnitsInv
  <2> QED BY <2>10, <2>11, <2>12
<1>2. CASE client_close BY <1>2 DEF client_close, TypeOK, StateInv, UnitsInv
<1>3. CASE displace \/ thread_timer BY <1>3 DEF displace, thread_timer, TypeOK, StateInv, UnitsInv
<1> QED BY <1>1, <1>2, <1>3 DEF Client

LEMMA TypeInit ==
    ASSUME Init
    PROVE  SessionInv
<1>1. \A S : <<>> \in Seq(S) /\ Len(<<>>) = 0 OBVIOUS
<1>2. UnitsInv BY DEF Init, UnitsInv
<1>3. StateInv BY DEF Init, StateInv, Stores
<1>4. /\ ibuf = <<>> /\ obuf = <<>> /\ out = <<>> /\ sent = <<>> /\ idata_ = <<>> /\ reqs = <<>>
      /\ net = <<>> /\ stored = <<>> /\ args_ = <<>> /\ odata_ = <<>> /\ cur = 0 /\ got = 0 /\ left = 0
  BY DEF Init
<1>5. 0 \in 0..MaxRequests /\ 0 <= IbufSize /\ 0 <= MaxRequests /\ 0 + 0 <= 0 BY SizesAssumption
<1>6. TypeOK
  <2>1. /\ ibuf \in Seq(UnitType) /\ net \in Seq(UnitType) /\ idata_ \in Seq(UnitType)
        /\ obuf \in Seq(ItemType) /\ out \in Seq(ItemType) /\ sent \in Seq(ItemType)
        /\ reqs \in Seq(Requests) /\ args_ \in Seq(Words) /\ odata_ \in Seq(Nat \ {0})
        /\ stored \in Seq([req : 1..MaxRequests, data : Seq(UnitType)])
    BY <1>1, <1>4
  <2>2. Len(ibuf) <= IbufSize /\ Len(reqs) <= MaxRequests /\ got + left <= Len(idata_) /\ got \in Nat /\ left \in Nat
    BY <1>1, <1>4, <1>5
  <2>3. state_ \in States /\ noreply_ \in BOOLEAN /\ cmd_ \in Commands \cup {"empty", "unknown"}
    BY DEF Init, States
  <2>4. /\ fate \in {"live", "removed", "freed"} /\ io = "none"
        /\ (io = "write") = (out # <<>>) /\ closed \in BOOLEAN /\ crashed \in BOOLEAN
    BY <1>4 DEF Init
  <2>5. cur \in 0..MaxRequests BY <1>4, <1>5
  <2> QED BY <2>1, <2>2, <2>3, <2>4, <2>5 DEF TypeOK
<1> QED BY <1>2, <1>3, <1>6 DEF SessionInv

LEMMA TypeNext ==
    ASSUME SessionInv, [Next]_vars
    PROVE  SessionInv'
<1>1. CASE UNCHANGED vars
  BY <1>1 DEF vars, cmdVars, dataVars, ropeVars, clientVars, SessionInv, TypeOK, StateInv, UnitsInv
<1>2. CASE Dispatch BY <1>2, TypeSimple, TypeParsing, TypeGet, TypeRecvData DEF Dispatch
<1>3. CASE Loop
  BY <1>2, <1>3, TypeSimple, TypeRecvCommand, TypeDispatchWrite, TypeSendData DEF Loop
<1>4. CASE Arrival BY <1>4, TypeCmdArrives, TypeDataArrives, TypeCallbacks DEF Arrival
<1>5. CASE io_error \/ Client \/ displace \/ thread_timer BY <1>5, TypeCallbacks, TypeClient
<1> QED BY <1>1, <1>3, <1>4, <1>5 DEF Next

(***************************************************************************)
(* Type correctness of the session with the facts it rests on: which       *)
(* operation is pending in which state, and that a store which waits for   *)
(* its block belongs to a request that was sent.                           *)
(***************************************************************************)
THEOREM SessionCorrect == Spec => []SessionInv
BY TypeInit, TypeNext, PTL DEF Spec

(***************************************************************************)
(* Every variable of a session has its type in every reachable state, the  *)
(* input buffer respects its size, an operation is pending only in a state *)
(* that waits for it, and a write just when there is something to write,   *)
(* for any requests and any way reads split them.                          *)
(***************************************************************************)
THEOREM TypeCorrect == Spec => []TypeOK
<1>1. SessionInv => TypeOK BY DEF SessionInv
<1> QED BY <1>1, SessionCorrect, PTL

-----------------------------------------------------------------------------
(* The output buffer.                                                      *)

LEMMA UsedNat ==
    ASSUME NEW b \in Seq(ItemType)
    PROVE  Used(b) \in Nat /\ [i \in DOMAIN b |-> b[i].size] \in Seq(Nat)
<1>1. PICK n \in Nat : n = Len(b) /\ DOMAIN b = 1..n OBVIOUS
<1>2. ASSUME NEW i \in 1..n PROVE b[i].size \in Nat
  <2>1. b[i] \in ItemType BY <1>1
  <2> QED BY <2>1 DEF ItemType
<1>3. [i \in DOMAIN b |-> b[i].size] \in Seq(Nat) BY <1>1, <1>2
<1> QED BY <1>3, TotalNat DEF Used

LEMMA UsedJoin ==
    ASSUME NEW b \in Seq(ItemType), NEW c \in Seq(ItemType)
    PROVE  Used(b \o c) = Used(b) + Used(c)
<1>1. PICK m \in Nat, n \in Nat : m = Len(b) /\ DOMAIN b = 1..m /\ n = Len(c) /\ DOMAIN c = 1..n
  OBVIOUS
<1>2. PICK d : d = b \o c OBVIOUS
<1>3. /\ d \in Seq(ItemType) /\ DOMAIN d = 1..m + n /\ Len(d) = m + n
      /\ \A i \in 1..m : d[i] = b[i]
      /\ \A i \in m + 1..m + n : d[i] = c[i - m]
  BY <1>1, <1>2
<1>4. PICK f, g, h : /\ f = [i \in DOMAIN b |-> b[i].size] /\ g = [i \in DOMAIN c |-> c[i].size]
                     /\ h = [i \in DOMAIN d |-> d[i].size]
  OBVIOUS
<1>5. f \in Seq(Nat) /\ g \in Seq(Nat) /\ h \in Seq(Nat) BY <1>3, <1>4, UsedNat
<1>6. Len(f) = m /\ Len(g) = n /\ Len(h) = m + n BY <1>1, <1>3, <1>4
<1>9. /\ f \o g \in Seq(Nat) /\ Len(f \o g) = Len(f) + Len(g)
      /\ \A i \in 1..Len(f) : (f \o g)[i] = f[i]
      /\ \A i \in 1..Len(g) : (f \o g)[Len(f) + i] = g[i]
  BY <1>5, JoinSeq
<1>7. h = f \o g
  <2>1. ASSUME NEW i \in 1..m + n PROVE h[i] = (f \o g)[i]
    <3>1. CASE i \in 1..m BY <1>1, <1>3, <1>4, <1>5, <1>6, <3>1
    <3>2. CASE i \notin 1..m
      <4>1. i \in m + 1..m + n /\ i - m \in 1..n BY <3>2
      <4>2. h[i] = c[i - m].size BY <1>3, <1>4, <4>1
      <4>3. g[i - m] = c[i - m].size BY <1>1, <1>4, <4>1
      <4>4. (f \o g)[i] = g[i - m]
        <5>1. PICK j \in 1..n : j = i - m /\ i = m + j BY <4>1
        <5> QED BY <1>6, <1>9, <5>1
      <4> QED BY <4>2, <4>3, <4>4
    <3> QED BY <3>1, <3>2
  <2>2. f \o g \in Seq(Nat) /\ Len(f \o g) = m + n BY <1>6, <1>9
  <2>3. PICK e : e = f \o g OBVIOUS
  <2> QED BY <1>5, <1>6, <2>1, <2>2, <2>3, SameSeq
<1>8. Total(h) = Total(f) + Total(g) BY <1>5, <1>7, TotalConcat
<1> QED BY <1>2, <1>4, <1>8 DEF Used

LEMMA UsedSmall ==
    /\ Used(<<>>) = 0
    /\ \A x \in ItemType : Used(<<x>>) = x.size
<1>1. Used(<<>>) = 0
  <2>1. [i \in DOMAIN <<>> |-> <<>>[i].size] = <<>> OBVIOUS
  <2> QED BY <2>1, TotalSmall DEF Used
<1>2. ASSUME NEW x \in ItemType PROVE Used(<<x>>) = x.size
  <2>1. [i \in DOMAIN <<x>> |-> <<x>>[i].size] = <<x.size>> OBVIOUS
  <2>2. x.size \in Nat BY DEF ItemType
  <2> QED BY <2>1, <2>2, TotalSmall DEF Used
<1> QED BY <1>1, <1>2

LEMMA UsedItems ==
    ASSUME TypeOK
    PROVE  /\ \A k \in Kinds : <<Item(k, 1)>> \in Seq(ItemType) /\ Used(<<Item(k, 1)>>) = 1
           /\ \A w : \A r \in Ropes : /\ <<ValueItem(w, r)>> \in Seq(ItemType)
                                     /\ Used(<<ValueItem(w, r)>>) = LineSize(w)
           /\ \A r \in Ropes : /\ RopeSize(r) \in Nat /\ Used(RopeItems(r)) = RopeSize(r) + 1
<1>1. ASSUME NEW k \in Kinds PROVE <<Item(k, 1)>> \in Seq(ItemType) /\ Used(<<Item(k, 1)>>) = 1
  <2>1. Item(k, 1) \in ItemType /\ Item(k, 1).size = 1 BY ItemTypes DEF Item
  <2> QED BY <2>1, UsedSmall
<1>3. ASSUME NEW w, NEW r \in Ropes
      PROVE  <<ValueItem(w, r)>> \in Seq(ItemType) /\ Used(<<ValueItem(w, r)>>) = LineSize(w)
  <2>1. ValueItem(w, r) \in ItemType BY ItemTypes
  <2>2. ValueItem(w, r).size = LineSize(w) BY DEF ValueItem, Item
  <2> QED BY <2>1, <2>2, UsedSmall
<1>2. ASSUME NEW r \in Ropes
      PROVE  RopeSize(r) \in Nat /\ Used(RopeItems(r)) = RopeSize(r) + 1
  <2>2. r \in Seq(Nat \ {0}) BY SizesAssumption
  <2>3. PICK n \in Nat : n = Len(r) /\ DOMAIN r = 1..n BY <2>2
  <2>4. r \in Seq(Nat) BY <2>2
  <2>5. RopeSize(r) \in Nat BY <2>4, TotalNat DEF RopeSize
  <2>6. PICK d : d = [i \in DOMAIN r |-> DataItem(r[i])] OBVIOUS
  <2>7. d \in Seq(ItemType)
    <3>1. \A i \in 1..n : DataItem(r[i]) \in ItemType BY <2>2, <2>3, ItemTypes
    <3> QED BY <2>3, <2>6, <3>1
  <2>8. [i \in DOMAIN d |-> d[i].size] = r BY <2>2, <2>3, <2>6 DEF DataItem, Item
  <2>9. Used(d) = RopeSize(r) BY <2>8 DEF Used, RopeSize
  <2>10. "crlf" \in Kinds BY DEF Kinds
  <2>11. RopeItems(r) = d \o <<Item("crlf", 1)>> BY <2>6 DEF RopeItems
  <2>12. Used(RopeItems(r)) = RopeSize(r) + 1 BY <1>1, <2>7, <2>9, <2>10, <2>11, UsedJoin
  <2> QED BY <2>5, <2>12
<1> QED BY <1>1, <1>2, <1>3

(* The last item is the one that was staged last. *)
LEMMA LastJoined ==
    ASSUME NEW b \in Seq(ItemType), NEW i \in ItemType
    PROVE  Last(b \o <<i>>) = i
<1>1. PICK n \in Nat : n = Len(b) OBVIOUS
<1>2. Len(b \o <<i>>) = n + 1 /\ (b \o <<i>>)[n + 1] = i BY <1>1
<1> QED BY <1>2 DEF Last

FitInv == SessionInv /\ Fits /\ RoomInv

(* One more line fits where there is room for it. *)
LEMMA LineFits ==
    ASSUME FitInv, NEW k \in Kinds, state_ \in {"execute_command", "execute_write"},
           obuf' = send(obuf, <<Item(k, 1)>>)
    PROVE  Fits' /\ (noreply_ => obuf' = obuf) /\ (~noreply_ => Used(obuf') = Used(obuf) + 1)
<1>1. TypeOK /\ obuf \in Seq(ItemType) /\ ObufSize \in Nat BY SizesAssumption DEF FitInv, SessionInv, TypeOK
<1>2. Used(obuf) \in Nat BY <1>1, UsedNat
<1>3. CASE noreply_ BY <1>3 DEF send, FitInv, Fits
<1>4. CASE ~noreply_
  <2>1. obuf' = obuf \o <<Item(k, 1)>> BY <1>4 DEF send
  <2>2. Used(obuf') = Used(obuf) + 1 BY <1>1, <2>1, UsedItems, UsedJoin
  <2>3. Used(obuf) < ObufSize BY <1>4 DEF FitInv, RoomInv
  <2>4. Used(obuf) + 1 <= ObufSize BY <1>1, <1>2, <2>3
  <2> QED BY <1>4, <2>2, <2>4 DEF Fits
<1> QED BY <1>3, <1>4

LEMMA ParsedLineFits ==
    ASSUME FitInv, NEW k \in Kinds, state_ = "execute_command", parse_noreply,
           obuf' = SendParsed(obuf, <<Item(k, 1)>>)
    PROVE  Fits' /\ (noreply_' => obuf' = obuf) /\ (~noreply_' => Used(obuf') = Used(obuf) + 1)
<1>1. TypeOK /\ obuf \in Seq(ItemType) /\ ObufSize \in Nat BY SizesAssumption DEF FitInv, SessionInv, TypeOK
<1>2. Used(obuf) \in Nat BY <1>1, UsedNat
<1>3. CASE noreply_' BY <1>3 DEF SendParsed, FitInv, Fits
<1>4. CASE ~noreply_'
  <2>0. ~noreply_ BY <1>1, <1>4, ParseTypes
  <2>1. obuf' = obuf \o <<Item(k, 1)>> BY <1>4 DEF SendParsed
  <2>2. Used(obuf') = Used(obuf) + 1 BY <1>1, <2>1, UsedItems, UsedJoin
  <2>3. Used(obuf) < ObufSize BY <2>0 DEF FitInv, RoomInv
  <2>4. Used(obuf) + 1 <= ObufSize BY <1>1, <1>2, <2>3
  <2> QED BY <1>4, <2>2, <2>4 DEF Fits
<1> QED BY <1>3, <1>4

LEMMA FitCommands ==
    ASSUME FitInv, bad_command \/ version \/ dispatch_write \/ empty_command \/ quit \/ stopping \/ write_result
    PROVE  (Fits' /\ RoomInv') \/ Overflow'
<1> USE DEF Running, Executing, Continue
<1>3. CASE bad_command /\ cmd_ = "unknown"
  <2>1. /\ state_ = "execute_command" /\ state_' = "write_result" /\ io' = "none"
        /\ obuf' = send(obuf, <<Item("error", EchoSize)>>) /\ crashed' = (Used(obuf') > ObufSize)
    BY <1>3 DEF bad_command, client_error, buffer_error, ErrorSize
  <2>2. TypeOK /\ obuf \in Seq(ItemType) BY DEF FitInv, SessionInv, TypeOK
  <2>3. PICK n \in Nat \ {0} : n = EchoSize BY <1>3, ErrorTypes DEF FitInv, ErrorSize
  <2>4. "error" \in Kinds BY DEF Kinds
  <2>5. Item("error", n) \in ItemType /\ Item("error", n).size = n BY <2>2, <2>4, ItemTypes DEF Item
  <2>6. <<Item("error", n)>> \in Seq(ItemType) /\ Used(<<Item("error", n)>>) = n BY <2>5, UsedSmall
  <2>7. Used(obuf) = 0 /\ ObufSize \in Nat BY <1>3, <2>1, SizesAssumption DEF FitInv, RoomInv
  <2>8. CASE noreply_ BY <2>1, <2>8 DEF send, FitInv, Fits, RoomInv
  <2>9. CASE ~noreply_
    <3>1. obuf' = obuf \o <<Item("error", n)>> BY <2>1, <2>3, <2>9 DEF send
    <3>2. PICK e : e = <<Item("error", n)>> OBVIOUS
    <3>3. Used(obuf \o e) = Used(obuf) + Used(e) BY <2>2, <2>6, <3>2, UsedJoin
    <3>4. Used(obuf') = n BY <2>6, <2>7, <3>1, <3>2, <3>3
    <3>5. CASE n <= ObufSize BY <2>1, <3>4, <3>5 DEF Fits, RoomInv
    <3>6. CASE n > ObufSize
      <4>1. Last(obuf') = Item("error", n) BY <2>2, <2>5, <3>1, LastJoined
      <4>2. Used(obuf') > ObufSize BY <3>4, <3>6
      <4>3. crashed' BY <2>1, <4>2, Zenon
      <4>4. Item("error", n).kind = "error" BY DEF Item
      <4>5. Oversize(Last(obuf')) BY <2>5, <3>6, <4>1, <4>4 DEF Oversize
      <4> QED BY <4>3, <4>5 DEF Overflow, ObufFits
    <3> QED BY <2>7, <3>5, <3>6
  <2> QED BY <2>8, <2>9
<1>1. CASE (bad_command /\ cmd_ # "unknown") \/ version \/ dispatch_write
  <2>1. /\ state_ \in {"execute_command", "execute_write"} /\ state_' = "write_result" /\ io' = "none"
        /\ \E k \in Kinds : obuf' = send(obuf, <<Item(k, 1)>>)
    BY <1>1 DEF bad_command, version, dispatch_write, client_error, ErrorSize, Reply, Kinds
  <2> QED BY <2>1, LineFits DEF RoomInv
<1>2. CASE empty_command \/ quit \/ stopping \/ write_result
  BY <1>2 DEF empty_command, quit, stopping, write_result, flush, FitInv, Fits, RoomInv
<1> QED BY <1>1, <1>2, <1>3

LEMMA FitParsing ==
    ASSUME FitInv, del \/ incr_decr \/ touch \/ flush_all
    PROVE  Fits' /\ RoomInv'
<1> USE DEF Running, Executing, Continue
<1>0. TypeOK /\ obuf \in Seq(ItemType) /\ ObufSize \in Nat /\ ObufSize > 1
  BY SizesAssumption DEF FitInv, SessionInv, TypeOK
<1>1. parse_noreply /\ state_ = "execute_command" /\ io' = "none" /\ io = "none"
  BY DEF del, incr_decr, touch, flush_all
<1>2. /\ ~noreply_' => args_' = <<>> /\ ~noreply_
      /\ cmd_' = cmd_ /\ (cmd_ \in {"incr", "decr", "touch"} => args_ # <<>>)
  BY <1>0, <1>1, ParseTypes
<1>3. Used(obuf) \in Nat BY <1>0, UsedNat
<1>4. CASE obuf' = obuf /\ state_' \in {"execute_command", "write_result"}
  BY <1>1, <1>2, <1>4 DEF FitInv, Fits, RoomInv
<1>5. CASE del
  <2>1. "status" \in Kinds BY DEF Kinds
  <2> QED BY <1>1, <1>5, <2>1, ParsedLineFits DEF del, RoomInv
<1>6. ASSUME NEW k \in Kinds, obuf' = SendParsed(obuf, <<Item(k, 1)>>), cmd_ \in {"incr", "decr", "touch"}
      PROVE  Fits' /\ RoomInv'
  <2>1. Fits' /\ (noreply_' => obuf' = obuf) /\ (~noreply_' => Used(obuf') = Used(obuf) + 1)
    BY <1>1, <1>6, ParsedLineFits
  <2>2. CASE noreply_' BY <1>1, <1>2, <1>6, <2>1, <2>2 DEF RoomInv
  <2>3. CASE ~noreply_'
    <3>1. ~noreply_ /\ args_ # <<>> /\ args_' = <<>> BY <1>2, <1>6, <2>3
    <3>2. Used(obuf) = 0 BY <1>1, <1>6, <3>1 DEF FitInv, RoomInv
    <3>3. Used(obuf') = 1 BY <2>1, <2>3, <3>2
    <3>4. Used(obuf') < ObufSize BY <1>0, <3>3
    <3> QED BY <1>1, <1>2, <1>6, <2>1, <3>1, <3>4 DEF RoomInv
  <2> QED BY <2>2, <2>3
<1>7. CASE incr_decr
  <2>1. "status" \in Kinds /\ "number" \in Kinds BY DEF Kinds
  <2>2. CASE obuf' = obuf /\ state_' = state_ BY <1>1, <1>4, <2>2
  <2> QED BY <1>1, <1>6, <1>7, <2>1, <2>2 DEF incr_decr
<1>8. CASE touch
  <2>1. "status" \in Kinds BY DEF Kinds
  <2> QED BY <1>6, <1>8, <2>1 DEF touch
<1>9. CASE flush_all BY <1>1, <1>4, <1>9 DEF flush_all
<1> QED BY <1>5, <1>7, <1>8, <1>9

(***************************************************************************)
(* get(): the margin that is left after a value has been staged is room    *)
(* for the next VALUE line, or for END.                                    *)
(***************************************************************************)
LEMMA FitGet ==
    ASSUME FitInv, get
    PROVE  (Fits' /\ RoomInv') \/ Overflow'
<1> USE DEF Running, Executing, Continue
<1>0. /\ TypeOK /\ obuf \in Seq(ItemType)
      /\ ObufSize \in Nat /\ ObufSize > 1 /\ ReserveSize \in Nat /\ ReserveSize > 0
      /\ LongLine \in Nat \ {0}
  BY SizesAssumption DEF FitInv, SessionInv, TypeOK
<1>1. /\ state_ = "execute_command" /\ io = "none" /\ cmd_' = cmd_ /\ cmd_ \in {"get", "gets"}
      /\ noreply_' = noreply_
  BY DEF get
<1>2. Used(obuf) \in Nat BY <1>0, UsedNat
<1>3. CASE Reply("end") \/ Reply("status")
  <2>1. "status" \in Kinds /\ "end" \in Kinds BY DEF Kinds
  <2> QED BY <1>1, <1>3, <2>1, LineFits DEF Reply, RoomInv
<1>4. ASSUME NEW r \in Ropes, NEW b, args_ # <<>>, b = send(obuf, <<ValueItem(Head(args_), r)>>)
      PROVE  /\ b \in Seq(ItemType) /\ Used(b) \in Nat
             /\ Used(b) <= ObufSize \/ Oversize(Last(b))
             /\ RopeSize(r) \in Nat /\ Used(RopeItems(r)) = RopeSize(r) + 1 /\ RopeItems(r) \in Seq(ItemType)
             /\ noreply_ => send(b, RopeItems(r)) = b
             /\ ~noreply_ => send(b, RopeItems(r)) = b \o RopeItems(r)
  <2>1. /\ <<ValueItem(Head(args_), r)>> \in Seq(ItemType) /\ RopeSize(r) \in Nat
        /\ Used(RopeItems(r)) = RopeSize(r) + 1 /\ RopeItems(r) \in Seq(ItemType) BY <1>0, UsedItems, ItemTypes
  <2>2. b \in Seq(ItemType) BY <1>0, <1>4, <2>1, StagedTypes
  <2>3. Used(b) <= ObufSize \/ Oversize(Last(b))
    <3>1. CASE noreply_ BY <1>4, <3>1 DEF send, FitInv, Fits
    <3>2. CASE ~noreply_
      <4>1. b = obuf \o <<ValueItem(Head(args_), r)>> BY <1>4, <3>2 DEF send
      <4>2. PICK n \in Nat : n = LineSize(Head(args_)) BY <1>0 DEF LineSize
      <4>3. Used(b) = Used(obuf) + n BY <1>0, <2>1, <4>1, <4>2, UsedItems, UsedJoin
      <4>4. Used(obuf) + ReserveSize <= ObufSize BY <1>1, <3>2 DEF FitInv, RoomInv
      <4>5. Last(b) = ValueItem(Head(args_), r) BY <1>0, <2>1, <4>1, ItemTypes, LastJoined
      <4>6. Last(b).kind = "value" /\ Last(b).size = n BY <4>2, <4>5 DEF ValueItem, Item
      <4>7. Used(b) <= ObufSize \/ n > ReserveSize BY <1>0, <1>2, <4>3, <4>4
      <4> QED BY <4>6, <4>7 DEF Oversize
    <3> QED BY <3>1, <3>2
  <2> QED BY <2>1, <2>2, <2>3, UsedNat DEF send
<1>5. ASSUME NEW r \in Ropes, NEW b, args_ # <<>>, b = send(obuf, <<ValueItem(Head(args_), r)>>),
             FitsObuf(b, r), obuf' = send(b, RopeItems(r)), Continue, state_' = state_
      PROVE  Fits' /\ RoomInv'
  <2>1. CASE noreply_
    <3>1. obuf' = obuf BY <1>4, <1>5, <2>1 DEF send
    <3> QED BY <1>1, <1>5, <2>1, <3>1 DEF FitInv, Fits, RoomInv
  <2>2. CASE ~noreply_
    <3>1. Used(obuf') = Used(b) + (RopeSize(r) + 1) BY <1>4, <1>5, <2>2, UsedJoin
    <3>2. PICK u \in Nat, z \in Nat : u = Used(b) /\ z = RopeSize(r) BY <1>4, <1>5
    <3>3. ObufSize - u > z + ReserveSize BY <1>5, <3>2 DEF FitsObuf
    <3>4. u + (z + 1) + ReserveSize <= ObufSize BY <1>0, <3>3
    <3> QED BY <1>0, <1>1, <1>5, <3>1, <3>2, <3>4 DEF Fits, RoomInv
  <2> QED BY <2>1, <2>2
<1>6. ASSUME NEW r \in Ropes, NEW b, args_ # <<>>, b = send(obuf, <<ValueItem(Head(args_), r)>>),
             state_' = "write_data", obuf' = b, buffer_error, flush(b)
      PROVE  (Fits' /\ RoomInv') \/ Overflow'
  <2>1. Used(b) \in Nat /\ (Used(b) <= ObufSize \/ Oversize(Last(b))) BY <1>4, <1>6
  <2>2. CASE Used(b) <= ObufSize BY <1>6, <2>2 DEF Fits, RoomInv, flush
  <2>3. CASE Used(b) > ObufSize
    <3>1. Oversize(Last(obuf')) BY <1>0, <1>6, <2>1, <2>3
    <3>2. Used(obuf') > ObufSize BY <1>6, <2>3
    <3>3. crashed' BY <1>6, <3>2, Zenon DEF buffer_error
    <3> QED BY <3>1, <3>3 DEF Overflow, ObufFits
  <2> QED BY <1>0, <2>1, <2>2, <2>3
<1>7. \/ Reply("end") \/ Reply("status")
      \/ args_ # <<>> /\ \E r \in Ropes :
                          LET b == send(obuf, <<ValueItem(Head(args_), r)>>)
                          IN \/ FitsObuf(b, r) /\ obuf' = send(b, RopeItems(r)) /\ Continue /\ state_' = state_
                             \/ state_' = "write_data" /\ obuf' = b /\ buffer_error /\ flush(b)
  BY DEF get
<1> QED BY <1>3, <1>5, <1>6, <1>7

LEMMA FitOthers ==
    ASSUME FitInv,
           \/ send_prompt \/ recv_command \/ cmd_arrives \/ send_data \/ recv_data \/ data_arrives
           \/ write_done \/ io_error \/ end_of_file \/ Client \/ displace \/ thread_timer
    PROVE  Fits' /\ RoomInv'
<1> USE DEF Running, Executing, Continue, cmdVars, dataVars, ropeVars, clientVars
<1>0. /\ TypeOK /\ ObufSize \in Nat /\ ObufSize > 1 /\ Used(<<>>) = 0
      /\ ReserveSize \in Nat /\ ReserveSize + 1 <= ObufSize
  BY SizesAssumption, UsedSmall DEF FitInv, SessionInv
<1>1. ASSUME NEW k \in Kinds PROVE Used(send(<<>>, <<Item(k, 1)>>)) \in {0, 1}
  <2>1. Used(<<Item(k, 1)>>) = 1 /\ <<Item(k, 1)>> \in Seq(ItemType) BY <1>0, UsedItems
  <2>2. <<>> \o <<Item(k, 1)>> = <<Item(k, 1)>> BY <2>1
  <2> QED BY <1>0, <2>1, <2>2 DEF send
<1>2. CASE send_prompt
  <2>0. "prompt" \in Kinds BY DEF Kinds
  <2>1. obuf' = <<>> \/ obuf' = send(<<>>, <<Item("prompt", 1)>>) BY <1>2 DEF send_prompt
  <2>2. Used(obuf') \in {0, 1} BY <1>0, <1>1, <2>0, <2>1
  <2>3. Used(obuf') <= ObufSize BY <1>0, <2>2
  <2>4. state_' = "read_command" /\ io' \in {"none", "write"} BY <1>2 DEF send_prompt, flush
  <2> QED BY <2>3, <2>4 DEF Fits, RoomInv
<1>3. CASE recv_command
  <2>1. Used(obuf') = 0 BY <1>0, <1>3 DEF recv_command
  <2>2. Used(obuf') < ObufSize /\ Used(obuf') <= ObufSize /\ Used(obuf') + ReserveSize <= ObufSize
    BY <1>0, <2>1
  <2> QED BY <2>1, <2>2 DEF Fits, RoomInv
<1>4. CASE cmd_arrives
  <2>1. obuf' = obuf /\ Used(obuf) = 0 BY <1>4 DEF cmd_arrives, FitInv, RoomInv
  <2>2. /\ Used(obuf') = 0 /\ Used(obuf') < ObufSize /\ Used(obuf') <= ObufSize
        /\ Used(obuf') + ReserveSize <= ObufSize
    BY <1>0, <2>1
  <2> QED BY <2>2 DEF Fits, RoomInv
<1>5. CASE send_data
  <2>0. "crlf" \in Kinds BY DEF Kinds
  <2>1. obuf' = <<>> \/ obuf' = send(<<>>, <<Item("crlf", 1)>>) BY <1>5 DEF send_data
  <2>2. Used(obuf') \in {0, 1} BY <1>0, <1>1, <2>0, <2>1
  <2>3. Used(obuf') < ObufSize /\ Used(obuf') <= ObufSize /\ Used(obuf') + ReserveSize <= ObufSize
    BY <1>0, <2>2
  <2>4. cmd_' = cmd_ /\ cmd_ \in {"get", "gets"} /\ io' # "read_command"
    BY <1>5 DEF send_data, FitInv, SessionInv, StateInv
  <2> QED BY <2>3, <2>4 DEF Fits, RoomInv
<1>6. CASE recv_data
  <2>1. obuf' = obuf /\ state_' = "execute_write" /\ state_ = "execute_command" /\ io' # "read_command"
    BY <1>6 DEF recv_data
  <2>2. ~noreply_' => ~noreply_ BY <1>0, <1>6, ParseTypes DEF recv_data
  <2> QED BY <2>1, <2>2 DEF FitInv, Fits, RoomInv
<1>7. CASE data_arrives \/ write_done
  <2>1. UNCHANGED <<state_, obuf, cmd_, args_, noreply_>> /\ io' # "read_command"
    BY <1>7 DEF data_arrives, write_done
  <2> QED BY <2>1 DEF FitInv, Fits, RoomInv
<1>8. CASE io_error \/ end_of_file
  <2>1. obuf' = obuf /\ state_' = "stopping" /\ io' = "none" BY <1>8 DEF io_error, end_of_file
  <2> QED BY <2>1 DEF FitInv, Fits, RoomInv
<1>9. CASE Client \/ displace \/ thread_timer
  <2>1. UNCHANGED <<state_, obuf, cmd_, args_, noreply_, io>>
    BY <1>9 DEF Client, client_send, client_close, displace, thread_timer
  <2> QED BY <2>1 DEF FitInv, Fits, RoomInv
<1> QED BY <1>2, <1>3, <1>4, <1>5, <1>6, <1>7, <1>8, <1>9

(* A process that is gone stages nothing. *)
LEMMA CrashedStays ==
    ASSUME crashed, [Next]_vars
    PROVE  obuf' = obuf /\ crashed' = crashed
<1> USE DEF Running, Executing
<1>1. CASE UNCHANGED vars BY <1>1 DEF vars
<1>2. CASE Client BY <1>2 DEF Client, client_send, client_close
<1>3. ~Loop /\ ~Arrival /\ ~io_error /\ ~displace /\ ~thread_timer
  BY DEF Loop, Dispatch, Arrival, bad_command, empty_command, quit, version, del, incr_decr, touch,
         flush_all, get, recv_data, send_prompt, recv_command, dispatch_write, send_data,
         write_result, stopping, cmd_arrives, data_arrives, write_done, end_of_file, io_error,
         displace, thread_timer
<1> QED BY <1>1, <1>2, <1>3 DEF Next

(***************************************************************************)
(* Whatever values of whatever sizes a get meets, staged or sent in        *)
(* chunks, and whichever command loop() dispatches twice: what is staged   *)
(* fits the output buffer, unless the line that overflows it is longer     *)
(* than the margin of get(), or an echo longer than the buffer.            *)
(***************************************************************************)
THEOREM ObufFitsCorrect == Spec => []ObufFits
<1> DEFINE Room == SessionInv /\ ((Fits /\ RoomInv) \/ Overflow)
<1>0. obuf \in Seq(ItemType) => Used(obuf) \in Nat BY UsedNat
<1>1. Init => Room
  <2> SUFFICES ASSUME Init PROVE Room OBVIOUS
  <2>1. Used(obuf) = 0 /\ ObufSize \in Nat /\ 0 <= ObufSize BY UsedSmall, SizesAssumption DEF Init
  <2> QED BY <2>1, TypeInit DEF Init, Fits, RoomInv
<1>2. Room /\ [Next]_vars => Room'
  <2> SUFFICES ASSUME Room, [Next]_vars PROVE Room' OBVIOUS
  <2>1. SessionInv' BY TypeNext
  <2>2. CASE crashed /\ ObufFits
    <3>1. obuf' = obuf /\ crashed' = crashed BY <2>2, CrashedStays
    <3> QED BY <2>1, <2>2, <3>1 DEF Overflow, ObufFits
  <2>3. CASE Fits /\ RoomInv
    <3>0. FitInv BY <2>3 DEF FitInv
    <3>1. CASE UNCHANGED vars BY <2>1, <2>3, <3>1 DEF vars, cmdVars, Fits, RoomInv
    <3>2. CASE Loop
      BY <2>1, <3>0, <3>2, FitCommands, FitParsing, FitGet, FitOthers DEF Loop, Dispatch
    <3>3. CASE Arrival \/ io_error \/ Client \/ displace \/ thread_timer
      BY <2>1, <3>0, <3>3, FitOthers DEF Arrival
    <3> QED BY <3>1, <3>2, <3>3 DEF Next
  <2> QED BY <2>2, <2>3 DEF Overflow
<1>3. Room => ObufFits
  <2> SUFFICES ASSUME SessionInv, Fits PROVE ObufFits BY DEF Overflow
  <2>1. Used(obuf) \in Nat /\ ObufSize \in Nat BY <1>0, SizesAssumption DEF SessionInv, TypeOK
  <2> QED BY <2>1 DEF Fits, ObufFits
<1> HIDE DEF Room
<1> QED BY <1>1, <1>2, <1>3, PTL DEF Spec

-----------------------------------------------------------------------------
(***************************************************************************)
(* The input stream.  On the wire every unit determines the next one, so   *)
(* what is left of the stream is known from the unit it begins with.       *)
(***************************************************************************)
Unit(i, p, n) == [req |-> i, part |-> p, n |-> n]
First(i) == Unit(i, "text", 1)
BlockStart(R, i) == IF R[i].data = 0 THEN Unit(i, "crlf", 1) ELSE Unit(i, "data", 1)

(* The unit that comes after u on the wire, when R are the requests sent. *)
After(R, u) ==
    CASE u.part = "text" ->
             IF u.n < R[u.req].text THEN Unit(u.req, "text", u.n + 1) ELSE Unit(u.req, "eol", 1)
      [] u.part = "eol"  -> IF R[u.req].cmd \in Stores THEN BlockStart(R, u.req) ELSE First(u.req + 1)
      [] u.part = "data" ->
             IF u.n < R[u.req].data THEN Unit(u.req, "data", u.n + 1) ELSE Unit(u.req, "crlf", 1)
      [] OTHER           -> First(u.req + 1)

(* A part s of the stream that ends where the last request ends. *)
Chain(R, s) ==
    /\ \A p \in DOMAIN s : s[p].req \in DOMAIN R
    /\ \A p \in 1..Len(s) - 1 : s[p + 1] = After(R, s[p])
    /\ s # <<>> => After(R, s[Len(s)]) = First(Len(R) + 1)

(* The next unit of the stream s is u, which may still have to be sent. *)
Starts(R, s, u) == IF s = <<>> THEN u = First(Len(R) + 1) ELSE s[1] = u

(* What comes after what the session has taken from the stream. *)
Expected ==
    IF cmd_ \notin Stores THEN First(cur + 1)
    ELSE IF state_ = "execute_command" /\ io = "none" THEN BlockStart(reqs, cur)
    ELSE IF io = "read_data" THEN Unit(cur, "data", reqs[cur].data - left + 1)
    ELSE Unit(cur, "crlf", 1)

(* A block as it may be passed to the cache: no unit of it is from a line. *)
Block(d) == \A k \in DOMAIN d : d[k].part \in {"data", "none"}

(* The blocks g were taken out of the stream whole: s has nothing of them. *)
TakenOut(R, g, s) ==
    \A i \in DOMAIN g :
        /\ g[i].req \in DOMAIN R
        /\ Block(g[i].data)
        /\ \A p \in DOMAIN s : s[p].req = g[i].req => s[p].part # "data"

(***************************************************************************)
(* The session is where it believes to be in the stream: a command that is *)
(* executed was a line of a request, and a store has its own block ahead.  *)
(***************************************************************************)
StreamInv ==
    /\ Chain(reqs, ibuf \o net)
    /\ state_ \notin {"stopping", "stopped"} => Starts(reqs, ibuf \o net, Expected)
    /\ io = "read_data" => ibuf = <<>> /\ left <= reqs[cur].data
    /\ state_ = "execute_command" /\ io = "none" /\ cmd_ \in Stores =>
           cmd_ = reqs[cur].cmd /\ args_ = reqs[cur].args
    /\ cmd_ = "unknown" => reqs[cur].cmd = "unknown"
    /\ state_ = "execute_write" => Block(idata_)
    /\ TakenOut(reqs, stored, ibuf \o net)

(* Stores that parse as the protocol says, with "noreplay" at most. *)
SoundStores ==
    \A r \in Requests : r.cmd \in Stores =>
        LET n == IF r.cmd = "cas" THEN 5 ELSE 4
        IN /\ Len(r.args) >= n
           /\ \A i \in 2..n : r.args[i] = "num"
           /\ Len(r.args) > n => r.args[n + 1] = "noreplay"

LEMMA SoundParses ==
    ASSUME SoundStores, TypeOK, NEW i \in DOMAIN reqs, cmd_ \in Stores,
           cmd_ = reqs[i].cmd, args_ = reqs[i].args
    PROVE  ~Malformed
<1>1. PICK n \in {4, 5} : n = IF cmd_ = "cas" THEN 5 ELSE 4 OBVIOUS
<1>2. reqs[i] \in Requests BY DEF TypeOK
<1>3. args_ \in Seq(Words) /\ Len(args_) \in Nat BY DEF TypeOK
<1>4. Len(args_) >= n /\ (\A j \in 2..n : args_[j] = "num") /\ (Len(args_) > n => args_[n + 1] = "noreplay")
  BY <1>1, <1>2 DEF SoundStores
<1>5. Len(Pattern) = n /\ DOMAIN Pattern = 1..n
  <2>1. Pattern \in Seq(Words) /\ Len(Pattern) = n BY <1>1, PatternType
  <2> QED BY <2>1
<1>6. Pattern[1] = "key"
  <2>1. CASE cmd_ = "cas"
    <3>1. Pattern = <<"key", "num", "num", "num", "num">> BY <2>1 DEF Pattern, Stores
    <3> QED BY <3>1
  <2>2. CASE cmd_ # "cas"
    <3>1. Pattern = <<"key", "num", "num", "num">> BY <2>2 DEF Pattern, Stores
    <3> QED BY <3>1
  <2> QED BY <2>1, <2>2
<1>7. Parsed
  <2>1. ASSUME NEW j \in DOMAIN Pattern, Pattern[j] = "num" PROVE args_[j] = "num"
    <3>1. j \in 2..n BY <1>1, <1>5, <1>6, <2>1
    <3> QED BY <1>4, <3>1
  <2> QED BY <1>4, <1>5, <2>1 DEF Parsed
<1>8. Rest # <<>> => Head(Rest) = "noreplay"
  <2>1. Rest = SubSeq(args_, n + 1, Len(args_)) BY <1>5 DEF Rest
  <2>2. n \in 0..Len(args_) BY <1>1, <1>3, <1>4
  <2>3. Rest \in Seq(Words) /\ Len(Rest) = Len(args_) - n /\ \A j \in 1..Len(args_) - n : Rest[j] = args_[j + n]
    BY <1>3, <2>1, <2>2, DropSeq
  <2>4. SUFFICES ASSUME Rest # <<>> PROVE Head(Rest) = "noreplay" OBVIOUS
  <2>5. Len(Rest) >= 1 /\ Head(Rest) = Rest[1] BY <2>3, <2>4
  <2>6. 1 \in 1..Len(args_) - n /\ Len(args_) > n BY <1>1, <1>3, <2>3, <2>5
  <2>7. Rest[1] = args_[1 + n] BY <2>3, <2>6
  <2>8. 1 + n = n + 1 BY <1>1
  <2> QED BY <1>4, <2>5, <2>6, <2>7, <2>8
<1> QED BY <1>7, <1>8 DEF Malformed

-----------------------------------------------------------------------------
(* Facts about streams.                                                    *)

LEMMA JoinDrop ==
    ASSUME NEW S, NEW b \in Seq(S), NEW c \in Seq(S), NEW e \in 0..Len(b)
    PROVE  SubSeq(b, e + 1, Len(b)) \o c = SubSeq(b \o c, e + 1, Len(b \o c))
<1>1. PICK m \in Nat, n \in Nat : m = Len(b) /\ n = Len(c) OBVIOUS
<1>2. PICK d, f, x, y : /\ d = b \o c /\ f = SubSeq(b, e + 1, Len(b))
                        /\ x = f \o c /\ y = SubSeq(d, e + 1, Len(d))
  OBVIOUS
<1>3. /\ d \in Seq(S) /\ Len(d) = m + n
      /\ \A i \in 1..m : d[i] = b[i]
      /\ \A i \in 1..n : d[m + i] = c[i]
  BY <1>1, <1>2, JoinSeq
<1>4. f \in Seq(S) /\ Len(f) = m - e /\ \A i \in 1..m - e : f[i] = b[i + e]
  BY <1>1, <1>2, DropSeq
<1>5. /\ x \in Seq(S) /\ Len(x) = m - e + n
      /\ \A i \in 1..m - e : x[i] = f[i]
      /\ \A i \in 1..n : x[m - e + i] = c[i]
  <2>1. /\ x \in Seq(S) /\ Len(x) = Len(f) + Len(c)
        /\ \A i \in 1..Len(f) : x[i] = f[i]
        /\ \A i \in 1..Len(c) : x[Len(f) + i] = c[i]
    <3>1. f \in Seq(S) /\ x = f \o c BY <1>2, <1>4
    <3> QED BY <3>1, JoinSeq
  <2> QED BY <1>1, <1>4, <2>1
<1>6. y \in Seq(S) /\ Len(y) = m + n - e /\ \A i \in 1..m + n - e : y[i] = d[i + e]
  <2>1. e \in 0..Len(d) BY <1>1, <1>3
  <2>2. y \in Seq(S) /\ Len(y) = Len(d) - e /\ \A i \in 1..Len(d) - e : y[i] = d[i + e]
    <3>1. d \in Seq(S) /\ y = SubSeq(d, e + 1, Len(d)) BY <1>2, <1>3
    <3> QED BY <2>1, <3>1, DropSeq
  <2>3. Len(d) - e = m + n - e BY <1>3
  <2> QED BY <2>2, <2>3
<1>7. ASSUME NEW i \in 1..m + n - e PROVE x[i] = y[i]
  <2>1. CASE i \in 1..m - e
    <3>1. i + e \in 1..m BY <1>1, <2>1
    <3> QED BY <1>3, <1>4, <1>5, <1>6, <2>1, <3>1
  <2>2. CASE i \notin 1..m - e
    <3>1. PICK j \in 1..n : i = m - e + j
      <4>1. i - (m - e) \in 1..n /\ i = m - e + (i - (m - e)) BY <1>1, <2>2
      <4> QED BY <4>1
    <3>2. i + e = m + j BY <1>1, <3>1
    <3> QED BY <1>3, <1>5, <1>6, <3>1, <3>2
  <2> QED BY <2>1, <2>2
<1>8. Len(x) = Len(y) /\ Len(x) = m + n - e BY <1>1, <1>5, <1>6
<1> QED BY <1>2, <1>5, <1>6, <1>7, <1>8, SameSeq

LEMMA Regroup ==
    ASSUME NEW S, NEW b \in Seq(S), NEW c \in Seq(S), NEW n \in 0..Len(c)
    PROVE  (b \o SubSeq(c, 1, n)) \o SubSeq(c, n + 1, Len(c)) = b \o c
<1>1. PICK l \in Nat, m \in Nat : l = Len(b) /\ m = Len(c) OBVIOUS
<1>2. PICK f, g, x, y, z : /\ f = SubSeq(c, 1, n) /\ g = SubSeq(c, n + 1, Len(c)) /\ x = b \o f
                           /\ y = x \o g /\ z = b \o c
  OBVIOUS
<1>3. f \in Seq(S) /\ Len(f) = n /\ \A i \in 1..n : f[i] = c[i] BY <1>2, TakeSeq
<1>4. g \in Seq(S) /\ Len(g) = m - n /\ \A i \in 1..m - n : g[i] = c[i + n] BY <1>1, <1>2, DropSeq
<1>5. /\ x \in Seq(S) /\ Len(x) = l + n
      /\ \A i \in 1..l : x[i] = b[i]
      /\ \A i \in 1..n : x[l + i] = f[i]
  BY <1>1, <1>2, <1>3, JoinSeq
<1>6. /\ y \in Seq(S) /\ Len(y) = l + n + (m - n)
      /\ \A i \in 1..l + n : y[i] = x[i]
      /\ \A i \in 1..m - n : y[l + n + i] = g[i]
  <2>1. /\ y \in Seq(S) /\ Len(y) = Len(x) + Len(g)
        /\ \A i \in 1..Len(x) : y[i] = x[i]
        /\ \A i \in 1..Len(g) : y[Len(x) + i] = g[i]
    <3>1. x \in Seq(S) /\ g \in Seq(S) /\ y = x \o g BY <1>2, <1>4, <1>5
    <3> QED BY <3>1, JoinSeq
  <2> QED BY <1>4, <1>5, <2>1
<1>7. /\ z \in Seq(S) /\ Len(z) = l + m
      /\ \A i \in 1..l : z[i] = b[i]
      /\ \A i \in 1..m : z[l + i] = c[i]
  BY <1>1, <1>2, JoinSeq
<1>8. Len(y) = l + m BY <1>1, <1>6
<1>9. ASSUME NEW i \in 1..l + m PROVE y[i] = z[i]
  <2>1. CASE i \in 1..l
    <3>1. i \in 1..l + n BY <2>1
    <3> QED BY <1>5, <1>6, <1>7, <2>1, <3>1
  <2>2. CASE i \in l + 1..l + n
    <3>1. PICK j \in 1..n : i = l + j
      <4>1. i - l \in 1..n /\ i = l + (i - l) BY <2>2
      <4> QED BY <4>1
    <3>2. i \in 1..l + n /\ j \in 1..m BY <1>1, <3>1
    <3>3. y[i] = x[l + j] BY <1>6, <3>1, <3>2
    <3>4. x[l + j] = c[j] BY <1>3, <1>5, <3>1
    <3>5. z[i] = c[j] BY <1>7, <3>1, <3>2
    <3> QED BY <3>3, <3>4, <3>5
  <2>3. CASE i \in l + n + 1..l + m
    <3>1. PICK j \in 1..m - n : i = l + n + j
      <4>1. i - (l + n) \in 1..m - n /\ i = l + n + (i - (l + n)) BY <1>1, <2>3
      <4> QED BY <4>1
    <3>2. j + n \in 1..m /\ i = l + (j + n) BY <1>1, <3>1
    <3>3. y[i] = c[j + n] BY <1>4, <1>6, <3>1
    <3>4. z[i] = c[j + n] BY <1>7, <3>2
    <3> QED BY <3>3, <3>4
  <2> QED BY <1>1, <2>1, <2>2, <2>3
<1> QED BY <1>2, <1>6, <1>7, <1>8, <1>9, SameSeq

LEMMA RequestParts ==
    ASSUME NEW R \in Seq(Requests), NEW i \in DOMAIN R
    PROVE  i \in Nat /\ i >= 1 /\ i <= Len(R) /\ R[i].text \in Nat \ {0} /\ R[i].data \in Nat
<1>1. R[i] \in Requests OBVIOUS
<1> QED BY <1>1, RequestsAssumption

(* What follows a unit belongs to the same request or to the next one. *)
LEMMA AfterReq ==
    ASSUME NEW R, NEW u \in UnitType
    PROVE  After(R, u).req \in {u.req, u.req + 1}
BY DEF After, Unit, First, BlockStart

LEMMA DropChain ==
    ASSUME NEW R, NEW s \in Seq(UnitType), Chain(R, s), NEW m \in 1..Len(s),
           NEW t, t = SubSeq(s, m + 1, Len(s))
    PROVE  Chain(R, t) /\ Starts(R, t, After(R, s[m])) /\ t \in Seq(UnitType)
<1>1. PICK l \in Nat : l = Len(s) /\ m <= l /\ m \in Nat OBVIOUS
<1>2. t \in Seq(UnitType) /\ Len(t) = l - m /\ \A i \in 1..l - m : t[i] = s[i + m]
  <2>1. m \in 0..Len(s) OBVIOUS
  <2> QED BY <1>1, <2>1, DropSeq
<1>3. DOMAIN t = 1..l - m /\ DOMAIN s = 1..l BY <1>1, <1>2
<1>4. ASSUME NEW p \in DOMAIN t PROVE t[p].req \in DOMAIN R
  <2>1. p + m \in DOMAIN s /\ t[p] = s[p + m] BY <1>1, <1>2, <1>3
  <2> QED BY <2>1 DEF Chain
<1>5. ASSUME NEW p \in 1..Len(t) - 1 PROVE t[p + 1] = After(R, t[p])
  <2>1. p \in 1..l - m /\ p + 1 \in 1..l - m BY <1>1, <1>2
  <2>2. t[p] = s[p + m] /\ t[p + 1] = s[p + 1 + m] BY <1>2, <2>1
  <2>3. p + m \in 1..Len(s) - 1 /\ p + 1 + m = p + m + 1 BY <1>1, <2>1
  <2>4. s[p + m + 1] = After(R, s[p + m]) BY <2>3 DEF Chain
  <2> QED BY <2>2, <2>3, <2>4
<1>6. ASSUME t # <<>> PROVE After(R, t[Len(t)]) = First(Len(R) + 1)
  <2>1. Len(t) # 0 BY <1>2, <1>6
  <2>2. l - m \in 1..l - m /\ l - m + m = l BY <1>1, <1>2, <2>1
  <2>3. t[Len(t)] = s[Len(s)] BY <1>1, <1>2, <2>2
  <2>4. s # <<>> BY <1>1
  <2> QED BY <2>3, <2>4 DEF Chain
<1>7. Starts(R, t, After(R, s[m]))
  <2>1. CASE m = l
    <3>1. t = <<>> BY <1>1, <1>2, <2>1
    <3>2. s # <<>> BY <1>1
    <3> QED BY <1>1, <2>1, <3>1, <3>2 DEF Chain, Starts
  <2>2. CASE m # l
    <3>0. l - m >= 1 /\ m >= 1 /\ m <= l - 1 BY <1>1, <2>2
    <3>1. 1 \in 1..l - m /\ m \in 1..Len(s) - 1 /\ t # <<>>
      <4>1. Len(t) # 0 BY <1>2, <3>0
      <4>2. t # <<>> BY <4>1
      <4> QED BY <1>1, <3>0, <4>2
    <3>2. t[1] = s[1 + m] /\ 1 + m = m + 1 BY <1>1, <1>2, <3>1
    <3>3. s[m + 1] = After(R, s[m]) BY <3>1 DEF Chain
    <3> QED BY <3>1, <3>2, <3>3 DEF Starts
  <2> QED BY <2>1, <2>2
<1> QED BY <1>2, <1>4, <1>5, <1>6, <1>7 DEF Chain

(* A line: from the first text of request i to its end. *)
LEMMA LineEnds ==
    ASSUME NEW R \in Seq(Requests), NEW s \in Seq(UnitType), Chain(R, s),
           NEW i \in DOMAIN R, NEW e \in 1..Len(s), s[1] = First(i),
           EndsLine(s[e]), \A j \in 1..e-1 : ~EndsLine(s[j])
    PROVE  s[e] = Unit(i, "eol", 1)
<1>0. e \in Nat /\ Len(s) \in Nat /\ e <= Len(s) /\ i \in Nat OBVIOUS
<1> DEFINE D == {j \in 1..e-1 : s[j] # Unit(i, "text", j)}
<1>1. e # 1 BY DEF First, Unit, EndsLine
<1>2. D = {}
  <2>1. SUFFICES ASSUME D # {} PROVE FALSE OBVIOUS
  <2>2. D \subseteq Nat BY <1>0
  <2>3. PICK j \in D : \A k \in D : j <= k BY <2>1, <2>2, Least
  <2>4. j \in 1..e-1 /\ s[j] # Unit(i, "text", j) /\ j \in Nat BY <1>0
  <2>5. j # 1 BY <2>4 DEF First
  <2>6. j - 1 \in 1..e-1 /\ ~(j <= j - 1) BY <1>0, <2>4, <2>5
  <2>7. s[j - 1] = Unit(i, "text", j - 1) BY <2>3, <2>6
  <2>8. j - 1 \in 1..Len(s) - 1 /\ j - 1 + 1 = j BY <1>0, <2>4, <2>6
  <2>9. s[j] = After(R, Unit(i, "text", j - 1)) BY <2>7, <2>8 DEF Chain
  <2>10. s[j] = Unit(i, "text", j) \/ s[j] = Unit(i, "eol", 1) BY <2>8, <2>9 DEF After, Unit
  <2>11. ~EndsLine(s[j]) BY <2>4
  <2> QED BY <2>4, <2>10, <2>11 DEF EndsLine, Unit
<1>3. e - 1 \in 1..e-1 /\ e - 1 \in 1..Len(s) - 1 /\ e - 1 + 1 = e BY <1>0, <1>1
<1>4. s[e - 1] = Unit(i, "text", e - 1) BY <1>2, <1>3
<1>5. s[e] = After(R, Unit(i, "text", e - 1)) BY <1>3, <1>4 DEF Chain
<1>6. s[e] = Unit(i, "text", e) \/ s[e] = Unit(i, "eol", 1) BY <1>3, <1>5 DEF After, Unit
<1> QED BY <1>6 DEF EndsLine, Unit

(* A block: its bytes come one after the other. *)
LEMMA DataRun ==
    ASSUME NEW R \in Seq(Requests), NEW s \in Seq(UnitType), Chain(R, s),
           NEW i \in DOMAIN R, NEW m \in 1..R[i].data, s # <<>>, s[1] = Unit(i, "data", m),
           NEW k \in 1..Len(s), k <= R[i].data - m + 1
    PROVE  s[k] = Unit(i, "data", m + k - 1)
<1>0. PICK d \in Nat : d = R[i].data BY RequestParts
<1>1. m \in 1..d /\ m \in Nat /\ k \in Nat /\ k <= d - m + 1 /\ k <= Len(s) /\ Len(s) \in Nat BY <1>0
<1> DEFINE D == {j \in 1..k : s[j] # Unit(i, "data", m + j - 1)}
<1>2. D = {}
  <2>1. SUFFICES ASSUME D # {} PROVE FALSE OBVIOUS
  <2>2. D \subseteq Nat BY <1>1
  <2>3. PICK j \in D : \A l \in D : j <= l BY <2>1, <2>2, Least
  <2>4. j \in 1..k /\ s[j] # Unit(i, "data", m + j - 1) /\ j \in Nat BY <1>1
  <2>5. j # 1
    <3>1. m + 1 - 1 = m BY <1>1
    <3> QED BY <2>4, <3>1
  <2>6. j - 1 \in 1..k /\ ~(j <= j - 1) BY <1>1, <2>4, <2>5
  <2>7. s[j - 1] = Unit(i, "data", m + (j - 1) - 1) BY <2>3, <2>6
  <2>8. j - 1 \in 1..Len(s) - 1 /\ j - 1 + 1 = j BY <1>1, <2>4, <2>6
  <2>9. s[j] = After(R, Unit(i, "data", m + (j - 1) - 1)) BY <2>7, <2>8 DEF Chain
  <2>10. m + (j - 1) - 1 < d /\ m + (j - 1) - 1 + 1 = m + j - 1
    <3>1. j <= k BY <1>1, <2>4
    <3>2. k <= d - m + 1 /\ m <= d BY <1>1
    <3>3. \A x, y, z, c \in Nat : x <= y /\ y <= z - c + 1 =>
             c + (x - 1) - 1 < z /\ c + (x - 1) - 1 + 1 = c + x - 1
      OBVIOUS
    <3> QED BY <1>1, <2>4, <3>1, <3>2, <3>3
  <2>11. s[j] = Unit(i, "data", m + j - 1) BY <1>0, <2>9, <2>10 DEF After, Unit
  <2> QED BY <2>4, <2>11
<1>3. k \in 1..k BY <1>1
<1> QED BY <1>2, <1>3

(* After the CRLF of request i come later requests only. *)
LEMMA LaterReqs ==
    ASSUME NEW R \in Seq(Requests), NEW s \in Seq(UnitType), Chain(R, s), NEW i \in Nat,
           s # <<>>, s[1] = Unit(i, "crlf", 1), NEW p \in 2..Len(s)
    PROVE  s[p].req > i
<1>0. Len(s) \in Nat /\ p \in Nat /\ p >= 2 /\ p <= Len(s) OBVIOUS
<1> DEFINE D == {j \in 2..p : ~(s[j].req > i)}
<1>1. D = {}
  <2>1. SUFFICES ASSUME D # {} PROVE FALSE OBVIOUS
  <2>2. D \subseteq Nat BY <1>0
  <2>3. PICK j \in D : \A l \in D : j <= l BY <2>1, <2>2, Least
  <2>4. j \in 2..p /\ ~(s[j].req > i) /\ j \in Nat BY <1>0
  <2>5. j - 1 \in 1..Len(s) - 1 /\ j - 1 + 1 = j BY <1>0, <2>4
  <2>6. s[j] = After(R, s[j - 1]) BY <2>5 DEF Chain
  <2>7. CASE j = 2
    <3>1. s[j] = First(i + 1) BY <2>6, <2>7 DEF After, Unit
    <3> QED BY <2>4, <3>1 DEF First, Unit
  <2>8. CASE j # 2
    <3>1. j - 1 \in 2..p /\ ~(j <= j - 1) BY <1>0, <2>4, <2>8
    <3>2. s[j - 1].req > i BY <2>3, <3>1
    <3>3. s[j - 1] \in UnitType BY <1>0, <2>5
    <3>4. s[j].req \in {s[j - 1].req, s[j - 1].req + 1} /\ s[j - 1].req \in Nat
      BY <2>6, <3>3, AfterReq DEF UnitType
    <3> QED BY <2>4, <3>2, <3>4
  <2> QED BY <2>7, <2>8
<1>2. p \in 2..p BY <1>0
<1> QED BY <1>1, <1>2

(* A request on the wire is a chain of its own. *)
OwnChain(R, i, w) ==
    /\ w \in Seq(UnitType) /\ w # <<>> /\ w[1] = First(i)
    /\ \A p \in 1..Len(w) : w[p].req = i
    /\ \A p \in 1..Len(w) - 1 : w[p + 1] = After(R, w[p])
    /\ After(R, w[Len(w)]) = First(i + 1)

LEMMA WireChain ==
    ASSUME NEW R, NEW i \in Nat, NEW r \in Requests, R[i] = r, NEW w, w = Wire(i, r)
    PROVE  OwnChain(R, i, w)
<1>1. PICK T \in Nat, D \in Nat : T = r.text /\ D = r.data /\ T >= 1 BY RequestsAssumption
<1>2. w \in Seq(UnitType) /\ \A p \in DOMAIN w : w[p].req = i BY WireTypes
<1>3. PICK x, y, a, b, f : /\ x = Units(i, "text", T) /\ y = Units(i, "eol", 1) /\ f = x \o y
                           /\ a = Units(i, "data", D) /\ b = Units(i, "crlf", 1)
  OBVIOUS
<1>4. ASSUME NEW p \in {"text", "eol", "data", "crlf"}, NEW n \in Nat
      PROVE  /\ Units(i, p, n) \in Seq(UnitType) /\ Len(Units(i, p, n)) = n
             /\ \A k \in 1..n : Units(i, p, n)[k] = Unit(i, p, k)
  <2>1. \A k \in 1..n : [req |-> i, part |-> p, n |-> k] \in UnitType BY DEF UnitType
  <2> QED BY <2>1 DEF Units, Unit
<1>5. /\ x \in Seq(UnitType) /\ Len(x) = T /\ y \in Seq(UnitType) /\ Len(y) = 1 /\ y[1] = Unit(i, "eol", 1)
      /\ \A k \in 1..T : x[k] = Unit(i, "text", k)
      /\ a \in Seq(UnitType) /\ Len(a) = D /\ b \in Seq(UnitType) /\ Len(b) = 1 /\ b[1] = Unit(i, "crlf", 1)
      /\ \A k \in 1..D : a[k] = Unit(i, "data", k)
  <2>1. 1 \in 1..1 /\ 1 \in Nat OBVIOUS
  <2>2. x \in Seq(UnitType) /\ Len(x) = T /\ \A k \in 1..T : x[k] = Unit(i, "text", k)
    BY <1>1, <1>3, <1>4
  <2>3. y \in Seq(UnitType) /\ Len(y) = 1 /\ y[1] = Unit(i, "eol", 1) BY <1>3, <1>4, <2>1
  <2>4. a \in Seq(UnitType) /\ Len(a) = D /\ \A k \in 1..D : a[k] = Unit(i, "data", k)
    BY <1>1, <1>3, <1>4
  <2>5. b \in Seq(UnitType) /\ Len(b) = 1 /\ b[1] = Unit(i, "crlf", 1) BY <1>3, <1>4, <2>1
  <2> QED BY <2>2, <2>3, <2>4, <2>5
<1>6. /\ f \in Seq(UnitType) /\ Len(f) = T + 1 /\ f[T + 1] = Unit(i, "eol", 1)
      /\ \A k \in 1..T : f[k] = Unit(i, "text", k)
  <2>1. /\ f \in Seq(UnitType) /\ Len(f) = Len(x) + Len(y)
        /\ \A k \in 1..Len(x) : f[k] = x[k]
        /\ \A k \in 1..Len(y) : f[Len(x) + k] = y[k]
    <3>1. x \in Seq(UnitType) /\ y \in Seq(UnitType) /\ f = x \o y BY <1>3, <1>5
    <3> QED BY <3>1, JoinSeq
  <2>2. 1 \in 1..1 OBVIOUS
  <2>3. Len(f) = T + 1 /\ f[T + 1] = y[1] BY <1>5, <2>1, <2>2
  <2>4. \A k \in 1..T : f[k] = Unit(i, "text", k) BY <1>5, <2>1
  <2> QED BY <1>5, <2>1, <2>3, <2>4
<1>7. CASE r.cmd \notin Stores
  <2>1. w = f
    <3>1. w = f \o <<>> BY <1>1, <1>3, <1>7 DEF Wire
    <3> QED BY <1>6, <3>1
  <2>2. w[1] = First(i) /\ w # <<>> BY <1>1, <1>6, <2>1 DEF First
  <2>3. ASSUME NEW p \in 1..Len(w) - 1 PROVE w[p + 1] = After(R, w[p])
    <3>1. p \in 1..T /\ w[p] = Unit(i, "text", p) BY <1>1, <1>6, <2>1
    <3>2. CASE p = T BY <1>1, <1>6, <2>1, <3>1, <3>2 DEF After, Unit
    <3>3. CASE p # T
      <4>1. p + 1 \in 1..T /\ p < T BY <1>1, <3>1, <3>3
      <4> QED BY <1>1, <1>6, <2>1, <3>1, <4>1 DEF After, Unit
    <3> QED BY <3>2, <3>3
  <2>4. After(R, w[Len(w)]) = First(i + 1) BY <1>6, <1>7, <2>1 DEF After, Unit
  <2> QED BY <1>2, <2>2, <2>3, <2>4 DEF OwnChain
<1>8. CASE r.cmd \in Stores
  <2>0. PICK g : g = a \o b OBVIOUS
  <2>1. w = f \o g BY <1>1, <1>3, <1>8, <2>0 DEF Wire
  <2>2. /\ g \in Seq(UnitType) /\ Len(g) = D + 1 /\ g[D + 1] = Unit(i, "crlf", 1)
        /\ \A k \in 1..D : g[k] = Unit(i, "data", k)
    <3>1. /\ g \in Seq(UnitType) /\ Len(g) = Len(a) + Len(b)
          /\ \A k \in 1..Len(a) : g[k] = a[k]
          /\ \A k \in 1..Len(b) : g[Len(a) + k] = b[k]
      <4>1. a \in Seq(UnitType) /\ b \in Seq(UnitType) /\ g = a \o b BY <1>5, <2>0
      <4> QED BY <4>1, JoinSeq
    <3>2. 1 \in 1..1 OBVIOUS
    <3>3. Len(g) = D + 1 /\ g[D + 1] = b[1] BY <1>5, <3>1, <3>2
    <3>4. \A k \in 1..D : g[k] = Unit(i, "data", k) BY <1>5, <3>1
    <3> QED BY <1>5, <3>1, <3>3, <3>4
  <2>3. /\ Len(w) = T + 1 + (D + 1)
        /\ \A k \in 1..T + 1 : w[k] = f[k]
        /\ \A k \in 1..D + 1 : w[T + 1 + k] = g[k]
    <3>1. /\ Len(w) = Len(f) + Len(g)
          /\ \A k \in 1..Len(f) : w[k] = f[k]
          /\ \A k \in 1..Len(g) : w[Len(f) + k] = g[k]
      <4>1. f \in Seq(UnitType) /\ g \in Seq(UnitType) /\ w = f \o g BY <1>6, <2>1, <2>2
      <4> QED BY <4>1, JoinSeq
    <3>2. Len(f) = T + 1 /\ Len(g) = D + 1 BY <1>6, <2>2
    <3> QED BY <3>1, <3>2
  <2>4. /\ \A k \in 1..T : w[k] = Unit(i, "text", k)
        /\ w[T + 1] = Unit(i, "eol", 1)
        /\ \A k \in 1..D : w[T + 1 + k] = Unit(i, "data", k)
        /\ w[T + 1 + (D + 1)] = Unit(i, "crlf", 1)
    <3>1. /\ \A k \in 1..T : k \in 1..T + 1
          /\ \A k \in 1..D : k \in 1..D + 1
          /\ T + 1 \in 1..T + 1
          /\ D + 1 \in 1..D + 1
      BY <1>1
    <3>2. \A k \in 1..T : w[k] = Unit(i, "text", k) BY <1>6, <2>3, <3>1
    <3>3. w[T + 1] = Unit(i, "eol", 1) BY <1>6, <2>3, <3>1
    <3>4. \A k \in 1..D : w[T + 1 + k] = Unit(i, "data", k) BY <2>2, <2>3, <3>1
    <3>5. w[T + 1 + (D + 1)] = Unit(i, "crlf", 1) BY <2>2, <2>3, <3>1
    <3> QED BY <3>2, <3>3, <3>4, <3>5
  <2>5. w[1] = First(i) /\ w # <<>> BY <1>1, <2>3, <2>4 DEF First
  <2>6. ASSUME NEW p \in 1..Len(w) - 1 PROVE w[p + 1] = After(R, w[p])
    <3>1. CASE p \in 1..T
      <4>1. w[p] = Unit(i, "text", p) BY <2>4, <3>1
      <4>2. CASE p = T BY <1>1, <2>4, <4>1, <4>2 DEF After, Unit
      <4>3. CASE p # T
        <5>1. p + 1 \in 1..T /\ p < T BY <3>1, <4>3
        <5> QED BY <1>1, <2>4, <4>1, <5>1 DEF After, Unit
      <4> QED BY <4>2, <4>3
    <3>2. CASE p = T + 1
      <4>1. w[p] = Unit(i, "eol", 1) /\ p + 1 = T + 1 + 1 BY <2>4, <3>2
      <4>2. After(R, w[p]) = BlockStart(R, i) BY <1>8, <4>1 DEF After, Unit
      <4>3. CASE D = 0 BY <1>1, <2>4, <4>1, <4>2, <4>3 DEF BlockStart
      <4>4. CASE D # 0
        <5>1. 1 \in 1..D BY <4>4
        <5> QED BY <1>1, <2>4, <4>1, <4>2, <4>4, <5>1 DEF BlockStart
      <4> QED BY <4>3, <4>4
    <3>3. CASE p \notin 1..T + 1
      <4>1. PICK k \in 1..D : p = T + 1 + k
        <5>0. p \in 1..T + 1 + (D + 1) - 1 BY <2>3
        <5>2. \A q, t, d \in Nat : q \in 1..t + 1 + (d + 1) - 1 /\ q \notin 1..t + 1 =>
                 q - (t + 1) \in 1..d /\ q = t + 1 + (q - (t + 1))
          OBVIOUS
        <5>3. p \in Nat BY <1>1, <5>0
        <5>1. p - (T + 1) \in 1..D /\ p = T + 1 + (p - (T + 1)) BY <1>1, <3>3, <5>0, <5>2, <5>3
        <5> QED BY <5>1
      <4>2. w[p] = Unit(i, "data", k) BY <2>4, <4>1
      <4>3. p + 1 = T + 1 + (k + 1) BY <4>1
      <4>4. CASE k = D BY <1>1, <2>4, <4>2, <4>3, <4>4 DEF After, Unit
      <4>5. CASE k # D
        <5>1. k + 1 \in 1..D /\ k < D BY <4>5
        <5>2. w[p + 1] = Unit(i, "data", k + 1) BY <2>4, <4>3, <5>1
        <5>3. After(R, w[p]) = Unit(i, "data", k + 1) BY <1>1, <4>2, <5>1 DEF After, Unit
        <5> QED BY <5>2, <5>3
      <4> QED BY <4>4, <4>5
    <3> QED BY <3>1, <3>2, <3>3
  <2>7. After(R, w[Len(w)]) = First(i + 1) BY <2>3, <2>4 DEF After, Unit
  <2> QED BY <1>2, <2>5, <2>6, <2>7 DEF OwnChain
<1> QED BY <1>7, <1>8

(* z is the stream s with a request more, which makes R into Q. *)
Longer(R, Q, s, z) ==
    /\ Chain(Q, z)
    /\ \A u : Starts(R, s, u) => Starts(Q, z, u)
    /\ \A p \in DOMAIN z : (p \in DOMAIN s /\ z[p] = s[p]) \/ z[p].req = Len(R) + 1

LEMMA SendChain ==
    ASSUME NEW R \in Seq(Requests), NEW s \in Seq(UnitType), Chain(R, s), NEW r \in Requests,
           NEW Q, Q = Append(R, r), NEW w, w = Wire(Len(R) + 1, r)
    PROVE  Longer(R, Q, s, s \o w)
<1>1. PICK n \in Nat : n = Len(R) /\ DOMAIN R = 1..n OBVIOUS
<1>2. Q \in Seq(Requests) /\ Len(Q) = n + 1 /\ DOMAIN Q = 1..n + 1 /\ Q[n + 1] = r /\ \A i \in 1..n : Q[i] = R[i]
  BY <1>1
<1>3. /\ w \in Seq(UnitType) /\ w # <<>> /\ w[1] = First(n + 1)
      /\ \A p \in 1..Len(w) : w[p].req = n + 1
      /\ \A p \in 1..Len(w) - 1 : w[p + 1] = After(Q, w[p])
      /\ After(Q, w[Len(w)]) = First(n + 1 + 1)
  <2>1. PICK i \in Nat : i = n + 1 OBVIOUS
  <2>2. Q[i] = r /\ w = Wire(i, r) BY <1>1, <1>2, <2>1
  <2>3. OwnChain(Q, i, w) BY <2>1, <2>2, WireChain
  <2> QED BY <2>1, <2>3 DEF OwnChain
<1>4. ASSUME NEW u \in UnitType, u.req \in DOMAIN R PROVE After(Q, u) = After(R, u)
  <2>1. Q[u.req] = R[u.req] BY <1>1, <1>2, <1>4
  <2> QED BY <2>1 DEF After, BlockStart
<1>5. PICK l \in Nat, m \in Nat : l = Len(s) /\ m = Len(w) /\ m >= 1 /\ DOMAIN s = 1..l BY <1>3
<1>6. PICK z : z = s \o w OBVIOUS
<1>7. /\ z \in Seq(UnitType) /\ Len(z) = l + m /\ DOMAIN z = 1..l + m
      /\ \A i \in 1..l : z[i] = s[i]
      /\ \A i \in 1..m : z[l + i] = w[i]
  <2>1. /\ z \in Seq(UnitType) /\ Len(z) = Len(s) + Len(w)
        /\ \A i \in 1..Len(s) : z[i] = s[i]
        /\ \A i \in 1..Len(w) : z[Len(s) + i] = w[i]
    BY <1>3, <1>6, JoinSeq
  <2> QED BY <1>5, <2>1
<1>8. ASSUME NEW p \in 1..l + m, p \notin 1..l PROVE \E i \in 1..m : p = l + i
  <2>1. p - l \in 1..m /\ p = l + (p - l) BY <1>8
  <2> QED BY <2>1
<1>9. \A p \in 1..l + m : (p \in 1..l /\ z[p] = s[p]) \/ z[p].req = n + 1
  <2>1. ASSUME NEW p \in 1..l + m, p \notin 1..l PROVE z[p].req = n + 1
    <3>1. PICK i \in 1..m : p = l + i BY <1>8, <2>1
    <3> QED BY <1>3, <1>5, <1>7, <3>1
  <2> QED BY <1>7, <2>1
<1>10. \A p \in DOMAIN z : z[p].req \in DOMAIN Q
  <2>1. \A p \in 1..l : s[p].req \in 1..n BY <1>1, <1>5 DEF Chain
  <2>2. \A i \in 1..n : i \in 1..n + 1 OBVIOUS
  <2>3. n + 1 \in 1..n + 1 OBVIOUS
  <2> QED BY <1>2, <1>7, <1>9, <2>1, <2>2, <2>3
<1>11. ASSUME NEW p \in 1..Len(z) - 1 PROVE z[p + 1] = After(Q, z[p])
  <2>1. p \in 1..l + m - 1 BY <1>7
  <2>2. CASE p \in 1..l - 1
    <3>1. p \in 1..l /\ p + 1 \in 1..l /\ p \in 1..Len(s) - 1 BY <1>5, <2>2
    <3>2. s[p + 1] = After(R, s[p]) /\ s[p].req \in DOMAIN R /\ s[p] \in UnitType
      BY <1>5, <3>1 DEF Chain
    <3> QED BY <1>4, <1>7, <3>1, <3>2
  <2>3. CASE p = l
    <3>1. s # <<>> /\ l \in 1..l BY <1>5, <2>1, <2>3
    <3>2. After(R, s[l]) = First(n + 1) /\ s[l].req \in DOMAIN R /\ s[l] \in UnitType
      BY <1>1, <1>5, <3>1 DEF Chain
    <3>3. z[l + 1] = w[1] BY <1>5, <1>7
    <3> QED BY <1>3, <1>4, <1>7, <2>3, <3>1, <3>2, <3>3
  <2>4. CASE p \notin 1..l
    <3>1. PICK i \in 1..m : p = l + i BY <1>8, <2>1, <2>4
    <3>2. i \in 1..m - 1 /\ i + 1 \in 1..m /\ p + 1 = l + (i + 1) BY <1>5, <2>1, <3>1
    <3>3. i \in 1..Len(w) - 1 BY <1>5, <3>2
    <3>4. w[i + 1] = After(Q, w[i]) BY <1>3, <3>3
    <3>5. z[p + 1] = w[i + 1] /\ z[p] = w[i] BY <1>7, <3>1, <3>2
    <3> QED BY <3>4, <3>5
  <2> QED BY <2>1, <2>2, <2>3, <2>4
<1>12. After(Q, z[Len(z)]) = First(Len(Q) + 1)
  <2>1. m \in 1..m BY <1>5
  <2>2. z[Len(z)] = w[Len(w)] BY <1>5, <1>7, <2>1
  <2> QED BY <1>2, <1>3, <2>2
<1>13. ASSUME NEW u, Starts(R, s, u) PROVE Starts(Q, z, u)
  <2>1. z # <<>> /\ 1 \in 1..m BY <1>5, <1>7
  <2>2. CASE s = <<>>
    <3>1. l = 0 /\ z[0 + 1] = w[1] BY <1>5, <1>7, <2>1, <2>2
    <3> QED BY <1>1, <1>3, <1>13, <2>1, <2>2, <3>1 DEF Starts
  <2>3. CASE s # <<>>
    <3>1. 1 \in 1..l BY <1>5, <2>3
    <3> QED BY <1>7, <1>13, <2>1, <2>3, <3>1 DEF Starts
  <2> QED BY <2>2, <2>3
<1> QED BY <1>1, <1>5, <1>6, <1>7, <1>9, <1>10, <1>11, <1>12, <1>13 DEF Chain, Longer

LEMMA DropNone ==
    ASSUME NEW S, NEW s \in Seq(S)
    PROVE  SubSeq(s, 1, Len(s)) = s /\ <<>> \o s = s
<1>1. Len(s) \in 0..Len(s) /\ Len(s) \in Nat OBVIOUS
<1>2. PICK x : x = SubSeq(s, 1, Len(s)) OBVIOUS
<1>3. x \in Seq(S) /\ Len(x) = Len(s) /\ \A i \in 1..Len(s) : x[i] = s[i] BY <1>1, <1>2, TakeSeq
<1>4. x = s BY <1>3, SameSeq
<1>5. <<>> \o s = s OBVIOUS
<1> QED BY <1>2, <1>4, <1>5

LEMMA JoinAssoc ==
    ASSUME NEW S, NEW a \in Seq(S), NEW b \in Seq(S), NEW c \in Seq(S)
    PROVE  a \o (b \o c) = (a \o b) \o c
<1>1. PICK n \in Nat, l \in Nat : n = Len(b) /\ l = Len(c) OBVIOUS
<1>2. PICK d : d = b \o c OBVIOUS
<1>3. /\ d \in Seq(S) /\ Len(d) = n + l
      /\ \A i \in 1..n : d[i] = b[i]
      /\ \A i \in 1..l : d[n + i] = c[i]
  BY <1>1, <1>2, JoinSeq
<1>4. n \in 0..Len(d) BY <1>1, <1>3
<1>5. PICK f, g : f = SubSeq(d, 1, n) /\ g = SubSeq(d, n + 1, Len(d)) OBVIOUS
<1>6. f = b
  <2>1. f \in Seq(S) /\ Len(f) = n /\ \A i \in 1..n : f[i] = d[i] BY <1>3, <1>4, <1>5, TakeSeq
  <2>2. \A i \in 1..n : f[i] = b[i] BY <1>3, <2>1
  <2> QED BY <1>1, <2>1, <2>2, SameSeq
<1>7. g = c
  <2>1. g \in Seq(S) /\ Len(g) = Len(d) - n /\ \A i \in 1..Len(d) - n : g[i] = d[i + n]
    BY <1>3, <1>4, <1>5, DropSeq
  <2>2. Len(g) = l /\ \A i \in 1..l : g[i] = d[i + n] BY <1>1, <1>3, <2>1
  <2>3. ASSUME NEW i \in 1..l PROVE g[i] = c[i]
    <3>1. i + n = n + i BY <1>1
    <3> QED BY <1>3, <2>2, <3>1
  <2> QED BY <1>1, <2>1, <2>2, <2>3, SameSeq
<1>8. (a \o f) \o g = a \o d BY <1>3, <1>4, <1>5, Regroup
<1> QED BY <1>2, <1>6, <1>7, <1>8

LEMMA DropTaken ==
    ASSUME NEW R, NEW g, NEW s \in Seq(UnitType), NEW m \in 0..Len(s), TakenOut(R, g, s),
           NEW t, t = SubSeq(s, m + 1, Len(s))
    PROVE  TakenOut(R, g, t)
<1>1. PICK l \in Nat : l = Len(s) /\ DOMAIN s = 1..l OBVIOUS
<1>2. t \in Seq(UnitType) /\ Len(t) = l - m /\ \A i \in 1..l - m : t[i] = s[i + m] BY <1>1, DropSeq
<1>3. ASSUME NEW p \in DOMAIN t PROVE \E q \in DOMAIN s : t[p] = s[q]
  <2>1. p \in 1..l - m BY <1>2
  <2>2. p + m \in 1..l BY <1>1, <2>1
  <2> QED BY <1>1, <1>2, <2>1, <2>2
<1> QED BY <1>3 DEF TakenOut

-----------------------------------------------------------------------------
(* The stream, action by action.                                           *)

(* Steps that take nothing from the stream. *)
LEMMA StreamQuiet ==
    ASSUME SessionInv, StreamInv, UNCHANGED <<ibuf, net, reqs, stored, cmd_, cur>>,
           io' # "read_data", state_' # "execute_write",
           \/ state_' \in {"stopping", "stopped"}
           \/ cmd_ \notin Stores /\ state_ \notin {"stopping", "stopped"}
           \/ /\ state_ \in {"write_prompt", "read_command", "write_data", "write_result"}
              /\ io # "read_data" /\ state_' # "execute_command"
    PROVE  StreamInv'
<1>1. Chain(reqs, ibuf \o net)' /\ TakenOut(reqs, stored, ibuf \o net)'
      /\ (cmd_ = "unknown" => reqs[cur].cmd = "unknown")'
  BY DEF StreamInv
<1>2. ASSUME state_' \notin {"stopping", "stopped"}
      PROVE  Expected' = Expected /\ state_ \notin {"stopping", "stopped"}
  BY <1>2 DEF Expected
<1>3. state_' \notin {"stopping", "stopped"} => Starts(reqs, ibuf \o net, Expected)'
  BY <1>2 DEF StreamInv
<1>4. ~(state_' = "execute_command" /\ io' = "none" /\ cmd_' \in Stores) OBVIOUS
<1> QED BY <1>1, <1>3, <1>4 DEF StreamInv

(***************************************************************************)
(* What cmd_ready makes of the stream: it needs a read or gives up, it     *)
(* takes the CRLF after a block, or the line of the next request.          *)
(***************************************************************************)
NextLine ==
    \/ UNCHANGED cmdVars /\ (state_' = "stopping" \/ io' = "read_command")
    \/ cmd_' = "empty" /\ cur' = cur /\ state_' = "execute_command" /\ io' = "none"
    \/ /\ cur' = cur + 1 /\ cur' \in DOMAIN reqs /\ cmd_' = reqs[cur'].cmd /\ args_' = reqs[cur'].args
       /\ state_' = "execute_command" /\ io' = "none"

(* A line is taken from the stream, or the read of one begins or goes on. *)
LEMMA CmdStream ==
    ASSUME SessionInv, StreamInv, NEW b \in Seq(UnitType), cmd_ready(b),
           net' \in Seq(UnitType), b \o net' = ibuf \o net, UNCHANGED <<reqs, stored>>,
           \/ state_ = "read_command" /\ io = "none"
           \/ state_ = "execute_command" /\ io = "read_command"
    PROVE  StreamInv' /\ NextLine
<1>0. PICK s, c : s = ibuf \o net /\ c = net' OBVIOUS
<1>1. s \in Seq(UnitType) /\ c \in Seq(UnitType) /\ reqs \in Seq(Requests) /\ cur \in Nat
  <2>1. ibuf \in Seq(UnitType) /\ net \in Seq(UnitType) BY DEF SessionInv, TypeOK
  <2>2. s \in Seq(UnitType) BY <1>0, <2>1, JoinSeq
  <2> QED BY <1>0, <2>2, SizesAssumption DEF SessionInv, TypeOK
<1>2. Chain(reqs, s) /\ TakenOut(reqs, stored, s) BY <1>0 DEF StreamInv
<1>3. /\ s = b \o c /\ Len(s) = Len(b) + Len(c) /\ \A i \in 1..Len(b) : s[i] = b[i]
      /\ Len(b) \in Nat /\ Len(c) \in Nat /\ Len(s) \in Nat
  <2>1. s = b \o c BY <1>0
  <2> QED BY <1>1, <2>1, JoinSeq
<1>4. /\ Starts(reqs, s, Expected)
      /\ Expected = IF cmd_ \in Stores THEN Unit(cur, "crlf", 1) ELSE First(cur + 1)
  BY <1>0 DEF StreamInv, Expected
<1>5. PICK e : e = find_end_of_command(b) OBVIOUS
<1>6. /\ e \in 0..Len(b)
      /\ e # 0 => EndsLine(b[e]) /\ \A i \in 1..e-1 : ~EndsLine(b[i])
  BY <1>5, EndOfCommand
<1>7. CASE e # 0
  <2>1. /\ cmd_' = Name(Head(b)) /\ cur' = Head(b).req
        /\ args_' = IF Head(b).part = "text" THEN reqs[Head(b).req].args ELSE <<>>
        /\ ibuf' = SubSeq(b, e + 1, Len(b)) /\ state_' = "execute_command" /\ io' = "none"
    BY <1>5, <1>7 DEF cmd_ready
  <2>2. e \in 1..Len(b) /\ e \in 1..Len(s) /\ e \in 0..Len(s) /\ 1 \in 1..Len(b) /\ 1 \in 1..Len(s)
    BY <1>3, <1>6, <1>7
  <2>3. /\ s[1] = Head(b) /\ EndsLine(s[e]) /\ s # <<>>
        /\ \A j \in 1..e-1 : ~EndsLine(s[j])
    <3>1. Head(b) = b[1] /\ s # <<>> BY <1>1, <2>2
    <3>2. \A j \in 1..e-1 : j \in 1..Len(b) BY <1>3, <2>2
    <3> QED BY <1>3, <1>6, <1>7, <2>2, <3>1, <3>2
  <2>4. s[1] = Expected /\ s[1].req \in DOMAIN reqs
    <3>1. 1 \in DOMAIN s BY <1>1, <2>2
    <3> QED BY <1>2, <1>4, <2>3, <3>1 DEF Starts, Chain
  <2>5. PICK t : t = SubSeq(s, e + 1, Len(s)) OBVIOUS
  <2>6. ibuf' \o net' = t
    <3>1. SubSeq(b, e + 1, Len(b)) \o c = SubSeq(b \o c, e + 1, Len(b \o c)) BY <1>1, <1>6, JoinDrop
    <3>2. SubSeq(b \o c, e + 1, Len(b \o c)) = t BY <1>3, <2>5
    <3> QED BY <1>0, <2>1, <3>1, <3>2
  <2>7. Chain(reqs, t) /\ Starts(reqs, t, After(reqs, s[e])) BY <1>1, <1>2, <2>2, <2>5, DropChain
  <2>8. TakenOut(reqs, stored, t) BY <1>1, <1>2, <2>2, <2>5, DropTaken
  <2>9. /\ After(reqs, s[e]) = Expected'
        /\ cmd_' = "unknown" => reqs[cur'].cmd = "unknown"
        /\ cmd_' \in Stores => cmd_' = reqs[cur'].cmd /\ args_' = reqs[cur'].args
        /\ NextLine
    <3>1. CASE cmd_ \in Stores
      <4>1. s[1] = Unit(cur, "crlf", 1) BY <1>4, <2>4, <3>1
      <4>2. e = 1
        <5>1. EndsLine(s[1]) BY <4>1 DEF EndsLine, Unit
        <5>2. 1 \notin 1..e-1 BY <2>3, <5>1
        <5> QED BY <1>3, <2>2, <5>2
      <4>3. cmd_' = "empty" /\ cur' = cur BY <2>1, <2>3, <4>1 DEF Name, Unit
      <4>4. Expected' = First(cur + 1) BY <4>3 DEF Expected, Stores
      <4>5. After(reqs, s[e]) = First(cur + 1) BY <4>1, <4>2 DEF After, Unit
      <4>6. NextLine BY <2>1, <4>3 DEF NextLine
      <4> QED BY <4>3, <4>4, <4>5, <4>6 DEF Stores
    <3>2. CASE cmd_ \notin Stores
      <4>0. PICK i \in Nat : i = cur + 1 BY <1>1
      <4>1. s[1] = First(i) BY <1>4, <2>4, <3>2, <4>0
      <4>2. i \in DOMAIN reqs BY <2>4, <4>1 DEF First, Unit
      <4>3. s[e] = Unit(i, "eol", 1) BY <1>1, <1>2, <2>2, <2>3, <4>1, <4>2, LineEnds
      <4>4. cmd_' = reqs[i].cmd /\ cur' = i /\ args_' = reqs[i].args
        BY <2>1, <2>3, <4>1 DEF Name, First, Unit
      <4>6. After(reqs, s[e]) = IF reqs[i].cmd \in Stores THEN BlockStart(reqs, i) ELSE First(i + 1)
        BY <4>3 DEF After, Unit
      <4>7. Expected' = IF reqs[i].cmd \in Stores THEN BlockStart(reqs, i) ELSE First(i + 1)
        BY <2>1, <4>4 DEF Expected
      <4>8. NextLine BY <2>1, <4>0, <4>2, <4>4 DEF NextLine
      <4> QED BY <4>4, <4>6, <4>7, <4>8
    <3> QED BY <3>1, <3>2
  <2>10. reqs' = reqs /\ stored' = stored OBVIOUS
  <2>11. StreamInv' BY <2>1, <2>6, <2>7, <2>8, <2>9, <2>10 DEF StreamInv
  <2> QED BY <2>9, <2>11
<1>8. CASE e = 0
  <2>1. /\ cmd_' = cmd_ /\ cur' = cur /\ ibuf' = b
        /\ \/ state_' = "stopping" /\ io' = "none"
           \/ state_' = "execute_command" /\ io' = "read_command"
    BY <1>5, <1>8 DEF cmd_ready, cmdVars
  <2>2. ibuf' \o net' = s /\ reqs' = reqs /\ stored' = stored BY <1>0, <2>1
  <2>3. state_' # "stopping" => Expected' = Expected
    <3>1. ASSUME state_' # "stopping" PROVE Expected' = IF cmd_ \in Stores THEN Unit(cur, "crlf", 1) ELSE First(cur + 1)
      BY <2>1, <3>1 DEF Expected
    <3> QED BY <1>4, <3>1
  <2>4. cmd_ = "unknown" => reqs[cur].cmd = "unknown" BY DEF StreamInv
  <2>5. StreamInv' BY <1>2, <1>4, <2>1, <2>2, <2>3, <2>4 DEF StreamInv
  <2>6. NextLine BY <1>5, <1>8, <2>1 DEF NextLine, cmd_ready
  <2> QED BY <2>5, <2>6
<1> QED BY <1>7, <1>8

LEMMA RecvStream ==
    ASSUME SessionInv, StreamInv, recv_data
    PROVE  StreamInv'
<1>1. /\ state_ = "execute_command" /\ io = "none" /\ cmd_ \in Stores /\ state_' = "execute_write"
      /\ UNCHANGED <<stored, reqs, net>> /\ cmd_' = cmd_ /\ cur' = cur
  BY DEF recv_data, Executing, Running, parse_noreply, clientVars
<1>2. cur \in DOMAIN reqs /\ TypeOK BY <1>1 DEF SessionInv, StateInv
<1>3. PICK bytes \in Nat : bytes = reqs[cur].data BY <1>2, RequestTypes
<1>4. ibuf \in Seq(UnitType) /\ net \in Seq(UnitType) /\ Len(ibuf) \in Nat /\ reqs \in Seq(Requests)
  BY <1>2 DEF TypeOK
<1>5. PICK ready \in Nat : /\ ready = LeastOf(bytes, Len(ibuf)) /\ ready <= bytes /\ ready <= Len(ibuf)
                           /\ ready \in {bytes, Len(ibuf)}
  BY <1>4, LeastType
<1>6. /\ idata_' = [k \in 1..bytes |-> IF k <= ready THEN ibuf[k] ELSE Uninitialized]
      /\ ibuf' = SubSeq(ibuf, ready + 1, Len(ibuf))
      /\ left' = bytes - ready
      /\ io' = IF ready = bytes THEN "none" ELSE "read_data"
  BY <1>3, <1>5 DEF recv_data
<1>7. PICK s : s = ibuf \o net OBVIOUS
<1>8. /\ s \in Seq(UnitType) /\ Len(s) >= Len(ibuf) /\ Len(s) \in Nat
      /\ \A i \in 1..Len(ibuf) : s[i] = ibuf[i]
  <2>1. s \in Seq(UnitType) /\ Len(s) = Len(ibuf) + Len(net) /\ \A i \in 1..Len(ibuf) : s[i] = ibuf[i]
    BY <1>4, <1>7, JoinSeq
  <2>2. Len(net) \in Nat BY <1>4
  <2> QED BY <1>4, <2>1, <2>2
<1>9. Chain(reqs, s) /\ TakenOut(reqs, stored, s) /\ cmd_ # "unknown" BY <1>1, <1>7 DEF StreamInv, Stores
<1>10. Starts(reqs, s, BlockStart(reqs, cur)) BY <1>1, <1>7 DEF StreamInv, Expected
<1>11. ready \in 0..Len(ibuf) /\ ready \in 0..Len(s) BY <1>4, <1>5, <1>8
<1>12. PICK t : t = SubSeq(s, ready + 1, Len(s)) OBVIOUS
<1>13. ibuf' \o net' = t BY <1>1, <1>4, <1>6, <1>7, <1>11, <1>12, JoinDrop
<1>14. TakenOut(reqs, stored, t) BY <1>8, <1>9, <1>11, <1>12, DropTaken
<1>15. ASSUME ready # bytes PROVE ibuf' = <<>>
  <2>1. Len(ibuf') = Len(ibuf) - ready /\ ibuf' \in Seq(UnitType) BY <1>4, <1>6, <1>11, DropSeq
  <2>2. Len(ibuf') = 0 BY <1>4, <1>5, <1>15, <2>1
  <2> QED BY <2>1, <2>2
<1>16. PICK u : u = IF ready = bytes THEN Unit(cur, "crlf", 1) ELSE Unit(cur, "data", ready + 1) OBVIOUS
<1>17. Expected' = u
  <2>1. CASE ready = bytes BY <1>1, <1>6, <1>16, <2>1 DEF Expected
  <2>2. CASE ready # bytes
    <3>1. io' = "read_data" /\ reqs'[cur'].data - left' + 1 = ready + 1
      <4>1. bytes - (bytes - ready) + 1 = ready + 1 BY <1>5
      <4> QED BY <1>1, <1>3, <1>6, <2>2, <4>1
    <3>2. Expected' = Unit(cur', "data", reqs'[cur'].data - left' + 1) BY <1>1, <3>1 DEF Expected
    <3> QED BY <1>1, <1>16, <2>2, <3>1, <3>2
  <2> QED BY <2>1, <2>2
<1>18. ASSUME NEW k \in 1..ready PROVE s[k] = Unit(cur, "data", k)
  <2>1. k \in Nat /\ k >= 1 /\ k <= ready /\ k <= bytes /\ k \in 1..Len(s) /\ bytes # 0 /\ Len(s) # 0
    BY <1>4, <1>5, <1>8
  <2>2. s # <<>> BY <1>8, <2>1
  <2>3. s[1] = Unit(cur, "data", 1) BY <1>3, <1>10, <2>1, <2>2 DEF Starts, BlockStart
  <2>4. PICK m \in 1..reqs[cur].data : m = 1 BY <1>3, <2>1
  <2>5. k <= reqs[cur].data - m + 1 BY <1>3, <2>1, <2>4
  <2>6. s[k] = Unit(cur, "data", m + k - 1) BY <1>2, <1>4, <1>8, <1>9, <2>1, <2>2, <2>3, <2>4, <2>5, DataRun
  <2>7. m + k - 1 = k BY <2>1, <2>4
  <2> QED BY <2>6, <2>7
<1>19. Chain(reqs, t) /\ Starts(reqs, t, u)
  <2>1. CASE ready = 0
    <3>1. t = s BY <1>8, <1>12, <2>1, DropNone
    <3>2. u = BlockStart(reqs, cur)
      <4>1. ready + 1 = 1 BY <2>1
      <4> QED BY <1>3, <1>16, <2>1, <4>1 DEF BlockStart
    <3> QED BY <1>9, <1>10, <3>1, <3>2
  <2>2. CASE ready # 0
    <3>1. ready \in 1..ready /\ ready \in 1..Len(s) BY <1>5, <1>11, <2>2
    <3>2. s[ready] = Unit(cur, "data", ready) BY <1>18, <3>1
    <3>3. Chain(reqs, t) /\ Starts(reqs, t, After(reqs, s[ready])) BY <1>8, <1>9, <1>12, <3>1, DropChain
    <3>4. After(reqs, s[ready]) = u
      <4>1. ready < bytes <=> ready # bytes BY <1>5
      <4> QED BY <1>3, <1>16, <3>2, <4>1 DEF After, Unit
    <3> QED BY <3>3, <3>4
  <2> QED BY <2>1, <2>2
<1>20. Block(idata_')
  <2>1. ASSUME NEW k \in 1..bytes PROVE idata_'[k].part \in {"data", "none"}
    <3>1. CASE k <= ready
      <4>1. k \in 1..ready /\ k \in 1..Len(ibuf) BY <1>4, <1>5, <3>1
      <4>2. ibuf[k] = Unit(cur, "data", k) BY <1>8, <1>18, <4>1
      <4> QED BY <1>6, <3>1, <4>2 DEF Unit
    <3>2. CASE ~(k <= ready) BY <1>6, <3>2 DEF Uninitialized
    <3> QED BY <3>1, <3>2
  <2> QED BY <1>6, <2>1 DEF Block
<1>21. left' <= bytes BY <1>5, <1>6
<1> QED BY <1>1, <1>3, <1>6, <1>9, <1>13, <1>14, <1>15, <1>17, <1>19, <1>20, <1>21 DEF StreamInv

LEMMA ArrivesStream ==
    ASSUME SessionInv, StreamInv, data_arrives
    PROVE  StreamInv'
<1>1. PICK n \in 1..LeastOf(left, Len(net)) :
           /\ idata_' = [k \in DOMAIN idata_ |->
                           IF k \in got+1..got+n THEN net[k - got] ELSE idata_[k]]
           /\ net' = SubSeq(net, n + 1, Len(net))
           /\ left' = left - n
           /\ io' = IF left = n THEN "none" ELSE io
  BY DEF data_arrives
<1>2. /\ io = "read_data" /\ state_ = "execute_write" /\ state_' = state_
      /\ UNCHANGED <<stored, reqs, ibuf, cmd_, cur>>
  BY DEF data_arrives, SessionInv, StateInv, cmdVars, clientVars
<1>3. cmd_ \in Stores /\ cur \in DOMAIN reqs /\ TypeOK /\ ibuf = <<>> /\ Block(idata_)
      /\ cmd_ # "unknown"
  BY <1>2 DEF SessionInv, StateInv, StreamInv, Stores
<1>4. PICK bytes \in Nat : bytes = reqs[cur].data BY <1>3, RequestTypes
<1>5. /\ left \in Nat /\ got \in Nat /\ net \in Seq(UnitType) /\ Len(net) \in Nat
      /\ reqs \in Seq(Requests) /\ left <= bytes
  BY <1>2, <1>3, <1>4 DEF TypeOK, StreamInv
<1>6. n \in Nat /\ n >= 1 /\ n <= left /\ n <= Len(net)
  <2>1. PICK m \in Nat : m = LeastOf(left, Len(net)) /\ m <= left /\ m <= Len(net) BY <1>5, LeastType
  <2> QED BY <1>5, <2>1
<1>7. ibuf \o net = net /\ net' \in Seq(UnitType) /\ ibuf' \o net' = net' /\ n \in 0..Len(net) /\ n \in 1..Len(net)
  <2>1. n \in 0..Len(net) /\ n \in 1..Len(net) BY <1>5, <1>6
  <2>2. net' \in Seq(UnitType) BY <1>1, <1>5, <2>1, DropSeq
  <2> QED BY <1>2, <1>3, <1>5, <2>1, <2>2, DropNone
<1>8. Chain(reqs, net) /\ TakenOut(reqs, stored, net) BY <1>7 DEF StreamInv
<1>9. PICK m \in 1..bytes : m = bytes - left + 1 /\ m \in Nat
  <2>1. bytes - left + 1 \in 1..bytes BY <1>5, <1>6
  <2> QED BY <2>1
<1>10. net # <<>> /\ net[1] = Unit(cur, "data", m)
  <2>1. net # <<>> BY <1>6
  <2>2. Starts(reqs, net, Expected) BY <1>2, <1>7 DEF StreamInv
  <2>3. Expected = Unit(cur, "data", bytes - left + 1) BY <1>2, <1>3, <1>4 DEF Expected
  <2> QED BY <1>9, <2>1, <2>2, <2>3 DEF Starts
<1>11. ASSUME NEW k \in 1..n PROVE net[k] = Unit(cur, "data", m + k - 1)
  <2>1. k \in 1..Len(net) BY <1>5, <1>6
  <2>2. k <= reqs[cur].data - m + 1
    <3>1. k <= left BY <1>5, <1>6
    <3>2. \A x, y, z, v \in Nat : x <= y /\ v = z - y + 1 => x <= z - v + 1 OBVIOUS
    <3>3. k \in Nat BY <1>6
    <3>4. k <= bytes - m + 1 BY <1>4, <1>5, <1>9, <3>1, <3>2, <3>3
    <3> QED BY <1>4, <3>4
  <2>3. m \in 1..reqs[cur].data BY <1>4, <1>9
  <2> QED BY <1>3, <1>5, <1>8, <1>10, <2>1, <2>2, <2>3, DataRun
<1>12. Chain(reqs, net') /\ Starts(reqs, net', After(reqs, net[n])) BY <1>1, <1>5, <1>7, <1>8, DropChain
<1>13. TakenOut(reqs, stored, net') BY <1>1, <1>5, <1>7, <1>8, DropTaken
<1>14. After(reqs, net[n]) = Expected'
  <2>1. n \in 1..n BY <1>6
  <2>2. net[n] = Unit(cur, "data", m + n - 1) BY <1>11, <2>1
  <2>3. (m + n - 1 < bytes <=> left # n) /\ m + n - 1 + 1 = bytes - (left - n) + 1 BY <1>5, <1>6, <1>9
  <2>4. CASE left = n
    <3>1. After(reqs, net[n]) = Unit(cur, "crlf", 1) BY <1>4, <2>2, <2>3, <2>4 DEF After, Unit
    <3>2. Expected' = Unit(cur, "crlf", 1) BY <1>1, <1>2, <1>3, <2>4 DEF Expected
    <3> QED BY <3>1, <3>2
  <2>5. CASE left # n
    <3>1. After(reqs, net[n]) = Unit(cur, "data", m + n - 1 + 1) BY <1>4, <2>2, <2>3, <2>5 DEF After, Unit
    <3>2. Expected' = Unit(cur, "data", bytes - left' + 1) BY <1>1, <1>2, <1>3, <1>4, <2>5 DEF Expected
    <3>3. bytes - left' + 1 = bytes - (left - n) + 1 BY <1>1
    <3> QED BY <2>3, <3>1, <3>2, <3>3
  <2> QED BY <2>4, <2>5
<1>15. Block(idata_')
  <2>1. ASSUME NEW k \in DOMAIN idata_ PROVE idata_'[k].part \in {"data", "none"}
    <3>1. CASE k \in got+1..got+n
      <4>1. k - got \in 1..n BY <1>5, <1>6, <3>1
      <4>2. PICK j \in 1..n : j = k - got BY <4>1
      <4>3. net[j] = Unit(cur, "data", m + j - 1) BY <1>11
      <4>4. net[k - got].part = "data" BY <4>2, <4>3 DEF Unit
      <4> QED BY <1>1, <3>1, <4>4
    <3>2. CASE k \notin got+1..got+n BY <1>1, <1>3, <3>2 DEF Block
    <3> QED BY <3>1, <3>2
  <2> QED BY <1>1, <2>1 DEF Block
<1>16. left' <= bytes
  <2>2. left - n <= left /\ left - n \in Nat BY <1>5, <1>6
  <2>3. left' <= left /\ left' \in Nat BY <1>1, <2>2
  <2> QED BY <1>5, <2>3
<1> QED BY <1>2, <1>3, <1>4, <1>7, <1>12, <1>13, <1>14, <1>15, <1>16 DEF StreamInv

(* dispatch_write: the block passed to the cache has left the stream. *)
LEMMA WriteStream ==
    ASSUME SessionInv, StreamInv, dispatch_write
    PROVE  StreamInv'
<1>1. /\ io = "none" /\ io' = io /\ state_ = "execute_write" /\ state_' = "write_result"
      /\ stored' = Append(stored, [req |-> cur, data |-> idata_])
      /\ UNCHANGED <<reqs, ibuf, net, cmd_, cur>>
  BY DEF dispatch_write, Running, Reply, Continue, cmdVars, clientVars
<1>2. /\ cmd_ \in Stores /\ cur \in DOMAIN reqs /\ TypeOK /\ cmd_ # "unknown" /\ Block(idata_)
      /\ Chain(reqs, ibuf \o net) /\ TakenOut(reqs, stored, ibuf \o net)
      /\ Starts(reqs, ibuf \o net, Expected)
  BY <1>1 DEF SessionInv, StateInv, StreamInv, Stores
<1>3. Expected = Unit(cur, "crlf", 1) /\ Expected' = Unit(cur, "crlf", 1) BY <1>1, <1>2 DEF Expected
<1>4. PICK s : s = ibuf \o net OBVIOUS
<1>5. s \in Seq(UnitType) /\ Len(s) \in Nat /\ DOMAIN s = 1..Len(s) /\ reqs \in Seq(Requests) /\ cur \in Nat
  <2>1. ibuf \in Seq(UnitType) /\ net \in Seq(UnitType) BY <1>2 DEF TypeOK
  <2>2. s \in Seq(UnitType) BY <1>4, <2>1, JoinSeq
  <2> QED BY <1>2, <2>2, SizesAssumption DEF TypeOK
<1>6. ASSUME NEW p \in DOMAIN s, s[p].req = cur PROVE s[p].part # "data"
  <2>1. s # <<>> /\ s[1] = Unit(cur, "crlf", 1) BY <1>2, <1>3, <1>4, <1>5 DEF Starts
  <2>2. CASE p = 1 BY <2>1, <2>2 DEF Unit
  <2>3. CASE p # 1
    <3>1. p \in 2..Len(s) BY <1>5, <2>3
    <3>2. s[p].req > cur BY <1>2, <1>4, <1>5, <2>1, <3>1, LaterReqs
    <3> QED BY <1>5, <1>6, <3>2
  <2> QED BY <2>2, <2>3
<1>7. TakenOut(reqs, stored', s)
  <2>1. PICK l \in Nat : l = Len(stored) /\ DOMAIN stored = 1..l /\ DOMAIN stored' = 1..l + 1
    BY <1>1, <1>2 DEF TypeOK
  <2>2. stored'[l + 1] = [req |-> cur, data |-> idata_] /\ \A i \in 1..l : stored'[i] = stored[i]
    BY <1>1, <1>2, <2>1 DEF TypeOK
  <2>3. ASSUME NEW i \in 1..l + 1
        PROVE  /\ stored'[i].req \in DOMAIN reqs
               /\ Block(stored'[i].data)
               /\ \A p \in DOMAIN s : s[p].req = stored'[i].req => s[p].part # "data"
    <3>1. CASE i = l + 1 BY <1>2, <1>6, <2>2, <3>1
    <3>2. CASE i # l + 1
      <4>1. i \in 1..l BY <2>1, <3>2
      <4> QED BY <1>2, <1>4, <2>1, <2>2, <4>1 DEF TakenOut
    <3> QED BY <3>1, <3>2
  <2> QED BY <2>1, <2>3 DEF TakenOut
<1>8. TakenOut(reqs, stored, ibuf \o net)' BY <1>1, <1>4, <1>7
<1> QED BY <1>1, <1>2, <1>3, <1>8 DEF StreamInv

(* client_send: a request follows what is on its way. *)
LEMMA SendStream ==
    ASSUME SessionInv, StreamInv, client_send
    PROVE  StreamInv'
<1>1. PICK r \in Requests : reqs' = Append(reqs, r) /\ net' = net \o Wire(Len(reqs) + 1, r)
  BY DEF client_send
<1>2. UNCHANGED <<state_, io, cmd_, args_, cur, ibuf, left, idata_, stored>>
  BY DEF client_send, cmdVars, dataVars
<1>3. PICK n \in Nat : n = Len(reqs) /\ DOMAIN reqs = 1..n /\ reqs \in Seq(Requests)
  BY DEF SessionInv, TypeOK
<1>4. PICK w, s, Q : w = Wire(Len(reqs) + 1, r) /\ s = ibuf \o net /\ Q = Append(reqs, r) OBVIOUS
<1>5. ibuf \in Seq(UnitType) /\ net \in Seq(UnitType) /\ s \in Seq(UnitType) /\ w \in Seq(UnitType)
  <2>1. ibuf \in Seq(UnitType) /\ net \in Seq(UnitType) BY DEF SessionInv, TypeOK
  <2>2. s \in Seq(UnitType) BY <1>4, <2>1, JoinSeq
  <2>3. Len(reqs) + 1 \in Nat BY <1>3
  <2>4. w \in Seq(UnitType) BY <1>4, <2>3, WireTypes
  <2> QED BY <2>1, <2>2, <2>4
<1>6. ibuf' \o net' = s \o w
  <2>0. ibuf \in Seq(UnitType) /\ net \in Seq(UnitType) /\ w \in Seq(UnitType) BY <1>5
  <2>1. ibuf \o (net \o w) = (ibuf \o net) \o w BY <2>0, JoinAssoc, SMTT(30)
  <2>2. ibuf' = ibuf /\ net' = net \o w BY <1>1, <1>2, <1>4
  <2> QED BY <1>4, <2>1, <2>2
<1>7. Chain(reqs, s) /\ TakenOut(reqs, stored, s) BY <1>4 DEF StreamInv
<1>8. /\ Chain(Q, s \o w)
      /\ \A u : Starts(reqs, s, u) => Starts(Q, s \o w, u)
      /\ \A p \in DOMAIN (s \o w) : (p \in DOMAIN s /\ (s \o w)[p] = s[p]) \/ (s \o w)[p].req = Len(reqs) + 1
  <2>1. Longer(reqs, Q, s, s \o w) BY <1>3, <1>4, <1>5, <1>7, SendChain
  <2> QED BY <2>1 DEF Longer
<1>9. reqs' = Q /\ DOMAIN Q = 1..n + 1 /\ \A i \in DOMAIN reqs : i \in DOMAIN Q /\ Q[i] = reqs[i]
  BY <1>1, <1>3, <1>4
<1>10. TakenOut(Q, stored, s \o w)
  <2>1. ASSUME NEW i \in DOMAIN stored, NEW p \in DOMAIN (s \o w), (s \o w)[p].req = stored[i].req
        PROVE  (s \o w)[p].part # "data"
    <3>1. stored[i].req \in 1..n BY <1>3, <1>7 DEF TakenOut
    <3>2. stored[i].req # Len(reqs) + 1 BY <1>3, <3>1
    <3>3. p \in DOMAIN s /\ (s \o w)[p] = s[p] BY <1>8, <2>1, <3>2
    <3> QED BY <1>7, <2>1, <3>3 DEF TakenOut
  <2> QED BY <1>7, <1>9, <2>1 DEF TakenOut
<1>11. /\ state_ = "execute_write" => cur \in DOMAIN reqs
       /\ state_ = "execute_command" /\ io = "none" /\ cmd_ \in Stores => cur \in DOMAIN reqs
       /\ io = "read_data" => cur \in DOMAIN reqs
       /\ cmd_ = "unknown" => cur \in DOMAIN reqs
  BY DEF SessionInv, StateInv
<1>12. Expected' = Expected BY <1>2, <1>9, <1>11 DEF Expected, BlockStart
<1>13. state_' \notin {"stopping", "stopped"} => Starts(Q, s \o w, Expected')
  BY <1>2, <1>4, <1>8, <1>12 DEF StreamInv
<1> QED BY <1>2, <1>6, <1>8, <1>9, <1>10, <1>11, <1>13 DEF StreamInv

(* The commands that need no data block, and what bad_command is for. *)
LEMMA CommandStream ==
    ASSUME SoundStores, SessionInv, StreamInv,
           \/ bad_command \/ empty_command \/ quit \/ version \/ del \/ incr_decr
           \/ touch \/ flush_all \/ get
    PROVE  StreamInv'
<1> USE DEF cmdVars, dataVars, ropeVars, clientVars, Executing, Running, Continue
<1>1. CASE bad_command
  <2>1. cmd_ \notin Stores
    <3>1. SUFFICES ASSUME cmd_ \in Stores PROVE FALSE OBVIOUS
    <3>2. state_ = "execute_command" /\ io = "none" /\ Malformed
      BY <1>1, <3>1 DEF bad_command, Parsing
    <3>3. cur \in DOMAIN reqs /\ cmd_ = reqs[cur].cmd /\ args_ = reqs[cur].args /\ TypeOK
      BY <3>1, <3>2 DEF SessionInv, StateInv, StreamInv
    <3> QED BY <3>1, <3>2, <3>3, SoundParses
  <2> QED BY <1>1, <2>1, StreamQuiet DEF bad_command, client_error
<1>2. CASE empty_command \/ quit \/ version
  BY <1>2, StreamQuiet DEF empty_command, quit, version, Reply, Stores
<1>3. CASE del \/ incr_decr \/ touch \/ flush_all
  <2>1. /\ cmd_ \notin Stores /\ state_ = "execute_command" /\ io' = "none"
        /\ UNCHANGED <<ibuf, net, reqs, stored, cmd_, cur>>
    BY <1>3 DEF del, incr_decr, touch, flush_all, parse_noreply, Stores
  <2>2. state_' \in {"execute_command", "write_result"}
    BY <1>3 DEF del, incr_decr, touch, flush_all
  <2> QED BY <2>1, <2>2, StreamQuiet
<1>4. CASE get
  <2>1. /\ cmd_ \notin Stores /\ state_ = "execute_command" /\ io = "none"
        /\ UNCHANGED <<ibuf, net, reqs, stored, cmd_, cur>>
    BY <1>4 DEF get, Stores
  <2>2. state_' \in {"execute_command", "write_result", "write_data"} /\ io' \in {"none", "write"}
    BY <1>4 DEF get, Reply, flush
  <2> QED BY <2>1, <2>2, StreamQuiet
<1> QED BY <1>1, <1>2, <1>3, <1>4

LEMMA OtherStream ==
    ASSUME SessionInv, StreamInv,
           \/ send_prompt \/ send_data \/ write_result \/ stopping
           \/ write_done \/ end_of_file \/ io_error \/ client_close \/ displace \/ thread_timer
    PROVE  StreamInv'
<1> USE DEF cmdVars, dataVars, ropeVars, clientVars, Running, Continue
<1>1. CASE stopping \/ end_of_file \/ io_error
  BY <1>1, StreamQuiet DEF stopping, end_of_file, io_error
<1>2. CASE send_prompt \/ write_result
  <2>1. /\ state_ \in {"write_prompt", "write_result"} /\ io = "none" /\ io' \in {"none", "write"}
        /\ state_' \in {"read_command", "write_prompt"}
        /\ UNCHANGED <<ibuf, net, reqs, stored, cmd_, cur>>
    BY <1>2 DEF send_prompt, write_result, flush
  <2> QED BY <2>1, StreamQuiet
<1>3. CASE send_data
  <2>1. /\ state_ = "write_data" /\ io = "none" /\ io' \in {"none", "write"}
        /\ state_' \in {"execute_command", "write_data"}
        /\ UNCHANGED <<ibuf, net, reqs, stored, cmd_, cur>>
    BY <1>3 DEF send_data
  <2>2. cmd_ \notin Stores BY <2>1 DEF SessionInv, StateInv, Stores
  <2> QED BY <2>1, <2>2, StreamQuiet
<1>4. CASE write_done
  <2>1. /\ state_ \in {"write_prompt", "read_command", "write_data"} /\ io = "write" /\ io' = "none"
        /\ state_' = state_ /\ UNCHANGED <<ibuf, net, reqs, stored, cmd_, cur>>
    BY <1>4 DEF write_done, SessionInv, StateInv
  <2> QED BY <2>1, StreamQuiet
<1>5. CASE client_close \/ displace \/ thread_timer
  <2>1. UNCHANGED <<state_, io, cmd_, args_, cur, ibuf, left, idata_, stored, net, reqs>>
    BY <1>5 DEF client_close, displace, thread_timer
  <2>2. Expected' = Expected BY <2>1 DEF Expected
  <2> QED BY <2>1, <2>2 DEF StreamInv
<1> QED BY <1>1, <1>2, <1>3, <1>4, <1>5

LEMMA ReadStream ==
    ASSUME SessionInv, StreamInv, recv_command \/ cmd_arrives
    PROVE  StreamInv' /\ NextLine
<1>1. CASE recv_command
  <2>1. /\ cmd_ready(ibuf) /\ UNCHANGED <<net, reqs, stored>>
        /\ state_ = "read_command" /\ io = "none"
    BY <1>1 DEF recv_command, Running, clientVars, dataVars
  <2>2. ibuf \in Seq(UnitType) /\ net \in Seq(UnitType) BY DEF SessionInv, TypeOK
  <2>3. ibuf \o net' = ibuf \o net /\ net' \in Seq(UnitType) BY <2>1, <2>2
  <2> QED BY <2>1, <2>2, <2>3, CmdStream
<1>2. CASE cmd_arrives
  <2>1. PICK n \in 1..LeastOf(IbufSize - Len(ibuf), Len(net)) :
            cmd_ready(ibuf \o SubSeq(net, 1, n)) /\ net' = SubSeq(net, n + 1, Len(net))
    BY <1>2 DEF cmd_arrives
  <2>2. PICK b : b = ibuf \o SubSeq(net, 1, n) OBVIOUS
  <2>3. b \in Seq(UnitType) /\ net' \in Seq(UnitType) /\ n \in 1..Len(net) BY <2>1, <2>2, Arrived
  <2>4. ibuf \in Seq(UnitType) /\ net \in Seq(UnitType) BY DEF SessionInv, TypeOK
  <2>5. n \in 0..Len(net) BY <2>3, <2>4
  <2>6. b \o net' = ibuf \o net BY <2>1, <2>2, <2>4, <2>5, Regroup
  <2>7. UNCHANGED <<reqs, stored>> /\ state_ = "execute_command" /\ io = "read_command"
    BY <1>2 DEF cmd_arrives, clientVars, dataVars, SessionInv, StateInv
  <2>8. cmd_ready(b) BY <2>1, <2>2
  <2> QED BY <2>3, <2>6, <2>7, <2>8, CmdStream
<1> QED BY <1>1, <1>2

(* The session is where it believes to be, if stores parse. *)
LEMMA StreamCorrect ==
    ASSUME SoundStores
    PROVE  Spec => []StreamInv
<1>1. Init => StreamInv
  <2> SUFFICES ASSUME Init PROVE StreamInv OBVIOUS
  <2>1. /\ ibuf \o net = <<>> /\ reqs = <<>> /\ stored = <<>> /\ cmd_ = "empty" /\ cur = 0
        /\ state_ = "write_prompt" /\ io = "none"
    BY DEF Init
  <2>2. Expected = First(1) BY <2>1 DEF Expected, Stores
  <2>3. Starts(reqs, ibuf \o net, Expected) BY <2>1, <2>2 DEF Starts
  <2>4. Chain(reqs, ibuf \o net) /\ TakenOut(reqs, stored, ibuf \o net) BY <2>1 DEF Chain, TakenOut
  <2> QED BY <2>1, <2>3, <2>4 DEF StreamInv
<1>2. SessionInv /\ StreamInv /\ [Next]_vars => StreamInv'
  <2> SUFFICES ASSUME SessionInv, StreamInv, [Next]_vars PROVE StreamInv' OBVIOUS
  <2>1. CASE UNCHANGED vars
    <3>1. UNCHANGED <<state_, io, cmd_, args_, cur, ibuf, left, idata_, stored, net, reqs>>
      BY <2>1 DEF vars, cmdVars, dataVars, clientVars
    <3>2. Expected' = Expected BY <3>1 DEF Expected
    <3> QED BY <3>1, <3>2 DEF StreamInv
  <2>2. CASE Loop
    BY <2>2, CommandStream, RecvStream, WriteStream, ReadStream, OtherStream DEF Loop, Dispatch
  <2>3. CASE Arrival BY <2>3, ReadStream, ArrivesStream, OtherStream DEF Arrival
  <2>4. CASE io_error \/ Client \/ displace \/ thread_timer
    BY <2>4, SendStream, OtherStream DEF Client
  <2> QED BY <2>1, <2>2, <2>3, <2>4 DEF Next
<1> QED BY <1>1, <1>2, SessionCorrect, PTL DEF Spec

(***************************************************************************)
(* However the reads split the stream, and whichever operation fails: a    *)
(* session whose client sends well-formed store lines executes no data as  *)
(* a command, stores no unit of a line, and has taken all of a block from  *)
(* the stream when it stores it.  What it stores may have bytes that       *)
(* nothing was read into: the rest of a split block goes to its start.     *)
(***************************************************************************)
THEOREM FramedCorrect ==
    ASSUME SoundStores
    PROVE  Spec => []Framed
<1>1. StreamInv => Framed BY DEF StreamInv, TakenOut, Block, Framed, ToSet
<1>2. Spec => []StreamInv BY StreamCorrect
<1> QED BY <1>1, <1>2, PTL

-----------------------------------------------------------------------------
(***************************************************************************)
(* The output.  All values in s are whole: after its VALUE line s has the  *)
(* chunks of each and a CRLF, and it has no others.                        *)
(***************************************************************************)
WholeAt(s, p) ==
    /\ p + Len(s[p].rope) + 1 <= Len(s)
    /\ \A k \in 1..Len(s[p].rope) : s[p + k].kind = "data" /\ s[p + k].size = s[p].rope[k]
    /\ s[p + Len(s[p].rope) + 1].kind = "crlf" /\ s[p + Len(s[p].rope) + 1].size = 1

Within(s, p, q) == s[p].kind = "value" /\ q \in p + 1 .. p + 1 + Len(s[p].rope)

Closed(s) ==
    /\ \A p \in DOMAIN s : s[p].kind = "value" => WholeAt(s, p)
    /\ \A q \in DOMAIN s : s[q].kind \in {"data", "crlf"} => \E p \in DOMAIN s : Within(s, p, q)

(* The same of a beginning of such a sequence. *)
Whole(s) ==
    /\ \A p \in DOMAIN s : s[p].kind = "value" =>
           /\ \A k \in 1..Len(s[p].rope) : p + k <= Len(s) =>
                  s[p + k].kind = "data" /\ s[p + k].size = s[p].rope[k]
           /\ p + Len(s[p].rope) + 1 <= Len(s) =>
                  s[p + Len(s[p].rope) + 1].kind = "crlf" /\ s[p + Len(s[p].rope) + 1].size = 1
    /\ \A q \in DOMAIN s : s[q].kind \in {"data", "crlf"} => \E p \in DOMAIN s : Within(s, p, q)

(* What is to be written before anything new: all staged or given to a     *)
(* write, and the rest of a value whose chunks are being sent.             *)
Pending ==
    CASE state_ \in {"execute_command", "execute_write", "write_result"} -> obuf
      [] state_ = "write_data" -> out \o RopeItems(odata_)
      [] OTHER -> out

(* A get has its replies wanted, and nothing is staged that would be lost. *)
QuietInv ==
    /\ io = "read_command" => ~noreply_ /\ obuf = <<>>
    /\ state_ \in {"execute_command", "write_data"} /\ cmd_ \in {"get", "gets"} => ~noreply_
    /\ state_ = "execute_command" /\ cmd_ = "empty" => obuf = <<>>

(* Until the session stops, what it has written and what it will write     *)
(* next have whole values only.                                            *)
OutputInv ==
    IF state_ \in {"stopping", "stopped"} THEN Whole(sent) ELSE Closed(sent \o Pending)

LEMMA RopeLength ==
    ASSUME NEW x \in ItemType
    PROVE  x.rope \in Seq(Nat \ {0}) /\ Len(x.rope) \in Nat
<1>1. x.rope \in Ropes \cup {<<>>} BY DEF ItemType
<1>2. x.rope \in Seq(Nat \ {0})
  <2>1. CASE x.rope \in Ropes BY <2>1, SizesAssumption
  <2>2. CASE x.rope = <<>> BY <2>2
  <2> QED BY <1>1, <2>1, <2>2
<1> QED BY <1>2

(* s is a part of z, after c items. *)
Part(s, z, c) == c + Len(s) <= Len(z) /\ \A i \in 1..Len(s) : z[c + i] = s[i]

LEMMA WholeShift ==
    ASSUME NEW s \in Seq(ItemType), NEW z \in Seq(ItemType), NEW c \in Nat, Part(s, z, c),
           NEW p \in 1..Len(s), WholeAt(s, p)
    PROVE  WholeAt(z, c + p)
<1>1. s[p] \in ItemType /\ z[c + p] = s[p] BY DEF Part
<1>2. PICK n \in Nat : n = Len(s[p].rope) BY <1>1, RopeLength
<1>3. PICK l \in Nat, m \in Nat : l = Len(s) /\ m = Len(z) OBVIOUS
<1>4. p \in Nat /\ p >= 1 /\ p + n + 1 <= l /\ c + l <= m BY <1>2, <1>3 DEF WholeAt, Part
<1>5. c + p + n + 1 <= m BY <1>4
<1>6. ASSUME NEW k \in 1..n PROVE z[c + p + k].kind = "data" /\ z[c + p + k].size = s[p].rope[k]
  <2>1. p + k \in 1..Len(s) /\ c + (p + k) = c + p + k BY <1>2, <1>3, <1>4
  <2>2. z[c + (p + k)] = s[p + k] BY <2>1 DEF Part
  <2> QED BY <1>2, <2>1, <2>2, SMTT(30) DEF WholeAt
<1>7. z[c + p + n + 1].kind = "crlf" /\ z[c + p + n + 1].size = 1
  <2>0. \A a, b, d \in Nat : a + b + 1 \in Nat /\ a + b + 1 >= 1 /\ d + (a + b + 1) = d + a + b + 1 OBVIOUS
  <2>1. p + n + 1 \in 1..Len(s) /\ c + (p + n + 1) = c + p + n + 1 BY <1>3, <1>4, <2>0
  <2>2. z[c + (p + n + 1)] = s[p + n + 1] BY <2>1 DEF Part
  <2> QED BY <1>2, <2>1, <2>2 DEF WholeAt
<1> QED BY <1>1, <1>2, <1>3, <1>5, <1>6, <1>7 DEF WholeAt

LEMMA WithinShift ==
    ASSUME NEW s \in Seq(ItemType), NEW z, NEW c \in Nat, Part(s, z, c),
           NEW p \in 1..Len(s), NEW q \in 1..Len(s), Within(s, p, q)
    PROVE  Within(z, c + p, c + q)
<1>1. s[p] \in ItemType /\ z[c + p] = s[p] BY DEF Part
<1>2. PICK n \in Nat : n = Len(s[p].rope) BY <1>1, RopeLength
<1>0. PICK l \in Nat : l = Len(s) OBVIOUS
<1>3. q \in p + 1 .. p + 1 + n /\ p \in Nat /\ q \in Nat
  <2>1. q \in p + 1 .. p + 1 + n BY <1>2 DEF Within
  <2>2. p \in 1..l /\ q \in 1..l BY <1>0
  <2> QED BY <2>1, <2>2
<1>4. c + q \in c + p + 1 .. c + p + 1 + n
  <2>1. \A a, b, d, e \in Nat : b \in a + 1 .. a + 1 + e => d + b \in d + a + 1 .. d + a + 1 + e OBVIOUS
  <2> QED BY <1>3, <2>1
<1> QED BY <1>1, <1>2, <1>4 DEF Within

LEMMA ClosedJoin ==
    ASSUME NEW s \in Seq(ItemType), NEW g \in Seq(ItemType), Closed(s), Closed(g)
    PROVE  Closed(s \o g)
<1>1. PICK l \in Nat, m \in Nat : l = Len(s) /\ m = Len(g) /\ DOMAIN s = 1..l /\ DOMAIN g = 1..m OBVIOUS
<1>2. PICK z : z = s \o g OBVIOUS
<1>3. /\ z \in Seq(ItemType) /\ Len(z) = Len(s) + Len(g)
      /\ \A i \in 1..Len(s) : z[i] = s[i]
      /\ \A i \in 1..Len(g) : z[Len(s) + i] = g[i]
  BY <1>2, JoinSeq
<1>4. Len(z) = l + m /\ DOMAIN z = 1..l + m BY <1>1, <1>3
<1>5. Part(s, z, 0)
  <2>1. \A i \in 1..l : 0 + i = i OBVIOUS
  <2>2. 0 + l <= l + m BY <1>1
  <2> QED BY <1>1, <1>3, <1>4, <2>1, <2>2 DEF Part
<1>6. Part(g, z, l)
  <2>1. l + m <= l + m BY <1>1
  <2> QED BY <1>1, <1>3, <1>4, <2>1 DEF Part
<1>7. ASSUME NEW p \in 1..l + m
      PROVE  \/ p \in 1..l /\ z[p] = s[p]
             \/ \E i \in 1..m : p = l + i /\ z[p] = g[i]
  <2>1. CASE p \in 1..l BY <1>1, <1>3, <2>1
  <2>2. CASE p \notin 1..l
    <3>1. p - l \in 1..m /\ p = l + (p - l) BY <1>1, <2>2
    <3>2. PICK i \in 1..m : p = l + i BY <3>1
    <3>3. z[p] = g[i] BY <1>1, <1>3, <3>2
    <3> QED BY <3>2, <3>3
  <2> QED BY <2>1, <2>2
<1>8. ASSUME NEW p \in DOMAIN z, z[p].kind = "value" PROVE WholeAt(z, p)
  <2>1. CASE p \in 1..l /\ z[p] = s[p]
    <3>1. WholeAt(s, p) BY <1>1, <1>8, <2>1 DEF Closed
    <3>2. 0 \in Nat /\ 0 + p = p BY <2>1
    <3>3. WholeAt(z, 0 + p) BY <1>1, <1>3, <1>5, <2>1, <3>1, <3>2, WholeShift
    <3> QED BY <3>2, <3>3
  <2>2. ASSUME NEW i \in 1..m, p = l + i, z[p] = g[i] PROVE WholeAt(z, p)
    <3>1. WholeAt(g, i) BY <1>1, <1>8, <2>2 DEF Closed
    <3>2. i \in 1..Len(g) BY <1>1, <2>2
    <3>3. WholeAt(z, l + i) BY <1>1, <1>3, <1>6, <3>1, <3>2, WholeShift
    <3> QED BY <2>2, <3>3
  <2> QED BY <1>4, <1>7, <2>1, <2>2
<1>9. ASSUME NEW q \in DOMAIN z, z[q].kind \in {"data", "crlf"} PROVE \E p \in DOMAIN z : Within(z, p, q)
  <2>1. CASE q \in 1..l /\ z[q] = s[q]
    <3>1. PICK p \in 1..l : Within(s, p, q) BY <1>1, <1>9, <2>1 DEF Closed
    <3>2. 0 \in Nat /\ 0 + p = p /\ 0 + q = q BY <2>1
    <3>3. Within(z, 0 + p, 0 + q) BY <1>1, <1>5, <2>1, <3>1, <3>2, WithinShift
    <3>4. p \in 1..l + m BY <1>1
    <3> QED BY <1>4, <3>2, <3>3, <3>4
  <2>2. ASSUME NEW i \in 1..m, q = l + i, z[q] = g[i] PROVE \E p \in DOMAIN z : Within(z, p, q)
    <3>1. PICK p \in 1..m : Within(g, p, i) BY <1>1, <1>9, <2>2 DEF Closed
    <3>2. Within(z, l + p, l + i) BY <1>1, <1>6, <2>2, <3>1, WithinShift
    <3>3. l + p \in 1..l + m BY <1>1
    <3> QED BY <1>4, <2>2, <3>2, <3>3
  <2> QED BY <1>4, <1>7, <2>1, <2>2
<1> QED BY <1>2, <1>8, <1>9 DEF Closed

LEMMA ClosedSmall ==
    /\ Closed(<<>>)
    /\ \A x \in ItemType : x.kind \notin {"value", "data", "crlf"} => Closed(<<x>>)
<1>1. Closed(<<>>) BY DEF Closed
<1>2. ASSUME NEW x \in ItemType, x.kind \notin {"value", "data", "crlf"} PROVE Closed(<<x>>)
  <2>1. DOMAIN <<x>> = {1} /\ <<x>>[1] = x OBVIOUS
  <2> QED BY <1>2, <2>1 DEF Closed
<1> QED BY <1>1, <1>2

(* The items of a rope: its chunks and a CRLF. *)
LEMMA RopeParts ==
    ASSUME TypeOK, NEW r \in Seq(Nat \ {0})
    PROVE  /\ RopeItems(r) \in Seq(ItemType) /\ Len(RopeItems(r)) = Len(r) + 1
           /\ \A k \in 1..Len(r) : RopeItems(r)[k] = DataItem(r[k])
           /\ RopeItems(r)[Len(r) + 1] = Item("crlf", 1)
<1>1. PICK n \in Nat : n = Len(r) /\ DOMAIN r = 1..n OBVIOUS
<1>2. PICK f, g : f = [i \in DOMAIN r |-> DataItem(r[i])] /\ g = <<Item("crlf", 1)>> OBVIOUS
<1>3. \A i \in 1..n : DataItem(r[i]) \in ItemType BY <1>1, ItemTypes
<1>4. f \in Seq(ItemType) /\ Len(f) = n /\ \A k \in 1..n : f[k] = DataItem(r[k]) BY <1>1, <1>2, <1>3
<1>5. Item("crlf", 1) \in ItemType BY ItemTypes DEF Kinds
<1>6. g \in Seq(ItemType) /\ Len(g) = 1 /\ g[1] = Item("crlf", 1) BY <1>2, <1>5
<1>7. PICK z : z = f \o g OBVIOUS
<1>8. /\ z \in Seq(ItemType) /\ Len(z) = Len(f) + Len(g)
      /\ \A i \in 1..Len(f) : z[i] = f[i]
      /\ \A i \in 1..Len(g) : z[Len(f) + i] = g[i]
  <2>1. f \in Seq(ItemType) /\ g \in Seq(ItemType) /\ z = f \o g BY <1>4, <1>6, <1>7
  <2> QED BY <2>1, JoinSeq
<1>9. 1 \in 1..Len(g) BY <1>6
<1>10. z[n + 1] = Item("crlf", 1) BY <1>4, <1>6, <1>8, <1>9
<1>11. Len(z) = n + 1 BY <1>4, <1>6, <1>8
<1>12. \A k \in 1..n : z[k] = DataItem(r[k]) BY <1>4, <1>8
<1>13. RopeItems(r) = z BY <1>2, <1>7 DEF RopeItems
<1> QED BY <1>1, <1>8, <1>10, <1>11, <1>12, <1>13

(* A whole value, as get() stages it. *)
LEMMA ClosedValue ==
    ASSUME TypeOK, NEW w, NEW r \in Ropes
    PROVE  Closed(<<ValueItem(w, r)>> \o RopeItems(r))
<1>1. r \in Seq(Nat \ {0}) BY SizesAssumption
<1>2. PICK n \in Nat : n = Len(r) /\ DOMAIN r = 1..n BY <1>1
<1>3. PICK f, g, z : f = <<ValueItem(w, r)>> /\ g = RopeItems(r) /\ z = f \o g OBVIOUS
<1>4. /\ g \in Seq(ItemType) /\ Len(g) = n + 1
      /\ \A k \in 1..n : g[k] = DataItem(r[k])
      /\ g[n + 1] = Item("crlf", 1)
  BY <1>1, <1>2, <1>3, RopeParts
<1>5. ValueItem(w, r) \in ItemType BY ItemTypes
<1>6. f \in Seq(ItemType) /\ Len(f) = 1 /\ f[1] = ValueItem(w, r) BY <1>3, <1>5
<1>7. /\ z \in Seq(ItemType) /\ Len(z) = Len(f) + Len(g)
      /\ \A i \in 1..Len(f) : z[i] = f[i]
      /\ \A i \in 1..Len(g) : z[Len(f) + i] = g[i]
  <2>1. f \in Seq(ItemType) /\ g \in Seq(ItemType) /\ z = f \o g BY <1>3, <1>4, <1>6
  <2> QED BY <2>1, JoinSeq
<1>8. Len(z) = 1 + (n + 1) /\ DOMAIN z = 1..1 + (n + 1) /\ z[1] = ValueItem(w, r)
  <2>1. 1 \in 1..Len(f) BY <1>6
  <2> QED BY <1>4, <1>6, <1>7, <2>1
<1>9. \A k \in 1..n + 1 : z[1 + k] = g[k] BY <1>4, <1>6, <1>7
<1>10. z[1].kind = "value" /\ z[1].rope = r BY <1>8 DEF ValueItem, Item
<1>11. ASSUME NEW k \in 1..n PROVE z[1 + k].kind = "data" /\ z[1 + k].size = r[k]
  <2>1. k \in 1..n + 1 BY <1>2
  <2>2. z[1 + k] = DataItem(r[k]) BY <1>4, <1>9, <2>1
  <2> QED BY <2>2 DEF DataItem, Item
<1>12. z[1 + n + 1].kind = "crlf" /\ z[1 + n + 1].size = 1
  <2>1. n + 1 \in 1..n + 1 /\ 1 + n + 1 = 1 + (n + 1) BY <1>2
  <2>2. z[1 + (n + 1)] = Item("crlf", 1) BY <1>4, <1>9, <2>1
  <2> QED BY <2>1, <2>2 DEF Item
<1>13. WholeAt(z, 1)
  <2>1. 1 + n + 1 <= 1 + (n + 1) BY <1>2
  <2> QED BY <1>2, <1>8, <1>10, <1>11, <1>12, <2>1 DEF WholeAt
<1>14. ASSUME NEW p \in 2..1 + (n + 1) PROVE z[p].kind # "value" /\ Within(z, 1, p)
  <2>1. p \in 1 + 1 .. 1 + 1 + n BY <1>2
  <2>2. CASE p = 1 + (n + 1)
    <3>1. 1 + (n + 1) = 1 + n + 1 BY <1>2
    <3> QED BY <1>2, <1>10, <1>12, <2>1, <2>2, <3>1 DEF Within
  <2>3. CASE p # 1 + (n + 1)
    <3>1. p - 1 \in 1..n /\ p = 1 + (p - 1) BY <1>2, <2>3
    <3>2. PICK k \in 1..n : p = 1 + k BY <3>1
    <3> QED BY <1>2, <1>10, <1>11, <2>1, <3>2 DEF Within
  <2> QED BY <2>2, <2>3
<1>15. \A p \in DOMAIN z : p = 1 \/ p \in 2..1 + (n + 1) BY <1>2, <1>8
<1>16. 1 \in DOMAIN z BY <1>2, <1>8
<1> QED BY <1>3, <1>10, <1>13, <1>14, <1>15, <1>16 DEF Closed

LEMMA ClosedPrefix ==
    ASSUME NEW s \in Seq(ItemType), NEW t \in Seq(ItemType), Closed(s \o t)
    PROVE  Whole(s)
<1>1. PICK l \in Nat, m \in Nat : l = Len(s) /\ m = Len(t) /\ DOMAIN s = 1..l OBVIOUS
<1>2. PICK z : z = s \o t OBVIOUS
<1>3. /\ z \in Seq(ItemType) /\ Len(z) = Len(s) + Len(t)
      /\ \A i \in 1..Len(s) : z[i] = s[i]
  BY <1>2, JoinSeq
<1>4. DOMAIN z = 1..l + m /\ \A i \in 1..l : z[i] = s[i] /\ i \in 1..l + m BY <1>1, <1>3
<1>5. ASSUME NEW p \in DOMAIN s, s[p].kind = "value"
      PROVE  /\ \A k \in 1..Len(s[p].rope) : p + k <= Len(s) =>
                    s[p + k].kind = "data" /\ s[p + k].size = s[p].rope[k]
             /\ p + Len(s[p].rope) + 1 <= Len(s) =>
                    s[p + Len(s[p].rope) + 1].kind = "crlf" /\ s[p + Len(s[p].rope) + 1].size = 1
  <2>1. s[p] \in ItemType /\ z[p] = s[p] /\ p \in DOMAIN z BY <1>1, <1>4
  <2>2. PICK n \in Nat : n = Len(s[p].rope) BY <2>1, RopeLength
  <2>3. WholeAt(z, p) BY <1>2, <1>5, <2>1 DEF Closed
  <2>4. ASSUME NEW k \in 1..n, p + k <= l PROVE s[p + k].kind = "data" /\ s[p + k].size = s[p].rope[k]
    <3>1. p + k \in 1..l BY <1>1, <2>2, <2>4
    <3>2. z[p + k] = s[p + k] BY <1>4, <3>1
    <3> QED BY <2>1, <2>2, <2>3, <3>2 DEF WholeAt
  <2>5. ASSUME p + n + 1 <= l PROVE s[p + n + 1].kind = "crlf" /\ s[p + n + 1].size = 1
    <3>1. p + n + 1 \in 1..l BY <1>1, <2>2, <2>5
    <3>2. z[p + n + 1] = s[p + n + 1] BY <1>4, <3>1
    <3> QED BY <2>1, <2>2, <2>3, <3>2 DEF WholeAt
  <2> QED BY <1>1, <2>2, <2>4, <2>5
<1>6. ASSUME NEW q \in DOMAIN s, s[q].kind \in {"data", "crlf"} PROVE \E p \in DOMAIN s : Within(s, p, q)
  <2>1. q \in DOMAIN z /\ z[q] = s[q] BY <1>1, <1>4
  <2>2. PICK p \in DOMAIN z : Within(z, p, q) BY <1>2, <1>6, <2>1 DEF Closed
  <2>3. p \in 1..l
    <3>1. z[p] \in ItemType BY <1>3
    <3>2. PICK n \in Nat : n = Len(z[p].rope) BY <3>1, RopeLength
    <3>3. q \in p + 1 .. p + 1 + n /\ p \in 1..l + m /\ q \in 1..l BY <1>1, <1>4, <2>2, <3>2 DEF Within
    <3> QED BY <3>3
  <2>4. Within(s, p, q) BY <1>4, <2>2, <2>3 DEF Within
  <2> QED BY <1>1, <2>3, <2>4
<1> QED BY <1>5, <1>6 DEF Whole

(* ValuesWhole is what Whole says of the items written. *)
LEMMA MidSeq ==
    ASSUME NEW S, NEW s \in Seq(S), NEW a \in 0..Len(s), NEW e \in a..Len(s)
    PROVE  /\ SubSeq(s, a + 1, e) \in Seq(S)
           /\ Len(SubSeq(s, a + 1, e)) = e - a
           /\ \A i \in 1..e - a : SubSeq(s, a + 1, e)[i] = s[a + i]
OBVIOUS

LEMMA WholeValues ==
    ASSUME sent \in Seq(ItemType), Whole(sent)
    PROVE  ValuesWhole
<1> DEFINE V == {p \in DOMAIN sent : sent[p].kind = "value"}
<1> DEFINE Aft(p) == SubSeq(sent, p + 1, LeastOf(Len(sent), p + Len(sent[p].rope) + 1))
<1> DEFINE Bod(p) == [k \in 1..Len(sent[p].rope) + 1 |->
                        IF k <= Len(sent[p].rope) THEN <<"data", sent[p].rope[k]>> ELSE <<"crlf", 1>>]
<1>1. PICK l \in Nat : l = Len(sent) /\ DOMAIN sent = 1..l OBVIOUS
<1>2. ASSUME NEW p \in V, NEW k \in DOMAIN Aft(p) PROVE <<Aft(p)[k].kind, Aft(p)[k].size>> = Bod(p)[k]
  <2>1. sent[p] \in ItemType /\ p \in 1..l /\ sent[p].kind = "value" BY <1>1
  <2>2. PICK n \in Nat : n = Len(sent[p].rope) BY <2>1, RopeLength
  <2>3. PICK e \in Nat : e = LeastOf(l, p + n + 1) /\ e <= l /\ e <= p + n + 1 /\ e \in {l, p + n + 1}
    <3>1. p + n + 1 \in Nat BY <2>1, <2>2
    <3> QED BY <1>1, <3>1, LeastType
  <2>4. p \in 0..Len(sent) /\ e \in p..Len(sent) BY <1>1, <2>1, <2>2, <2>3
  <2>5. PICK x : x = SubSeq(sent, p + 1, e) OBVIOUS
  <2>6. Aft(p) = x BY <1>1, <2>2, <2>3, <2>5
  <2>7. x \in Seq(ItemType) /\ Len(x) = e - p /\ \A i \in 1..e - p : x[i] = sent[p + i]
    BY <2>4, <2>5, MidSeq
  <2>0. DOMAIN x = 1..e - p BY <2>7
  <2>8. k \in 1..e - p BY <2>0, <2>6
  <2>9. p + k <= l /\ k \in 1..n + 1
    <3>1. \A a, b, c, d \in Nat : a \in 1..b - c /\ b <= d /\ b <= c + n + 1 => c + a <= d /\ a \in 1..n + 1
      BY <2>2
    <3>2. k \in Nat /\ p \in Nat BY <1>1, <2>1, <2>3, <2>8
    <3> QED BY <1>1, <2>3, <2>8, <3>1, <3>2
  <2>10. Aft(p)[k] = sent[p + k] BY <2>6, <2>7, <2>8
  <2>11. Bod(p)[k] = IF k <= n THEN <<"data", sent[p].rope[k]>> ELSE <<"crlf", 1>> BY <2>2, <2>9
  <2>12. CASE k <= n
    <3>1. k \in 1..n BY <2>9, <2>12
    <3>0. \A j \in 1..n : p + j <= l => sent[p + j].kind = "data" /\ sent[p + j].size = sent[p].rope[j]
      <4>1. \A j \in 1..Len(sent[p].rope) : p + j <= Len(sent) =>
                sent[p + j].kind = "data" /\ sent[p + j].size = sent[p].rope[j]
        <5>1. p \in DOMAIN sent BY <1>1, <2>1
        <5> QED BY <2>1, <5>1 DEF Whole
      <4> QED BY <1>1, <2>2, <4>1
    <3>2. sent[p + k].kind = "data" /\ sent[p + k].size = sent[p].rope[k] BY <2>9, <3>0, <3>1
    <3> QED BY <2>10, <2>11, <2>12, <3>2
  <2>13. CASE ~(k <= n)
    <3>1. k = n + 1 /\ p + k = p + n + 1 BY <2>1, <2>2, <2>9, <2>13
    <3>2. p + n + 1 <= l BY <2>9, <3>1
    <3>3. sent[p + n + 1].kind = "crlf" /\ sent[p + n + 1].size = 1 BY <1>1, <2>1, <2>2, <3>2 DEF Whole
    <3> QED BY <2>10, <2>11, <2>13, <3>1, <3>3
  <2> QED BY <2>12, <2>13
<1>3. ASSUME NEW q \in DOMAIN sent, sent[q].kind \in {"data", "crlf"}
      PROVE  \E p \in V : q \in p + 1 .. p + 1 + Len(sent[p].rope)
  <2>1. PICK p \in DOMAIN sent : Within(sent, p, q) BY <1>3 DEF Whole
  <2> QED BY <2>1 DEF Within
<1> HIDE DEF V, Aft, Bod
<1>4. /\ \A p \in V : \A k \in DOMAIN Aft(p) : <<Aft(p)[k].kind, Aft(p)[k].size>> = Bod(p)[k]
      /\ \A q \in DOMAIN sent : sent[q].kind \in {"data", "crlf"} =>
             \E p \in V : q \in p + 1 .. p + 1 + Len(sent[p].rope)
  BY <1>2, <1>3
<1> QED BY <1>4 DEF V, Aft, Bod, ValuesWhole

-----------------------------------------------------------------------------
(* The output, action by action.                                           *)

OutInv == SessionInv /\ QuietInv /\ OutputInv

Lines == Kinds \ {"value", "data", "crlf"}
Stops == {"stopping", "stopped"}
Staging == {"execute_command", "execute_write", "write_result"}

LEMMA OutTypes ==
    ASSUME SessionInv
    PROVE  /\ TypeOK
           /\ sent \in Seq(ItemType) /\ out \in Seq(ItemType) /\ obuf \in Seq(ItemType)
           /\ RopeItems(odata_) \in Seq(ItemType) /\ Pending \in Seq(ItemType)
<1>1. /\ TypeOK /\ sent \in Seq(ItemType) /\ out \in Seq(ItemType) /\ obuf \in Seq(ItemType)
      /\ odata_ \in Seq(Nat \ {0})
  BY DEF SessionInv, TypeOK
<1>2. RopeItems(odata_) \in Seq(ItemType) BY <1>1, RopeParts
<1>3. out \o RopeItems(odata_) \in Seq(ItemType) BY <1>1, <1>2, JoinSeq
<1> QED BY <1>1, <1>2, <1>3 DEF Pending

LEMMA Emit ==
    ASSUME NEW s \in Seq(ItemType), NEW x \in Seq(ItemType), NEW g \in Seq(ItemType),
           Closed(s \o x), Closed(g)
    PROVE  Closed(s \o (x \o g))
<1>1. PICK y : y = s \o x OBVIOUS
<1>2. y \in Seq(ItemType) BY <1>1, JoinSeq
<1>3. Closed(y \o g) BY <1>1, <1>2, ClosedJoin
<1>4. s \o (x \o g) = y \o g BY <1>1, JoinAssoc, SMTT(30)
<1> QED BY <1>3, <1>4

(* A line is staged, or none as none is wanted. *)
LEMMA OutputItem ==
    ASSUME OutInv, state_ \in Staging, state_' \in Staging, sent' = sent, NEW k \in Lines,
           NEW n \in Nat \ {0},
           obuf' = obuf \/ obuf' = obuf \o <<Item(k, n)>>
    PROVE  OutputInv'
<1>1. /\ TypeOK /\ sent \in Seq(ItemType) /\ obuf \in Seq(ItemType) BY OutTypes DEF OutInv
<1>2. Pending = obuf /\ Pending' = obuf' /\ state_ \notin Stops /\ state_' \notin Stops
  BY DEF Pending, Staging, Stops
<1>3. Closed(sent \o obuf) BY <1>2 DEF OutInv, OutputInv, Stops
<1>4. Item(k, n) \in ItemType /\ Item(k, n).kind = k BY <1>1, ItemTypes DEF Lines, Item
<1>5. <<Item(k, n)>> \in Seq(ItemType) /\ Closed(<<Item(k, n)>>) BY <1>4, ClosedSmall DEF Lines
<1>6. Closed(sent \o obuf')
  <2>1. PICK g : g = <<Item(k, n)>> OBVIOUS
  <2>2. Closed(sent \o (obuf \o g)) BY <1>1, <1>3, <1>5, <2>1, Emit
  <2> QED BY <1>3, <2>1, <2>2
<1> QED BY <1>2, <1>6 DEF OutputInv, Stops

LEMMA OutputLine ==
    ASSUME OutInv, state_ \in Staging, state_' \in Staging, sent' = sent, NEW k \in Lines,
           obuf' = obuf \/ obuf' = obuf \o <<Item(k, 1)>>
    PROVE  OutputInv'
<1>1. PICK n \in Nat \ {0} : n = 1 OBVIOUS
<1>2. obuf' = obuf \/ obuf' = obuf \o <<Item(k, n)>> BY <1>1
<1> QED BY <1>2, OutputItem

(* The session stops: of what is pending nothing more is written. *)
LEMMA OutputStop ==
    ASSUME OutInv, state_' \in Stops, sent' = sent
    PROVE  OutputInv'
<1>1. sent \in Seq(ItemType) /\ Pending \in Seq(ItemType) BY OutTypes DEF OutInv
<1>2. CASE state_ \in Stops BY <1>2 DEF OutInv, OutputInv, Stops
<1>3. CASE state_ \notin Stops
  <2>1. Closed(sent \o Pending) BY <1>3 DEF OutInv, OutputInv, Stops
  <2>2. Whole(sent) BY <1>1, <2>1, ClosedPrefix
  <2> QED BY <2>2 DEF OutputInv, Stops
<1> QED BY <1>2, <1>3

(* What is pending stays so. *)
LEMMA OutputSame ==
    ASSUME OutInv, state_ \notin Stops, state_' \notin Stops, sent' = sent, Pending' = Pending
    PROVE  OutputInv'
BY DEF OutInv, OutputInv, Stops

LEMMA OutputCommands ==
    ASSUME OutInv,
           \/ bad_command \/ empty_command \/ quit \/ version \/ del \/ incr_decr
           \/ touch \/ flush_all \/ recv_data \/ dispatch_write
    PROVE  QuietInv' /\ OutputInv'
<1> USE DEF cmdVars, dataVars, ropeVars, clientVars, Executing, Running, Continue
<1>0. /\ "error" \in Lines /\ "status" \in Lines /\ "number" \in Lines
      /\ "version" \in Lines /\ "stats" \in Lines
  BY DEF Lines, Kinds
<1>1. CASE bad_command
  <2>1. /\ state_ \in Staging /\ state_' = "write_result" /\ state_' \in Staging /\ sent' = sent /\ io' = "none"
        /\ obuf' = obuf \/ obuf' = obuf \o <<Item("error", ErrorSize)>>
    BY <1>1 DEF bad_command, client_error, send, Staging
  <2>4. PICK n \in Nat \ {0} : n = ErrorSize BY ErrorTypes DEF OutInv
  <2>2. OutputInv' BY <1>0, <2>1, <2>4, OutputItem
  <2>3. QuietInv' BY <2>1 DEF QuietInv
  <2> QED BY <2>2, <2>3
<1>2. CASE version
  <2>1. /\ state_ \in Staging /\ state_' = "write_result" /\ state_' \in Staging /\ sent' = sent /\ io' = "none"
        /\ obuf' = obuf \/ obuf' = obuf \o <<Item(cmd_, 1)>>
        /\ cmd_ \in Lines
    BY <1>0, <1>2 DEF version, Reply, send, Staging
  <2>2. OutputInv' BY <2>1, OutputLine
  <2>3. QuietInv' BY <2>1 DEF QuietInv
  <2> QED BY <2>2, <2>3
<1>3. CASE dispatch_write
  <2>1. /\ state_ \in Staging /\ state_' = "write_result" /\ state_' \in Staging /\ sent' = sent /\ io' = "none"
        /\ obuf' = obuf \/ obuf' = obuf \o <<Item("status", 1)>>
    BY <1>3 DEF dispatch_write, Reply, send, Staging
  <2>2. OutputInv' BY <1>0, <2>1, OutputLine
  <2>3. QuietInv' BY <2>1 DEF QuietInv
  <2> QED BY <2>2, <2>3
<1>4. CASE del \/ incr_decr \/ touch \/ flush_all
  <2>1. /\ state_ \in Staging /\ state_' \in Staging /\ sent' = sent /\ io' = "none"
        /\ state_' \in {"execute_command", "write_result"}
        /\ cmd_' = cmd_ /\ cmd_ \notin {"get", "gets", "empty"}
    BY <1>4 DEF del, incr_decr, touch, flush_all, parse_noreply, Staging
  <2>2. \/ obuf' = obuf
        \/ obuf' = obuf \o <<Item("status", 1)>>
        \/ obuf' = obuf \o <<Item("number", 1)>>
    BY <1>4 DEF del, incr_decr, touch, flush_all, SendParsed
  <2>3. OutputInv'
    <3>1. CASE obuf' = obuf \/ obuf' = obuf \o <<Item("status", 1)>> BY <1>0, <2>1, <3>1, OutputLine
    <3>2. CASE obuf' = obuf \o <<Item("number", 1)>> BY <1>0, <2>1, <3>2, OutputLine
    <3> QED BY <2>2, <3>1, <3>2
  <2>4. QuietInv' BY <2>1 DEF QuietInv
  <2> QED BY <2>3, <2>4
<1>5. CASE recv_data
  <2>1. /\ state_ \in Staging /\ state_' = "execute_write" /\ state_' \in Staging /\ sent' = sent /\ obuf' = obuf
        /\ io' # "read_command"
    BY <1>5 DEF recv_data, Staging
  <2>2. OutputInv' BY <1>0, <2>1, OutputLine
  <2>3. QuietInv' BY <2>1 DEF QuietInv
  <2> QED BY <2>2, <2>3
<1>6. CASE quit
  <2>1. state_' = "stopping" /\ state_' \in Stops /\ sent' = sent /\ io' = "none" BY <1>6 DEF quit, Stops
  <2>2. OutputInv' BY <2>1, OutputStop
  <2>3. QuietInv' BY <2>1 DEF QuietInv
  <2> QED BY <2>2, <2>3
<1>7. CASE empty_command
  <2>1. /\ state_ = "execute_command" /\ io = "none" /\ cmd_ = "empty"
        /\ state_' = "write_prompt" /\ sent' = sent /\ io' = "none" /\ out' = out
    BY <1>7 DEF empty_command
  <2>2. Pending = <<>> BY <2>1 DEF OutInv, QuietInv, Pending
  <2>3. out = <<>> BY <2>1 DEF OutInv, SessionInv, TypeOK
  <2>4. Pending' = <<>> BY <2>1, <2>3 DEF Pending
  <2>5. OutputInv' BY <2>1, <2>2, <2>4, OutputSame DEF Stops
  <2>6. QuietInv' BY <2>1 DEF QuietInv
  <2> QED BY <2>5, <2>6
<1> QED BY <1>1, <1>2, <1>3, <1>4, <1>5, <1>6, <1>7

LEMMA OutputGet ==
    ASSUME OutInv, get
    PROVE  QuietInv' /\ OutputInv'
<1> USE DEF Executing, Running, Continue
<1>1. /\ state_ = "execute_command" /\ io = "none" /\ cmd_' = cmd_ /\ cmd_ \in {"get", "gets"}
      /\ noreply_' = noreply_ /\ sent' = sent
  BY DEF get
<1>2. /\ TypeOK /\ sent \in Seq(ItemType) /\ obuf \in Seq(ItemType) BY OutTypes DEF OutInv
<1>3. ~noreply_ /\ out = <<>> BY <1>1, <1>2 DEF OutInv, QuietInv, TypeOK
<1>4. Closed(sent \o obuf) BY <1>1 DEF OutInv, OutputInv, Pending
<1>5. CASE Reply("end") \/ Reply("status")
  <2>1. "status" \in Lines /\ "end" \in Lines BY DEF Lines, Kinds
  <2>2. state_ \in Staging /\ state_' \in Staging /\ state_' = "write_result" /\ io' = "none"
    BY <1>1, <1>5 DEF Reply, Staging
  <2>3. OutputInv'
    <3>1. CASE Reply("end")
      <4>1. obuf' = obuf \o <<Item("end", 1)>> BY <1>3, <3>1 DEF Reply, send
      <4> QED BY <1>1, <2>1, <2>2, <4>1, OutputLine
    <3>2. CASE Reply("status")
      <4>1. obuf' = obuf \o <<Item("status", 1)>> BY <1>3, <3>2 DEF Reply, send
      <4> QED BY <1>1, <2>1, <2>2, <4>1, OutputLine
    <3> QED BY <1>5, <3>1, <3>2
  <2>4. QuietInv' BY <2>2 DEF QuietInv
  <2> QED BY <2>3, <2>4
<1>6. ASSUME NEW r \in Ropes, NEW b, b = send(obuf, <<ValueItem(Head(args_), r)>>)
      PROVE  /\ b = obuf \o <<ValueItem(Head(args_), r)>> /\ b \in Seq(ItemType) /\ RopeItems(r) \in Seq(ItemType)
             /\ Closed(sent \o (b \o RopeItems(r)))
  <2>1. PICK v, g : v = <<ValueItem(Head(args_), r)>> /\ g = RopeItems(r) OBVIOUS
  <2>2. v \in Seq(ItemType) /\ g \in Seq(ItemType) BY <1>2, <2>1, ItemTypes
  <2>3. b = obuf \o v BY <1>3, <1>6, <2>1 DEF send
  <2>4. b \in Seq(ItemType) /\ v \o g \in Seq(ItemType) BY <1>2, <2>2, <2>3, JoinSeq
  <2>5. Closed(v \o g) BY <1>2, <2>1, ClosedValue
  <2>6. Closed(sent \o (obuf \o (v \o g))) BY <1>2, <1>4, <2>4, <2>5, Emit
  <2>7. obuf \o (v \o g) = b \o g BY <1>2, <2>2, <2>3, JoinAssoc, SMTT(30)
  <2> QED BY <2>1, <2>2, <2>3, <2>4, <2>6, <2>7
<1>7. ASSUME NEW r \in Ropes, NEW b, b = send(obuf, <<ValueItem(Head(args_), r)>>),
             obuf' = send(b, RopeItems(r)), Continue, state_' = state_
      PROVE  QuietInv' /\ OutputInv'
  <2>1. obuf' = b \o RopeItems(r) BY <1>3, <1>7 DEF send
  <2>2. Pending' = obuf' BY <1>1, <1>7 DEF Pending
  <2>3. OutputInv' BY <1>1, <1>6, <1>7, <2>1, <2>2 DEF OutputInv
  <2>4. QuietInv' BY <1>1, <1>3, <1>7 DEF QuietInv
  <2> QED BY <2>3, <2>4
<1>8. ASSUME NEW r \in Ropes, NEW b, b = send(obuf, <<ValueItem(Head(args_), r)>>), odata_' = r,
             state_' = "write_data", obuf' = b, flush(b)
      PROVE  QuietInv' /\ OutputInv'
  <2>1. out' = b /\ io' \in {"none", "write"} BY <1>8 DEF flush
  <2>2. cur' = cur BY DEF get
  <2>3. RopeItems(odata_)' = RopeItems(r) BY <1>8, <2>2 DEF RopeItems, DataItem, Item
  <2>4. Pending' = b \o RopeItems(r) BY <1>8, <2>1, <2>3 DEF Pending
  <2>5. OutputInv' BY <1>1, <1>6, <1>8, <2>4 DEF OutputInv
  <2>6. QuietInv' BY <1>1, <1>3, <1>8, <2>1 DEF QuietInv
  <2> QED BY <2>5, <2>6
<1>9. \/ Reply("end") \/ Reply("status")
      \/ \E r \in Ropes : LET b == send(obuf, <<ValueItem(Head(args_), r)>>)
                          IN \/ obuf' = send(b, RopeItems(r)) /\ Continue /\ state_' = state_
                             \/ odata_' = r /\ state_' = "write_data" /\ obuf' = b /\ flush(b)
  BY DEF get
<1> QED BY <1>5, <1>7, <1>8, <1>9

(* One chunk of a value is what is owed of it before and after. *)
LEMMA RopeHead ==
    ASSUME TypeOK, NEW r \in Seq(Nat \ {0}), r # <<>>
    PROVE  RopeItems(r) = <<DataItem(Head(r))>> \o RopeItems(Tail(r))
<1>1. PICK n \in Nat : Len(r) = n + 1
  <2>1. Len(r) \in Nat /\ Len(r) # 0 OBVIOUS
  <2> QED BY <2>1
<1>2. PICK t : t = Tail(r) OBVIOUS
<1>3. t \in Seq(Nat \ {0}) /\ Len(t) = n /\ \A i \in 1..n : t[i] = r[i + 1] BY <1>1, <1>2
<1>4. Head(r) = r[1] /\ r[1] \in Nat \ {0} BY <1>1
<1>5. PICK f, g, x, z : /\ f = RopeItems(r) /\ g = RopeItems(t) /\ x = <<DataItem(r[1])>> /\ z = x \o g
  OBVIOUS
<1>6. /\ f \in Seq(ItemType) /\ Len(f) = n + 1 + 1
      /\ \A k \in 1..n + 1 : f[k] = DataItem(r[k])
      /\ f[n + 1 + 1] = Item("crlf", 1)
  BY <1>1, <1>5, RopeParts
<1>7. /\ g \in Seq(ItemType) /\ Len(g) = n + 1
      /\ \A k \in 1..n : g[k] = DataItem(t[k])
      /\ g[n + 1] = Item("crlf", 1)
  BY <1>3, <1>5, RopeParts
<1>8. x \in Seq(ItemType) /\ Len(x) = 1 /\ x[1] = DataItem(r[1])
  <2>1. DataItem(r[1]) \in ItemType BY <1>4, ItemTypes
  <2> QED BY <1>5, <2>1
<1>9. /\ z \in Seq(ItemType) /\ Len(z) = Len(x) + Len(g)
      /\ \A i \in 1..Len(x) : z[i] = x[i]
      /\ \A i \in 1..Len(g) : z[Len(x) + i] = g[i]
  BY <1>5, <1>7, <1>8, JoinSeq
<1>10. Len(z) = Len(f) BY <1>6, <1>7, <1>8, <1>9
<1>11. ASSUME NEW i \in 1..n + 1 + 1 PROVE f[i] = z[i]
  <2>1. CASE i = 1
    <3>1. 1 \in 1..Len(x) /\ 1 \in 1..n + 1 BY <1>8
    <3> QED BY <1>6, <1>8, <1>9, <2>1, <3>1
  <2>2. CASE i \in 2..n + 1
    <3>1. PICK k \in 1..n : i = k + 1 /\ i = 1 + k
      <4>1. i - 1 \in 1..n /\ i = (i - 1) + 1 /\ i = 1 + (i - 1) BY <2>2
      <4> QED BY <4>1
    <3>2. k \in 1..Len(g) /\ i \in 1..n + 1 BY <1>7, <3>1
    <3>3. z[i] = DataItem(t[k]) BY <1>7, <1>8, <1>9, <3>1, <3>2
    <3> QED BY <1>3, <1>6, <3>1, <3>2, <3>3
  <2>3. CASE i = n + 1 + 1
    <3>1. n + 1 \in 1..Len(g) /\ i = 1 + (n + 1) BY <1>7, <2>3
    <3>2. z[1 + (n + 1)] = g[n + 1] BY <1>8, <1>9, <3>1
    <3> QED BY <1>6, <1>7, <2>3, <3>1, <3>2
  <2>4. i = 1 \/ i \in 2..n + 1 \/ i = n + 1 + 1 OBVIOUS
  <2> QED BY <2>1, <2>2, <2>3, <2>4
<1>12. f = z BY <1>6, <1>9, <1>10, <1>11, SameSeq
<1> QED BY <1>2, <1>4, <1>5, <1>12

(* A result or the next chunk of a value is given to a write: it was pending. *)
LEMMA PendingKept ==
    ASSUME OutInv, write_result \/ send_data
    PROVE  Pending' = Pending /\ sent' = sent
<1> USE DEF cmdVars, dataVars, ropeVars, clientVars, Running, Continue
<1>0. TypeOK /\ odata_ \in Seq(Nat \ {0}) BY DEF OutInv, SessionInv, TypeOK
<1>1. out = <<>> /\ io = "none" /\ sent' = sent /\ noreply_' = noreply_ /\ cmd_' = cmd_ /\ cur' = cur
  BY <1>0 DEF TypeOK, write_result, send_data
<1>2. CASE write_result
  <2>1. state_ = "write_result" /\ state_' = "write_prompt" /\ out' = obuf BY <1>2 DEF write_result, flush
  <2> QED BY <1>1, <2>1 DEF Pending
<1>3. CASE send_data
  <2>1. state_ = "write_data" /\ cmd_ \in {"get", "gets"} /\ ~noreply_
    BY <1>3 DEF send_data, OutInv, SessionInv, StateInv, QuietInv
  <2>2. Pending = RopeItems(odata_)
    <3>1. Pending = <<>> \o RopeItems(odata_) BY <1>1, <2>1 DEF Pending
    <3>2. RopeItems(odata_) \in Seq(ItemType) BY OutTypes DEF OutInv
    <3> QED BY <3>1, <3>2, DropNone
  <2>3. CASE odata_ = <<>>
    <3>1. state_' = "execute_command" /\ io' = "none" /\ obuf' = <<>> \o <<Item("crlf", 1)>>
      BY <1>1, <1>3, <2>1, <2>3 DEF send_data, send
    <3>2. Pending' = <<>> \o <<Item("crlf", 1)>> BY <3>1 DEF Pending
    <3>3. Pending = <<>> \o <<Item("crlf", 1)>>
      <4>1. [i \in DOMAIN odata_ |-> DataItem(odata_[i])] = <<>> BY <2>3
      <4> QED BY <2>2, <4>1 DEF RopeItems
    <3> QED BY <1>1, <3>2, <3>3
  <2>4. CASE odata_ # <<>>
    <3>1. /\ state_' = "write_data" /\ io' = "write" /\ odata_' = Tail(odata_)
          /\ out' = <<DataItem(Head(odata_))>>
      BY <1>3, <2>1, <2>4 DEF send_data
    <3>2. RopeItems(odata_)' = RopeItems(Tail(odata_)) BY <1>1, <3>1 DEF RopeItems, DataItem, Item
    <3>3. Pending' = <<DataItem(Head(odata_))>> \o RopeItems(Tail(odata_)) BY <3>1, <3>2 DEF Pending
    <3> QED BY <1>0, <1>1, <2>2, <2>4, <3>3, RopeHead
  <2> QED BY <2>3, <2>4
<1> QED BY <1>2, <1>3

(* Writing: what is sent was pending. *)
LEMMA OutputWrites ==
    ASSUME OutInv, send_prompt \/ write_result \/ send_data
    PROVE  QuietInv' /\ OutputInv'
<1> USE DEF cmdVars, dataVars, ropeVars, clientVars, Running, Continue
<1>0. /\ TypeOK /\ sent \in Seq(ItemType) /\ obuf \in Seq(ItemType) /\ out \in Seq(ItemType)
      /\ odata_ \in Seq(Nat \ {0})
  BY OutTypes DEF OutInv, TypeOK
<1>1. out = <<>> /\ io = "none" /\ sent' = sent /\ noreply_' = noreply_ /\ cmd_' = cmd_ /\ cur' = cur
  BY <1>0 DEF TypeOK, send_prompt, write_result, send_data
<1>2. CASE send_prompt
  <2>1. /\ state_ = "write_prompt" /\ state_' = "read_command" /\ out' = obuf' /\ io' \in {"none", "write"}
        /\ obuf' = <<>> \/ obuf' = <<>> \o <<Item("prompt", 1)>>
    BY <1>2 DEF send_prompt, flush, send
  <2>2. "prompt" \in Lines BY DEF Lines, Kinds
  <2>3. PICK g : g = <<Item("prompt", 1)>> OBVIOUS
  <2>4. Item("prompt", 1) \in ItemType /\ Item("prompt", 1).kind = "prompt"
    BY <1>0, <2>2, ItemTypes DEF Lines, Item
  <2>5. g \in Seq(ItemType) /\ Closed(g) BY <2>3, <2>4, ClosedSmall
  <2>6. Pending = <<>> /\ Pending' = obuf' BY <1>1, <2>1 DEF Pending
  <2>7. Closed(sent \o <<>>) BY <2>1, <2>6 DEF OutInv, OutputInv
  <2>8. Closed(sent \o (<<>> \o g))
    <3>1. PICK e : e = <<>> OBVIOUS
    <3>2. e \in Seq(ItemType) BY <3>1
    <3> QED BY <1>0, <2>5, <2>7, <3>1, <3>2, Emit
  <2>9. Closed(sent \o obuf') BY <2>1, <2>3, <2>7, <2>8
  <2>10. OutputInv' BY <1>1, <2>1, <2>6, <2>9 DEF OutputInv
  <2>11. QuietInv' BY <2>1 DEF QuietInv
  <2> QED BY <2>10, <2>11
<1>3. CASE write_result \/ send_data
  <2>1. state_ \notin Stops /\ state_' \notin Stops /\ io' # "read_command"
    BY <1>1, <1>3 DEF write_result, send_data, flush, Stops
  <2>2. OutputInv' BY <1>3, <2>1, PendingKept, OutputSame
  <2>3. CASE write_result BY <2>1, <2>2, <2>3 DEF write_result, QuietInv
  <2>4. CASE send_data
    <3>1. state_ = "write_data" /\ cmd_ \in {"get", "gets"} /\ ~noreply_
      BY <2>4 DEF send_data, OutInv, SessionInv, StateInv, QuietInv
    <3> QED BY <1>1, <2>1, <2>2, <3>1 DEF QuietInv
  <2> QED BY <1>3, <2>2, <2>3, <2>4
<1> QED BY <1>2, <1>3

(* Reading: nothing is pending, and a get that is read wants its replies. *)
LEMMA OutputReads ==
    ASSUME OutInv, recv_command \/ cmd_arrives
    PROVE  QuietInv' /\ OutputInv'
<1> USE DEF Running
<1>0. TypeOK BY DEF OutInv, SessionInv
<1>1. sent' = sent /\ obuf' = <<>> /\ ~noreply_' /\ state_ \in {"read_command", "execute_command"} /\ Pending = <<>>
  <2>1. CASE recv_command
    <3>1. sent' = sent /\ obuf' = <<>> /\ ~noreply_' /\ state_ = "read_command" /\ io = "none"
      BY <2>1 DEF recv_command
    <3>2. out = <<>> BY <1>0, <3>1 DEF TypeOK
    <3> QED BY <3>1, <3>2 DEF Pending
  <2>2. CASE cmd_arrives
    <3>1. io = "read_command" /\ sent' = sent /\ obuf' = obuf /\ noreply_' = noreply_ BY <2>2 DEF cmd_arrives
    <3>2. state_ = "execute_command" BY <3>1 DEF OutInv, SessionInv, StateInv
    <3>3. ~noreply_ /\ obuf = <<>> BY <3>1 DEF OutInv, QuietInv
    <3> QED BY <3>1, <3>2, <3>3 DEF Pending
  <2> QED BY <2>1, <2>2
<1>2. state_' \in {"execute_command", "stopping"} BY DEF recv_command, cmd_arrives, cmd_ready
<1>3. OutputInv'
  <2>1. CASE state_' = "stopping" BY <1>1, <2>1, OutputStop DEF Stops
  <2>2. CASE state_' = "execute_command"
    <3>1. Pending' = <<>> BY <1>1, <2>2 DEF Pending
    <3> QED BY <1>1, <2>2, <3>1, OutputSame DEF Stops
  <2> QED BY <1>2, <2>1, <2>2
<1>4. QuietInv' BY <1>1 DEF QuietInv
<1> QED BY <1>3, <1>4

(* A write ends: what it was given, or part of it, has been written. *)
LEMMA PendingDone ==
    ASSUME SessionInv, io = "write"
    PROVE  /\ state_ \in {"write_prompt", "read_command", "write_data"}
           /\ write_done => sent' \o Pending' = sent \o Pending
           /\ io_error => \E v \in Seq(ItemType) : sent' \o v = sent \o Pending
<1> USE DEF cmdVars, ropeVars
<1>0. /\ TypeOK /\ sent \in Seq(ItemType) /\ out \in Seq(ItemType) /\ RopeItems(odata_) \in Seq(ItemType)
  BY OutTypes
<1>1. PICK w : w = IF state_ = "write_data" THEN RopeItems(odata_) ELSE <<>> OBVIOUS
<1>2. w \in Seq(ItemType)
  <2>1. CASE state_ = "write_data" BY <1>0, <1>1, <2>1
  <2>2. CASE state_ # "write_data" BY <1>1, <2>2
  <2> QED BY <2>1, <2>2
<1>3. state_ \in {"write_prompt", "read_command", "write_data"} BY DEF SessionInv, StateInv
<1>4. sent \o Pending = (sent \o out) \o w
  <2>1. Pending = out \o w
    <3>1. CASE state_ = "write_data" BY <1>1, <3>1 DEF Pending
    <3>2. CASE state_ # "write_data"
      <4>1. Pending = out /\ w = <<>> BY <1>1, <1>3, <3>2 DEF Pending
      <4> QED BY <1>0, <4>1, JoinSeq
    <3> QED BY <3>1, <3>2
  <2>2. sent \o (out \o w) = (sent \o out) \o w BY <1>0, <1>2, JoinAssoc, SMTT(30)
  <2> QED BY <2>1, <2>2
<1>5. ASSUME write_done PROVE sent' \o Pending' = sent \o Pending
  <2>1. sent' = sent \o out /\ out' = <<>> /\ state_' = state_ /\ odata_' = odata_ /\ cur' = cur
    BY <1>5 DEF write_done
  <2>2. Pending' = w
    <3>1. CASE state_ = "write_data"
      <4>1. RopeItems(odata_)' = w BY <1>1, <2>1, <3>1 DEF RopeItems, DataItem, Item
      <4>2. Pending' = <<>> \o w BY <2>1, <3>1, <4>1 DEF Pending
      <4> QED BY <1>2, <4>2, DropNone
    <3>2. CASE state_ # "write_data" BY <1>1, <1>3, <2>1, <3>2 DEF Pending
    <3> QED BY <3>1, <3>2
  <2> QED BY <1>4, <2>1, <2>2
<1>6. ASSUME io_error PROVE \E v \in Seq(ItemType) : sent' \o v = sent \o Pending
  <2>1. PICK n \in 0..Len(out) : sent' = sent \o SubSeq(out, 1, n) BY <1>6 DEF io_error
  <2>2. PICK x, y : x = SubSeq(out, 1, n) /\ y = SubSeq(out, n + 1, Len(out)) OBVIOUS
  <2>3. x \in Seq(ItemType) BY <1>0, <2>2, TakeSeq
  <2>4. y \in Seq(ItemType) BY <1>0, <2>2, DropSeq
  <2>5. (sent \o x) \o y = sent \o out BY <1>0, <2>2, Regroup
  <2>6. PICK s : s = sent \o x OBVIOUS
  <2>7. s \in Seq(ItemType) /\ y \o w \in Seq(ItemType) BY <1>0, <1>2, <2>3, <2>4, <2>6, JoinSeq
  <2>8. s \o (y \o w) = (s \o y) \o w BY <1>2, <2>4, <2>7, JoinAssoc, SMTT(30)
  <2>9. s \o (y \o w) = sent \o Pending BY <1>4, <2>5, <2>6, <2>8
  <2>10. sent' = s BY <2>1, <2>2, <2>6
  <2> QED BY <2>7, <2>9, <2>10
<1> QED BY <1>3, <1>5, <1>6

(* A read fails: nothing is written. *)
LEMMA ReadFails ==
    ASSUME SessionInv, io_error, io # "write"
    PROVE  sent' = sent /\ state_ \in {"execute_command", "execute_write"}
<1>1. /\ TypeOK /\ sent \in Seq(ItemType) /\ out = <<>> /\ out \in Seq(ItemType)
      /\ state_ \in {"execute_command", "execute_write"}
  BY DEF SessionInv, TypeOK, StateInv, io_error
<1>2. PICK n \in 0..Len(out) : sent' = sent \o SubSeq(out, 1, n) BY DEF io_error
<1>3. PICK x : x = SubSeq(out, 1, n) OBVIOUS
<1>4. x \in Seq(ItemType) /\ Len(x) = n BY <1>1, <1>3, TakeSeq
<1>5. Len(x) = 0 BY <1>1, <1>4
<1>6. x = <<>> BY <1>4, <1>5
<1>7. sent' = sent BY <1>1, <1>2, <1>3, <1>4, <1>6, JoinSeq
<1> QED BY <1>1, <1>7

LEMMA OutputDone ==
    ASSUME OutInv, write_done \/ io_error
    PROVE  QuietInv' /\ OutputInv'
<1> USE DEF cmdVars, ropeVars
<1>0. SessionInv BY DEF OutInv
<1>1. CASE write_done
  <2>1. io = "write" /\ io' = "none" /\ state_' = state_ /\ cmd_' = cmd_ /\ noreply_' = noreply_
    BY <1>1 DEF write_done
  <2>2. state_ \in {"write_prompt", "read_command", "write_data"} /\ sent' \o Pending' = sent \o Pending
    BY <1>0, <1>1, <2>1, PendingDone
  <2>3. OutputInv' BY <2>1, <2>2 DEF OutInv, OutputInv
  <2>4. QuietInv' BY <2>1, <2>2 DEF QuietInv, OutInv
  <2> QED BY <2>3, <2>4
<1>2. CASE io_error
  <2>1. state_' = "stopping" /\ io' = "none" BY <1>2 DEF io_error
  <2>2. QuietInv' BY <2>1 DEF QuietInv
  <2>3. CASE io # "write"
    <3>1. sent' = sent BY <1>0, <1>2, <2>3, ReadFails
    <3> QED BY <2>1, <2>2, <3>1, OutputStop DEF Stops
  <2>4. CASE io = "write"
    <3>1. state_ \notin Stops BY <1>0, <2>4, PendingDone DEF Stops
    <3>2. PICK v \in Seq(ItemType) : sent' \o v = sent \o Pending BY <1>0, <1>2, <2>4, PendingDone
    <3>3. PICK s : s = sent' OBVIOUS
    <3>4. s \in Seq(ItemType)
      <4>1. SessionInv' BY <1>0, <1>2, TypeNext DEF Next
      <4> QED BY <3>3, <4>1 DEF SessionInv, TypeOK
    <3>5. Closed(s \o v) BY <3>1, <3>2, <3>3 DEF OutInv, OutputInv, Stops
    <3>6. Whole(s) BY <3>4, <3>5, ClosedPrefix
    <3> QED BY <2>1, <2>2, <3>3, <3>6 DEF OutputInv
  <2> QED BY <2>3, <2>4
<1> QED BY <1>1, <1>2

LEMMA OutputOthers ==
    ASSUME OutInv, stopping \/ end_of_file \/ data_arrives \/ Client \/ displace \/ thread_timer
    PROVE  QuietInv' /\ OutputInv'
<1> USE DEF cmdVars, dataVars, ropeVars, clientVars, Running, Continue
<1>1. CASE stopping \/ end_of_file
  <2>1. state_' \in Stops /\ sent' = sent /\ io' = "none" BY <1>1 DEF stopping, end_of_file, Stops
  <2>2. OutputInv' BY <2>1, OutputStop
  <2> QED BY <2>1, <2>2 DEF QuietInv, Stops
<1>2. CASE data_arrives
  <2>1. io = "read_data" /\ io' # "read_command" /\ state_' = state_ /\ sent' = sent /\ obuf' = obuf
    BY <1>2 DEF data_arrives
  <2>2. state_ = "execute_write" BY <2>1 DEF OutInv, SessionInv, StateInv
  <2>3. Pending' = Pending BY <2>1, <2>2 DEF Pending
  <2>4. OutputInv' BY <2>1, <2>2, <2>3, OutputSame DEF Stops
  <2> QED BY <2>1, <2>2, <2>4 DEF QuietInv
<1>3. CASE Client \/ displace \/ thread_timer
  <2>1. /\ state_' = state_ /\ sent' = sent /\ obuf' = obuf /\ out' = out /\ odata_' = odata_ /\ io' = io
        /\ cur' = cur /\ cmd_' = cmd_ /\ noreply_' = noreply_
    BY <1>3 DEF Client, client_send, client_close, displace, thread_timer
  <2>2. Pending' = Pending BY <2>1 DEF Pending, RopeItems, DataItem, Item
  <2> QED BY <2>1, <2>2 DEF OutInv, OutputInv, QuietInv
<1> QED BY <1>1, <1>2, <1>3

LEMMA OutCorrect == Spec => []OutInv
<1>1. Init => OutInv
  <2> SUFFICES ASSUME Init PROVE OutInv OBVIOUS
  <2>1. SessionInv BY TypeInit
  <2>2. state_ = "write_prompt" /\ io = "none" /\ sent = <<>> /\ out = <<>> BY DEF Init
  <2>3. Pending = <<>> BY <2>2 DEF Pending
  <2>4. sent \o Pending = <<>> BY <2>2, <2>3
  <2>5. OutputInv BY <2>2, <2>4, ClosedSmall DEF OutputInv
  <2> QED BY <2>1, <2>2, <2>5 DEF OutInv, QuietInv
<1>2. OutInv /\ [Next]_vars => OutInv'
  <2> SUFFICES ASSUME OutInv, [Next]_vars PROVE OutInv' OBVIOUS
  <2>1. SessionInv' BY TypeNext DEF OutInv
  <2>2. QuietInv' /\ OutputInv'
    <3>1. CASE UNCHANGED vars
      BY <3>1 DEF vars, cmdVars, ropeVars, OutInv, QuietInv, OutputInv, Pending, RopeItems, DataItem, Item
    <3>2. CASE Loop
      BY <3>2, OutputCommands, OutputGet, OutputWrites, OutputReads, OutputOthers DEF Loop, Dispatch
    <3>3. CASE Arrival \/ io_error \/ Client \/ displace \/ thread_timer
      BY <3>3, OutputReads, OutputDone, OutputOthers DEF Arrival
    <3> QED BY <3>1, <3>2, <3>3 DEF Next
  <2> QED BY <2>1, <2>2 DEF OutInv
<1> QED BY <1>1, <1>2, PTL DEF Spec

(***************************************************************************)
(* In what a client reads, every VALUE line is followed by all chunks of   *)
(* that value and one CRLF, and no chunk is anywhere else, for values of   *)
(* any size: whether get() has staged a value or send_data has sent it     *)
(* from the entry, whatever the other keys of the command were, and        *)
(* wherever an error cuts the output off.                                  *)
(***************************************************************************)
THEOREM ValuesWholeCorrect == Spec => []ValuesWhole
<1>1. OutInv => ValuesWhole
  <2> SUFFICES ASSUME OutInv PROVE ValuesWhole OBVIOUS
  <2>1. sent \in Seq(ItemType) /\ Pending \in Seq(ItemType) BY OutTypes DEF OutInv
  <2>2. CASE state_ \in Stops BY <2>1, <2>2, WholeValues DEF OutInv, OutputInv, Stops
  <2>3. CASE state_ \notin Stops
    <3>1. Closed(sent \o Pending) BY <2>3 DEF OutInv, OutputInv, Stops
    <3>2. Whole(sent) BY <2>1, <3>1, ClosedPrefix
    <3> QED BY <2>1, <3>2, WholeValues
  <2> QED BY <2>2, <2>3
<1> QED BY <1>1, OutCorrect, PTL

-----------------------------------------------------------------------------
(***************************************************************************)
(* The replies.  x is what a session at request c has written and is about *)
(* to write; the requests W, and no others, have had the item that ends    *)
(* their reply.                                                            *)
(***************************************************************************)
Ender(y) == y.kind \notin {"value", "data", "crlf", "prompt"}
Ended(x, i) == \E p \in DOMAIN x : x[p].req = i /\ Ender(x[p])

Sorted(x) == \A p, q \in DOMAIN x : p < q => x[p].req <= x[q].req
EndsOnce(x) == \A p, q \in DOMAIN x : Ender(x[p]) /\ Ender(x[q]) /\ x[p].req = x[q].req => p = q

Answers(x, c, W) ==
    /\ Sorted(x) /\ EndsOnce(x)
    /\ \A p \in DOMAIN x : x[p].req <= c /\ (Ender(x[p]) => x[p].req \in W)
    /\ \A i \in W : Ended(x, i)

(* What of it a client has when the connection breaks: the requests that   *)
(* it has no answer to come after those it has one to.                     *)
InOrder(x, W) ==
    /\ Sorted(x) /\ EndsOnce(x)
    /\ \A p \in DOMAIN x : Ender(x[p]) =>
           x[p].req \in W /\ \A h \in W : h < x[p].req => Ended(x, h)

LEMMA ItemReq ==
    ASSUME NEW x \in Seq(ItemType), NEW p \in DOMAIN x
    PROVE  x[p].req \in Nat /\ p \in Nat
<1>1. x[p] \in ItemType OBVIOUS
<1> QED BY <1>1, SizesAssumption DEF ItemType

(* Where an item of x \o g is. *)
LEMMA JoinItems ==
    ASSUME NEW x \in Seq(ItemType), NEW g \in Seq(ItemType)
    PROVE  /\ x \o g \in Seq(ItemType)
           /\ \A p \in DOMAIN x : p \in DOMAIN (x \o g) /\ (x \o g)[p] = x[p]
           /\ \A p \in DOMAIN (x \o g) :
                  \/ p \in DOMAIN x /\ (x \o g)[p] = x[p]
                  \/ p \notin DOMAIN x /\ \E i \in DOMAIN g : p = Len(x) + i /\ (x \o g)[p] = g[i]
           /\ \A p, q \in DOMAIN (x \o g) : p < q /\ q \in DOMAIN x => p \in DOMAIN x
<1>1. PICK l \in Nat, m \in Nat : l = Len(x) /\ m = Len(g) /\ DOMAIN x = 1..l /\ DOMAIN g = 1..m OBVIOUS
<1>2. PICK z : z = x \o g OBVIOUS
<1>3. /\ z \in Seq(ItemType) /\ Len(z) = Len(x) + Len(g)
      /\ \A i \in 1..Len(x) : z[i] = x[i]
      /\ \A i \in 1..Len(g) : z[Len(x) + i] = g[i]
  BY <1>2, JoinSeq
<1>4. DOMAIN z = 1..l + m BY <1>1, <1>3
<1>5. \A p \in DOMAIN x : p \in DOMAIN z /\ z[p] = x[p] BY <1>1, <1>3, <1>4
<1>6. ASSUME NEW p \in DOMAIN z
      PROVE  \/ p \in DOMAIN x /\ z[p] = x[p]
             \/ p \notin DOMAIN x /\ \E i \in DOMAIN g : p = Len(x) + i /\ z[p] = g[i]
  <2>1. CASE p \in 1..l BY <1>1, <1>3, <2>1
  <2>2. CASE p \notin 1..l
    <3>1. p - l \in 1..m /\ p = l + (p - l) BY <1>1, <1>4, <2>2
    <3>2. PICK i \in 1..m : p = l + i BY <3>1
    <3>3. z[p] = g[i] BY <1>1, <1>3, <3>2
    <3> QED BY <1>1, <2>2, <3>2, <3>3
  <2> QED BY <2>1, <2>2
<1>7. \A p, q \in DOMAIN z : p < q /\ q \in DOMAIN x => p \in DOMAIN x BY <1>1, <1>4
<1> QED BY <1>2, <1>3, <1>5, <1>6, <1>7

(* Items of request c that end nothing. *)
LEMMA AnswersMore ==
    ASSUME NEW x \in Seq(ItemType), NEW g \in Seq(ItemType), NEW c \in Nat, NEW W,
           Answers(x, c, W), \A i \in DOMAIN g : g[i].req = c /\ ~Ender(g[i])
    PROVE  Answers(x \o g, c, W)
<1>1. PICK z : z = x \o g OBVIOUS
<1>2. /\ z \in Seq(ItemType)
      /\ \A p \in DOMAIN x : p \in DOMAIN z /\ z[p] = x[p]
      /\ \A p \in DOMAIN z :
             \/ p \in DOMAIN x /\ z[p] = x[p]
             \/ p \notin DOMAIN x /\ \E i \in DOMAIN g : p = Len(x) + i /\ z[p] = g[i]
      /\ \A p, q \in DOMAIN z : p < q /\ q \in DOMAIN x => p \in DOMAIN x
  BY <1>1, JoinItems
<1>3. \A p \in DOMAIN z : \/ p \in DOMAIN x /\ z[p] = x[p]
                          \/ p \notin DOMAIN x /\ z[p].req = c /\ ~Ender(z[p])
  BY <1>2
<1>4. \A p \in DOMAIN z : z[p].req <= c /\ (Ender(z[p]) => z[p].req \in W) BY <1>3 DEF Answers
<1>5. Sorted(z)
  <2>1. SUFFICES ASSUME NEW p \in DOMAIN z, NEW q \in DOMAIN z, p < q PROVE z[p].req <= z[q].req BY DEF Sorted
  <2>2. CASE q \in DOMAIN x
    <3>1. p \in DOMAIN x /\ z[p] = x[p] /\ z[q] = x[q] BY <1>2, <2>1, <2>2
    <3> QED BY <2>1, <2>2, <3>1 DEF Answers, Sorted
  <2>3. CASE q \notin DOMAIN x BY <1>3, <1>4, <2>3
  <2> QED BY <2>2, <2>3
<1>6. EndsOnce(z) BY <1>3 DEF Answers, EndsOnce
<1>7. \A i \in W : Ended(z, i) BY <1>2 DEF Answers, Ended
<1> QED BY <1>1, <1>4, <1>5, <1>6, <1>7 DEF Answers

(* The item that ends the reply to request c. *)
LEMMA AnswersLine ==
    ASSUME NEW x \in Seq(ItemType), NEW y \in ItemType, NEW c \in Nat, NEW W,
           Answers(x, c, W), y.req = c, Ender(y), c \notin W
    PROVE  Answers(x \o <<y>>, c, W \cup {c})
<1>0. PICK g : g = <<y>> OBVIOUS
<1>1. PICK z : z = x \o g OBVIOUS
<1>2. g \in Seq(ItemType) /\ DOMAIN g = {1} /\ g[1] = y BY <1>0
<1>3. /\ z \in Seq(ItemType)
      /\ \A p \in DOMAIN x : p \in DOMAIN z /\ z[p] = x[p]
      /\ \A p \in DOMAIN z :
             \/ p \in DOMAIN x /\ z[p] = x[p]
             \/ p \notin DOMAIN x /\ \E i \in DOMAIN g : p = Len(x) + i /\ z[p] = g[i]
      /\ \A p, q \in DOMAIN z : p < q /\ q \in DOMAIN x => p \in DOMAIN x
  BY <1>1, <1>2, JoinItems
<1>4. PICK l \in Nat : l = Len(x) + 1 OBVIOUS
<1>5. l \in DOMAIN z /\ z[l] = y /\ l \notin DOMAIN x
  <2>1. Len(z) = Len(x) + Len(g) /\ (\A i \in 1..Len(g) : z[Len(x) + i] = g[i]) BY <1>1, <1>2, JoinSeq
  <2>2. Len(g) = 1 /\ Len(x) \in Nat /\ DOMAIN z = 1..Len(z) /\ DOMAIN x = 1..Len(x) BY <1>0, <1>3
  <2>3. PICK k \in Nat : k = Len(x) BY <2>2, Zenon
  <2>4. DOMAIN z = 1..k + 1 /\ DOMAIN x = 1..k /\ l = k + 1 BY <1>4, <2>1, <2>2, <2>3
  <2>5. l \in 1..k + 1 /\ l \notin 1..k BY <2>4
  <2>6. 1 \in 1..Len(g) /\ z[Len(x) + 1] = g[1] BY <2>1, <2>2
  <2> QED BY <1>2, <1>4, <2>4, <2>5, <2>6
<1>6. \A p \in DOMAIN z : (p \in DOMAIN x /\ z[p] = x[p]) \/ p = l BY <1>2, <1>3, <1>4
<1>7. \A p \in DOMAIN z : z[p].req <= c /\ (Ender(z[p]) => z[p].req \in W \cup {c})
  BY <1>5, <1>6 DEF Answers
<1>8. Sorted(z)
  <2>1. SUFFICES ASSUME NEW p \in DOMAIN z, NEW q \in DOMAIN z, p < q PROVE z[p].req <= z[q].req BY DEF Sorted
  <2>2. CASE q \in DOMAIN x
    <3>1. p \in DOMAIN x /\ z[p] = x[p] /\ z[q] = x[q] BY <1>3, <2>1, <2>2
    <3> QED BY <2>1, <2>2, <3>1 DEF Answers, Sorted
  <2>3. CASE q = l BY <1>5, <1>7, <2>3
  <2> QED BY <1>6, <2>2, <2>3
<1>9. EndsOnce(z)
  <2>1. \A p \in DOMAIN x : Ender(x[p]) => x[p].req # c BY DEF Answers
  <2> QED BY <1>5, <1>6, <2>1 DEF Answers, EndsOnce
<1>10. \A i \in W \cup {c} : Ended(z, i) BY <1>3, <1>5 DEF Answers, Ended
<1> QED BY <1>0, <1>1, <1>7, <1>8, <1>9, <1>10 DEF Answers

(* A beginning of what answers V has answers in the order of W. *)
LEMMA AnswersPrefix ==
    ASSUME NEW s \in Seq(ItemType), NEW t \in Seq(ItemType), NEW c, NEW V, NEW W,
           Answers(s \o t, c, V), V \subseteq W, \A i \in V : \A h \in W : h < i => h \in V
    PROVE  InOrder(s, W)
<1>1. PICK z : z = s \o t OBVIOUS
<1>2. /\ z \in Seq(ItemType) /\ \A p \in DOMAIN s : p \in DOMAIN z /\ z[p] = s[p]
      /\ \A p, q \in DOMAIN z : p < q /\ q \in DOMAIN s => p \in DOMAIN s
  BY <1>1, JoinItems
<1>3. Sorted(s) /\ EndsOnce(s) BY <1>1, <1>2 DEF Answers, Sorted, EndsOnce
<1>4. ASSUME NEW p \in DOMAIN s, Ender(s[p])
      PROVE  s[p].req \in W /\ \A h \in W : h < s[p].req => Ended(s, h)
  <2>1. s[p].req \in V /\ p \in DOMAIN z /\ z[p] = s[p] BY <1>1, <1>2, <1>4 DEF Answers
  <2>2. ASSUME NEW h \in W, h < s[p].req PROVE Ended(s, h)
    <3>1. h \in V BY <2>1, <2>2
    <3>2. PICK q \in DOMAIN z : z[q].req = h /\ Ender(z[q]) BY <1>1, <3>1 DEF Answers, Ended
    <3>3. z[q].req < z[p].req /\ z[q].req \in Nat /\ z[p].req \in Nat /\ p \in Nat /\ q \in Nat
      BY <1>2, <2>1, <2>2, <3>2, ItemReq
    <3>4. ~(p < q)
      <4>1. p < q => z[p].req <= z[q].req BY <1>1, <2>1, <3>2 DEF Answers, Sorted
      <4> QED BY <3>3, <4>1
    <3>5. q = p \/ q < p BY <3>3, <3>4
    <3>6. q \in DOMAIN s BY <1>2, <1>4, <2>1, <3>2, <3>5
    <3> QED BY <1>2, <3>2, <3>6 DEF Ended
  <2> QED BY <2>1, <2>2
<1> QED BY <1>3, <1>4 DEF InOrder

(***************************************************************************)
(* The current request is still to be answered.  Once its line is there,   *)
(* the command is the one that was sent, and noreply_ is what it asks for. *)
(***************************************************************************)
Open ==
    \/ state_ \in {"execute_write", "write_data"}
    \/ state_ = "execute_command" /\ io = "none" /\ cmd_ # "empty"

CommandInv ==
    /\ cur \in 0..Len(reqs)
    /\ Open => cur \in DOMAIN reqs /\ cmd_ = reqs[cur].cmd
    /\ Open /\ state_ = "execute_command" /\ cmd_ \notin {"get", "gets"} => args_ = reqs[cur].args
    /\ state_ \in {"execute_command", "write_data"} => ~noreply_
    /\ state_ = "execute_write" => (noreply_ <=> ~Wanted(cur))

(* The requests that have been answered when all that is pending has gone out. *)
AllWanted == {i \in DOMAIN reqs : Wanted(i)}
Due == {i \in AllWanted : i <= cur /\ (i = cur => ~Open)}

AnswerInv ==
    IF state_ \in Stops THEN InOrder(sent, AllWanted) ELSE Answers(sent \o Pending, cur, Due)

(***************************************************************************)
(* What a client may send: stores that parse, no command that loop()       *)
(* dispatches twice, and "noreplay" only where parse_noreply looks for it. *)
(***************************************************************************)
SoundReplies ==
    /\ SoundStores
    /\ \A r \in Requests :
           /\ r.cmd \notin {"incr", "decr", "touch", "flush_all"}
           /\ Contains(r.args, "noreplay") =>
                  /\ r.cmd \in Stores \cup {"delete"}
                  /\ LET n == IF r.cmd = "cas" THEN 5 ELSE IF r.cmd = "delete" THEN 1 ELSE 4
                     IN Len(r.args) > n /\ r.args[n + 1] = "noreplay"

(* parse_noreply finds out whether the request wants a reply. *)
LEMMA ParseWanted ==
    ASSUME SoundReplies, TypeOK, cur \in DOMAIN reqs, cmd_ \in Stores \cup {"delete"},
           cmd_ = reqs[cur].cmd, args_ = reqs[cur].args
    PROVE  /\ Malformed => Wanted(cur)
           /\ ~Malformed => (Rest # <<>> <=> ~Wanted(cur))
<1>1. PICK n \in {1, 4, 5} : n = IF cmd_ = "cas" THEN 5 ELSE IF cmd_ = "delete" THEN 1 ELSE 4 OBVIOUS
<1>2. reqs[cur] \in Requests BY DEF TypeOK
<1>3. args_ \in Seq(Words) /\ Len(args_) \in Nat BY DEF TypeOK
<1>4. Wanted(cur) <=> ~Contains(args_, "noreplay") BY DEF Wanted, Stores
<1>5. Contains(args_, "noreplay") => Len(args_) > n /\ args_[n + 1] = "noreplay"
  BY <1>1, <1>2 DEF SoundReplies
<1>6. Pattern \in Seq(Words) /\ Len(Pattern) = n
  <2>1. CASE cmd_ \in Stores BY <1>1, <2>1, PatternType DEF Stores
  <2>2. CASE cmd_ = "delete"
    <3>1. Pattern = <<"key">> BY <2>2 DEF Pattern, Stores
    <3> QED BY <1>1, <2>2, <3>1 DEF Words
  <2> QED BY <2>1, <2>2
<1>7. ASSUME Len(args_) >= n
      PROVE  /\ Rest = <<>> <=> Len(args_) = n
             /\ Len(args_) > n => Head(Rest) = args_[n + 1]
  <2>1. Rest = SubSeq(args_, n + 1, Len(args_)) BY <1>6 DEF Rest
  <2>2. n \in 0..Len(args_) BY <1>1, <1>3, <1>7
  <2>3. Rest \in Seq(Words) /\ Len(Rest) = Len(args_) - n /\ \A j \in 1..Len(args_) - n : Rest[j] = args_[j + n]
    BY <1>3, <2>1, <2>2, DropSeq
  <2>4. Rest = <<>> <=> Len(args_) = n
    <3>1. Rest = <<>> <=> Len(Rest) = 0 BY <2>3
    <3> QED BY <1>1, <1>3, <2>3, <3>1
  <2>5. ASSUME Len(args_) > n PROVE Head(Rest) = args_[n + 1]
    <3>1. 1 \in 1..Len(args_) - n /\ 1 + n = n + 1 BY <1>1, <1>3, <2>5
    <3>2. Rest # <<>> /\ Head(Rest) = Rest[1]
      <4>1. Len(args_) # n BY <1>1, <1>3, <2>5
      <4> QED BY <2>3, <2>4, <4>1
    <3> QED BY <2>3, <3>1, <3>2
  <2> QED BY <2>4, <2>5
<1>8. ASSUME Malformed PROVE Wanted(cur)
  <2>1. CASE cmd_ \in Stores
    <3>1. ~Malformed BY <2>1, SoundParses DEF SoundReplies
    <3> QED BY <1>8, <3>1
  <2>2. CASE cmd_ = "delete"
    <3>1. SUFFICES ASSUME Contains(args_, "noreplay") PROVE FALSE BY <1>4
    <3>2. n = 1 /\ Len(args_) > n /\ args_[n + 1] = "noreplay" BY <1>1, <1>5, <2>2, <3>1
    <3>3. Len(args_) >= n BY <1>3, <3>2
    <3>4. Pattern = <<"key">> BY <2>2 DEF Pattern, Stores
    <3>5. Parsed BY <1>6, <3>3, <3>4 DEF Parsed
    <3>6. Head(Rest) = "noreplay" BY <1>7, <3>2, <3>3
    <3> QED BY <1>8, <3>5, <3>6 DEF Malformed
  <2> QED BY <2>1, <2>2
<1>9. ASSUME ~Malformed PROVE Rest # <<>> <=> ~Wanted(cur)
  <2>1. Len(args_) >= n /\ (Rest # <<>> => Head(Rest) = "noreplay")
    BY <1>6, <1>9 DEF Malformed, Parsed
  <2>2. ASSUME Rest # <<>> PROVE Contains(args_, "noreplay")
    <3>1. Len(args_) # n BY <1>7, <2>1, <2>2
    <3>2. Len(args_) > n /\ n + 1 \in 1..Len(args_) BY <1>1, <1>3, <2>1, <3>1
    <3>3. args_[n + 1] = "noreplay" BY <1>7, <2>1, <2>2, <3>2
    <3> QED BY <3>2, <3>3 DEF Contains
  <2>3. ASSUME Rest = <<>> PROVE ~Contains(args_, "noreplay")
    <3>1. Len(args_) = n BY <1>7, <2>1, <2>3
    <3> QED BY <1>1, <1>5, <3>1
  <2> QED BY <1>4, <2>2, <2>3
<1> QED BY <1>8, <1>9

ReplyInv == OutInv /\ StreamInv /\ CommandInv /\ AnswerInv

LEMMA ReplyFacts ==
    ASSUME ReplyInv
    PROVE  /\ TypeOK /\ SessionInv /\ CommandInv
           /\ sent \in Seq(ItemType) /\ obuf \in Seq(ItemType) /\ Pending \in Seq(ItemType)
           /\ sent \o Pending \in Seq(ItemType)
           /\ cur \in Nat /\ Len(reqs) \in Nat /\ DOMAIN reqs = 1..Len(reqs)
           /\ AllWanted \subseteq Nat
<1>1. SessionInv /\ CommandInv BY DEF ReplyInv, OutInv
<1>2. TypeOK /\ sent \in Seq(ItemType) /\ obuf \in Seq(ItemType) /\ Pending \in Seq(ItemType) BY <1>1, OutTypes
<1>3. sent \o Pending \in Seq(ItemType) BY <1>2, JoinSeq
<1>4. reqs \in Seq(Requests) BY <1>2 DEF TypeOK
<1>5. Len(reqs) \in Nat /\ DOMAIN reqs = 1..Len(reqs) BY <1>4
<1>6. cur \in Nat BY <1>1, <1>5 DEF CommandInv
<1> QED BY <1>1, <1>2, <1>3, <1>5, <1>6 DEF AllWanted

(* What has been written of it has answers in order. *)
LEMMA AnswersBegin ==
    ASSUME ReplyInv, state_ \notin Stops,
           NEW s \in Seq(ItemType), NEW v \in Seq(ItemType), s \o v = sent \o Pending
    PROVE  InOrder(s, AllWanted)
<1>1. Answers(s \o v, cur, Due) BY DEF ReplyInv, AnswerInv
<1>2. Due \subseteq AllWanted BY DEF Due
<1>3. ASSUME NEW i \in Due, NEW h \in AllWanted, h < i PROVE h \in Due
  <2>1. i \in Nat /\ h \in Nat /\ cur \in Nat /\ i <= cur BY <1>2, ReplyFacts DEF Due
  <2>2. h <= cur /\ h # cur BY <1>3, <2>1
  <2> QED BY <2>2 DEF Due
<1> QED BY <1>1, <1>2, <1>3, AnswersPrefix

LEMMA AnswersStop ==
    ASSUME ReplyInv, state_' \in Stops, reqs' = reqs,
           \/ sent' = sent
           \/ /\ state_ \notin Stops /\ sent' \in Seq(ItemType)
              /\ \E v \in Seq(ItemType) : sent' \o v = sent \o Pending
    PROVE  AnswerInv'
<1>0. AllWanted' = AllWanted BY DEF AllWanted, Wanted
<1>1. CASE state_ \in Stops BY <1>0, <1>1 DEF ReplyInv, AnswerInv
<1>2. CASE state_ \notin Stops
  <2>1. PICK s, v : s = sent' /\ s \in Seq(ItemType) /\ v \in Seq(ItemType) /\ s \o v = sent \o Pending
    BY <1>2, ReplyFacts
  <2>2. InOrder(s, AllWanted) BY <1>2, <2>1, AnswersBegin
  <2> QED BY <1>0, <2>1, <2>2 DEF AnswerInv
<1> QED BY <1>1, <1>2

(* A step that neither answers a request nor begins another. *)
LEMMA AnswersSame ==
    ASSUME ReplyInv, state_ \notin Stops, state_' \notin Stops, reqs' = reqs, cur' = cur,
           sent' \o Pending' = sent \o Pending, Open' <=> Open
    PROVE  AnswerInv'
<1>1. AllWanted' = AllWanted BY DEF AllWanted, Wanted
<1>2. Due' = Due BY <1>1 DEF Due
<1> QED BY <1>2 DEF ReplyInv, AnswerInv

(* The reply to the current request ends, or is suppressed. *)
LEMMA AnswersItem ==
    ASSUME ReplyInv, Open, state_ \in Staging, state_' = "write_result", UNCHANGED <<reqs, cur, sent>>,
           NEW k \in Lines \ {"prompt"}, NEW n \in Nat \ {0},
           obuf' = IF Wanted(cur) THEN obuf \o <<Item(k, n)>> ELSE obuf
    PROVE  AnswerInv'
<1>1. /\ TypeOK /\ sent \in Seq(ItemType) /\ obuf \in Seq(ItemType) /\ cur \in Nat /\ AllWanted \subseteq Nat
      /\ cur \in DOMAIN reqs
  BY ReplyFacts DEF CommandInv
<1>2. Pending = obuf /\ Pending' = obuf' /\ state_ \notin Stops /\ state_' \notin Stops /\ ~Open'
  BY DEF Pending, Staging, Stops, Open
<1>3. Answers(sent \o obuf, cur, Due) /\ cur \notin Due BY <1>2 DEF ReplyInv, AnswerInv, Due
<1>4. AllWanted' = AllWanted BY DEF AllWanted, Wanted
<1>5. Due' = IF Wanted(cur) THEN Due \cup {cur} ELSE Due
  <2>1. Due' = {i \in AllWanted : i <= cur} BY <1>2, <1>4 DEF Due
  <2>2. Due = {i \in AllWanted : i <= cur /\ i # cur} BY DEF Due
  <2>3. cur \in AllWanted <=> Wanted(cur) BY <1>1 DEF AllWanted
  <2>4. cur <= cur BY <1>1
  <2> QED BY <2>1, <2>2, <2>3, <2>4
<1>6. CASE Wanted(cur)
  <2>1. PICK y, x : y = Item(k, n) /\ x = sent \o obuf OBVIOUS
  <2>2. y \in ItemType /\ y.kind = k /\ y.req = cur BY <1>1, <2>1, ItemTypes DEF Lines, Item
  <2>3. Ender(y) BY <2>2 DEF Ender, Lines, Kinds
  <2>4. x \in Seq(ItemType) BY <1>1, <2>1, JoinSeq
  <2>5. Answers(x \o <<y>>, cur, Due \cup {cur}) BY <1>1, <1>3, <2>1, <2>2, <2>3, <2>4, AnswersLine
  <2>6. PICK g : g = <<y>> OBVIOUS
  <2>7. g \in Seq(ItemType) BY <2>2, <2>6
  <2>8. sent \o (obuf \o g) = x \o g BY <1>1, <2>1, <2>7, JoinAssoc, SMTT(30)
  <2>9. sent' \o Pending' = x \o g BY <1>2, <1>6, <2>1, <2>6, <2>8
  <2> QED BY <1>2, <1>5, <1>6, <2>5, <2>6, <2>9 DEF AnswerInv
<1>7. CASE ~Wanted(cur) BY <1>2, <1>3, <1>5, <1>7 DEF AnswerInv
<1> QED BY <1>6, <1>7

LEMMA AnswersEnd ==
    ASSUME ReplyInv, Open, state_ \in Staging, state_' = "write_result", UNCHANGED <<reqs, cur, sent>>,
           NEW k \in Lines \ {"prompt"},
           obuf' = IF Wanted(cur) THEN obuf \o <<Item(k, 1)>> ELSE obuf
    PROVE  AnswerInv'
<1>1. PICK n \in Nat \ {0} : n = 1 OBVIOUS
<1>2. obuf' = IF Wanted(cur) THEN obuf \o <<Item(k, n)>> ELSE obuf BY <1>1
<1> QED BY <1>2, AnswersItem

(* More is staged for the current request, which stays as it is. *)
LEMMA AnswersStage ==
    ASSUME ReplyInv, state_ \notin Stops, state_' \notin Stops, UNCHANGED <<reqs, cur, sent>>,
           Open' <=> Open, NEW g \in Seq(ItemType), Pending' = Pending \o g,
           \A i \in DOMAIN g : g[i].req = cur /\ ~Ender(g[i])
    PROVE  AnswerInv'
<1>1. /\ sent \in Seq(ItemType) /\ Pending \in Seq(ItemType) /\ cur \in Nat
      /\ sent \o Pending \in Seq(ItemType)
  BY ReplyFacts
<1>2. AllWanted' = AllWanted BY DEF AllWanted, Wanted
<1>3. Due' = Due BY <1>2 DEF Due
<1>4. PICK x : x = sent \o Pending OBVIOUS
<1>5. x \in Seq(ItemType) /\ Answers(x, cur, Due) BY <1>1, <1>4 DEF ReplyInv, AnswerInv
<1>6. Answers(x \o g, cur, Due) BY <1>1, <1>5, AnswersMore
<1>7. PICK y : y = Pending OBVIOUS
<1>8. sent \o (y \o g) = (sent \o y) \o g BY <1>1, <1>7, JoinAssoc, SMTT(30)
<1>9. sent' \o Pending' = x \o g BY <1>4, <1>7, <1>8
<1> QED BY <1>3, <1>6, <1>9 DEF AnswerInv

(* A command is executed: it is that of the current request. *)
LEMMA CommandFacts ==
    ASSUME SoundReplies, ReplyInv, state_ = "execute_command", io = "none", cmd_ # "empty"
    PROVE  /\ Open /\ ~noreply_ /\ cur \in DOMAIN reqs /\ cmd_ = reqs[cur].cmd
           /\ cmd_ \notin {"incr", "decr", "touch", "flush_all"}
           /\ cmd_ \notin {"get", "gets"} => args_ = reqs[cur].args
           /\ cmd_ \notin Stores \cup {"delete", "quit"} => Wanted(cur)
<1>1. Open BY DEF Open
<1>2. TypeOK /\ CommandInv BY ReplyFacts
<1>3. ~noreply_ /\ cur \in DOMAIN reqs /\ cmd_ = reqs[cur].cmd /\ (cmd_ \notin {"get", "gets"} => args_ = reqs[cur].args)
  BY <1>1, <1>2 DEF CommandInv
<1>4. reqs[cur] \in Requests BY <1>2, <1>3 DEF TypeOK
<1>5. cmd_ \notin {"incr", "decr", "touch", "flush_all"} BY <1>3, <1>4 DEF SoundReplies
<1>7. cmd_ \notin Stores \cup {"delete", "quit"} => Wanted(cur) BY <1>3, <1>4 DEF SoundReplies, Wanted
<1> QED BY <1>1, <1>3, <1>5, <1>7

LEMMA AnswersCommands ==
    ASSUME SoundReplies, ReplyInv,
           \/ bad_command \/ empty_command \/ quit \/ version \/ del \/ incr_decr \/ touch \/ flush_all
    PROVE  CommandInv' /\ AnswerInv'
<1> USE DEF cmdVars, dataVars, ropeVars, clientVars, Executing, Running, Continue
<1>0. TypeOK /\ CommandInv /\ state_ = "execute_command" /\ io = "none"
  BY ReplyFacts DEF bad_command, empty_command, quit, version, del, incr_decr, touch, flush_all
<1>1. CASE empty_command
  <2>1. /\ state_' = "write_prompt" /\ io' = "none" /\ out' = out /\ cmd_ = "empty"
        /\ UNCHANGED <<reqs, cur, sent, cmd_>>
    BY <1>0, <1>1 DEF empty_command
  <2>2. ~Open /\ ~Open' BY <1>0, <2>1 DEF Open
  <2>3. Pending = <<>> /\ Pending' = <<>>
    <3>1. out = <<>> BY <1>0 DEF TypeOK
    <3>2. obuf = <<>> BY <1>0, <2>1 DEF ReplyInv, OutInv, QuietInv
    <3> QED BY <1>0, <2>1, <3>1, <3>2 DEF Pending
  <2>4. AnswerInv' BY <1>0, <2>1, <2>2, <2>3, AnswersSame DEF Stops
  <2>5. (cur \in 0..Len(reqs))' BY <1>0, <2>1 DEF CommandInv
  <2>6. CommandInv' BY <2>1, <2>2, <2>5 DEF CommandInv
  <2> QED BY <2>4, <2>6
<1>2. CASE quit
  <2>1. state_' = "stopping" /\ UNCHANGED <<reqs, cur, sent>> BY <1>2 DEF quit
  <2>2. AnswerInv' BY <2>1, AnswersStop DEF Stops
  <2>3. ~Open' BY <2>1 DEF Open
  <2>4. CommandInv' BY <1>0, <2>1, <2>3 DEF CommandInv
  <2> QED BY <2>2, <2>4
<1>3. ASSUME ~empty_command, ~quit,
             \/ bad_command \/ version \/ del \/ incr_decr \/ touch \/ flush_all
      PROVE  CommandInv' /\ AnswerInv'
  <2>1. cmd_ # "empty"
    BY <1>3 DEF bad_command, version, del, incr_decr, touch, flush_all, Parsing, Stores
  <2>2. /\ Open /\ ~noreply_ /\ cur \in DOMAIN reqs /\ cmd_ = reqs[cur].cmd
        /\ cmd_ \notin {"incr", "decr", "touch", "flush_all"}
        /\ cmd_ \notin {"get", "gets"} => args_ = reqs[cur].args
        /\ cmd_ \notin Stores \cup {"delete", "quit"} => Wanted(cur)
    BY <1>0, <2>1, CommandFacts
  <2>3. bad_command \/ version \/ del BY <1>3, <2>2 DEF incr_decr, touch, flush_all
  <2>4. state_' = "write_result" /\ UNCHANGED <<reqs, cur, sent>>
    BY <2>3 DEF bad_command, version, del, client_error, Reply, parse_noreply
  <2>5. ~Open' BY <2>4 DEF Open
  <2>6. CommandInv' BY <1>0, <2>4, <2>5 DEF CommandInv
  <2>7. state_ \in Staging /\ {"error", "version", "stats", "status"} \subseteq Lines \ {"prompt"}
    BY <1>0 DEF Staging, Lines, Kinds
  <2>8. CASE bad_command
    <3>1. obuf' = obuf \o <<Item("error", ErrorSize)>> BY <2>2, <2>8 DEF bad_command, client_error, send
    <3>3. PICK n \in Nat \ {0} : n = ErrorSize BY ErrorTypes DEF ReplyInv, OutInv
    <3>4. CASE cmd_ = "unknown" BY <2>2, <2>4, <2>6, <2>7, <3>1, <3>3, <3>4, AnswersItem DEF Stores
    <3>5. CASE cmd_ # "unknown"
      <4> SUFFICES Wanted(cur) BY <2>2, <2>4, <2>6, <2>7, <3>1, <3>3, AnswersItem
      <4>1. cmd_ \in Stores \cup {"delete"} /\ Malformed
        BY <2>2, <2>8, <3>5 DEF bad_command, Parsing
      <4>2. cmd_ \notin {"get", "gets"} BY <4>1 DEF Stores
      <4> QED BY <1>0, <2>2, <4>1, <4>2, ParseWanted
    <3> QED BY <3>4, <3>5
  <2>9. CASE version
    <3>1. cmd_ \in {"version", "stats"} /\ obuf' = obuf \o <<Item(cmd_, 1)>>
      BY <2>2, <2>9 DEF version, Reply, send
    <3>2. Wanted(cur) BY <2>2, <3>1 DEF Stores
    <3>3. cmd_ \in Lines \ {"prompt"} BY <2>7, <3>1
    <3> QED BY <2>2, <2>4, <2>6, <2>7, <3>1, <3>2, <3>3, AnswersEnd
  <2>10. CASE del
    <3>1. cmd_ = "delete" /\ ~Malformed /\ noreply_' = (noreply_ \/ Rest # <<>>)
      BY <2>10 DEF del, parse_noreply
    <3>2. Rest # <<>> <=> ~Wanted(cur) BY <1>0, <2>2, <3>1, ParseWanted
    <3>3. noreply_' <=> ~Wanted(cur) BY <2>2, <3>1, <3>2
    <3>4. obuf' = IF noreply_' THEN obuf ELSE obuf \o <<Item("status", 1)>> BY <2>10 DEF del, SendParsed
    <3>5. obuf' = IF Wanted(cur) THEN obuf \o <<Item("status", 1)>> ELSE obuf BY <3>3, <3>4
    <3> QED BY <2>2, <2>4, <2>6, <2>7, <3>5, AnswersEnd
  <2> QED BY <2>3, <2>8, <2>9, <2>10
<1> QED BY <1>1, <1>2, <1>3

LEMMA RopeTags ==
    ASSUME TypeOK, NEW r \in Seq(Nat \ {0})
    PROVE  /\ RopeItems(r) \in Seq(ItemType)
           /\ \A i \in DOMAIN RopeItems(r) : RopeItems(r)[i].req = cur /\ ~Ender(RopeItems(r)[i])
<1>1. PICK n \in Nat : n = Len(r) OBVIOUS
<1>2. PICK f : f = RopeItems(r) OBVIOUS
<1>3. /\ f \in Seq(ItemType) /\ Len(f) = n + 1
      /\ \A k \in 1..n : f[k] = DataItem(r[k])
      /\ f[n + 1] = Item("crlf", 1)
  BY <1>1, <1>2, RopeParts
<1>4. ASSUME NEW i \in DOMAIN f PROVE f[i].req = cur /\ ~Ender(f[i])
  <2>1. i \in 1..n \/ i = n + 1 BY <1>3
  <2>2. CASE i \in 1..n
    <3>1. f[i] = Item("data", r[i]) BY <1>3, <2>2 DEF DataItem
    <3> QED BY <3>1 DEF Item, Ender
  <2>3. CASE i = n + 1
    <3>1. f[i] = Item("crlf", 1) BY <1>3, <2>3
    <3> QED BY <3>1 DEF Item, Ender
  <2> QED BY <2>1, <2>2, <2>3
<1> QED BY <1>2, <1>3, <1>4

(* get: its values end nothing, "end" or a miss does. *)
LEMMA AnswersGet ==
    ASSUME SoundReplies, ReplyInv, get
    PROVE  CommandInv' /\ AnswerInv'
<1> USE DEF cmdVars, dataVars, ropeVars, clientVars, Executing, Running, Continue
<1>1. /\ state_ = "execute_command" /\ io = "none" /\ cmd_ \in {"get", "gets"}
      /\ UNCHANGED <<noreply_, cmd_, cur, reqs, sent>>
  BY DEF get
<1>2. TypeOK /\ CommandInv /\ obuf \in Seq(ItemType) BY ReplyFacts
<1>3. /\ Open /\ ~noreply_ /\ cur \in DOMAIN reqs /\ cmd_ = reqs[cur].cmd
      /\ cmd_ \notin Stores \cup {"delete", "quit"} => Wanted(cur)
  <2>1. cmd_ # "empty" BY <1>1
  <2> QED BY <1>1, <2>1, CommandFacts
<1>4. Wanted(cur) BY <1>1, <1>3 DEF Stores
<1>5. state_ \in Staging /\ Pending = obuf /\ state_ \notin Stops BY <1>1 DEF Staging, Stops, Pending
<1>6. (cur \in 0..Len(reqs))' BY <1>1, <1>2 DEF CommandInv
<1>7. ASSUME NEW k \in {"end", "status"}, Reply(k) PROVE CommandInv' /\ AnswerInv'
  <2>1. state_' = "write_result" /\ obuf' = obuf \o <<Item(k, 1)>> BY <1>3, <1>7 DEF Reply, send
  <2>2. k \in Lines \ {"prompt"} BY DEF Lines, Kinds
  <2>3. AnswerInv' BY <1>1, <1>3, <1>4, <1>5, <2>1, <2>2, AnswersEnd
  <2>4. ~Open' BY <2>1 DEF Open
  <2> QED BY <1>6, <2>1, <2>3, <2>4 DEF CommandInv
<1>8. ASSUME NEW r \in Ropes, NEW b, b = send(obuf, <<ValueItem(Head(args_), r)>>),
             \/ obuf' = send(b, RopeItems(r)) /\ Continue /\ state_' = state_
             \/ odata_' = r /\ state_' = "write_data" /\ obuf' = b /\ flush(b)
      PROVE  CommandInv' /\ AnswerInv'
  <2>1. PICK v, f : v = <<ValueItem(Head(args_), r)>> /\ f = RopeItems(r) OBVIOUS
  <2>2. r \in Seq(Nat \ {0}) BY SizesAssumption
  <2>3. ValueItem(Head(args_), r) \in ItemType /\ ValueItem(Head(args_), r).req = cur /\ ~Ender(ValueItem(Head(args_), r))
    BY <1>2, ItemTypes DEF ValueItem, Item, Ender
  <2>4. v \in Seq(ItemType) /\ DOMAIN v = {1} /\ v[1] = ValueItem(Head(args_), r) BY <2>1, <2>3
  <2>5. f \in Seq(ItemType) /\ \A i \in DOMAIN f : f[i].req = cur /\ ~Ender(f[i])
    BY <1>2, <2>1, <2>2, RopeTags
  <2>6. b = obuf \o v BY <1>3, <1>8, <2>1 DEF send
  <2>7. Pending' = b \o f /\ state_' \notin Stops /\ Open'
    <3>1. CASE obuf' = send(b, RopeItems(r)) /\ Continue /\ state_' = state_
      BY <1>1, <1>3, <2>1, <3>1 DEF send, Pending, Open, Stops
    <3>2. CASE odata_' = r /\ state_' = "write_data" /\ obuf' = b /\ flush(b)
      <4>1. out' = b BY <3>2 DEF flush
      <4>2. RopeItems(odata_)' = f BY <1>1, <2>1, <3>2 DEF RopeItems, DataItem, Item
      <4> QED BY <3>2, <4>1, <4>2 DEF Pending, Open, Stops
    <3> QED BY <1>8, <3>1, <3>2
  <2>8. PICK g : g = v \o f OBVIOUS
  <2>9. Pending' = Pending \o g
    <3>1. obuf \o (v \o f) = (obuf \o v) \o f BY <1>2, <2>4, <2>5, JoinAssoc, SMTT(30)
    <3> QED BY <1>5, <2>6, <2>7, <2>8, <3>1, SMTT(30)
  <2>10. g \in Seq(ItemType) /\ \A i \in DOMAIN g : g[i].req = cur /\ ~Ender(g[i])
    BY <2>3, <2>4, <2>5, <2>8, JoinItems
  <2>11. AnswerInv' BY <1>1, <1>3, <1>5, <2>7, <2>9, <2>10, AnswersStage
  <2>12. state_' \in {"execute_command", "write_data"} BY <1>1, <1>8
  <2> QED BY <1>1, <1>3, <1>6, <2>7, <2>11, <2>12 DEF CommandInv
<1>9. \/ Reply("end") \/ Reply("status")
      \/ \E r \in Ropes : LET b == send(obuf, <<ValueItem(Head(args_), r)>>)
                          IN \/ obuf' = send(b, RopeItems(r)) /\ Continue /\ state_' = state_
                             \/ odata_' = r /\ state_' = "write_data" /\ obuf' = b /\ flush(b)
  BY DEF get
<1> QED BY <1>7, <1>8, <1>9

(* A store: recv_data notes whether a reply is wanted, dispatch_write replies. *)
LEMMA AnswersStore ==
    ASSUME SoundReplies, ReplyInv, recv_data \/ data_arrives \/ dispatch_write
    PROVE  CommandInv' /\ AnswerInv'
<1> USE DEF cmdVars, dataVars, ropeVars, clientVars, Executing, Running, Continue
<1>0. TypeOK /\ CommandInv /\ SessionInv BY ReplyFacts
<1>1. UNCHANGED <<cmd_, cur, reqs, sent>> BY DEF recv_data, data_arrives, dispatch_write, parse_noreply
<1>2. (cur \in 0..Len(reqs))' BY <1>0, <1>1 DEF CommandInv
<1>3. CASE recv_data
  <2>1. state_ = "execute_command" /\ io = "none" /\ cmd_ \in Stores /\ cmd_ # "empty" /\ obuf' = obuf
    BY <1>3 DEF recv_data, Stores
  <2>2. Open /\ ~noreply_ /\ cur \in DOMAIN reqs /\ cmd_ = reqs[cur].cmd /\ args_ = reqs[cur].args
    <3>1. cmd_ \notin {"get", "gets"} BY <2>1 DEF Stores
    <3> QED BY <2>1, <3>1, CommandFacts
  <2>3. state_' = "execute_write" /\ ~Malformed /\ noreply_' = (noreply_ \/ Rest # <<>>)
    BY <1>3 DEF recv_data, parse_noreply
  <2>4. Rest # <<>> <=> ~Wanted(cur) BY <1>0, <2>1, <2>2, <2>3, ParseWanted
  <2>5. noreply_' <=> ~Wanted(cur) BY <2>2, <2>3, <2>4
  <2>6. Wanted(cur)' <=> Wanted(cur) BY <1>1 DEF Wanted
  <2>7. Open' /\ Pending' = Pending /\ state_ \notin Stops /\ state_' \notin Stops
    BY <2>1, <2>3 DEF Open, Pending, Stops
  <2>8. AnswerInv' BY <1>1, <2>2, <2>7, AnswersSame
  <2> QED BY <1>1, <1>2, <2>2, <2>3, <2>5, <2>6, <2>7, <2>8 DEF CommandInv
<1>4. CASE data_arrives
  <2>1. io = "read_data" /\ state_' = state_ /\ noreply_' = noreply_ /\ obuf' = obuf BY <1>4 DEF data_arrives
  <2>2. state_ = "execute_write" BY <1>0, <2>1 DEF SessionInv, StateInv
  <2>3. Wanted(cur)' <=> Wanted(cur) BY <1>1 DEF Wanted
  <2>4. Open /\ Open' /\ Pending' = Pending /\ state_ \notin Stops /\ state_' \notin Stops
    BY <2>1, <2>2 DEF Open, Pending, Stops
  <2>5. AnswerInv' BY <1>1, <2>4, AnswersSame
  <2>6. cur \in DOMAIN reqs /\ cmd_ = reqs[cur].cmd /\ (noreply_ <=> ~Wanted(cur))
    BY <1>0, <2>2, <2>4 DEF CommandInv
  <2> QED BY <1>1, <1>2, <2>1, <2>2, <2>3, <2>5, <2>6 DEF CommandInv
<1>5. CASE dispatch_write
  <2>1. state_ = "execute_write" /\ state_' = "write_result" /\ obuf' = send(obuf, <<Item("status", 1)>>)
    BY <1>5 DEF dispatch_write, Reply
  <2>2. Open /\ ~Open' /\ state_ \in Staging BY <2>1 DEF Open, Staging
  <2>3. noreply_ <=> ~Wanted(cur) BY <1>0, <2>1 DEF CommandInv
  <2>4. obuf' = IF Wanted(cur) THEN obuf \o <<Item("status", 1)>> ELSE obuf BY <2>1, <2>3 DEF send
  <2>5. "status" \in Lines \ {"prompt"} BY DEF Lines, Kinds
  <2>6. AnswerInv' BY <1>1, <2>1, <2>2, <2>4, <2>5, AnswersEnd
  <2> QED BY <1>2, <2>1, <2>2, <2>6 DEF CommandInv
<1> QED BY <1>3, <1>4, <1>5

(* Reading: the next request is one that nothing has been written for. *)
LEMMA AnswersReads ==
    ASSUME ReplyInv, recv_command \/ cmd_arrives
    PROVE  CommandInv' /\ AnswerInv'
<1> USE DEF Running
<1>0. /\ TypeOK /\ CommandInv /\ SessionInv /\ StreamInv /\ sent \in Seq(ItemType)
      /\ cur \in Nat /\ Len(reqs) \in Nat /\ DOMAIN reqs = 1..Len(reqs) /\ AllWanted \subseteq Nat
  BY ReplyFacts DEF ReplyInv
<1>1. NextLine BY <1>0, ReadStream
<1>2. /\ sent' = sent /\ reqs' = reqs /\ obuf' = <<>> /\ ~noreply_' /\ Pending = <<>>
      /\ state_ \notin Stops /\ ~Open
  <2>1. CASE recv_command
    <3>1. /\ sent' = sent /\ reqs' = reqs /\ obuf' = <<>> /\ ~noreply_' /\ state_ = "read_command" /\ io = "none"
      BY <2>1 DEF recv_command, clientVars
    <3>2. out = <<>> BY <1>0, <3>1 DEF TypeOK
    <3> QED BY <3>1, <3>2 DEF Pending, Stops, Open
  <2>2. CASE cmd_arrives
    <3>1. io = "read_command" /\ sent' = sent /\ reqs' = reqs /\ obuf' = obuf /\ noreply_' = noreply_
      BY <2>2 DEF cmd_arrives, clientVars
    <3>2. state_ = "execute_command" BY <1>0, <3>1 DEF SessionInv, StateInv
    <3>3. ~noreply_ /\ obuf = <<>> BY <3>1 DEF ReplyInv, OutInv, QuietInv
    <3> QED BY <3>1, <3>2, <3>3 DEF Pending, Stops, Open
  <2> QED BY <2>1, <2>2
<1>3. \/ state_' = "stopping" /\ cur' = cur
      \/ state_' = "execute_command"
  BY <1>1 DEF NextLine, cmdVars, recv_command, cmd_arrives, cmd_ready
<1>4. CASE state_' = "stopping"
  <2>1. AnswerInv' BY <1>2, <1>4, AnswersStop DEF Stops
  <2>2. cur' = cur BY <1>3, <1>4
  <2>3. (cur \in 0..Len(reqs))' BY <1>0, <1>2, <2>2 DEF CommandInv
  <2>4. ~Open' BY <1>4 DEF Open
  <2> QED BY <1>4, <2>1, <2>3, <2>4 DEF CommandInv
<1>5. ASSUME state_' = "execute_command", cur' = cur, ~Open' PROVE CommandInv' /\ AnswerInv'
  <2>1. Pending' = <<>> /\ state_' \notin Stops BY <1>2, <1>5 DEF Pending, Stops
  <2>2. AnswerInv' BY <1>2, <1>5, <2>1, AnswersSame
  <2>3. (cur \in 0..Len(reqs))' BY <1>0, <1>2, <1>5 DEF CommandInv
  <2> QED BY <1>2, <1>5, <2>2, <2>3 DEF CommandInv
<1>6. ASSUME /\ cur' = cur + 1 /\ cur' \in DOMAIN reqs /\ cmd_' = reqs[cur'].cmd /\ args_' = reqs[cur'].args
             /\ state_' = "execute_command" /\ io' = "none"
      PROVE  CommandInv' /\ AnswerInv'
  <2>1. cmd_' # "empty"
    <3>1. reqs[cur'].cmd \in Commands \cup {"unknown"}
      <4>1. PICK i \in DOMAIN reqs : i = cur' BY <1>6
      <4> QED BY <1>0, <4>1, RequestTypes
    <3> QED BY <1>6, <3>1 DEF Commands, Stores
  <2>2. Open' BY <1>6, <2>1 DEF Open
  <2>3. Pending' = <<>> /\ state_' \notin Stops BY <1>2, <1>6 DEF Pending, Stops
  <2>4. AllWanted' = AllWanted BY <1>2 DEF AllWanted, Wanted
  <2>5. Due' = Due
    <3>1. Due' = {i \in AllWanted : i <= cur + 1 /\ i # cur + 1} BY <1>6, <2>2, <2>4 DEF Due
    <3>2. Due = {i \in AllWanted : i <= cur} BY <1>2 DEF Due
    <3>3. \A i \in AllWanted : (i <= cur + 1 /\ i # cur + 1) <=> i <= cur BY <1>0
    <3> QED BY <3>1, <3>2, <3>3
  <2>6. PICK x : x = sent \o Pending OBVIOUS
  <2>7. x \in Seq(ItemType) /\ Answers(x, cur, Due) BY <1>2, <2>6, ReplyFacts DEF ReplyInv, AnswerInv
  <2>8. Answers(x, cur + 1, Due)
    <3>1. \A p \in DOMAIN x : x[p].req <= cur + 1
      <4>1. SUFFICES ASSUME NEW p \in DOMAIN x PROVE x[p].req <= cur + 1 OBVIOUS
      <4>2. x[p].req \in Nat /\ x[p].req <= cur BY <2>7, ItemReq DEF Answers
      <4> QED BY <1>0, <4>2
    <3> QED BY <2>7, <3>1 DEF Answers
  <2>9. sent' \o Pending' = x BY <1>2, <2>3, <2>6
  <2>10. AnswerInv' BY <1>6, <2>3, <2>5, <2>8, <2>9 DEF AnswerInv
  <2>11. (cur \in 0..Len(reqs))' BY <1>0, <1>2, <1>6
  <2>12. (cur \in DOMAIN reqs /\ cmd_ = reqs[cur].cmd /\ args_ = reqs[cur].args)' BY <1>2, <1>6
  <2> QED BY <1>2, <1>6, <2>10, <2>11, <2>12 DEF CommandInv
<1>7. CASE UNCHANGED cmdVars /\ io' = "read_command" /\ state_' = "execute_command"
  <2>1. cur' = cur /\ ~Open' BY <1>7 DEF cmdVars, Open
  <2> QED BY <1>5, <1>7, <2>1
<1>8. CASE cmd_' = "empty" /\ cur' = cur /\ state_' = "execute_command" /\ io' = "none"
  <2>1. ~Open' BY <1>8 DEF Open
  <2> QED BY <1>5, <1>8, <2>1
<1> QED BY <1>1, <1>3, <1>4, <1>6, <1>7, <1>8 DEF NextLine

(* Writing: a prompt ends nothing, and what is written was pending. *)
LEMMA AnswersWrites ==
    ASSUME ReplyInv, send_prompt \/ write_result \/ send_data \/ write_done
    PROVE  CommandInv' /\ AnswerInv'
<1> USE DEF cmdVars, dataVars, ropeVars, clientVars, Running, Continue
<1>0. TypeOK /\ CommandInv /\ SessionInv /\ OutInv BY ReplyFacts DEF ReplyInv
<1>1. UNCHANGED <<noreply_, cmd_, args_, cur, reqs>> BY DEF send_prompt, write_result, send_data, write_done
<1>2. (cur \in 0..Len(reqs))' BY <1>0, <1>1 DEF CommandInv
<1>3. CASE send_prompt
  <2>1. /\ state_ = "write_prompt" /\ state_' = "read_command" /\ out' = obuf' /\ io = "none" /\ sent' = sent
        /\ obuf' = <<>> \/ obuf' = <<>> \o <<Item("prompt", 1)>>
    BY <1>3 DEF send_prompt, flush, send
  <2>2. PICK y : y = Item("prompt", 1) OBVIOUS
  <2>3. y \in ItemType /\ y.req = cur /\ ~Ender(y)
    BY <1>0, <2>2, ItemTypes DEF Kinds, Item, Ender
  <2>4. PICK g : g = IF obuf' = <<>> THEN <<>> ELSE <<y>> OBVIOUS
  <2>5. g \in Seq(ItemType) /\ \A i \in DOMAIN g : g[i].req = cur /\ ~Ender(g[i])
    <3>1. CASE g = <<>> BY <3>1
    <3>2. CASE g = <<y>>
      <4>1. DOMAIN g = {1} /\ g[1] = y BY <3>2
      <4> QED BY <2>3, <3>2, <4>1
    <3> QED BY <2>4, <3>1, <3>2
  <2>6. Pending = <<>> /\ Pending' = obuf' BY <1>0, <2>1 DEF Pending, TypeOK
  <2>7. Pending' = Pending \o g
    <3>1. obuf' = g
      <4>1. <<>> \o <<y>> = <<y>> BY <2>3
      <4> QED BY <2>1, <2>2, <2>4, <4>1
    <3> QED BY <2>5, <2>6, <3>1, DropNone
  <2>8. ~Open /\ ~Open' /\ state_ \notin Stops /\ state_' \notin Stops BY <2>1 DEF Open, Stops
  <2>9. AnswerInv' BY <1>1, <2>1, <2>5, <2>7, <2>8, AnswersStage
  <2> QED BY <1>2, <2>1, <2>8, <2>9 DEF CommandInv
<1>4. CASE write_result \/ send_data
  <2>1. Pending' = Pending /\ sent' = sent BY <1>0, <1>4, PendingKept
  <2>2. CASE write_result
    <3>1. state_ = "write_result" /\ state_' = "write_prompt" BY <2>2 DEF write_result
    <3>2. ~Open /\ ~Open' /\ state_ \notin Stops /\ state_' \notin Stops BY <3>1 DEF Open, Stops
    <3>3. AnswerInv' BY <1>1, <2>1, <3>2, AnswersSame
    <3> QED BY <1>2, <3>1, <3>2, <3>3 DEF CommandInv
  <2>3. CASE send_data
    <3>1. /\ state_ = "write_data" /\ cmd_ \in {"get", "gets"}
          /\ state_' = "write_data" \/ (state_' = "execute_command" /\ io' = "none")
      BY <1>0, <2>3 DEF send_data, SessionInv, StateInv
    <3>2. Open /\ Open' /\ state_ \notin Stops /\ state_' \notin Stops BY <1>1, <3>1 DEF Open, Stops
    <3>3. AnswerInv' BY <1>1, <2>1, <3>2, AnswersSame
    <3>4. ~noreply_ /\ cur \in DOMAIN reqs /\ cmd_ = reqs[cur].cmd BY <1>0, <3>1, <3>2 DEF CommandInv
    <3> QED BY <1>1, <1>2, <3>1, <3>3, <3>4 DEF CommandInv
  <2> QED BY <1>4, <2>2, <2>3
<1>5. CASE write_done
  <2>1. io = "write" /\ io' = "none" /\ state_' = state_ BY <1>5 DEF write_done
  <2>2. state_ \in {"write_prompt", "read_command", "write_data"} /\ sent' \o Pending' = sent \o Pending
    BY <1>0, <1>5, <2>1, PendingDone
  <2>3. (Open' <=> Open) /\ state_ \notin Stops /\ state_' \notin Stops BY <2>1, <2>2 DEF Open, Stops
  <2>4. AnswerInv' BY <1>1, <2>2, <2>3, AnswersSame
  <2>5. /\ Open => cur \in DOMAIN reqs /\ cmd_ = reqs[cur].cmd
        /\ state_ = "write_data" => ~noreply_
    BY <1>0 DEF CommandInv
  <2> QED BY <1>1, <1>2, <2>1, <2>2, <2>3, <2>4, <2>5 DEF CommandInv
<1> QED BY <1>3, <1>4, <1>5

(* The session stops. *)
LEMMA AnswersStops ==
    ASSUME ReplyInv, stopping \/ end_of_file \/ io_error
    PROVE  CommandInv' /\ AnswerInv'
<1> USE DEF cmdVars, dataVars, ropeVars, clientVars, Running, Continue
<1>0. SessionInv /\ CommandInv BY ReplyFacts
<1>1. state_' \in Stops /\ reqs' = reqs /\ cur' = cur BY DEF stopping, end_of_file, io_error, Stops
<1>2. ~Open' /\ (cur \in 0..Len(reqs))' BY <1>0, <1>1 DEF CommandInv, Open, Stops
<1>3. CommandInv' BY <1>1, <1>2 DEF CommandInv, Stops
<1>4. CASE stopping \/ end_of_file
  <2>1. sent' = sent BY <1>4 DEF stopping, end_of_file
  <2> QED BY <1>1, <1>3, <2>1, AnswersStop
<1>5. CASE io_error
  <2>1. CASE io # "write" BY <1>0, <1>1, <1>3, <1>5, <2>1, ReadFails, AnswersStop
  <2>2. CASE io = "write"
    <3>1. state_ \notin Stops /\ \E v \in Seq(ItemType) : sent' \o v = sent \o Pending
      BY <1>0, <1>5, <2>2, PendingDone DEF Stops
    <3>2. SessionInv' BY <1>0, <1>5, TypeNext DEF Next
    <3>3. sent' \in Seq(ItemType) BY <3>2 DEF SessionInv, TypeOK
    <3> QED BY <1>1, <1>3, <3>1, <3>3, AnswersStop
  <2> QED BY <2>1, <2>2
<1> QED BY <1>4, <1>5

(* The client sends a request: nothing of it has been answered. *)
LEMMA AnswersSent ==
    ASSUME ReplyInv, client_send
    PROVE  CommandInv' /\ AnswerInv'
<1>0. /\ CommandInv /\ sent \in Seq(ItemType) /\ cur \in Nat /\ DOMAIN reqs = 1..Len(reqs)
      /\ reqs \in Seq(Requests)
  BY ReplyFacts DEF TypeOK
<1>1. PICK r \in Requests : reqs' = Append(reqs, r) BY DEF client_send
<1>2. PICK n \in Nat : n = Len(reqs) /\ DOMAIN reqs = 1..n
  <2>1. Len(reqs) \in Nat BY ReplyFacts
  <2> QED BY <1>0, <2>1, Zenon
<1>3. Len(reqs') = n + 1 /\ DOMAIN reqs' = 1..n + 1 /\ \A i \in 1..n : reqs'[i] = reqs[i] BY <1>0, <1>1, <1>2
<1>4. UNCHANGED <<state_, noreply_, cmd_, args_, cur, obuf, odata_, io, out, sent>>
  BY DEF client_send, cmdVars, ropeVars
<1>5. \A i \in 1..n : Wanted(i)' <=> Wanted(i) BY <1>3 DEF Wanted
<1>6. AllWanted \subseteq 1..n /\ AllWanted' \subseteq 1..n + 1 /\ \A i \in 1..n : i \in AllWanted' <=> i \in AllWanted
  BY <1>2, <1>3, <1>5 DEF AllWanted
<1>7. cur \in 0..n /\ (Open' <=> Open) BY <1>0, <1>2, <1>4 DEF CommandInv, Open
<1>8. CommandInv'
  <2>1. (cur \in 0..Len(reqs))' BY <1>2, <1>3, <1>4, <1>7
  <2>2. Open => cur \in 1..n BY <1>0, <1>2 DEF CommandInv
  <2>3. cur \in 1..n => cur \in DOMAIN reqs' /\ reqs'[cur] = reqs[cur] BY <1>2, <1>3
  <2>4. state_ = "execute_write" => (Wanted(cur)' <=> Wanted(cur))
    <3>1. state_ = "execute_write" => cur \in 1..n BY <2>2 DEF Open
    <3> QED BY <1>4, <1>5, <2>3, <3>1 DEF Wanted
  <2>5. Open /\ state_ = "execute_command" => Open OBVIOUS
  <2> QED BY <1>0, <1>4, <1>7, <2>1, <2>2, <2>3, <2>4, <2>5 DEF CommandInv
<1>9. CASE state_ \in Stops
  <2>1. InOrder(sent, AllWanted) BY <1>9 DEF ReplyInv, AnswerInv
  <2>2. ASSUME NEW p \in DOMAIN sent, Ender(sent[p])
        PROVE  sent[p].req \in AllWanted' /\ \A h \in AllWanted' : h < sent[p].req => Ended(sent, h)
    <3>1. sent[p].req \in AllWanted /\ \A h \in AllWanted : h < sent[p].req => Ended(sent, h)
      BY <2>1, <2>2 DEF InOrder
    <3>2. PICK j \in 1..n : j = sent[p].req BY <1>6, <3>1
    <3>3. ASSUME NEW h \in AllWanted', h < j PROVE h \in AllWanted
      <4>1. h \in 1..n + 1 BY <1>6
      <4>2. h \in 1..n BY <3>3, <4>1
      <4> QED BY <1>6, <4>2
    <3> QED BY <1>6, <3>1, <3>2, <3>3
  <2>3. InOrder(sent, AllWanted') BY <2>1, <2>2 DEF InOrder
  <2> QED BY <1>4, <1>8, <1>9, <2>3 DEF AnswerInv
<1>10. CASE state_ \notin Stops
  <2>1. Due' = Due
    <3>1. ASSUME NEW i, i \in AllWanted, i <= cur PROVE i \in AllWanted'
      BY <1>6, <3>1
    <3>2. ASSUME NEW i, i \in AllWanted', i <= cur PROVE i \in AllWanted
      <4>1. i \in 1..n + 1 BY <1>6, <3>2
      <4>2. i \in 1..n BY <1>7, <3>2, <4>1
      <4> QED BY <1>6, <3>2, <4>2
    <3>3. \A i : i \in Due' <=> (i \in AllWanted' /\ i <= cur /\ (i = cur => ~Open)) BY <1>4, <1>7 DEF Due
    <3>4. \A i : i \in Due <=> (i \in AllWanted /\ i <= cur /\ (i = cur => ~Open)) BY DEF Due
    <3>5. \A i : i \in Due' <=> i \in Due BY <3>1, <3>2, <3>3, <3>4
    <3> QED BY <3>5
  <2>2. Pending' = Pending BY <1>4 DEF Pending, RopeItems, DataItem, Item
  <2> QED BY <1>4, <1>8, <1>10, <2>1, <2>2 DEF ReplyInv, AnswerInv
<1> QED BY <1>9, <1>10

LEMMA AnswersOthers ==
    ASSUME ReplyInv, \/ client_close \/ displace \/ thread_timer \/ UNCHANGED vars
    PROVE  CommandInv' /\ AnswerInv'
<1>1. UNCHANGED <<state_, noreply_, cmd_, args_, cur, obuf, odata_, io, out, sent, reqs>>
  BY DEF client_close, displace, thread_timer, vars, cmdVars, ropeVars, clientVars
<1>2. (Open' <=> Open) /\ Pending' = Pending BY <1>1 DEF Open, Pending, RopeItems, DataItem, Item
<1>3. AnswerInv'
  <2>1. CASE state_ \in Stops BY <1>1, <2>1, AnswersStop
  <2>2. CASE state_ \notin Stops BY <1>1, <1>2, <2>2, AnswersSame
  <2> QED BY <2>1, <2>2
<1>4. CommandInv'
  <2>1. CommandInv BY DEF ReplyInv
  <2>2. Wanted(cur)' <=> Wanted(cur) BY <1>1 DEF Wanted
  <2> QED BY <1>1, <1>2, <2>1, <2>2 DEF CommandInv
<1> QED BY <1>3, <1>4

(* OneReply is what InOrder says of the items written. *)
LEMMA InOrderReplies ==
    ASSUME sent \in Seq(ItemType), InOrder(sent, AllWanted), Len(reqs) \in Nat, DOMAIN reqs = 1..Len(reqs)
    PROVE  OneReply
<1>1. \A p, q \in DOMAIN sent : p < q => sent[p].req <= sent[q].req BY DEF InOrder, Sorted
<1>2. \A i : \A p : p \in Ends(i) <=> (p \in DOMAIN sent /\ sent[p].req = i /\ Ender(sent[p]))
  BY DEF Ends, Ender
<1>3. ASSUME NEW i \in DOMAIN reqs
      PROVE  /\ \A p, q \in Ends(i) : p = q
             /\ Ends(i) # {} => Wanted(i)
             /\ Ends(i) # {} => \A h \in 1..i-1 : Wanted(h) => Ends(h) # {}
  <2>1. \A p, q \in Ends(i) : p = q BY <1>2 DEF InOrder, EndsOnce
  <2>2. ASSUME Ends(i) # {} PROVE Wanted(i) /\ \A h \in 1..i-1 : Wanted(h) => Ends(h) # {}
    <3>1. PICK p : p \in Ends(i) BY <2>2
    <3>2. p \in DOMAIN sent /\ sent[p].req = i /\ Ender(sent[p]) BY <1>2, <3>1
    <3>3. i \in AllWanted /\ \A h \in AllWanted : h < i => Ended(sent, h) BY <3>2 DEF InOrder
    <3>4. ASSUME NEW h \in 1..i-1, Wanted(h) PROVE Ends(h) # {}
      <4>1. h \in DOMAIN reqs /\ h < i
        OBVIOUS
      <4>2. Ended(sent, h) BY <3>3, <3>4, <4>1 DEF AllWanted
      <4>3. PICK q \in DOMAIN sent : sent[q].req = h /\ Ender(sent[q]) BY <4>2 DEF Ended
      <4> QED BY <1>2, <4>3
    <3> QED BY <3>3, <3>4 DEF AllWanted
  <2> QED BY <2>1, <2>2
<1> QED BY <1>1, <1>3 DEF OneReply

(***************************************************************************)
(* A client that pipelines any number of requests, of those whose handlers *)
(* set the next state themselves, can match what it reads to what it sent: *)
(* answers come in the order of the requests, one each, none where         *)
(* "noreplay" asks for none and none is left out before a later one,       *)
(* however reads split the input and wherever an error cuts the output     *)
(* off.                                                                    *)
(***************************************************************************)
THEOREM OneReplyCorrect ==
    ASSUME SoundReplies
    PROVE  Spec => []OneReply
<1> DEFINE J == CommandInv /\ AnswerInv
<1>1. Init => J
  <2> SUFFICES ASSUME Init PROVE J OBVIOUS
  <2>1. /\ state_ = "write_prompt" /\ io = "none" /\ sent = <<>> /\ out = <<>> /\ reqs = <<>> /\ cur = 0
    BY DEF Init
  <2>2. Pending = <<>> BY <2>1 DEF Pending
  <2>3. sent \o Pending = <<>> BY <2>1, <2>2
  <2>4. AllWanted = {} /\ Due = {} BY <2>1 DEF AllWanted, Due
  <2>5. Answers(<<>>, cur, {}) BY DEF Answers, Sorted, EndsOnce
  <2>6. AnswerInv BY <2>1, <2>3, <2>4, <2>5 DEF AnswerInv, Stops
  <2>7. ~Open /\ cur \in 0..Len(reqs) BY <2>1 DEF Open
  <2>8. CommandInv BY <2>1, <2>7 DEF CommandInv
  <2> QED BY <2>6, <2>8
<1>2. OutInv /\ StreamInv /\ J /\ [Next]_vars => J'
  <2> SUFFICES ASSUME ReplyInv, [Next]_vars PROVE CommandInv' /\ AnswerInv' BY DEF ReplyInv
  <2>1. CASE UNCHANGED vars BY <2>1, AnswersOthers
  <2>2. CASE Loop
    BY <2>2, AnswersCommands, AnswersGet, AnswersStore, AnswersReads, AnswersWrites, AnswersStops DEF Loop, Dispatch
  <2>3. CASE Arrival \/ io_error
    BY <2>3, AnswersReads, AnswersStore, AnswersWrites, AnswersStops DEF Arrival
  <2>4. CASE Client \/ displace \/ thread_timer
    BY <2>4, AnswersSent, AnswersOthers DEF Client
  <2> QED BY <2>1, <2>2, <2>3, <2>4 DEF Next
<1>3. OutInv /\ StreamInv /\ J => OneReply
  <2> SUFFICES ASSUME ReplyInv PROVE OneReply BY DEF ReplyInv
  <2>1. sent \in Seq(ItemType) /\ DOMAIN reqs = 1..Len(reqs) /\ Len(reqs) \in Nat BY ReplyFacts
  <2>2. InOrder(sent, AllWanted)
    <3>1. CASE state_ \in Stops BY <3>1 DEF ReplyInv, AnswerInv
    <3>2. CASE state_ \notin Stops
      <4>1. PICK v : v = Pending OBVIOUS
      <4>2. v \in Seq(ItemType) BY <4>1, ReplyFacts
      <4> QED BY <2>1, <3>2, <4>1, <4>2, AnswersBegin
    <3> QED BY <3>1, <3>2
  <2> QED BY <2>1, <2>2, InOrderReplies
<1>4. Spec => []StreamInv BY StreamCorrect DEF SoundReplies
<1> HIDE DEF J
<1> QED BY <1>1, <1>2, <1>3, <1>4, OutCorrect, PTL DEF Spec
=============================================================================
