-------------------------------- MODULE Entry --------------------------------
(***************************************************************************)
(* The value of an entry (src/src/entry.cc): a chain of chunks of memory   *)
(* (src/src/mem.cc) between data.head and data.tail, which threads extend, *)
(* replace and read without locks.  Every load, exchange and               *)
(* compare-and-swap of head and tail and every link is a step.             *)
(*                                                                         *)
(* A walk along the chain is one step: links are only ever added behind    *)
(* it, so a walk finds what it would find at the moment it ends.           *)
(*                                                                         *)
(* incr() and decr() free the value they replace at once, and malloc() may *)
(* return the same addresses again.  Where the code then goes wrong, or    *)
(* follows a null pointer, fault says so and the model stops.              *)
(***************************************************************************)
EXTENDS Integers, SequencesExt

CONSTANTS Threads,
          Chunks,    \* addresses of struct mem
          First,     \* the chunk the entry was made with
          Nil,       \* nullptr
          Texts,     \* what clients write: sequences of characters
          Amount,    \* the operand of incr and decr
          Modulus    \* one more than the largest uint64_t, 2^64

(* The characters that are not digits; a digit is itself. *)
Space == 10
Letter == 11
Chars == 0..11

ASSUME NilAssumption == First \in Chunks /\ Nil \notin Chunks
ASSUME TextsAssumption == Texts \subseteq Seq(Chars) /\ Texts # {}
ASSUME NumberAssumption == Amount \in Nat /\ Modulus \in Nat \ {0}

VARIABLES
    head, tail,     \* mem_pair data
    next, text,     \* mem::next and mem::data of each chunk
    where,          \* what has become of each chunk
    pc, op, arg,    \* of each thread: its place, operation and chunk
    h, z,           \*   the head and tail it has loaded
    token,          \*   what its client has just read, which is the unique of cas
    stale,          \* the threads for which what they loaded was freed since
    fault           \* undefined behaviour

dataVars == <<head, tail>>
memVars == <<next, text>>
localVars == <<h, z, stale>>
vars == <<dataVars, memVars, where, pc, op, arg, localVars, token, fault>>

Ops == {"append", "prepend", "incr", "decr", "read", "cas"}
Places == {"idle", "load_head", "load_tail", "exchange", "link", "swap_head", "walk", "swap",
           "free"}

Init ==
    /\ head = First /\ tail = First
    /\ next = [m \in Chunks |-> Nil]
    /\ \E x \in Texts : text = [m \in Chunks |-> IF m = First THEN x ELSE <<>>]
    /\ where = [m \in Chunks |-> IF m = First THEN "linked" ELSE "fresh"]
    /\ pc = [t \in Threads |-> "idle"]
    /\ op = [t \in Threads |-> "read"]
    /\ arg = [t \in Threads |-> Nil]
    /\ h = [t \in Threads |-> Nil]
    /\ z = [t \in Threads |-> Nil]
    /\ token = [t \in Threads |-> <<>>]
    /\ stale = {}
    /\ fault = "none"

-----------------------------------------------------------------------------
(* Chains and numbers.                                                     *)

(* The chunks from m on, up to chunk y or to where the links end. *)
Walk(link, m, y) ==
    LET from[c \in Chunks \cup {Nil}] ==
            IF c = Nil THEN <<>>
            ELSE <<c>> \o (IF c = y THEN <<>> ELSE from[link[c]])
    IN from[m]

Chain == Walk(next, head, Nil)

(* A walk from m to y arrives: no link is missing. *)
Connected(m, y) == Contains(Walk(next, m, y), y)

Content(s) == [i \in DOMAIN s |-> text[s[i]]]

(***************************************************************************)
(* mem_atoi() over the characters of all chunks: white space, digits and   *)
(* white space; at says in which of them it is.                            *)
(***************************************************************************)
atoi_char(r, c) ==
    CASE c \in 0..9 /\ r.at \in {"before", "digits"} ->
             [at |-> "digits", a |-> (r.a * 10 + c) % Modulus]
      [] c = Space /\ r.at = "digits" -> [r EXCEPT !.at = "after"]
      [] c = Space /\ r.at # "digits" -> r
      [] OTHER -> [r EXCEPT !.at = "not a number"]

mem_atoi(s) ==
    LET r[i \in 0..Len(s)] == IF i = 0 THEN [at |-> "before", a |-> 0]
                              ELSE atoi_char(r[i - 1], s[i])
    IN r[Len(s)]

incr(a) == (a + Amount) % Modulus

(* Mutant of decr: without the test. *)
decr_below(a) == a - Amount

decr(a) == IF a > Amount THEN a - Amount ELSE 0

(* snprintf("%lu"): the decimal digits. *)
Formatted(a) ==
    LET digits[n \in 0..a] == IF n = 0 THEN <<>> ELSE digits[n \div 10] \o <<n % 10>>
    IN IF a < 10 THEN <<a>> ELSE digits[a]

-----------------------------------------------------------------------------
At(t, p, O) == fault = "none" /\ pc[t] = p /\ op[t] \in O

Goto(t, p) == pc' = [pc EXCEPT ![t] = p]

Become(M, w) == where' = [m \in Chunks |-> IF m \in M THEN w ELSE where[m]]

Leave(t) ==
    /\ Goto(t, "idle")
    /\ op' = [op EXCEPT ![t] = "read"]
    /\ arg' = [arg EXCEPT ![t] = Nil]
    /\ h' = [h EXCEPT ![t] = Nil]
    /\ z' = [z EXCEPT ![t] = Nil]

Done(t) == Leave(t) /\ stale' = stale \ {t}

Fault(f) ==
    /\ fault' = f
    /\ UNCHANGED <<dataVars, memVars, where, pc, op, arg, localVars, token>>

(* mem_free(): the content of the memory is lost, and what others have     *)
(* loaded of it is stale.                                                  *)
mem_free(M) ==
    /\ Become(M, "fresh")
    /\ next' = [m \in Chunks |-> IF m \in M THEN Nil ELSE next[m]]
    /\ text' = [m \in Chunks |-> IF m \in M THEN <<>> ELSE text[m]]
    /\ stale' = stale \cup {u \in Threads : pc[u] # "free" /\ {h[u], z[u]} \cap M # {}}

(* An operation that has a chunk: what the session received, or for incr   *)
(* and decr the one they allocate.                                         *)
Begin(t, o) ==
    /\ At(t, "idle", Ops) /\ head # Nil
    /\ o = "cas" => token[t] # <<>>
    /\ \E m \in Chunks :
           /\ where[m] = "fresh"
           /\ Become({m}, "private")
           /\ arg' = [arg EXCEPT ![t] = m]
           /\ \/ /\ o \in {"incr", "decr"}
                 /\ UNCHANGED text
              \/ /\ o \in {"append", "prepend", "cas"}
                 /\ \E x \in Texts : text' = [text EXCEPT ![m] = x]
    /\ op' = [op EXCEPT ![t] = o]
    /\ token' = [token EXCEPT ![t] = IF o = "cas" THEN @ ELSE <<>>]
    /\ \/ o = "append" /\ Goto(t, "exchange")
       \/ o # "append" /\ Goto(t, "load_head")
       \/ o = "cas" /\ Goto(t, "load_tail")
    /\ UNCHANGED <<dataVars, next, localVars, fault>>

(* read() begins with a load of head. *)
read_head(t) ==
    /\ At(t, "idle", Ops) /\ head # Nil
    /\ h' = [h EXCEPT ![t] = head]
    /\ token' = [token EXCEPT ![t] = <<>>]
    /\ Goto(t, "walk")
    /\ UNCHANGED <<dataVars, memVars, where, op, arg, z, stale, fault>>

(***************************************************************************)
(* incr() and decr() load head and then tail; cas() loads them as          *)
(* arguments of one call, in the order the compiler likes.                 *)
(***************************************************************************)
load_head(t) ==
    /\ At(t, "load_head", {"prepend", "incr", "decr", "cas"})
    /\ h' = [h EXCEPT ![t] = head]
    /\ Goto(t, CASE op[t] = "prepend" -> "swap_head"
                 [] op[t] # "prepend" /\ z[t] # Nil -> "walk"
                 [] op[t] # "prepend" /\ z[t] = Nil -> "load_tail")
    /\ UNCHANGED <<dataVars, memVars, where, op, arg, z, stale, token, fault>>

load_tail(t) ==
    /\ At(t, "load_tail", {"incr", "decr", "cas"})
    /\ z' = [z EXCEPT ![t] = tail]
    /\ Goto(t, IF h[t] = Nil THEN "load_head" ELSE "walk")
    /\ UNCHANGED <<dataVars, memVars, where, op, arg, h, stale, token, fault>>

-----------------------------------------------------------------------------
(* append() and prepend().                                                 *)

(* Mutant of append_exchange: a load and a store instead of the exchange. *)
append_store(t) ==
    /\ At(t, "exchange", {"append"})
    /\ \/ /\ h[t] = Nil
          /\ h' = [h EXCEPT ![t] = tail]
          /\ UNCHANGED <<tail, where, pc>>
       \/ /\ h[t] # Nil
          /\ tail' = arg[t]
          /\ Become({arg[t]}, "linked")
          /\ Goto(t, "link")
          /\ UNCHANGED h
    /\ UNCHANGED <<head, memVars, op, arg, z, stale, token, fault>>

append_exchange(t) ==
    /\ At(t, "exchange", {"append"})
    /\ h' = [h EXCEPT ![t] = tail]
    /\ tail' = arg[t]
    /\ Become({arg[t]}, "linked")
    /\ Goto(t, "link")
    /\ UNCHANGED <<head, memVars, op, arg, z, stale, token, fault>>

append_link(t) ==
    /\ At(t, "link", {"append"})
    /\ next' = [next EXCEPT ![h[t]] = arg[t]]
    /\ Done(t)
    /\ UNCHANGED <<dataVars, text, where, token, fault>>

(* The compare-and-swap of prepend(); when it fails it has loaded head. *)
prepend_swap(t) ==
    /\ At(t, "swap_head", {"prepend"})
    /\ next' = [next EXCEPT ![arg[t]] = h[t]]
    /\ \/ /\ head = h[t]
          /\ head' = arg[t]
          /\ Become({arg[t]}, "linked")
          /\ Done(t)
       \/ /\ head # h[t]
          /\ h' = [h EXCEPT ![t] = head]
          /\ stale' = stale \ {t}
          /\ UNCHANGED <<head, where, pc, op, arg, z>>
    /\ UNCHANGED <<tail, text, token, fault>>

-----------------------------------------------------------------------------
(* incr(), decr(), cas() and read().                                       *)

(***************************************************************************)
(* What a walk may read.  The one of read() goes to the end of the chain,  *)
(* the others from head to tail and through a null pointer if the two are  *)
(* not connected.  In freed memory it reads anything, or faults.           *)
(***************************************************************************)
Reading(t) ==
    IF t \in stale THEN {<<x>> : x \in Texts}
    ELSE IF op[t] = "read" \/ Connected(h[t], z[t])
    THEN {Content(Walk(next, h[t], z[t]))} ELSE {}

walk_fault(t) ==
    /\ At(t, "walk", {"incr", "decr", "cas", "read"})
    /\ \/ t \in stale /\ Fault("freed")
       \/ Reading(t) = {} /\ Fault("null")

read(t) ==
    /\ At(t, "walk", {"read"})
    /\ \E s \in Reading(t) : token' = [token EXCEPT ![t] = s]
    /\ Done(t)
    /\ UNCHANGED <<dataVars, memVars, where, fault>>

(* What is no number makes incrdecr() throw, and its chunk is lost. *)
incrdecr(t) ==
    /\ At(t, "walk", {"incr", "decr"})
    /\ \E s \in Reading(t) :
           LET r == mem_atoi(FlattenSeq(s))
           IN \/ /\ r.at = "not a number"
                 /\ Become({arg[t]}, "leaked")
                 /\ Done(t)
                 /\ UNCHANGED text
              \/ /\ r.at # "not a number"
                 /\ text' = [text EXCEPT ![arg[t]] =
                                Formatted(IF op[t] = "incr" THEN incr(r.a) ELSE decr(r.a))]
                 /\ Goto(t, "swap")
                 /\ UNCHANGED <<where, op, arg, localVars>>
    /\ UNCHANGED <<dataVars, next, token, fault>>

(* Mutant of cas: it does not compare the versions. *)
cas_any(t) ==
    /\ At(t, "walk", {"cas"})
    /\ Reading(t) # {}
    /\ Goto(t, "swap")
    /\ UNCHANGED <<dataVars, memVars, where, op, arg, localVars, token, fault>>

(* The hash of the value is taken for the value.  Nobody frees the chunk   *)
(* of a cas() that fails.                                                  *)
cas(t) ==
    /\ At(t, "walk", {"cas"})
    /\ \E s \in Reading(t) :
           \/ /\ s # token[t]
              /\ Become({arg[t]}, "leaked")
              /\ Done(t)
           \/ /\ s = token[t]
              /\ Goto(t, "swap")
              /\ UNCHANGED <<where, op, arg, localVars>>
    /\ UNCHANGED <<dataVars, memVars, token, fault>>

(***************************************************************************)
(* The 128-bit compare-and-swap.  incr() and decr() then free what was     *)
(* there, or try again; cas() leaves it, or fails.  If it succeeds with    *)
(* addresses that were freed since they were loaded, the value is another  *)
(* one than was read.                                                      *)
(***************************************************************************)
Swapped(t) ==
    \/ /\ t \in stale
       /\ Fault("recycled")
    \/ /\ t \notin stale
       /\ head' = arg[t] /\ tail' = arg[t]
       /\ where' = [m \in Chunks |-> IF m = arg[t] THEN "linked"
                                     ELSE IF Contains(Chain, m)
                                     THEN IF op[t] = "cas" THEN "leaked" ELSE "replaced"
                                     ELSE where[m]]
       /\ \/ op[t] = "cas" /\ Done(t)
          \/ op[t] # "cas" /\ Goto(t, "free") /\ UNCHANGED <<op, arg, localVars>>
       /\ UNCHANGED <<memVars, token, fault>>

NotSwapped(t) ==
    /\ \/ /\ op[t] = "cas"
          /\ Become({arg[t]}, "leaked")
          /\ Done(t)
       \/ /\ op[t] # "cas"
          /\ Goto(t, "load_head")
          /\ h' = [h EXCEPT ![t] = Nil]
          /\ z' = [z EXCEPT ![t] = Nil]
          /\ stale' = stale \ {t}
          /\ UNCHANGED <<where, op, arg>>
    /\ UNCHANGED <<dataVars, memVars, token, fault>>

(* Mutant of cmpxchg128: it compares the heads only. *)
cmpxchg64(t) ==
    /\ At(t, "swap", {"incr", "decr", "cas"})
    /\ \/ head = h[t] /\ Swapped(t)
       \/ head # h[t] /\ NotSwapped(t)

cmpxchg128(t) ==
    /\ At(t, "swap", {"incr", "decr", "cas"})
    /\ \/ <<head, tail>> = <<h[t], z[t]>> /\ Swapped(t)
       \/ <<head, tail>> # <<h[t], z[t]>> /\ NotSwapped(t)

(* Mutant of free: what is freed is the value that is there now. *)
free_data(t) ==
    /\ At(t, "free", {"incr", "decr"})
    /\ mem_free(ToSet(Chain))
    /\ Leave(t)
    /\ UNCHANGED <<dataVars, token, fault>>

(* mem_free(p.head), up to the null pointer. *)
free(t) ==
    /\ At(t, "free", {"incr", "decr"})
    /\ mem_free(ToSet(Walk(next, h[t], Nil)))
    /\ Leave(t)
    /\ UNCHANGED <<dataVars, token, fault>>

(* ~entry(), when the garbage collector knows that no thread refers to it. *)
destroy ==
    /\ head # Nil /\ \A t \in Threads : At(t, "idle", Ops)
    /\ mem_free(ToSet(Chain))
    /\ head' = Nil /\ tail' = Nil
    /\ UNCHANGED <<pc, op, arg, h, z, token, fault>>

-----------------------------------------------------------------------------
Step(t) ==
    \/ load_head(t) \/ load_tail(t) \/ append_exchange(t) \/ append_link(t)
    \/ prepend_swap(t) \/ walk_fault(t) \/ read(t) \/ incrdecr(t) \/ cas(t)
    \/ cmpxchg128(t) \/ free(t)

Next ==
    \/ \E t \in Threads :
           \/ Step(t) \/ read_head(t)
           \/ \E o \in Ops \ {"read"} : Begin(t, o)
    \/ destroy

Spec == Init /\ [][Next]_vars

-----------------------------------------------------------------------------
(* Properties.                                                             *)

(* Every variable holds a value of its type. *)
TypeOK ==
    /\ head \in Chunks \cup {Nil} /\ tail \in Chunks \cup {Nil}
    /\ next \in [Chunks -> Chunks \cup {Nil}]
    /\ text \in [Chunks -> Seq(Chars)]
    /\ where \in [Chunks -> {"fresh", "private", "linked", "replaced", "leaked"}]
    /\ pc \in [Threads -> Places] /\ op \in [Threads -> Ops]
    /\ arg \in [Threads -> Chunks \cup {Nil}]
    /\ h \in [Threads -> Chunks \cup {Nil}] /\ z \in [Threads -> Chunks \cup {Nil}]
    /\ token \in [Threads -> Seq(Seq(Chars))]
    /\ stale \in SUBSET Threads
    /\ fault \in {"none", "null", "freed", "recycled"}

(***************************************************************************)
(* What append() and prepend() stored is never lost: when no append() is   *)
(* between its exchange and its link (entry.cc 25-27), the chain from head *)
(* ends at tail and holds all the memory that was linked and not replaced, *)
(* which ~entry() can free, and nothing twice.                             *)
(***************************************************************************)
NothingLost ==
    (\A t \in Threads : pc[t] # "link") =>
        /\ {m \in Chunks : where[m] = "linked"} = ToSet(Chain)
        /\ IsInjective(Chain)
        /\ head # Nil => Last(Chain) = tail

(***************************************************************************)
(* Until a fault, only memory that has been replaced is freed, and once:   *)
(* incr() and decr() free the chunks they have read and no others, and an  *)
(* append() between its exchange and its link writes to a chunk that is    *)
(* still part of the value and has no successor, as its assertion          *)
(* (entry.cc 26) says.                                                     *)
(***************************************************************************)
FreesItsOwn ==
    \A t \in Threads :
        /\ pc[t] = "free" => \A m \in ToSet(Walk(next, h[t], Nil)) : where[m] = "replaced"
        /\ pc[t] = "free" => Last(Walk(next, h[t], Nil)) = z[t]
        /\ pc[t] = "link" => where[h[t]] = "linked" /\ next[h[t]] = Nil /\ t \notin stale

(***************************************************************************)
(* A cas() that succeeds (entry.cc 167) replaces the value that its client *)
(* has read, whatever was appended, prepended or swapped in meanwhile.     *)
(***************************************************************************)
CasFresh ==
    [][\A t \in Threads :
         pc[t] = "swap" /\ op[t] = "cas" /\ head' = arg[t] => Content(Chain) = token[t]]_vars

(***************************************************************************)
(* The writers of a value are atomic: append() when it exchanges tail,     *)
(* prepend() when it swaps head, incr(), decr() and cas() when they swap   *)
(* both, and the number that incr() and decr() leave is computed from all  *)
(* the value has at that moment.                                           *)
(***************************************************************************)
Linked(m) ==
    LET S == {t \in Threads : pc[t] = "link" /\ h[t] = m}
    IN IF S = {} THEN next[m] ELSE arg[CHOOSE t \in S : TRUE]

Value == Content(Walk([m \in Chunks |-> Linked(m)], head, Nil))

Abstract == INSTANCE AtomicValue WITH value <- Value

WritesAtomic == Abstract!Spec
=============================================================================
