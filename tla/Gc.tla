---------------------------------- MODULE Gc ----------------------------------
(***************************************************************************)
(* Deferred deletion (src/src/gc.cc, gc.h) and the registry of CPUs it     *)
(* relies on (src/src/cpu.cc).  A thread that takes an object out of the   *)
(* shared structure pushes it on its own pending list.  At a checkpoint,   *)
(* where it holds no reference, a thread marks the head of every CPU's     *)
(* list as seen by it, then deletes the part of its own list that every    *)
(* registered CPU has seen, an object counting as seen by whoever has seen *)
(* a later one of the same list.                                           *)
(*                                                                         *)
(* The lists are kept from the oldest to the newest object: the head of    *)
(* the linked list is the last element here.  The program's threads are    *)
(* pool threads, which checkpoint from a timer (src/src/pool.cc), the      *)
(* service thread (src/src/service.cc) and, in loadtest, threads that      *)
(* leave with gc_exit().  The waiters of gc_flush() are in GcFlush.        *)
(***************************************************************************)
EXTENDS Integers, Sequences, FiniteSets

CONSTANTS MaxCpus,   \* MAX_CPUS: CPU ids are 1..MaxCpus
          Objects,   \* addresses of gc_objects
          Recycle,   \* the allocator may hand out a deleted object's address
          Leavers,   \* CPUs that may call gc_exit
          Nil        \* nullptr

Cpus == 1..MaxCpus

ASSUME MaxCpusAssumption == MaxCpus \in Nat \ {0}
ASSUME RecycleAssumption == Recycle \in BOOLEAN
ASSUME LeaversAssumption == Leavers \subseteq Cpus
ASSUME ObjectsAssumption == Nil \notin Objects

VARIABLES
    mask,          \* _cpu_mask, as a set of CPUs
    life,          \* how far each thread is between cpu_init and its end
    state,         \* of each address: "unused", "live", "freed" or "deleted"
    seen,          \* gc_object::seen, as a set of CPUs
    pending,       \* gc_cpu::pending, oldest first
    last_observed, \* gc_cpu::last_observed
    refs,          \* the objects each thread holds references to
    pc,            \* where each thread is in checkpoint()
    i,             \* the loop counter of checkpoint()
    head,          \* the head observe() has loaded
    at, acc        \* the list position and the mask of pop_ready()

cpuVars == <<mask, life>>
objVars == <<state, seen, pending>>
walkVars == <<i, head, at, acc>>
vars == <<cpuVars, objVars, last_observed, refs, pc, walkVars>>

(* Mutant of cpu_seen_all: one registered CPU is enough. *)
cpu_seen_any(s) == mask \cap s # {}

(* cpu_seen_all() *)
cpu_seen_all(s) == mask \subseteq s

Init ==
    /\ mask = {}
    /\ life = [c \in Cpus |-> "new"]
    /\ state = [a \in Objects |-> "unused"]
    /\ seen = [a \in Objects |-> {}]
    /\ pending = [c \in Cpus |-> <<>>]
    /\ last_observed = [c \in Cpus |-> [d \in Cpus |-> Nil]]
    /\ refs = [c \in Cpus |-> {}]
    /\ pc = [c \in Cpus |-> "idle"]
    /\ i = [c \in Cpus |-> 1]
    /\ head = [c \in Cpus |-> Nil]
    /\ at = [c \in Cpus |-> 0]
    /\ acc = [c \in Cpus |-> {}]

Goto(c, p) == pc' = [pc EXCEPT ![c] = p]

(***************************************************************************)
(* The thread starts.  Its id is its own once _cpu_count is incremented;   *)
(* the step others see is the update of the mask.                          *)
(***************************************************************************)
cpu_init(c) ==
    /\ life[c] = "new"
    /\ mask' = mask \cup {c}
    /\ life' = [life EXCEPT ![c] = "running"]
    /\ UNCHANGED <<objVars, last_observed, refs, pc, walkVars>>

-----------------------------------------------------------------------------
(* Between checkpoints a thread works on the shared structure.             *)

Working(c) == life[c] = "running" /\ pc[c] = "idle"

(* Mutant of alloc: the constructor leaves seen as it was. *)
alloc_keep_seen(c) ==
    /\ Working(c)
    /\ \E a \in Objects :
           /\ state[a] = "unused" \/ (Recycle /\ state[a] = "deleted")
           /\ state' = [state EXCEPT ![a] = "live"]
    /\ UNCHANGED <<cpuVars, seen, pending, last_observed, refs, pc, walkVars>>

(* new: the constructor of gc_object, then publication. *)
alloc(c) ==
    /\ Working(c)
    /\ \E a \in Objects :
           /\ state[a] = "unused" \/ (Recycle /\ state[a] = "deleted")
           /\ state' = [state EXCEPT ![a] = "live"]
           /\ seen' = [seen EXCEPT ![a] = {}]
    /\ UNCHANGED <<cpuVars, pending, last_observed, refs, pc, walkVars>>

(* A lookup: only published objects can be found. *)
lookup(c) ==
    /\ Working(c)
    /\ \E a \in Objects :
           /\ state[a] = "live"
           /\ refs' = [refs EXCEPT ![c] = @ \cup {a}]
    /\ UNCHANGED <<cpuVars, objVars, last_observed, pc, walkVars>>

(* An object is taken out of the structure and passed to gc_free(). *)
gc_free(c) ==
    /\ Working(c)
    /\ \E a \in Objects :
           /\ state[a] = "live"
           /\ state' = [state EXCEPT ![a] = "freed"]
           /\ pending' = [pending EXCEPT ![c] = Append(@, a)]
    /\ UNCHANGED <<cpuVars, seen, last_observed, refs, pc, walkVars>>

-----------------------------------------------------------------------------
(* checkpoint()                                                            *)

BeginCheckpoint(c) ==
    /\ refs' = [refs EXCEPT ![c] = {}]
    /\ Goto(c, "observe")
    /\ UNCHANGED <<objVars, last_observed, walkVars>>

(* Called with no reference held: gc.h 40-42. *)
gc_checkpoint(c) ==
    /\ Working(c)
    /\ BeginCheckpoint(c)
    /\ UNCHANGED cpuVars

Newest(d) == IF pending[d] = <<>> THEN Nil ELSE pending[d][Len(pending[d])]

(* Mutants of NextCpu: the loop over the CPUs runs one too far or too short. *)
NextCpuWithin(c, bound) ==
    IF i[c] < bound
    THEN /\ i' = [i EXCEPT ![c] = @ + 1]
         /\ Goto(c, "observe")
         /\ UNCHANGED at
    ELSE /\ i' = [i EXCEPT ![c] = 1]
         /\ Goto(c, "walk")
         /\ at' = [at EXCEPT ![c] = Len(pending[c])]

NextCpuLong(c) == NextCpuWithin(c, MaxCpus + 1)
NextCpuShort(c) == NextCpuWithin(c, MaxCpus - 1)

(* The loop over the CPUs goes on, or service() starts at the own head. *)
NextCpu(c) ==
    IF i[c] < MaxCpus
    THEN /\ i' = [i EXCEPT ![c] = @ + 1]
         /\ Goto(c, "observe")
         /\ UNCHANGED at
    ELSE /\ i' = [i EXCEPT ![c] = 1]
         /\ Goto(c, "walk")
         /\ at' = [at EXCEPT ![c] = Len(pending[c])]

Observed(c, h) ==
    /\ last_observed' = [last_observed EXCEPT ![c][i[c]] = h]
    /\ NextCpu(c)

(* gc_cpu::observe(): load the head and compare it with unless. *)
observe(c) ==
    /\ pc[c] = "observe"
    /\ LET h == Newest(i[c])
       IN \/ /\ h = Nil \/ h = last_observed[c][i[c]]
             /\ Observed(c, h)
             /\ UNCHANGED head
          \/ /\ h # Nil /\ h # last_observed[c][i[c]]
             /\ head' = [head EXCEPT ![c] = h]
             /\ Goto(c, "mark")
             /\ UNCHANGED <<last_observed, i, at>>
    /\ UNCHANGED <<cpuVars, objVars, refs, acc>>

(* gc_object::observe(): an atomic or into the object, wherever it is. *)
mark(c) ==
    /\ pc[c] = "mark"
    /\ seen' = [seen EXCEPT ![head[c]] = @ \cup {c}]
    /\ Observed(c, head[c])
    /\ head' = [head EXCEPT ![c] = Nil]
    /\ UNCHANGED <<cpuVars, state, pending, refs, acc>>

EndCheckpoint(c) ==
    /\ Goto(c, IF life[c] = "leaving" THEN "exit" ELSE "idle")
    /\ life' = [life EXCEPT ![c] = IF @ = "left" THEN "gone" ELSE @]
    /\ at' = [at EXCEPT ![c] = 0]
    /\ acc' = [acc EXCEPT ![c] = {}]

(***************************************************************************)
(* pop_ready() and service(): one node per step.  Once the mask is covered *)
(* the node and all older ones are cut off and deleted; nobody else can    *)
(* reach them from the list any more, so that is one step.                 *)
(***************************************************************************)
service(c) ==
    /\ pc[c] = "walk"
    /\ LET list == pending[c]
           s == acc[c] \cup seen[list[at[c]]]
           tail == {list[n] : n \in 1..at[c]}
       IN \/ /\ at[c] = 0
             /\ EndCheckpoint(c)
             /\ UNCHANGED <<state, pending>>
          \/ /\ at[c] > 0 /\ cpu_seen_all(s)
             /\ pending' = [pending EXCEPT ![c] = SubSeq(list, at[c] + 1, Len(list))]
             /\ state' = [a \in Objects |-> IF a \in tail THEN "deleted" ELSE state[a]]
             /\ EndCheckpoint(c)
          \/ /\ at[c] > 0 /\ ~cpu_seen_all(s)
             /\ at' = [at EXCEPT ![c] = @ - 1]
             /\ acc' = [acc EXCEPT ![c] = s]
             /\ UNCHANGED <<state, pending, life, pc>>
    /\ UNCHANGED <<mask, seen, last_observed, refs, i, head>>

-----------------------------------------------------------------------------
(* gc_exit(): a checkpoint, cpu_exit(), and another checkpoint.            *)

gc_exit(c) ==
    /\ c \in Leavers
    /\ Working(c)
    /\ life' = [life EXCEPT ![c] = "leaving"]
    /\ BeginCheckpoint(c)
    /\ UNCHANGED mask

cpu_exit(c) ==
    /\ pc[c] = "exit"
    /\ mask' = mask \ {c}
    /\ life' = [life EXCEPT ![c] = "left"]
    /\ BeginCheckpoint(c)

Checkpoint(c) == observe(c) \/ mark(c) \/ service(c) \/ cpu_exit(c)

Next == \E c \in Cpus :
    \/ cpu_init(c) \/ alloc(c) \/ lookup(c) \/ gc_free(c)
    \/ gc_checkpoint(c) \/ gc_exit(c)
    \/ Checkpoint(c)

Spec == Init /\ [][Next]_vars

(***************************************************************************)
(* Every registered thread checkpoints again and again (the timer of       *)
(* pool.cc, the period of service.cc) and gets through each checkpoint.    *)
(***************************************************************************)
FairSpec ==
    /\ Spec
    /\ \A c \in Cpus : WF_vars(gc_checkpoint(c)) /\ WF_vars(Checkpoint(c))

-----------------------------------------------------------------------------
(* Properties.                                                             *)

(* Every variable holds a value of its type. *)
TypeOK ==
    /\ mask \in SUBSET Cpus
    /\ life \in [Cpus -> {"new", "running", "leaving", "left", "gone"}]
    /\ state \in [Objects -> {"unused", "live", "freed", "deleted"}]
    /\ seen \in [Objects -> SUBSET Cpus]
    /\ pending \in [Cpus -> Seq(Objects)]
    /\ last_observed \in [Cpus -> [Cpus -> Objects \cup {Nil}]]
    /\ refs \in [Cpus -> SUBSET Objects]
    /\ pc \in [Cpus -> {"idle", "observe", "mark", "walk", "exit"}]
    /\ i \in [Cpus -> Cpus]
    /\ head \in [Cpus -> Objects \cup {Nil}]
    /\ at \in [Cpus -> Nat]
    /\ acc \in [Cpus -> SUBSET Cpus]
    /\ \A c \in Cpus : at[c] <= Len(pending[c])
    /\ \A c \in Cpus : pc[c] = "mark" => head[c] # Nil

(***************************************************************************)
(* "Objects can be garbage collected when its guaranteed that no thread    *)
(* has a reference to the object" (gc.cc 3-4): what a thread looked up     *)
(* since its last checkpoint has not been deleted.                         *)
(***************************************************************************)
NoUseAfterFree ==
    \A c \in Cpus : \A a \in refs[c] : state[a] \in {"live", "freed"}

(* An object is on one pending list, once, from gc_free() to its deletion. *)
ListsDisjoint ==
    \A c, d \in Cpus : \A m \in 1..Len(pending[c]), n \in 1..Len(pending[d]) :
        pending[c][m] = pending[d][n] => c = d /\ m = n

ListedAreFreed ==
    \A c \in Cpus : \A n \in 1..Len(pending[c]) : state[pending[c][n]] = "freed"

(* Only a registered thread between checkpoints holds references. *)
RefsBetweenCheckpoints ==
    \A c \in Cpus : refs[c] # {} => c \in mask /\ life[c] = "running" /\ pc[c] = "idle"

(* d has seen no object of c's list from position n on. *)
Unseen(d, c, n) == \A m \in n..Len(pending[c]) : d \notin seen[pending[c][m]]

(***************************************************************************)
(* The grace period: whoever still refers to a freed object has marked     *)
(* neither it nor a later one of its list.                                 *)
(***************************************************************************)
Grace ==
    \A c \in Cpus, d \in mask : \A n \in 1..Len(pending[c]) :
        pending[c][n] \in refs[d] => Unseen(d, c, n)

(* pop_ready() has collected only bits of the nodes it has passed. *)
AccSeen ==
    \A c \in Cpus :
        /\ pc[c] # "walk" => acc[c] = {}
        /\ \A d \in acc[c] : \E m \in (at[c] + 1)..Len(pending[c]) :
               d \in seen[pending[c][m]]

(* What a registered CPU has marked is, or is older than, its last_observed. *)
MarkedObserved ==
    \A c \in Cpus, d \in mask : \A n \in 1..Len(pending[c]) :
        d \in seen[pending[c][n]]
        => \E m \in n..Len(pending[c]) : last_observed[d][c] = pending[c][m]

(***************************************************************************)
(* observe() dereferences a head it loaded before: for a registered CPU    *)
(* the object cannot have been deleted, or recycled, in between.           *)
(***************************************************************************)
MarkedHeadListed ==
    \A d \in mask : pc[d] = "mark" =>
        \E n \in 1..Len(pending[i[d]]) :
            pending[i[d]][n] = head[d] /\ Unseen(d, i[d], n)

(* A live object carries no mark that could shorten its grace period. *)
LiveUnseen ==
    \A a \in Objects :
        /\ state[a] = "live" => seen[a] \cap mask = {}
        /\ \A c \in seen[a] : life[c] # "new"

(* The mask is the threads between cpu_init() and cpu_exit(). *)
MaskIsRunning ==
    \A c \in Cpus :
        /\ c \in mask <=> life[c] \in {"running", "leaving"}
        /\ life[c] = "new" => pc[c] = "idle"

(***************************************************************************)
(* The inductive invariant behind NoUseAfterFree.                          *)
(***************************************************************************)
GraceInv ==
    /\ NoUseAfterFree
    /\ ListsDisjoint /\ ListedAreFreed /\ RefsBetweenCheckpoints
    /\ Grace /\ AccSeen /\ MarkedObserved /\ MarkedHeadListed /\ LiveUnseen
    /\ MaskIsRunning

(***************************************************************************)
(* "When all CPUs have observed that the object is freed (top), delete is  *)
(* invoked on the object" (gc.cc 7-8): with every CPU checkpointing for    *)
(* ever, a freed object is deleted one day.                                *)
(***************************************************************************)
FreedIsDeleted == \A a \in Objects : state[a] = "freed" ~> state[a] # "freed"

=============================================================================
