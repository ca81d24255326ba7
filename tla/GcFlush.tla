------------------------------- MODULE GcFlush -------------------------------
(***************************************************************************)
(* gc_flush() (class gc_flush_control of src/src/gc.cc): the caller waits  *)
(* until every registered CPU has passed a checkpoint since the call.      *)
(* cache::collect() relies on it twice: once it returns, no operation that *)
(* began with the old tables is still running.                             *)
(*                                                                         *)
(* One thread flushes, the service thread (src/src/service.cc) or the      *)
(* collector of loadtest (src/src/loadtest.cc), so there is at most one    *)
(* waiter; the others run operations.  Every thread checkpoints between    *)
(* what it does, and may come (cpu_init) and go (gc_exit) at any time.     *)
(* The mutex is held from the registration of the waiter until it first    *)
(* sleeps and while a checkpoint marks it.  The mask of CPUs is not under  *)
(* the mutex, nor is the pointer to the waiter when checkpoint() looks     *)
(* whether there is one.                                                   *)
(***************************************************************************)
EXTENDS Naturals, FiniteSets

CONSTANTS Cpus,      \* ids of the threads
          Flusher    \* the one that calls gc_flush

ASSUME FlusherAssumption == Flusher \in Cpus

Workers == Cpus \ {Flusher}

VARIABLES
    mask,     \* _cpu_mask, as a set of CPUs
    pc,       \* where each thread is
    leaving,  \* the threads in gc_exit()
    flushes,  \* a waiter is registered
    seen,     \* waiter::seen, as a set of CPUs
    woken,    \* the condition variable has been notified since the wait began
    before    \* threads in an operation that began before the current flush

vars == <<mask, pc, leaving, flushes, seen, woken, before>>

(* cpu_seen_all() *)
cpu_seen_all(s) == mask \subseteq s

Goto(c, p) == pc' = [pc EXCEPT ![c] = p]

Init ==
    /\ mask = {}
    /\ pc = [c \in Cpus |-> "new"]
    /\ leaving = {}
    /\ flushes = FALSE
    /\ seen = {}
    /\ woken = FALSE
    /\ before = {}

cpu_init(c) ==
    /\ pc[c] = "new"
    /\ mask' = mask \cup {c}
    /\ Goto(c, "idle")
    /\ UNCHANGED <<leaving, flushes, seen, woken, before>>

-----------------------------------------------------------------------------
(* The other threads.                                                      *)

(* An operation of the cache, in which tables are loaded and used. *)
operate(c) ==
    /\ c \in Workers /\ pc[c] = "idle"
    /\ Goto(c, "operation")
    /\ UNCHANGED <<mask, leaving, flushes, seen, woken, before>>

done(c) ==
    /\ pc[c] = "operation"
    /\ Goto(c, "idle")
    /\ before' = before \ {c}
    /\ UNCHANGED <<mask, leaving, flushes, seen, woken>>

(* Mutant of gc_checkpoint: the checkpoint may interrupt an operation. *)
gc_checkpoint_busy(c) ==
    /\ pc[c] \in {"idle", "operation"}
    /\ Goto(c, "checkpoint")
    /\ UNCHANGED <<mask, leaving, flushes, seen, woken, before>>

(* gc_checkpoint(), outside operations; deletion is the matter of Gc. *)
gc_checkpoint(c) ==
    /\ pc[c] = "idle"
    /\ Goto(c, "checkpoint")
    /\ UNCHANGED <<mask, leaving, flushes, seen, woken, before>>

(* Where gc_exit() goes on after a checkpoint, or the thread to its work. *)
AfterCheckpoint(c) ==
    IF c \notin leaving THEN "idle" ELSE IF c \in mask THEN "exit" ELSE "force"

(* gc_flush_control::checkpoint(): the load without the mutex. *)
checkpoint(c) ==
    /\ pc[c] = "checkpoint"
    /\ Goto(c, IF flushes THEN "locked" ELSE AfterCheckpoint(c))
    /\ UNCHANGED <<mask, leaving, flushes, seen, woken, before>>

(* The mutex is free. *)
Unlocked == pc[Flusher] # "wait"

(* Mutant of Mark: the waiter is not notified. *)
MarkSilently(c) ==
    IF flushes
    THEN seen' = seen \cup {c} /\ UNCHANGED woken
    ELSE UNCHANGED <<seen, woken>>

(* checkpoint_locked() and waiter::checkpoint(). *)
Mark(c) ==
    IF flushes
    THEN /\ seen' = seen \cup {c}
         /\ woken' = (woken \/ cpu_seen_all(seen'))
    ELSE UNCHANGED <<seen, woken>>

(* Mutant of force_checkpoint: it marks the waiter that checkpoint() found. *)
force_checkpoint_loaded(c) ==
    /\ pc[c] = "locked" /\ Unlocked
    /\ seen' = seen \cup {c}
    /\ woken' = (woken \/ cpu_seen_all(seen'))
    /\ Goto(c, AfterCheckpoint(c))
    /\ UNCHANGED <<mask, leaving, flushes, before>>

(* force_checkpoint(), called from checkpoint(); it loads flushes again. *)
force_checkpoint(c) ==
    /\ pc[c] = "locked" /\ Unlocked
    /\ Mark(c)
    /\ Goto(c, AfterCheckpoint(c))
    /\ UNCHANGED <<mask, leaving, flushes, before>>

-----------------------------------------------------------------------------
(* gc_exit(): checkpoint, cpu_exit(), checkpoint, force_checkpoint().      *)

gc_exit(c) ==
    /\ pc[c] = "idle"
    /\ leaving' = leaving \cup {c}
    /\ Goto(c, "checkpoint")
    /\ UNCHANGED <<mask, flushes, seen, woken, before>>

(* Mutant of cpu_exit: nothing follows it, as in pool.cc 40. *)
cpu_exit_only(c) ==
    /\ pc[c] = "exit"
    /\ mask' = mask \ {c}
    /\ Goto(c, "gone")
    /\ UNCHANGED <<leaving, flushes, seen, woken, before>>

cpu_exit(c) ==
    /\ pc[c] = "exit"
    /\ mask' = mask \ {c}
    /\ Goto(c, "checkpoint")
    /\ UNCHANGED <<leaving, flushes, seen, woken, before>>

last_checkpoint(c) ==
    /\ pc[c] = "force" /\ Unlocked
    /\ Mark(c)
    /\ Goto(c, "gone")
    /\ UNCHANGED <<mask, leaving, flushes, before>>

-----------------------------------------------------------------------------
(* gc_flush() on the flusher.                                              *)

(* The checkpoint before it finds no waiter; the lock is not yet taken. *)
gc_flush ==
    /\ pc[Flusher] = "idle"
    /\ before' = {c \in Workers : pc[c] = "operation"}
    /\ Goto(Flusher, "register")
    /\ UNCHANGED <<mask, leaving, flushes, seen, woken>>

(* Mutant of register: the waiter starts with the bits of the last one. *)
register_stale ==
    /\ pc[Flusher] = "register"
    /\ flushes' = TRUE
    /\ seen' = seen \cup {Flusher}
    /\ woken' = FALSE
    /\ Goto(Flusher, "wait")
    /\ UNCHANGED <<mask, leaving, before>>

(* waiter w(mutex); flushes = &w; checkpoint_locked(). *)
register ==
    /\ pc[Flusher] = "register"
    /\ flushes' = TRUE
    /\ seen' = {Flusher}
    /\ woken' = FALSE
    /\ Goto(Flusher, "wait")
    /\ UNCHANGED <<mask, leaving, before>>

(* waiter::wait() and what follows: return, or sleep without the mutex. *)
wait ==
    /\ pc[Flusher] = "wait"
    /\ \/ /\ cpu_seen_all(seen)
          /\ flushes' = FALSE
          /\ Goto(Flusher, "flushed")
          /\ UNCHANGED woken
       \/ /\ ~cpu_seen_all(seen)
          /\ woken' = FALSE
          /\ Goto(Flusher, "asleep")
          /\ UNCHANGED flushes
    /\ UNCHANGED <<mask, leaving, seen, before>>

(* ready.wait(lock) returns and the mutex is taken again. *)
Wake ==
    /\ pc[Flusher] = "asleep"
    /\ Goto(Flusher, "wait")
    /\ UNCHANGED <<mask, leaving, flushes, seen, woken, before>>

notified == woken /\ Wake
spurious == ~woken /\ Wake

(* The caller goes on with what the flush was for. *)
flush_return ==
    /\ pc[Flusher] = "flushed"
    /\ Goto(Flusher, "idle")
    /\ UNCHANGED <<mask, leaving, flushes, seen, woken, before>>

Flush == register \/ wait \/ notified

Checkpoint(c) == checkpoint(c) \/ force_checkpoint(c) \/ cpu_exit(c) \/ last_checkpoint(c)

Next ==
    \/ \E c \in Cpus : cpu_init(c) \/ operate(c) \/ done(c) \/ gc_checkpoint(c)
                       \/ gc_exit(c) \/ Checkpoint(c)
    \/ gc_flush \/ Flush \/ spurious \/ flush_return

Spec == Init /\ [][Next]_vars

(***************************************************************************)
(* Operations end, the workers checkpoint again and again (the timer of    *)
(* pool.cc) and whoever is in a checkpoint or a flush gets on.  An expired *)
(* timer waits its turn among the operations, and a thread that waits for  *)
(* the mutex gets it although the waiter takes it now and then: strong     *)
(* fairness.  Nobody has to begin an operation or leave, and spurious      *)
(* wake-ups are not relied on.                                             *)
(***************************************************************************)
FairSpec ==
    /\ Spec
    /\ WF_vars(Flush)
    /\ \A c \in Cpus : WF_vars(done(c)) /\ SF_vars(Checkpoint(c))
    /\ \A c \in Workers : SF_vars(gc_checkpoint(c))

-----------------------------------------------------------------------------
(* Properties.                                                             *)

(* Every variable holds a value of its type. *)
TypeOK ==
    /\ mask \in SUBSET Cpus
    /\ pc \in [Cpus -> {"new", "idle", "operation", "checkpoint", "locked", "exit",
                        "force", "gone", "register", "wait", "asleep", "flushed"}]
    /\ leaving \in SUBSET Cpus
    /\ flushes \in BOOLEAN
    /\ seen \in SUBSET Cpus
    /\ woken \in BOOLEAN
    /\ before \in SUBSET Workers

(***************************************************************************)
(* "everyone now should see building" (cache.cc 295), "everyone now should *)
(* ... not be using old" (cache.cc 307): when gc_flush() returns, every    *)
(* operation that was running when it was called is over.                  *)
(***************************************************************************)
FlushGrace == pc[Flusher] = "flushed" => before = {}

(* Threads in an operation are registered; only the flusher is in gc_flush, *)
(* and while it is elsewhere there is no waiter.                            *)
Roles ==
    /\ \A c \in Cpus :
           /\ pc[c] \in {"new", "idle", "operation"} => c \notin leaving
           /\ pc[c] \in {"idle", "operation"} => c \in mask
           /\ pc[c] \in {"checkpoint", "locked"} => c \in mask \cup leaving
           /\ pc[c] = "exit" => c \in leaving
           /\ pc[c] \in {"register", "wait", "asleep", "flushed"} =>
                  c = Flusher /\ c \in mask \ leaving
    /\ pc[Flusher] \notin {"operation", "locked"}
    /\ flushes => pc[Flusher] \in {"wait", "asleep"}

(* The waiter has the bit of no thread that is still where the flush found it. *)
BeforeUnseen ==
    /\ \A c \in before : pc[c] = "operation"
    /\ pc[Flusher] \in {"wait", "asleep"} => \A c \in before : c \notin seen

(* The inductive invariant behind FlushGrace. *)
FlushInv == FlushGrace /\ Roles /\ BeforeUnseen

(***************************************************************************)
(* The waiter lives on the stack of gc_flush(): nobody marks or notifies   *)
(* one that has returned.  checkpoint() looks at flushes without the mutex *)
(* (gc.cc 99) and may get the mutex when the flush is over;                *)
(* checkpoint_locked() has to load the pointer again.                      *)
(***************************************************************************)
WaiterLive ==
    [][<<seen, woken>>' # <<seen, woken>> => pc'[Flusher] \in {"wait", "asleep"}]_vars

(***************************************************************************)
(* A sleeping waiter whose last missing CPU has come by, or has left, has  *)
(* been notified or is about to be: no wake-up is lost, although cpu_exit()*)
(* takes CPUs out of the mask without the mutex.                           *)
(***************************************************************************)
NoLostWakeup ==
    pc[Flusher] = "asleep" /\ cpu_seen_all(seen) /\ ~woken
    => \E c \in leaving : c \notin mask /\ pc[c] \in {"checkpoint", "locked", "force"}

(* gc_flush() returns, whoever comes and goes meanwhile. *)
FlushReturns == pc[Flusher] = "register" ~> pc[Flusher] = "flushed"
=============================================================================
