---------------------------- MODULE GcFlushProofs ----------------------------
(***************************************************************************)
(* Proofs about GcFlush, for any set of CPUs.                              *)
(***************************************************************************)
EXTENDS GcFlush, TLAPS

LEMMA FlusherIsNoWorker ==
    Flusher \in Cpus /\ Flusher \notin Workers /\ Workers \subseteq Cpus
BY FlusherAssumption DEF Workers

LEMMA TypeInit == Init => TypeOK
BY DEF Init, TypeOK

LEMMA AfterCheckpointType ==
    ASSUME NEW c \in Cpus
    PROVE  AfterCheckpoint(c) \in {"idle", "exit", "force"}
BY DEF AfterCheckpoint

LEMMA MarkType ==
    ASSUME TypeOK, NEW c \in Cpus, Mark(c)
    PROVE  seen' \in SUBSET Cpus /\ woken' \in BOOLEAN
<1>1. seen' \in SUBSET Cpus BY DEF Mark, TypeOK
<1>2. woken' \in BOOLEAN
  <2>1. CASE flushes BY <2>1 DEF Mark, TypeOK
  <2>2. CASE ~flushes BY <2>2 DEF Mark, TypeOK
  <2> QED BY <2>1, <2>2
<1> QED BY <1>1, <1>2

LEMMA TypeNext == TypeOK /\ [Next]_vars => TypeOK'
<1> SUFFICES ASSUME TypeOK, [Next]_vars PROVE TypeOK'
  OBVIOUS
<1>1. ASSUME NEW c \in Cpus, cpu_init(c) PROVE TypeOK'
  BY <1>1 DEF cpu_init, Goto, TypeOK
<1>2. ASSUME NEW c \in Cpus, operate(c) PROVE TypeOK'
  BY <1>2 DEF operate, Goto, TypeOK
<1>3. ASSUME NEW c \in Cpus, done(c) PROVE TypeOK'
  BY <1>3 DEF done, Goto, TypeOK
<1>4. ASSUME NEW c \in Cpus, gc_checkpoint(c) PROVE TypeOK'
  BY <1>4 DEF gc_checkpoint, Goto, TypeOK
<1>5. ASSUME NEW c \in Cpus, gc_exit(c) PROVE TypeOK'
  BY <1>5 DEF gc_exit, Goto, TypeOK
<1>6. ASSUME NEW c \in Cpus, checkpoint(c) PROVE TypeOK'
  BY <1>6, AfterCheckpointType DEF checkpoint, Goto, TypeOK
<1>7. ASSUME NEW c \in Cpus, force_checkpoint(c) PROVE TypeOK'
  BY <1>7, AfterCheckpointType, MarkType DEF force_checkpoint, Goto, TypeOK
<1>8. ASSUME NEW c \in Cpus, cpu_exit(c) PROVE TypeOK'
  BY <1>8 DEF cpu_exit, Goto, TypeOK
<1>9. ASSUME NEW c \in Cpus, last_checkpoint(c) PROVE TypeOK'
  BY <1>9, MarkType DEF last_checkpoint, Goto, TypeOK
<1>10. CASE gc_flush BY <1>10, FlusherIsNoWorker DEF gc_flush, Goto, TypeOK
<1>11. CASE register BY <1>11, FlusherIsNoWorker DEF register, Goto, TypeOK
<1>12. CASE wait BY <1>12, FlusherIsNoWorker DEF wait, Goto, TypeOK
<1>13. CASE Wake BY <1>13, FlusherIsNoWorker DEF Wake, Goto, TypeOK
<1>14. CASE flush_return BY <1>14, FlusherIsNoWorker DEF flush_return, Goto, TypeOK
<1>15. CASE UNCHANGED vars BY <1>15 DEF vars, TypeOK
<1> QED BY <1>1, <1>2, <1>3, <1>4, <1>5, <1>6, <1>7, <1>8, <1>9, <1>10, <1>11,
           <1>12, <1>13, <1>14, <1>15
        DEF Next, Checkpoint, Flush, notified, spurious

(* Every variable of GcFlush keeps its type. *)
LEMMA TypeCorrect == Spec => []TypeOK
BY TypeInit, TypeNext, PTL DEF Spec

-----------------------------------------------------------------------------
(* The grace period of gc_flush().                                         *)

LEMMA FlushInit == Init => FlushInv
BY FlusherIsNoWorker DEF Init, FlushInv, FlushGrace, Roles, BeforeUnseen, Workers

(***************************************************************************)
(* A thread between operations, or in a checkpoint, is not one that the    *)
(* flush found in an operation: marking it takes nothing from the waiter.  *)
(***************************************************************************)
LEMMA MarkKeepsBefore ==
    ASSUME TypeOK, FlushInv, NEW c \in Cpus, pc[c] \in {"locked", "force"}, Mark(c)
    PROVE  pc[Flusher] \in {"wait", "asleep"} => \A d \in before : d \notin seen'
<1>1. c \notin before BY DEF FlushInv, BeforeUnseen
<1> QED BY <1>1 DEF FlushInv, BeforeUnseen, Mark

LEMMA FlushNext == TypeOK /\ FlushInv /\ [Next]_vars => FlushInv'
<1> SUFFICES ASSUME TypeOK, FlushInv, [Next]_vars PROVE FlushInv'
  OBVIOUS
<1> USE FlusherIsNoWorker DEF FlushInv, FlushGrace, Roles, BeforeUnseen
<1>1. ASSUME NEW c \in Cpus, cpu_init(c) PROVE FlushInv'
  BY <1>1 DEF cpu_init, Goto, TypeOK
<1>2. ASSUME NEW c \in Cpus, operate(c) PROVE FlushInv'
  BY <1>2 DEF operate, Goto, TypeOK
<1>3. ASSUME NEW c \in Cpus, done(c) PROVE FlushInv'
  BY <1>3 DEF done, Goto, TypeOK
<1>4. ASSUME NEW c \in Cpus, gc_checkpoint(c) PROVE FlushInv'
  BY <1>4 DEF gc_checkpoint, Goto, TypeOK
<1>5. ASSUME NEW c \in Cpus, gc_exit(c) PROVE FlushInv'
  BY <1>5 DEF gc_exit, Goto, TypeOK
<1>6. ASSUME NEW c \in Cpus, checkpoint(c) PROVE FlushInv'
  BY <1>6 DEF checkpoint, AfterCheckpoint, Goto, TypeOK
<1>7. ASSUME NEW c \in Cpus, force_checkpoint(c) PROVE FlushInv'
  <2>1. pc[c] = "locked" /\ c # Flusher /\ before' = before
    BY <1>7 DEF force_checkpoint
  <2>2. pc[Flusher] \in {"wait", "asleep"} => \A d \in before' : d \notin seen'
    BY <1>7, <2>1, MarkKeepsBefore DEF force_checkpoint
  <2>3. Roles' BY <1>7, <2>1 DEF force_checkpoint, AfterCheckpoint, Goto, TypeOK
  <2>4. /\ pc'[Flusher] = pc[Flusher]
        /\ \A d \in before' : pc'[d] = "operation"
    BY <1>7, <2>1 DEF force_checkpoint, Goto, TypeOK
  <2> QED BY <2>1, <2>2, <2>3, <2>4
<1>8. ASSUME NEW c \in Cpus, cpu_exit(c) PROVE FlushInv'
  BY <1>8 DEF cpu_exit, Goto, TypeOK
<1>9. ASSUME NEW c \in Cpus, last_checkpoint(c) PROVE FlushInv'
  <2>1. pc[c] = "force" /\ before' = before
    BY <1>9 DEF last_checkpoint
  <2>2. pc[Flusher] \in {"wait", "asleep"} => \A d \in before' : d \notin seen'
    BY <1>9, <2>1, MarkKeepsBefore DEF last_checkpoint
  <2>3. Roles' BY <1>9, <2>1 DEF last_checkpoint, Goto, TypeOK
  <2>4. /\ pc'[Flusher] \in {pc[Flusher], "gone"}
        /\ \A d \in before' : pc'[d] = "operation"
    BY <1>9, <2>1 DEF last_checkpoint, Goto, TypeOK
  <2> QED BY <2>1, <2>2, <2>3, <2>4
<1>10. CASE gc_flush BY <1>10 DEF gc_flush, Goto, TypeOK, Workers
<1>11. CASE register BY <1>11 DEF register, Goto, TypeOK
\* The waiter returns: no CPU of the mask is missing, and before is within the mask.
<1>12. CASE wait
  <2>1. before \subseteq mask BY DEF TypeOK, Workers
  <2>2. CASE cpu_seen_all(seen)
    <3>1. before = {} BY <1>12, <2>1, <2>2 DEF wait, cpu_seen_all
    <3> QED BY <1>12, <2>2, <3>1 DEF wait, Goto, TypeOK
  <2>3. CASE ~cpu_seen_all(seen) BY <1>12, <2>3 DEF wait, Goto, TypeOK
  <2> QED BY <2>2, <2>3
<1>13. CASE Wake BY <1>13 DEF Wake, Goto, TypeOK
<1>14. CASE flush_return BY <1>14 DEF flush_return, Goto, TypeOK
<1>15. CASE UNCHANGED vars
  <2>1. FlushGrace' BY <1>15 DEF vars
  <2>2. Roles' BY <1>15 DEF vars
  <2>3. BeforeUnseen' BY <1>15 DEF vars
  <2> QED BY <2>1, <2>2, <2>3
<1> QED BY <1>1, <1>2, <1>3, <1>4, <1>5, <1>6, <1>7, <1>8, <1>9, <1>10, <1>11,
           <1>12, <1>13, <1>14, <1>15
        DEF Next, Checkpoint, Flush, notified, spurious

(***************************************************************************)
(* The inductive invariant: while a waiter is registered it has the bit of *)
(* no thread still in an operation that began before the flush.            *)
(***************************************************************************)
THEOREM FlushInvCorrect == Spec => []FlushInv
BY FlushInit, FlushNext, TypeCorrect, PTL DEF Spec

(***************************************************************************)
(* When gc_flush() returns, the operations it found running are over,      *)
(* however many threads register, leave and checkpoint meanwhile.          *)
(***************************************************************************)
THEOREM FlushGraceCorrect == Spec => []FlushGrace
<1>1. FlushInv => FlushGrace BY DEF FlushInv
<1> QED BY <1>1, FlushInvCorrect, PTL

-----------------------------------------------------------------------------
(* Wake-ups.                                                               *)

(* A waiter is registered as long as gc_flush() has not returned. *)
Registered == pc[Flusher] \in {"wait", "asleep"} => flushes

(* A thread out of the mask that still has a checkpoint of gc_exit() to make. *)
StillToMark(c) ==
    c \in leaving /\ c \notin mask /\ pc[c] \in {"checkpoint", "locked", "force"}

WakeInv == Registered /\ NoLostWakeup

(* Marking a CPU notifies the waiter when it was the last one missing. *)
LEMMA MarkWakes ==
    ASSUME TypeOK, WakeInv, NEW c \in Cpus, c # Flusher, Mark(c), NEW p, Goto(c, p),
           UNCHANGED <<mask, leaving, flushes>>
    PROVE  WakeInv'
<1>1. pc'[Flusher] = pc[Flusher] BY FlusherAssumption DEF Goto, TypeOK
<1>2. Registered' BY <1>1 DEF WakeInv, Registered
<1>3. ASSUME pc[Flusher] = "asleep", mask \subseteq seen' PROVE woken'
  <2>1. flushes BY <1>3 DEF WakeInv, Registered
  <2> QED BY <1>3, <2>1 DEF Mark, cpu_seen_all
<1>4. NoLostWakeup' BY <1>1, <1>3 DEF NoLostWakeup, cpu_seen_all
<1> QED BY <1>2, <1>4 DEF WakeInv

(* A step that marks nothing keeps a thread that is still to mark. *)
LEMMA WakeKept ==
    ASSUME WakeInv, UNCHANGED <<seen, woken, flushes>>,
           pc'[Flusher] = "asleep" => pc[Flusher] = "asleep",
           pc'[Flusher] = "wait" => pc[Flusher] \in {"wait", "asleep"},
           mask' \subseteq seen => mask \subseteq seen \/ \E c \in leaving : StillToMark(c)',
           \A c \in leaving : StillToMark(c) => StillToMark(c)',
           leaving \subseteq leaving'
    PROVE  WakeInv'
<1>1. Registered' BY DEF WakeInv, Registered
<1>2. ASSUME pc'[Flusher] = "asleep", mask' \subseteq seen, ~woken
      PROVE  \E c \in leaving : StillToMark(c)'
  <2>1. CASE mask \subseteq seen
    <3>1. PICK c \in leaving : c \notin mask /\ pc[c] \in {"checkpoint", "locked", "force"}
      BY <1>2, <2>1 DEF WakeInv, NoLostWakeup, cpu_seen_all
    <3>2. StillToMark(c) BY <3>1 DEF StillToMark
    <3> QED BY <3>2
  <2> QED BY <1>2, <2>1
<1>3. NoLostWakeup' BY <1>2 DEF NoLostWakeup, cpu_seen_all, StillToMark
<1> QED BY <1>1, <1>3 DEF WakeInv

LEMMA WakeNext == TypeOK /\ Roles /\ WakeInv /\ [Next]_vars => WakeInv'
<1> SUFFICES ASSUME TypeOK, Roles, WakeInv, [Next]_vars PROVE WakeInv'
  OBVIOUS
<1> USE FlusherIsNoWorker
<1>1. ASSUME NEW c \in Cpus, cpu_init(c) PROVE WakeInv'
  <2>1. /\ UNCHANGED <<seen, woken, flushes, leaving>> /\ mask \subseteq mask'
        /\ pc'[Flusher] \in {"asleep", "wait"} => pc'[Flusher] = pc[Flusher]
    BY <1>1 DEF cpu_init, Goto, TypeOK
  <2>2. ASSUME NEW d \in leaving, StillToMark(d) PROVE StillToMark(d)'
    BY <1>1, <2>2 DEF cpu_init, Goto, TypeOK, StillToMark
  <2> QED BY <2>1, <2>2, WakeKept
<1>2. ASSUME NEW c \in Cpus, NEW p \in {"operation", "idle", "checkpoint"},
             pc[c] \in {"idle", "operation"}, Goto(c, p), leaving \subseteq leaving',
             UNCHANGED <<mask, flushes, seen, woken>>
      PROVE  WakeInv'
  <2>1. pc'[Flusher] \in {"asleep", "wait"} => pc'[Flusher] = pc[Flusher]
    BY <1>2 DEF Goto, TypeOK
  <2>2. ASSUME NEW d \in leaving, StillToMark(d) PROVE StillToMark(d)'
    BY <1>2, <2>2 DEF Goto, TypeOK, StillToMark
  <2> QED BY <1>2, <2>1, <2>2, WakeKept
<1>3. ASSUME NEW c \in Cpus, operate(c) \/ done(c) \/ gc_checkpoint(c) \/ gc_exit(c)
      PROVE  WakeInv'
  BY <1>2, <1>3 DEF operate, done, gc_checkpoint, gc_exit
<1>4. ASSUME NEW c \in Cpus, checkpoint(c) PROVE WakeInv'
  <2>1. pc[c] = "checkpoint" BY <1>4 DEF checkpoint
  <2>2. /\ UNCHANGED <<mask, leaving, flushes, seen, woken>>
        /\ pc'[Flusher] \in {"asleep", "wait"} => pc'[Flusher] = pc[Flusher]
    BY <1>4, <2>1, AfterCheckpointType DEF checkpoint, Goto, TypeOK
  <2>3. ASSUME NEW d \in leaving, StillToMark(d) PROVE StillToMark(d)'
    BY <1>4, <2>3 DEF checkpoint, AfterCheckpoint, Goto, TypeOK, StillToMark
  <2> QED BY <2>2, <2>3, WakeKept
<1>5. ASSUME NEW c \in Cpus, force_checkpoint(c) \/ last_checkpoint(c) PROVE WakeInv'
  <2>1. CASE c = Flusher
    <3>1. last_checkpoint(c) /\ pc'[Flusher] = "gone"
      BY <1>5, <2>1 DEF force_checkpoint, last_checkpoint, Goto, TypeOK, Roles
    <3> QED BY <3>1 DEF WakeInv, Registered, NoLostWakeup
  <2>2. CASE c # Flusher
    BY <1>5, <2>2, MarkWakes DEF force_checkpoint, last_checkpoint
  <2> QED BY <2>1, <2>2
\* The CPU that leaves the mask has its checkpoints still to make.
<1>6. ASSUME NEW c \in Cpus, cpu_exit(c) PROVE WakeInv'
  <2>1. c \in leaving BY <1>6 DEF cpu_exit, Roles
  <2>2. /\ UNCHANGED <<leaving, flushes, seen, woken>>
        /\ pc'[Flusher] \in {"asleep", "wait"} => pc'[Flusher] = pc[Flusher]
        /\ mask' = mask \ {c} /\ pc'[c] = "checkpoint"
    BY <1>6, <2>1 DEF cpu_exit, Goto, TypeOK
  <2>3. StillToMark(c)' BY <2>1, <2>2 DEF StillToMark
  <2>4. ASSUME NEW d \in leaving, StillToMark(d) PROVE StillToMark(d)'
    BY <1>6, <2>4 DEF cpu_exit, Goto, TypeOK, StillToMark
  <2> QED BY <2>1, <2>2, <2>3, <2>4, WakeKept
<1>7. CASE gc_flush \/ flush_return
  <2>1. pc'[Flusher] \in {"register", "idle"} BY <1>7 DEF gc_flush, flush_return, Goto, TypeOK
  <2> QED BY <2>1 DEF WakeInv, Registered, NoLostWakeup
<1>8. CASE register
  <2>1. pc'[Flusher] = "wait" /\ flushes' BY <1>8 DEF register, Goto, TypeOK
  <2> QED BY <2>1 DEF WakeInv, Registered, NoLostWakeup
<1>9. CASE wait
  <2>1. pc[Flusher] = "wait" /\ flushes /\ UNCHANGED <<mask, seen>>
    BY <1>9 DEF wait, WakeInv, Registered
  <2>2. CASE cpu_seen_all(seen)
    <3>1. pc'[Flusher] = "flushed" BY <1>9, <2>2 DEF wait, Goto, TypeOK
    <3> QED BY <3>1 DEF WakeInv, Registered, NoLostWakeup
  <2>3. CASE ~cpu_seen_all(seen)
    <3>1. flushes' = flushes BY <1>9, <2>3 DEF wait
    <3>2. ~cpu_seen_all(seen)' BY <2>1, <2>3 DEF cpu_seen_all
    <3> QED BY <2>1, <3>1, <3>2 DEF WakeInv, Registered, NoLostWakeup
  <2> QED BY <2>2, <2>3
<1>10. CASE Wake
  <2>1. pc'[Flusher] = "wait" /\ pc[Flusher] = "asleep" /\ flushes' = flushes
    BY <1>10 DEF Wake, Goto, TypeOK
  <2> QED BY <2>1 DEF WakeInv, Registered, NoLostWakeup
<1>11. CASE UNCHANGED vars
  BY <1>11 DEF vars, WakeInv, Registered, NoLostWakeup, cpu_seen_all
<1> QED BY <1>1, <1>3, <1>4, <1>5, <1>6, <1>7, <1>8, <1>9, <1>10, <1>11
        DEF Next, Checkpoint, Flush, notified, spurious

(***************************************************************************)
(* A flush that sleeps although every CPU of the mask has been seen has    *)
(* been notified, or a thread in gc_exit() is about to mark its CPU and    *)
(* will notify it: cpu_exit() without the mutex loses no wake-up.          *)
(***************************************************************************)
THEOREM NoLostWakeupCorrect == Spec => []NoLostWakeup
<1>1. Init => WakeInv BY FlusherIsNoWorker DEF Init, WakeInv, Registered, NoLostWakeup
<1>2. FlushInv => Roles BY DEF FlushInv
<1>3. WakeInv => NoLostWakeup BY DEF WakeInv
<1> QED BY <1>1, <1>2, <1>3, WakeNext, TypeCorrect, FlushInvCorrect, PTL DEF Spec

-----------------------------------------------------------------------------
(* The waiter's lifetime.                                                  *)

(* A mark finds a waiter only while its flush waits, and moves no flusher. *)
LEMMA MarkLive ==
    ASSUME TypeOK, Roles, NEW c \in Cpus, c # Flusher, Mark(c), NEW p, Goto(c, p),
           <<seen, woken>>' # <<seen, woken>>
    PROVE  pc'[Flusher] \in {"wait", "asleep"}
<1>1. flushes BY DEF Mark
<1>2. pc'[Flusher] = pc[Flusher] BY FlusherAssumption DEF Goto, TypeOK
<1> QED BY <1>1, <1>2 DEF Roles

(***************************************************************************)
(* Nobody writes to a waiter whose gc_flush() has returned, although       *)
(* checkpoint() reads flushes without the mutex, for any set of CPUs.      *)
(***************************************************************************)
THEOREM WaiterLiveCorrect == Spec => WaiterLive
<1> DEFINE Live == <<seen, woken>>' # <<seen, woken>> => pc'[Flusher] \in {"wait", "asleep"}
<1>1. TypeOK /\ FlushInv /\ [Next]_vars => [Live]_vars
  <2> SUFFICES ASSUME TypeOK, FlushInv, Next, <<seen, woken>>' # <<seen, woken>>
               PROVE  pc'[Flusher] \in {"wait", "asleep"}
    OBVIOUS
  <2>1. ASSUME NEW c \in Cpus, force_checkpoint(c) \/ last_checkpoint(c)
        PROVE  pc'[Flusher] \in {"wait", "asleep"}
    <3>1. CASE c = Flusher
      <4>1. ~flushes BY <2>1, <3>1 DEF force_checkpoint, last_checkpoint, FlushInv, Roles
      <4> QED BY <2>1, <4>1 DEF force_checkpoint, last_checkpoint, Mark
    <3>2. CASE c # Flusher
      BY <2>1, <3>2, MarkLive DEF force_checkpoint, last_checkpoint, FlushInv
    <3> QED BY <3>1, <3>2
  <2>2. CASE register BY <2>2, FlusherAssumption DEF register, Goto, TypeOK
  <2>3. CASE wait BY <2>3, FlusherAssumption DEF wait, Goto, TypeOK
  <2>4. ASSUME NEW c \in Cpus,
               \/ cpu_init(c) \/ operate(c) \/ done(c) \/ gc_checkpoint(c)
               \/ gc_exit(c) \/ checkpoint(c) \/ cpu_exit(c)
        PROVE  FALSE
    BY <2>4 DEF cpu_init, operate, done, gc_checkpoint, gc_exit, checkpoint, cpu_exit
  <2>5. ASSUME gc_flush \/ Wake \/ flush_return PROVE FALSE
    BY <2>5 DEF gc_flush, Wake, flush_return
  <2> QED BY <2>1, <2>2, <2>3, <2>4, <2>5 DEF Next, Checkpoint, Flush, notified, spurious
<1>2. Spec => [][Live]_vars BY <1>1, TypeCorrect, FlushInvCorrect, PTL DEF Spec
<1> QED BY <1>2 DEF WaiterLive
=============================================================================
