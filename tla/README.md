# A verification development for jimcached

jimcached is a memcached clone whose cache is a lock-free open hash table. Threads
share the table, entries are reclaimed by a deferred-deletion scheme, and a service
thread rebuilds the table while clients go on using it. This directory holds TLA+
models of those parts, TLC configurations that check them on small instances, and
proofs, checked by TLAPS, that hold for every value of the constants. All line
numbers refer to `src/src/`.

## The system

| part | source | state | operations | what is hard |
|---|---|---|---|---|
| open hash table | `table.h`, `flagged_ptr.h`, `counter.h` | buckets (key, flagged value), two counters | find, set, add, replace, remove, set_shared, add_shared, exclusive | every access is an atomic load, exchange or compare-and-swap; two tables share keys and values |
| garbage collection | `gc.cc`, `gc.h` | a list of freed objects per CPU, marks on objects, last_observed | gc_free, gc_checkpoint, gc_exit, gc_flush, gc_finish | others mark the lists without locks; addresses are recycled; CPUs come and go |
| CPU registry | `cpu.cc` | the mask of registered CPUs | cpu_init, cpu_exit, cpu_seen_all | read and changed without a lock |
| version history | `history.h` | newer_ (pointer and deleted flag) of each entry | mv_set, mv_add, mv_replace, mv_del, newest | concurrent writers append to one chain |
| cache | `cache.cc` | _entries, _building, byte counter | get, set, add, replace, del, append, prepend, incr, decr, cas, touch, collect | operations choose the table by two loads while collect() swaps them |
| entry | `entry.cc` | rope of memory, flags, times | append, prepend, incr, decr, cas, touch, read | 128-bit compare-and-swap next to plain reads |
| session | `session.cc` | protocol state, buffers | one step per state of loop() | asynchronous reads and writes around references to entries |
| threads | `pool.cc`, `service.cc`, `tcp.cc`, `jimcached.cc` | one event loop per pool thread, one service thread | checkpoint timer, periodic collect() | the scheduling that everything relies on |

How they interact. A session runs on one pool thread and calls the cache; the cache
calls the table in `_entries` and, while `collect()` runs, the one in `_building`
too. The table hands displaced values and keys to `gc_free()`. Every pool thread
checkpoints from a timer between handlers. `collect()` publishes a new table, waits
with `gc_flush()` until no operation is left that does not know of it, copies the
live entries as *shared*, swaps the tables, waits again, and calls `exclusive()` for
every bucket of the old table, so that the new one owns what they shared. While a
table is building, set, add, replace and del of a key that has an entry do not touch
the tables but append a version to that entry.

What makes each part correct:

* table: an atomic map for its users; a key in one bucket; every value and every
  key object released exactly once, never while the table still holds it; counters
  that match; operations that return;
* garbage collection: nothing deleted while a thread can refer to it; everything
  freed is deleted one day; `gc_flush()` returns, and only after the operations it
  found running are over;
* history: one chain, nothing lost from it, an atomic register for its users;
* session: data blocks taken exactly and stored as sent, each request answered once and
  in order, output that fits its buffer, no reference kept across a checkpoint;
* cache: acknowledged writes survive a rebuild, deleted keys stay deleted, every entry has
  one owner, nobody uses a table that is gone;
* entry: what is stored is neither lost nor freed while it is part of the value; writers
  are atomic.

## Modules

| module | models | abstract specification | proofs |
|---|---|---|---|
| `Table` | `opentable`, one step per atomic access, in the life of a table that `collect()` builds | `AtomicMap` | `TableProofs`, `TableOwnership` |
| `Gc` | deferred deletion and the CPU registry, one step per access to another CPU's list | | `GcProofs` |
| `GcFlush` | `gc_flush()` and the waiter | | `GcFlushProofs` |
| `History` | `mv_object`, one step per compare-and-exchange or load | `AtomicVersion` | `HistoryProofs` |
| `Cache` | the operations of `cache` and `collect()`, one step per load of `_entries` and `_building` and per call of a table or an entry; composes what `Table`, `History` and `GcFlush` promise | | `CacheProofs` |
| `Entry` | the value of an entry, one step per load, exchange, compare-and-swap or link | `AtomicValue` | `EntryProofs` |
| `Session` | `text_session`, one step per iteration of `loop()` or callback | | `SessionProofs` |

`MCTable`, `MCGc`, `MCGcFlush`, `MCHistory`, `MCCache`, `MCEntry` and `MCSession` instantiate them for TLC. An operator
whose comment begins "Mutant of" is a plausible wrong form of the definition after
it, kept to show that the properties notice the difference; no specification uses it.

### Table

Buckets are `bk` (key) and `bv` (value and shared flag); `Probe[k]` is the sequence
of buckets that `iterate_buckets` derives from the hash of `k`, an arbitrary function:
the results do not depend on the hash, and a sequence may visit a bucket twice. A
thread's place is `pc`: `iterate` (the load in the loop of `iterate_buckets`), `action`
(what `find_bucket` or `set_key` does with the bucket), `usage`, `value`, `cas`,
`changed`, `decr`, `release`, `return`. Two simplifications: the load and the
compare-and-swap loop of `set_key` are one step, because a key never changes once it
is written; and key objects are tracked only where two tables share them (`oldkey`,
`freedkeys`). A caller whose store was refused takes its entry back, as the
`unique_ptr` in `cache.cc` does.

The variable `phase` follows `collect()`: while *building* only `set_shared` and
`add_shared` are called; once the table is *current* clients use it, and shared stores
of operations that began before the swap may still come; after the second
`gc_flush()` (*exclusive*) none is left and `exclusive()` is called once per old key.
`flushed` has that guarantee as its guard; `GcFlush` is where it comes from.
`OldValue` is what the old table holds, with Nil for a key whose value was removed.
With `OldKeys = {}` the table is the first one.

### Gc

`pending[c]` is the list of CPU `c` from oldest to newest, so the head of the linked
list is the last element. `observe` loads a head, `mark` sets the bit in it: two
steps, between which its owner may free or delete. `service` walks the own list one
node per step, collecting bits, and cuts it where the registered CPUs are covered.
`refs[c]` is what a thread has looked up since its last checkpoint: `gc_checkpoint`
is called with no reference held (`gc.h` 40-42), so it empties `refs`. `lookup` can
only find published objects, as a table that releases a value has taken it out first
(`NoDanglingValue` of `Table`). `Recycle` lets `alloc` hand out the address of a
deleted object. `life` follows `gc_exit()`: a checkpoint, `cpu_exit()`, another one.

### GcFlush

One thread flushes, as in the program: the service thread, or loadtest's collector,
which leaves with `gc_exit()` like the others (`loadtest.cc` 27) when it is not flushing.
`seen` and `flushes` are the waiter; `before` is a history variable, the threads that
were in an operation when `gc_flush()` was called and still are in that operation.
The mutex is implicit: it is held while the flusher is at `wait`, and every other use
of it is one step. The mask is read outside of it. `woken` is the condition variable;
it may wake up spuriously (`spurious`), but nothing relies on that. `checkpoint()` looks
for a waiter without the mutex and `force_checkpoint()` loads the pointer again: between
the two the flush may be over, and a waiter lives on the stack of its flush (`WaiterLive`).

### History

`newer[v]` is a flagged pointer. `Bring` is a caller that found the entry in the
table and allocated a version, `Ask` one without. `Follow` is the recursive call on
`expected.get_ptr()`. `flagged_ptr` compares pointer and flag together, so after a
delete the test `!= nullptr` succeeds on a null pointer: `Follow` then sets `crashed`
and the process stops. `compare_exchange_weak` fails only on a different value, as it
does on x86-64, the platform the README names.

### Cache

The composition. A table is its keys (`used`), its size and the value of each key (`val`),
and an operation on it is one step, because `Table` implements `AtomicMap`; the versions of
an entry are one sequence (`hist`), because `History` implements `AtomicVersion`, with the
crash on a deleted chain kept; `gc_flush()` ends when the operations it found running are
over (`waiting`), which is `FlushGrace`. A client loads `_entries` when it begins (`tab`) and
`_building` in a step of its own (`bld`), then writes to one table (`plain`) or takes the
path with two: `add_entry`, `found_entry` or `table_full` for set and add, `find_entry` for
replace and del, then `share` or `version`. `phase` is the place of the collector; it visits
the buckets in any order, and what decides on an entry (times, `flush_all`, the limit) is a
free choice. A walk may refuse a key while there is room, as in `Table`.

History variables: `alone` (no other write of the key overlapped this one), `left` (keys the
rebuild leaves behind, because their entry was judged dead or the new table refused them),
`stray` (an operation with one table wrote where a rebuild had been: the window of
`is_building()`). `OwnedOnce`, `TakesEffect` and `SwapKeeps` hold as long as nothing strayed,
and the last two for keys not left behind: each exception is a defect or a loss described
below, and is exactly as wide as the code makes it. `append()`, `prepend()`, `incr()`,
`decr()`, `cas()` and `touch()` are lookups here; what they do to the value is `Entry`.

### Entry

`next` and `text` are the chunks of memory, `where` says what has become of each. Text is a
sequence of digits, white space and letters; `mem_atoi` is the automaton of the code,
`AtomicValue` defines a number by the shape of the whole text and the value of its digits, so
that the refinement also checks the parser, the wrap-around and the floor of decr at 0. A walk
from head to tail is one step (links are only added). The two loads of `cas()` are arguments
of one call and come in either order. `token` is what the client of a cas has read, standing
for its hash.

Freed chunks are handed out again at once. `stale` is a history variable, the threads for
which something they have loaded was freed since: what they read there is anything, or the
fault `freed`, and a 128-bit compare-and-swap that succeeds for such a thread is the fault
`recycled`. A walk over a missing link is the fault `null`. The model stops at a fault; the
properties say what holds until then. A rope that a client brings is one chunk, as
`dispatch_write` makes it. Flags, `exptime` and the time stamps are left out.

### Session

`state_` is the state of the code; an action of `Loop` is one iteration of `loop()`
with the handler it calls, enabled when no operation is pending (`io = "none"`). The
callbacks are `cmd_arrives` (`cmd_callback` for each partial read), `data_arrives`,
`write_done`, `io_error` and `end_of_file`. Input is a sequence of units (text of a
line, end of line, bytes of a block, its CRLF), output a sequence of items (a line, a
chunk of a value, a CRLF) tagged with their request, so that a property can say which
request an answer belongs to. Arguments are words; `Pattern` says which ones a command
consumes, `Malformed` joins all its ways to `client_error`. The buffers have sizes in
units: a line and a CRLF are one unit, a chunk has its size. Two lines have a size of their
own, as the client chooses their length: the VALUE line of a `long_key` (`LongLine`), and
the error for an unknown command, which repeats it (`EchoSize`: its text and the words
around it). Where a line is staged that does not fit, `buffer_error` leaves `loop()` and
the process ends (`crashed`). `noreply_` starts
arbitrary because the constructor does not set it. `bytes` of a store is the length of
the block that the client really sends. `fate` is the memory of the value that
`odata_` refers to: another session may displace it, the timer of the thread may
checkpoint whenever an operation is pending, and then it is freed.

Left out: a number that `strtoul` finds beyond the end of its line; the branch of `dispatch_write` for a command
that is no store, which cannot be reached. A value that is not a number makes
`entry::incr` throw past `loop()`: the model sets `crashed` and stops.

## Runs

| run | instance | shows |
|---|---|---|
| `table_rebuild` | 2 threads, 2 keys, 2 buckets, 3 entries, an old table with one value and one deleted key | all invariants and linearizability through a whole rebuild |
| `gc_safety` | 2 CPUs, 3 objects, recycling, leaving | no use after free, grace invariant |
| `gc_live` | 2 CPUs, 3 objects, no recycling, fair | what is freed is deleted |
| `flush` | flusher and 2 threads, fair | grace period of the flush, no lost wake-up, no waiter touched after its flush, the flush returns |
| `history_chain` | 3 threads, 5 versions | chain invariant, nothing unlinked, linearizability |
| `cache_rebuild` | 2 threads, 2 keys, 3 entries, one rebuild of a table of 2 buckets; every operation on a key with an entry, set and add of one without | both flushes, ownership, acknowledged writes, the swap |
| `cache_freed` | the same | **violation**: the table in use refers to an entry that was released |
| `cache_null` | the same | **violation**: null pointers during a rebuild |
| `entry_value` | 2 threads, 3 chunks, a number and a text that is none, numbers below 20 with incr and decr by 10 | nothing lost, nothing in use freed, atomic writers |
| `session_commands` | all commands, an unknown one, a long one and a long key, 2 pipelined, with prompt | the output buffer overflows only by lines longer than it provides for, values come out whole |
| `session_replies` | 3 pipelined of get, set, set without reply, ill-formed, unknown, too long; fair | exact blocks, one answer per request, in order; every request is answered or the session stops |
| `session_rope` | one get of a large value | **violation**: value freed with chunks to send |

Why the bounds are enough. In `Table` two buckets are the least with collisions, and
with the repeated bucket of `k2` the table can refuse a key while a bucket is free;
two threads meet in every pair of steps, and with two fresh entries beside the old one
a value can be displaced between a load and its compare-and-swap. In `Gc` three objects
give a list with a seen node between two others while one address is recycled; with
two CPUs there is an owner and an observer, each of whom is also the other. In
`GcFlush` two other threads let one leave and another arrive or operate during the same
flush. In `History` four versions beside the first let each of three writers
lose a race and one write again. In `Cache` one rebuild meets every step of two operations,
which may begin before it, in any of its phases or after it, and the two further entries let a key get
a version and another one an entry; a table of two buckets is full with two keys and may grow. In
`Entry` the first chunk and two more allow two appends, or an append and an incr, at a time,
and an address that is freed, allocated and in place again between a load and its
compare-and-swap; numbers have one or two digits, wrap around at 20 and stop at 0. In
`Session` the input buffer of 4 units is smaller than two requests, so lines and blocks meet its end in every way; the output buffer of 5
holds one small value and not a large one after it, in every order. `session_commands`
has an input buffer of 5 too, as both are equal in the code, so that a long unknown command fits
the one and the error that repeats it does not fit the other. The
proofs cover all sizes for the invariants they are about.

`CHECK_DEADLOCK FALSE` is used where the system may stop: a session ends,
in `Table`, `History`, `Cache` and `Entry` the process dies on a bad pointer, or entries, versions or chunks run out, and
in `Gc` and `GcFlush` every thread may have left. Symmetry is used for safety only.

### Fairness

`Gc`: each thread checkpoints again and again, which the
timer of `pool.cc` 23-30 and the period of `service.cc` 25-32 provide, and gets through
each checkpoint. `GcFlush`: operations end; a due timer waits its turn among the
handlers of its thread, and a thread that wants the mutex gets it although the waiter
takes it now and then, hence strong fairness of the checkpoint and its steps.
`Session`: the loop goes on, what was sent arrives and a client reads what it is sent (weak fairness of `Loop` and
`Arrival`); errors and closing are never required. Nobody is obliged to begin an operation, to register or to leave.

## What the violations are about

* `cache_freed`: a set that has loaded `_entries` before the swap (`cache.cc` 304) and
  `_building` after it was cleared (305) writes to the old table as if there were no rebuild. The
  exchange displaces the entry that both tables have and, the old table being its owner,
  releases it; the new table goes on referring to it. `cache.h` 92 says of `collect()` "Can be
  called concurrently with other operations".
* `cache_null`: `add()` does not look whether the full table gave it an entry (`cache.cc` 113).
  The same invariant fails, on longer paths, at four more places. `get_atime_cutoff`
  dereferences the values of deleted keys (257). `entry_is_live` dereferences the newest
  version of an entry deleted during the rebuild (272). `mv_set`, `mv_replace` and `mv_del`
  after a delete of the same entry follow a flagged null pointer, as the test meant for it
  (`history.h` 83, 97) cannot succeed, against "current is not nullptr" (`history.h` 99). And
  `exclusive()` of a deleted key passes null to `entry_release` (`table.h` 206), against "v may
  be nullptr" (`table.h` 199).
* `session_rope`: a value too large for the output buffer is written from the memory of
  the entry, chunk by chunk, with checkpoints in between.

More disagreements of code and comments, and losses nothing prevents, are in the models without a run of their
own; the passing runs are about what holds beside them.

* `last_observed` is compared by address (`gc.cc` 178), so a new object at the address of the
  last one observed is not marked, as the comment at `gc.cc` 173 suspects: a leak until
  something else is freed on that CPU. `FreedIsDeleted` fails with `Recycle = TRUE` and
  one CPU; `gc_live` has it FALSE. `gc_safety` and the proofs have recycling, and show that
  it never makes a deletion too early.
* The second checkpoint of `gc_exit()` (`gc.cc` 221) loads and marks heads after the thread
  has left the mask, when nothing keeps them alive. Only loadtest calls it.
  `NoUseAfterFree` is about registered threads.
* `incr_decr`, `touch` and `flush_all` return without a new state (`session.cc` 401, 429,
  440), so `loop()` dispatches them again: the first two then fail for want of a key,
  and the client gets two answers; the last succeeds for ever, without an answer.
  `session_commands` has all of them, `session_replies` leaves them out.
* `recv_data` reads the rest of a block to its start (`session.cc` 551), over the part it has
  copied; the end of the block stays uninitialized. `Framed` still holds: the right number of
  bytes leaves the stream, and no byte of a line is stored; it admits the uninitialized ones.
* The margin "enough to send the next VALUE line" (`session.cc` 292) counts on keys of
  `max_key_size` (17-18), but nothing compares a key with it: the VALUE line of a longer key after a
  staged value may not fit. The error for an unknown command repeats it (534), and both buffers have
  4096 bytes, so a command that just fits the one may not fit the other with the words around
  it; so may a block that is read as commands (see below). `notify_write()` then throws `buffer_error`,
  and as `loop()` catches `client_error` and `server_error` only (656-660), the process ends.
  Both happen in `session_commands`; `ObufFits` says that nothing else overflows the buffer.
* A write to an entry that `collect()` has just judged dead is acknowledged and lost, and so is
  one whose `set_shared` or `add_shared` the new table refused, as nobody looks at the result
  (`cache.cc` 76, 111). `left` has those keys.
* After the swap an entry whose newest version is deleted is a value like any other to the
  table (`cache.cc` 116): add is refused and replace and del succeed, though get finds nothing.
* Between the exchange and the link of an append head and tail are not connected, as the
  comment at `entry.cc` 114 says: fault `null`. A read then misses appends that were
  acknowledged behind the missing link.
* incr and decr free the old value at once (`entry.cc` 120), while readers and other incrs may
  be about to read it: fault `freed`. When its addresses come back as the value of a third
  operation, the compare-and-swap of a slow incr succeeds, and replaces a value by one
  computed from another: fault `recycled`.
* The option is spelled `noreplay` (`session.cc` 183). A client's `noreply` is an error, raised
  before the data block is read, which is then executed as a command.

## Proofs

All proofs are for arbitrary constants under the named assumptions of the modules, which
TLC evaluates for each instance. Most of them give the constants their types: sizes and bounds
are positive, functions have their domains, there are keys and texts, the flusher is a CPU,
`Nil` is no object. These say more:

* `FiniteAssumption` (`Table`): threads and buckets are finitely many, without which nothing
  could be counted.
* `OldAssumption` (`Table`) and `PresetAssumption` (`Cache`): no two keys have the same entry
  in the table that is there in the beginning.
* `SizesAssumption` (`Session`): the output buffer holds two lines of ordinary length, the
  margin of `get()` holds one and is less than the buffer, and no value is empty or has an
  empty chunk.
* `NumberAssumption` (`Entry`): the operand of incr and decr is a natural number and the modulus
  positive; 2^64 is one such modulus.

Two theorems about the session have a hypothesis besides: `FramedCorrect` assumes
`SoundStores` and `OneReplyCorrect` assumes `SoundReplies`. Each is about what the client
sends, each leaves out cases in which the code breaks the property, and each is described
with its theorem below.

* `TableProofs`. `TypeCorrect`; `WalksCorrect`: `WalkInv` is inductive; `KeysUnique`
  follows from it. `OneBucketPerKey` alone is not inductive: one has to know that a
  thread about to insert its key has passed only buckets of other keys. What a walk
  has passed stays passed since keys are never removed; two buckets with the same key
  would each be the first in the probe sequence that holds it.
* `TableOwnership`. `ThreadsCorrect`: `ThreadInv` says what each place of an operation can
  count on (the bucket found holds its key; what was displaced is of the class its flags say;
  no shared store is left once `exclusive()` begins). `OldObjectsCorrect` follows each key and
  value of the old table through the rebuild; `OldKeyOwnedOnceCorrect` follows from it.
  `HoldersCorrect`: `EntryOwnedOnce`, which says how many hold an entry, is not inductive; that
  a *holder* (a bucket, a thread, the free entries, the released ones, the old table) has no
  entry of another holder, and that every entry has one, is. The argument is the same for every
  step: it leaves all holders alone, or two of them exchange what they hold.
  `EntryOwnedOnceCorrect` and `NoDanglingValueCorrect` follow. `CountsExactCorrect`: a step
  changes the set of counted buckets, or of threads with an update under way, by one element at
  most, and the cardinalities follow from the library's facts about finite sets.
  `TableLinearizable`: the refinement. `set`, `set_shared` and `remove` take effect at their
  exchange, `add` and `replace` at the compare-and-swap that decides, a lookup at its load of
  the value, and whatever finds no bucket at the end of its walk; there `WalkInv` shows that the
  key is absent from the whole table at that moment.
* `GcProofs`. `TypeCorrect`; `GraceCorrect`: `GraceInv` is inductive;
  `NoUseAfterFreeCorrect` follows. The core is `Grace`: a registered thread that
  refers to a freed object has marked neither it nor a later one of its list, so a cut
  that every registered CPU covers takes no object away from anyone. It needs
  `AccSeen` (the bits that `pop_ready` has collected are on nodes already passed, which
  stay on the list), `MarkedObserved` and `MarkedHeadListed` (a head loaded by a
  registered CPU cannot disappear before it is marked, recycled addresses included)
  and `LiveUnseen` (an object starts without marks of registered CPUs).
* `GcFlushProofs`. `FlushInvCorrect` with `BeforeUnseen`: while a waiter
  is registered, no thread of `before` has its bit set; threads in an operation are in
  the mask, so a covered mask means that none is left. `FlushGraceCorrect` follows.
  `NoLostWakeupCorrect` is proved together with `Registered`: a flusher that waits has its
  waiter published, and whoever has set the last bit, or left the mask, without it being woken
  has not yet reached the notification. `WaiterLiveCorrect`: a waiter is registered only while
  the flusher is in `wait()`, and whoever marks it has loaded the pointer under the mutex.
* `HistoryProofs`. `TypeCorrect`; `ChainCorrect`: besides `OneTail` the invariant says
  that links come from linked versions, that no version has two predecessors, and that
  the version a thread brings is its own and unlinked. `StaysLinkedCorrect`: `newer_`
  only changes where it held no pointer. `HistoryLinearizable`: the refinement of
  `AtomicVersion`; a compare-and-exchange that succeeds is the operation, one that fails only
  moves along the chain, and `OneTail` makes the version it links to the newest one.
* `CacheProofs`. `RebuildCorrect`: `RebuildInv` is inductive, for any number of rebuilds. It
  says for each phase which tables `_entries` and `_building` are and which ones an operation
  under way may have loaded; during a flush the operations it still waits for may have the
  older pair, the others have what was stored before the flush began. `EveryoneBuildsCorrect`
  and `NobodyUsesOldCorrect`, the two comments in `collect()`, follow; neither is inductive,
  as each needs to know what the flush before it waits for. `TypeCorrect` needs `RebuildInv`
  too: what a thread has loaded is a table only because of it.
  `OwnersCorrect`: `OwnInv` is inductive. Its core, `HoldersInv`, says that an entry is free, with one thread, a version of another entry, owned by one bucket of one table, or
  released once. A shared value is not owned, so one has to know where its owner is: under
  the same key in the old table (`SharedInv`), which in turn needs that values are in tables in
  use only (`PlacesInv`), that a thread shares its own entry (`BroughtInv`), and that what a thread
  found is no longer anybody's new entry (`FoundInv`). `exclusive()` then passes each ownership
  from the old table to the new one. `OwnedOnceCorrect` follows. `CopyCorrect`: a key that the
  loop has passed has the same entry in both tables, unless it is left behind or a client is
  about to share it; `SwapKeepsCorrect` is that fact at the end of the loop. `SeenCorrect`:
  `SeenInv` is about an operation that no other write of its key overlaps; wherever it is, if the
  table it loaded was replaced the new one has the same entry, or nothing yet where it is about to
  share (`EffectInv`). `TakesEffectCorrect` is its last part. The parts before it say that
  entries which no table has had have no versions (`PristineInv`), that a found entry is the value
  of one key (`KeyInv`) and which tables a finished writer has used (`WriterInv`). All of it is
  under `~stray`, as the properties are.
* `SessionProofs`. `SessionCorrect`: `StateInv` says which operation is pending in which state (what `TypeOK` says and more) and
  which request a store came from; `TypeCorrect` needs it, as the length of a block is that of
  its request. Sums and positions take induction over numbers, which is done with `Least` (a
  nonempty set of numbers has a least one, from the library's `WFMin`): apply it to the set of
  counterexamples. `ObufFitsCorrect`: `ObufFits` is not inductive; `RoomInv` adds that a command
  which is about to reply has room for a line. incr, decr and touch are dispatched twice
  and could stage two lines, but the second time they have no arguments left; a get finds its
  room because of the margin it keeps. `SizesAssumption` is what this takes: the margin
  is at least one line and less than the buffer. No request is excluded: when a line of the length that
  a client chooses overflows the buffer, the process is gone and nothing more is staged, and
  the line is longer than the margin, or than the buffer. `FramedCorrect`: on the wire each unit determines the next
  (`After`), so what is left of the stream is a `Chain` known from its first unit, and
  `StreamInv` says that this is the unit that the session's state says (`Expected`): the block of the store
  being executed, the byte after those that have come, the CRLF after a block, or the first of the
  next line. The theorem assumes `SoundStores`, that store lines parse: the block of a line that is
  rejected is executed as commands (see above), so without it `Framed` is false. The requests of
  `session_replies` satisfy it. `ValuesWholeCorrect`: of what has been written alone nothing
  inductive can be said, as a value may be half sent. `OutputInv` is about what has been written
  followed by all that is `Pending`: the staged items, those given to a write, and the
  chunks of the value being sent that are still owed. That sequence has whole values only
  (`Closed`); staging adds a line or a value at its end, `send_data` and a completed write only
  move items along it, and a failed write leaves a beginning of it (`Whole`). It needs
  `QuietInv`: a get wants its replies, so no VALUE line is dropped while its chunks are sent.
  `OneReplyCorrect` is about the same sequence: what is written and `Pending` `Answers` every
  request up to the current one exactly once, the current one not yet while it is `Open`
  (`AnswerInv`), and what is written is a beginning of it and so in order. It needs that the
  session is at the request it thinks it is (`NextLine`, from `StreamInv`) and that `noreply_`
  agrees with what the request asks for (`ParseWanted`). It assumes `SoundReplies`: `SoundStores`,
  no incr, decr, touch or flush_all, which are dispatched twice, and `noreplay` only where
  `parse_noreply` looks for it; again what the requests of `session_replies` satisfy.
* `EntryProofs`. `EntryCorrect`: `EntryInv` is inductive. `Links` says that the linked chunks are a
  sequence from `head` to `tail` in which each is linked to the next, or an `append()` is about
  to do so; `Walk` along real links alone would fall apart between an exchange and its link, and
  with it `NothingLost`. `Ranked` gives every chunk, private and replaced ones included, a rank
  that links decrease, so that there are no cycles and `Walk`, `mem_atoi` and `FlattenSeq`, which
  are recursive functions, are what they should be: the proofs take the least counterexample.
  `Owns` is what `incr()` and `decr()` have to free after their swap: chunks that nobody else owns
  and that the walk from the old head finds. It follows from `SwapInv`: what was read was
  connected, and as long as head and tail are the ones loaded nobody is about to link to it. `TypeCorrect`, `NothingLostCorrect`,
  `FreesItsOwnCorrect` and `CasFreshCorrect` follow.
  `WritesAtomicCorrect`: the refinement. The abstract value is what the sequence of `Links` holds,
  the chunks whose link is yet to be made included (`ValueIs`), so `append()` takes effect at its
  exchange, `prepend()` at the swap of head, the others at their 128-bit swap, and no other step but
  `~entry()` changes it (`ChainStep`). That `incr()` and `decr()` leave a number computed from the
  value they replace is `TextInv`, inductive along with `EntryInv`: as long as head and tail are the
  ones loaded, what was computed is computed from the present chain. `AtoiNumber` says that
  `mem_atoi()`, character by character and modulo `Modulus`, agrees with `Number`, which takes the
  remainder once; `Knows` relates the two after each character. `NumberAssumption` only asks for
  a natural operand and a positive modulus, so the theorem covers the code's 2^64.

Only model-checked: liveness (`FreedIsDeleted`, `FlushReturns`, `EveryRequestAnswered`), which is
out of reach of the proof system together with ENABLED. Every other property of a passing run
is stated by a theorem.

## Not modelled

* `cache.cc`: the statistics, `bytes_` and times. That the cache is over its limit, that an
  entry is old, expired or flushed, are free choices of `collect()`; so nothing is said about
  which entries are evicted, and `bytes_`, which incr, decr and cas do not update, is not
  compared with what is stored.
* `entry.cc`: flags, `exptime`, `mtime`, `atime`, and so `touch()`. cas stores the flags after its
  swap (`entry.cc` 168), so a get in between returns them with the wrong value.
* The composition of `Cache` with `Entry`: `append()` takes the entry of the table and not its
  newest version (`cache.cc` 181), which neither of them sees alone.
* That table operations return: the walk has `size()` probes at most (`TypeOK` bounds them) and
  only `replace()` has a loop without a bound.
* Several concurrent `gc_flush()` calls: no caller makes them (the comment at `gc.cc` 80
  knows that they would not work). `gc_finish()`, called by loadtest when every thread
  is gone. `cpu_exit()` without `gc_exit()` at the end of pool and service threads:
  the server never stops its pool.
* Weaker memory orders: all accesses that matter are sequentially consistent in the
  source, except the relaxed load of `flushes`, which x86-64 executes as a plain load.
* Bytes: keys, values, ropes, formatting, logging; the hash function; sockets; the
  stub of the binary protocol.

## Plan

1. Done: `Table`, `Gc`, `GcFlush`, `History`, their invariants, refinements and proofs;
   `Session`; `Cache` with the proofs of its protocol, of ownership and of what clients see;
   `Entry`.
2. Done: the proofs of `Entry`, its refinement included. No safety property is without one.
