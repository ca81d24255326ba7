-------------------------------- MODULE Cache --------------------------------
(***************************************************************************)
(* The cache (src/src/cache.cc): operations that choose, by two loads,     *)
(* between one table and two, while the service thread rebuilds the table  *)
(* in collect().                                                           *)
(*                                                                         *)
(* The parts it is built from are taken for what they promise: a table     *)
(* operation is one step (Table implements AtomicMap), so is an operation  *)
(* on the versions of an entry (History implements AtomicVersion), and     *)
(* gc_flush() returns when the operations it found running are over        *)
(* (FlushGrace of GcFlush).  What remains is one step per load of          *)
(* _entries and _building and per call of a table or of an entry.          *)
(***************************************************************************)
EXTENDS Integers, FiniteSets, SequencesExt

CONSTANTS Threads,   \* the threads that serve clients
          Keys,
          Entries,   \* addresses of entries, and so of their versions
          Nil,       \* nullptr
          Preset,    \* the entry of each key when we start to look, or Nil
          Requests,  \* what clients ask for: pairs of an operation and a key
          InitialLg2size,  \* initial_lg2size
          MaxTables  \* bound: the tables ever made

Storers == {"set", "add", "replace"}       \* bring an entry
Writers == Storers \cup {"del"}            \* call is_building()
Ops == Writers \cup {"get"}                \* get() loads _entries only

ASSUME NilAssumption == Nil \notin Entries /\ Nil \notin Keys
ASSUME KeysAssumption == Keys # {}
ASSUME TablesAssumption == MaxTables \in Nat \ {0}
ASSUME PresetAssumption ==
    /\ Preset \in [Keys -> Entries \cup {Nil}]
    /\ \A k, l \in Keys : Preset[k] = Preset[l] => k = l \/ Preset[k] = Nil
ASSUME RequestsAssumption == Requests \subseteq Ops \X Keys
ASSUME SizeAssumption == InitialLg2size \in Nat

VARIABLES
    entries_, building_,      \* _entries and _building: numbers of tables, 0 is nullptr
    lg2size, used, val,       \* of each table: its size, its keys, their value_refs
    hist,                     \* of each entry: its versions and the mark of a deletion
    fresh,                    \* entries that can still be allocated
    released,                 \* how often entry_release() was called for each entry
    gone,                     \* tables that were deleted
    pc, op, key, mine,        \* of each thread: its place, operation, key and new entry
    tab, bld,                 \*   its local variables entries and building,
    cur, res,                 \*   the entry it found, its result
    alone,                    \*   whether no other operation on its key overlapped
    phase, old, waiting,      \* the collector: its place, table, who a flush waits for,
    todo, item,               \*   the buckets to visit, the key in hand
    left,                     \* keys this rebuild leaves behind: dead, or refused
    stray,                    \* an operation wrote where a rebuild had been already
    crashed                   \* a null pointer was dereferenced

rootVars == <<entries_, building_>>
tableVars == <<lg2size, used, val>>
heapVars == <<hist, fresh, released>>
argVars == <<op, key, mine>>
localVars == <<tab, bld, cur, res>>
clientVars == <<pc, argVars, localVars, alone>>
collectVars == <<phase, old, waiting, todo, item, left>>
vars == <<rootVars, tableVars, heapVars, gone, clientVars, collectVars, stray, crashed>>

Tables == 1..MaxTables
NoTable == 0

Ref(e, s) == [ptr |-> e, shared |-> s]
NullRef == Ref(Nil, FALSE)

AnyKey == CHOOSE k \in Keys : TRUE

Init ==
    /\ entries_ = 1 /\ building_ = NoTable
    /\ lg2size = [n \in Tables |-> InitialLg2size]
    /\ used = [n \in Tables |-> IF n = 1 THEN {k \in Keys : Preset[k] # Nil} ELSE {}]
    /\ val = [n \in Tables |-> [k \in Keys |-> IF n = 1 THEN Ref(Preset[k], FALSE) ELSE NullRef]]
    /\ hist = [e \in Entries |-> [vs |-> <<e>>, del |-> FALSE]]
    /\ fresh = Entries \ {Preset[k] : k \in Keys}
    /\ released = [e \in Entries |-> 0]
    /\ gone = {}
    /\ pc = [t \in Threads |-> "idle"]
    /\ op = [t \in Threads |-> "get"]
    /\ key = [t \in Threads |-> AnyKey]
    /\ mine = [t \in Threads |-> Nil]
    /\ tab = [t \in Threads |-> NoTable]
    /\ bld = [t \in Threads |-> NoTable]
    /\ cur = [t \in Threads |-> Nil]
    /\ res = [t \in Threads |-> "none"]
    /\ alone = [t \in Threads |-> TRUE]
    /\ phase = "idle" /\ old = NoTable /\ waiting = {} /\ todo = {} /\ item = Nil
    /\ left = {} /\ stray = FALSE /\ crashed = FALSE

-----------------------------------------------------------------------------
(* Tables and entries.                                                     *)

(***************************************************************************)
(* allocate_bucket() finds the bucket of k in table n, or a free one, or,  *)
(* having walked over the buckets of other keys only, none.  A walk may    *)
(* miss a free bucket, as it can visit another one twice.                  *)
(***************************************************************************)
Accepts(n, k) == k \in used[n] \/ Cardinality(used[n]) < 2^lg2size[n]
Refuses(n, k) == k \notin used[n] /\ used[n] # {}

(* What changed_value() releases: a displaced value, unless it is shared. *)
Displaced(r) == IF r.ptr # Nil /\ ~r.shared THEN {r.ptr} ELSE {}

entry_release(S) == released' = [e \in Entries |-> IF e \in S THEN released[e] + 1 ELSE released[e]]

(* The value of k in table n becomes r. *)
Put(n, k, r) ==
    /\ used' = [used EXCEPT ![n] = @ \cup {k}]
    /\ val' = [val EXCEPT ![n] = [@ EXCEPT ![k] = r]]
    /\ entry_release(Displaced(val[n][k]))
    /\ UNCHANGED lg2size

newest(e) == IF hist[e].del THEN Nil ELSE Last(hist[e].vs)

(* A new last version, which also undoes a deletion. *)
NewVersion(e, v) == hist' = [hist EXCEPT ![e] = [vs |-> Append(@.vs, v), del |-> FALSE]]

(* What a get of k would return now. *)
Lookup(k) == IF val[entries_][k].ptr = Nil THEN Nil ELSE newest(val[entries_][k].ptr)

-----------------------------------------------------------------------------
(* The operations of clients.                                              *)

At(t, p) == ~crashed /\ pc[t] = p

Goto(t, p) == pc' = [pc EXCEPT ![t] = p]

(* A writer has its result and is done with the tables. *)
Finish(t, r) ==
    /\ Goto(t, "return")
    /\ res' = [res EXCEPT ![t] = r]
    /\ tab' = [tab EXCEPT ![t] = NoTable]
    /\ cur' = [cur EXCEPT ![t] = Nil]

(* The operation is over, and the thread will pass a checkpoint. *)
Leave(t) ==
    /\ Goto(t, "idle")
    /\ op' = [op EXCEPT ![t] = "get"]
    /\ key' = [key EXCEPT ![t] = AnyKey]
    /\ mine' = [mine EXCEPT ![t] = Nil]
    /\ tab' = [tab EXCEPT ![t] = NoTable]
    /\ bld' = [bld EXCEPT ![t] = NoTable]
    /\ cur' = [cur EXCEPT ![t] = Nil]
    /\ res' = [res EXCEPT ![t] = "none"]
    /\ alone' = [alone EXCEPT ![t] = TRUE]
    /\ waiting' = waiting \ {t}

Crash == crashed' = TRUE /\ UNCHANGED <<tableVars, heapVars, gone, clientVars, collectVars, stray>>

OnKey(k) == {u \in Threads : pc[u] # "idle" /\ op[u] \in Writers /\ key[u] = k}

(***************************************************************************)
(* An operation begins with the load of _entries, the first of the two in  *)
(* is_building(); get() makes only this one.                               *)
(***************************************************************************)
Begin(t, o, k, e) ==
    /\ At(t, "idle")
    /\ op' = [op EXCEPT ![t] = o]
    /\ key' = [key EXCEPT ![t] = k]
    /\ mine' = [mine EXCEPT ![t] = e]
    /\ tab' = [tab EXCEPT ![t] = entries_]
    /\ Goto(t, IF o \in Writers THEN "is_building" ELSE "find")
    /\ alone' = IF o \in Writers
                THEN [u \in Threads |->
                        IF u = t THEN OnKey(k) = {} ELSE alone[u] /\ u \notin OnKey(k)]
                ELSE alone
    /\ UNCHANGED <<rootVars, tableVars, hist, released, gone, bld, cur, res, collectVars,
                   stray, crashed>>

store(t) ==
    \E o \in Storers, k \in Keys, e \in fresh :
        /\ <<o, k>> \in Requests
        /\ Begin(t, o, k, e)
        /\ fresh' = fresh \ {e}

request(t) ==
    /\ \E o \in {"del", "get"}, k \in Keys : <<o, k>> \in Requests /\ Begin(t, o, k, Nil)
    /\ UNCHANGED fresh

(* The second load of is_building(). *)
load_building(t) ==
    /\ At(t, "is_building")
    /\ bld' = [bld EXCEPT ![t] = building_]
    /\ Goto(t, "act")
    /\ UNCHANGED <<rootVars, tableVars, heapVars, gone, argVars, tab, cur, res, alone,
                   collectVars, stray, crashed>>

is_building(t) == bld[t] # NoTable /\ bld[t] # tab[t]

(***************************************************************************)
(* The thread writes to one table although a rebuild has been there: the   *)
(* table has been replaced, or the entry of its key is, or is about to be, *)
(* shared with the table that replaces it.                                 *)
(***************************************************************************)
Strays(t) ==
    \/ tab[t] # entries_
    \/ /\ building_ \notin {NoTable, tab[t]}
       /\ \/ val[building_][key[t]].ptr # Nil
          \/ \E u \in Threads : pc[u] = "share" /\ key[u] = key[t]

Value(t) == val[tab[t]][key[t]]

(* set(), add(), replace() and del() with one table. *)
plain(t) ==
    /\ At(t, "act") /\ ~is_building(t)
    /\ stray' = (stray \/ Strays(t))
    /\ \/ /\ \/ op[t] = "set" /\ Accepts(tab[t], key[t])
             \/ op[t] = "add" /\ Accepts(tab[t], key[t]) /\ Value(t).ptr = Nil
             \/ op[t] = "replace" /\ Value(t).ptr # Nil
          /\ Put(tab[t], key[t], Ref(mine[t], FALSE))
          /\ Finish(t, "stored")
       \/ /\ op[t] = "del" /\ Value(t).ptr # Nil
          /\ Put(tab[t], key[t], NullRef)
          /\ Finish(t, "deleted")
       \/ /\ \/ op[t] \in {"set", "add"} /\ Refuses(tab[t], key[t])
             \/ op[t] = "add" /\ Value(t).ptr # Nil
             \/ op[t] \in {"replace", "del"} /\ Value(t).ptr = Nil
          /\ Finish(t, "failed")
          /\ UNCHANGED <<tableVars, released>>
    /\ UNCHANGED <<rootVars, hist, fresh, gone, argVars, bld, alone, collectVars, crashed>>

(* Mutant of add_entry: the caller thinks the new table will be told by the collector. *)
add_entry_unshared(t) ==
    /\ At(t, "act") /\ is_building(t) /\ op[t] \in {"set", "add"}
    /\ Accepts(tab[t], key[t]) /\ Value(t).ptr = Nil
    /\ Put(tab[t], key[t], Ref(mine[t], FALSE))
    /\ Finish(t, "stored")
    /\ UNCHANGED <<rootVars, hist, fresh, gone, argVars, bld, alone, collectVars, stray, crashed>>

(***************************************************************************)
(* set() and add() with two tables: add to the old one.  A key that has no *)
(* entry gets one, to be shared; else the entry found gets a version.      *)
(***************************************************************************)
add_entry(t) ==
    /\ At(t, "act") /\ is_building(t) /\ op[t] \in {"set", "add"}
    /\ Accepts(tab[t], key[t]) /\ Value(t).ptr = Nil
    /\ Put(tab[t], key[t], Ref(mine[t], FALSE))
    /\ cur' = [cur EXCEPT ![t] = mine[t]]
    /\ Goto(t, "share")
    /\ UNCHANGED <<rootVars, hist, fresh, gone, argVars, tab, bld, res, alone,
                   collectVars, stray, crashed>>

found_entry(t) ==
    /\ At(t, "act") /\ is_building(t) /\ op[t] \in {"set", "add"}
    /\ Value(t).ptr # Nil
    /\ cur' = [cur EXCEPT ![t] = Value(t).ptr]
    /\ Goto(t, "version")
    /\ UNCHANGED <<rootVars, tableVars, heapVars, gone, argVars, tab, bld, res, alone,
                   collectVars, stray, crashed>>

(* A full table has no current entry either: set() knows, add() does not. *)
table_full(t) ==
    /\ At(t, "act") /\ is_building(t) /\ op[t] \in {"set", "add"}
    /\ Refuses(tab[t], key[t])
    /\ \/ /\ op[t] = "set"
          /\ Finish(t, "failed")
          /\ UNCHANGED <<tableVars, heapVars, gone, argVars, bld, alone, collectVars, stray,
                         crashed>>
       \/ op[t] = "add" /\ Crash
    /\ UNCHANGED rootVars

(* replace() and del() with two tables look the key up first. *)
find_entry(t) ==
    /\ At(t, "act") /\ is_building(t) /\ op[t] \in {"replace", "del"}
    /\ \/ /\ Value(t).ptr = Nil
          /\ Finish(t, "failed")
       \/ /\ Value(t).ptr # Nil
          /\ cur' = [cur EXCEPT ![t] = Value(t).ptr]
          /\ Goto(t, "version")
          /\ UNCHANGED <<tab, res>>
    /\ UNCHANGED <<rootVars, tableVars, heapVars, gone, argVars, bld, alone, collectVars, stray,
                   crashed>>

(* get() looks the key up in the table it loaded. *)
find(t) ==
    /\ At(t, "find")
    /\ \/ /\ Value(t).ptr = Nil
          /\ Leave(t)
       \/ /\ Value(t).ptr # Nil
          /\ cur' = [cur EXCEPT ![t] = Value(t).ptr]
          /\ Goto(t, "entry")
          /\ UNCHANGED <<argVars, tab, bld, res, alone, waiting>>
    /\ UNCHANGED <<rootVars, tableVars, heapVars, gone, phase, old, todo, item, left, stray,
                   crashed>>

(* Mutant of share: the new table's value is its own, not shared. *)
share_owned(t) ==
    /\ At(t, "share")
    /\ \/ /\ Accepts(bld[t], key[t])
          /\ op[t] = "set" \/ val[bld[t]][key[t]].ptr = Nil
          /\ Put(bld[t], key[t], Ref(cur[t], FALSE))
          /\ UNCHANGED left
       \/ /\ op[t] = "add" /\ val[bld[t]][key[t]].ptr # Nil
          /\ UNCHANGED <<tableVars, released, left>>
       \/ /\ Refuses(bld[t], key[t])
          /\ left' = left \cup {key[t]}
          /\ UNCHANGED <<tableVars, released>>
    /\ Finish(t, "stored")
    /\ UNCHANGED <<rootVars, hist, fresh, gone, argVars, bld, alone, phase, old, waiting, todo,
                   item, stray, crashed>>

(***************************************************************************)
(* set_shared() or add_shared() of the entry just added to the old table.  *)
(* Neither result is looked at, so a new table without room goes           *)
(* unnoticed.                                                              *)
(***************************************************************************)
share(t) ==
    /\ At(t, "share")
    /\ \/ /\ Accepts(bld[t], key[t])
          /\ op[t] = "set" \/ val[bld[t]][key[t]].ptr = Nil
          /\ Put(bld[t], key[t], Ref(cur[t], TRUE))
          /\ UNCHANGED left
       \/ /\ op[t] = "add" /\ val[bld[t]][key[t]].ptr # Nil
          /\ UNCHANGED <<tableVars, released, left>>
       \/ /\ Refuses(bld[t], key[t])
          /\ left' = left \cup {key[t]}
          /\ UNCHANGED <<tableVars, released>>
    /\ Finish(t, "stored")
    /\ UNCHANGED <<rootVars, hist, fresh, gone, argVars, bld, alone, phase, old, waiting, todo,
                   item, stray, crashed>>

(***************************************************************************)
(* mv_set(), mv_add(), mv_replace() and mv_del() of the entry found.  All  *)
(* but mv_add() run into the null pointer when it has been deleted.        *)
(***************************************************************************)
version(t) ==
    /\ At(t, "version")
    /\ \/ /\ \/ op[t] \in {"set", "replace"} /\ ~hist[cur[t]].del
             \/ op[t] = "add" /\ hist[cur[t]].del
          /\ NewVersion(cur[t], mine[t])
          /\ Finish(t, "stored")
          /\ UNCHANGED <<crashed, argVars, bld, alone, fresh, released>>
       \/ /\ op[t] = "add" /\ ~hist[cur[t]].del
          /\ Finish(t, "failed")
          /\ UNCHANGED <<crashed, argVars, bld, alone, heapVars>>
       \/ /\ op[t] = "del" /\ ~hist[cur[t]].del
          /\ hist' = [hist EXCEPT ![cur[t]] = [@ EXCEPT !.del = TRUE]]
          /\ Finish(t, "deleted")
          /\ UNCHANGED <<crashed, argVars, bld, alone, fresh, released>>
       \/ /\ op[t] # "add" /\ hist[cur[t]].del
          /\ crashed' = TRUE
          /\ UNCHANGED <<clientVars, heapVars>>
    /\ UNCHANGED <<rootVars, tableVars, gone, collectVars, stray>>

(***************************************************************************)
(* get() walks to the newest version.  prepend(), incr(), decr(), cas()    *)
(* and touch() call get() first, and append() takes the entry it finds     *)
(* without the walk; what they do with it is the subject of Entry.         *)
(***************************************************************************)
get(t) ==
    /\ At(t, "entry")
    /\ Leave(t)
    /\ UNCHANGED <<rootVars, tableVars, heapVars, gone, phase, old, todo, item, left, stray,
                   crashed>>

(* Mutant of return: whatever the operation has is deleted. *)
return_any(t) ==
    /\ At(t, "return")
    /\ Leave(t)
    /\ fresh' = IF res[t] = "failed" THEN fresh \cup {mine[t]} ELSE fresh
    /\ UNCHANGED <<rootVars, tableVars, hist, released, gone, phase, old, todo, item, left, stray,
                   crashed>>

(* The writer returns; an entry that was not stored is deleted. *)
return(t) ==
    /\ At(t, "return")
    /\ Leave(t)
    /\ fresh' = IF res[t] = "failed" THEN fresh \cup ({mine[t]} \ {Nil}) ELSE fresh
    /\ UNCHANGED <<rootVars, tableVars, hist, released, gone, phase, old, todo, item, left, stray,
                   crashed>>

-----------------------------------------------------------------------------
(* collect(), on the service thread.                                       *)

Collector(p) == ~crashed /\ phase = p

Busy == {t \in Threads : pc[t] # "idle"}

(* new_table() of the same size, or twice that if three quarters are used. *)
Grown(n) ==
    IF 4 * Cardinality(used[n]) >= 3 * 2^lg2size[n] THEN lg2size[n] + 1 ELSE lg2size[n]

(* collect() makes a table, lets everyone know and calls gc_flush(). *)
collect ==
    /\ Collector("idle")
    /\ entries_ < MaxTables
    /\ old' = entries_
    /\ lg2size' = [lg2size EXCEPT ![entries_ + 1] = Grown(entries_)]
    /\ building_' = entries_ + 1
    /\ waiting' = Busy
    /\ phase' = "flush_building"
    /\ UNCHANGED <<entries_, used, val, heapVars, gone, clientVars, todo, item, left, stray,
                   crashed>>

(* Mutant of flush_building: the flush does not wait. *)
flush_building_now ==
    /\ Collector("flush_building")
    /\ phase' = "sample"
    /\ UNCHANGED <<rootVars, tableVars, heapVars, gone, clientVars, old, waiting, todo, item,
                   left, stray, crashed>>

flush_building ==
    /\ Collector("flush_building")
    /\ waiting = {}
    /\ phase' = "sample"
    /\ UNCHANGED <<rootVars, tableVars, heapVars, gone, clientVars, old, waiting, todo, item,
                   left, stray, crashed>>

(***************************************************************************)
(* With the memory limit exceeded, which takes a value at least, the       *)
(* cutoff is computed from the entries of a sample of the buckets,         *)
(* including those whose value is null.                                    *)
(***************************************************************************)
get_atime_cutoff ==
    /\ Collector("sample")
    /\ \/ /\ phase' = "copy"
          /\ todo' = Keys
          /\ UNCHANGED <<tableVars, heapVars, gone, clientVars, old, waiting, item, left, stray,
                         crashed>>
       \/ /\ \E k \in used[old] : val[old][k].ptr # Nil
          /\ \E k \in used[old] : val[old][k].ptr = Nil
          /\ Crash
    /\ UNCHANGED rootVars

(***************************************************************************)
(* The loop visits the buckets of the old table in an order that has       *)
(* nothing to do with the keys; a key inserted meanwhile may be before or  *)
(* after the place it has reached.  entry_is_live() dereferences the newest*)
(* version; its verdict depends on times that are not modelled (when it    *)
(* was written, read and expires, flush_all, the cutoff) and may be either.*)
(***************************************************************************)
entry_is_live(k) ==
    LET e == val[old][k].ptr
    IN /\ Collector("copy") /\ k \in todo
       /\ todo' = todo \ {k}
       /\ \/ /\ k \notin used[old] \/ e = Nil
             /\ UNCHANGED <<phase, item, left, crashed>>
          \/ /\ e # Nil
             /\ hist[e].del
             /\ crashed' = TRUE
             /\ UNCHANGED <<phase, item, left>>
          \/ /\ e # Nil
             /\ ~hist[e].del
             /\ left' = left \cup {k}
             /\ UNCHANGED <<phase, item, crashed>>
          \/ /\ e # Nil
             /\ ~hist[e].del
             /\ phase' = "add_shared"
             /\ item' = k
             /\ UNCHANGED <<left, crashed>>
       /\ UNCHANGED <<rootVars, tableVars, heapVars, gone, clientVars, old, waiting, stray>>

add_shared ==
    /\ Collector("add_shared")
    /\ \/ /\ Accepts(building_, item) /\ val[building_][item].ptr = Nil
          /\ Put(building_, item, Ref(val[old][item].ptr, TRUE))
          /\ UNCHANGED left
       \/ /\ val[building_][item].ptr # Nil
          /\ UNCHANGED <<tableVars, released, left>>
       \/ /\ Refuses(building_, item)
          /\ left' = left \cup {item}
          /\ UNCHANGED <<tableVars, released>>
    /\ phase' = "copy"
    /\ item' = Nil
    /\ UNCHANGED <<rootVars, hist, fresh, gone, clientVars, old, waiting, todo, stray,
                   crashed>>

(* Mutant of swap: before the loop is through. *)
swap_early ==
    /\ Collector("copy")
    /\ entries_' = building_
    /\ phase' = "swapped"
    /\ UNCHANGED <<building_, tableVars, heapVars, gone, clientVars, old, waiting, todo, item,
                   left, stray, crashed>>

(* _entries = building *)
swap ==
    /\ Collector("copy") /\ todo = {}
    /\ entries_' = building_
    /\ phase' = "swapped"
    /\ UNCHANGED <<building_, tableVars, heapVars, gone, clientVars, old, waiting, todo, item,
                   left, stray, crashed>>

(* _building = nullptr, and the second gc_flush() begins. *)
built ==
    /\ Collector("swapped")
    /\ building_' = NoTable
    /\ waiting' = Busy
    /\ phase' = "flush_old"
    /\ UNCHANGED <<entries_, tableVars, heapVars, gone, clientVars, old, todo, item, left, stray,
                   crashed>>

(* Mutant of flush_old: the flush does not wait. *)
flush_old_now ==
    /\ Collector("flush_old")
    /\ phase' = "settle"
    /\ todo' = used[old]
    /\ UNCHANGED <<rootVars, tableVars, heapVars, gone, clientVars, old, waiting, item, left,
                   stray, crashed>>

flush_old ==
    /\ Collector("flush_old")
    /\ waiting = {}
    /\ phase' = "settle"
    /\ todo' = used[old]
    /\ UNCHANGED <<rootVars, tableVars, heapVars, gone, clientVars, old, waiting, item, left,
                   stray, crashed>>

(***************************************************************************)
(* exclusive() for a bucket of the old table, and the reset of the bucket. *)
(* A key that is not in the new table has its value released, null or not. *)
(***************************************************************************)
exclusive(k) ==
    LET e == val[old][k].ptr
        kept == val[entries_][k] = Ref(e, TRUE)
    IN /\ Collector("settle") /\ k \in todo
       /\ \/ /\ k \notin used[entries_] /\ e = Nil
             /\ Crash
          \/ /\ k \in used[entries_] \/ e # Nil
             /\ todo' = todo \ {k}
             /\ val' = [n \in Tables |->
                          IF n = old THEN [val[n] EXCEPT ![k] = NullRef]
                          ELSE IF n = entries_ /\ e # Nil /\ kept
                          THEN [val[n] EXCEPT ![k] = Ref(e, FALSE)] ELSE val[n]]
             /\ used' = [used EXCEPT ![old] = @ \ {k}]
             /\ entry_release(IF e = Nil \/ kept THEN {} ELSE {e})
             /\ UNCHANGED <<lg2size, hist, fresh, gone, clientVars, phase, old, waiting,
                            item, left, stray, crashed>>
       /\ UNCHANGED rootVars

delete_old ==
    /\ Collector("settle") /\ todo = {}
    /\ gone' = gone \cup {old}
    /\ phase' = "idle"
    /\ old' = NoTable
    /\ left' = {}
    /\ UNCHANGED <<rootVars, tableVars, heapVars, clientVars, waiting, todo, item, stray, crashed>>

-----------------------------------------------------------------------------
Client(t) ==
    \/ store(t) \/ request(t) \/ load_building(t) \/ plain(t) \/ add_entry(t)
    \/ found_entry(t) \/ table_full(t) \/ find_entry(t) \/ share(t) \/ version(t)
    \/ return(t) \/ find(t) \/ get(t)

Collect ==
    \/ collect \/ flush_building \/ get_atime_cutoff \/ add_shared \/ swap \/ built
    \/ flush_old \/ delete_old
    \/ \E k \in Keys : entry_is_live(k) \/ exclusive(k)

Next == Collect \/ \E t \in Threads : Client(t)

Spec == Init /\ [][Next]_vars

-----------------------------------------------------------------------------
(* Properties.                                                             *)

Refs == [ptr : Entries \cup {Nil}, shared : BOOLEAN]
Results == {"none", "stored", "deleted", "failed"}

(* Every variable holds a value of its type. *)
TypeOK ==
    /\ entries_ \in Tables /\ building_ \in Tables \cup {NoTable}
    /\ lg2size \in [Tables -> Nat]
    /\ used \in [Tables -> SUBSET Keys]
    /\ val \in [Tables -> [Keys -> Refs]]
    /\ hist \in [Entries -> [vs : Seq(Entries), del : BOOLEAN]]
    /\ fresh \in SUBSET Entries
    /\ released \in [Entries -> Nat] /\ gone \in SUBSET Tables
    /\ pc \in [Threads -> {"idle", "is_building", "act", "find", "share", "version", "entry",
                           "return"}]
    /\ op \in [Threads -> Ops] /\ key \in [Threads -> Keys]
    /\ mine \in [Threads -> Entries \cup {Nil}]
    /\ tab \in [Threads -> Tables \cup {NoTable}] /\ bld \in [Threads -> Tables \cup {NoTable}]
    /\ cur \in [Threads -> Entries \cup {Nil}] /\ res \in [Threads -> Results]
    /\ alone \in [Threads -> BOOLEAN]
    /\ phase \in {"idle", "flush_building", "sample", "copy", "add_shared", "swapped",
                  "flush_old", "settle"}
    /\ old \in Tables \cup {NoTable} /\ waiting \in SUBSET Threads
    /\ todo \in SUBSET Keys /\ item \in Keys \cup {Nil}
    /\ left \in SUBSET Keys /\ stray \in BOOLEAN /\ crashed \in BOOLEAN

(***************************************************************************)
(* "everyone now should see building" (cache.cc 295): while the old table  *)
(* is copied, an operation that writes does so with both tables.           *)
(***************************************************************************)
EveryoneBuilds ==
    phase \in {"sample", "copy", "add_shared"} =>
        \A t \in Threads : pc[t] \in {"act", "share", "version"} =>
            tab[t] = old /\ bld[t] = building_ /\ is_building(t)

(***************************************************************************)
(* "everyone now should see building is nullptr, not be using old"         *)
(* (cache.cc 307): when the old table is taken apart every operation uses  *)
(* the new one alone, and nobody ever uses a deleted table.                *)
(***************************************************************************)
NobodyUsesOld ==
    \A t \in Threads : pc[t] \notin {"idle", "return"} =>
        /\ tab[t] \notin gone /\ bld[t] \notin gone
        /\ phase = "settle" => tab[t] = entries_ /\ bld[t] = NoTable

(***************************************************************************)
(* The tables in use refer to no entry that was released, no entry is      *)
(* released twice, and between two rebuilds nothing is lost: an entry that *)
(* was stored is in the table, which owns it, or was released.  Unless     *)
(* an operation strayed.                                                   *)
(***************************************************************************)
InUse == {entries_} \cup ({building_, old} \ {NoTable})
Root(e) ==
    /\ e \notin fresh
    /\ \A t \in Threads : mine[t] # e
    /\ \A r \in Entries \ {e} : ~Contains(hist[r].vs, e)

OwnedOnce ==
    ~stray =>
        /\ \A n \in InUse, k \in Keys :
               val[n][k].ptr # Nil => released[val[n][k].ptr] = 0
        /\ \A e \in Entries : released[e] <= 1
        /\ phase = "idle" /\ ~crashed =>
               \A e \in Entries : Root(e) /\ released[e] = 0 =>
                   \E k \in Keys : val[entries_][k] = Ref(e, FALSE)

(***************************************************************************)
(* An acknowledged set, add, replace or delete that no other operation on  *)
(* its key overlapped is what a get sees when it returns, wherever the     *)
(* rebuild was when it began and is now.  Unless an operation strayed, or  *)
(* the rebuild leaves the key behind.                                      *)
(***************************************************************************)
TakesEffect ==
    \A t \in Threads :
        pc[t] = "return" /\ alone[t] /\ ~stray /\ ~(bld[t] # NoTable /\ key[t] \in left) =>
            /\ res[t] = "stored" => Lookup(key[t]) = mine[t]
            /\ res[t] = "deleted" => Lookup(key[t]) = Nil

(***************************************************************************)
(* The swap of the tables is invisible: a get finds the same version of a  *)
(* key before and after, unless the rebuild leaves the key behind or an    *)
(* operation is just about to share its entry.                             *)
(***************************************************************************)
SwapKeeps ==
    [][entries_' # entries_ =>
         \A k \in Keys :
             ~stray /\ k \notin left /\ ~(\E t \in Threads : pc[t] = "share" /\ key[t] = k)
             => Lookup(k)' = Lookup(k)]_vars

(***************************************************************************)
(* "Can be called concurrently with other operations" (cache.h 92): the    *)
(* table in use refers to no entry that has been handed to the garbage     *)
(* collector.                                                              *)
(***************************************************************************)
NoFreedEntry ==
    \A k \in Keys : val[entries_][k].ptr # Nil => released[val[entries_][k].ptr] = 0

(***************************************************************************)
(* "Can be called concurrently with other operations" (cache.h 92): no     *)
(* operation, and not collect() itself, dereferences a null pointer.       *)
(***************************************************************************)
NoNullEntry == ~crashed
=============================================================================
