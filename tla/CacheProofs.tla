----------------------------- MODULE CacheProofs -----------------------------
(***************************************************************************)
(* Proofs about Cache, for any threads, keys, entries and tables.          *)
(***************************************************************************)
EXTENDS Cache, TLAPS

(***************************************************************************)
(* The protocol of collect(), an inductive invariant: which tables there   *)
(* are in each phase, and which of them an operation under way may have    *)
(* loaded.  A flush waits for the operations that began before it; the     *)
(* others have seen what was stored before it.                             *)
(***************************************************************************)
Copying == {"sample", "copy", "add_shared"}
Writing == {"act", "share", "version"}

TablesInv ==
    /\ entries_ \in Tables /\ old \in Nat /\ gone \subseteq Tables
    /\ phase \in {"idle", "flush_building", "swapped", "flush_old", "settle"} \cup Copying
    /\ phase = "idle" => building_ = NoTable /\ \A n \in gone : n < entries_
    /\ phase # "idle" => old \in Tables /\ \A n \in gone : n < old
    /\ phase \in {"flush_building"} \cup Copying =>
           entries_ = old /\ building_ = old + 1 /\ building_ \in Tables
    /\ phase \in {"swapped", "flush_old", "settle"} => entries_ = old + 1
    /\ phase = "swapped" => building_ = entries_
    /\ phase \in {"flush_old", "settle"} => building_ = NoTable
    /\ phase \in {"settle"} \cup Copying => waiting = {}

LoadedInv(t) ==
    /\ pc[t] \in {"idle", "is_building", "find", "entry", "return"} \cup Writing
    /\ pc[t] \in {"idle", "is_building", "find", "entry"} => bld[t] = NoTable
    /\ pc[t] \in {"share", "version"} => is_building(t)
    /\ pc[t] \notin {"idle", "return"} =>
           /\ phase \in {"idle", "settle"} => tab[t] = entries_ /\ bld[t] = NoTable
           /\ phase \in {"flush_building"} \cup Copying =>
                  tab[t] = entries_ /\ bld[t] \in {NoTable, building_}
           /\ phase = "flush_building" /\ t \notin waiting /\ pc[t] \in Writing =>
                  bld[t] = building_
           /\ phase \in Copying /\ pc[t] \in Writing => bld[t] = building_
           /\ phase \in {"swapped", "flush_old"} =>
                  tab[t] \in {old, entries_} /\ bld[t] \in {NoTable, entries_}
           /\ phase = "flush_old" /\ t \notin waiting =>
                  tab[t] = entries_ /\ bld[t] = NoTable

RebuildInv ==
    /\ TablesInv
    /\ pc \in [Threads -> {"idle", "is_building", "find", "entry", "return"} \cup Writing]
    /\ tab \in [Threads -> Nat] /\ bld \in [Threads -> Nat]
    /\ \A t \in Threads : LoadedInv(t)

-----------------------------------------------------------------------------
(* What a step of one client changes of this.                              *)

ClientFrame(t) ==
    /\ UNCHANGED <<rootVars, gone, phase, old>>
    /\ waiting' \in {waiting, waiting \ {t}}
    /\ \A u \in Threads \ {t} : pc'[u] = pc[u] /\ tab'[u] = tab[u] /\ bld'[u] = bld[u]
    /\ pc' \in [Threads -> {"idle", "is_building", "find", "entry", "return"} \cup Writing]
    /\ tab' \in [Threads -> Nat] /\ bld' \in [Threads -> Nat]

LEMMA ClientFrameKeeps ==
    ASSUME RebuildInv, NEW t \in Threads, ClientFrame(t), LoadedInv(t)'
    PROVE  RebuildInv'
<1>1. TablesInv'
  BY DEF RebuildInv, TablesInv, ClientFrame, rootVars
<1>2. ASSUME NEW u \in Threads, u # t PROVE LoadedInv(u)'
  <2>1. pc'[u] = pc[u] /\ tab'[u] = tab[u] /\ bld'[u] = bld[u] /\ (u \in waiting' <=> u \in waiting)
    BY <1>2 DEF ClientFrame
  <2>2. LoadedInv(u) BY DEF RebuildInv
  <2> QED BY <2>1, <2>2 DEF LoadedInv, is_building, ClientFrame, rootVars
<1> QED BY <1>1, <1>2 DEF RebuildInv, ClientFrame

(* An operation begins. *)
LEMMA BeginKeeps ==
    ASSUME RebuildInv, NEW t \in Threads, NEW o, NEW k, NEW e, Begin(t, o, k, e)
    PROVE  RebuildInv'
<1>1. ClientFrame(t)
  BY DEF Begin, ClientFrame, RebuildInv, TablesInv, Goto, At, collectVars, rootVars, Writing, Tables
<1>2. LoadedInv(t)'
  BY DEF Begin, LoadedInv, RebuildInv, TablesInv, Goto, At, collectVars, rootVars, Writing,
         Copying, is_building
<1> QED BY <1>1, <1>2, ClientFrameKeeps

(* A writer has its result, or an operation is over. *)
LEMMA FinishKeeps ==
    ASSUME RebuildInv, NEW t \in Threads, NEW r, Finish(t, r),
           UNCHANGED <<rootVars, gone, phase, old, waiting, bld>>
    PROVE  RebuildInv'
<1>1. ClientFrame(t)
  BY DEF Finish, ClientFrame, RebuildInv, Goto, rootVars, Writing, NoTable
<1>2. LoadedInv(t)'
  BY DEF Finish, LoadedInv, RebuildInv, Goto, Writing
<1> QED BY <1>1, <1>2, ClientFrameKeeps

LEMMA LeaveKeeps ==
    ASSUME RebuildInv, NEW t \in Threads, Leave(t), UNCHANGED <<rootVars, gone, phase, old>>
    PROVE  RebuildInv'
<1>1. ClientFrame(t)
  BY DEF Leave, ClientFrame, RebuildInv, Goto, rootVars, Writing, NoTable
<1>2. LoadedInv(t)'
  BY DEF Leave, LoadedInv, RebuildInv, Goto, Writing
<1> QED BY <1>1, <1>2, ClientFrameKeeps

(* A thread goes on with the tables it has loaded. *)
LEMMA GoesOnKeeps ==
    ASSUME RebuildInv, NEW t \in Threads, NEW p \in {"share", "version", "entry"}, Goto(t, p),
           p \in {"share", "version"} => pc[t] = "act" /\ is_building(t),
           p = "entry" => pc[t] = "find",
           UNCHANGED <<rootVars, gone, phase, old, waiting, tab, bld>>
    PROVE  RebuildInv'
<1>1. ClientFrame(t)
  BY DEF ClientFrame, RebuildInv, Goto, rootVars, Writing
<1>2. LoadedInv(t) /\ pc'[t] = p
  BY DEF RebuildInv, Goto
<1>3. LoadedInv(t)'
  BY <1>2 DEF LoadedInv, is_building, Writing, Copying, rootVars
<1> QED BY <1>1, <1>3, ClientFrameKeeps

LEMMA LoadBuildingKeeps ==
    ASSUME RebuildInv, NEW t \in Threads, load_building(t)
    PROVE  RebuildInv'
<1>1. building_ \in Nat
  BY DEF RebuildInv, TablesInv, Tables, NoTable, Copying
<1>2. ClientFrame(t)
  BY <1>1 DEF load_building, ClientFrame, RebuildInv, Goto, At, rootVars, collectVars, Writing
<1>3. LoadedInv(t) /\ pc[t] = "is_building" /\ pc'[t] = "act" /\ bld'[t] = building_
      /\ UNCHANGED <<tab, entries_, building_, phase, old, waiting>>
  BY DEF RebuildInv, load_building, At, Goto, rootVars, collectVars
<1>4. LoadedInv(t)'
  BY <1>3 DEF LoadedInv, RebuildInv, TablesInv, is_building, Writing, Copying
<1> QED BY <1>2, <1>4, ClientFrameKeeps

-----------------------------------------------------------------------------
(* The invariant holds.                                                    *)

LEMMA RebuildInit == Init => RebuildInv
BY TablesAssumption DEF Init, RebuildInv, TablesInv, LoadedInv, Tables, NoTable, Copying, Writing,
                        is_building

LEMMA ClientKeeps ==
    ASSUME RebuildInv, NEW t \in Threads, Client(t)
    PROVE  RebuildInv'
<1> USE DEF rootVars, collectVars, clientVars, localVars, At
<1>1. CASE store(t) BY <1>1, BeginKeeps DEF store
<1>2. CASE request(t) BY <1>2, BeginKeeps DEF request
<1>3. CASE load_building(t) BY <1>3, LoadBuildingKeeps
<1>4. CASE plain(t)
  <2>1. (\E r : Finish(t, r)) /\ UNCHANGED <<rootVars, gone, phase, old, waiting, bld>>
    BY <1>4 DEF plain
  <2> QED BY <2>1, FinishKeeps
<1>5. CASE add_entry(t)
  <2>1. Goto(t, "share") /\ pc[t] = "act" /\ is_building(t)
        /\ UNCHANGED <<rootVars, gone, phase, old, waiting, tab, bld>>
    BY <1>5 DEF add_entry
  <2> QED BY <2>1, GoesOnKeeps
<1>6. CASE found_entry(t)
  <2>1. Goto(t, "version") /\ pc[t] = "act" /\ is_building(t)
        /\ UNCHANGED <<rootVars, gone, phase, old, waiting, tab, bld>>
    BY <1>6 DEF found_entry
  <2> QED BY <2>1, GoesOnKeeps
<1>7. CASE table_full(t)
  <2>1. CASE Finish(t, "failed") /\ UNCHANGED <<gone, phase, old, waiting, bld>>
    BY <2>1, <1>7, FinishKeeps DEF table_full
  <2>2. CASE Crash
    BY <2>2, <1>7 DEF table_full, Crash, RebuildInv, TablesInv, LoadedInv, is_building
  <2> QED BY <1>7, <2>1, <2>2 DEF table_full
<1>8. CASE find_entry(t)
  <2>1. CASE Finish(t, "failed")
    BY <2>1, <1>8, FinishKeeps DEF find_entry
  <2>2. CASE Goto(t, "version") /\ UNCHANGED tab
    BY <2>2, <1>8, GoesOnKeeps DEF find_entry
  <2> QED BY <1>8, <2>1, <2>2 DEF find_entry
<1>9. CASE share(t)
  <2>1. Finish(t, "stored") /\ UNCHANGED <<rootVars, gone, phase, old, waiting, bld>>
    BY <1>9 DEF share
  <2> QED BY <2>1, FinishKeeps
<1>10. CASE version(t)
  <2>1. CASE (\E r : Finish(t, r)) /\ UNCHANGED bld
    BY <2>1, <1>10, FinishKeeps DEF version
  <2>2. CASE UNCHANGED clientVars
    BY <2>2, <1>10 DEF version, RebuildInv, TablesInv, LoadedInv, is_building
  <2> QED BY <1>10, <2>1, <2>2 DEF version
<1>11. CASE return(t) BY <1>11, LeaveKeeps DEF return
<1>12. CASE find(t)
  <2>1. CASE Leave(t) BY <2>1, <1>12, LeaveKeeps DEF find
  <2>2. CASE Goto(t, "entry") /\ UNCHANGED <<tab, bld, waiting>>
    BY <2>2, <1>12, GoesOnKeeps DEF find
  <2> QED BY <1>12, <2>1, <2>2 DEF find
<1>13. CASE get(t) BY <1>13, LeaveKeeps DEF get
<1> QED BY <1>1, <1>2, <1>3, <1>4, <1>5, <1>6, <1>7, <1>8, <1>9, <1>10, <1>11, <1>12, <1>13
        DEF Client

LEMMA CollectKeeps == ASSUME RebuildInv, Collect PROVE RebuildInv'
<1> USE DEF rootVars, collectVars, clientVars, localVars, Collector, RebuildInv, TablesInv,
            LoadedInv, is_building, Copying
<1>1. CASE collect
  BY <1>1, TablesAssumption DEF collect, Busy, Tables, NoTable, Writing
<1>2. CASE flush_building BY <1>2 DEF flush_building
<1>3. CASE get_atime_cutoff BY <1>3 DEF get_atime_cutoff, Crash
<1>4. CASE add_shared BY <1>4 DEF add_shared
<1>5. CASE swap BY <1>5 DEF swap
<1>6. CASE built BY <1>6 DEF built, Busy
<1>7. CASE flush_old BY <1>7 DEF flush_old
<1>8. CASE delete_old BY <1>8 DEF delete_old, Tables, NoTable
<1>9. ASSUME NEW k \in Keys, entry_is_live(k) PROVE RebuildInv'
  BY <1>9 DEF entry_is_live
<1>10. ASSUME NEW k \in Keys, exclusive(k) PROVE RebuildInv'
  BY <1>10 DEF exclusive, Crash
<1> QED BY <1>1, <1>2, <1>3, <1>4, <1>5, <1>6, <1>7, <1>8, <1>9, <1>10 DEF Collect

LEMMA RebuildNext == RebuildInv /\ [Next]_vars => RebuildInv'
<1> SUFFICES ASSUME RebuildInv, [Next]_vars PROVE RebuildInv'
  OBVIOUS
<1>1. CASE Next BY <1>1, ClientKeeps, CollectKeeps DEF Next
<1>2. CASE UNCHANGED vars
  BY <1>2 DEF vars, rootVars, clientVars, collectVars, localVars, RebuildInv, TablesInv, LoadedInv,
              is_building
<1> QED BY <1>1, <1>2

(* The protocol of collect() is an invariant of the cache. *)
THEOREM RebuildCorrect == Spec => []RebuildInv
BY RebuildInit, RebuildNext, PTL DEF Spec

(***************************************************************************)
(* While the old table is copied every writer knows of the new one, as the *)
(* comment after the first flush of collect() says.                        *)
(***************************************************************************)
THEOREM EveryoneBuildsCorrect == Spec => []EveryoneBuilds
<1>1. RebuildInv => EveryoneBuilds
  <2> SUFFICES ASSUME RebuildInv, phase \in {"sample", "copy", "add_shared"},
                      NEW t \in Threads, pc[t] \in {"act", "share", "version"}
               PROVE  tab[t] = old /\ bld[t] = building_ /\ is_building(t)
    BY DEF EveryoneBuilds
  <2>1. LoadedInv(t) /\ TablesInv
    BY DEF RebuildInv
  <2> QED BY <2>1 DEF LoadedInv, TablesInv, Tables, NoTable, Copying, Writing, is_building
<1> QED BY <1>1, RebuildCorrect, PTL

(***************************************************************************)
(* When the old table is taken apart nobody uses it, as the comment after  *)
(* the second flush of collect() says, and nobody uses a deleted table.    *)
(***************************************************************************)
THEOREM NobodyUsesOldCorrect == Spec => []NobodyUsesOld
<1>1. RebuildInv => NobodyUsesOld
  <2> SUFFICES ASSUME RebuildInv, NEW t \in Threads, pc[t] \notin {"idle", "return"}
               PROVE  /\ tab[t] \notin gone /\ bld[t] \notin gone
                      /\ phase = "settle" => tab[t] = entries_ /\ bld[t] = NoTable
    BY DEF NobodyUsesOld
  <2>1. LoadedInv(t) /\ TablesInv /\ tab[t] \in Nat /\ bld[t] \in Nat
    BY DEF RebuildInv
  <2> QED BY <2>1 DEF LoadedInv, TablesInv, Tables, NoTable, Copying, Writing, is_building
<1> QED BY <1>1, RebuildCorrect, PTL

-----------------------------------------------------------------------------
(* Type correctness.  Its parts are kept by different steps.               *)

TablesType ==
    /\ entries_ \in Tables /\ building_ \in Tables \cup {NoTable}
    /\ lg2size \in [Tables -> Nat]
    /\ used \in [Tables -> SUBSET Keys]
    /\ val \in [Tables -> [Keys -> Refs]]

HeapType ==
    /\ hist \in [Entries -> [vs : Seq(Entries), del : BOOLEAN]]
    /\ fresh \in SUBSET Entries
    /\ released \in [Entries -> Nat] /\ gone \in SUBSET Tables

ArgsType ==
    /\ pc \in [Threads -> {"idle", "is_building", "act", "find", "share", "version", "entry",
                           "return"}]
    /\ op \in [Threads -> Ops] /\ key \in [Threads -> Keys]
    /\ mine \in [Threads -> Entries \cup {Nil}]

LocalsType ==
    /\ tab \in [Threads -> Tables \cup {NoTable}] /\ bld \in [Threads -> Tables \cup {NoTable}]
    /\ cur \in [Threads -> Entries \cup {Nil}] /\ res \in [Threads -> Results]
    /\ alone \in [Threads -> BOOLEAN]

CollectType ==
    /\ phase \in {"idle", "flush_building", "sample", "copy", "add_shared", "swapped",
                  "flush_old", "settle"}
    /\ old \in Tables \cup {NoTable} /\ waiting \in SUBSET Threads
    /\ todo \in SUBSET Keys /\ item \in Keys \cup {Nil}
    /\ left \in SUBSET Keys /\ stray \in BOOLEAN /\ crashed \in BOOLEAN

(* What types do not say: a store has an entry, a copy has a key. *)
HandsInv ==
    /\ \A t \in Threads : pc[t] # "idle" /\ op[t] \in Storers => mine[t] \in Entries
    /\ phase = "add_shared" => item \in Keys

CacheInv == RebuildInv /\ TablesType /\ HeapType /\ ArgsType /\ LocalsType /\ CollectType /\ HandsInv

LEMMA TypeParts ==
    TypeOK <=> TablesType /\ HeapType /\ ArgsType /\ LocalsType /\ CollectType
BY DEF TypeOK, TablesType, HeapType, ArgsType, LocalsType, CollectType

LEMMA AnyKeyIsKey == AnyKey \in Keys
BY KeysAssumption DEF AnyKey

LEMMA RefIsRef == \A e \in Entries \cup {Nil}, s \in BOOLEAN : Ref(e, s) \in Refs
BY DEF Ref, Refs

(* A value in a table is an entry or null. *)
LEMMA ValueType ==
    ASSUME TablesType, NEW n \in Tables, NEW k \in Keys
    PROVE  val[n][k] \in Refs /\ val[n][k].ptr \in Entries \cup {Nil}
BY DEF TablesType, Refs

LEMMA ReleaseType ==
    ASSUME HeapType, NEW S, entry_release(S)
    PROVE  released' \in [Entries -> Nat]
BY DEF HeapType, entry_release

LEMMA PutType ==
    ASSUME TablesType, HeapType, NEW n, NEW k \in Keys, NEW r \in Refs, Put(n, k, r),
           UNCHANGED rootVars
    PROVE  TablesType' /\ released' \in [Entries -> Nat]
<1>1. released' \in [Entries -> Nat] BY ReleaseType DEF Put
<1>2. used' \in [Tables -> SUBSET Keys] BY DEF Put, TablesType
<1>3. val' \in [Tables -> [Keys -> Refs]]
  <2>1. ASSUME NEW m \in Tables PROVE [val[m] EXCEPT ![k] = r] \in [Keys -> Refs]
    BY DEF TablesType
  <2> QED BY <2>1 DEF Put, TablesType
<1> QED BY <1>1, <1>2, <1>3 DEF Put, TablesType, rootVars

LEMMA FinishType ==
    ASSUME ArgsType, LocalsType, NEW t \in Threads, NEW r \in Results, Finish(t, r),
           UNCHANGED <<argVars, bld, alone>>
    PROVE  ArgsType' /\ LocalsType'
BY DEF ArgsType, LocalsType, Finish, Goto, argVars, NoTable

LEMMA LeaveType ==
    ASSUME ArgsType, LocalsType, NEW t \in Threads, Leave(t)
    PROVE  ArgsType' /\ LocalsType'
BY AnyKeyIsKey DEF ArgsType, LocalsType, Leave, Goto, NoTable, Ops, Writers, Results

LEMMA GoesOnType ==
    ASSUME ArgsType, LocalsType, NEW t \in Threads, NEW e \in Entries \cup {Nil},
           NEW p \in {"share", "version", "entry"}, Goto(t, p), cur' = [cur EXCEPT ![t] = e],
           UNCHANGED <<argVars, tab, bld, res, alone>>
    PROVE  ArgsType' /\ LocalsType'
BY DEF ArgsType, LocalsType, Goto, argVars

LEMMA HandsKept ==
    ASSUME HandsInv, NEW t \in Threads, pc[t] # "idle", UNCHANGED <<phase, item, argVars>>,
           \A u \in Threads \ {t} : pc'[u] = pc[u]
    PROVE  HandsInv'
BY DEF HandsInv, argVars

LEMMA HandsDropped ==
    ASSUME HandsInv, ArgsType, NEW t \in Threads, Leave(t), UNCHANGED <<phase, item>>
    PROVE  HandsInv'
BY DEF HandsInv, ArgsType, Leave, Goto, Storers

(* An operation under way has loaded a table. *)
LEMMA HasTable ==
    ASSUME CacheInv, NEW t \in Threads, pc[t] \notin {"idle", "return"}
    PROVE  /\ tab[t] \in Tables /\ key[t] \in Keys
           /\ Value(t) \in Refs /\ Value(t).ptr \in Entries \cup {Nil}
<1>1. tab[t] \in Tables
  BY DEF CacheInv, RebuildInv, TablesInv, LoadedInv, Copying
<1>2. key[t] \in Keys BY DEF CacheInv, ArgsType
<1> QED BY <1>1, <1>2, ValueType DEF CacheInv, Value

LEMMA BeginType ==
    ASSUME CacheInv, NEW t \in Threads, NEW o \in Ops, NEW k \in Keys,
           NEW e \in Entries \cup {Nil}, o \in Storers => e \in Entries, Begin(t, o, k, e),
           fresh' \in SUBSET Entries
    PROVE  CacheInv'
<1>1. RebuildInv' BY BeginKeeps DEF CacheInv
<1>2. TablesType' BY DEF CacheInv, TablesType, Begin, rootVars, tableVars
<1>3. HeapType' BY DEF CacheInv, HeapType, Begin
<1>4. ArgsType' BY DEF CacheInv, ArgsType, Begin, Goto
<1>5. LocalsType'
  <2>1. tab' \in [Threads -> Tables \cup {NoTable}]
    BY DEF CacheInv, LocalsType, TablesType, Begin
  <2>2. alone' \in [Threads -> BOOLEAN]
    <3>1. CASE o \in Writers
      <4>1. alone' = [u \in Threads |->
                        IF u = t THEN OnKey(k) = {} ELSE alone[u] /\ u \notin OnKey(k)]
        BY <3>1 DEF Begin
      <4>2. alone \in [Threads -> BOOLEAN] BY DEF CacheInv, LocalsType
      <4> QED BY <4>1, <4>2, Zenon
    <3>2. CASE o \notin Writers BY <3>2 DEF CacheInv, LocalsType, Begin
    <3> QED BY <3>1, <3>2
  <2> QED BY <2>1, <2>2 DEF CacheInv, LocalsType, Begin
<1>6. CollectType' BY DEF CacheInv, CollectType, Begin, collectVars
<1>7. HandsInv' BY DEF CacheInv, HandsInv, ArgsType, Begin, Goto, collectVars
<1> QED BY <1>1, <1>2, <1>3, <1>4, <1>5, <1>6, <1>7 DEF CacheInv

LEMMA ClientType ==
    ASSUME CacheInv, NEW t \in Threads, Client(t)
    PROVE  CacheInv'
<1> USE DEF At
<1>0. RebuildInv' BY ClientKeeps DEF CacheInv
<1>1. CASE store(t)
  <2>1. PICK o \in Storers, k \in Keys, e \in fresh :
            <<o, k>> \in Requests /\ Begin(t, o, k, e) /\ fresh' = fresh \ {e}
    BY <1>1 DEF store
  <2>2. o \in Ops /\ e \in Entries /\ fresh' \in SUBSET Entries
    BY <2>1 DEF Ops, Writers, CacheInv, HeapType
  <2> QED BY <2>1, <2>2, BeginType
<1>2. CASE request(t)
  <2>1. PICK o \in {"del", "get"}, k \in Keys : Begin(t, o, k, Nil) /\ UNCHANGED fresh
    BY <1>2 DEF request
  <2>2. o \in Ops /\ o \notin Storers /\ fresh' \in SUBSET Entries
    BY <2>1 DEF Ops, Writers, Storers, CacheInv, HeapType
  <2> QED BY <2>1, <2>2, BeginType
<1>3. CASE load_building(t)
  <2>1. TablesType' /\ HeapType'
    BY <1>3 DEF CacheInv, TablesType, HeapType, load_building, rootVars, tableVars, heapVars
  <2>2. ArgsType' BY <1>3 DEF CacheInv, ArgsType, load_building, Goto, argVars
  <2>3. LocalsType' BY <1>3 DEF CacheInv, LocalsType, TablesType, load_building
  <2>4. CollectType' BY <1>3 DEF CacheInv, CollectType, load_building, collectVars
  <2>5. HandsInv'
    BY <1>3 DEF CacheInv, HandsInv, ArgsType, load_building, Goto, argVars, collectVars
  <2> QED BY <1>0, <2>1, <2>2, <2>3, <2>4, <2>5 DEF CacheInv
<1>4. CASE plain(t)
  <2>1. pc[t] = "act" /\ UNCHANGED <<rootVars, hist, fresh, gone, argVars, bld, alone, collectVars,
                                     crashed>>
        /\ stray' \in BOOLEAN /\ \E r \in Results : Finish(t, r)
    BY <1>4 DEF plain, Results
  <2>2. TablesType' /\ released' \in [Entries -> Nat]
    <3>1. CASE UNCHANGED <<tableVars, released>>
      BY <3>1, <2>1 DEF CacheInv, TablesType, HeapType, rootVars, tableVars
    <3>2. CASE Put(tab[t], key[t], Ref(mine[t], FALSE))
      <4>1. Ref(mine[t], FALSE) \in Refs BY RefIsRef DEF CacheInv, ArgsType
      <4> QED BY <3>2, <4>1, <2>1, HasTable, PutType DEF CacheInv
    <3>3. CASE Put(tab[t], key[t], NullRef)
      <4>1. NullRef \in Refs BY RefIsRef DEF NullRef
      <4> QED BY <3>3, <4>1, <2>1, HasTable, PutType DEF CacheInv
    <3> QED BY <1>4, <3>1, <3>2, <3>3 DEF plain
  <2>3. HeapType' BY <2>1, <2>2 DEF CacheInv, HeapType
  <2>4. ArgsType' /\ LocalsType' BY <2>1, FinishType DEF CacheInv
  <2>5. CollectType' BY <2>1 DEF CacheInv, CollectType, collectVars
  <2>6. HandsInv' BY <2>1, HandsKept DEF CacheInv, collectVars, Finish, Goto, ArgsType
  <2> QED BY <1>0, <2>2, <2>3, <2>4, <2>5, <2>6 DEF CacheInv
<1>5. CASE add_entry(t)
  <2>1. pc[t] = "act" /\ UNCHANGED <<rootVars, hist, fresh, gone, argVars, tab, bld, res, alone,
                                     collectVars, stray, crashed>>
        /\ cur' = [cur EXCEPT ![t] = mine[t]] /\ Goto(t, "share")
        /\ Put(tab[t], key[t], Ref(mine[t], FALSE))
    BY <1>5 DEF add_entry
  <2>2. mine[t] \in Entries \cup {Nil} /\ Ref(mine[t], FALSE) \in Refs
    BY RefIsRef DEF CacheInv, ArgsType
  <2>3. TablesType' /\ released' \in [Entries -> Nat]
    BY <2>1, <2>2, HasTable, PutType DEF CacheInv
  <2>4. HeapType' BY <2>1, <2>3 DEF CacheInv, HeapType
  <2>5. ArgsType' /\ LocalsType' BY <2>1, <2>2, GoesOnType DEF CacheInv
  <2>6. CollectType' BY <2>1 DEF CacheInv, CollectType, collectVars
  <2>7. HandsInv' BY <2>1, HandsKept DEF CacheInv, collectVars, Goto, ArgsType
  <2> QED BY <1>0, <2>3, <2>4, <2>5, <2>6, <2>7 DEF CacheInv
<1>6. CASE found_entry(t)
  <2>1. pc[t] = "act" /\ UNCHANGED <<rootVars, tableVars, heapVars, gone, argVars, tab, bld, res,
                                     alone, collectVars, stray, crashed>>
        /\ cur' = [cur EXCEPT ![t] = Value(t).ptr] /\ Goto(t, "version")
    BY <1>6 DEF found_entry
  <2>2. TablesType' /\ HeapType'
    BY <2>1 DEF CacheInv, TablesType, HeapType, rootVars, tableVars, heapVars
  <2>3. ArgsType' /\ LocalsType' BY <2>1, HasTable, GoesOnType DEF CacheInv
  <2>4. CollectType' BY <2>1 DEF CacheInv, CollectType, collectVars
  <2>5. HandsInv' BY <2>1, HandsKept DEF CacheInv, collectVars, Goto, ArgsType
  <2> QED BY <1>0, <2>2, <2>3, <2>4, <2>5 DEF CacheInv
<1>7. CASE table_full(t)
  <2>1. CASE Crash
    BY <1>0, <1>7, <2>1 DEF table_full, Crash, CacheInv, TablesType, HeapType, ArgsType, LocalsType,
       CollectType, HandsInv, rootVars, tableVars, heapVars, clientVars, argVars, localVars,
       collectVars
  <2>2. CASE Finish(t, "failed") /\ UNCHANGED <<tableVars, heapVars, gone, argVars, bld, alone,
                                                collectVars, stray, crashed>>
    <3>1. TablesType' /\ HeapType'
      BY <1>7, <2>2 DEF table_full, CacheInv, TablesType, HeapType, rootVars, tableVars, heapVars
    <3>2. ArgsType' /\ LocalsType' BY <2>2, FinishType DEF CacheInv, Results
    <3>3. CollectType' BY <2>2 DEF CacheInv, CollectType, collectVars
    <3>4. HandsInv' BY <1>7, <2>2, HandsKept DEF table_full, CacheInv, collectVars, Finish, Goto, ArgsType
    <3> QED BY <1>0, <3>1, <3>2, <3>3, <3>4 DEF CacheInv
  <2> QED BY <1>7, <2>1, <2>2 DEF table_full
<1>8. CASE find_entry(t)
  <2>1. pc[t] = "act" /\ UNCHANGED <<rootVars, tableVars, heapVars, gone, argVars, bld, alone,
                                     collectVars, stray, crashed>>
    BY <1>8 DEF find_entry
  <2>2. TablesType' /\ HeapType'
    BY <2>1 DEF CacheInv, TablesType, HeapType, rootVars, tableVars, heapVars
  <2>3. CASE Finish(t, "failed")
    <3>1. ArgsType' /\ LocalsType' BY <2>1, <2>3, FinishType DEF CacheInv, Results
    <3>2. HandsInv' BY <2>1, <2>3, HandsKept DEF CacheInv, collectVars, Finish, Goto, ArgsType
    <3> QED BY <1>0, <2>1, <2>2, <3>1, <3>2 DEF CacheInv, CollectType, collectVars
  <2>4. CASE Goto(t, "version") /\ cur' = [cur EXCEPT ![t] = Value(t).ptr] /\ UNCHANGED <<tab, res>>
    <3>1. ArgsType' /\ LocalsType' BY <2>1, <2>4, HasTable, GoesOnType DEF CacheInv
    <3>2. HandsInv' BY <2>1, <2>4, HandsKept DEF CacheInv, collectVars, Goto, ArgsType
    <3> QED BY <1>0, <2>1, <2>2, <3>1, <3>2 DEF CacheInv, CollectType, collectVars
  <2> QED BY <1>8, <2>3, <2>4 DEF find_entry
<1>9. CASE share(t)
  <2>1. pc[t] = "share" /\ UNCHANGED <<rootVars, hist, fresh, gone, argVars, bld, alone, phase, old,
                                       waiting, todo, item, stray, crashed>>
        /\ Finish(t, "stored")
    BY <1>9 DEF share
  <2>2. key[t] \in Keys /\ Ref(cur[t], TRUE) \in Refs
    BY RefIsRef DEF CacheInv, ArgsType, LocalsType
  <2>3. TablesType' /\ released' \in [Entries -> Nat]
    <3>1. CASE UNCHANGED <<tableVars, released>>
      BY <3>1, <2>1 DEF CacheInv, TablesType, HeapType, rootVars, tableVars
    <3>2. CASE Put(bld[t], key[t], Ref(cur[t], TRUE))
      BY <3>2, <2>1, <2>2, PutType DEF CacheInv
    <3> QED BY <1>9, <3>1, <3>2 DEF share
  <2>4. left' \in SUBSET Keys BY <1>9, <2>2 DEF share, CacheInv, CollectType
  <2>5. HeapType' BY <2>1, <2>3 DEF CacheInv, HeapType
  <2>6. ArgsType' /\ LocalsType' BY <2>1, FinishType DEF CacheInv, Results
  <2>7. CollectType' BY <2>1, <2>4 DEF CacheInv, CollectType
  <2>8. HandsInv' BY <2>1, HandsKept DEF CacheInv, Finish, Goto, ArgsType
  <2> QED BY <1>0, <2>3, <2>5, <2>6, <2>7, <2>8 DEF CacheInv
<1>10. CASE version(t)
  <2>1. pc[t] = "version" /\ UNCHANGED <<rootVars, tableVars, gone, collectVars, stray>>
        /\ crashed' \in BOOLEAN
    BY <1>10 DEF version, CacheInv, CollectType
  <2>2. TablesType' /\ CollectType'
    BY <2>1 DEF CacheInv, TablesType, CollectType, rootVars, tableVars, collectVars
  <2>3. HeapType'
    <3>1. CASE UNCHANGED heapVars BY <2>1, <3>1 DEF CacheInv, HeapType, heapVars
    <3>2. CASE NewVersion(cur[t], mine[t]) /\ op[t] \in Storers /\ UNCHANGED <<fresh, released>>
      <4>1. mine[t] \in Entries BY <2>1, <3>2 DEF CacheInv, HandsInv
      <4>2. \A e \in Entries : [vs |-> Append(hist[e].vs, mine[t]), del |-> FALSE]
                               \in [vs : Seq(Entries), del : BOOLEAN]
        BY <4>1 DEF CacheInv, HeapType
      <4> QED BY <2>1, <3>2, <4>2 DEF CacheInv, HeapType, NewVersion
    <3>3. CASE hist' = [hist EXCEPT ![cur[t]] = [@ EXCEPT !.del = TRUE]]
               /\ UNCHANGED <<fresh, released>>
      BY <2>1, <3>3 DEF CacheInv, HeapType
    <3> QED BY <1>10, <3>1, <3>2, <3>3 DEF version, Storers
  <2>4. CASE UNCHANGED clientVars
    BY <1>0, <2>1, <2>2, <2>3, <2>4 DEF CacheInv, ArgsType, LocalsType, HandsInv, clientVars, argVars,
       localVars, collectVars
  <2>5. CASE UNCHANGED <<argVars, bld, alone>> /\ \E r \in Results : Finish(t, r)
    <3>1. ArgsType' /\ LocalsType' BY <2>5, FinishType DEF CacheInv
    <3>2. HandsInv' BY <2>1, <2>5, HandsKept DEF CacheInv, collectVars, Finish, Goto, ArgsType
    <3> QED BY <1>0, <2>2, <2>3, <3>1, <3>2 DEF CacheInv
  <2> QED BY <1>10, <2>4, <2>5 DEF version, Results
<1>11. ASSUME Leave(t), UNCHANGED <<rootVars, tableVars, hist, released, gone, phase, old, todo, item,
                                    left, stray, crashed>>,
              fresh' \in SUBSET Entries
       PROVE  CacheInv'
  <2>1. TablesType' /\ HeapType'
    BY <1>11 DEF CacheInv, TablesType, HeapType, rootVars, tableVars
  <2>2. ArgsType' /\ LocalsType' BY <1>11, LeaveType DEF CacheInv
  <2>3. CollectType' BY <1>11 DEF CacheInv, CollectType, Leave
  <2>4. HandsInv' BY <1>11, HandsDropped DEF CacheInv
  <2> QED BY <1>0, <2>1, <2>2, <2>3, <2>4 DEF CacheInv
<1>12. CASE return(t)
  <2>1. fresh' \in SUBSET Entries BY <1>12 DEF return, CacheInv, HeapType, ArgsType
  <2> QED BY <1>11, <1>12, <2>1 DEF return
<1>13. CASE get(t)
  BY <1>11, <1>13 DEF get, heapVars, CacheInv, HeapType
<1>14. CASE find(t)
  <2>1. pc[t] = "find" /\ UNCHANGED <<rootVars, tableVars, heapVars, gone, phase, old, todo, item,
                                      left, stray, crashed>>
    BY <1>14 DEF find
  <2>2. CASE Leave(t)
    BY <1>11, <2>1, <2>2 DEF heapVars, CacheInv, HeapType
  <2>3. CASE Goto(t, "entry") /\ cur' = [cur EXCEPT ![t] = Value(t).ptr]
             /\ UNCHANGED <<argVars, tab, bld, res, alone, waiting>>
    <3>1. TablesType' /\ HeapType'
      BY <2>1 DEF CacheInv, TablesType, HeapType, rootVars, tableVars, heapVars
    <3>2. ArgsType' /\ LocalsType' BY <2>1, <2>3, HasTable, GoesOnType DEF CacheInv
    <3>3. CollectType' BY <2>1, <2>3 DEF CacheInv, CollectType
    <3>4. HandsInv' BY <2>1, <2>3, HandsKept DEF CacheInv, Goto, ArgsType
    <3> QED BY <1>0, <3>1, <3>2, <3>3, <3>4 DEF CacheInv
  <2> QED BY <1>14, <2>2, <2>3 DEF find
<1> QED BY <1>1, <1>2, <1>3, <1>4, <1>5, <1>6, <1>7, <1>8, <1>9, <1>10, <1>12, <1>13, <1>14 DEF Client

(* The steps of the collector leave the clients alone. *)
LEMMA ClientsStay ==
    ASSUME CacheInv, UNCHANGED clientVars
    PROVE  ArgsType' /\ LocalsType'
           /\ \A t \in Threads : pc'[t] # "idle" /\ op'[t] \in Storers => mine'[t] \in Entries
BY DEF CacheInv, ArgsType, LocalsType, HandsInv, clientVars, argVars, localVars

LEMMA CollectorType == ASSUME CacheInv, Collect PROVE CacheInv'
<1> USE DEF Collector
<1>0. RebuildInv' BY CollectKeeps, SMTT(30) DEF CacheInv
<1>1. UNCHANGED clientVars
  BY DEF Collect, collect, flush_building, get_atime_cutoff, add_shared, swap, built, flush_old,
         delete_old, entry_is_live, exclusive, Crash
<1>2. ASSUME TablesType', HeapType', CollectType', phase' = "add_shared" => item' \in Keys
      PROVE  CacheInv'
  BY <1>0, <1>1, <1>2, ClientsStay DEF CacheInv, HandsInv
<1>3. ASSUME Crash, UNCHANGED rootVars PROVE CacheInv'
  <2>1. TablesType' /\ HeapType' /\ CollectType'
    BY <1>3 DEF CacheInv, TablesType, HeapType, CollectType, Crash, rootVars, tableVars, heapVars,
                collectVars
  <2> QED BY <1>2, <1>3, <2>1 DEF Crash, collectVars, CacheInv, HandsInv
<1>4. CASE collect
  <2>1. entries_ + 1 \in Tables
    BY <1>4, TablesAssumption DEF collect, CacheInv, TablesType, Tables
  <2>2. Grown(entries_) \in Nat
    BY DEF Grown, CacheInv, TablesType
  <2>3. TablesType' BY <1>4, <2>1, <2>2 DEF collect, CacheInv, TablesType
  <2>4. HeapType' BY <1>4 DEF collect, CacheInv, HeapType, heapVars
  <2>5. CollectType' BY <1>4 DEF collect, Busy, CacheInv, CollectType, TablesType
  <2> QED BY <1>2, <1>4, <2>3, <2>4, <2>5 DEF collect
<1>5. CASE flush_building \/ swap \/ built \/ delete_old
  <2>1. TablesType'
    BY <1>5 DEF flush_building, swap, built, delete_old, CacheInv, TablesType, RebuildInv, TablesInv,
                Copying, rootVars, tableVars
  <2>2. HeapType'
    <3>1. phase # "idle" => old \in Tables BY DEF CacheInv, RebuildInv, TablesInv
    <3> QED BY <1>5, <3>1 DEF flush_building, swap, built, delete_old, CacheInv, HeapType, heapVars
  <2>3. CollectType'
    BY <1>5 DEF flush_building, swap, built, delete_old, Busy, CacheInv, CollectType
  <2> QED BY <1>2, <1>5, <2>1, <2>2, <2>3 DEF flush_building, swap, built, delete_old
<1>6. CASE flush_old
  <2>1. old \in Tables BY <1>6 DEF flush_old, CacheInv, RebuildInv, TablesInv
  <2>2. used[old] \in SUBSET Keys BY <2>1 DEF CacheInv, TablesType
  <2>3. TablesType' /\ HeapType'
    BY <1>6 DEF flush_old, CacheInv, TablesType, HeapType, rootVars, tableVars, heapVars
  <2>4. CollectType' BY <1>6, <2>2 DEF flush_old, CacheInv, CollectType
  <2> QED BY <1>2, <1>6, <2>3, <2>4 DEF flush_old
<1>7. CASE get_atime_cutoff
  <2>1. CASE phase' = "copy" /\ todo' = Keys
             /\ UNCHANGED <<tableVars, heapVars, gone, old, waiting, item, left, stray, crashed>>
    <3>1. TablesType' /\ HeapType'
      BY <1>7, <2>1 DEF get_atime_cutoff, CacheInv, TablesType, HeapType, rootVars, tableVars, heapVars
    <3>2. CollectType' BY <2>1 DEF CacheInv, CollectType
    <3> QED BY <1>2, <2>1, <3>1, <3>2
  <2>2. CASE Crash BY <1>3, <1>7, <2>2 DEF get_atime_cutoff
  <2> QED BY <1>7, <2>1, <2>2 DEF get_atime_cutoff
<1>8. ASSUME NEW k \in Keys, entry_is_live(k) PROVE CacheInv'
  <2>1. TablesType' /\ HeapType'
    BY <1>8 DEF entry_is_live, CacheInv, TablesType, HeapType, rootVars, tableVars, heapVars
  <2>2. CollectType' BY <1>8 DEF entry_is_live, CacheInv, CollectType
  <2>3. phase' = "add_shared" => item' \in Keys BY <1>8 DEF entry_is_live
  <2> QED BY <1>2, <2>1, <2>2, <2>3
<1>9. CASE add_shared
  <2>1. item \in Keys /\ old \in Tables
    BY <1>9 DEF add_shared, CacheInv, HandsInv, RebuildInv, TablesInv
  <2>2. Ref(val[old][item].ptr, TRUE) \in Refs BY <2>1, ValueType, RefIsRef DEF CacheInv
  <2>3. TablesType' /\ released' \in [Entries -> Nat]
    <3>1. CASE UNCHANGED <<tableVars, released>>
      BY <1>9, <3>1 DEF add_shared, CacheInv, TablesType, HeapType, rootVars, tableVars
    <3>2. CASE Put(building_, item, Ref(val[old][item].ptr, TRUE))
      BY <1>9, <3>2, <2>1, <2>2, PutType DEF add_shared, CacheInv
    <3> QED BY <1>9, <3>1, <3>2 DEF add_shared
  <2>4. HeapType' BY <1>9, <2>3 DEF add_shared, CacheInv, HeapType
  <2>5. left' \in SUBSET Keys BY <1>9, <2>1 DEF add_shared, CacheInv, CollectType
  <2>6. CollectType' BY <1>9, <2>5 DEF add_shared, CacheInv, CollectType
  <2> QED BY <1>2, <1>9, <2>3, <2>4, <2>6 DEF add_shared
<1>10. ASSUME NEW k \in Keys, exclusive(k) PROVE CacheInv'
  <2>1. CASE Crash BY <1>3, <1>10, <2>1 DEF exclusive
  <2>2. CASE ~Crash
    <3> DEFINE e == val[old][k].ptr
               kept == val[entries_][k] = Ref(e, TRUE)
               moved == [n \in Tables |->
                           IF n = old THEN [val[n] EXCEPT ![k] = NullRef]
                           ELSE IF n = entries_ /\ e # Nil /\ kept
                           THEN [val[n] EXCEPT ![k] = Ref(e, FALSE)] ELSE val[n]]
    <3>1. /\ todo' = todo \ {k} /\ val' = moved /\ used' = [used EXCEPT ![old] = @ \ {k}]
          /\ (\E S : entry_release(S))
          /\ UNCHANGED <<rootVars, lg2size, hist, fresh, gone, phase, old, waiting, item, left,
                         stray, crashed>>
      BY <1>10, <2>2 DEF exclusive
    <3>2. old \in Tables BY <1>10 DEF exclusive, CacheInv, RebuildInv, TablesInv
    <3>3. Ref(e, FALSE) \in Refs /\ NullRef \in Refs
      BY <3>2, ValueType, RefIsRef DEF CacheInv, NullRef
    <3>4. val \in [Tables -> [Keys -> Refs]] BY DEF CacheInv, TablesType
    <3>5. moved \in [Tables -> [Keys -> Refs]]
      <4>1. ASSUME NEW n \in Tables PROVE moved[n] \in [Keys -> Refs]
        <5> HIDE DEF e, kept
        <5> QED BY <3>3, <3>4
      <4> QED BY <4>1
    <3>6. TablesType' BY <3>1, <3>5 DEF CacheInv, TablesType, rootVars
    <3>7. HeapType' BY <3>1, ReleaseType DEF CacheInv, HeapType
    <3>8. CollectType' BY <3>1 DEF CacheInv, CollectType
    <3> QED BY <1>2, <1>10, <3>1, <3>6, <3>7, <3>8 DEF exclusive
  <2> QED BY <2>1, <2>2
<1> QED BY <1>4, <1>5, <1>6, <1>7, <1>8, <1>9, <1>10 DEF Collect

LEMMA CacheInit == Init => CacheInv
<1> SUFFICES ASSUME Init PROVE CacheInv
  OBVIOUS
<1>1. RebuildInv BY RebuildInit
<1>2. TablesType
  <2>1. 1 \in Tables BY TablesAssumption DEF Tables
  <2>2. \A k \in Keys : Ref(Preset[k], FALSE) \in Refs /\ NullRef \in Refs
    BY RefIsRef, PresetAssumption DEF NullRef
  <2> QED BY <2>1, <2>2, SizeAssumption DEF Init, TablesType
<1>3. HeapType
  <2>1. \A e \in Entries : <<e>> \in Seq(Entries) OBVIOUS
  <2> QED BY <2>1 DEF Init, HeapType
<1>4. ArgsType BY AnyKeyIsKey DEF Init, ArgsType, Ops, Writers
<1>5. LocalsType BY DEF Init, LocalsType, Results
<1>6. CollectType BY DEF Init, CollectType
<1>7. HandsInv BY DEF Init, HandsInv
<1> QED BY <1>1, <1>2, <1>3, <1>4, <1>5, <1>6, <1>7 DEF CacheInv

LEMMA CacheNext == CacheInv /\ [Next]_vars => CacheInv'
<1> SUFFICES ASSUME CacheInv, [Next]_vars PROVE CacheInv'
  OBVIOUS
<1>1. CASE Next BY <1>1, ClientType, CollectorType DEF Next
<1>2. CASE UNCHANGED vars
  <2>1. RebuildInv' BY RebuildNext DEF CacheInv
  <2> QED BY <1>2, <2>1 DEF vars, rootVars, tableVars, heapVars, clientVars, argVars, localVars,
                           collectVars, CacheInv, TablesType, HeapType, ArgsType, LocalsType,
                           CollectType, HandsInv
<1> QED BY <1>1, <1>2

(* Type correctness of the cache, through any number of rebuilds. *)
THEOREM TypeCorrect == Spec => []TypeOK
<1>1. CacheInv => TypeOK BY TypeParts DEF CacheInv
<1> QED BY <1>1, CacheInit, CacheNext, PTL DEF Spec
-----------------------------------------------------------------------------
(***************************************************************************)
(* Who owns an entry while the table is rebuilt, and what the clients see  *)
(* of the rebuild.                                                         *)
(***************************************************************************)

(* What a thread brought and has not stored yet, or could not store. *)
Holds(t, e) ==
    /\ mine[t] = e
    /\ pc[t] \in {"is_building", "act", "version"} \/ (pc[t] = "return" /\ res[t] = "failed")

(* Table n owns e, as the value of k. *)
Owns(n, k, e) == val[n][k].ptr = e /\ ~val[n][k].shared

Versioned(e) == \E r \in Entries \ {e} : Contains(hist[r].vs, e)

(***************************************************************************)
(* Where values are: in the tables of the rebuild, under a key of theirs.  *)
(* A key whose bucket the collector has taken apart has none any more.     *)
(***************************************************************************)
PlacesInv ==
    /\ phase = "idle" => old = NoTable
    /\ phase = "settle" => todo = used[old]
    /\ phase = "add_shared" => val[old][item].ptr # Nil
    /\ \A n \in Tables, k \in Keys :
           /\ val[n][k].ptr # Nil => n \in InUse /\ k \in used[n]
           /\ val[n][k].shared => val[n][k].ptr # Nil

(* Only a store brings an entry, and it is its own entry that it shares. *)
BroughtInv(t) ==
    /\ op[t] \notin Storers => mine[t] = Nil
    /\ pc[t] = "share" => cur[t] = mine[t] /\ op[t] \in {"set", "add"}

(***************************************************************************)
(* A shared value of the new table is owned by the old one, under the same *)
(* key.  So is the entry that a thread is about to share.                  *)
(***************************************************************************)
SharedInv ==
    /\ \A n \in Tables, k \in Keys : val[n][k].shared =>
           phase # "idle" /\ n = old + 1 /\ Owns(old, k, val[n][k].ptr)
    /\ \A t \in Threads : pc[t] = "share" => Owns(old, key[t], cur[t])
    /\ phase \in {"flush_building"} \cup Copying =>
           \A k \in Keys : val[building_][k].ptr # Nil => val[building_][k].shared

(***************************************************************************)
(* An entry is free, held by one thread, a version of another entry, owned *)
(* by one bucket of one table, or released once.                           *)
(***************************************************************************)
HoldersInv(e) ==
    /\ released[e] \in {0, 1}
    /\ \A n, m \in Tables, k, l \in Keys : Owns(n, k, e) /\ Owns(m, l, e) => n = m /\ k = l
    /\ \A t, u \in Threads : Holds(t, e) /\ Holds(u, e) => t = u
    /\ \A t \in Threads : Holds(t, e) =>
           released[e] = 0 /\ e \notin fresh /\ \A n \in Tables, k \in Keys : ~Owns(n, k, e)
    /\ e \in fresh => released[e] = 0 /\ \A n \in Tables, k \in Keys : ~Owns(n, k, e)
    /\ \A n \in Tables, k \in Keys : Owns(n, k, e) => released[e] = 0
    /\ \/ e \in fresh \/ released[e] = 1 \/ Versioned(e)
       \/ \E t \in Threads : Holds(t, e)
       \/ \E n \in Tables, k \in Keys : Owns(n, k, e)

(* An entry that a thread has found in a table is no new one. *)
FoundInv ==
    \A t \in Threads : pc[t] = "version" =>
        cur[t] \in Entries /\ cur[t] \notin fresh /\ \A u \in Threads : ~Holds(u, cur[t])

OwnInv ==
    /\ CacheInv /\ PlacesInv /\ \A t \in Threads : BroughtInv(t)
    /\ ~stray => SharedInv /\ FoundInv /\ \A e \in Entries : HoldersInv(e)

-----------------------------------------------------------------------------
(* Values.                                                                 *)

LEMMA RefParts ==
    /\ \A e, s : Ref(e, s).ptr = e /\ Ref(e, s).shared = s
    /\ NullRef.ptr = Nil /\ NullRef.shared = FALSE
    /\ \A r \in Refs : r.shared \in BOOLEAN /\ r.ptr \in Entries \cup {Nil} /\ r = Ref(r.ptr, r.shared)
BY DEF Ref, NullRef, Refs

(* The tables, keys and entries that a step of a client works with. *)
LEMMA PutValues ==
    ASSUME CacheInv, NEW n \in Tables, NEW k \in Keys, NEW r \in Refs, Put(n, k, r)
    PROVE  /\ \A m \in Tables, l \in Keys : m # n \/ l # k => val'[m][l] = val[m][l]
           /\ val'[n][k] = r
           /\ \A m \in Tables : m # n => used'[m] = used[m]
           /\ used'[n] = used[n] \cup {k}
           /\ \A e \in Entries :
                released'[e] = IF Owns(n, k, e) THEN released[e] + 1 ELSE released[e]
<1>1. val \in [Tables -> [Keys -> Refs]] /\ used \in [Tables -> SUBSET Keys]
  BY DEF CacheInv, TablesType
<1>2. \A m \in Tables, l \in Keys : m # n \/ l # k => val'[m][l] = val[m][l]
  BY <1>1 DEF Put
<1>3. val'[n][k] = r BY <1>1 DEF Put
<1>4. \A e \in Entries : e \in Displaced(val[n][k]) <=> Owns(n, k, e)
  BY NilAssumption DEF Displaced, Owns
<1>5. \A e \in Entries : released'[e] = IF Owns(n, k, e) THEN released[e] + 1 ELSE released[e]
  BY <1>4 DEF Put, entry_release
<1> QED BY <1>1, <1>2, <1>3, <1>5 DEF Put

(* The tables that an operation works with are in use. *)
LEMMA Working ==
    ASSUME CacheInv, NEW t \in Threads, pc[t] \notin {"idle", "return"}
    PROVE  /\ tab[t] \in Tables /\ tab[t] \in InUse
           /\ phase = "settle" => tab[t] = entries_ /\ tab[t] # old
           /\ pc[t] \in {"act", "share", "version"} /\ ~is_building(t) => phase \notin Copying
           /\ is_building(t) => /\ tab[t] = old /\ bld[t] = old + 1 /\ bld[t] \in Tables
                                /\ bld[t] \in InUse /\ old \in Tables /\ bld[t] # NoTable
                                /\ phase \notin {"idle", "settle"}
<1>1. LoadedInv(t) /\ TablesInv BY DEF CacheInv, RebuildInv
<1>2. tab[t] \in Tables /\ bld[t] \in Tables \cup {NoTable}
  BY HasTable DEF CacheInv, LocalsType
<1>3. phase = "settle" => tab[t] = entries_ /\ tab[t] # old
  BY <1>1 DEF LoadedInv, TablesInv
<1>4. pc[t] \in {"act", "share", "version"} /\ ~is_building(t) => phase \notin Copying
  BY <1>1 DEF LoadedInv, TablesInv, is_building, Writing, Copying, Tables, NoTable
<1>5. tab[t] \in {entries_, old}
  BY <1>1 DEF LoadedInv, TablesInv
<1>6. tab[t] \in InUse
  BY <1>1, <1>2, <1>5 DEF InUse, Tables, NoTable
<1>7. is_building(t) => phase \notin {"idle", "settle"}
  BY <1>1 DEF LoadedInv, is_building
<1>8. is_building(t) => tab[t] = old /\ bld[t] = old + 1 /\ bld[t] \in {entries_, building_}
  BY <1>1, <1>7 DEF LoadedInv, TablesInv, is_building, Copying
<1>9. is_building(t) => bld[t] \in Tables /\ bld[t] # NoTable
  BY <1>2 DEF is_building
<1>10. is_building(t) => bld[t] \in InUse
  BY <1>8, <1>9 DEF InUse
<1> QED BY <1>2, <1>3, <1>4, <1>6, <1>7, <1>8, <1>9, <1>10

LEMMA PlacesStay ==
    ASSUME PlacesInv, UNCHANGED <<rootVars, used, val, phase, old, todo, item>>
    PROVE  PlacesInv'
BY DEF PlacesInv, rootVars, InUse

LEMMA PlacesPut ==
    ASSUME CacheInv, PlacesInv, NEW n \in Tables, NEW k \in Keys, NEW r \in Refs, Put(n, k, r),
           n \in InUse, phase = "settle" => n # old, r.shared => r.ptr # Nil,
           phase = "add_shared" /\ n = old => r.ptr # Nil,
           UNCHANGED <<rootVars, old>>,
           phase' = "idle" => phase = "idle",
           phase' = "settle" => phase = "settle" /\ todo' = todo,
           phase' = "add_shared" => phase = "add_shared" /\ item' = item
    PROVE  PlacesInv'
<1>1. /\ \A m \in Tables, l \in Keys : m # n \/ l # k => val'[m][l] = val[m][l]
      /\ val'[n][k] = r
      /\ \A m \in Tables : m # n => used'[m] = used[m]
      /\ used'[n] = used[n] \cup {k}
  BY PutValues
<1>2. phase \in {"settle", "add_shared"} => old \in Tables
  BY DEF CacheInv, RebuildInv, TablesInv, Copying
<1>3. phase = "add_shared" => item \in Keys
  BY DEF CacheInv, HandsInv
<1>4. InUse' = InUse BY DEF InUse, rootVars
<1>5. \A m \in Tables, l \in Keys :
           /\ val'[m][l].ptr # Nil => m \in InUse' /\ l \in used'[m]
           /\ val'[m][l].shared => val'[m][l].ptr # Nil
  BY <1>1, <1>4 DEF PlacesInv
<1>6. phase' = "settle" => todo' = used'[old']
  BY <1>1, <1>2 DEF PlacesInv
<1>7. phase' = "add_shared" => val'[old'][item'].ptr # Nil
  BY <1>1, <1>2, <1>3 DEF PlacesInv
<1> QED BY <1>5, <1>6, <1>7 DEF PlacesInv

(* What a thread brings: kept by the others, and by a thread that begins or goes on. *)
LEMMA BroughtKept ==
    ASSUME CacheInv, \A u \in Threads : BroughtInv(u), NEW t \in Threads, BroughtInv(t)',
           \A u \in Threads \ {t} : pc'[u] = pc[u] /\ op'[u] = op[u] /\ mine'[u] = mine[u]
                                    /\ cur'[u] = cur[u]
    PROVE  \A u \in Threads : BroughtInv(u)'
BY DEF BroughtInv

-----------------------------------------------------------------------------
(* The ways of an entry.  In each step it goes at most one of these.       *)

OwnersStay(e) == \A n \in Tables, k \in Keys : Owns(n, k, e)' <=> Owns(n, k, e)
HandsStay(e) == \A t \in Threads : Holds(t, e)' <=> Holds(t, e)

LEMMA Stays ==
    ASSUME NEW e \in Entries, HoldersInv(e), released'[e] = released[e], e \in fresh' <=> e \in fresh,
           OwnersStay(e), HandsStay(e), Versioned(e) => Versioned(e)'
    PROVE  HoldersInv(e)'
BY DEF HoldersInv, OwnersStay, HandsStay

LEMMA Taken ==
    ASSUME NEW e \in Entries, HoldersInv(e), released'[e] = released[e], e \in fresh, e \notin fresh',
           OwnersStay(e), NEW t \in Threads, \A u \in Threads : Holds(u, e)' <=> u = t
    PROVE  HoldersInv(e)'
BY DEF HoldersInv, OwnersStay

LEMMA Stored ==
    ASSUME NEW e \in Entries, HoldersInv(e), released'[e] = released[e], e \in fresh' <=> e \in fresh,
           NEW t \in Threads, Holds(t, e), \A u \in Threads : ~Holds(u, e)',
           NEW n \in Tables, NEW k \in Keys,
           \A m \in Tables, l \in Keys : Owns(m, l, e)' <=> m = n /\ l = k
    PROVE  HoldersInv(e)'
BY DEF HoldersInv

LEMMA ReleasedOnce ==
    ASSUME NEW e \in Entries, HoldersInv(e), released'[e] = released[e] + 1,
           e \in fresh' <=> e \in fresh, HandsStay(e), NEW n \in Tables, NEW k \in Keys, Owns(n, k, e),
           \A m \in Tables, l \in Keys : ~Owns(m, l, e)'
    PROVE  HoldersInv(e)'
<1>1. released[e] = 0 /\ e \notin fresh /\ \A u \in Threads : ~Holds(u, e)
  BY DEF HoldersInv
<1>2. released'[e] = 1 BY <1>1
<1> QED BY <1>1, <1>2 DEF HoldersInv, HandsStay

LEMMA Appended ==
    ASSUME NEW e \in Entries, HoldersInv(e), released'[e] = released[e], e \in fresh' <=> e \in fresh,
           OwnersStay(e), NEW t \in Threads, Holds(t, e), \A u \in Threads : ~Holds(u, e)',
           Versioned(e)'
    PROVE  HoldersInv(e)'
BY DEF HoldersInv, OwnersStay

LEMMA GivenBack ==
    ASSUME NEW e \in Entries, HoldersInv(e), released'[e] = released[e], e \in fresh',
           OwnersStay(e), NEW t \in Threads, Holds(t, e), \A u \in Threads : ~Holds(u, e)'
    PROVE  HoldersInv(e)'
BY DEF HoldersInv, OwnersStay

LEMMA HandedOn ==
    ASSUME NEW e \in Entries, HoldersInv(e), released'[e] = released[e], e \in fresh' <=> e \in fresh,
           HandsStay(e), NEW n \in Tables, NEW k \in Keys, Owns(n, k, e),
           NEW m \in Tables, \A p \in Tables, l \in Keys : Owns(p, l, e)' <=> p = m /\ l = k
    PROVE  HoldersInv(e)'
<1>1. released[e] = 0 /\ e \notin fresh /\ \A u \in Threads : ~Holds(u, e)
  BY DEF HoldersInv
<1> QED BY <1>1 DEF HoldersInv, HandsStay

-----------------------------------------------------------------------------
(* A value is put into a table: what it displaces is released.             *)

LEMMA PutStored ==
    ASSUME CacheInv, \A e \in Entries : HoldersInv(e), NEW n \in Tables, NEW k \in Keys,
           NEW x \in Entries, Put(n, k, Ref(x, FALSE)), NEW t \in Threads, Holds(t, x),
           UNCHANGED <<hist, fresh, mine>>, \A u \in Threads : ~Holds(u, x)',
           \A e \in Entries \ {x} : HandsStay(e)
    PROVE  \A e \in Entries : HoldersInv(e)'
<1> DEFINE r == Ref(x, FALSE)
<1>1. r \in Refs /\ r.ptr = x /\ r.shared = FALSE BY RefIsRef, RefParts
<1>2. /\ \A m \in Tables, l \in Keys : m # n \/ l # k => val'[m][l] = val[m][l]
      /\ val'[n][k] = r
      /\ \A e \in Entries : released'[e] = IF Owns(n, k, e) THEN released[e] + 1 ELSE released[e]
  BY <1>1, PutValues, ZenonT(40)
<1> HIDE DEF r
<1>3. HoldersInv(x)'
  <2>1. \A m \in Tables, l \in Keys : ~Owns(m, l, x) BY DEF HoldersInv
  <2>2. \A m \in Tables, l \in Keys : Owns(m, l, x)' <=> m = n /\ l = k
    BY <1>1, <1>2, <2>1 DEF Owns
  <2>3. released'[x] = released[x] BY <1>2, <2>1
  <2> QED BY <2>2, <2>3, Stored
<1>4. ASSUME NEW e \in Entries, e # x PROVE HoldersInv(e)'
  <2>1. HandsStay(e) /\ (Versioned(e) => Versioned(e)') BY <1>4 DEF Versioned
  <2>2. CASE Owns(n, k, e)
    <3>1. \A m \in Tables, l \in Keys : m # n \/ l # k => ~Owns(m, l, e) BY <2>2 DEF HoldersInv
    <3>2. \A m \in Tables, l \in Keys : ~Owns(m, l, e)' BY <1>1, <1>2, <1>4, <3>1 DEF Owns
    <3> QED BY <1>2, <2>1, <2>2, <3>2, ReleasedOnce
  <2>3. CASE ~Owns(n, k, e)
    <3>1. OwnersStay(e) BY <1>1, <1>2, <1>4, <2>3 DEF OwnersStay, Owns
    <3> QED BY <1>2, <2>1, <2>3, <3>1, Stays
  <2> QED BY <2>2, <2>3
<1> QED BY <1>3, <1>4

LEMMA PutOther ==
    ASSUME CacheInv, \A e \in Entries : HoldersInv(e), NEW n \in Tables, NEW k \in Keys,
           NEW r \in Refs, r.shared \/ r.ptr = Nil, Put(n, k, r),
           UNCHANGED <<hist, fresh, mine>>, \A e \in Entries : HandsStay(e)
    PROVE  \A e \in Entries : HoldersInv(e)'
<1>2. /\ \A m \in Tables, l \in Keys : m # n \/ l # k => val'[m][l] = val[m][l]
      /\ val'[n][k] = r
      /\ \A e \in Entries : released'[e] = IF Owns(n, k, e) THEN released[e] + 1 ELSE released[e]
  BY PutValues
<1>3. \A e \in Entries : ~Owns(n, k, e)' BY <1>2, NilAssumption DEF Owns
<1>4. ASSUME NEW e \in Entries PROVE HoldersInv(e)'
  <2>1. HandsStay(e) /\ (Versioned(e) => Versioned(e)') BY DEF Versioned
  <2>2. CASE Owns(n, k, e)
    <3>1. \A m \in Tables, l \in Keys : m # n \/ l # k => ~Owns(m, l, e) BY <2>2 DEF HoldersInv
    <3>2. \A m \in Tables, l \in Keys : ~Owns(m, l, e)' BY <1>2, <1>3, <3>1 DEF Owns
    <3> QED BY <1>2, <2>1, <2>2, <3>2, ReleasedOnce
  <2>3. CASE ~Owns(n, k, e)
    <3>1. OwnersStay(e) BY <1>2, <1>3, <2>3 DEF OwnersStay, Owns
    <3> QED BY <1>2, <2>1, <2>3, <3>1, Stays
  <2> QED BY <2>2, <2>3
<1> QED BY <1>4

(* Nothing of this changes. *)
LEMMA HoldersStay ==
    ASSUME \A e \in Entries : HoldersInv(e), UNCHANGED <<val, released, fresh, hist>>,
           \A e \in Entries : HandsStay(e)
    PROVE  \A e \in Entries : HoldersInv(e)'
<1> SUFFICES ASSUME NEW e \in Entries PROVE HoldersInv(e)'
  OBVIOUS
<1>1. OwnersStay(e) /\ (Versioned(e) => Versioned(e)') BY DEF OwnersStay, Owns, Versioned
<1> QED BY <1>1, Stays

-----------------------------------------------------------------------------
(* What keeps the other parts.                                             *)

Before == {"flush_building"} \cup Copying    \* the swap

LEMMA SharedPut ==
    ASSUME CacheInv, SharedInv, NEW n \in Tables, NEW k \in Keys, NEW r \in Refs, Put(n, k, r),
           UNCHANGED <<rootVars, old>>,
           phase' = "idle" <=> phase = "idle", phase' \in Before <=> phase \in Before,
           r.shared => n = old + 1 /\ phase # "idle" /\ Owns(old, k, r.ptr),
           n = old => \A m \in Tables : ~val[m][k].shared,
           ~r.shared => n = old \/ phase \notin Before,
           \A u \in Threads : pc'[u] = "share" => Owns(old, key[u], cur[u])'
    PROVE  SharedInv'
<1>1. /\ \A m \in Tables, l \in Keys : m # n \/ l # k => val'[m][l] = val[m][l]
      /\ val'[n][k] = r
  BY PutValues
<1>2. phase # "idle" => old \in Tables BY DEF CacheInv, RebuildInv, TablesInv
<1>3. phase \in Before => building_ \in Tables /\ building_ = old + 1 /\ building_ # old
  BY <1>2 DEF CacheInv, RebuildInv, TablesInv, Before, Tables
<1>4. old \in Nat BY DEF CacheInv, RebuildInv, TablesInv
<1>5. ASSUME NEW m \in Tables, NEW l \in Keys, val'[m][l].shared
      PROVE  phase' # "idle" /\ m = old' + 1 /\ Owns(old, l, val[m][l].ptr)'
  <2>1. CASE m = n /\ l = k
    BY <1>1, <1>2, <1>4, <1>5, <2>1 DEF Owns
  <2>2. CASE m # n \/ l # k
    <3>1. val'[m][l] = val[m][l] BY <1>1, <2>2
    <3>2. phase # "idle" /\ m = old + 1 /\ Owns(old, l, val[m][l].ptr)
      BY <1>5, <3>1 DEF SharedInv
    <3>3. old # n \/ l # k BY <1>5, <3>1
    <3>4. val'[old][l] = val[old][l] BY <1>1, <1>2, <3>2, <3>3
    <3> QED BY <3>1, <3>2, <3>4 DEF Owns
  <2> QED BY <2>1, <2>2
<1>6. ASSUME phase' \in Before, NEW l \in Keys, val'[building_'][l].ptr # Nil
      PROVE  val'[building_'][l].shared
  <2>1. building_' = building_ /\ phase \in Before BY <1>6 DEF rootVars
  <2>2. CASE building_ = n /\ l = k BY <1>1, <1>3, <2>1, <2>2
  <2>3. CASE building_ # n \/ l # k BY <1>1, <1>3, <1>6, <2>1, <2>3 DEF SharedInv, Before
  <2> QED BY <2>2, <2>3
<1> QED BY <1>5, <1>6 DEF SharedInv, Before

LEMMA SharedStay ==
    ASSUME SharedInv, UNCHANGED <<building_, val, old>>,
           phase' = "idle" <=> phase = "idle", phase' \in Before => phase \in Before,
           \A u \in Threads : pc'[u] = "share" => pc[u] = "share" /\ key'[u] = key[u] /\ cur'[u] = cur[u]
    PROVE  SharedInv'
BY DEF SharedInv, Owns, Before

LEMMA FoundKept ==
    ASSUME FoundInv,
           \A e \in fresh' : e \in fresh \/ \E v \in Threads : Holds(v, e),
           \A e \in Entries, v \in Threads : Holds(v, e)' => Holds(v, e) \/ e \in fresh,
           \A u \in Threads : pc'[u] = "version" =>
               \/ pc[u] = "version" /\ cur'[u] = cur[u]
               \/ cur'[u] \in Entries /\ cur'[u] \notin fresh /\ \A v \in Threads : ~Holds(v, cur'[u])
    PROVE  FoundInv'
<1> SUFFICES ASSUME NEW u \in Threads, pc'[u] = "version"
             PROVE  cur'[u] \in Entries /\ cur'[u] \notin fresh' /\ \A v \in Threads : ~Holds(v, cur[u])'
  BY DEF FoundInv
<1>1. PICK c : c = cur'[u] OBVIOUS
<1>2. c \in Entries /\ c \notin fresh /\ \A v \in Threads : ~Holds(v, c)
  BY <1>1 DEF FoundInv
<1>3. c \notin fresh' BY <1>2
<1>4. \A v \in Threads : ~Holds(v, c)' BY <1>2
<1> QED BY <1>1, <1>2, <1>3, <1>4 DEF Holds

(* A value in a table has an owner, under the same key. *)
LEMMA ValueOwned ==
    ASSUME OwnInv, ~stray, NEW n \in Tables, NEW k \in Keys, val[n][k].ptr # Nil
    PROVE  /\ val[n][k].ptr \in Entries /\ \E m \in Tables : Owns(m, k, val[n][k].ptr)
           /\ val[n][k].ptr \notin fresh /\ released[val[n][k].ptr] = 0
           /\ \A t \in Threads : ~Holds(t, val[n][k].ptr)
<1>1. val[n][k].ptr \in Entries BY ValueType DEF OwnInv, CacheInv
<1>2. \E m \in Tables : Owns(m, k, val[n][k].ptr)
  <2>1. phase # "idle" => old \in Tables BY DEF OwnInv, CacheInv, RebuildInv, TablesInv
  <2> QED BY <2>1 DEF OwnInv, SharedInv, Owns
<1> QED BY <1>1, <1>2 DEF OwnInv, HoldersInv

(* Every other thread stays where it is. *)
OthersStay(t) ==
    \A u \in Threads \ {t} :
        /\ pc'[u] = pc[u] /\ op'[u] = op[u] /\ key'[u] = key[u] /\ mine'[u] = mine[u]
        /\ cur'[u] = cur[u] /\ res'[u] = res[u]

LEMMA HandsKeep ==
    ASSUME NEW t \in Threads, OthersStay(t), NEW e, Holds(t, e)' <=> Holds(t, e)
    PROVE  HandsStay(e)
BY DEF OthersStay, HandsStay, Holds

LEMMA FinishOthers ==
    ASSUME CacheInv, NEW t \in Threads, NEW r, Finish(t, r), UNCHANGED argVars
    PROVE  OthersStay(t) /\ pc'[t] = "return" /\ res'[t] = r /\ mine'[t] = mine[t] /\ op'[t] = op[t]
           /\ key'[t] = key[t]
BY DEF CacheInv, ArgsType, LocalsType, Finish, Goto, OthersStay, argVars

LEMMA LeaveOthers ==
    ASSUME CacheInv, NEW t \in Threads, Leave(t)
    PROVE  OthersStay(t) /\ pc'[t] = "idle" /\ mine'[t] = Nil /\ op'[t] = "get"
BY DEF CacheInv, ArgsType, LocalsType, Leave, Goto, OthersStay

LEMMA GoesOnOthers ==
    ASSUME CacheInv, NEW t \in Threads, NEW p, Goto(t, p), NEW e, cur' = [cur EXCEPT ![t] = e],
           UNCHANGED <<argVars, res>>
    PROVE  OthersStay(t) /\ pc'[t] = p /\ cur'[t] = e /\ mine'[t] = mine[t] /\ op'[t] = op[t]
           /\ key'[t] = key[t] /\ res'[t] = res[t]
BY DEF CacheInv, ArgsType, LocalsType, Goto, OthersStay, argVars

-----------------------------------------------------------------------------
(* The steps of a client.                                                  *)

(* A thread that does not touch tables and entries, and holds what it held. *)
LEMMA OwnQuiet ==
    ASSUME OwnInv, CacheInv', NEW t \in Threads, OthersStay(t), BroughtInv(t)',
           UNCHANGED <<rootVars, used, val, fresh, hist, released, phase, old, todo, item, stray>>,
           \A e \in Entries : Holds(t, e)' <=> Holds(t, e),
           pc'[t] = "share" => pc[t] = "share" /\ key'[t] = key[t] /\ cur'[t] = cur[t],
           ~stray /\ pc'[t] = "version" =>
               cur'[t] \in Entries /\ cur'[t] \notin fresh /\ \A v \in Threads : ~Holds(v, cur'[t])
    PROVE  OwnInv'
<1>1. PlacesInv' BY PlacesStay DEF OwnInv
<1>2. \A u \in Threads : BroughtInv(u)' BY BroughtKept DEF OwnInv, OthersStay
<1>3. ASSUME ~stray PROVE SharedInv' /\ FoundInv' /\ \A e \in Entries : HoldersInv(e)'
  <2>1. SharedInv' BY <1>3, SharedStay DEF OwnInv, OthersStay, rootVars
  <2>2. \A e \in Entries : HandsStay(e) BY HandsKeep
  <2>3. \A e \in Entries : HoldersInv(e)' BY <1>3, <2>2, HoldersStay DEF OwnInv
  <2>4. FoundInv'
    <3>1. \A e \in Entries, v \in Threads : Holds(v, e)' => Holds(v, e) BY <2>2 DEF HandsStay
    <3>2. \A u \in Threads : pc'[u] = "version" =>
             \/ pc[u] = "version" /\ cur'[u] = cur[u]
             \/ cur'[u] \in Entries /\ cur'[u] \notin fresh /\ \A v \in Threads : ~Holds(v, cur'[u])
      BY <1>3 DEF OthersStay
    <3> QED BY <1>3, <3>1, <3>2, FoundKept DEF OwnInv
  <2> QED BY <2>1, <2>3, <2>4
<1> QED BY <1>1, <1>2, <1>3 DEF OwnInv

LEMMA OwnStore ==
    ASSUME OwnInv, NEW t \in Threads, store(t)
    PROVE  OwnInv'
<1>0. CacheInv' BY ClientType DEF Client, OwnInv
<1>1. PICK o \in Storers, k \in Keys, x \in fresh : Begin(t, o, k, x) /\ fresh' = fresh \ {x}
  BY DEF store
<1>2. /\ pc[t] = "idle" /\ pc'[t] = "is_building" /\ mine'[t] = x /\ op'[t] = o
      /\ OthersStay(t) /\ x \in Entries
      /\ UNCHANGED <<rootVars, used, val, hist, released, phase, old, todo, item, stray>>
  BY <1>1 DEF Begin, At, Goto, OthersStay, Writers, OwnInv, CacheInv, ArgsType, HeapType, tableVars,
              collectVars
<1>3. PlacesInv' BY <1>2, PlacesStay DEF OwnInv
<1>4. \A u \in Threads : BroughtInv(u)'
  BY <1>2, BroughtKept DEF OwnInv, OthersStay, BroughtInv
<1>5. ASSUME ~stray PROVE SharedInv' /\ FoundInv' /\ \A e \in Entries : HoldersInv(e)'
  <2>1. SharedInv' BY <1>2, <1>5, SharedStay DEF OwnInv, OthersStay, rootVars
  <2>2. \A e \in Entries \ {x} : HandsStay(e)
    <3> SUFFICES ASSUME NEW e \in Entries \ {x} PROVE HandsStay(e)
      OBVIOUS
    <3>1. ~Holds(t, e)' /\ ~Holds(t, e) BY <1>2 DEF Holds
    <3> QED BY <1>2, <3>1, HandsKeep
  <2>3. \A u \in Threads : Holds(u, x)' <=> u = t
    <3>1. \A u \in Threads : ~Holds(u, x) BY <1>1, <1>2, <1>5 DEF OwnInv, HoldersInv
    <3> QED BY <1>2, <3>1 DEF Holds, OthersStay
  <2>4. \A e \in Entries : OwnersStay(e) /\ (Versioned(e) => Versioned(e)')
    BY <1>2 DEF OwnersStay, Owns, Versioned
  <2>5. ASSUME NEW e \in Entries PROVE HoldersInv(e)'
    <3>1. CASE e = x
      BY <1>1, <1>2, <1>5, <2>3, <2>4, <3>1, Taken DEF OwnInv
    <3>2. CASE e # x
      BY <1>1, <1>2, <1>5, <2>2, <2>4, <3>2, Stays DEF OwnInv
    <3> QED BY <3>1, <3>2
  <2>6. FoundInv'
    <3>1. \A e \in Entries, v \in Threads : Holds(v, e)' => Holds(v, e) \/ e \in fresh
      BY <1>1, <2>2, <2>3 DEF HandsStay
    <3>2. \A u \in Threads : pc'[u] = "version" => pc[u] = "version" /\ cur'[u] = cur[u]
      BY <1>2 DEF OthersStay
    <3> QED BY <1>1, <1>5, <3>1, <3>2, FoundKept DEF OwnInv
  <2> QED BY <2>1, <2>5, <2>6
<1> QED BY <1>0, <1>2, <1>3, <1>4, <1>5 DEF OwnInv

LEMMA OwnRequest ==
    ASSUME OwnInv, NEW t \in Threads, request(t)
    PROVE  OwnInv'
<1>0. CacheInv' BY ClientType DEF Client, OwnInv
<1>1. PICK o \in {"del", "get"}, k \in Keys : Begin(t, o, k, Nil) /\ UNCHANGED fresh
  BY DEF request
<1>2. /\ pc[t] = "idle" /\ pc'[t] \in {"is_building", "find"} /\ mine'[t] = Nil /\ op'[t] = o
      /\ OthersStay(t)
      /\ UNCHANGED <<rootVars, used, val, hist, released, phase, old, todo, item, stray>>
  BY <1>1 DEF Begin, At, Goto, OthersStay, OwnInv, CacheInv, ArgsType, tableVars, collectVars
<1>3. BroughtInv(t)' BY <1>2 DEF BroughtInv
<1>4. \A e \in Entries : Holds(t, e)' <=> Holds(t, e) BY <1>2, NilAssumption DEF Holds
<1> QED BY <1>0, <1>1, <1>2, <1>3, <1>4, OwnQuiet

LEMMA OwnLoadBuilding ==
    ASSUME OwnInv, NEW t \in Threads, load_building(t)
    PROVE  OwnInv'
<1>0. CacheInv' BY ClientType DEF Client, OwnInv
<1>1. /\ pc[t] = "is_building" /\ pc'[t] = "act" /\ mine'[t] = mine[t] /\ op'[t] = op[t]
      /\ OthersStay(t)
      /\ UNCHANGED <<rootVars, used, val, fresh, hist, released, phase, old, todo, item, stray>>
  BY DEF load_building, At, Goto, OthersStay, OwnInv, CacheInv, ArgsType, tableVars, heapVars, argVars,
         collectVars
<1>2. BroughtInv(t)' BY <1>1 DEF BroughtInv, OwnInv
<1>3. \A e \in Entries : Holds(t, e)' <=> Holds(t, e) BY <1>1 DEF Holds
<1> QED BY <1>0, <1>1, <1>2, <1>3, OwnQuiet

(* The operation has failed: the thread goes on holding what it brought. *)
LEMMA OwnFailed ==
    ASSUME OwnInv, CacheInv', NEW t \in Threads, pc[t] \in {"act", "version"}, Finish(t, "failed"),
           UNCHANGED <<argVars, rootVars, used, val, fresh, hist, released, phase, old, todo, item,
                       stray>>
    PROVE  OwnInv'
<1>1. OthersStay(t) /\ pc'[t] = "return" /\ res'[t] = "failed" /\ mine'[t] = mine[t] /\ op'[t] = op[t]
  BY FinishOthers DEF OwnInv
<1>2. BroughtInv(t)' BY <1>1 DEF BroughtInv, OwnInv
<1>3. \A e \in Entries : Holds(t, e)' <=> Holds(t, e) BY <1>1 DEF Holds
<1> QED BY <1>1, <1>2, <1>3, OwnQuiet

(* The key has an entry: the thread goes on to give it a version. *)
LEMMA OwnFinds ==
    ASSUME OwnInv, CacheInv', NEW t \in Threads, pc[t] = "act", Value(t).ptr # Nil,
           Goto(t, "version"), cur' = [cur EXCEPT ![t] = Value(t).ptr],
           UNCHANGED <<argVars, res, rootVars, used, val, fresh, hist, released, phase, old, todo,
                       item, stray>>
    PROVE  OwnInv'
<1>1. OthersStay(t) /\ pc'[t] = "version" /\ cur'[t] = Value(t).ptr /\ mine'[t] = mine[t]
      /\ op'[t] = op[t]
  BY GoesOnOthers DEF OwnInv
<1>2. BroughtInv(t)' BY <1>1 DEF BroughtInv, OwnInv
<1>3. \A e \in Entries : Holds(t, e)' <=> Holds(t, e) BY <1>1 DEF Holds
<1>4. tab[t] \in Tables /\ key[t] \in Keys BY HasTable DEF OwnInv
<1>5. ~stray => cur'[t] \in Entries /\ cur'[t] \notin fresh /\ \A v \in Threads : ~Holds(v, cur'[t])
  BY <1>1, <1>4, ValueOwned DEF Value
<1> QED BY <1>1, <1>2, <1>3, <1>5, OwnQuiet

(* The operation is over: nothing was held, or it is given back. *)
LEMMA OwnLeave ==
    ASSUME OwnInv, CacheInv', NEW t \in Threads, Leave(t), \A e \in Entries : ~Holds(t, e),
           UNCHANGED <<rootVars, used, val, fresh, hist, released, phase, old, todo, item, stray>>
    PROVE  OwnInv'
<1>1. OthersStay(t) /\ pc'[t] = "idle" /\ mine'[t] = Nil /\ op'[t] = "get" BY LeaveOthers DEF OwnInv
<1>2. BroughtInv(t)' BY <1>1 DEF BroughtInv
<1>3. \A e \in Entries : Holds(t, e)' <=> Holds(t, e) BY <1>1 DEF Holds
<1> QED BY <1>1, <1>2, <1>3, OwnQuiet

LEMMA OwnReturn ==
    ASSUME OwnInv, NEW t \in Threads, return(t)
    PROVE  OwnInv'
<1>0. CacheInv' BY ClientType DEF Client, OwnInv
<1>1. /\ pc[t] = "return" /\ Leave(t)
      /\ fresh' = IF res[t] = "failed" THEN fresh \cup ({mine[t]} \ {Nil}) ELSE fresh
      /\ UNCHANGED <<rootVars, used, val, hist, released, phase, old, todo, item, stray>>
  BY DEF return, At, tableVars
<1>2. OthersStay(t) /\ pc'[t] = "idle" /\ mine'[t] = Nil /\ op'[t] = "get"
  BY <1>1, LeaveOthers DEF OwnInv
<1>3. CASE res[t] # "failed" \/ mine[t] = Nil
  <2>1. \A e \in Entries : ~Holds(t, e) BY <1>1, <1>3, NilAssumption DEF Holds
  <2>2. fresh' = fresh BY <1>1, <1>3
  <2> QED BY <1>0, <1>1, <2>1, <2>2, OwnLeave
<1>4. CASE res[t] = "failed" /\ mine[t] # Nil
  <2>0. PICK x : x = mine[t] OBVIOUS
  <2>1. x \in Entries /\ Holds(t, x) /\ fresh' = fresh \cup {x}
    BY <1>1, <1>4, <2>0 DEF OwnInv, CacheInv, ArgsType, Holds
  <2>2. PlacesInv' BY <1>1, PlacesStay DEF OwnInv
  <2>3. \A u \in Threads : BroughtInv(u)'
    BY <1>2, BroughtKept DEF OwnInv, OthersStay, BroughtInv
  <2>4. ASSUME ~stray PROVE SharedInv' /\ FoundInv' /\ \A e \in Entries : HoldersInv(e)'
    <3>1. SharedInv' BY <1>1, <1>2, <2>4, SharedStay DEF OwnInv, OthersStay, rootVars
    <3>2. \A e \in Entries \ {x} : HandsStay(e)
      <4> SUFFICES ASSUME NEW e \in Entries \ {x} PROVE HandsStay(e)
        OBVIOUS
      <4>1. ~Holds(t, e)' /\ ~Holds(t, e) BY <1>2, <2>0 DEF Holds
      <4> QED BY <1>2, <4>1, HandsKeep
    <3>3. \A u \in Threads : ~Holds(u, x)'
      <4>1. \A u \in Threads \ {t} : ~Holds(u, x) BY <2>1, <2>4 DEF OwnInv, HoldersInv
      <4> QED BY <1>2, <4>1 DEF Holds, OthersStay
    <3>4. \A e \in Entries : OwnersStay(e) /\ (Versioned(e) => Versioned(e)')
      BY <1>1 DEF OwnersStay, Owns, Versioned
    <3>5. ASSUME NEW e \in Entries PROVE HoldersInv(e)'
      <4>1. CASE e = x
        BY <1>1, <2>1, <2>4, <3>3, <3>4, <4>1, GivenBack DEF OwnInv
      <4>2. CASE e # x
        BY <1>1, <2>1, <2>4, <3>2, <3>4, <4>2, Stays DEF OwnInv
      <4> QED BY <4>1, <4>2
    <3>6. FoundInv'
      <4>1. \A e \in Entries, v \in Threads : Holds(v, e)' => Holds(v, e)
        BY <3>2, <3>3 DEF HandsStay
      <4>2. \A u \in Threads : pc'[u] = "version" => pc[u] = "version" /\ cur'[u] = cur[u]
        BY <1>2 DEF OthersStay
      <4>3. \A e \in fresh' : e \in fresh \/ \E v \in Threads : Holds(v, e) BY <2>1
      <4> QED BY <2>4, <4>1, <4>2, <4>3, FoundKept DEF OwnInv
    <3> QED BY <3>1, <3>5, <3>6
  <2> QED BY <1>0, <1>1, <2>2, <2>3, <2>4 DEF OwnInv
<1> QED BY <1>3, <1>4

(* A thread that is about to store or to delete, and does. *)
LEMMA HandsPut ==
    ASSUME CacheInv, NEW t \in Threads, OthersStay(t), mine'[t] = mine[t],
           pc[t] = "act", pc'[t] = "share" \/ (pc'[t] = "return" /\ res'[t] # "failed")
    PROVE  /\ Holds(t, mine[t]) /\ \A e \in Entries \ {mine[t]} : HandsStay(e)
           /\ \A e : ~Holds(t, e)'
<1>1. Holds(t, mine[t]) /\ \A e : ~Holds(t, e)' BY DEF Holds
<1>2. \A e \in Entries \ {mine[t]} : ~Holds(t, e) BY DEF Holds
<1> QED BY <1>1, <1>2, HandsKeep

(* An operation with one table that does not stray leaves alone what is, or will be, shared. *)
LEMMA NotStraying ==
    ASSUME OwnInv, NEW t \in Threads, ~stray, ~Strays(t), tab[t] = old, phase # "idle"
    PROVE  /\ \A m \in Tables : ~val[m][key[t]].shared
           /\ \A u \in Threads : pc[u] = "share" => key[u] # key[t]
<1>1. TablesInv /\ PlacesInv /\ SharedInv /\ key[t] \in Keys
  BY DEF OwnInv, CacheInv, RebuildInv, ArgsType
<1>2. phase \in Before /\ building_ = old + 1 /\ building_ \in Tables /\ building_ \notin {NoTable, tab[t]}
  BY <1>1 DEF TablesInv, Strays, Before, Copying, Tables, NoTable
<1>3. val[building_][key[t]].ptr = Nil BY <1>2 DEF Strays
<1>4. \A m \in Tables : ~val[m][key[t]].shared
  BY <1>1, <1>2, <1>3 DEF SharedInv, PlacesInv
<1> QED BY <1>2, <1>4 DEF Strays

LEMMA OwnPlain ==
    ASSUME OwnInv, NEW t \in Threads, plain(t)
    PROVE  OwnInv'
<1>0. CacheInv' BY ClientType DEF Client, OwnInv
<1>a. PICK n, k, x : n = tab[t] /\ k = key[t] /\ x = mine[t] OBVIOUS
<1>b. PICK own : own = Ref(x, FALSE) OBVIOUS
<1>1. /\ pc[t] = "act" /\ ~is_building(t) /\ stray' = (stray \/ Strays(t))
      /\ UNCHANGED <<rootVars, hist, fresh, phase, old, todo, item, argVars>>
  BY DEF plain, At, collectVars
<1>2. n \in Tables /\ n \in InUse /\ k \in Keys /\ (phase = "settle" => n # old)
      /\ phase \notin Copying
  BY <1>a, <1>1, Working, HasTable DEF OwnInv
<1>3. CASE Finish(t, "failed") /\ UNCHANGED <<tableVars, released>>
  <2>1. ~stray' => ~stray BY <1>1
  <2>2. CASE stray' = stray BY <1>0, <1>1, <1>3, <2>2, OwnFailed DEF tableVars
  <2>3. CASE stray' # stray
    <3>1. stray' BY <1>1, <2>3 DEF OwnInv, CacheInv, CollectType
    <3>2. PlacesInv' BY <1>1, <1>3, PlacesStay DEF OwnInv, tableVars
    <3>3. OthersStay(t) /\ pc'[t] = "return" /\ op'[t] = op[t] /\ mine'[t] = mine[t]
      BY <1>1, <1>3, FinishOthers DEF OwnInv
    <3>4. \A u \in Threads : BroughtInv(u)'
      BY <3>3, BroughtKept DEF OwnInv, OthersStay, BroughtInv
    <3> QED BY <1>0, <3>1, <3>2, <3>4 DEF OwnInv
  <2> QED BY <2>2, <2>3
<1>4. ASSUME NEW r \in Refs, NEW a \in {"stored", "deleted"}, Put(n, k, r), Finish(t, a), ~r.shared,
             (r = own /\ x \in Entries) \/ (r = NullRef /\ x = Nil)
      PROVE  OwnInv'
  <2>1. OthersStay(t) /\ pc'[t] = "return" /\ op'[t] = op[t] /\ mine'[t] = mine[t] /\ res'[t] = a
        /\ key' = key
    BY <1>1, <1>4, FinishOthers DEF OwnInv, argVars
  <2>2. PlacesInv'
    <3>1. phase # "add_shared" BY <1>2 DEF Copying
    <3> QED BY <1>1, <1>2, <1>4, <3>1, PlacesPut DEF OwnInv
  <2>3. \A u \in Threads : BroughtInv(u)'
    BY <2>1, BroughtKept DEF OwnInv, OthersStay, BroughtInv
  <2>4. ASSUME ~stray' PROVE SharedInv' /\ FoundInv' /\ \A e \in Entries : HoldersInv(e)'
    <3>1. ~stray /\ ~Strays(t) BY <1>1, <2>4
    <3>2. SharedInv /\ FoundInv /\ (\A e \in Entries : HoldersInv(e)) /\ CacheInv
      BY <3>1 DEF OwnInv
    <3>3. Holds(t, x) /\ (\A e \in Entries \ {x} : HandsStay(e)) /\ \A e : ~Holds(t, e)'
      BY <1>a, <1>1, <2>1, <3>2, HandsPut
    <3>4. \A e \in Entries : HoldersInv(e)'
      <4>1. CASE r = own /\ x \in Entries
        <5>1. \A u \in Threads : ~Holds(u, x)'
          <6>1. \A u \in Threads \ {t} : ~Holds(u, x) BY <3>2, <3>3, <4>1 DEF HoldersInv
          <6> QED BY <2>1, <3>3, <6>1 DEF Holds, OthersStay
        <5> QED BY <1>b, <1>1, <1>2, <1>4, <3>2, <3>3, <4>1, <5>1, PutStored DEF argVars
      <4>2. CASE r = NullRef /\ x = Nil
        <5>1. \A e \in Entries : HandsStay(e) BY <3>3, <4>2, NilAssumption
        <5>2. r.ptr = Nil BY <4>2, RefParts
        <5> QED BY <1>1, <1>2, <1>4, <3>2, <5>1, <5>2, PutOther DEF argVars
      <4> QED BY <1>4, <4>1, <4>2
    <3>5. FoundInv'
      <4>1. \A e \in Entries, v \in Threads : Holds(v, e)' => Holds(v, e)
        BY <2>1, <3>3 DEF Holds, OthersStay
      <4>2. \A u \in Threads : pc'[u] = "version" => pc[u] = "version" /\ cur'[u] = cur[u]
        BY <2>1 DEF OthersStay
      <4> QED BY <1>1, <3>2, <4>1, <4>2, FoundKept
    <3>6. SharedInv'
      <4>1. n = entries_ BY <1>a, <3>1 DEF Strays
      <4>2. phase = "idle" => old = NoTable BY DEF OwnInv, PlacesInv
      <4>3. TablesInv BY <3>2 DEF CacheInv, RebuildInv
      <4>4. n = old => phase # "idle" BY <1>2, <4>2 DEF Tables, NoTable
      <4>5. n = old => \A m \in Tables : ~val[m][k].shared BY <1>a, <3>1, <4>4, NotStraying
      <4>6. n = old \/ phase \notin Before BY <4>1, <4>3 DEF TablesInv, Before
      <4>7. ASSUME NEW u \in Threads, pc'[u] = "share" PROVE Owns(old, key[u], cur[u])'
        <5>1. pc[u] = "share" /\ key'[u] = key[u] /\ cur'[u] = cur[u] BY <2>1, <4>7 DEF OthersStay
        <5>2. Owns(old, key[u], cur[u]) BY <3>2, <5>1 DEF SharedInv
        <5>3. key[u] # k \/ n # old BY <1>a, <3>1, <4>4, <5>1, NotStraying
        <5>4. is_building(u) BY <3>2, <5>1 DEF CacheInv, RebuildInv, LoadedInv
        <5>5. old \in Tables /\ key[u] \in Keys BY <3>2, <5>1, <5>4, Working, HasTable
        <5>6. val'[old][key[u]] = val[old][key[u]] BY <1>2, <1>4, <3>2, <5>3, <5>5, PutValues
        <5> QED BY <1>1, <5>1, <5>2, <5>6 DEF Owns
      <4> QED BY <1>1, <1>2, <1>4, <3>2, <4>5, <4>6, <4>7, SharedPut
    <3> QED BY <3>4, <3>5, <3>6
  <2> QED BY <1>0, <2>2, <2>3, <2>4 DEF OwnInv
<1>5. CASE op[t] \in Storers /\ Put(n, k, own) /\ Finish(t, "stored")
  <2>1. x \in Entries BY <1>a, <1>1, <1>5 DEF OwnInv, CacheInv, HandsInv
  <2>2. own \in Refs /\ ~own.shared BY <1>b, <2>1, RefIsRef, RefParts
  <2> QED BY <1>4, <1>5, <2>1, <2>2
<1>6. CASE op[t] = "del" /\ Put(n, k, NullRef) /\ Finish(t, "deleted")
  <2>1. x = Nil BY <1>a, <1>6 DEF OwnInv, BroughtInv, Storers
  <2>2. NullRef \in Refs /\ ~NullRef.shared BY RefIsRef, RefParts DEF NullRef
  <2> QED BY <1>4, <1>6, <2>1, <2>2
<1> QED BY <1>a, <1>b, <1>3, <1>5, <1>6 DEF plain, Storers

LEMMA OwnAddEntry ==
    ASSUME OwnInv, NEW t \in Threads, add_entry(t)
    PROVE  OwnInv'
<1>0. CacheInv' BY ClientType DEF Client, OwnInv
<1>a. PICK n, k, x : n = tab[t] /\ k = key[t] /\ x = mine[t] OBVIOUS
<1>b. PICK own : own = Ref(x, FALSE) OBVIOUS
<1>1. /\ pc[t] = "act" /\ is_building(t) /\ op[t] \in {"set", "add"} /\ val[n][k].ptr = Nil
      /\ Put(n, k, own) /\ cur' = [cur EXCEPT ![t] = x] /\ Goto(t, "share")
      /\ UNCHANGED <<rootVars, hist, fresh, phase, old, todo, item, argVars, res, stray>>
  BY <1>a, <1>b DEF add_entry, At, Value, collectVars
<1>2. /\ n \in Tables /\ n \in InUse /\ k \in Keys /\ n = old /\ old \in Tables
      /\ phase \notin {"idle", "settle"}
  BY <1>a, <1>1, Working, HasTable DEF OwnInv
<1>3. x \in Entries /\ own \in Refs /\ own.ptr = x /\ ~own.shared
  BY <1>a, <1>b, <1>1, RefIsRef, RefParts DEF OwnInv, CacheInv, HandsInv, Storers
<1>4. OthersStay(t) /\ pc'[t] = "share" /\ cur'[t] = x /\ mine'[t] = x /\ op'[t] = op[t] /\ key' = key
  BY <1>a, <1>1, GoesOnOthers DEF OwnInv, argVars
<1>5. PlacesInv' BY <1>1, <1>2, <1>3, PlacesPut, NilAssumption DEF OwnInv
<1>6. \A u \in Threads : BroughtInv(u)'
  BY <1>1, <1>4, BroughtKept DEF OwnInv, OthersStay, BroughtInv, Storers
<1>7. ASSUME ~stray PROVE SharedInv' /\ FoundInv' /\ \A e \in Entries : HoldersInv(e)'
  <2>1. SharedInv /\ FoundInv /\ (\A e \in Entries : HoldersInv(e)) /\ CacheInv
    BY <1>7 DEF OwnInv
  <2>2. Holds(t, x) /\ (\A e \in Entries \ {x} : HandsStay(e)) /\ \A e : ~Holds(t, e)'
    BY <1>a, <1>1, <1>4, <2>1, HandsPut
  <2>3. \A e \in Entries : HoldersInv(e)'
    <3>1. \A u \in Threads : ~Holds(u, x)'
      <4>1. \A u \in Threads \ {t} : ~Holds(u, x) BY <1>3, <2>1, <2>2 DEF HoldersInv
      <4> QED BY <1>4, <2>2, <4>1 DEF Holds, OthersStay
    <3> QED BY <1>b, <1>1, <1>2, <1>3, <2>1, <2>2, <3>1, PutStored DEF argVars
  <2>4. FoundInv'
    <3>1. \A e \in Entries, v \in Threads : Holds(v, e)' => Holds(v, e)
      BY <1>4, <2>2 DEF Holds, OthersStay
    <3>2. \A u \in Threads : pc'[u] = "version" => pc[u] = "version" /\ cur'[u] = cur[u]
      BY <1>4 DEF OthersStay
    <3> QED BY <1>1, <2>1, <3>1, <3>2, FoundKept
  <2>5. SharedInv'
    <3>1. \A m \in Tables : ~val[m][k].shared
      BY <1>1, <1>2, <2>1 DEF SharedInv, OwnInv, PlacesInv, Owns
    <3>2. ASSUME NEW u \in Threads, pc'[u] = "share" PROVE Owns(old, key[u], cur[u])'
      <4>0. val'[n][k] = own BY <1>1, <1>2, <1>3, <2>1, PutValues
      <4>1. CASE u = t BY <1>a, <1>1, <1>2, <1>3, <1>4, <4>0, <4>1 DEF Owns
      <4>2. CASE u # t
        <5>1. pc[u] = "share" /\ key'[u] = key[u] /\ cur'[u] = cur[u]
          BY <1>4, <3>2, <4>2 DEF OthersStay
        <5>2. Owns(old, key[u], cur[u]) /\ key[u] \in Keys BY <2>1, <5>1 DEF SharedInv, CacheInv, ArgsType
        <5>3. cur[u] \in Entries BY <5>1, <2>1 DEF OwnInv, BroughtInv, CacheInv, HandsInv, Storers
        <5>4. key[u] # k BY <1>1, <1>2, <5>2, <5>3, NilAssumption DEF Owns
        <5>5. val'[old][key[u]] = val[old][key[u]] BY <1>1, <1>2, <1>3, <2>1, <5>2, <5>4, PutValues
        <5> QED BY <1>1, <5>1, <5>2, <5>5 DEF Owns
      <4> QED BY <4>1, <4>2
    <3> QED BY <1>1, <1>2, <1>3, <2>1, <3>1, <3>2, SharedPut
  <2> QED BY <2>3, <2>4, <2>5
<1> QED BY <1>0, <1>1, <1>5, <1>6, <1>7 DEF OwnInv

LEMMA OwnShare ==
    ASSUME OwnInv, NEW t \in Threads, share(t)
    PROVE  OwnInv'
<1>0. CacheInv' BY ClientType DEF Client, OwnInv
<1>a. PICK n, k, x : n = bld[t] /\ k = key[t] /\ x = cur[t] OBVIOUS
<1>b. PICK r : r = Ref(x, TRUE) OBVIOUS
<1>1. /\ pc[t] = "share" /\ Finish(t, "stored")
      /\ UNCHANGED <<rootVars, hist, fresh, phase, old, todo, item, argVars, stray>>
      /\ Put(n, k, r) \/ UNCHANGED <<tableVars, released>>
  BY <1>a, <1>b DEF share, At
<1>2. /\ n \in Tables /\ n \in InUse /\ k \in Keys /\ n = old + 1 /\ old \in Tables
      /\ phase \notin {"idle", "settle"} /\ n # old
  <2>1. is_building(t) BY <1>1 DEF OwnInv, CacheInv, RebuildInv, LoadedInv
  <2>2. n # old BY <1>a, <1>1, <2>1, Working DEF OwnInv, is_building
  <2> QED BY <1>a, <1>1, <2>1, <2>2, Working, HasTable DEF OwnInv
<1>3. x \in Entries /\ r \in Refs /\ r.ptr = x /\ r.shared
  <2>1. x \in Entries BY <1>a, <1>1 DEF OwnInv, BroughtInv, CacheInv, HandsInv, Storers
  <2> QED BY <1>b, <2>1, RefIsRef, RefParts
<1>4. OthersStay(t) /\ pc'[t] = "return" /\ res'[t] = "stored" /\ mine'[t] = mine[t] /\ op'[t] = op[t]
      /\ key' = key
  BY <1>1, FinishOthers DEF OwnInv, argVars
<1>5. BroughtInv(t)' BY <1>4 DEF BroughtInv, OwnInv
<1>6. \A e \in Entries : Holds(t, e)' <=> Holds(t, e) BY <1>1, <1>4 DEF Holds
<1>7. CASE UNCHANGED <<tableVars, released>>
  BY <1>0, <1>1, <1>4, <1>5, <1>6, <1>7, OwnQuiet DEF tableVars
<1>8. CASE Put(n, k, r)
  <2>1. PlacesInv' BY <1>1, <1>2, <1>3, <1>8, PlacesPut, NilAssumption DEF OwnInv
  <2>2. \A u \in Threads : BroughtInv(u)' BY <1>4, <1>5, BroughtKept DEF OwnInv, OthersStay
  <2>3. ASSUME ~stray PROVE SharedInv' /\ FoundInv' /\ \A e \in Entries : HoldersInv(e)'
    <3>1. SharedInv /\ FoundInv /\ (\A e \in Entries : HoldersInv(e)) /\ CacheInv
      BY <2>3 DEF OwnInv
    <3>2. \A e \in Entries : HandsStay(e) BY <1>4, <1>6, HandsKeep
    <3>3. \A e \in Entries : HoldersInv(e)'
      BY <1>1, <1>2, <1>3, <1>8, <3>1, <3>2, PutOther DEF argVars
    <3>4. FoundInv'
      <4>1. \A e \in Entries, v \in Threads : Holds(v, e)' => Holds(v, e) BY <3>2 DEF HandsStay
      <4>2. \A u \in Threads : pc'[u] = "version" => pc[u] = "version" /\ cur'[u] = cur[u]
        BY <1>4 DEF OthersStay
      <4> QED BY <1>1, <3>1, <4>1, <4>2, FoundKept
    <3>5. SharedInv'
      <4>1. Owns(old, k, x) BY <1>a, <1>1, <3>1 DEF SharedInv
      <4>2. ASSUME NEW u \in Threads, pc'[u] = "share" PROVE Owns(old, key[u], cur[u])'
        <5>1. pc[u] = "share" /\ key'[u] = key[u] /\ cur'[u] = cur[u]
          BY <1>4, <4>2 DEF OthersStay
        <5>2. Owns(old, key[u], cur[u]) /\ key[u] \in Keys BY <3>1, <5>1 DEF SharedInv, CacheInv, ArgsType
        <5>3. val'[old][key[u]] = val[old][key[u]] BY <1>2, <1>3, <1>8, <3>1, <5>2, PutValues
        <5> QED BY <1>1, <5>1, <5>2, <5>3 DEF Owns
      <4> QED BY <1>1, <1>2, <1>3, <1>8, <3>1, <4>1, <4>2, SharedPut
    <3> QED BY <3>3, <3>4, <3>5
  <2> QED BY <1>0, <1>1, <2>1, <2>2, <2>3 DEF OwnInv
<1> QED BY <1>1, <1>7, <1>8

LEMMA OwnVersion ==
    ASSUME OwnInv, NEW t \in Threads, version(t)
    PROVE  OwnInv'
<1>0. CacheInv' BY ClientType DEF Client, OwnInv
<1>a. PICK c, x : c = cur[t] /\ x = mine[t] OBVIOUS
<1>1. pc[t] = "version" /\ UNCHANGED <<rootVars, used, val, phase, old, todo, item, stray>>
  BY DEF version, At, tableVars, collectVars
<1>2. CASE UNCHANGED <<clientVars, heapVars>>
  <2>1. OthersStay(t) /\ pc'[t] = pc[t] /\ cur'[t] = cur[t] /\ mine'[t] = mine[t] /\ op'[t] = op[t]
        /\ res'[t] = res[t]
    BY <1>2 DEF OthersStay, clientVars, argVars, localVars
  <2>2. BroughtInv(t)' BY <1>1, <2>1 DEF BroughtInv, OwnInv
  <2>3. \A e \in Entries : Holds(t, e)' <=> Holds(t, e) BY <2>1 DEF Holds
  <2>4. ~stray => cur'[t] \in Entries /\ cur'[t] \notin fresh /\ \A v \in Threads : ~Holds(v, cur'[t])
    BY <1>1, <2>1 DEF OwnInv, FoundInv
  <2> QED BY <1>0, <1>1, <1>2, <2>1, <2>2, <2>3, <2>4, OwnQuiet DEF heapVars
<1>3. CASE Finish(t, "failed") /\ UNCHANGED <<argVars, heapVars>>
  BY <1>0, <1>1, <1>3, OwnFailed DEF heapVars
<1>4. ASSUME NEW a \in {"stored", "deleted"}, Finish(t, a), UNCHANGED <<argVars, fresh, released>>,
             \A r \in Entries, e \in Entries : Contains(hist[r].vs, e) => Contains(hist'[r].vs, e),
             (a = "stored" /\ x \in Entries /\ (c \in Entries => Contains(hist'[c].vs, x)))
             \/ (a = "deleted" /\ x = Nil)
      PROVE  OwnInv'
  <2>1. OthersStay(t) /\ pc'[t] = "return" /\ op'[t] = op[t] /\ mine'[t] = mine[t] /\ res'[t] = a
    BY <1>4, FinishOthers DEF OwnInv
  <2>2. PlacesInv' BY <1>1, PlacesStay DEF OwnInv
  <2>3. \A u \in Threads : BroughtInv(u)' BY <2>1, BroughtKept DEF OwnInv, OthersStay, BroughtInv
  <2>4. ASSUME ~stray PROVE SharedInv' /\ FoundInv' /\ \A e \in Entries : HoldersInv(e)'
    <3>1. SharedInv /\ FoundInv /\ (\A e \in Entries : HoldersInv(e)) BY <2>4 DEF OwnInv
    <3>2. SharedInv' BY <1>1, <2>1, <3>1, SharedStay DEF OthersStay, rootVars
    <3>3. \A e : ~Holds(t, e)' BY <1>4, <2>1 DEF Holds
    <3>4. Holds(t, x) /\ \A e : e # x => ~Holds(t, e) BY <1>a, <1>1 DEF Holds
    <3>5. \A e \in Entries \ {x} : HandsStay(e) BY <2>1, <3>3, <3>4, HandsKeep
    <3>6. \A e \in Entries : OwnersStay(e) BY <1>1 DEF OwnersStay, Owns
    <3>7. \A e \in Entries : Versioned(e) => Versioned(e)' BY <1>4 DEF Versioned
    <3>8. c \in Entries /\ c # x BY <1>a, <1>1, <3>1, <3>4 DEF FoundInv
    <3>9. ASSUME NEW e \in Entries PROVE HoldersInv(e)'
      <4>1. CASE e # x BY <1>4, <3>1, <3>5, <3>6, <3>7, <4>1, Stays
      <4>2. CASE e = x
        <5>1. x \in Entries /\ Contains(hist'[c].vs, x) BY <1>4, <3>8, <4>2, NilAssumption
        <5>2. Versioned(x)' BY <3>8, <5>1 DEF Versioned
        <5>3. \A u \in Threads : ~Holds(u, x)'
          <6>1. \A u \in Threads \ {t} : ~Holds(u, x) BY <3>1, <3>4, <5>1 DEF HoldersInv
          <6> QED BY <2>1, <3>3, <6>1 DEF Holds, OthersStay
        <5> QED BY <1>4, <3>1, <3>4, <3>6, <4>2, <5>1, <5>2, <5>3, Appended
      <4> QED BY <4>1, <4>2
    <3>10. FoundInv'
      <4>1. \A e \in Entries, v \in Threads : Holds(v, e)' => Holds(v, e)
        BY <2>1, <3>3 DEF Holds, OthersStay
      <4>2. \A u \in Threads : pc'[u] = "version" => pc[u] = "version" /\ cur'[u] = cur[u]
        BY <2>1 DEF OthersStay
      <4> QED BY <1>4, <3>1, <4>1, <4>2, FoundKept
    <3> QED BY <3>2, <3>9, <3>10
  <2> QED BY <1>0, <1>1, <2>2, <2>3, <2>4 DEF OwnInv
<1>5. \A e \in Entries : hist[e].vs \in Seq(Entries) BY DEF OwnInv, CacheInv, HeapType
<1>6. CASE /\ op[t] \in Storers /\ NewVersion(c, x) /\ Finish(t, "stored")
           /\ UNCHANGED <<argVars, fresh, released>>
  <2>1. x \in Entries BY <1>a, <1>1, <1>6 DEF OwnInv, CacheInv, HandsInv
  <2>2. \A r \in Entries : hist'[r].vs = IF r = c THEN Append(hist[r].vs, x) ELSE hist[r].vs
    BY <1>6 DEF NewVersion, OwnInv, CacheInv, HeapType
  <2>3. \A s \in Seq(Entries), e \in Entries :
            Contains(s, e) => Contains(Append(s, x), e)
    BY <2>1 DEF Contains
  <2>4. \A s \in Seq(Entries) : Contains(Append(s, x), x) BY <2>1 DEF Contains
  <2>5. \A r \in Entries, e \in Entries : Contains(hist[r].vs, e) => Contains(hist'[r].vs, e)
    BY <1>5, <2>2, <2>3
  <2>6. c \in Entries => Contains(hist'[c].vs, x) BY <1>5, <2>2, <2>4
  <2> QED BY <1>4, <1>6, <2>1, <2>5, <2>6
<1>7. CASE /\ op[t] = "del" /\ hist' = [hist EXCEPT ![c] = [@ EXCEPT !.del = TRUE]]
           /\ Finish(t, "deleted") /\ UNCHANGED <<argVars, fresh, released>>
  <2>1. x = Nil BY <1>a, <1>7 DEF OwnInv, BroughtInv, Storers
  <2>2. \A r \in Entries : hist'[r].vs = hist[r].vs BY <1>7 DEF OwnInv, CacheInv, HeapType
  <2>3. \A r \in Entries, e \in Entries : Contains(hist[r].vs, e) => Contains(hist'[r].vs, e) BY <2>2
  <2> QED BY <1>4, <1>7, <2>1, <2>3
<1> QED BY <1>a, <1>2, <1>3, <1>6, <1>7 DEF version, Storers

LEMMA OwnClient ==
    ASSUME OwnInv, NEW t \in Threads, Client(t)
    PROVE  OwnInv'
<1> USE DEF At
<1>0. CacheInv' BY ClientType DEF OwnInv
<1>1. CASE store(t) BY <1>1, OwnStore
<1>2. CASE request(t) BY <1>2, OwnRequest
<1>3. CASE load_building(t) BY <1>3, OwnLoadBuilding
<1>4. CASE plain(t) BY <1>4, OwnPlain
<1>5. CASE add_entry(t) BY <1>5, OwnAddEntry
<1>6. CASE found_entry(t) BY <1>0, <1>6, OwnFinds DEF found_entry, tableVars, heapVars, collectVars
<1>7. CASE table_full(t)
  <2>1. CASE Crash
    <3>1. OthersStay(t) /\ UNCHANGED <<pc, op, key, mine, cur, res>>
      BY <2>1 DEF Crash, OthersStay, clientVars, argVars, localVars
    <3>2. BroughtInv(t)' BY <3>1 DEF OwnInv, BroughtInv
    <3>3. \A e \in Entries : Holds(t, e)' <=> Holds(t, e) BY <3>1 DEF Holds
    <3>4. pc'[t] = "act" BY <1>7, <3>1 DEF table_full
    <3> QED BY <1>0, <1>7, <2>1, <3>1, <3>2, <3>3, <3>4, OwnQuiet
            DEF table_full, Crash, tableVars, heapVars, collectVars
  <2>2. CASE Finish(t, "failed") /\ UNCHANGED <<tableVars, heapVars, gone, argVars, bld, alone,
                                                collectVars, stray, crashed>>
    BY <1>0, <1>7, <2>2, OwnFailed DEF table_full, tableVars, heapVars, collectVars
  <2> QED BY <1>7, <2>1, <2>2 DEF table_full
<1>8. CASE find_entry(t)
  <2>1. CASE Finish(t, "failed")
    BY <1>0, <1>8, <2>1, OwnFailed DEF find_entry, tableVars, heapVars, collectVars
  <2>2. CASE Value(t).ptr # Nil /\ cur' = [cur EXCEPT ![t] = Value(t).ptr] /\ Goto(t, "version")
             /\ UNCHANGED res
    BY <1>0, <1>8, <2>2, OwnFinds DEF find_entry, tableVars, heapVars, collectVars
  <2> QED BY <1>8, <2>1, <2>2 DEF find_entry
<1>9. CASE share(t) BY <1>9, OwnShare
<1>10. CASE version(t) BY <1>10, OwnVersion
<1>11. CASE return(t) BY <1>11, OwnReturn
<1>12. CASE find(t)
  <2>0. \A e \in Entries : ~Holds(t, e) BY <1>12 DEF find, Holds
  <2>1. CASE Leave(t)
    BY <1>0, <1>12, <2>0, <2>1, OwnLeave DEF find, tableVars, heapVars
  <2>2. CASE /\ Goto(t, "entry") /\ cur' = [cur EXCEPT ![t] = Value(t).ptr]
             /\ UNCHANGED <<argVars, tab, bld, res, alone, waiting>>
    <3>1. OthersStay(t) /\ pc'[t] = "entry" /\ mine'[t] = mine[t] /\ op'[t] = op[t]
      BY <2>2, GoesOnOthers DEF OwnInv
    <3>2. BroughtInv(t)' BY <3>1 DEF OwnInv, BroughtInv
    <3>3. \A e \in Entries : Holds(t, e)' <=> Holds(t, e) BY <2>0, <3>1 DEF Holds
    <3> QED BY <1>0, <1>12, <3>1, <3>2, <3>3, OwnQuiet DEF find, tableVars, heapVars
  <2> QED BY <1>12, <2>1, <2>2 DEF find
<1>13. CASE get(t)
  <2>0. \A e \in Entries : ~Holds(t, e) BY <1>13 DEF get, Holds
  <2> QED BY <1>0, <1>13, <2>0, OwnLeave DEF get, tableVars, heapVars
<1> QED BY <1>1, <1>2, <1>3, <1>4, <1>5, <1>6, <1>7, <1>8, <1>9, <1>10, <1>11, <1>12, <1>13 DEF Client

-----------------------------------------------------------------------------
(* The steps of the collector.                                             *)

LEMMA ClientsHold ==
    ASSUME OwnInv, UNCHANGED clientVars
    PROVE  /\ \A t \in Threads : BroughtInv(t)'
           /\ \A e \in Entries : HandsStay(e)
           /\ \A e \in Entries, t \in Threads : Holds(t, e)' => Holds(t, e)
           /\ UNCHANGED <<pc, key, cur, mine>>
BY DEF OwnInv, BroughtInv, HandsStay, Holds, clientVars, argVars, localVars

(* The collector goes on without touching a table or an entry. *)
LEMMA OwnTurns ==
    ASSUME OwnInv, CacheInv', UNCHANGED clientVars, UNCHANGED <<val, hist, fresh, released, stray>>,
           PlacesInv', ~stray => SharedInv'
    PROVE  OwnInv'
<1>1. (\A t \in Threads : BroughtInv(t)') /\ (\A e \in Entries : HandsStay(e))
      /\ (\A e \in Entries, t \in Threads : Holds(t, e)' => Holds(t, e))
      /\ UNCHANGED <<pc, key, cur, mine>>
  BY ClientsHold
<1>2. ASSUME ~stray PROVE SharedInv' /\ FoundInv' /\ \A e \in Entries : HoldersInv(e)'
  <2>1. FoundInv' BY <1>1, <1>2, FoundKept DEF OwnInv
  <2>2. \A e \in Entries : HoldersInv(e)' BY <1>1, <1>2, HoldersStay DEF OwnInv
  <2> QED BY <1>2, <2>1, <2>2
<1> QED BY <1>1, <1>2 DEF OwnInv

LEMMA OwnAddShared ==
    ASSUME OwnInv, add_shared
    PROVE  OwnInv'
<1>0. CacheInv' BY CollectorType DEF Collect, OwnInv
<1>a. PICK n, k, x : n = building_ /\ k = item /\ x = val[old][item].ptr OBVIOUS
<1>b. PICK r : r = Ref(x, TRUE) OBVIOUS
<1>1. /\ phase = "add_shared" /\ phase' = "copy" /\ UNCHANGED clientVars
      /\ UNCHANGED <<rootVars, hist, fresh, old, todo, stray>>
      /\ Put(n, k, r) \/ UNCHANGED <<tableVars, released>>
  BY <1>a, <1>b DEF add_shared, Collector
<1>2. /\ n \in Tables /\ n = old + 1 /\ old \in Tables /\ k \in Keys /\ n # old /\ n \in InUse
      /\ n # NoTable
  BY <1>a, <1>1 DEF OwnInv, CacheInv, RebuildInv, TablesInv, Copying, HandsInv, InUse, Tables, NoTable
<1>3. x \in Entries /\ r \in Refs /\ r.ptr = x /\ r.shared
  <2>1. x \in Entries BY <1>a, <1>1, <1>2, ValueType DEF OwnInv, PlacesInv, CacheInv
  <2> QED BY <1>b, <2>1, RefIsRef, RefParts
<1>4. (\A t \in Threads : BroughtInv(t)') /\ (\A e \in Entries : HandsStay(e))
      /\ (\A e \in Entries, t \in Threads : Holds(t, e)' => Holds(t, e))
      /\ UNCHANGED <<pc, key, cur, mine>>
  BY <1>1, ClientsHold
<1>5. phase \in Before /\ phase' \in Before /\ phase' # "idle" BY <1>1 DEF Before, Copying
<1>6. CASE UNCHANGED <<tableVars, released>>
  <2>1. PlacesInv' BY <1>1, <1>6 DEF OwnInv, PlacesInv, tableVars, rootVars, InUse
  <2>2. ~stray => SharedInv' BY <1>1, <1>4, <1>5, <1>6, SharedStay DEF OwnInv, tableVars, rootVars
  <2> QED BY <1>0, <1>1, <1>6, <2>1, <2>2, OwnTurns DEF tableVars
<1>7. CASE Put(n, k, r)
  <2>1. PlacesInv' BY <1>1, <1>2, <1>3, <1>7, PlacesPut, NilAssumption DEF OwnInv
  <2>2. ASSUME ~stray PROVE SharedInv' /\ FoundInv' /\ \A e \in Entries : HoldersInv(e)'
    <3>1. SharedInv /\ FoundInv /\ (\A e \in Entries : HoldersInv(e)) /\ CacheInv
      BY <2>2 DEF OwnInv
    <3>2. \A e \in Entries : HoldersInv(e)'
      BY <1>1, <1>2, <1>3, <1>4, <1>7, <3>1, PutOther
    <3>3. FoundInv' BY <1>1, <1>4, <3>1, FoundKept
    <3>4. SharedInv'
      <4>1. Owns(old, k, x)
        <5>1. ~val[old][k].shared BY <1>2, <3>1 DEF SharedInv, Tables
        <5> QED BY <1>a, <5>1 DEF Owns
      <4>2. ASSUME NEW u \in Threads, pc'[u] = "share" PROVE Owns(old, key[u], cur[u])'
        <5>1. pc[u] = "share" /\ key'[u] = key[u] /\ cur'[u] = cur[u] BY <1>4, <4>2
        <5>2. Owns(old, key[u], cur[u]) /\ key[u] \in Keys BY <3>1, <5>1 DEF SharedInv, CacheInv, ArgsType
        <5>3. val'[old][key[u]] = val[old][key[u]] BY <1>2, <1>3, <1>7, <3>1, <5>2, PutValues
        <5> QED BY <1>1, <5>1, <5>2, <5>3 DEF Owns
      <4> QED BY <1>1, <1>2, <1>3, <1>5, <1>7, <3>1, <4>1, <4>2, SharedPut
    <3> QED BY <3>2, <3>3, <3>4
  <2> QED BY <1>0, <1>1, <1>4, <2>1, <2>2 DEF OwnInv
<1> QED BY <1>1, <1>6, <1>7

LEMMA OwnExclusive ==
    ASSUME OwnInv, NEW k \in Keys, exclusive(k), ~Crash
    PROVE  OwnInv'
<1>0. CacheInv' BY CollectorType DEF Collect, OwnInv
<1>a. PICK n, m, e, kept : /\ n = old /\ m = entries_ /\ e = val[old][k].ptr
                           /\ kept = (e # Nil /\ val[entries_][k] = Ref(e, TRUE))
  OBVIOUS
<1>b. PICK r : r = Ref(e, FALSE) OBVIOUS
<1>1. n \in Tables /\ m \in Tables /\ m = n + 1 /\ m # n /\ phase = "settle" /\ building_ = NoTable
      /\ n # NoTable /\ m # NoTable
  BY <1>a DEF exclusive, Collector, OwnInv, CacheInv, RebuildInv, TablesInv, Tables, NoTable
<1>2. val \in [Tables -> [Keys -> Refs]] /\ used \in [Tables -> SUBSET Keys] /\ e \in Entries \cup {Nil}
  BY <1>a, <1>1, ValueType DEF OwnInv, CacheInv, TablesType
<1>3. /\ todo' = todo \ {k} /\ used' = [used EXCEPT ![n] = @ \ {k}]
      /\ val' = [p \in Tables |->
                   IF p = n THEN [val[p] EXCEPT ![k] = NullRef]
                   ELSE IF p = m /\ kept THEN [val[p] EXCEPT ![k] = r] ELSE val[p]]
      /\ entry_release(IF e = Nil \/ kept THEN {} ELSE {e})
      /\ UNCHANGED <<rootVars, hist, fresh, phase, old, stray, item>> /\ UNCHANGED clientVars
  <2>1. \A p : (p = entries_ /\ val[old][k].ptr # Nil /\ val[entries_][k] = Ref(val[old][k].ptr, TRUE))
               <=> (p = m /\ kept)
    BY <1>a
  <2>2. (e = Nil \/ val[entries_][k] = Ref(e, TRUE)) <=> (e = Nil \/ kept)
    BY <1>a
  <2> QED BY <1>a, <1>b, <2>1, <2>2 DEF exclusive
<1>4. /\ \A p \in Tables, l \in Keys : l # k => val'[p][l] = val[p][l]
      /\ \A p \in Tables : p # n /\ p # m => val'[p][k] = val[p][k]
      /\ val'[n][k] = NullRef
      /\ val'[m][k] = IF kept THEN r ELSE val[m][k]
  BY <1>1, <1>2, <1>3
<1>5. r.ptr = e /\ ~r.shared /\ NullRef.ptr = Nil /\ ~NullRef.shared BY <1>b, RefParts
<1>6. kept => val[m][k].ptr = e /\ val[m][k].shared
  <2>1. ASSUME kept PROVE val[m][k] = Ref(e, TRUE) BY <1>a, <2>1
  <2>2. Ref(e, TRUE).ptr = e /\ Ref(e, TRUE).shared = TRUE BY RefParts
  <2> QED BY <2>1, <2>2
<1>7. \A p \in Tables : p # n => used'[p] = used[p] BY <1>1, <1>2, <1>3
<1>8. used'[n] = used[n] \ {k} BY <1>1, <1>2, <1>3
<1>9. PlacesInv'
  <2>1. InUse' = InUse BY <1>3 DEF InUse, rootVars
  <2>2. ASSUME NEW p \in Tables, NEW l \in Keys
        PROVE  /\ val'[p][l].ptr # Nil => p \in InUse' /\ l \in used'[p]
               /\ val'[p][l].shared => val'[p][l].ptr # Nil
    <3>1. /\ val[p][l].ptr # Nil => p \in InUse /\ l \in used[p]
          /\ val[p][l].shared => val[p][l].ptr # Nil
      BY DEF OwnInv, PlacesInv
    <3>2. CASE l # k BY <1>1, <1>4, <1>7, <1>8, <2>1, <3>1, <3>2
    <3>3. CASE l = k /\ p = n BY <1>4, <1>5, <3>3
    <3>4. CASE l = k /\ p # n BY <1>1, <1>4, <1>5, <1>6, <1>7, <2>1, <3>1, <3>4, ZenonT(40)
    <3> QED BY <3>2, <3>3, <3>4
  <2>3. todo' = used'[old'] BY <1>a, <1>1, <1>3, <1>8 DEF OwnInv, PlacesInv
  <2> QED BY <1>1, <1>3, <2>2, <2>3 DEF PlacesInv
<1>10. (\A t \in Threads : BroughtInv(t)') /\ (\A x \in Entries : HandsStay(x))
      /\ (\A x \in Entries, t \in Threads : Holds(t, x)' => Holds(t, x))
      /\ UNCHANGED <<pc, key, cur, mine>>
  BY <1>3, ClientsHold
<1>11. ASSUME ~stray PROVE SharedInv' /\ FoundInv' /\ \A x \in Entries : HoldersInv(x)'
  <2>1. SharedInv /\ FoundInv /\ (\A x \in Entries : HoldersInv(x)) /\ CacheInv
    BY <1>11 DEF OwnInv
  <2>2. FoundInv' BY <1>3, <1>10, <2>1, FoundKept
  <2>3. val[m][k].shared => kept
    <3>1. val[m][k].shared => val[m][k].ptr = e /\ val[m][k].ptr # Nil
      BY <1>a, <1>1, <2>1 DEF SharedInv, Owns, OwnInv, PlacesInv
    <3>2. val[m][k] \in Refs BY <1>1, <1>2
    <3>3. val[m][k].shared => val[m][k] = Ref(e, TRUE) BY <3>1, <3>2, RefParts
    <3> QED BY <1>a, <3>1, <3>3
  <2>4. \A t \in Threads : pc[t] # "share"
    BY <1>1, <2>1 DEF CacheInv, RebuildInv, LoadedInv, is_building
  <2>5. SharedInv'
    <3>1. ASSUME NEW p \in Tables, NEW l \in Keys, val'[p][l].shared
          PROVE  phase' # "idle" /\ p = old' + 1 /\ Owns(old, l, val[p][l].ptr)'
      <4>1. l # k \/ (p # n /\ p # m) BY <1>1, <1>4, <1>5, <2>3, <3>1
      <4>2. val'[p][l] = val[p][l] BY <1>4, <4>1
      <4>3. p = old + 1 /\ Owns(old, l, val[p][l].ptr) BY <2>1, <3>1, <4>2 DEF SharedInv
      <4>4. l # k BY <1>a, <1>1, <4>1, <4>3
      <4>5. val'[old][l] = val[old][l] BY <1>a, <1>1, <1>4, <4>4
      <4> QED BY <1>1, <1>3, <4>2, <4>3, <4>5 DEF Owns
    <3> QED BY <1>1, <1>3, <1>10, <2>4, <3>1 DEF SharedInv, Copying
  <2>6. ~val[n][k].shared BY <1>a, <1>1, <2>1 DEF SharedInv
  <2>7. \A x \in Entries : released'[x] = IF x = e /\ ~kept THEN released[x] + 1 ELSE released[x]
    BY <1>3, NilAssumption DEF entry_release
  <2>8. ASSUME NEW x \in Entries PROVE HoldersInv(x)'
    <3>1. HandsStay(x) /\ (Versioned(x) => Versioned(x)') BY <1>3, <1>10 DEF Versioned
    <3>2. CASE x # e
      <4>1. OwnersStay(x)
        <5> SUFFICES ASSUME NEW p \in Tables, NEW l \in Keys
                     PROVE  Owns(p, l, x)' <=> Owns(p, l, x)
          BY DEF OwnersStay
        <5>1. CASE l # k \/ (p # n /\ p # m) BY <1>4, <5>1 DEF Owns
        <5>2. CASE l = k /\ p = n BY <1>a, <1>4, <1>5, <3>2, <5>2, NilAssumption DEF Owns
        <5>3. CASE l = k /\ p = m BY <1>4, <1>5, <1>6, <3>2, <5>3 DEF Owns
        <5> QED BY <5>1, <5>2, <5>3
      <4>2. released'[x] = released[x] BY <2>7, <3>2
      <4> QED BY <1>3, <2>1, <3>1, <4>1, <4>2, Stays
    <3>3. CASE x = e
      <4>1. Owns(n, k, x) BY <1>a, <2>6, <3>3 DEF Owns
      <4>2. \A p \in Tables, l \in Keys : p # n \/ l # k => ~Owns(p, l, x) BY <1>1, <2>1, <4>1 DEF HoldersInv
      <4>3. \A p \in Tables, l \in Keys : (p # m \/ l # k) => ~Owns(p, l, x)'
        <5> SUFFICES ASSUME NEW p \in Tables, NEW l \in Keys, p # m \/ l # k PROVE ~Owns(p, l, x)'
          OBVIOUS
        <5>1. CASE l = k /\ p = n BY <1>4, <1>5, <5>1, NilAssumption DEF Owns
        <5>2. CASE l # k \/ p # n
          <6>1. val'[p][l] = val[p][l] BY <1>4, <5>2
          <6> QED BY <4>2, <5>2, <6>1 DEF Owns
        <5> QED BY <5>1, <5>2
      <4>4. CASE kept
        <5>1. Owns(m, k, x)' BY <1>4, <1>5, <3>3, <4>4 DEF Owns
        <5>2. \A p \in Tables, l \in Keys : Owns(p, l, x)' <=> p = m /\ l = k BY <4>3, <5>1
        <5>3. released'[x] = released[x] BY <2>7, <4>4
        <5> QED BY <1>1, <1>3, <2>1, <3>1, <4>1, <5>2, <5>3, HandedOn
      <4>5. CASE ~kept
        <5>1. ~Owns(m, k, x)' BY <1>1, <1>4, <4>2, <4>5 DEF Owns
        <5>2. \A p \in Tables, l \in Keys : ~Owns(p, l, x)' BY <4>3, <5>1
        <5>3. released'[x] = released[x] + 1 BY <2>7, <3>3, <4>5
        <5> QED BY <1>1, <1>3, <2>1, <3>1, <4>1, <5>2, <5>3, ReleasedOnce
      <4> QED BY <4>4, <4>5
    <3> QED BY <3>2, <3>3
  <2> QED BY <2>2, <2>5, <2>8
<1> QED BY <1>0, <1>3, <1>9, <1>10, <1>11 DEF OwnInv

(* A null pointer stops the program where it is. *)
LEMMA OwnCrash ==
    ASSUME OwnInv, CacheInv', Crash, UNCHANGED rootVars
    PROVE  OwnInv'
<1>1. PlacesInv' BY PlacesStay DEF Crash, OwnInv, tableVars, collectVars
<1>2. ~stray => SharedInv'
  BY SharedStay DEF Crash, OwnInv, rootVars, tableVars, collectVars, clientVars, argVars, localVars
<1> QED BY <1>1, <1>2, OwnTurns DEF Crash, tableVars, heapVars

(* No operation is about to share an entry between two rebuilds, nor when the old table goes. *)
LEMMA NobodyShares ==
    ASSUME CacheInv, phase \in {"idle", "settle"}, NEW t \in Threads
    PROVE  pc[t] # "share"
BY DEF CacheInv, RebuildInv, LoadedInv, is_building

LEMMA OwnCollect == ASSUME OwnInv, Collect PROVE OwnInv'
<1> USE DEF Collector
<1>0. CacheInv' BY CollectorType DEF OwnInv
<1>1. TablesInv /\ CacheInv /\ PlacesInv BY DEF OwnInv, CacheInv, RebuildInv
<1>2. CASE collect
  <2>1. /\ phase = "idle" /\ building_ = NoTable /\ old = NoTable /\ entries_ \in Tables
        /\ old' = entries_ /\ building_' = entries_ + 1 /\ entries_' = entries_ /\ phase' = "flush_building"
        /\ UNCHANGED <<used, val, hist, fresh, released, stray>> /\ UNCHANGED clientVars
    BY <1>1, <1>2 DEF collect, TablesInv, PlacesInv, heapVars
  <2>2. InUse = {entries_} /\ entries_ \in InUse' BY <2>1 DEF InUse
  <2>3. PlacesInv' BY <1>1, <2>1, <2>2 DEF PlacesInv
  <2>4. ASSUME ~stray PROVE SharedInv'
    <3>1. \A n \in Tables, l \in Keys : ~val[n][l].shared BY <2>1, <2>4 DEF OwnInv, SharedInv
    <3>2. \A t \in Threads : pc[t] # "share" BY <1>1, <2>1, NobodyShares
    <3>3. building_' \in Tables BY <1>2, <2>1, TablesAssumption DEF collect, Tables
    <3>4. \A l \in Keys : val[building_'][l].ptr = Nil
      BY <1>1, <2>1, <2>2, <3>3 DEF PlacesInv, Tables
    <3> QED BY <2>1, <3>1, <3>2, <3>4 DEF SharedInv, clientVars
  <2> QED BY <1>0, <2>1, <2>3, <2>4, OwnTurns
<1>3. CASE flush_building \/ swap
  <2>1. /\ UNCHANGED <<building_, used, val, hist, fresh, released, stray, old>> /\ UNCHANGED clientVars
        /\ phase \in {"flush_building", "copy"} /\ phase' \in {"sample", "swapped"}
        /\ (phase' \in Before => phase \in Before)
    BY <1>3 DEF flush_building, swap, heapVars, tableVars, rootVars, Before, Copying
  <2>2. InUse' = InUse
    <3>1. CASE flush_building BY <3>1 DEF flush_building, InUse, rootVars
    <3>2. CASE swap
      <4>1. /\ entries_ = old /\ old # NoTable /\ building_ # NoTable /\ entries_' = building_
            /\ building_' = building_ /\ old' = old
        BY <1>1, <3>2 DEF swap, TablesInv, Copying, Tables, NoTable
      <4>2. InUse = {building_, old} /\ InUse' = {building_, old} BY <4>1 DEF InUse
      <4> QED BY <4>2
    <3> QED BY <1>3, <3>1, <3>2
  <2>3. PlacesInv' BY <1>1, <2>1, <2>2 DEF PlacesInv
  <2>4. ~stray => SharedInv' BY <2>1, SharedStay DEF OwnInv, clientVars, argVars, localVars
  <2> QED BY <1>0, <2>1, <2>3, <2>4, OwnTurns
<1>4. CASE get_atime_cutoff
  <2>1. CASE Crash BY <1>0, <1>4, <2>1, OwnCrash DEF get_atime_cutoff
  <2>2. CASE /\ phase' = "copy" /\ UNCHANGED <<tableVars, heapVars, old, item, stray>>
             /\ UNCHANGED clientVars
    <3>1. /\ UNCHANGED <<building_, used, val, hist, fresh, released>>
          /\ phase = "sample" /\ phase \in Before
      BY <1>4, <2>2 DEF get_atime_cutoff, heapVars, tableVars, rootVars, Before, Copying
    <3>2. InUse' = InUse BY <1>4, <2>2 DEF get_atime_cutoff, InUse, rootVars
    <3>3. PlacesInv' BY <1>1, <2>2, <3>1, <3>2 DEF PlacesInv
    <3>4. ~stray => SharedInv' BY <2>2, <3>1, SharedStay DEF OwnInv, clientVars, argVars, localVars
    <3> QED BY <1>0, <2>2, <3>1, <3>3, <3>4, OwnTurns
  <2> QED BY <1>4, <2>1, <2>2 DEF get_atime_cutoff
<1>5. CASE add_shared BY <1>5, OwnAddShared
<1>6. CASE built
  <2>1. /\ UNCHANGED <<entries_, used, val, hist, fresh, released, stray, old>> /\ UNCHANGED clientVars
        /\ phase = "swapped" /\ phase' = "flush_old" /\ building_ = entries_ /\ building_' = NoTable
    BY <1>1, <1>6 DEF built, heapVars, tableVars, TablesInv
  <2>2. InUse \subseteq InUse' BY <2>1 DEF InUse
  <2>3. PlacesInv' BY <1>1, <2>1, <2>2 DEF PlacesInv
  <2>4. ~stray => SharedInv'
    BY <2>1 DEF OwnInv, SharedInv, Owns, Copying, clientVars, argVars, localVars
  <2> QED BY <1>0, <2>1, <2>3, <2>4, OwnTurns
<1>7. CASE flush_old
  <2>1. /\ UNCHANGED <<rootVars, used, val, hist, fresh, released, stray, old>> /\ UNCHANGED clientVars
        /\ phase = "flush_old" /\ phase' = "settle" /\ todo' = used[old]
    BY <1>7 DEF flush_old, heapVars, tableVars
  <2>2. PlacesInv' BY <1>1, <2>1 DEF PlacesInv, InUse, rootVars
  <2>3. ~stray => SharedInv'
    BY <2>1, SharedStay DEF OwnInv, Before, Copying, clientVars, argVars, localVars, rootVars
  <2> QED BY <1>0, <2>1, <2>2, <2>3, OwnTurns
<1>8. CASE delete_old
  <2>1. /\ UNCHANGED <<rootVars, used, val, hist, fresh, released, stray>> /\ UNCHANGED clientVars
        /\ phase = "settle" /\ phase' = "idle" /\ old' = NoTable /\ used[old] = {} /\ old \in Tables
    BY <1>1, <1>8 DEF delete_old, heapVars, tableVars, PlacesInv, TablesInv
  <2>2. \A l \in Keys : val[old][l].ptr = Nil BY <1>1, <2>1 DEF PlacesInv
  <2>3. InUse \ {old} \subseteq InUse' BY <2>1 DEF InUse, rootVars
  <2>4. PlacesInv' BY <1>1, <2>1, <2>2, <2>3 DEF PlacesInv
  <2>5. ASSUME ~stray PROVE SharedInv'
    <3>1. \A n \in Tables, l \in Keys : ~val[n][l].shared
      BY <1>1, <2>1, <2>2, <2>5 DEF OwnInv, SharedInv, PlacesInv, Owns
    <3>2. \A t \in Threads : pc[t] # "share" BY <1>1, <2>1, NobodyShares
    <3> QED BY <2>1, <3>1, <3>2 DEF SharedInv, clientVars, Copying
  <2> QED BY <1>0, <2>1, <2>4, <2>5, OwnTurns
<1>9. ASSUME NEW k \in Keys, entry_is_live(k) PROVE OwnInv'
  <2>1. /\ UNCHANGED <<rootVars, used, val, hist, fresh, released, stray, old>> /\ UNCHANGED clientVars
        /\ phase = "copy" /\ phase' \in {"copy", "add_shared"} /\ phase \in Before
        /\ (phase' = "add_shared" => item' = k /\ val[old][k].ptr # Nil)
    BY <1>9 DEF entry_is_live, heapVars, tableVars, Before, Copying
  <2>2. PlacesInv' BY <1>1, <2>1 DEF PlacesInv, InUse, rootVars
  <2>3. ~stray => SharedInv'
    BY <2>1, SharedStay DEF OwnInv, clientVars, argVars, localVars, rootVars
  <2> QED BY <1>0, <2>1, <2>2, <2>3, OwnTurns
<1>10. ASSUME NEW k \in Keys, exclusive(k) PROVE OwnInv'
  <2>1. CASE Crash BY <1>0, <1>10, <2>1, OwnCrash DEF exclusive
  <2>2. CASE ~Crash BY <1>10, <2>2, OwnExclusive
  <2> QED BY <2>1, <2>2
<1> QED BY <1>2, <1>3, <1>4, <1>5, <1>6, <1>7, <1>8, <1>9, <1>10 DEF Collect

-----------------------------------------------------------------------------
LEMMA OwnInit == Init => OwnInv
<1> SUFFICES ASSUME Init PROVE OwnInv
  OBVIOUS
<1>0. CacheInv BY CacheInit
<1>1. 1 \in Tables BY TablesAssumption DEF Tables
<1>2. \A n \in Tables, k \in Keys : val[n][k] = IF n = 1 THEN Ref(Preset[k], FALSE) ELSE NullRef
  BY DEF Init
<1>3. \A n \in Tables, k \in Keys : /\ ~val[n][k].shared
                                    /\ val[n][k].ptr = IF n = 1 THEN Preset[k] ELSE Nil
  <2>1. \A k \in Keys : Ref(Preset[k], FALSE).ptr = Preset[k] /\ Ref(Preset[k], FALSE).shared = FALSE
    BY RefParts
  <2>2. NullRef.ptr = Nil /\ NullRef.shared = FALSE BY RefParts
  <2> QED BY <1>2, <2>1, <2>2
<1>4. PlacesInv BY <1>1, <1>3 DEF Init, PlacesInv, InUse
<1>5. \A t \in Threads : BroughtInv(t) BY DEF Init, BroughtInv
<1>6. SharedInv BY <1>3 DEF Init, SharedInv, Copying
<1>7. FoundInv BY DEF Init, FoundInv
<1>8. ASSUME NEW e \in Entries PROVE HoldersInv(e)
  <2>1. \A t \in Threads : ~Holds(t, e) BY DEF Init, Holds
  <2>2. \A n \in Tables, k \in Keys : Owns(n, k, e) <=> n = 1 /\ Preset[k] = e
    BY <1>3, NilAssumption DEF Owns
  <2>3. released[e] = 0 /\ (e \in fresh <=> \A k \in Keys : Preset[k] # e) BY DEF Init
  <2>4. \A k, l \in Keys : Preset[k] = e /\ Preset[l] = e => k = l BY PresetAssumption, NilAssumption
  <2> QED BY <1>1, <2>1, <2>2, <2>3, <2>4 DEF HoldersInv
<1> QED BY <1>0, <1>4, <1>5, <1>6, <1>7, <1>8 DEF OwnInv

LEMMA OwnNext == OwnInv /\ [Next]_vars => OwnInv'
<1> SUFFICES ASSUME OwnInv, [Next]_vars PROVE OwnInv'
  OBVIOUS
<1>1. CASE Next BY <1>1, OwnClient, OwnCollect DEF Next
<1>2. CASE UNCHANGED vars
  <2>0. CacheInv' BY CacheNext DEF OwnInv
  <2>1. /\ UNCHANGED <<rootVars, used, val, hist, fresh, released, stray, old, phase, todo, item>>
        /\ UNCHANGED clientVars
    BY <1>2 DEF vars, tableVars, heapVars, collectVars
  <2>2. PlacesInv' BY <2>1, PlacesStay DEF OwnInv
  <2>3. ~stray => SharedInv'
    BY <2>1, SharedStay DEF OwnInv, clientVars, argVars, localVars, rootVars
  <2> QED BY <2>0, <2>1, <2>2, <2>3, OwnTurns
<1> QED BY <1>1, <1>2

(* The owners of entries through any number of rebuilds. *)
THEOREM OwnersCorrect == Spec => []OwnInv
BY OwnInit, OwnNext, PTL DEF Spec

(***************************************************************************)
(* The tables in use refer to no released entry, no entry is released      *)
(* twice, and between rebuilds none is lost, as long as no operation slips *)
(* through the window of is_building().                                    *)
(***************************************************************************)
THEOREM OwnedOnceCorrect == Spec => []OwnedOnce
<1>1. OwnInv => OwnedOnce
  <2> SUFFICES ASSUME OwnInv, ~stray
               PROVE  /\ \A n \in InUse, k \in Keys :
                             val[n][k].ptr # Nil => released[val[n][k].ptr] = 0
                      /\ \A e \in Entries : released[e] <= 1
                      /\ phase = "idle" /\ ~crashed =>
                             \A e \in Entries : Root(e) /\ released[e] = 0 =>
                                 \E k \in Keys : val[entries_][k] = Ref(e, FALSE)
    BY DEF OwnedOnce
  <2>1. \A e \in Entries : HoldersInv(e) BY DEF OwnInv
  <2>2. TablesInv /\ PlacesInv BY DEF OwnInv, CacheInv, RebuildInv
  <2>3. InUse \subseteq Tables BY <2>2 DEF InUse, TablesInv, NoTable, Copying, PlacesInv
  <2>4. \A n \in InUse, k \in Keys : val[n][k].ptr # Nil => released[val[n][k].ptr] = 0
    BY <2>3, ValueOwned
  <2>5. \A e \in Entries : released[e] <= 1 BY <2>1 DEF HoldersInv
  <2>6. ASSUME phase = "idle", NEW e \in Entries, Root(e), released[e] = 0
        PROVE  \E k \in Keys : val[entries_][k] = Ref(e, FALSE)
    <3>1. ~Versioned(e) /\ e \notin fresh /\ \A t \in Threads : ~Holds(t, e)
      BY <2>6 DEF Root, Versioned, Holds
    <3>2. PICK n \in Tables, k \in Keys : Owns(n, k, e) BY <2>1, <2>6, <3>1 DEF HoldersInv
    <3>3. n = entries_
      BY <2>2, <2>6, <3>2, NilAssumption DEF PlacesInv, InUse, TablesInv, Owns
    <3>4. val[n][k] \in Refs BY ValueType DEF OwnInv, CacheInv
    <3>5. val[n][k] = Ref(e, FALSE) BY <3>2, <3>4, RefParts DEF Owns
    <3> QED BY <3>3, <3>5
  <2> QED BY <2>4, <2>5, <2>6
<1> QED BY <1>1, OwnersCorrect, PTL

-----------------------------------------------------------------------------
(* What the swap of the tables shows to clients.                           *)

Sharing(k) == \E t \in Threads : pc[t] = "share" /\ key[t] = k

(***************************************************************************)
(* The copy so far: a key that the loop has passed has the same entry in   *)
(* both tables, unless it is left behind or an operation is about to share *)
(* its entry.                                                              *)
(***************************************************************************)
CopyInv ==
    ~stray /\ ~crashed /\ phase \in {"copy", "add_shared"} =>
        \A k \in Keys \ (todo \cup left) :
            ~(phase = "add_shared" /\ item = k) /\ ~Sharing(k) =>
                val[building_][k].ptr = val[old][k].ptr

(* Before the swap the new table has nothing but what the old one has. *)
LEMMA NewFromOld ==
    ASSUME OwnInv, ~stray, phase \in Before, NEW k \in Keys, val[building_][k].ptr # Nil
    PROVE  val[building_][k].ptr = val[old][k].ptr
<1>1. building_ \in Tables BY DEF OwnInv, CacheInv, RebuildInv, TablesInv, Before
<1> QED BY <1>1 DEF OwnInv, SharedInv, Before, Owns

(* What a step of a client does to the tables, apart from three of them. *)
LEMMA ClientEffects ==
    ASSUME CacheInv, NEW t \in Threads, Client(t)
    PROVE  /\ OthersStay(t)
           /\ UNCHANGED <<rootVars, phase, old, todo, item>>
           /\ left' = left \/ share(t)
           /\ (crashed => crashed') /\ (stray => stray')
           /\ \/ plain(t) \/ add_entry(t) \/ share(t)
              \/ UNCHANGED val /\ pc[t] # "share" /\ pc'[t] # "share" /\ stray' = stray
<1> USE DEF At, rootVars, collectVars, tableVars
<1>1. CASE store(t) \/ request(t)
  <2>1. PICK o, k, e : o \in Ops /\ k \in Keys /\ Begin(t, o, k, e)
    BY <1>1 DEF store, request, Ops, Writers
  <2>2. PICK p \in {"is_building", "find"} : Goto(t, p) BY <2>1 DEF Begin
  <2>3. pc[t] = "idle" /\ pc'[t] # "share" BY <2>1, <2>2 DEF Begin, Goto, CacheInv, ArgsType
  <2>4. OthersStay(t)
    BY <2>1, <2>2 DEF Begin, Goto, OthersStay, CacheInv, ArgsType
  <2> QED BY <2>1, <2>3, <2>4 DEF Begin
<1>2. CASE load_building(t)
  BY <1>2 DEF load_building, Goto, OthersStay, CacheInv, ArgsType, argVars
<1>3. CASE plain(t)
  <2>1. (\E r : Finish(t, r)) /\ UNCHANGED argVars BY <1>3 DEF plain
  <2> QED BY <1>3, <2>1, FinishOthers DEF plain
<1>4. CASE add_entry(t)
  <2>1. OthersStay(t) BY <1>4, GoesOnOthers DEF add_entry
  <2> QED BY <1>4, <2>1 DEF add_entry
<1>5. CASE found_entry(t)
  <2>1. OthersStay(t) /\ pc'[t] = "version" BY <1>5, GoesOnOthers DEF found_entry
  <2> QED BY <1>5, <2>1 DEF found_entry
<1>6. CASE table_full(t)
  <2>1. CASE Crash BY <1>6, <2>1 DEF table_full, Crash, OthersStay, clientVars, argVars, localVars
  <2>2. CASE Finish(t, "failed") /\ UNCHANGED <<tableVars, argVars, collectVars, stray, crashed>>
    BY <1>6, <2>2, FinishOthers DEF table_full
  <2> QED BY <1>6, <2>1, <2>2 DEF table_full
<1>7. CASE find_entry(t)
  <2>1. CASE Finish(t, "failed") BY <1>7, <2>1, FinishOthers DEF find_entry
  <2>2. CASE cur' = [cur EXCEPT ![t] = Value(t).ptr] /\ Goto(t, "version") /\ UNCHANGED res
    <3>1. OthersStay(t) /\ pc'[t] = "version" BY <1>7, <2>2, GoesOnOthers DEF find_entry
    <3> QED BY <1>7, <3>1 DEF find_entry
  <2> QED BY <1>7, <2>1, <2>2 DEF find_entry
<1>8. CASE share(t)
  <2>1. Finish(t, "stored") /\ UNCHANGED argVars BY <1>8 DEF share
  <2> QED BY <1>8, <2>1, FinishOthers DEF share
<1>9. CASE version(t)
  <2>1. CASE UNCHANGED clientVars
    BY <1>9, <2>1 DEF version, OthersStay, clientVars, argVars, localVars
  <2>2. CASE (\E r : Finish(t, r)) /\ UNCHANGED <<argVars, crashed>>
    BY <1>9, <2>2, FinishOthers DEF version
  <2> QED BY <1>9, <2>1, <2>2 DEF version
<1>10. CASE return(t) BY <1>10, LeaveOthers DEF return
<1>11. CASE find(t)
  <2>1. CASE Leave(t) BY <1>11, <2>1, LeaveOthers DEF find
  <2>2. CASE cur' = [cur EXCEPT ![t] = Value(t).ptr] /\ Goto(t, "entry") /\ UNCHANGED <<argVars, res>>
    <3>1. OthersStay(t) /\ pc'[t] = "entry" BY <1>11, <2>2, GoesOnOthers DEF find
    <3> QED BY <1>11, <3>1 DEF find
  <2> QED BY <1>11, <2>1, <2>2 DEF find
<1>12. CASE get(t) BY <1>12, LeaveOthers DEF get
<1> QED BY <1>1, <1>2, <1>3, <1>4, <1>5, <1>6, <1>7, <1>8, <1>9, <1>10, <1>11, <1>12 DEF Client

(* In the same way, what share does. *)
LEMMA ShareEffects ==
    ASSUME OwnInv, NEW t \in Threads, share(t)
    PROVE  /\ pc[t] = "share" /\ pc'[t] = "return" /\ res'[t] = "stored" /\ mine'[t] = mine[t]
           /\ op' = op /\ key' = key /\ OthersStay(t) /\ left \subseteq left'
           /\ cur[t] = mine[t] /\ cur[t] \in Entries
           /\ bld[t] \in Tables /\ bld[t] = old + 1 /\ old \in Tables /\ tab[t] = old /\ bld[t] # old
           /\ key[t] \in Keys /\ UNCHANGED <<rootVars, phase, old, hist, fresh, bld, alone, stray>>
           /\ \A n \in Tables, k \in Keys :
                  n # bld[t] \/ k # key[t] => val'[n][k] = val[n][k]
           /\ \/ val'[bld[t]][key[t]].ptr = cur[t]
              \/ val' = val /\ val[bld[t]][key[t]].ptr # Nil /\ left' = left
              \/ val' = val /\ key[t] \in left'
<1>1. /\ pc[t] = "share" /\ Finish(t, "stored") /\ left \subseteq left'
      /\ UNCHANGED <<rootVars, hist, fresh, phase, old, argVars, bld, alone, stray>>
  BY DEF share, At
<1>2. is_building(t) BY <1>1 DEF OwnInv, CacheInv, RebuildInv, LoadedInv
<1>3. /\ bld[t] \in Tables /\ bld[t] = old + 1 /\ old \in Tables /\ tab[t] = old /\ bld[t] # old
      /\ key[t] \in Keys
  BY <1>1, <1>2, Working, HasTable DEF OwnInv, is_building
<1>4. cur[t] = mine[t] /\ cur[t] \in Entries
  BY <1>1 DEF OwnInv, BroughtInv, CacheInv, HandsInv, Storers
<1>5. pc'[t] = "return" /\ res'[t] = "stored" /\ mine'[t] = mine[t] /\ op' = op /\ key' = key /\ OthersStay(t)
  BY <1>1, FinishOthers DEF OwnInv, argVars
<1>6. PICK n, k, r : n = bld[t] /\ k = key[t] /\ r = Ref(cur[t], TRUE) OBVIOUS
<1>7. r \in Refs /\ r.ptr = cur[t] BY <1>4, <1>6, RefIsRef, RefParts
<1>8. CASE Put(n, k, r)
  <2>1. /\ \A m \in Tables, l \in Keys : m # n \/ l # k => val'[m][l] = val[m][l]
        /\ val'[n][k] = r
    <3>1. CacheInv /\ n \in Tables /\ k \in Keys BY <1>3, <1>6 DEF OwnInv
    <3> QED BY <1>7, <1>8, <3>1, PutValues
  <2> QED BY <1>1, <1>3, <1>4, <1>5, <1>6, <1>7, <2>1
<1>9. CASE UNCHANGED tableVars /\ val[n][k].ptr # Nil /\ left' = left
  BY <1>1, <1>3, <1>4, <1>5, <1>6, <1>9 DEF tableVars
<1>10. CASE UNCHANGED tableVars /\ key[t] \in left'
  BY <1>1, <1>3, <1>4, <1>5, <1>6, <1>10 DEF tableVars
<1> QED BY <1>6, <1>8, <1>9, <1>10 DEF share

LEMMA AddEntryEffects ==
    ASSUME OwnInv, NEW t \in Threads, add_entry(t)
    PROVE  /\ pc[t] = "act" /\ pc'[t] = "share" /\ mine'[t] = mine[t] /\ cur'[t] = mine[t]
           /\ op' = op /\ key' = key /\ OthersStay(t) /\ op[t] \in {"set", "add"}
           /\ is_building(t) /\ tab[t] = old /\ old \in Tables /\ key[t] \in Keys
           /\ mine[t] \in Entries
           /\ UNCHANGED <<rootVars, phase, old, hist, fresh, tab, bld, alone, stray, left>>
           /\ val[old][key[t]].ptr = Nil /\ val'[old][key[t]].ptr = mine[t]
           /\ \A n \in Tables, k \in Keys :
                  n # old \/ k # key[t] => val'[n][k] = val[n][k]
<1>1. /\ pc[t] = "act" /\ is_building(t) /\ op[t] \in {"set", "add"} /\ Value(t).ptr = Nil
      /\ Put(tab[t], key[t], Ref(mine[t], FALSE))
      /\ cur' = [cur EXCEPT ![t] = mine[t]] /\ Goto(t, "share")
      /\ UNCHANGED <<rootVars, hist, fresh, phase, old, argVars, tab, bld, res, alone, stray, left>>
  BY DEF add_entry, At, collectVars
<1>2. tab[t] = old /\ old \in Tables /\ key[t] \in Keys BY <1>1, Working, HasTable DEF OwnInv
<1>3. mine[t] \in Entries BY <1>1 DEF OwnInv, CacheInv, HandsInv, Storers
<1>4. pc'[t] = "share" /\ cur'[t] = mine[t] /\ mine'[t] = mine[t] /\ op' = op /\ key' = key /\ OthersStay(t)
  BY <1>1, GoesOnOthers DEF OwnInv, argVars
<1>5. PICK n, k, r : n = old /\ k = key[t] /\ r = Ref(mine[t], FALSE) OBVIOUS
<1>6. r \in Refs /\ r.ptr = mine[t] BY <1>3, <1>5, RefIsRef, RefParts
<1>7. /\ \A m \in Tables, l \in Keys : m # n \/ l # k => val'[m][l] = val[m][l]
      /\ val'[n][k] = r
  <2>1. CacheInv /\ n \in Tables /\ k \in Keys /\ Put(n, k, r) BY <1>1, <1>2, <1>5 DEF OwnInv
  <2> QED BY <1>6, <2>1, PutValues
<1> QED BY <1>1, <1>2, <1>3, <1>4, <1>5, <1>6, <1>7 DEF Value

LEMMA CopyClient ==
    ASSUME OwnInv, CopyInv, NEW t \in Threads, Client(t)
    PROVE  CopyInv'
<1>1. /\ OthersStay(t) /\ UNCHANGED <<rootVars, phase, old, todo, item>>
      /\ left' = left \/ share(t)
      /\ (crashed => crashed') /\ (stray => stray')
      /\ \/ plain(t) \/ add_entry(t) \/ share(t)
         \/ UNCHANGED val /\ pc[t] # "share" /\ pc'[t] # "share" /\ stray' = stray
  BY ClientEffects DEF OwnInv
<1> SUFFICES ASSUME ~stray', ~crashed', phase' \in {"copy", "add_shared"},
                    NEW k \in Keys \ (todo' \cup left'),
                    ~(phase' = "add_shared" /\ item' = k), ~Sharing(k)'
             PROVE  val'[building_'][k].ptr = val'[old'][k].ptr
  BY DEF CopyInv
<1>2. /\ ~stray /\ ~crashed /\ phase \in {"copy", "add_shared"} /\ k \notin todo
      /\ ~(phase = "add_shared" /\ item = k) /\ building_' = building_ /\ old' = old
  BY <1>1 DEF rootVars
<1>3. /\ building_ \in Tables /\ old \in Tables /\ building_ = old + 1 /\ building_ # old
      /\ phase \in Before
  BY <1>2 DEF OwnInv, CacheInv, RebuildInv, TablesInv, Copying, Before, Tables
<1>4. \A u \in Threads \ {t} : ~(pc[u] = "share" /\ key[u] = k)
  BY <1>1 DEF Sharing, OthersStay
<1>5. ASSUME k \notin left, ~Sharing(k) PROVE val[building_][k].ptr = val[old][k].ptr
  BY <1>2, <1>5 DEF CopyInv
<1>6. ~plain(t) BY <1>2, Working DEF plain, At, OwnInv, Copying
<1>7. CASE add_entry(t)
  <2>1. /\ pc[t] = "act" /\ pc'[t] = "share" /\ key' = key /\ left' = left
        /\ \A n \in Tables, l \in Keys : n # old \/ l # key[t] => val'[n][l] = val[n][l]
    BY <1>7, AddEntryEffects
  <2>2. k # key[t] /\ ~Sharing(k) BY <1>4, <2>1 DEF Sharing
  <2> QED BY <1>2, <1>3, <1>5, <2>1, <2>2
<1>8. CASE share(t)
  <2>1. /\ pc[t] = "share" /\ left \subseteq left' /\ bld[t] = old + 1
        /\ \A n \in Tables, l \in Keys : n # bld[t] \/ l # key[t] => val'[n][l] = val[n][l]
        /\ \/ val'[bld[t]][key[t]].ptr = cur[t]
           \/ val' = val /\ val[bld[t]][key[t]].ptr # Nil /\ left' = left
           \/ val' = val /\ key[t] \in left'
    BY <1>8, ShareEffects
  <2>2. CASE k # key[t]
    <3>1. ~Sharing(k) BY <1>4, <2>2 DEF Sharing
    <3> QED BY <1>2, <1>3, <1>5, <2>1, <2>2, <3>1
  <2>3. CASE k = key[t]
    <3>1. val[old][k].ptr = cur[t] BY <1>2, <2>1, <2>3 DEF OwnInv, SharedInv, Owns
    <3>2. val'[old][k] = val[old][k] BY <1>3, <2>1
    <3>3. val[building_][k].ptr # Nil => val[building_][k].ptr = val[old][k].ptr
      BY <1>2, <1>3, NewFromOld
    <3> QED BY <1>2, <1>3, <2>1, <2>3, <3>1, <3>2, <3>3
  <2> QED BY <2>2, <2>3
<1>9. CASE UNCHANGED val /\ pc[t] # "share" /\ ~share(t)
  BY <1>1, <1>2, <1>4, <1>5, <1>9 DEF Sharing
<1> QED BY <1>1, <1>6, <1>7, <1>8, <1>9

LEMMA CopyCollect ==
    ASSUME OwnInv, CopyInv, Collect
    PROVE  CopyInv'
<1> SUFFICES ASSUME ~stray', ~crashed', phase' \in {"copy", "add_shared"},
                    NEW k \in Keys \ (todo' \cup left'),
                    ~(phase' = "add_shared" /\ item' = k), ~Sharing(k)'
             PROVE  val'[building_'][k].ptr = val'[old'][k].ptr
  BY DEF CopyInv
<1> USE DEF Collector, rootVars, tableVars, clientVars, argVars
<1>1. CASE get_atime_cutoff BY <1>1 DEF get_atime_cutoff, Crash
<1>2. ASSUME NEW l \in Keys, entry_is_live(l) PROVE val'[building_'][k].ptr = val'[old'][k].ptr
  <2>1. /\ phase = "copy" /\ ~crashed /\ ~stray /\ UNCHANGED <<rootVars, val, old, pc, key>>
        /\ todo' = todo \ {l} /\ left \subseteq left'
        /\ \/ l \notin used[old] \/ val[old][l].ptr = Nil
           \/ l \in left'
           \/ phase' = "add_shared" /\ item' = l
    BY <1>2 DEF entry_is_live
  <2>2. ~Sharing(k) BY <2>1 DEF Sharing
  <2>3. CASE k # l BY <2>1, <2>2, <2>3 DEF CopyInv
  <2>4. CASE k = l
    <3>1. old \in Tables /\ phase \in Before
      BY <2>1 DEF OwnInv, CacheInv, RebuildInv, TablesInv, Before, Copying
    <3>2. val[old][k].ptr = Nil BY <2>1, <2>4, <3>1 DEF OwnInv, PlacesInv
    <3>3. val[building_][k].ptr = Nil BY <2>1, <3>1, <3>2, NewFromOld
    <3> QED BY <2>1, <3>2, <3>3
  <2> QED BY <2>3, <2>4
<1>3. CASE add_shared
  <2>1. /\ phase = "add_shared" /\ ~crashed /\ ~stray
        /\ UNCHANGED <<rootVars, old, pc, key, todo>> /\ left \subseteq left'
    BY <1>3 DEF add_shared
  <2>2. /\ building_ \in Tables /\ old \in Tables /\ building_ # old /\ phase \in Before
        /\ item \in Keys /\ CacheInv
    BY <2>1 DEF OwnInv, CacheInv, RebuildInv, TablesInv, Copying, Before, Tables, HandsInv
  <2>3. PICK n, i, r : n = building_ /\ i = item /\ r = Ref(val[old][item].ptr, TRUE) OBVIOUS
  <2>4. r \in Refs /\ r.ptr = val[old][item].ptr BY <2>2, <2>3, ValueType, RefIsRef, RefParts DEF CacheInv
  <2>5. /\ \A m \in Tables, l \in Keys : m # n \/ l # i => val'[m][l] = val[m][l]
        /\ \/ val'[n][i] = r
           \/ val' = val /\ val[n][i].ptr # Nil
           \/ val' = val /\ i \in left'
    <3>1. CASE Put(n, i, r)
      <4>1. n \in Tables /\ i \in Keys BY <2>2, <2>3
      <4> QED BY <2>2, <2>4, <3>1, <4>1, PutValues
    <3>2. CASE val' = val /\ (val[n][i].ptr # Nil \/ i \in left') BY <3>2
    <3> QED BY <1>3, <2>3, <3>1, <3>2 DEF add_shared
  <2>6. ~Sharing(k) BY <2>1 DEF Sharing
  <2>7. CASE k # item
    <3>1. val[building_][k].ptr = val[old][k].ptr BY <2>1, <2>6, <2>7 DEF CopyInv
    <3> QED BY <2>1, <2>2, <2>3, <2>5, <2>7, <3>1
  <2>8. CASE k = item
    <3>1. val[building_][k].ptr # Nil => val[building_][k].ptr = val[old][k].ptr
      BY <2>1, <2>2, NewFromOld
    <3> QED BY <2>1, <2>2, <2>3, <2>4, <2>5, <2>8, <3>1
  <2> QED BY <2>7, <2>8
<1>4. ~collect /\ ~flush_building /\ ~swap /\ ~built /\ ~flush_old /\ ~delete_old
      /\ \A l \in Keys : ~exclusive(l)
  BY DEF collect, flush_building, swap, built, flush_old, delete_old, exclusive, Crash, collectVars
<1> QED BY <1>1, <1>2, <1>3, <1>4 DEF Collect

(* The copy is right so far, in every state. *)
THEOREM CopyCorrect == Spec => []CopyInv
<1>1. Init => CopyInv BY DEF Init, CopyInv
<1>2. OwnInv /\ CopyInv /\ [Next]_vars => CopyInv'
  <2> SUFFICES ASSUME OwnInv, CopyInv, [Next]_vars PROVE CopyInv'
    OBVIOUS
  <2>1. CASE Collect BY <2>1, CopyCollect
  <2>2. ASSUME NEW t \in Threads, Client(t) PROVE CopyInv' BY <2>2, CopyClient
  <2>3. CASE UNCHANGED vars
    BY <2>3 DEF CopyInv, Sharing, vars, rootVars, tableVars, clientVars, argVars, collectVars
  <2> QED BY <2>1, <2>2, <2>3 DEF Next
<1> QED BY <1>1, <1>2, OwnersCorrect, PTL DEF Spec

(***************************************************************************)
(* The swap of the tables in collect() is invisible to get(), for a key    *)
(* that is not left behind and not just being shared.                      *)
(***************************************************************************)
THEOREM SwapKeepsCorrect == Spec => SwapKeeps
<1> DEFINE Kept ==
        entries_' # entries_ =>
            \A k \in Keys :
                ~stray /\ k \notin left /\ ~(\E t \in Threads : pc[t] = "share" /\ key[t] = k)
                => Lookup(k)' = Lookup(k)
<1>1. OwnInv /\ CopyInv /\ [Next]_vars => [Kept]_vars
  <2> SUFFICES ASSUME OwnInv, CopyInv, Next, entries_' # entries_, NEW k \in Keys, ~stray,
                      k \notin left, ~Sharing(k)
               PROVE  Lookup(k)' = Lookup(k)
    BY DEF Sharing
  <2>1. \A t \in Threads : ~Client(t) BY ClientEffects DEF OwnInv, rootVars
  <2>2. Collect BY <2>1, SMTT(30) DEF Next
  <2>3. swap
    BY <2>2 DEF Collect, collect, flush_building, get_atime_cutoff, add_shared, built, flush_old,
                delete_old, entry_is_live, exclusive, rootVars, Crash
  <2>4. /\ phase = "copy" /\ ~crashed /\ todo = {} /\ entries_' = building_
        /\ val' = val /\ hist' = hist
    BY <2>3 DEF swap, Collector, tableVars, heapVars
  <2>5. entries_ = old BY <2>4 DEF OwnInv, CacheInv, RebuildInv, TablesInv, Copying
  <2>6. val[building_][k].ptr = val[old][k].ptr BY <2>4 DEF CopyInv
  <2> QED BY <2>4, <2>5, <2>6 DEF Lookup, newest
<1>2. Spec => [][Kept]_vars BY <1>1, OwnersCorrect, CopyCorrect, PTL DEF Spec
<1> QED BY <1>2 DEF SwapKeeps

-----------------------------------------------------------------------------
(* What an acknowledged operation leaves in the cache.                     *)

Pristine(e) == hist[e] = [vs |-> <<e>>, del |-> FALSE]
Apart(e) == e \in fresh \/ \E t \in Threads : Holds(t, e)

(***************************************************************************)
(* A thread that writes has an operation that writes.  One that is done    *)
(* has written to both tables while the table is copied, and to the new    *)
(* one alone when the old one is taken apart.                              *)
(***************************************************************************)
WriterInv(t) ==
    /\ pc[t] \in {"is_building", "return"} \cup Writing => op[t] \in Writers
    /\ pc[t] = "return" =>
           /\ phase = "settle" \/ (phase = "flush_old" /\ t \notin waiting) => bld[t] = NoTable
           /\ phase \in Copying \/ (phase = "flush_building" /\ t \notin waiting) =>
                  bld[t] # NoTable

(* Who is alone shares its key with no other operation that writes. *)
AloneInv ==
    \A t, u \in Threads :
        /\ alone[t] /\ t # u /\ pc[t] # "idle" /\ op[t] \in Writers
        /\ pc[u] # "idle" /\ op[u] \in Writers
        => key[t] # key[u]

(* An entry that no table has had is its own only version. *)
PristineInv == \A e \in Entries : Apart(e) => Pristine(e)

(* The entry that a thread has found is the value of no other key. *)
KeyInv ==
    \A t \in Threads, n \in Tables, k \in Keys :
        pc[t] = "version" /\ val[n][k].ptr = cur[t] => k = key[t]

StoredRight(t) ==
    /\ res[t] = "stored" => Lookup(key[t]) = mine[t]
    /\ res[t] = "deleted" => Lookup(key[t]) = Nil

(***************************************************************************)
(* An operation that is alone on its key, wherever it is: when the table   *)
(* it has loaded was replaced the new one has the same entry, or lacks the *)
(* one it is about to share, unless the rebuild left the key behind; and   *)
(* when it is done a get sees what it did.                                 *)
(***************************************************************************)
EffectInv(t) ==
    /\ pc[t] \in {"is_building", "act", "version"} /\ tab[t] # entries_ /\ key[t] \notin left =>
           val[entries_][key[t]].ptr = val[tab[t]][key[t]].ptr
    /\ pc[t] = "version" => val[tab[t]][key[t]].ptr = cur[t]
    /\ pc[t] = "share" => Pristine(cur[t])
    /\ pc[t] = "share" /\ tab[t] # entries_ /\ key[t] \notin left =>
           val[entries_][key[t]].ptr \in {Nil, cur[t]}
    /\ pc[t] = "return" /\ ~(bld[t] # NoTable /\ key[t] \in left) => StoredRight(t)

SeenInv ==
    /\ OwnInv /\ CopyInv /\ AloneInv /\ \A t \in Threads : WriterInv(t)
    /\ ~stray => /\ PristineInv /\ KeyInv
                 /\ \A t \in Threads : alone[t] => EffectInv(t)

-----------------------------------------------------------------------------
(* What a step of a client does to the others.                             *)

LocalsKept(t) ==
    \A u \in Threads \ {t} :
        tab'[u] = tab[u] /\ bld'[u] = bld[u] /\ (alone'[u] => alone[u]) /\ (u \in waiting' <=> u \in waiting)

LEMMA FinishFrame ==
    ASSUME CacheInv, NEW t \in Threads, NEW r, Finish(t, r), UNCHANGED <<bld, alone, waiting>>
    PROVE  LocalsKept(t)
BY DEF CacheInv, LocalsType, Finish, LocalsKept

LEMMA LeaveFrame ==
    ASSUME CacheInv, NEW t \in Threads, Leave(t)
    PROVE  LocalsKept(t)
BY DEF CacheInv, LocalsType, CollectType, Leave, LocalsKept

LEMMA BeginFrame ==
    ASSUME CacheInv, NEW t \in Threads, NEW o, NEW k, NEW e, Begin(t, o, k, e)
    PROVE  LocalsKept(t)
<1> SUFFICES ASSUME NEW u \in Threads, u # t
             PROVE  tab'[u] = tab[u] /\ bld'[u] = bld[u] /\ (alone'[u] => alone[u])
                    /\ (u \in waiting' <=> u \in waiting)
  BY DEF LocalsKept
<1>1. tab'[u] = tab[u] /\ bld'[u] = bld[u] /\ waiting' = waiting
  BY DEF CacheInv, LocalsType, Begin, collectVars
<1>2. alone'[u] => alone[u]
  <2>1. CASE alone' = alone BY <2>1
  <2>2. CASE alone' = [v \in Threads |->
                         IF v = t THEN OnKey(k) = {} ELSE alone[v] /\ v \notin OnKey(k)]
    BY <2>2, Zenon
  <2> QED BY <2>1, <2>2 DEF Begin
<1> QED BY <1>1, <1>2

LEMMA ClientKeepsFrame ==
    ASSUME CacheInv, NEW t \in Threads, Client(t)
    PROVE  LocalsKept(t)
<1> USE DEF collectVars
<1>1. CASE store(t) \/ request(t)
  <2>1. PICK o, k, e : Begin(t, o, k, e) BY <1>1 DEF store, request
  <2> QED BY <2>1, BeginFrame
<1>2. CASE load_building(t) BY <1>2 DEF load_building, LocalsKept, CacheInv, LocalsType
<1>3. CASE plain(t)
  <2>1. (\E r : Finish(t, r)) /\ UNCHANGED <<bld, alone, waiting>> BY <1>3 DEF plain
  <2> QED BY <2>1, FinishFrame
<1>4. CASE add_entry(t) \/ found_entry(t) BY <1>4 DEF add_entry, found_entry, LocalsKept
<1>5. CASE table_full(t)
  <2>1. CASE Crash BY <2>1 DEF Crash, LocalsKept, clientVars, localVars
  <2>2. CASE Finish(t, "failed") /\ UNCHANGED <<bld, alone, waiting>> BY <2>2, FinishFrame
  <2> QED BY <1>5, <2>1, <2>2 DEF table_full
<1>6. CASE find_entry(t)
  <2>1. CASE Finish(t, "failed") BY <1>6, <2>1, FinishFrame DEF find_entry
  <2>2. CASE UNCHANGED tab BY <1>6, <2>2 DEF find_entry, LocalsKept
  <2> QED BY <1>6, <2>1, <2>2 DEF find_entry
<1>7. CASE share(t)
  <2>1. Finish(t, "stored") /\ UNCHANGED <<bld, alone, waiting>> BY <1>7 DEF share
  <2> QED BY <2>1, FinishFrame
<1>8. CASE version(t)
  <2>1. CASE UNCHANGED clientVars BY <1>8, <2>1 DEF version, LocalsKept, clientVars, localVars
  <2>2. CASE (\E r : Finish(t, r)) /\ UNCHANGED <<bld, alone, waiting>> BY <2>2, FinishFrame
  <2> QED BY <1>8, <2>1, <2>2 DEF version
<1>9. CASE return(t) \/ get(t) BY <1>9, LeaveFrame DEF return, get
<1>10. CASE find(t)
  <2>1. CASE Leave(t) BY <2>1, LeaveFrame
  <2>2. CASE UNCHANGED <<tab, bld, alone, waiting>> BY <2>2 DEF LocalsKept
  <2> QED BY <1>10, <2>1, <2>2 DEF find
<1> QED BY <1>1, <1>2, <1>3, <1>4, <1>5, <1>6, <1>7, <1>8, <1>9, <1>10 DEF Client

LEMMA PlainEffects ==
    ASSUME OwnInv, NEW t \in Threads, plain(t)
    PROVE  /\ pc[t] = "act" /\ pc'[t] = "return" /\ ~is_building(t)
           /\ stray' = (stray \/ Strays(t))
           /\ tab[t] \in Tables /\ key[t] \in Keys
           /\ UNCHANGED <<rootVars, phase, old, hist, fresh, argVars, bld, alone, left, waiting>>
           /\ \A n \in Tables, k \in Keys : n # tab[t] \/ k # key[t] => val'[n][k] = val[n][k]
           /\ \/ /\ res'[t] = "stored" /\ mine[t] \in Entries
                 /\ val'[tab[t]][key[t]].ptr = mine[t]
              \/ res'[t] = "deleted" /\ val'[tab[t]][key[t]].ptr = Nil
              \/ res'[t] = "failed" /\ val' = val
<1>1. /\ pc[t] = "act" /\ ~is_building(t) /\ stray' = (stray \/ Strays(t))
      /\ UNCHANGED <<rootVars, phase, old, hist, fresh, argVars, bld, alone, left, waiting>>
  BY DEF plain, At, collectVars
<1>2. tab[t] \in Tables /\ key[t] \in Keys BY <1>1, HasTable DEF OwnInv
<1>3. PICK n, k, r, z : n = tab[t] /\ k = key[t] /\ r = Ref(mine[t], FALSE) /\ z = NullRef OBVIOUS
<1>4. CacheInv /\ n \in Tables /\ k \in Keys BY <1>2, <1>3 DEF OwnInv
<1>5. CASE op[t] \in Storers /\ Put(n, k, r) /\ Finish(t, "stored")
  <2>1. mine[t] \in Entries BY <1>1, <1>5 DEF OwnInv, CacheInv, HandsInv
  <2>2. r \in Refs /\ r.ptr = mine[t] BY <1>3, <2>1, RefIsRef, RefParts
  <2>3. /\ \A m \in Tables, l \in Keys : m # n \/ l # k => val'[m][l] = val[m][l]
        /\ val'[n][k] = r
    BY <1>4, <1>5, <2>2, PutValues
  <2>4. pc'[t] = "return" /\ res'[t] = "stored" BY <1>1, <1>4, <1>5, FinishOthers
  <2> QED BY <1>1, <1>2, <1>3, <2>1, <2>2, <2>3, <2>4
<1>6. CASE Put(n, k, z) /\ Finish(t, "deleted")
  <2>1. z \in Refs /\ z.ptr = Nil BY <1>3, RefIsRef, RefParts DEF NullRef
  <2>2. /\ \A m \in Tables, l \in Keys : m # n \/ l # k => val'[m][l] = val[m][l]
        /\ val'[n][k] = z
    BY <1>4, <1>6, <2>1, PutValues
  <2>3. pc'[t] = "return" /\ res'[t] = "deleted" BY <1>1, <1>4, <1>6, FinishOthers
  <2> QED BY <1>1, <1>2, <1>3, <2>1, <2>2, <2>3
<1>7. CASE UNCHANGED tableVars /\ Finish(t, "failed")
  <2>1. pc'[t] = "return" /\ res'[t] = "failed" BY <1>1, <1>4, <1>7, FinishOthers
  <2> QED BY <1>1, <1>2, <1>7, <2>1 DEF tableVars
<1> QED BY <1>3, <1>5, <1>6, <1>7 DEF plain, Storers

LEMMA VersionEffects ==
    ASSUME OwnInv, NEW t \in Threads, version(t)
    PROVE  /\ pc[t] = "version" /\ is_building(t)
           /\ UNCHANGED <<rootVars, phase, old, val, fresh, left, stray, waiting>>
           /\ \A e \in Entries : e # cur[t] => hist'[e] = hist[e]
           /\ \/ UNCHANGED <<clientVars, hist>>
              \/ /\ pc'[t] = "return" /\ UNCHANGED <<argVars, bld, alone>>
                 /\ \/ res'[t] = "failed" /\ hist' = hist
                    \/ /\ res'[t] = "stored" /\ mine[t] \in Entries
                       /\ \A e \in Entries : e = cur[t] => newest(e)' = mine[t]
                    \/ /\ res'[t] = "deleted"
                       /\ \A e \in Entries : e = cur[t] => newest(e)' = Nil
<1>1. /\ pc[t] = "version"
      /\ UNCHANGED <<rootVars, phase, old, val, fresh, left, stray, waiting>>
  BY DEF version, At, collectVars, tableVars, heapVars
<1>2. is_building(t) BY <1>1 DEF OwnInv, CacheInv, RebuildInv, LoadedInv
<1>3. hist \in [Entries -> [vs : Seq(Entries), del : BOOLEAN]] BY DEF OwnInv, CacheInv, HeapType
<1>4. CASE UNCHANGED <<clientVars, heapVars>> BY <1>1, <1>2, <1>4 DEF heapVars
<1>5. CASE Finish(t, "failed") /\ UNCHANGED <<argVars, bld, alone, heapVars>>
  <2>1. pc'[t] = "return" /\ res'[t] = "failed" BY <1>5, FinishOthers DEF OwnInv
  <2> QED BY <1>1, <1>2, <1>5, <2>1 DEF heapVars
<1>6. CASE /\ op[t] \in Storers /\ NewVersion(cur[t], mine[t]) /\ Finish(t, "stored")
           /\ UNCHANGED <<argVars, bld, alone>>
  <2>1. pc'[t] = "return" /\ res'[t] = "stored" BY <1>6, FinishOthers DEF OwnInv
  <2>2. mine[t] \in Entries BY <1>1, <1>6 DEF OwnInv, CacheInv, HandsInv
  <2>3. \A e \in Entries :
            hist'[e] = IF e = cur[t] THEN [vs |-> Append(hist[e].vs, mine[t]), del |-> FALSE]
                                     ELSE hist[e]
    BY <1>3, <1>6 DEF NewVersion
  <2>4. \A s \in Seq(Entries) : Last(Append(s, mine[t])) = mine[t] BY <2>2 DEF Last
  <2>5. \A e \in Entries : hist[e].vs \in Seq(Entries) BY <1>3
  <2>6. ASSUME NEW e \in Entries, e = cur[t] PROVE newest(e)' = mine[t]
    <3>0. hist'[e] = [vs |-> Append(hist[e].vs, mine[t]), del |-> FALSE] BY <2>3, <2>6
    <3>1. ~hist'[e].del /\ hist'[e].vs = Append(hist[e].vs, mine[t]) BY <3>0
    <3>2. Last(hist'[e].vs) = mine[t] BY <2>4, <2>5, <3>1
    <3> QED BY <3>1, <3>2 DEF newest
  <2> QED BY <1>1, <1>2, <1>6, <2>1, <2>2, <2>3, <2>6
<1>7. CASE /\ hist' = [hist EXCEPT ![cur[t]] = [@ EXCEPT !.del = TRUE]]
           /\ Finish(t, "deleted") /\ UNCHANGED <<argVars, bld, alone>>
  <2>1. pc'[t] = "return" /\ res'[t] = "deleted" BY <1>7, FinishOthers DEF OwnInv
  <2>2. \A e \in Entries : IF e = cur[t] THEN hist'[e].del = TRUE ELSE hist'[e] = hist[e]
    BY <1>3, <1>7
  <2>3. \A e \in Entries : e = cur[t] => newest(e)' = Nil BY <2>2 DEF newest
  <2> QED BY <1>1, <1>2, <1>7, <2>1, <2>2, <2>3
<1> QED BY <1>4, <1>5, <1>6, <1>7 DEF version, Storers

(* The thread finds the entry of its key, to give it a version. *)
Finds(t) == (found_entry(t) \/ find_entry(t)) /\ pc'[t] = "version"

LEMMA FindsEffects ==
    ASSUME OwnInv, NEW t \in Threads, Finds(t)
    PROVE  /\ pc[t] = "act" /\ pc'[t] = "version" /\ is_building(t)
           /\ tab[t] \in Tables /\ key[t] \in Keys
           /\ val[tab[t]][key[t]].ptr # Nil /\ cur'[t] = val[tab[t]][key[t]].ptr
           /\ UNCHANGED <<rootVars, phase, old, val, hist, fresh, argVars, tab, bld, alone, left,
                          stray, waiting>>
<1>1. pc[t] = "act" /\ is_building(t)
      /\ UNCHANGED <<rootVars, phase, old, val, hist, fresh, argVars, bld, alone, left, stray, waiting>>
  BY DEF Finds, found_entry, find_entry, At, tableVars, heapVars, collectVars
<1>2. tab[t] \in Tables /\ key[t] \in Keys BY <1>1, HasTable DEF OwnInv
<1>3. ~Finish(t, "failed")
  <2>1. Finish(t, "failed") => pc'[t] = "return" BY <1>1, FinishOthers DEF OwnInv
  <2> QED BY <2>1 DEF Finds
<1>4. Value(t).ptr # Nil /\ cur' = [cur EXCEPT ![t] = Value(t).ptr] /\ UNCHANGED tab
  BY <1>3 DEF Finds, found_entry, find_entry
<1>5. cur'[t] = Value(t).ptr BY <1>4 DEF OwnInv, CacheInv, LocalsType
<1> QED BY <1>1, <1>2, <1>4, <1>5 DEF Finds, Value

(* Every other step leaves tables and entries alone. *)
LEMMA QuietEffects ==
    ASSUME OwnInv, NEW t \in Threads, Client(t),
           ~plain(t), ~add_entry(t), ~share(t), ~version(t), ~Finds(t)
    PROVE  /\ UNCHANGED <<rootVars, phase, old, val, hist, left, stray>>
           /\ \/ pc'[t] \in {"idle", "find", "entry"}
              \/ /\ pc[t] = "idle" /\ pc'[t] = "is_building" /\ tab'[t] = entries_
                 /\ op'[t] \in Writers
              \/ /\ pc[t] = "is_building" /\ pc'[t] = "act"
                 /\ UNCHANGED <<argVars, tab, alone, waiting>>
              \/ /\ pc[t] = "act" /\ pc'[t] = "return" /\ res'[t] = "failed"
                 /\ UNCHANGED <<argVars, bld, alone, waiting>>
              \/ UNCHANGED <<clientVars, waiting>>
<1> USE DEF At, collectVars, tableVars, heapVars
<1>0. CacheInv BY DEF OwnInv
<1>1. CASE store(t) \/ request(t)
  <2>1. PICK o, k, e : o \in Ops /\ k \in Keys /\ Begin(t, o, k, e)
    BY <1>1 DEF store, request, Ops, Writers
  <2>2. pc[t] = "idle" /\ tab'[t] = entries_
    BY <1>0, <2>1 DEF Begin, CacheInv, LocalsType
  <2>3. (pc'[t] = "is_building" /\ op'[t] \in Writers) \/ pc'[t] = "find"
    BY <1>0, <2>1 DEF Begin, Goto, CacheInv, ArgsType
  <2> QED BY <2>1, <2>2, <2>3 DEF Begin
<1>2. CASE load_building(t)
  <2>1. pc'[t] = "act" BY <1>0, <1>2 DEF load_building, Goto, CacheInv, ArgsType
  <2> QED BY <1>2, <2>1 DEF load_building
<1>3. CASE found_entry(t)
  <2>1. pc'[t] = "version" BY <1>0, <1>3 DEF found_entry, Goto, CacheInv, ArgsType
  <2> QED BY <1>3, <2>1 DEF Finds
<1>4. CASE table_full(t)
  <2>1. CASE Crash BY <1>4, <2>1 DEF table_full, Crash
  <2>2. CASE Finish(t, "failed") /\ UNCHANGED <<tableVars, heapVars, argVars, bld, alone, collectVars, stray>>
    <3>1. pc'[t] = "return" /\ res'[t] = "failed" BY <1>0, <2>2, FinishOthers
    <3> QED BY <1>4, <2>2, <3>1 DEF table_full
  <2> QED BY <1>4, <2>1, <2>2 DEF table_full
<1>5. CASE find_entry(t)
  <2>1. CASE Finish(t, "failed")
    <3>1. pc'[t] = "return" /\ res'[t] = "failed" BY <1>0, <1>5, <2>1, FinishOthers DEF find_entry
    <3> QED BY <1>5, <3>1 DEF find_entry
  <2>2. CASE Goto(t, "version")
    <3>1. pc'[t] = "version" BY <1>0, <2>2 DEF Goto, CacheInv, ArgsType
    <3> QED BY <1>5, <3>1 DEF Finds
  <2> QED BY <1>5, <2>1, <2>2 DEF find_entry
<1>6. CASE return(t) \/ get(t)
  <2>1. pc'[t] = "idle" BY <1>0, <1>6, LeaveOthers DEF return, get
  <2> QED BY <1>6, <2>1 DEF return, get
<1>7. CASE find(t)
  <2>1. pc'[t] \in {"idle", "entry"}
    BY <1>0, <1>7, LeaveOthers DEF find, Goto, CacheInv, ArgsType
  <2> QED BY <1>7, <2>1 DEF find
<1> QED BY <1>1, <1>2, <1>3, <1>4, <1>5, <1>6, <1>7 DEF Client

(* Nothing that has been in a table comes back to a thread. *)
LEMMA ApartKept ==
    ASSUME OwnInv, NEW t \in Threads, Client(t), NEW e \in Entries, Apart(e)'
    PROVE  Apart(e)
<1> USE DEF At, collectVars, heapVars
<1>0. CacheInv /\ OthersStay(t) BY ClientEffects DEF OwnInv
<1>1. \A u \in Threads \ {t} : Holds(u, e)' => Holds(u, e) BY <1>0 DEF OthersStay, Holds
<1>2. SUFFICES ASSUME e \in fresh' \/ Holds(t, e)'
               PROVE  e \in fresh \/ Holds(t, e)
  BY <1>1 DEF Apart
<1>3. CASE store(t)
  <2>1. PICK o \in Storers, k \in Keys, x \in fresh : Begin(t, o, k, x) /\ fresh' = fresh \ {x} BY <1>3 DEF store
  <2>2. mine'[t] = x BY <1>0, <2>1 DEF Begin, CacheInv, ArgsType
  <2> QED BY <1>2, <2>1, <2>2 DEF Holds
<1>4. CASE request(t)
  <2>1. mine'[t] = Nil /\ fresh' = fresh BY <1>0, <1>4 DEF request, Begin, CacheInv, ArgsType
  <2> QED BY <1>2, <2>1, NilAssumption DEF Holds
<1>5. CASE return(t)
  <2>1. mine'[t] = Nil BY <1>0, <1>5, LeaveOthers DEF return
  <2>2. ~Holds(t, e)' BY <2>1, NilAssumption DEF Holds
  <2>3. e \in fresh \/ (res[t] = "failed" /\ e = mine[t]) BY <1>2, <1>5, <2>2 DEF return
  <2> QED BY <1>5, <2>3 DEF return, Holds
<1>6. CASE get(t) \/ find(t)
  <2>1. fresh' = fresh BY <1>6 DEF get, find
  <2>2. CASE Leave(t)
    <3>1. mine'[t] = Nil BY <1>0, <2>2, LeaveOthers
    <3> QED BY <1>2, <2>1, <3>1, NilAssumption DEF Holds
  <2>3. CASE Goto(t, "entry")
    <3>1. pc'[t] = "entry" BY <1>0, <2>3 DEF Goto, CacheInv, ArgsType
    <3> QED BY <1>2, <2>1, <3>1 DEF Holds
  <2> QED BY <1>6, <2>2, <2>3 DEF get, find
<1>7. CASE load_building(t)
  <2>1. pc[t] = "is_building" /\ UNCHANGED <<mine, fresh>> BY <1>7 DEF load_building, argVars
  <2> QED BY <1>2, <2>1 DEF Holds
<1>8. CASE plain(t) \/ add_entry(t) \/ Finds(t)
  <2>1. pc[t] = "act" /\ UNCHANGED <<mine, fresh>>
    BY <1>8, PlainEffects, FindsEffects DEF add_entry, argVars
  <2> QED BY <1>2, <2>1 DEF Holds
<1>9. CASE share(t)
  <2>1. pc'[t] = "return" /\ res'[t] = "stored" /\ fresh' = fresh BY <1>9, ShareEffects
  <2> QED BY <1>2, <2>1 DEF Holds
<1>10. CASE version(t)
  <2>1. pc[t] = "version" /\ UNCHANGED <<mine, fresh>>
    BY <1>10, VersionEffects DEF clientVars, argVars
  <2> QED BY <1>2, <2>1 DEF Holds
<1>11. CASE table_full(t) \/ found_entry(t) \/ find_entry(t)
  <2>1. pc[t] = "act" /\ UNCHANGED <<mine, fresh>>
    BY <1>11 DEF table_full, found_entry, find_entry, Crash, clientVars, argVars
  <2> QED BY <1>2, <2>1 DEF Holds
<1> QED BY <1>3, <1>4, <1>5, <1>6, <1>7, <1>8, <1>9, <1>10, <1>11 DEF Client

(* Keys and entries that a step may touch. *)
LEMMA ClientTouches ==
    ASSUME OwnInv, NEW t \in Threads, Client(t)
    PROVE  /\ \A n \in Tables, k \in Keys :
                  val'[n][k] # val[n][k] => k = key[t] /\ pc[t] \in {"act", "share"}
           /\ \A e \in Entries : hist'[e] # hist[e] => pc[t] = "version" /\ e = cur[t]
           /\ left \subseteq left'
           /\ pc'[t] = "return" => /\ pc[t] \in Writing \/ (pc[t] = "return" /\ UNCHANGED clientVars)
                                   /\ UNCHANGED <<argVars, bld, alone, waiting>>
<1>1. CASE plain(t) BY <1>1, PlainEffects DEF Writing
<1>2. CASE add_entry(t) BY <1>2, AddEntryEffects
<1>3. CASE share(t)
  <2>1. UNCHANGED <<argVars, bld, alone, waiting, hist>> BY <1>3 DEF share
  <2> QED BY <1>3, <2>1, ShareEffects DEF Writing
<1>4. CASE version(t) BY <1>4, VersionEffects DEF clientVars, localVars, Writing
<1>5. CASE Finds(t) BY <1>5, FindsEffects
<1>6. CASE ~plain(t) /\ ~add_entry(t) /\ ~share(t) /\ ~version(t) /\ ~Finds(t)
  BY <1>6, QuietEffects DEF clientVars, localVars, Writing
<1> QED BY <1>1, <1>2, <1>3, <1>4, <1>5, <1>6

LEMMA ClientTurns ==
    ASSUME OwnInv, NEW t \in Threads, Client(t)
    PROVE  \/ pc'[t] = "idle"
           \/ pc[t] # "idle" /\ op'[t] = op[t] /\ key'[t] = key[t] /\ alone' = alone
           \/ \E o, k, e : o \in Ops /\ k \in Keys /\ Begin(t, o, k, e)
<1> USE DEF At
<1>0. CacheInv BY DEF OwnInv
<1>1. CASE store(t) \/ request(t) BY <1>1 DEF store, request, Ops, Writers
<1>2. CASE return(t) \/ get(t) BY <1>0, <1>2, LeaveOthers DEF return, get
<1>3. CASE find(t) BY <1>0, <1>3, LeaveOthers DEF find, argVars
<1>4. CASE table_full(t) BY <1>4 DEF table_full, Crash, clientVars, argVars
<1>5. CASE version(t) BY <1>5 DEF version, clientVars, argVars
<1>6. CASE load_building(t) \/ plain(t) \/ add_entry(t) \/ found_entry(t) \/ find_entry(t) \/ share(t)
  BY <1>6 DEF load_building, plain, add_entry, found_entry, find_entry, share, argVars
<1> QED BY <1>1, <1>2, <1>3, <1>4, <1>5, <1>6 DEF Client

-----------------------------------------------------------------------------
(* Its parts hold after every step.                                        *)

LEMMA WriterClient ==
    ASSUME OwnInv, \A u \in Threads : WriterInv(u), NEW t \in Threads, Client(t)
    PROVE  \A u \in Threads : WriterInv(u)'
<1>1. OthersStay(t) /\ LocalsKept(t) /\ phase' = phase /\ CacheInv
  BY ClientEffects, ClientKeepsFrame DEF OwnInv
<1>2. ASSUME NEW u \in Threads, u # t PROVE WriterInv(u)'
  <2>1. WriterInv(u) OBVIOUS
  <2> QED BY <1>1, <1>2, <2>1 DEF WriterInv, OthersStay, LocalsKept
<1>3. WriterInv(t)'
  <2>1. pc'[t] \in {"is_building", "return"} \cup Writing => op'[t] \in Writers
    <3>1. ASSUME pc[t] \in {"is_building", "return"} \cup Writing, op'[t] = op[t]
          PROVE  op'[t] \in Writers
      BY <3>1 DEF WriterInv
    <3>2. CASE plain(t) BY <3>1, <3>2, PlainEffects DEF Writing, argVars
    <3>3. CASE add_entry(t) BY <3>1, <3>3, AddEntryEffects DEF Writing
    <3>4. CASE share(t) BY <3>1, <3>4, ShareEffects DEF Writing
    <3>5. CASE version(t) BY <3>1, <3>5, VersionEffects DEF Writing, argVars, clientVars
    <3>6. CASE Finds(t) BY <3>1, <3>6, FindsEffects DEF Writing, argVars
    <3>7. CASE ~plain(t) /\ ~add_entry(t) /\ ~share(t) /\ ~version(t) /\ ~Finds(t)
      <4>1. \/ pc'[t] \in {"idle", "find", "entry"}
            \/ op'[t] \in Writers
            \/ pc[t] \in {"is_building", "act"} /\ UNCHANGED argVars
            \/ UNCHANGED clientVars
        BY <3>7, QuietEffects
      <4> QED BY <3>1, <4>1 DEF Writing, argVars, clientVars
    <3> QED BY <3>2, <3>3, <3>4, <3>5, <3>6, <3>7
  <2>2. ASSUME pc'[t] = "return"
        PROVE  /\ phase' = "settle" \/ (phase' = "flush_old" /\ t \notin waiting') => bld'[t] = NoTable
               /\ phase' \in Copying \/ (phase' = "flush_building" /\ t \notin waiting') =>
                      bld'[t] # NoTable
    <3>1. pc[t] \in Writing \cup {"return"} /\ UNCHANGED <<bld, waiting>>
      BY <2>2, ClientTouches
    <3>2. CASE pc[t] = "return" BY <1>1, <3>1, <3>2 DEF WriterInv
    <3>3. CASE pc[t] \in Writing
      <4>1. LoadedInv(t) /\ TablesInv BY <1>1 DEF CacheInv, RebuildInv
      <4> QED BY <1>1, <3>1, <3>3, <4>1 DEF LoadedInv, TablesInv, Writing, Copying, Tables, NoTable
    <3> QED BY <3>1, <3>2, <3>3
  <2> QED BY <2>1, <2>2 DEF WriterInv
<1> QED BY <1>2, <1>3

LEMMA AloneClient ==
    ASSUME OwnInv, AloneInv, NEW t \in Threads, Client(t)
    PROVE  AloneInv'
<1>1. OthersStay(t) /\ LocalsKept(t) /\ CacheInv BY ClientEffects, ClientKeepsFrame DEF OwnInv
<1>2. CASE pc'[t] = "idle" BY <1>1, <1>2 DEF AloneInv, OthersStay, LocalsKept
<1>3. CASE pc[t] # "idle" /\ op'[t] = op[t] /\ key'[t] = key[t] /\ alone' = alone
  BY <1>1, <1>3 DEF AloneInv, OthersStay
<1>4. CASE \E o, k, e : o \in Ops /\ k \in Keys /\ Begin(t, o, k, e)
  <2>1. PICK o, k, e : o \in Ops /\ k \in Keys /\ Begin(t, o, k, e) BY <1>4
  <2>2. op'[t] = o /\ key'[t] = k BY <1>1, <2>1 DEF Begin, CacheInv, ArgsType
  <2>3. CASE o \notin Writers BY <1>1, <2>2, <2>3 DEF AloneInv, OthersStay, LocalsKept
  <2>4. CASE o \in Writers
    <3>1. alone' = [v \in Threads |->
                      IF v = t THEN OnKey(k) = {} ELSE alone[v] /\ v \notin OnKey(k)]
      BY <2>1, <2>4 DEF Begin
    <3>2. alone'[t] => OnKey(k) = {} BY <3>1, Zenon
    <3>3. \A v \in Threads \ {t} : alone'[v] => v \notin OnKey(k)
      <4> SUFFICES ASSUME NEW v \in Threads, v # t, alone'[v] PROVE v \notin OnKey(k)
        OBVIOUS
      <4>1. alone'[v] = (alone[v] /\ v \notin OnKey(k)) BY <3>1, Zenon
      <4> QED BY <4>1, Zenon
    <3>4. \A v \in Threads \ {t} : pc[v] # "idle" /\ op[v] \in Writers /\ key[v] = k => v \in OnKey(k)
      BY DEF OnKey
    <3> QED BY <1>1, <2>2, <3>2, <3>3, <3>4 DEF AloneInv, OthersStay, LocalsKept
  <2> QED BY <2>3, <2>4
<1> QED BY <1>2, <1>3, <1>4, ClientTurns

LEMMA PristineClient ==
    ASSUME OwnInv, PristineInv, ~stray, NEW t \in Threads, Client(t)
    PROVE  PristineInv'
<1> SUFFICES ASSUME NEW e \in Entries, Apart(e)' PROVE Pristine(e)'
  BY DEF PristineInv
<1>1. Apart(e) BY ApartKept
<1>2. ~(pc[t] = "version" /\ e = cur[t]) BY <1>1 DEF OwnInv, FoundInv, Apart
<1>3. hist'[e] = hist[e] BY <1>2, ClientTouches
<1> QED BY <1>1, <1>3 DEF PristineInv, Pristine

(* An entry is the value of one key. *)
LEMMA SameKey ==
    ASSUME OwnInv, ~stray, NEW n \in Tables, NEW m \in Tables, NEW k \in Keys, NEW l \in Keys,
           val[n][k].ptr # Nil, val[n][k].ptr = val[m][l].ptr
    PROVE  k = l
<1>1. PICK e \in Entries : e = val[n][k].ptr BY ValueOwned
<1>2. /\ \E p \in Tables : Owns(p, k, e)
      /\ \E p \in Tables : Owns(p, l, e)
  BY <1>1, ValueOwned
<1> QED BY <1>2 DEF OwnInv, HoldersInv

LEMMA KeyKept ==
    ASSUME OwnInv, KeyInv, ~stray,
           \A n \in Tables, k \in Keys : val'[n][k].ptr # Nil =>
               Apart(val'[n][k].ptr) \/ \E m \in Tables : val[m][k].ptr = val'[n][k].ptr,
           \A t \in Threads : pc'[t] = "version" =>
               \/ pc[t] = "version" /\ cur'[t] = cur[t] /\ key'[t] = key[t]
               \/ /\ val' = val /\ key'[t] = key[t] /\ key[t] \in Keys /\ cur'[t] # Nil
                  /\ \E m \in Tables : val[m][key[t]].ptr = cur'[t]
    PROVE  KeyInv'
<1> SUFFICES ASSUME NEW t \in Threads, NEW n \in Tables, NEW k \in Keys, pc'[t] = "version",
                    val'[n][k].ptr = cur'[t]
             PROVE  k = key'[t]
  BY DEF KeyInv
<1>1. CASE pc[t] = "version" /\ cur'[t] = cur[t] /\ key'[t] = key[t]
  <2>1. cur[t] \in Entries /\ ~Apart(cur[t]) BY <1>1 DEF OwnInv, FoundInv, Apart
  <2>2. PICK m \in Tables : val[m][k].ptr = cur[t] BY <1>1, <2>1, NilAssumption
  <2> QED BY <1>1, <2>2 DEF KeyInv
<1>2. CASE /\ val' = val /\ key'[t] = key[t] /\ key[t] \in Keys /\ cur'[t] # Nil
           /\ \E m \in Tables : val[m][key[t]].ptr = cur'[t]
  BY <1>2, SameKey
<1> QED BY <1>1, <1>2

LEMMA KeyClient ==
    ASSUME OwnInv, KeyInv, ~stray, NEW t \in Threads, Client(t)
    PROVE  KeyInv'
<1>1. OthersStay(t) BY ClientEffects DEF OwnInv
<1>2. ASSUME NEW u \in Threads, u # t, pc'[u] = "version"
      PROVE  pc[u] = "version" /\ cur'[u] = cur[u] /\ key'[u] = key[u]
  BY <1>1, <1>2 DEF OthersStay
<1>3. ASSUME val' = val
      PROVE  \A n \in Tables, k \in Keys : val'[n][k].ptr # Nil =>
                 Apart(val'[n][k].ptr) \/ \E m \in Tables : val[m][k].ptr = val'[n][k].ptr
  BY <1>3
<1>4. CASE plain(t) \/ add_entry(t)
  <2>1. PICK n \in Tables, l \in Keys :
            /\ pc[t] = "act" /\ pc'[t] # "version"
            /\ \A m \in Tables, k \in Keys : m # n \/ k # l => val'[m][k] = val[m][k]
            /\ val'[n][l].ptr \in {mine[t], Nil} \/ val' = val
    <3>1. CASE plain(t) BY <3>1, PlainEffects
    <3>2. CASE add_entry(t) BY <3>2, AddEntryEffects
    <3> QED BY <1>4, <3>1, <3>2
  <2>2. \A e : e = mine[t] => Apart(e) BY <2>1 DEF Apart, Holds
  <2>3. \A m \in Tables, k \in Keys : val'[m][k].ptr # Nil =>
             Apart(val'[m][k].ptr) \/ \E p \in Tables : val[p][k].ptr = val'[m][k].ptr
    BY <2>1, <2>2
  <2> QED BY <1>2, <2>1, <2>3, KeyKept
<1>5. CASE share(t)
  <2>1. /\ pc[t] = "share" /\ pc'[t] = "return" /\ bld[t] \in Tables /\ old \in Tables /\ key[t] \in Keys
        /\ \A n \in Tables, k \in Keys : n # bld[t] \/ k # key[t] => val'[n][k] = val[n][k]
        /\ val'[bld[t]][key[t]].ptr = cur[t] \/ val' = val
    BY <1>5, ShareEffects
  <2>2. val[old][key[t]].ptr = cur[t] BY <2>1 DEF OwnInv, SharedInv, Owns
  <2>3. \A m \in Tables, k \in Keys : val'[m][k].ptr # Nil =>
             Apart(val'[m][k].ptr) \/ \E p \in Tables : val[p][k].ptr = val'[m][k].ptr
    BY <2>1, <2>2
  <2> QED BY <1>2, <2>1, <2>3, KeyKept
<1>6. CASE version(t)
  <2>1. val' = val BY <1>6, VersionEffects
  <2>2. pc'[t] = "version" => pc[t] = "version" /\ cur'[t] = cur[t] /\ key'[t] = key[t]
    BY <1>6, VersionEffects DEF clientVars, argVars, localVars
  <2> QED BY <1>2, <1>3, <2>1, <2>2, KeyKept
<1>7. CASE Finds(t)
  <2>1. /\ tab[t] \in Tables /\ key[t] \in Keys /\ key' = key /\ val' = val
        /\ val[tab[t]][key[t]].ptr # Nil /\ cur'[t] = val[tab[t]][key[t]].ptr
    BY <1>7, FindsEffects DEF argVars
  <2> QED BY <1>2, <1>3, <2>1, KeyKept
<1>8. CASE ~plain(t) /\ ~add_entry(t) /\ ~share(t) /\ ~version(t) /\ ~Finds(t)
  <2>1. /\ val' = val
        /\ pc'[t] = "version" => UNCHANGED clientVars
    BY <1>8, QuietEffects
  <2>2. pc'[t] = "version" => pc[t] = "version" /\ cur'[t] = cur[t] /\ key'[t] = key[t]
    BY <2>1 DEF clientVars, argVars, localVars
  <2> QED BY <1>2, <1>3, <2>1, <2>2, KeyKept
<1> QED BY <1>4, <1>5, <1>6, <1>7, <1>8

-----------------------------------------------------------------------------
(* What a get sees of an operation, in the steps of the other threads.     *)

LEMMA LookupKept ==
    ASSUME NEW k \in Keys, val'[entries_'][k].ptr = val[entries_][k].ptr,
           val[entries_][k].ptr # Nil => hist'[val[entries_][k].ptr] = hist[val[entries_][k].ptr]
    PROVE  Lookup(k)' = Lookup(k)
BY DEF Lookup, newest

(* Neither the tables under its key nor the entries they have there change. *)
LEMMA EffectStays ==
    ASSUME OwnInv, NEW t \in Threads, EffectInv(t), ~stray, entries_' = entries_, left \subseteq left',
           pc'[t] = pc[t] /\ key'[t] = key[t] /\ mine'[t] = mine[t] /\ cur'[t] = cur[t]
           /\ res'[t] = res[t] /\ tab'[t] = tab[t] /\ bld'[t] = bld[t],
           pc[t] \in {"is_building", "return"} \cup Writing =>
               \A n \in Tables :
                   n = entries_ \/ (n = tab[t] /\ pc[t] # "return") \/ (n = old /\ pc[t] = "share") =>
                       /\ val'[n][key[t]].ptr = val[n][key[t]].ptr
                       /\ \A e \in Entries : e = val[n][key[t]].ptr => hist'[e] = hist[e]
    PROVE  EffectInv(t)'
<1>1. entries_ \in Tables /\ key[t] \in Keys BY DEF OwnInv, CacheInv, TablesType, ArgsType
<1>2. CASE pc[t] \in {"is_building", "act", "version"}
  <2>1. tab[t] \in Tables BY <1>2, HasTable DEF OwnInv
  <2> QED BY <1>1, <1>2, <2>1 DEF EffectInv, Writing
<1>3. CASE pc[t] = "share"
  <2>1. is_building(t) BY <1>3 DEF OwnInv, CacheInv, RebuildInv, LoadedInv
  <2>2. old \in Tables BY <1>3, <2>1, Working DEF OwnInv
  <2>3. val[old][key[t]].ptr = cur[t] BY <1>3 DEF OwnInv, SharedInv, Owns
  <2>4. cur[t] \in Entries BY <1>3 DEF OwnInv, BroughtInv, CacheInv, HandsInv, Storers
  <2>5. hist'[cur[t]] = hist[cur[t]] BY <1>3, <2>2, <2>3, <2>4 DEF Writing
  <2>6. val'[entries_][key[t]].ptr = val[entries_][key[t]].ptr BY <1>1, <1>3 DEF Writing
  <2> QED BY <1>3, <2>5, <2>6 DEF EffectInv, Pristine
<1>4. CASE pc[t] = "return"
  <2>1. val[entries_][key[t]].ptr \in Entries \cup {Nil} BY <1>1, ValueType DEF OwnInv, CacheInv
  <2>2. PICK k \in Keys : k = key[t] BY <1>1
  <2>3. Lookup(k)' = Lookup(k) BY <1>1, <1>4, <2>1, <2>2, LookupKept, SMTT(30)
  <2>4. StoredRight(t) => StoredRight(t)' BY <2>2, <2>3 DEF StoredRight, Lookup, newest
  <2> QED BY <1>4, <2>4 DEF EffectInv
<1>5. CASE pc[t] \in {"idle", "find", "entry"} BY <1>5 DEF EffectInv
<1> QED BY <1>2, <1>3, <1>4, <1>5 DEF OwnInv, CacheInv, ArgsType

LEMMA EffectOthers ==
    ASSUME SeenInv, NEW t \in Threads, Client(t), ~stray, NEW u \in Threads, u # t, alone[u]
    PROVE  EffectInv(u)'
<1>1. OthersStay(t) /\ LocalsKept(t) /\ UNCHANGED rootVars /\ OwnInv
  BY ClientEffects, ClientKeepsFrame DEF SeenInv, OwnInv
<1>2. ASSUME pc[u] \in {"is_building", "return"} \cup Writing, NEW n \in Tables
      PROVE  /\ val'[n][key[u]].ptr = val[n][key[u]].ptr
             /\ \A e \in Entries : e = val[n][key[u]].ptr => hist'[e] = hist[e]
  <2>1. key[u] \in Keys BY <1>1 DEF OwnInv, CacheInv, ArgsType
  <2>2. pc[t] \in Writing => key[t] # key[u]
    BY <1>2 DEF SeenInv, WriterInv, AloneInv, Writing
  <2>3. val'[n][key[u]] = val[n][key[u]] BY <1>1, <2>1, <2>2, ClientTouches DEF Writing
  <2>4. ASSUME NEW e \in Entries, e = val[n][key[u]].ptr PROVE hist'[e] = hist[e]
    <3>1. pc[t] = "version" => e # cur[t] BY <2>1, <2>2, <2>4 DEF SeenInv, KeyInv, Writing
    <3> QED BY <1>1, <3>1, ClientTouches
  <2> QED BY <2>3, <2>4
<1>3. EffectInv(u) BY DEF SeenInv
<1>4. left \subseteq left' BY <1>1, ClientTouches
<1> QED BY <1>1, <1>2, <1>3, <1>4, EffectStays DEF OthersStay, LocalsKept, rootVars

(* And in its own. *)
LEMMA PristineNewest ==
    ASSUME NEW e \in Entries, Pristine(e)
    PROVE  newest(e) = e
<1>1. ~hist[e].del /\ hist[e].vs = <<e>> BY DEF Pristine
<1>2. Last(<<e>>) = e BY DEF Last
<1> QED BY <1>1, <1>2 DEF newest

LEMMA EffectPlain ==
    ASSUME SeenInv, NEW t \in Threads, plain(t), ~stray'
    PROVE  EffectInv(t)'
<1>1. OwnInv BY DEF SeenInv
<1>2. PICK k, x : k \in Keys /\ k = key[t] /\ x = mine[t] BY <1>1 DEF OwnInv, CacheInv, ArgsType
<1>3. /\ pc[t] = "act" /\ pc'[t] = "return" /\ stray' = (stray \/ Strays(t)) /\ hist' = hist
      /\ UNCHANGED <<rootVars, argVars>>
      /\ \/ res'[t] = "stored" /\ x \in Entries /\ val'[tab[t]][k].ptr = x
         \/ res'[t] = "deleted" /\ val'[tab[t]][k].ptr = Nil
         \/ res'[t] = "failed"
  BY <1>1, <1>2, PlainEffects
<1>4. ~stray /\ tab[t] = entries_ /\ entries_' = entries_ BY <1>3 DEF Strays, rootVars
<1>5. key'[t] = k /\ mine'[t] = x BY <1>2, <1>3 DEF argVars
<1>6. res'[t] = "stored" => Lookup(k)' = x
  <2>1. SUFFICES ASSUME res'[t] = "stored" PROVE Lookup(k)' = x
    OBVIOUS
  <2>2. x \in Entries /\ val'[entries_'][k].ptr = x BY <1>3, <1>4, <2>1
  <2>3. Apart(x) BY <1>2, <1>3 DEF Apart, Holds
  <2>4. newest(x) = x BY <1>4, <2>2, <2>3, PristineNewest DEF SeenInv, PristineInv
  <2>5. newest(x)' = x BY <1>3, <2>4 DEF newest
  <2> QED BY <2>2, <2>5, NilAssumption DEF Lookup
<1>7. res'[t] = "deleted" => Lookup(k)' = Nil BY <1>3, <1>4 DEF Lookup
<1>8. StoredRight(t)' BY <1>5, <1>6, <1>7 DEF StoredRight, Lookup, newest
<1> QED BY <1>3, <1>8 DEF EffectInv

LEMMA EffectAddEntry ==
    ASSUME SeenInv, NEW t \in Threads, add_entry(t), ~stray, alone[t]
    PROVE  EffectInv(t)'
<1>1. OwnInv /\ EffectInv(t) /\ PristineInv BY DEF SeenInv
<1>2. /\ pc[t] = "act" /\ pc'[t] = "share" /\ cur'[t] = mine[t] /\ key' = key
      /\ tab[t] = old /\ mine[t] \in Entries /\ key[t] \in Keys
      /\ UNCHANGED <<rootVars, hist, tab, left>> /\ val[old][key[t]].ptr = Nil
      /\ \A n \in Tables, k \in Keys : n # old \/ k # key[t] => val'[n][k] = val[n][k]
  BY <1>1, AddEntryEffects
<1>3. PICK x \in Entries : x = mine[t] BY <1>2
<1>4. Apart(x) BY <1>2, <1>3 DEF Apart, Holds
<1>5. Pristine(x) BY <1>1, <1>4 DEF PristineInv
<1>6. hist'[cur'[t]] = [vs |-> <<cur'[t]>>, del |-> FALSE] BY <1>2, <1>3, <1>5 DEF Pristine
<1>7. ASSUME tab[t] # entries_, key[t] \notin left PROVE val'[entries_][key[t]].ptr = Nil
  <2>1. entries_ \in Tables BY <1>1 DEF OwnInv, CacheInv, TablesType
  <2>2. val[entries_][key[t]].ptr = Nil BY <1>1, <1>2, <1>7 DEF EffectInv
  <2> QED BY <1>2, <1>7, <2>1, <2>2
<1> QED BY <1>2, <1>6, <1>7 DEF EffectInv, Pristine, rootVars

LEMMA EffectShare ==
    ASSUME SeenInv, NEW t \in Threads, share(t), ~stray, alone[t]
    PROVE  EffectInv(t)'
<1>1. OwnInv /\ EffectInv(t) BY DEF SeenInv
<1>2. PICK k, x : k \in Keys /\ k = key[t] /\ x = cur[t] BY <1>1 DEF OwnInv, CacheInv, ArgsType
<1>3. /\ pc[t] = "share" /\ pc'[t] = "return" /\ res'[t] = "stored" /\ mine'[t] = mine[t] /\ key' = key
      /\ left \subseteq left' /\ x = mine[t] /\ x \in Entries /\ tab[t] = old /\ old \in Tables
      /\ bld[t] \in Tables /\ bld[t] = old + 1 /\ bld[t] # old
      /\ UNCHANGED <<rootVars, hist, bld>>
      /\ \A n \in Tables, l \in Keys : n # bld[t] \/ l # k => val'[n][l] = val[n][l]
      /\ \/ val'[bld[t]][k].ptr = x
         \/ val' = val /\ val[bld[t]][k].ptr # Nil /\ left' = left
         \/ val' = val /\ k \in left'
  BY <1>1, <1>2, ShareEffects
<1>4. SUFFICES ASSUME k \notin left' PROVE Lookup(k)' = x
  BY <1>2, <1>3 DEF EffectInv, StoredRight, Lookup, newest, Tables, NoTable
<1>5. newest(x) = x BY <1>1, <1>2, <1>3, PristineNewest DEF EffectInv
<1>6. newest(x)' = x BY <1>3, <1>5 DEF newest
<1>7. val'[entries_'][k].ptr = x
  <2>1. CASE entries_ = old
    <3>1. val[old][k].ptr = x BY <1>1, <1>2, <1>3 DEF OwnInv, SharedInv, Owns
    <3> QED BY <1>2, <1>3, <2>1, <3>1 DEF rootVars
  <2>2. CASE entries_ # old
    <3>1. is_building(t) BY <1>1, <1>3 DEF OwnInv, CacheInv, RebuildInv, LoadedInv
    <3>2. phase \notin {"idle", "settle"} /\ TablesInv
      BY <1>1, <1>3, <3>1, Working DEF OwnInv, CacheInv, RebuildInv
    <3>3. entries_ = bld[t] BY <1>3, <2>2, <3>2 DEF TablesInv
    <3>4. val[entries_][k].ptr \in {Nil, x} BY <1>1, <1>2, <1>3, <1>4, <2>2 DEF EffectInv
    <3> QED BY <1>3, <1>4, <3>3, <3>4 DEF rootVars
  <2> QED BY <2>1, <2>2
<1> QED BY <1>3, <1>6, <1>7, NilAssumption DEF Lookup

LEMMA EffectVersion ==
    ASSUME SeenInv, NEW t \in Threads, version(t), ~stray, alone[t]
    PROVE  EffectInv(t)'
<1>1. OwnInv /\ EffectInv(t) BY DEF SeenInv
<1>2. PICK k \in Keys, c \in Entries : k = key[t] /\ c = cur[t]
  BY <1>1, VersionEffects DEF OwnInv, CacheInv, ArgsType, FoundInv
<1>3. /\ pc[t] = "version" /\ is_building(t) /\ UNCHANGED <<rootVars, val, left>>
      /\ \/ UNCHANGED <<clientVars, hist>>
         \/ /\ pc'[t] = "return" /\ UNCHANGED <<argVars, bld>>
            /\ \/ res'[t] = "failed"
               \/ res'[t] = "stored" /\ newest(c)' = mine[t]
               \/ res'[t] = "deleted" /\ newest(c)' = Nil
  BY <1>1, <1>2, VersionEffects
<1>4. CASE UNCHANGED <<clientVars, hist>>
  <2>1. pc' = pc /\ key' = key /\ tab' = tab /\ cur' = cur
    BY <1>4 DEF clientVars, argVars, localVars
  <2> QED BY <1>1, <1>3, <2>1 DEF EffectInv, rootVars
<1>5. CASE pc'[t] = "return" /\ UNCHANGED <<argVars, bld>>
  <2>1. key'[t] = k /\ mine'[t] = mine[t] BY <1>2, <1>5 DEF argVars
  <2>2. bld[t] # NoTable BY <1>3 DEF is_building
  <2>3. SUFFICES ASSUME k \notin left
                 PROVE  /\ res'[t] = "stored" => Lookup(k)' = mine[t]
                        /\ res'[t] = "deleted" => Lookup(k)' = Nil
    BY <1>3, <1>5, <2>1, <2>2 DEF EffectInv, StoredRight, Lookup, newest
  <2>4. val[entries_][k].ptr = c BY <1>1, <1>2, <1>3, <2>3 DEF EffectInv
  <2>5. val'[entries_'][k].ptr = c BY <1>3, <2>4 DEF rootVars
  <2>6. Lookup(k)' = newest(c)' BY <2>5, NilAssumption DEF Lookup
  <2>7. pc[t] # pc'[t] BY <1>3, <1>5
  <2> QED BY <1>3, <2>6, <2>7 DEF clientVars
<1> QED BY <1>3, <1>4, <1>5

LEMMA EffectOwn ==
    ASSUME SeenInv, NEW t \in Threads, Client(t), ~stray', alone'[t]
    PROVE  EffectInv(t)'
<1>1. OwnInv /\ ~stray BY ClientEffects DEF SeenInv, OwnInv
<1>2. CASE plain(t) BY <1>2, EffectPlain
<1>3. CASE add_entry(t) BY <1>1, <1>3, EffectAddEntry, AddEntryEffects
<1>4. CASE share(t) BY <1>1, <1>4, EffectShare, ShareEffects
<1>5. CASE version(t)
  <2>1. alone' = alone BY <1>1, <1>5, VersionEffects DEF clientVars
  <2> QED BY <1>1, <1>5, <2>1, EffectVersion
<1>6. CASE Finds(t)
  <2>1. /\ pc[t] = "act" /\ pc'[t] = "version" /\ cur'[t] = val[tab[t]][key[t]].ptr
        /\ UNCHANGED <<rootVars, val, key, tab, alone, left>>
    BY <1>1, <1>6, FindsEffects DEF argVars
  <2>2. EffectInv(t) BY <1>1, <2>1 DEF SeenInv
  <2> QED BY <2>1, <2>2 DEF EffectInv, rootVars
<1>7. CASE ~plain(t) /\ ~add_entry(t) /\ ~share(t) /\ ~version(t) /\ ~Finds(t)
  <2>1. /\ UNCHANGED <<rootVars, val, hist, left>>
        /\ \/ pc'[t] \in {"idle", "find", "entry"}
           \/ pc'[t] = "is_building" /\ tab'[t] = entries_
           \/ pc[t] = "is_building" /\ pc'[t] = "act" /\ UNCHANGED <<argVars, tab, alone>>
           \/ pc'[t] = "return" /\ res'[t] = "failed"
           \/ UNCHANGED clientVars
    BY <1>1, <1>7, QuietEffects
  <2>2. CASE pc'[t] \in {"idle", "find", "entry"} BY <2>2 DEF EffectInv
  <2>3. CASE pc'[t] = "is_building" /\ tab'[t] = entries_ BY <2>1, <2>3 DEF EffectInv, rootVars
  <2>4. CASE pc[t] = "is_building" /\ pc'[t] = "act" /\ UNCHANGED <<argVars, tab, alone>>
    <3>1. EffectInv(t) BY <1>1, <2>4 DEF SeenInv
    <3> QED BY <2>1, <2>4, <3>1 DEF EffectInv, rootVars, argVars
  <2>5. CASE pc'[t] = "return" /\ res'[t] = "failed" BY <2>5 DEF EffectInv, StoredRight
  <2>6. CASE UNCHANGED clientVars
    <3>1. UNCHANGED <<pc, key, mine, tab, bld, cur, res, alone>>
      BY <2>6 DEF clientVars, argVars, localVars
    <3>2. EffectInv(t) BY <1>1, <3>1 DEF SeenInv
    <3> QED BY <1>1, <2>1, <3>1, <3>2, EffectStays DEF rootVars
  <2> QED BY <2>1, <2>2, <2>3, <2>4, <2>5, <2>6
<1> QED BY <1>2, <1>3, <1>4, <1>5, <1>6, <1>7

-----------------------------------------------------------------------------
(* The steps of the collector.                                             *)

LEMMA CollectFrame ==
    ASSUME Collect
    PROVE  UNCHANGED <<clientVars, hist, fresh, stray>>
<1> USE DEF heapVars
<1>1. CASE collect \/ flush_building \/ get_atime_cutoff \/ add_shared \/ swap
  BY <1>1 DEF collect, flush_building, get_atime_cutoff, add_shared, swap, Crash
<1>2. CASE built \/ flush_old \/ delete_old BY <1>2 DEF built, flush_old, delete_old
<1>3. CASE \E k \in Keys : entry_is_live(k) \/ exclusive(k)
  BY <1>3 DEF entry_is_live, exclusive, Crash
<1> QED BY <1>1, <1>2, <1>3 DEF Collect

LEMMA WriterCollect ==
    ASSUME CacheInv, \A t \in Threads : WriterInv(t), Collect
    PROVE  \A t \in Threads : WriterInv(t)'
<1> SUFFICES ASSUME NEW t \in Threads PROVE WriterInv(t)'
  OBVIOUS
<1>1. UNCHANGED <<pc, op, bld>> BY CollectFrame DEF clientVars, argVars, localVars
<1>2. ASSUME pc[t] = "return"
      PROVE  /\ phase' = "settle" \/ (phase' = "flush_old" /\ t \notin waiting') => bld[t] = NoTable
             /\ phase' \in Copying \/ (phase' = "flush_building" /\ t \notin waiting') =>
                    bld[t] # NoTable
  <2> USE <1>2 DEF WriterInv, Collector, Copying, collectVars
  <2>1. CASE collect BY <2>1 DEF collect, Busy
  <2>2. CASE flush_building BY <2>2 DEF flush_building
  <2>3. CASE get_atime_cutoff BY <2>3 DEF get_atime_cutoff, Crash
  <2>4. CASE add_shared BY <2>4 DEF add_shared
  <2>5. CASE swap BY <2>5 DEF swap
  <2>6. CASE built BY <2>6 DEF built, Busy
  <2>7. CASE flush_old BY <2>7 DEF flush_old
  <2>8. CASE delete_old BY <2>8 DEF delete_old
  <2>9. ASSUME NEW k \in Keys, entry_is_live(k)
        PROVE  phase' \in {"copy", "add_shared"} /\ phase = "copy"
    BY <2>9 DEF entry_is_live
  <2>10. ASSUME NEW k \in Keys, exclusive(k) PROVE UNCHANGED <<phase, waiting>>
    BY <2>10 DEF exclusive, Crash
  <2> QED BY <2>1, <2>2, <2>3, <2>4, <2>5, <2>6, <2>7, <2>8, <2>9, <2>10 DEF Collect
<1> QED BY <1>1, <1>2 DEF WriterInv

(* What the collector does to the values of the tables. *)
LEMMA AddSharedEffects ==
    ASSUME OwnInv, add_shared
    PROVE  /\ phase = "add_shared" /\ building_ \in Tables /\ old \in Tables /\ entries_ = old
           /\ building_ # old /\ item \in Keys /\ UNCHANGED rootVars /\ left \subseteq left'
           /\ \A n \in Tables, k \in Keys : n # building_ \/ k # item => val'[n][k] = val[n][k]
           /\ val'[building_][item].ptr = val[old][item].ptr \/ val' = val
<1>1. phase = "add_shared" /\ UNCHANGED rootVars /\ left \subseteq left' BY DEF add_shared, Collector
<1>2. /\ building_ \in Tables /\ old \in Tables /\ building_ # old /\ entries_ = old
      /\ item \in Keys /\ CacheInv
  <2>1. TablesInv /\ HandsInv /\ CacheInv BY DEF OwnInv, CacheInv, RebuildInv
  <2>2. building_ = old + 1 /\ old \in Nat BY <1>1, <2>1 DEF TablesInv, Copying
  <2> QED BY <1>1, <2>1, <2>2 DEF TablesInv, Copying, HandsInv
<1>3. PICK n, i, r : n = building_ /\ i = item /\ r = Ref(val[old][item].ptr, TRUE) OBVIOUS
<1>4. r \in Refs /\ r.ptr = val[old][item].ptr BY <1>2, <1>3, ValueType, RefIsRef, RefParts DEF CacheInv
<1>5. CASE Put(n, i, r)
  <2>1. n \in Tables /\ i \in Keys BY <1>2, <1>3
  <2>2. /\ \A m \in Tables, l \in Keys : m # n \/ l # i => val'[m][l] = val[m][l]
        /\ val'[n][i] = r
    BY <1>2, <1>4, <1>5, <2>1, PutValues
  <2> QED BY <1>1, <1>2, <1>3, <1>4, <2>2
<1>6. CASE UNCHANGED tableVars BY <1>1, <1>2, <1>6 DEF tableVars
<1> QED BY <1>3, <1>5, <1>6 DEF add_shared

LEMMA ExclusiveEffects ==
    ASSUME OwnInv, NEW k \in Keys, exclusive(k)
    PROVE  /\ phase = "settle" /\ old \in Tables /\ entries_ # old /\ UNCHANGED <<rootVars, left>>
           /\ \A n \in Tables, l \in Keys : n # old => val'[n][l].ptr = val[n][l].ptr
           /\ \A l \in Keys : val'[old][l].ptr \in {val[old][l].ptr, Nil}
<1>1. phase = "settle" /\ UNCHANGED <<rootVars, left>> BY DEF exclusive, Collector, Crash, collectVars
<1>2. old \in Tables /\ entries_ \in Tables /\ entries_ # old /\ CacheInv
  BY <1>1 DEF OwnInv, CacheInv, RebuildInv, TablesInv, Tables
<1>3. CASE val' = val BY <1>1, <1>2, <1>3
<1>4. CASE val' # val
  <2>1. PICK e, g : e = val[old][k].ptr /\ g = Ref(e, FALSE) OBVIOUS
  <2>2. g.ptr = e /\ NullRef.ptr = Nil BY <2>1, RefParts, ZenonT(40)
  <2>3. val[entries_][k] = Ref(e, TRUE) => val[entries_][k].ptr = e BY DEF Ref
  <2>4. val' = [n \in Tables |->
                  IF n = old THEN [val[n] EXCEPT ![k] = NullRef]
                  ELSE IF n = entries_ /\ e # Nil /\ val[entries_][k] = Ref(e, TRUE)
                  THEN [val[n] EXCEPT ![k] = g] ELSE val[n]]
    BY <1>4, <2>1 DEF exclusive, Crash, tableVars
  <2>5. val \in [Tables -> [Keys -> Refs]] BY <1>2 DEF CacheInv, TablesType
  <2>6. \A l \in Keys : val'[old][l] = IF l = k THEN NullRef ELSE val[old][l]
    BY <1>2, <2>4, <2>5
  <2>7. \A n \in Tables, l \in Keys : n # old =>
            \/ val'[n][l] = val[n][l]
            \/ val'[n][l] = g /\ n = entries_ /\ l = k /\ val[entries_][k] = Ref(e, TRUE)
    BY <2>4, <2>5
  <2> QED BY <1>1, <1>2, <2>2, <2>3, <2>6, <2>7
<1> QED BY <1>3, <1>4

(* And every other step of it. *)
LEMMA TurnEffects ==
    ASSUME Collect, ~add_shared, \A k \in Keys : ~exclusive(k)
    PROVE  /\ val' = val
           /\ \/ entries_' = entries_ /\ left \subseteq left'
              \/ swap \/ delete_old
<1> USE DEF tableVars, rootVars, collectVars
<1>1. CASE collect \/ flush_building \/ get_atime_cutoff \/ swap
  BY <1>1 DEF collect, flush_building, get_atime_cutoff, swap, Crash
<1>2. CASE built \/ flush_old \/ delete_old BY <1>2 DEF built, flush_old, delete_old
<1>3. CASE \E k \in Keys : entry_is_live(k) BY <1>3 DEF entry_is_live
<1> QED BY <1>1, <1>2, <1>3 DEF Collect

LEMMA KeyCollect ==
    ASSUME OwnInv, KeyInv, ~stray, Collect
    PROVE  KeyInv'
<1>1. UNCHANGED <<pc, key, cur>> BY CollectFrame DEF clientVars, argVars, localVars
<1>2. \A n \in Tables, k \in Keys : val'[n][k].ptr # Nil =>
          \E m \in Tables : val[m][k].ptr = val'[n][k].ptr
  <2>1. CASE add_shared BY <2>1, AddSharedEffects
  <2>2. CASE \E l \in Keys : exclusive(l) BY <2>2, ExclusiveEffects
  <2>3. CASE val' = val BY <2>3
  <2> QED BY <2>1, <2>2, <2>3, TurnEffects
<1> QED BY <1>1, <1>2, KeyKept

(* The swap shows every operation that is alone what it has in the old table. *)
LEMMA EffectSwap ==
    ASSUME SeenInv, swap, ~stray, NEW t \in Threads, alone[t]
    PROVE  EffectInv(t)'
<1>1. OwnInv /\ CopyInv /\ EffectInv(t) /\ WriterInv(t) BY DEF SeenInv
<1>2. PICK k \in Keys : k = key[t] BY <1>1 DEF OwnInv, CacheInv, ArgsType
<1>3. /\ phase = "copy" /\ ~crashed /\ todo = {} /\ entries_' = building_ /\ val' = val /\ hist' = hist
      /\ left' = left /\ UNCHANGED <<pc, key, mine, tab, bld, cur, res>>
  BY DEF swap, Collector, tableVars, heapVars, clientVars, argVars, localVars
<1>4. /\ entries_ = old /\ old \in Tables /\ building_ \in Tables /\ phase \in Before
      /\ \A u \in Threads : pc[u] \notin {"idle", "return"} => tab[u] = old
  BY <1>1, <1>3 DEF OwnInv, CacheInv, RebuildInv, TablesInv, LoadedInv, Copying, Before
<1>5. ASSUME pc[t] \in {"is_building", "act", "version", "return"}, k \notin left
      PROVE  val[building_][k].ptr = val[old][k].ptr
  <2>1. ~Sharing(k) BY <1>2, <1>5 DEF Sharing, SeenInv, WriterInv, AloneInv, Writing
  <2> QED BY <1>1, <1>3, <1>5, <2>1 DEF CopyInv
<1>6. CASE pc[t] \in {"is_building", "act", "version"}
  <2>1. k \notin left => val'[entries_'][k].ptr = val'[tab[t]][k].ptr BY <1>3, <1>4, <1>5, <1>6
  <2>2. pc[t] = "version" => val[tab[t]][k].ptr = cur[t] BY <1>1, <1>2 DEF EffectInv
  <2> QED BY <1>2, <1>3, <1>6, <2>1, <2>2 DEF EffectInv
<1>7. CASE pc[t] = "share"
  <2>1. val[old][k].ptr = cur[t] BY <1>1, <1>2, <1>7 DEF OwnInv, SharedInv, Owns
  <2>2. val[building_][k].ptr \in {Nil, cur[t]} BY <1>1, <1>4, <2>1, NewFromOld
  <2>3. hist[cur[t]] = [vs |-> <<cur[t]>>, del |-> FALSE] BY <1>1, <1>7 DEF EffectInv, Pristine
  <2> QED BY <1>2, <1>3, <1>7, <2>2, <2>3 DEF EffectInv, Pristine
<1>8. CASE pc[t] = "return"
  <2>1. bld[t] # NoTable BY <1>1, <1>3, <1>8 DEF WriterInv, Copying
  <2>2. ASSUME k \notin left PROVE Lookup(k)' = Lookup(k)
    BY <1>3, <1>4, <1>5, <1>8, <2>2 DEF Lookup, newest
  <2>3. k \notin left => StoredRight(t) BY <1>1, <1>2, <1>8 DEF EffectInv
  <2>4. k \notin left => StoredRight(t)' BY <1>2, <1>3, <2>2, <2>3 DEF StoredRight, Lookup, newest
  <2> QED BY <1>2, <1>3, <1>8, <2>1, <2>4 DEF EffectInv
<1>9. CASE pc[t] \in {"idle", "find", "entry"} BY <1>3, <1>9 DEF EffectInv
<1> QED BY <1>1, <1>6, <1>7, <1>8, <1>9 DEF OwnInv, CacheInv, ArgsType

LEMMA EffectCollect ==
    ASSUME SeenInv, Collect, ~stray, NEW t \in Threads, alone[t]
    PROVE  EffectInv(t)'
<1>1. OwnInv /\ EffectInv(t) /\ WriterInv(t) BY DEF SeenInv
<1>2. UNCHANGED <<pc, key, mine, tab, bld, cur, res, hist>>
  BY CollectFrame DEF clientVars, argVars, localVars
<1>3. key[t] \in Keys /\ LoadedInv(t) /\ TablesInv
  BY <1>1 DEF OwnInv, CacheInv, RebuildInv, ArgsType
<1>4. CASE add_shared
  <2>1. /\ phase = "add_shared" /\ entries_ = old /\ building_ # old
        /\ UNCHANGED rootVars /\ left \subseteq left'
        /\ \A n \in Tables, k \in Keys : n # building_ \/ k # item => val'[n][k] = val[n][k]
    BY <1>1, <1>4, AddSharedEffects
  <2>2. ASSUME NEW n \in Tables, pc[t] \in {"is_building", "return"} \cup Writing,
               n = entries_ \/ (n = tab[t] /\ pc[t] # "return") \/ (n = old /\ pc[t] = "share")
        PROVE  val'[n][key[t]] = val[n][key[t]]
    <3>1. pc[t] # "return" => tab[t] = entries_ BY <1>3, <2>1, <2>2 DEF LoadedInv, Copying, Writing
    <3> QED BY <1>3, <2>1, <2>2, <3>1
  <2> QED BY <1>1, <1>2, <2>1, <2>2, EffectStays DEF rootVars
<1>5. CASE \E l \in Keys : exclusive(l)
  <2>1. /\ phase = "settle" /\ entries_ # old /\ UNCHANGED <<rootVars, left>>
        /\ \A n \in Tables, k \in Keys : n # old => val'[n][k].ptr = val[n][k].ptr
    BY <1>1, <1>5, ExclusiveEffects
  <2>2. ASSUME NEW n \in Tables, pc[t] \in {"is_building", "return"} \cup Writing,
               n = entries_ \/ (n = tab[t] /\ pc[t] # "return") \/ (n = old /\ pc[t] = "share")
        PROVE  val'[n][key[t]].ptr = val[n][key[t]].ptr
    <3>1. pc[t] # "return" => tab[t] = entries_ /\ pc[t] # "share"
      BY <1>3, <2>1, <2>2 DEF LoadedInv, is_building, Writing
    <3> QED BY <1>3, <2>1, <2>2, <3>1
  <2> QED BY <1>1, <1>2, <2>1, <2>2, EffectStays DEF rootVars
<1>6. CASE swap BY <1>6, EffectSwap
<1>7. CASE delete_old
  <2>1. phase = "settle" /\ UNCHANGED <<rootVars, val>> BY <1>7 DEF delete_old, Collector, tableVars
  <2>2. pc[t] \notin {"idle", "return"} => tab[t] = entries_ BY <1>3, <2>1 DEF LoadedInv
  <2>3. pc[t] = "return" => bld[t] = NoTable BY <1>1, <2>1 DEF WriterInv
  <2>4. StoredRight(t) => StoredRight(t)' BY <1>2, <2>1 DEF StoredRight, Lookup, newest, rootVars
  <2> QED BY <1>1, <1>2, <2>1, <2>2, <2>3, <2>4 DEF EffectInv, Pristine, rootVars
<1>8. CASE val' = val /\ entries_' = entries_ /\ left \subseteq left'
  BY <1>1, <1>2, <1>8, EffectStays
<1> QED BY <1>4, <1>5, <1>6, <1>7, <1>8, TurnEffects

LEMMA SeenNext == SeenInv /\ [Next]_vars => SeenInv'
<1> SUFFICES ASSUME SeenInv, [Next]_vars PROVE SeenInv'
  OBVIOUS
<1>1. OwnInv /\ CopyInv /\ AloneInv /\ (\A t \in Threads : WriterInv(t)) /\ CacheInv
  BY DEF SeenInv, OwnInv
<1>2. OwnInv' BY <1>1, OwnNext
<1>3. ASSUME NEW t \in Threads, Client(t) PROVE SeenInv'
  <2>1. CopyInv' /\ AloneInv' /\ \A u \in Threads : WriterInv(u)'
    BY <1>1, <1>3, CopyClient, AloneClient, WriterClient
  <2>2. ASSUME ~stray' PROVE PristineInv' /\ KeyInv' /\ \A u \in Threads : alone'[u] => EffectInv(u)'
    <3>1. ~stray BY <1>1, <1>3, <2>2, ClientEffects
    <3>2. PristineInv' BY <1>1, <1>3, <3>1, PristineClient DEF SeenInv
    <3>3. KeyInv' BY <1>1, <1>3, <3>1, KeyClient DEF SeenInv
    <3>4. alone'[t] => EffectInv(t)' BY <1>3, <2>2, EffectOwn
    <3>5. ASSUME NEW u \in Threads, u # t, alone'[u] PROVE EffectInv(u)'
      <4>1. alone[u] BY <1>1, <1>3, <3>5, ClientKeepsFrame DEF LocalsKept
      <4> QED BY <1>3, <3>1, <3>5, <4>1, EffectOthers
    <3> QED BY <3>2, <3>3, <3>4, <3>5
  <2> QED BY <1>2, <2>1, <2>2 DEF SeenInv
<1>4. CASE Collect
  <2>1. UNCHANGED <<pc, op, key, mine, res, alone, hist, fresh, stray>>
    BY <1>4, CollectFrame DEF clientVars, argVars, localVars
  <2>2. CopyInv' /\ \A t \in Threads : WriterInv(t)' BY <1>1, <1>4, CopyCollect, WriterCollect
  <2>3. AloneInv' BY <1>1, <2>1 DEF AloneInv
  <2>4. ASSUME ~stray PROVE PristineInv' /\ KeyInv' /\ \A t \in Threads : alone'[t] => EffectInv(t)'
    <3>1. PristineInv' BY <2>1, <2>4 DEF SeenInv, PristineInv, Apart, Holds, Pristine
    <3>2. KeyInv' BY <1>1, <1>4, <2>4, KeyCollect DEF SeenInv
    <3>3. \A t \in Threads : alone'[t] => EffectInv(t)' BY <1>4, <2>1, <2>4, EffectCollect
    <3> QED BY <3>1, <3>2, <3>3
  <2> QED BY <1>2, <2>1, <2>2, <2>3, <2>4 DEF SeenInv
<1>5. CASE UNCHANGED vars
  <2>1. UNCHANGED <<entries_, building_, val, hist, fresh, phase, old, waiting, todo, item, left, stray, crashed>>
    BY <1>5 DEF vars, rootVars, tableVars, heapVars, collectVars
  <2>2. UNCHANGED <<pc, op, key, mine, tab, bld, cur, res, alone>>
    BY <1>5 DEF vars, clientVars, argVars, localVars
  <2>3. CopyInv' BY <1>1, <2>1, <2>2 DEF CopyInv, Sharing
  <2>4. AloneInv' BY <1>1, <2>2 DEF AloneInv
  <2>5. \A t \in Threads : WriterInv(t)' BY <1>1, <2>1, <2>2 DEF WriterInv
  <2>6. ~stray => PristineInv' /\ KeyInv'
    BY <2>1, <2>2 DEF SeenInv, PristineInv, Apart, Holds, Pristine, KeyInv
  <2>7. ~stray => \A t \in Threads : alone'[t] => EffectInv(t)'
    BY <1>1, <2>1, <2>2, EffectStays DEF SeenInv
  <2> QED BY <1>2, <2>1, <2>3, <2>4, <2>5, <2>6, <2>7 DEF SeenInv
<1> QED BY <1>3, <1>4, <1>5 DEF Next

LEMMA SeenInit == Init => SeenInv
<1> SUFFICES ASSUME Init PROVE SeenInv
  OBVIOUS
<1>1. OwnInv BY OwnInit
<1>2. \A t \in Threads : pc[t] = "idle" BY DEF Init
<1>3. CopyInv BY DEF Init, CopyInv
<1>4. AloneInv /\ KeyInv /\ \A t \in Threads : WriterInv(t) /\ EffectInv(t)
  BY <1>2 DEF AloneInv, KeyInv, WriterInv, EffectInv, Writing
<1>5. PristineInv BY DEF Init, PristineInv, Pristine
<1> QED BY <1>1, <1>3, <1>4, <1>5 DEF SeenInv

(* What operations that are alone on their keys see and leave, in every state. *)
THEOREM SeenCorrect == Spec => []SeenInv
BY SeenInit, SeenNext, PTL DEF Spec

(***************************************************************************)
(* An acknowledged operation that is alone on its key is what get() sees,  *)
(* whatever collect() did between its two loads and its return.            *)
(***************************************************************************)
THEOREM TakesEffectCorrect == Spec => []TakesEffect
<1>1. SeenInv => TakesEffect BY DEF SeenInv, EffectInv, StoredRight, TakesEffect
<1> QED BY <1>1, SeenCorrect, PTL
=============================================================================
