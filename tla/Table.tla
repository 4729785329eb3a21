------------------------------- MODULE Table -------------------------------
(***************************************************************************)
(* clox/table.c: the hash table behind the string intern set, the global   *)
(* names, the methods of a class and the fields of an instance.  Open      *)
(* addressing, linear probing, tombstones, growth at 3/4 load.             *)
(*                                                                         *)
(* One table is modelled.  tableSet runs in steps because adjustCapacity   *)
(* allocates, an allocation may collect, and a collection calls            *)
(* tableRemoveUnmarked on this very table (vm->strings) in the middle of   *)
(* the tableSet.  The other operations allocate nothing and are one step.  *)
(***************************************************************************)
EXTENDS Integers, FiniteSets

CONSTANTS Key,              \* ObjString pointers
          Text,             \* Text[k]: the characters of string k
          Hash,             \* Hash[t]: the 32-bit hash of text t
          Value,            \* Value words
          NIL_VAL, TRUE_VAL, NULL,
          InitialCapacity,  \* GROW_CAPACITY of a small table, 8 in the code
          MaxCapacity       \* bound of the model: no table grows past it

ASSUME ValueAssumption == /\ {NIL_VAL, TRUE_VAL} \subseteq Value
                          /\ NIL_VAL # TRUE_VAL
                          /\ NULL \notin Key
ASSUME HashAssumption == \A k \in Key : Hash[Text[k]] \in Nat

\* The powers of two that an int holds, a capacity being an int.
PowerOfTwo[n \in 0..30] == IF n = 0 THEN 1 ELSE 2 * PowerOfTwo[n - 1]
PowersOfTwo == {PowerOfTwo[n] : n \in 0..30}

ASSUME CapacityAssumption == /\ InitialCapacity \in Nat
                             /\ InitialCapacity >= 2
                             /\ InitialCapacity \in PowersOfTwo
                             /\ MaxCapacity \in Nat
                             /\ MaxCapacity <= PowerOfTwo[30]

VARIABLES count, capacity, entries,  \* the Table struct
          pc,        \* where tableSet is: idle, alloc, collected, rehash or insert
          key, value,   \* its arguments
          index,     \* the loop variable of adjustCapacity or tableRemoveUnmarked
          fresh,     \* the new array of adjustCapacity
          weak,      \* is tableRemoveUnmarked running?
          unmarked,  \* strings the collection left unmarked
          result     \* what the last finished operation returned

table == <<count, capacity, entries>>
vars == <<count, capacity, entries, pc, key, value, index, fresh, weak, unmarked, result>>

-----------------------------------------------------------------------------
Slots(cap) == 0..cap - 1

EmptyEntry == [key |-> NULL, value |-> NIL_VAL]
Tombstone == [key |-> NULL, value |-> TRUE_VAL]

IsEmpty(e) == e.key = NULL /\ e.value = NIL_VAL
IsTombstone(e) == e.key = NULL /\ e.value # NIL_VAL
IsLive(e) == e.key # NULL

\* hash & (capacity - 1): the capacity is a power of two (PowerOfTwoCapacity).
Home(k, cap) == Hash[Text[k]] % cap

\* How many increments of "index = (index + 1) & (capacity - 1)" lead from h to j.
Distance(h, j, cap) == IF j >= h THEN j - h ELSE j - h + cap

\* The slot of S that the probe starting at h meets first.
Nearest(S, h, cap) ==
    CHOOSE j \in S : \A i \in S : Distance(h, j, cap) <= Distance(h, i, cap)

\* Where the loop of findEntry can leave: an empty entry or the key itself.
Stops(es, cap, k) == {j \in Slots(cap) : IsEmpty(es[j]) \/ es[j].key = k}

\* Mutant: a tombstone is returned as soon as the probe meets it.
FindEntryAtTombstone(es, cap, k) ==
    LET stops == {j \in Slots(cap) : es[j].key \in {NULL, k}}
    IN  Nearest(stops, Home(k, cap), cap)

\* findEntry: the key's slot, else the first tombstone met before the empty slot.
FindEntry(es, cap, k) ==
    LET h == Home(k, cap)
        stop == Nearest(Stops(es, cap, k), h, cap)
        tombs == {j \in Slots(cap) : /\ IsTombstone(es[j])
                                     /\ Distance(h, j, cap) < Distance(h, stop, cap)}
    IN  IF es[stop].key = k \/ tombs = {} THEN stop ELSE Nearest(tombs, h, cap)

\* Where the loop of tableFindString can leave, for the text of string k.
TextStops(k) ==
    {j \in Slots(capacity) : \/ IsEmpty(entries[j])
                             \/ IsLive(entries[j]) /\ Text[entries[j].key] = Text[k]}

\* Mutant: growth by one half.
GrowCapacityByHalf(cap) ==
    IF cap < InitialCapacity THEN InitialCapacity ELSE cap + cap \div 2

GrowCapacity(cap) == IF cap < InitialCapacity THEN InitialCapacity ELSE cap * 2

\* Mutant: the table may fill up.
OverloadedWhenFull == count + 1 > capacity

\* count + 1 > capacity * TABLE_MAX_LOAD, in integers.
Overloaded == 4 * (count + 1) > 3 * capacity

-----------------------------------------------------------------------------
Init == /\ count = 0 /\ capacity = 0 /\ entries = [j \in {} |-> EmptyEntry]
        /\ pc = "idle" /\ key = NULL /\ value = NIL_VAL
        /\ index = 0 /\ fresh = [j \in {} |-> EmptyEntry]
        /\ weak = FALSE /\ unmarked = {}
        /\ result = NULL

Idle == pc = "idle" /\ ~weak

TableGet(k) ==
    /\ Idle
    /\ \/ /\ count = 0
          /\ result' = NULL
       \/ /\ count # 0
          /\ Stops(entries, capacity, k) # {}
          /\ LET e == entries[FindEntry(entries, capacity, k)]
             IN  result' = IF e.key = NULL THEN NULL ELSE e.value
    /\ UNCHANGED <<table, pc, key, value, index, fresh, weak, unmarked>>

\* Mutant: a deleted entry becomes empty, which cuts the probes through it.
DeletedToEmpty(k) ==
    IF count = 0 THEN entries
    ELSE LET j == FindEntry(entries, capacity, k)
         IN  IF entries[j].key = NULL THEN entries ELSE [entries EXCEPT ![j] = EmptyEntry]

\* tableDelete on key k; a deleted entry becomes a tombstone and count stays.
Deleted(k) ==
    IF count = 0 THEN entries
    ELSE LET j == FindEntry(entries, capacity, k)
         IN  IF entries[j].key = NULL THEN entries ELSE [entries EXCEPT ![j] = Tombstone]

TableDelete(k) ==
    /\ Idle
    /\ count # 0 => Stops(entries, capacity, k) # {}
    /\ entries' = Deleted(k)
    /\ result' = (entries' # entries)
    /\ UNCHANGED <<count, capacity, pc, key, value, index, fresh, weak, unmarked>>

TableFindString(k) ==
    /\ Idle
    /\ \/ /\ count = 0
          /\ result' = NULL
       \/ /\ count # 0
          /\ TextStops(k) # {}
          /\ result' = entries[Nearest(TextStops(k), Home(k, capacity), capacity)].key
    /\ UNCHANGED <<table, pc, key, value, index, fresh, weak, unmarked>>

-----------------------------------------------------------------------------
\* freeTable: free the array and initTable.
FreeTable ==
    /\ Idle
    /\ count' = 0 /\ capacity' = 0 /\ entries' = [j \in {} |-> EmptyEntry]
    /\ UNCHANGED <<pc, key, value, index, fresh, weak, unmarked, result>>

\* Mutant: count = 0 before the allocation that may collect.
TableSetClearingFirst(k, v) ==
    /\ Idle
    /\ Overloaded => GrowCapacity(capacity) <= MaxCapacity
    /\ key' = k /\ value' = v
    /\ pc' = IF Overloaded THEN "alloc" ELSE "insert"
    /\ count' = IF Overloaded THEN 0 ELSE count
    /\ UNCHANGED <<capacity, entries, index, fresh, weak, unmarked, result>>

\* tableSet(k, v): the load check comes before the search, even for a key
\* that is already there.
TableSet(k, v) ==
    /\ Idle
    /\ Overloaded => GrowCapacity(capacity) <= MaxCapacity
    /\ key' = k /\ value' = v
    /\ pc' = IF Overloaded THEN "alloc" ELSE "insert"
    /\ UNCHANGED <<table, index, fresh, weak, unmarked, result>>

\* adjustCapacity after ALLOCATE: a cleared array, and only now count = 0.
BeginRehash ==
    /\ pc \in {"alloc", "collected"} /\ ~weak
    /\ fresh' = [j \in Slots(GrowCapacity(capacity)) |-> EmptyEntry]
    /\ count' = 0 /\ index' = 0
    /\ pc' = "rehash"
    /\ UNCHANGED <<capacity, entries, key, value, weak, unmarked, result>>

\* One turn of the copying loop: tombstones are dropped.
Rehash ==
    /\ pc = "rehash" /\ index < capacity
    /\ index' = index + 1
    /\ LET e == entries[index]
           cap == GrowCapacity(capacity)
       IN  \/ /\ e.key = NULL
              /\ UNCHANGED <<fresh, count>>
           \/ /\ e.key # NULL
              /\ Stops(fresh, cap, e.key) # {}
              /\ fresh' = [fresh EXCEPT ![FindEntry(fresh, cap, e.key)] = e]
              /\ count' = count + 1
    /\ UNCHANGED <<capacity, entries, pc, key, value, weak, unmarked, result>>

\* Mutant: the new array is installed without its capacity.
FinishRehashKeepingCapacity ==
    /\ pc = "rehash" /\ index = capacity
    /\ entries' = fresh
    /\ fresh' = [j \in {} |-> EmptyEntry] /\ index' = 0
    /\ pc' = "insert"
    /\ UNCHANGED <<count, capacity, key, value, weak, unmarked, result>>

FinishRehash ==
    /\ pc = "rehash" /\ index = capacity
    /\ entries' = fresh /\ capacity' = GrowCapacity(capacity)
    /\ fresh' = [j \in {} |-> EmptyEntry] /\ index' = 0
    /\ pc' = "insert"
    /\ UNCHANGED <<count, key, value, weak, unmarked, result>>

\* Mutant: an insertion that is not counted.
InsertUncounted ==
    /\ pc = "insert"
    /\ Stops(entries, capacity, key) # {}
    /\ LET j == FindEntry(entries, capacity, key)
       IN  /\ entries' = [entries EXCEPT ![j] = [key |-> key, value |-> value]]
           /\ result' = (entries[j].key = NULL)
    /\ pc' = "idle" /\ key' = NULL /\ value' = NIL_VAL
    /\ UNCHANGED <<count, capacity, index, fresh, weak, unmarked>>

\* The tail of tableSet; a reused tombstone is already counted.
Insert ==
    /\ pc = "insert"
    /\ Stops(entries, capacity, key) # {}
    /\ LET j == FindEntry(entries, capacity, key)
           isNewKey == entries[j].key = NULL
       IN  /\ count' = IF isNewKey /\ entries[j].value = NIL_VAL THEN count + 1 ELSE count
           /\ entries' = [entries EXCEPT ![j] = [key |-> key, value |-> value]]
           /\ result' = isNewKey
    /\ pc' = "idle" /\ key' = NULL /\ value' = NIL_VAL
    /\ UNCHANGED <<capacity, index, fresh, weak, unmarked>>

-----------------------------------------------------------------------------
\* A collection marks and then calls tableRemoveUnmarked.  It starts between
\* operations or inside the ALLOCATE of adjustCapacity; allocateString has
\* pushed the key being set, so that key is marked.
Collect ==
    /\ pc \in {"idle", "alloc"} /\ ~weak
    /\ unmarked' \in SUBSET (Key \ {key})
    /\ weak' = TRUE /\ index' = 0
    /\ pc' = IF pc = "alloc" THEN "collected" ELSE pc
    /\ UNCHANGED <<table, key, value, fresh, result>>

\* One turn of the loop of tableRemoveUnmarked, or its end.
RemoveUnmarked ==
    /\ weak
    /\ \/ /\ index < capacity
          /\ index' = index + 1
          /\ LET k == entries[index].key
             IN  IF k = NULL \/ k \notin unmarked
                 THEN UNCHANGED entries
                 ELSE /\ count # 0 => Stops(entries, capacity, k) # {}
                      /\ entries' = Deleted(k)
          /\ UNCHANGED <<weak, unmarked>>
       \/ /\ index = capacity
          /\ weak' = FALSE /\ unmarked' = {} /\ index' = 0
          /\ UNCHANGED entries
    /\ UNCHANGED <<count, capacity, pc, key, value, fresh, result>>

Next == \/ \E k \in Key : TableGet(k) \/ TableDelete(k) \/ TableFindString(k)
        \/ \E k \in Key, v \in Value : TableSet(k, v)
        \/ FreeTable
        \/ BeginRehash \/ Rehash \/ FinishRehash \/ Insert
        \/ Collect \/ RemoveUnmarked

Spec == Init /\ [][Next]_vars

\* One thread runs the table code: a call that was made keeps running.
FairSpec == Spec /\ WF_vars(BeginRehash \/ Rehash \/ FinishRehash \/ Insert \/ RemoveUnmarked)

-----------------------------------------------------------------------------
Entry == [key : Key \cup {NULL}, value : Value]

TypeOK == /\ count \in Nat /\ capacity \in Nat /\ index \in Nat
          /\ entries \in [Slots(capacity) -> Entry]
          /\ pc \in {"idle", "alloc", "collected", "rehash", "insert"}
          /\ key \in Key \cup {NULL} /\ value \in Value
          /\ fresh \in [Slots(IF pc = "rehash" THEN GrowCapacity(capacity) ELSE 0) -> Entry]
          /\ weak \in BOOLEAN /\ unmarked \subseteq Key

Occupied(es) == {j \in DOMAIN es : ~IsEmpty(es[j])}

\* An array that findEntry can search: some slot is empty.
HasEmptySlot(es) == \E j \in DOMAIN es : IsEmpty(es[j])

\* findEntry and tableFindString loop "for (;;)" with no bound: they return
\* only because the load factor, which counts tombstones too, keeps an empty
\* entry in every array they search.
ProbesEnd == /\ capacity > 0 => HasEmptySlot(entries)
             /\ pc = "rehash" => HasEmptySlot(fresh)

\* No deletion, collection or growth breaks a probe sequence: findEntry finds
\* every key at the slot that holds it, so a key is in at most one slot.
NoLostKey ==
    \A j \in Slots(capacity) :
        IsLive(entries[j]) => FindEntry(entries, capacity, entries[j].key) = j

\* The capacities for which "hash & (capacity - 1)" is a remainder.
PowerOfTwoCapacity == capacity \in {0} \cup PowersOfTwo

\* tableRemoveUnmarked leaves no key that the sweep after it frees, even when
\* it runs inside a tableSet that is about to rehash the same table.
NoDanglingKey ==
    [][weak /\ ~weak' => \A j \in Slots(capacity) : entries[j].key \notin unmarked]_vars

\* tableSet and the weak loop finish, whatever collections run meanwhile.
SetReturns == (pc # "idle" \/ weak) ~> Idle

\* The map the table stands for.
LiveSlots == {j \in Slots(capacity) : IsLive(entries[j])}
SlotOf(k) == CHOOSE j \in LiveSlots : entries[j].key = k
Contents == [k \in {entries[j].key : j \in LiveSlots} |-> entries[SlotOf(k)].value]

\* The table implements the map: each result is the map's, growth and
\* rehashing are invisible, only unmarked keys disappear.
D == INSTANCE Dictionary WITH dict <- Contents, Absent <- NULL
ImplementsDictionary == D!Spec
=============================================================================
