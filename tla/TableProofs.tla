---------------------------- MODULE TableProofs ----------------------------
(* Theorems about the hash table, for every set of keys, every hash function *)
(* and every history of operations and collections: probes end, no key is    *)
(* lost or found twice, and the table implements the dictionary.             *)
EXTENDS Table, NaturalFacts, FiniteSetTheorems

-----------------------------------------------------------------------------
(* The inductive invariant, in named parts.                                  *)

\* Does the probe for key k meet slot i before slot j?
Before(k, i, j, cap) ==
    Distance(Home(k, cap), i, cap) < Distance(Home(k, cap), j, cap)

\* Nothing ends the search for a key before the slot that holds it.
Reached(es, cap) ==
    \A i, j \in Slots(cap) :
        IsLive(es[j]) /\ Before(es[j].key, i, j, cap)
            => ~IsEmpty(es[i]) /\ es[i].key # es[j].key

CapacityGrown == capacity = 0 \/ capacity >= InitialCapacity

\* A tableSet in progress has a key to set.
KeyPending == pc # "idle" => key \in Key

\* count is the number of entries and tombstones of the array being filled.
CountIsOccupancy ==
    count = Cardinality(Occupied(IF pc = "rehash" THEN fresh ELSE entries))

\* Three quarters at most are taken, and tableSet inserts only below that.
LoadKept == /\ pc \in {"idle", "alloc", "collected"} => 4 * count <= 3 * capacity
            /\ pc = "insert" => ~Overloaded

\* Array a holds, in its slots S, the live entries that array b holds in T.
SameEntries(a, S, b, T) ==
    \A e \in Entry : IsLive(e) => ((\E i \in S : a[i] = e) <=> (\E j \in T : b[j] = e))

\* In the middle of adjustCapacity the new array holds what was copied, without
\* tombstones, and there is room for the rest.
RehashIsPartial ==
    pc = "rehash" =>
        /\ index <= capacity /\ count <= index /\ ~weak
        /\ Reached(fresh, GrowCapacity(capacity))
        /\ \A j \in DOMAIN fresh : IsLive(fresh[j]) \/ IsEmpty(fresh[j])
        /\ SameEntries(fresh, DOMAIN fresh, entries, 0..index - 1)

\* In the middle of tableRemoveUnmarked the slots passed hold marked keys.
WeakIsPartial ==
    weak => /\ pc \in {"idle", "collected"} /\ index <= capacity
            /\ \A j \in 0..index - 1 : entries[j].key \notin unmarked

IInv == /\ TypeOK
        /\ CapacityGrown /\ KeyPending /\ CountIsOccupancy /\ LoadKept
        /\ ProbesEnd
        /\ Reached(entries, capacity)
        /\ RehashIsPartial /\ WeakIsPartial

-----------------------------------------------------------------------------
(* Probing.                                                                  *)

\* The probe starts inside the array.
LEMMA HomeIsSlot ==
    ASSUME NEW cap \in Nat \ {0}, NEW k \in Key
    PROVE  Home(k, cap) \in Slots(cap)
BY HashAssumption DEF Home, Slots

\* A probe meets one slot after the other.
LEMMA DistanceIsOrder ==
    ASSUME NEW cap \in Nat \ {0}, NEW h \in Slots(cap)
    PROVE  /\ \A j \in Slots(cap) : Distance(h, j, cap) \in Nat
           /\ \A i, j \in Slots(cap) : Distance(h, i, cap) = Distance(h, j, cap) => i = j
BY DEF Distance, Slots

\* So does the probe of a key, and of two slots it meets one first.
LEMMA BeforeIsOrder ==
    ASSUME NEW cap \in Nat \ {0}, NEW k \in Key
    PROVE  /\ \A i \in Slots(cap) : ~Before(k, i, i, cap)
           /\ \A i, j \in Slots(cap) : i = j \/ Before(k, i, j, cap) \/ Before(k, j, i, cap)
           /\ \A i, j \in Slots(cap) : Before(k, i, j, cap) => ~Before(k, j, i, cap)
           /\ \A i, j, l \in Slots(cap) :
                  Before(k, i, j, cap) /\ Before(k, j, l, cap) => Before(k, i, l, cap)
<1>. DEFINE d(i) == Distance(Home(k, cap), i, cap)
<1>1. \A i \in Slots(cap) : d(i) \in Nat
  BY HomeIsSlot, DistanceIsOrder
<1>2. \A i, j \in Slots(cap) : d(i) = d(j) => i = j
  BY HomeIsSlot, DistanceIsOrder
<1>3. \A i, j : Before(k, i, j, cap) <=> d(i) < d(j)
  BY DEF Before
<1>. HIDE DEF d
<1>. QED
  BY <1>1, <1>2, <1>3

\* The nearest slot of a set is one of the set, and none of the set is before it.
LEMMA NearestIsFirst ==
    ASSUME NEW cap \in Nat \ {0}, NEW k \in Key, NEW S \in SUBSET Slots(cap), S # {}
    PROVE  /\ Nearest(S, Home(k, cap), cap) \in S
           /\ \A i \in S : ~Before(k, i, Nearest(S, Home(k, cap), cap), cap)
<1>. DEFINE d(i) == Distance(Home(k, cap), i, cap)
            far == {d(i) : i \in S}
<1>1. \A i \in Slots(cap) : d(i) \in Nat
  BY HomeIsSlot, DistanceIsOrder
<1>2. PICK n \in far : \A m \in far : n <= m
  <2>1. far \in SUBSET Nat /\ far # {}
    BY <1>1
  <2>. QED
    BY <2>1, LeastNumber
<1>3. PICK j \in S : \A i \in S : d(j) <= d(i)
  BY <1>2
<1>4. /\ Nearest(S, Home(k, cap), cap) \in S
      /\ \A i \in S : d(Nearest(S, Home(k, cap), cap)) <= d(i)
  BY <1>3 DEF Nearest
<1>5. \A i, l : Before(k, i, l, cap) <=> d(i) < d(l)
  BY DEF Before
<1>. HIDE DEF d
<1>. QED
  BY <1>1, <1>4, <1>5

\* f is the slot of key k, or a free slot that the probe meets before it meets
\* the key or an empty slot; and then the key could only be past an empty slot.
Lands(f, es, cap, k) ==
    /\ f \in Slots(cap)
    /\ es[f].key = k \/ es[f].key = NULL
    /\ es[f].key = NULL =>
           /\ \A i \in Slots(cap) :
                  Before(k, i, f, cap) => ~IsEmpty(es[i]) /\ es[i].key # k
           /\ \E s \in Slots(cap) :
                  /\ IsEmpty(es[s])
                  /\ \A i \in Slots(cap) : es[i].key = k => Before(k, s, i, cap)

\* That is where findEntry returns.
LEMMA FindEntryLands ==
    ASSUME NEW cap \in Nat \ {0}, NEW es \in [Slots(cap) -> Entry], NEW k \in Key,
           Stops(es, cap, k) # {}
    PROVE  Lands(FindEntry(es, cap, k), es, cap, k)
<1>. DEFINE h == Home(k, cap)
            stop == Nearest(Stops(es, cap, k), h, cap)
            tombs == {j \in Slots(cap) : /\ IsTombstone(es[j])
                                         /\ Distance(h, j, cap) < Distance(h, stop, cap)}
            f == FindEntry(es, cap, k)
<1>1. /\ stop \in Slots(cap)
      /\ IsEmpty(es[stop]) \/ es[stop].key = k
      /\ \A i \in Slots(cap) : Before(k, i, stop, cap) => ~IsEmpty(es[i]) /\ es[i].key # k
  <2>1. Stops(es, cap, k) \in SUBSET Slots(cap)
    BY DEF Stops
  <2>2. /\ stop \in Stops(es, cap, k)
        /\ \A i \in Stops(es, cap, k) : ~Before(k, i, stop, cap)
    BY <2>1, NearestIsFirst
  <2>. HIDE DEF stop
  <2>. QED
    BY <2>2 DEF Stops
<1>2. f = IF es[stop].key = k \/ tombs = {} THEN stop ELSE Nearest(tombs, h, cap)
  BY DEF FindEntry
<1>3. \A j : j \in tombs <=> j \in Slots(cap) /\ IsTombstone(es[j]) /\ Before(k, j, stop, cap)
  BY DEF Before
<1>4. k # NULL
  BY ValueAssumption
<1>. HIDE DEF stop, tombs, f
<1>5. ASSUME es[stop].key = k
      PROVE  Lands(f, es, cap, k)
  BY <1>1, <1>2, <1>4, <1>5 DEF Lands
<1>6. ASSUME es[stop].key # k
      PROVE  Lands(f, es, cap, k)
  <2>1. IsEmpty(es[stop]) /\ es[stop].key = NULL
    BY <1>1, <1>6 DEF IsEmpty
  <2>2. \A i \in Slots(cap) : es[i].key = k => Before(k, stop, i, cap)
    BY <1>1, <1>6, BeforeIsOrder
  <2>3. CASE tombs = {}
    BY <1>1, <1>2, <1>6, <2>1, <2>2, <2>3 DEF Lands
  <2>4. CASE tombs # {}
    <3>1. f \in tombs
      <4>1. tombs \in SUBSET Slots(cap)
        BY <1>3
      <4>. QED
        BY <1>2, <1>6, <2>4, <4>1, NearestIsFirst
    <3>2. f \in Slots(cap) /\ es[f].key = NULL /\ Before(k, f, stop, cap)
      BY <1>3, <3>1 DEF IsTombstone
    <3>3. \A i \in Slots(cap) : Before(k, i, f, cap) => ~IsEmpty(es[i]) /\ es[i].key # k
      BY <1>1, <3>2, BeforeIsOrder
    <3>. QED
      BY <1>1, <2>1, <2>2, <3>2, <3>3 DEF Lands
  <2>. QED
    BY <2>3, <2>4
<1>. QED
  BY <1>5, <1>6 DEF f

\* A key is found where it is, so it is in one slot only.
LEMMA KeyIsFound ==
    ASSUME NEW cap \in Nat \ {0}, NEW es \in [Slots(cap) -> Entry], Reached(es, cap),
           NEW j \in Slots(cap), IsLive(es[j])
    PROVE  /\ Stops(es, cap, es[j].key) # {}
           /\ FindEntry(es, cap, es[j].key) = j
           /\ \A i \in Slots(cap) : es[i].key = es[j].key => i = j
<1>. DEFINE k == es[j].key
            f == FindEntry(es, cap, k)
<1>1. k \in Key /\ k # NULL
  BY DEF IsLive, Entry
<1>2. j \in Stops(es, cap, k)
  BY DEF Stops
<1>3. Lands(f, es, cap, k)
  BY <1>1, <1>2, FindEntryLands
<1>4. \A i, l \in Slots(cap) : es[i].key = k /\ es[l].key = k => i = l
  BY <1>1, BeforeIsOrder DEF Reached, IsLive
<1>. HIDE DEF f
<1>5. es[f].key = k
  <2>. SUFFICES ASSUME es[f].key = NULL PROVE FALSE
    BY <1>3 DEF Lands
  <2>1. PICK s \in Slots(cap) : IsEmpty(es[s]) /\ Before(k, s, j, cap)
    BY <1>3 DEF Lands
  <2>. QED
    BY <2>1 DEF Reached
<1>6. f = j
  BY <1>3, <1>4, <1>5 DEF Lands
<1>. QED
  BY <1>2, <1>4, <1>6 DEF f

\* Where findEntry lands on a free slot, no slot holds the key; where it lands
\* on the key, no other slot does.
LEMMA LandingIsUnique ==
    ASSUME NEW cap \in Nat \ {0}, NEW es \in [Slots(cap) -> Entry], Reached(es, cap),
           NEW k \in Key, NEW f, Lands(f, es, cap, k)
    PROVE  \A i \in Slots(cap) : es[i].key = k => i = f
<1>. SUFFICES ASSUME NEW i \in Slots(cap), es[i].key = k
              PROVE  i = f
  OBVIOUS
<1>1. IsLive(es[i])
  BY ValueAssumption DEF IsLive
<1>2. CASE es[f].key = k
  BY <1>1, <1>2, KeyIsFound DEF Lands
<1>3. CASE es[f].key # k
  <2>1. PICK s \in Slots(cap) : IsEmpty(es[s]) /\ Before(k, s, i, cap)
    BY <1>3 DEF Lands
  <2>. QED
    BY <1>1, <2>1 DEF Reached
<1>. QED
  BY <1>2, <1>3

\* Setting a key where findEntry lands breaks no probe.
LEMMA InsertKeepsReached ==
    ASSUME NEW cap \in Nat \ {0}, NEW es \in [Slots(cap) -> Entry], Reached(es, cap),
           NEW k \in Key, NEW v \in Value, NEW f, Lands(f, es, cap, k)
    PROVE  LET set == [es EXCEPT ![f] = [key |-> k, value |-> v]]
           IN  set \in [Slots(cap) -> Entry] /\ Reached(set, cap)
<1>. DEFINE set == [es EXCEPT ![f] = [key |-> k, value |-> v]]
<1>1. f \in Slots(cap) /\ k # NULL
  BY ValueAssumption DEF Lands
<1>2. /\ set \in [Slots(cap) -> Entry]
      /\ set[f].key = k
      /\ \A i \in Slots(cap) : i # f => set[i] = es[i]
  BY <1>1 DEF Entry
<1>. HIDE DEF set
<1>3. ASSUME NEW i \in Slots(cap), NEW j \in Slots(cap),
             IsLive(set[j]), Before(set[j].key, i, j, cap)
      PROVE  ~IsEmpty(set[i]) /\ set[i].key # set[j].key
  <2>1. set[j].key \in Key
    BY <1>2, <1>3 DEF Entry, IsLive
  <2>2. i # j
    BY <1>3, <2>1, BeforeIsOrder
  <2>3. CASE j = f
    <3>1. es[f].key = NULL => ~IsEmpty(es[i]) /\ es[i].key # k
      BY <1>2, <1>3, <2>3 DEF Lands
    <3>2. es[f].key = k => ~IsEmpty(es[i]) /\ es[i].key # k
      BY <1>1, <1>2, <1>3, <2>3 DEF Reached, IsLive
    <3>. QED
      BY <1>2, <2>2, <2>3, <3>1, <3>2 DEF Lands
  <2>4. CASE j # f
    <3>1. ~IsEmpty(es[i]) /\ es[i].key # es[j].key
      BY <1>2, <1>3, <2>4 DEF Reached
    <3>2. CASE i = f
      BY <1>1, <1>2, <2>2, <2>4, <3>2, LandingIsUnique DEF IsEmpty
    <3>3. CASE i # f
      BY <1>2, <2>4, <3>1, <3>3
    <3>. QED
      BY <3>2, <3>3
  <2>. QED
    BY <2>3, <2>4
<1>. QED
  BY <1>2, <1>3 DEF Reached, set

\* A tombstone in the place of an entry breaks no probe.
LEMMA TombstoneKeepsReached ==
    ASSUME NEW cap \in Nat \ {0}, NEW es \in [Slots(cap) -> Entry], Reached(es, cap),
           NEW d \in Slots(cap)
    PROVE  LET cut == [es EXCEPT ![d] = Tombstone]
           IN  cut \in [Slots(cap) -> Entry] /\ Reached(cut, cap)
<1>. DEFINE cut == [es EXCEPT ![d] = Tombstone]
<1>1. /\ Tombstone \in Entry /\ Tombstone.key = NULL
      /\ ~IsEmpty(Tombstone) /\ ~IsLive(Tombstone)
  BY ValueAssumption DEF Tombstone, Entry, IsEmpty, IsLive
<1>2. /\ cut \in [Slots(cap) -> Entry]
      /\ cut[d] = Tombstone
      /\ \A i \in Slots(cap) : i # d => cut[i] = es[i]
  BY <1>1
<1>. HIDE DEF cut
<1>3. Reached(cut, cap)
  BY <1>1, <1>2 DEF Reached, IsLive
<1>. QED
  BY <1>2, <1>3 DEF cut

-----------------------------------------------------------------------------
(* Room in an array.                                                         *)

\* An array in which not every slot is occupied has an empty one.
LEMMA RoomIsEmptySlot ==
    ASSUME NEW cap \in Nat, NEW es \in [Slots(cap) -> Entry]
    PROVE  /\ IsFiniteSet(Occupied(es)) /\ Cardinality(Occupied(es)) \in Nat
           /\ Cardinality(Occupied(es)) < cap => HasEmptySlot(es)
           /\ \A j \in Slots(cap) : IsLive(es[j]) => Cardinality(Occupied(es)) # 0
<1>1. IsFiniteSet(Slots(cap)) /\ Cardinality(Slots(cap)) = cap
  <2>1. IsFiniteSet(0..cap - 1) /\ Cardinality(0..cap - 1) = cap
    BY FS_Interval
  <2>. QED
    BY <2>1 DEF Slots
<1>2. Occupied(es) \in SUBSET Slots(cap)
  BY DEF Occupied
<1>3. IsFiniteSet(Occupied(es)) /\ Cardinality(Occupied(es)) \in Nat
  BY <1>1, <1>2, FS_Subset, FS_CardinalityType
<1>4. ~HasEmptySlot(es) => Occupied(es) = Slots(cap)
  BY DEF HasEmptySlot, Occupied
<1>5. ASSUME NEW j \in Slots(cap), IsLive(es[j])
      PROVE  Cardinality(Occupied(es)) # 0
  <2>1. j \in Occupied(es)
    BY <1>5 DEF Occupied, IsLive, IsEmpty
  <2>. QED
    BY <1>3, <2>1, FS_EmptySet
<1>. QED
  BY <1>1, <1>3, <1>4, <1>5

\* An entry set in an empty slot is one more; in another slot it is not.
LEMMA OccupiedAfterSet ==
    ASSUME NEW cap \in Nat, NEW es \in [Slots(cap) -> Entry], NEW f \in Slots(cap), NEW e,
           ~IsEmpty(e)
    PROVE  LET now == Cardinality(Occupied([es EXCEPT ![f] = e]))
               was == Cardinality(Occupied(es))
           IN  /\ IsEmpty(es[f]) => now = was + 1
               /\ ~IsEmpty(es[f]) => now = was
<1>1. Occupied([es EXCEPT ![f] = e]) = Occupied(es) \cup {f}
  BY DEF Occupied
<1>2. f \in Occupied(es) <=> ~IsEmpty(es[f])
  BY DEF Occupied
<1>3. IsFiniteSet(Occupied(es)) /\ Cardinality(Occupied(es)) \in Nat
  BY RoomIsEmptySlot
<1>4. Cardinality(Occupied(es) \cup {f}) =
          IF f \in Occupied(es) THEN Cardinality(Occupied(es)) ELSE Cardinality(Occupied(es)) + 1
  BY <1>3, FS_AddElement
<1>. QED
  BY <1>1, <1>2, <1>3, <1>4

\* Array es is that of the table with key k taken out: every other entry, every
\* probe and the number of occupied slots are as they were.
LeavesOut(es, k) ==
    /\ es \in [Slots(capacity) -> Entry]
    /\ Reached(es, capacity)
    /\ Cardinality(Occupied(es)) = Cardinality(Occupied(entries))
    /\ HasEmptySlot(entries) => HasEmptySlot(es)
    /\ \A j \in Slots(capacity) :
           es[j] = IF entries[j].key = k THEN Tombstone ELSE entries[j]

\* That is what tableDelete does.
LEMMA DeletedLeavesOut ==
    ASSUME TypeOK, Reached(entries, capacity), count = Cardinality(Occupied(entries)),
           NEW k \in Key, count # 0 => Stops(entries, capacity, k) # {}
    PROVE  LeavesOut(Deleted(k), k)
<1>1. capacity \in Nat /\ entries \in [Slots(capacity) -> Entry] /\ k # NULL
  BY ValueAssumption DEF TypeOK
<1>2. ASSUME \A j \in Slots(capacity) : entries[j].key # k
      PROVE  LeavesOut(entries, k)
  BY <1>1, <1>2 DEF LeavesOut
<1>3. CASE count = 0
  <2>1. \A j \in Slots(capacity) : entries[j].key # k
    <3>1. \A j \in Slots(capacity) : ~IsLive(entries[j])
      BY <1>1, <1>3, RoomIsEmptySlot
    <3>. QED
      BY <1>1, <3>1 DEF IsLive
  <2>. QED
    BY <1>2, <1>3, <2>1 DEF Deleted
<1>4. CASE count # 0
  <2>. DEFINE f == FindEntry(entries, capacity, k)
  <2>1. capacity \in Nat \ {0}
    BY <1>1, <1>4 DEF Stops, Slots
  <2>2. Lands(f, entries, capacity, k)
    BY <1>1, <1>4, <2>1, FindEntryLands
  <2>3. \A i \in Slots(capacity) : entries[i].key = k => i = f
    BY <1>1, <2>1, <2>2, LandingIsUnique
  <2>4. Deleted(k) = IF entries[f].key = NULL THEN entries ELSE [entries EXCEPT ![f] = Tombstone]
    BY <1>4 DEF Deleted
  <2>5. f \in Slots(capacity)
    BY <2>2 DEF Lands
  <2>. HIDE DEF f
  <2>6. CASE entries[f].key = NULL
    BY <1>1, <1>2, <2>3, <2>4, <2>6
  <2>7. CASE entries[f].key # NULL
    <3>. DEFINE cut == [entries EXCEPT ![f] = Tombstone]
    <3>1. cut \in [Slots(capacity) -> Entry] /\ Reached(cut, capacity)
      BY <1>1, <2>1, <2>5, TombstoneKeepsReached
    <3>2. ~IsEmpty(Tombstone) /\ ~IsEmpty(entries[f])
      BY <2>7, ValueAssumption DEF Tombstone, IsEmpty
    <3>3. Cardinality(Occupied(cut)) = Cardinality(Occupied(entries))
      <4>1. capacity \in Nat /\ entries \in [Slots(capacity) -> Entry] /\ f \in Slots(capacity)
        BY <1>1, <2>5
      <4>. QED
        BY Zenon, <3>2, <4>1, OccupiedAfterSet
    <3>4. \A j \in Slots(capacity) :
              cut[j] = IF entries[j].key = k THEN Tombstone ELSE entries[j]
      BY <1>1, <2>2, <2>3, <2>7 DEF Lands
    <3>5. HasEmptySlot(entries) => HasEmptySlot(cut)
      BY <1>1, <3>2 DEF HasEmptySlot
    <3>. QED
      BY <2>4, <2>7, <3>1, <3>3, <3>4, <3>5 DEF LeavesOut
  <2>. QED
    BY <2>6, <2>7
<1>. QED
  BY <1>3, <1>4

-----------------------------------------------------------------------------
(* Every step keeps the invariant.                                           *)

\* The capacity only grows.
LEMMA CapacityGrows ==
    ASSUME NEW cap \in Nat
    PROVE  /\ GrowCapacity(cap) \in Nat \ {0} /\ GrowCapacity(cap) > cap
           /\ GrowCapacity(cap) >= InitialCapacity
           /\ cap = 0 \/ cap >= InitialCapacity => 4 * (cap + 1) <= 3 * GrowCapacity(cap)
BY CapacityAssumption DEF GrowCapacity

\* A search, or a call that has not begun its work, leaves the table alone.
LEMMA SearchKeepsIInv ==
    ASSUME IInv,
           \/ \E k \in Key : TableGet(k) \/ TableFindString(k)
           \/ \E k \in Key, v \in Value : TableSet(k, v)
    PROVE  IInv'
<1>1. /\ UNCHANGED <<count, capacity, entries, index, fresh, weak, unmarked>>
      /\ pc = "idle" /\ pc' \in {"idle", "alloc", "insert"} /\ ~weak
      /\ pc' = "insert" => ~Overloaded
      /\ key' \in Key \cup {NULL} /\ value' \in Value /\ (pc' # "idle" => key' \in Key)
  BY DEF IInv, TypeOK, TableGet, TableFindString, TableSet, Idle, table
<1>. QED
  BY <1>1 DEF IInv, TypeOK, CapacityGrown, KeyPending, CountIsOccupancy, LoadKept, Overloaded,
     ProbesEnd, RehashIsPartial, WeakIsPartial

\* A deletion leaves a tombstone and every probe.
LEMMA DeleteKeepsIInv ==
    ASSUME IInv, NEW k \in Key, TableDelete(k)
    PROVE  IInv'
<1>1. /\ UNCHANGED <<count, capacity, pc, key, value, index, fresh, weak, unmarked>>
      /\ pc = "idle" /\ ~weak
      /\ entries' = Deleted(k)
  BY DEF TableDelete, Idle
<1>2. LeavesOut(entries', k)
  BY <1>1, DeletedLeavesOut DEF IInv, CountIsOccupancy, TableDelete
<1>. QED
  BY <1>1, <1>2 DEF IInv, TypeOK, CapacityGrown, KeyPending, CountIsOccupancy, LoadKept,
     ProbesEnd, RehashIsPartial, WeakIsPartial, LeavesOut

\* An array of empty entries can be searched.
LEMMA EmptyArray ==
    ASSUME NEW cap \in Nat
    PROVE  LET es == [j \in Slots(cap) |-> EmptyEntry]
           IN  /\ es \in [Slots(cap) -> Entry] /\ Cardinality(Occupied(es)) = 0
               /\ Reached(es, cap)
               /\ cap > 0 => HasEmptySlot(es)
               /\ \A j \in Slots(cap) : IsEmpty(es[j]) /\ ~IsLive(es[j])
<1>1. EmptyEntry \in Entry /\ IsEmpty(EmptyEntry) /\ ~IsLive(EmptyEntry)
  BY ValueAssumption DEF EmptyEntry, Entry, IsEmpty, IsLive
<1>2. Occupied([j \in Slots(cap) |-> EmptyEntry]) = {}
  BY <1>1 DEF Occupied
<1>3. cap > 0 => HasEmptySlot([j \in Slots(cap) |-> EmptyEntry])
  BY <1>1 DEF HasEmptySlot, Slots
<1>. QED
  BY <1>1, <1>2, <1>3, FS_EmptySet DEF Reached

LEMMA NoSlots == Slots(0) = {}
BY DEF Slots

\* freeTable leaves an empty table.
LEMMA FreeKeepsIInv ==
    ASSUME IInv, FreeTable
    PROVE  IInv'
<1>1. entries' = [j \in Slots(0) |-> EmptyEntry] /\ capacity' = 0
  BY NoSlots DEF FreeTable
<1>2. /\ entries' \in [Slots(0) -> Entry] /\ Cardinality(Occupied(entries')) = 0
      /\ Reached(entries', 0)
  BY <1>1, EmptyArray
<1>. QED
  BY <1>1, <1>2 DEF FreeTable, Idle, IInv, TypeOK, CapacityGrown, KeyPending, CountIsOccupancy,
     LoadKept, ProbesEnd, RehashIsPartial, WeakIsPartial

\* adjustCapacity begins with an array of empty entries.
LEMMA BeginRehashKeepsIInv ==
    ASSUME IInv, BeginRehash
    PROVE  IInv'
<1>. DEFINE cap == GrowCapacity(capacity)
<1>1. cap \in Nat /\ cap > 0 /\ capacity \in Nat
  BY CapacityGrows DEF IInv, TypeOK
<1>2. /\ fresh' = [j \in Slots(cap) |-> EmptyEntry]
      /\ UNCHANGED <<capacity, entries, key, value, weak, unmarked>>
      /\ count' = 0 /\ index' = 0 /\ pc' = "rehash" /\ pc \in {"alloc", "collected"} /\ ~weak
  BY DEF BeginRehash
<1>3. /\ fresh' \in [Slots(cap) -> Entry] /\ Cardinality(Occupied(fresh')) = 0
      /\ Reached(fresh', cap) /\ HasEmptySlot(fresh')
      /\ \A j \in Slots(cap) : IsEmpty(fresh'[j]) /\ ~IsLive(fresh'[j])
  BY <1>1, <1>2, EmptyArray
<1>4. SameEntries(fresh', Slots(cap), entries, 0..-1)
  BY <1>3 DEF SameEntries
<1>5. RehashIsPartial'
  BY <1>1, <1>2, <1>3, <1>4 DEF RehashIsPartial
<1>. QED
  BY <1>1, <1>2, <1>3, <1>5 DEF IInv, TypeOK, CapacityGrown, KeyPending, CountIsOccupancy,
     LoadKept, ProbesEnd, WeakIsPartial

\* In the middle of adjustCapacity the entry at index is not in the new array yet.
LEMMA NotYetCopied ==
    ASSUME IInv, pc = "rehash", index < capacity, IsLive(entries[index])
    PROVE  \A i \in DOMAIN fresh : fresh[i].key # entries[index].key
<1>1. /\ capacity \in Nat \ {0} /\ index \in Nat /\ index \in Slots(capacity)
      /\ entries \in [Slots(capacity) -> Entry]
      /\ fresh \in [DOMAIN fresh -> Entry]
  BY DEF IInv, TypeOK, Slots
<1>. SUFFICES ASSUME NEW i \in DOMAIN fresh, fresh[i].key = entries[index].key
              PROVE  FALSE
  OBVIOUS
<1>2. fresh[i] \in Entry /\ IsLive(fresh[i])
  BY <1>1 DEF IsLive
<1>3. SameEntries(fresh, DOMAIN fresh, entries, 0..index - 1)
  BY DEF IInv, RehashIsPartial
<1>4. PICK j \in 0..index - 1 : entries[j] = fresh[i]
  BY <1>2, <1>3 DEF SameEntries
<1>5. j \in Slots(capacity) /\ j # index
  BY <1>1, <1>4 DEF Slots
<1>. QED
  BY <1>1, <1>4, <1>5, KeyIsFound DEF IInv

\* A turn of the loop of adjustCapacity copies one entry to a free slot.
LEMMA RehashKeepsIInv ==
    ASSUME IInv, Rehash
    PROVE  IInv'
<1>. DEFINE cap == GrowCapacity(capacity)
            e == entries[index]
            f == FindEntry(fresh, cap, e.key)
<1>1. /\ pc = "rehash" /\ index < capacity /\ index' = index + 1
      /\ UNCHANGED <<capacity, entries, pc, key, value, weak, unmarked>>
  BY DEF Rehash
<1>2. /\ capacity \in Nat \ {0} /\ index \in Slots(capacity) /\ index \in Nat
      /\ entries \in [Slots(capacity) -> Entry]
      /\ fresh \in [Slots(cap) -> Entry] /\ DOMAIN fresh = Slots(cap)
      /\ cap \in Nat \ {0} /\ cap > capacity /\ count \in Nat
  <2>1. /\ capacity \in Nat /\ index \in Nat /\ count \in Nat
        /\ entries \in [Slots(capacity) -> Entry] /\ fresh \in [Slots(cap) -> Entry]
    BY <1>1 DEF IInv, TypeOK
  <2>2. cap \in Nat \ {0} /\ cap > capacity
    BY <2>1, CapacityGrows
  <2>3. capacity \in Nat \ {0} /\ index \in Slots(capacity)
    BY <1>1, <2>1 DEF Slots
  <2>. QED
    BY <2>1, <2>2, <2>3
<1>3. /\ count <= index /\ ~weak /\ Reached(fresh, cap)
      /\ \A j \in Slots(cap) : IsLive(fresh[j]) \/ IsEmpty(fresh[j])
      /\ SameEntries(fresh, Slots(cap), entries, 0..index - 1)
      /\ count = Cardinality(Occupied(fresh))
  BY <1>1, <1>2 DEF IInv, RehashIsPartial, CountIsOccupancy
<1>4. \A j : j \in 0..index' - 1 <=> j \in 0..index - 1 \/ j = index
  BY <1>1, <1>2
<1>5. e \in Entry
  BY <1>2
<1>. HIDE DEF cap
<1>6. ASSUME ~IsLive(e), fresh' = fresh, count' = count
      PROVE  SameEntries(fresh', Slots(cap), entries, 0..index' - 1)
  BY <1>3, <1>4, <1>6 DEF SameEntries
<1>7. ASSUME IsLive(e), Stops(fresh, cap, e.key) # {}, fresh' = [fresh EXCEPT ![f] = e],
             count' = count + 1
      PROVE  /\ fresh' \in [Slots(cap) -> Entry] /\ Reached(fresh', cap)
             /\ \A j \in Slots(cap) : IsLive(fresh'[j]) \/ IsEmpty(fresh'[j])
             /\ count' = Cardinality(Occupied(fresh'))
             /\ SameEntries(fresh', Slots(cap), entries, 0..index' - 1)
  <2>1. e.key \in Key /\ e.value \in Value /\ e = [key |-> e.key, value |-> e.value]
    BY <1>5, <1>7 DEF IsLive, Entry
  <2>2. Lands(f, fresh, cap, e.key)
    BY <1>2, <1>7, <2>1, FindEntryLands
  <2>. HIDE DEF f
  <2>3. f \in Slots(cap) /\ IsEmpty(fresh[f])
    <3>1. fresh[f].key # e.key
      BY <1>1, <1>2, <1>7, <2>2, NotYetCopied DEF Lands
    <3>. QED
      BY <1>3, <2>2, <3>1 DEF Lands, IsLive
  <2>4. fresh' \in [Slots(cap) -> Entry] /\ Reached(fresh', cap)
    <3>. DEFINE set == [fresh EXCEPT ![f] = [key |-> e.key, value |-> e.value]]
    <3>1. set \in [Slots(cap) -> Entry] /\ Reached(set, cap)
      BY <1>2, <1>3, <2>1, <2>2, InsertKeepsReached
    <3>. QED
      BY <1>7, <2>1, <3>1
  <2>5. fresh'[f] = e /\ \A i \in Slots(cap) : i # f => fresh'[i] = fresh[i]
    BY <1>2, <1>7, <2>3
  <2>6. ~IsEmpty(e)
    BY <1>7 DEF IsEmpty, IsLive
  <2>7. count' = Cardinality(Occupied(fresh'))
    <3>1. Cardinality(Occupied([fresh EXCEPT ![f] = e])) = Cardinality(Occupied(fresh)) + 1
      <4>1. cap \in Nat /\ fresh \in [Slots(cap) -> Entry] /\ f \in Slots(cap) /\ IsEmpty(fresh[f])
        BY <1>2, <2>3
      <4>. HIDE DEF e
      <4>. QED
        BY <2>6, <4>1, Zenon, OccupiedAfterSet
    <3>. QED
      BY <1>3, <1>7, <3>1
  <2>8. SameEntries(fresh', Slots(cap), entries, 0..index' - 1)
    <3>. SUFFICES ASSUME NEW x \in Entry, IsLive(x)
                  PROVE  (\E i \in Slots(cap) : fresh'[i] = x)
                             <=> (\E j \in 0..index' - 1 : entries[j] = x)
      BY DEF SameEntries
    <3>1. (\E i \in Slots(cap) : fresh'[i] = x) <=> (\E i \in Slots(cap) : fresh[i] = x) \/ x = e
      BY <2>3, <2>5 DEF IsLive, IsEmpty
    <3>2. (\E i \in Slots(cap) : fresh[i] = x) <=> (\E j \in 0..index - 1 : entries[j] = x)
      BY <1>3 DEF SameEntries
    <3>. QED
      BY <1>4, <3>1, <3>2
  <2>. QED
    BY <1>3, <1>7, <2>4, <2>5, <2>7, <2>8
<1>8. /\ fresh' \in [Slots(cap) -> Entry] /\ Reached(fresh', cap)
      /\ \A j \in Slots(cap) : IsLive(fresh'[j]) \/ IsEmpty(fresh'[j])
      /\ count' = Cardinality(Occupied(fresh')) /\ count' \in {count, count + 1}
      /\ SameEntries(fresh', Slots(cap), entries, 0..index' - 1)
  BY <1>2, <1>3, <1>6, <1>7 DEF Rehash, IsLive, cap
<1>9. HasEmptySlot(fresh')
  BY <1>1, <1>2, <1>3, <1>8, RoomIsEmptySlot
<1>10. RehashIsPartial'
  BY <1>1, <1>2, <1>3, <1>8 DEF RehashIsPartial, cap
<1>. QED
  BY <1>1, <1>2, <1>3, <1>8, <1>9, <1>10 DEF IInv, TypeOK, CapacityGrown, KeyPending,
     CountIsOccupancy, LoadKept, ProbesEnd, WeakIsPartial, cap

\* The new array takes the place of the old one, with room for the key to set.
LEMMA FinishRehashKeepsIInv ==
    ASSUME IInv, FinishRehash
    PROVE  IInv'
<1>1. /\ pc = "rehash" /\ index = capacity /\ pc' = "insert" /\ index' = 0
      /\ entries' = fresh /\ capacity' = GrowCapacity(capacity)
      /\ fresh' = [j \in Slots(0) |-> EmptyEntry]
      /\ UNCHANGED <<count, key, value, weak, unmarked>>
  BY NoSlots DEF FinishRehash
<1>2. /\ fresh \in [Slots(GrowCapacity(capacity)) -> Entry] /\ HasEmptySlot(fresh)
      /\ Reached(fresh, GrowCapacity(capacity)) /\ count <= capacity /\ ~weak
      /\ count = Cardinality(Occupied(fresh)) /\ capacity \in Nat /\ count \in Nat
  BY <1>1 DEF IInv, TypeOK, ProbesEnd, RehashIsPartial, CountIsOccupancy
<1>3. /\ GrowCapacity(capacity) \in Nat /\ GrowCapacity(capacity) >= InitialCapacity
      /\ 4 * (capacity + 1) <= 3 * GrowCapacity(capacity)
  BY <1>2, CapacityGrows DEF IInv, CapacityGrown
<1>4. ~Overloaded'
  BY <1>1, <1>2, <1>3 DEF Overloaded
<1>5. fresh' \in [Slots(0) -> Entry]
  BY <1>1, EmptyArray
<1>. QED
  BY <1>1, <1>2, <1>3, <1>4, <1>5 DEF IInv, TypeOK, CapacityGrown, KeyPending,
     CountIsOccupancy, LoadKept, ProbesEnd, RehashIsPartial, WeakIsPartial

\* What tableSet stores, and where.
LEMMA InsertLands ==
    ASSUME IInv, Insert
    PROVE  LET f == FindEntry(entries, capacity, key)
           IN  /\ Lands(f, entries, capacity, key) /\ f \in Slots(capacity)
               /\ capacity \in Nat \ {0} /\ key \in Key /\ value \in Value
               /\ entries' = [entries EXCEPT ![f] = [key |-> key, value |-> value]]
<1>1. /\ capacity \in Nat /\ entries \in [Slots(capacity) -> Entry]
      /\ key \in Key /\ value \in Value /\ Stops(entries, capacity, key) # {}
  BY DEF IInv, TypeOK, KeyPending, Insert
<1>2. capacity \in Nat \ {0}
  BY <1>1 DEF Stops, Slots
<1>3. Lands(FindEntry(entries, capacity, key), entries, capacity, key)
  BY <1>1, <1>2, FindEntryLands
<1>. QED
  BY <1>1, <1>2, <1>3 DEF Lands, Insert

\* The entry set is counted when it fills an empty slot, and one stays empty.
LEMMA InsertKeepsIInv ==
    ASSUME IInv, Insert
    PROVE  IInv'
<1>. DEFINE f == FindEntry(entries, capacity, key)
            e == [key |-> key, value |-> value]
<1>1. /\ Lands(f, entries, capacity, key) /\ f \in Slots(capacity)
      /\ capacity \in Nat \ {0} /\ key \in Key /\ value \in Value
      /\ entries' = [entries EXCEPT ![f] = e]
  BY InsertLands
<1>2. /\ pc = "insert" /\ pc' = "idle" /\ key' = NULL /\ value' = NIL_VAL
      /\ UNCHANGED <<capacity, index, fresh, weak, unmarked>>
      /\ count' = IF IsEmpty(entries[f]) THEN count + 1 ELSE count
  BY DEF Insert, IsEmpty
<1>3. /\ entries \in [Slots(capacity) -> Entry] /\ Reached(entries, capacity)
      /\ count \in Nat /\ count = Cardinality(Occupied(entries)) /\ ~Overloaded /\ ~weak
  BY <1>2 DEF IInv, TypeOK, CountIsOccupancy, LoadKept, WeakIsPartial
<1>4. ~IsEmpty(e) /\ key # NULL
  BY <1>1, ValueAssumption DEF IsEmpty
<1>. HIDE DEF f
<1>5. entries' \in [Slots(capacity) -> Entry] /\ Reached(entries', capacity)
  BY <1>1, <1>3, InsertKeepsReached
<1>. HIDE DEF e
<1>6. count' = Cardinality(Occupied(entries')) /\ count' \in {count, count + 1}
  <2>1. capacity \in Nat /\ entries \in [Slots(capacity) -> Entry] /\ f \in Slots(capacity) /\ ~IsEmpty(e)
    BY <1>1, <1>3, <1>4
  <2>2. /\ IsEmpty(entries[f]) =>
              Cardinality(Occupied([entries EXCEPT ![f] = e])) = Cardinality(Occupied(entries)) + 1
        /\ ~IsEmpty(entries[f]) =>
              Cardinality(Occupied([entries EXCEPT ![f] = e])) = Cardinality(Occupied(entries))
    BY Zenon, <2>1, OccupiedAfterSet
  <2>. QED
    BY <1>1, <1>2, <1>3, <2>2
<1>7. 4 * count' <= 3 * capacity /\ count' \in Nat
  BY <1>1, <1>3, <1>6 DEF Overloaded
<1>8. HasEmptySlot(entries')
  <2>1. Cardinality(Occupied(entries')) < capacity
    BY <1>1, <1>6, <1>7
  <2>. QED
    BY <1>1, <1>5, <2>1, RoomIsEmptySlot
<1>. QED
  BY <1>1, <1>2, <1>3, <1>5, <1>6, <1>7, <1>8, ValueAssumption DEF IInv, TypeOK, CapacityGrown,
     KeyPending, CountIsOccupancy, LoadKept, ProbesEnd, RehashIsPartial, WeakIsPartial

\* A collection begins with nothing passed.
LEMMA CollectKeepsIInv ==
    ASSUME IInv, Collect
    PROVE  IInv'
<1>1. /\ UNCHANGED <<count, capacity, entries, key, value, fresh>>
      /\ weak' /\ weak' \in BOOLEAN /\ index' = 0 /\ unmarked' \subseteq Key
      /\ pc \in {"idle", "alloc"} /\ pc' = IF pc = "alloc" THEN "collected" ELSE pc
  BY DEF Collect, table
<1>2. capacity \in Nat /\ \A j \in 0..-1 : entries[j].key \notin unmarked'
  BY DEF IInv, TypeOK
<1>. QED
  BY <1>1, <1>2 DEF IInv, TypeOK, CapacityGrown, KeyPending, CountIsOccupancy, LoadKept,
     ProbesEnd, RehashIsPartial, WeakIsPartial

\* A turn of tableRemoveUnmarked leaves a marked key or none in the slot.
LEMMA RemoveUnmarkedKeepsIInv ==
    ASSUME IInv, RemoveUnmarked
    PROVE  IInv'
<1>1. /\ weak /\ pc \in {"idle", "collected"} /\ index <= capacity
      /\ \A j \in 0..index - 1 : entries[j].key \notin unmarked
      /\ UNCHANGED <<count, capacity, pc, key, value, fresh>>
      /\ count = Cardinality(Occupied(entries)) /\ Reached(entries, capacity)
  BY DEF RemoveUnmarked, IInv, WeakIsPartial, CountIsOccupancy
<1>2. /\ TypeOK /\ capacity \in Nat /\ index \in Nat /\ unmarked \subseteq Key
      /\ entries \in [Slots(capacity) -> Entry]
  BY DEF IInv, TypeOK
<1>3. CASE index = capacity
  <2>1. UNCHANGED entries /\ ~weak' /\ weak' \in BOOLEAN /\ unmarked' = {} /\ index' = 0
    <3>1. ~(index < capacity)
      BY <1>2, <1>3
    <3>. QED
      BY <3>1, Zenon DEF RemoveUnmarked
  <2>. QED
    BY <1>1, <2>1 DEF IInv, TypeOK, CapacityGrown, KeyPending, CountIsOccupancy, LoadKept,
       ProbesEnd, RehashIsPartial, WeakIsPartial
<1>4. CASE index < capacity
  <2>. DEFINE k == entries[index].key
  <2>1. UNCHANGED <<weak, unmarked>> /\ index' = index + 1 /\ index \in Slots(capacity)
    <3>1. index # capacity
      BY <1>2, <1>4
    <3>2. index \in Slots(capacity)
      BY <1>2, <1>4 DEF Slots
    <3>. QED
      BY <3>1, <3>2, Zenon DEF RemoveUnmarked
  <2>2. \A j : j \in 0..index' - 1 => j \in Slots(capacity) /\ (j \in 0..index - 1 \/ j = index)
    BY <1>2, <1>4, <2>1 DEF Slots
  <2>3. CASE k = NULL \/ k \notin unmarked
    <3>1. UNCHANGED entries
      BY <1>2, <1>4, <2>3 DEF RemoveUnmarked
    <3>2. k \notin unmarked
      BY <1>2, <2>3, ValueAssumption
    <3>3. \A j \in 0..index' - 1 : entries[j].key \notin unmarked
      BY <1>1, <2>2, <3>2
    <3>. QED
      BY <1>1, <1>2, <1>4, <2>1, <3>1, <3>3 DEF IInv, TypeOK, CapacityGrown, KeyPending,
         CountIsOccupancy, LoadKept, ProbesEnd, RehashIsPartial, WeakIsPartial
  <2>4. CASE k # NULL /\ k \in unmarked
    <3>1. /\ entries' = Deleted(k) /\ k \in Key
          /\ count # 0 => Stops(entries, capacity, k) # {}
      <4>1. index # capacity
        BY <1>2, <1>4
      <4>2. k \in Key
        BY <1>2, <2>4
      <4>. QED
        BY <2>4, <4>1, <4>2, Zenon DEF RemoveUnmarked
    <3>2. LeavesOut(entries', k)
      BY <1>1, <1>2, <3>1, DeletedLeavesOut
    <3>3. Tombstone.key \notin unmarked
      BY <1>2, ValueAssumption DEF Tombstone
    <3>4. \A j \in 0..index' - 1 : entries'[j].key \notin unmarked
      BY <1>1, <2>2, <3>2, <3>3 DEF LeavesOut
    <3>. QED
      BY <1>1, <1>2, <1>4, <2>1, <3>2, <3>4 DEF IInv, TypeOK, CapacityGrown, KeyPending,
         CountIsOccupancy, LoadKept, ProbesEnd, RehashIsPartial, WeakIsPartial, LeavesOut
  <2>. QED
    BY <2>3, <2>4
<1>. QED
  BY <1>1, <1>2, <1>3, <1>4

LEMMA InitIInv == Init => IInv
<1>. SUFFICES ASSUME Init PROVE IInv
  OBVIOUS
<1>1. [j \in {} |-> EmptyEntry] = [j \in Slots(0) |-> EmptyEntry]
  BY NoSlots
<1>2. entries \in [Slots(0) -> Entry] /\ fresh \in [Slots(0) -> Entry]
      /\ Reached(entries, 0) /\ Cardinality(Occupied(entries)) = 0
  BY <1>1, EmptyArray DEF Init
<1>3. /\ count = 0 /\ capacity = 0 /\ index = 0 /\ pc = "idle" /\ key = NULL
      /\ value = NIL_VAL /\ ~weak /\ weak \in BOOLEAN /\ unmarked = {}
  BY DEF Init
<1>4. TypeOK
  BY <1>2, <1>3, ValueAssumption DEF TypeOK
<1>. QED
  BY <1>2, <1>3, <1>4 DEF IInv, CapacityGrown, KeyPending, CountIsOccupancy,
     LoadKept, ProbesEnd, RehashIsPartial, WeakIsPartial

LEMMA NextIInv == IInv /\ [Next]_vars => IInv'
<1>. SUFFICES ASSUME IInv, [Next]_vars PROVE IInv'
  OBVIOUS
<1>1. CASE UNCHANGED vars
  BY <1>1 DEF vars, IInv, TypeOK, CapacityGrown, KeyPending, CountIsOccupancy, LoadKept,
     Overloaded, ProbesEnd, RehashIsPartial, WeakIsPartial
<1>2. CASE Next
  BY <1>2, SearchKeepsIInv, DeleteKeepsIInv, FreeKeepsIInv, BeginRehashKeepsIInv,
     RehashKeepsIInv, FinishRehashKeepsIInv, InsertKeepsIInv, CollectKeepsIInv,
     RemoveUnmarkedKeepsIInv DEF Next
<1>. QED
  BY <1>1, <1>2

LEMMA AlwaysIInv == Spec => []IInv
BY InitIInv, NextIInv, PTL DEF Spec

-----------------------------------------------------------------------------
(* The theorems.                                                             *)

\* The table and the variables of adjustCapacity and tableRemoveUnmarked keep
\* their types, whatever they are interrupted by.
THEOREM TypeCorrect == Spec => []TypeOK
<1>1. IInv => TypeOK
  BY DEF IInv
<1>. QED
  BY <1>1, AlwaysIInv, PTL

\* The loops of findEntry and tableFindString always meet an empty slot: the
\* load factor leaves one, in the table and in the array it is rehashed to.
THEOREM ProbesTerminate == Spec => []ProbesEnd
<1>1. IInv => ProbesEnd
  BY DEF IInv
<1>. QED
  BY <1>1, AlwaysIInv, PTL

\* findEntry finds every key that is in the table, at its only slot, after any
\* deletions, collections and growth.
THEOREM KeysAreFound == Spec => []NoLostKey
<1>1. IInv => NoLostKey
  <2>. SUFFICES ASSUME IInv, NEW j \in Slots(capacity), IsLive(entries[j])
                PROVE  FindEntry(entries, capacity, entries[j].key) = j
    BY DEF NoLostKey
  <2>1. capacity \in Nat /\ entries \in [Slots(capacity) -> Entry] /\ Reached(entries, capacity)
    BY DEF IInv, TypeOK
  <2>2. capacity \in Nat \ {0}
    BY <2>1 DEF Slots
  <2>. QED
    BY <2>1, <2>2, KeyIsFound
<1>. QED
  BY <1>1, AlwaysIInv, PTL

\* When tableRemoveUnmarked ends, no unmarked key is left for the sweep to free
\* under the table, even in the middle of a tableSet.
THEOREM WeakTableForgets == Spec => NoDanglingKey
<1>1. IInv /\ [Next]_vars =>
          [weak /\ ~weak' => \A j \in Slots(capacity) : entries[j].key \notin unmarked]_vars
  <2>. SUFFICES ASSUME IInv, Next, weak, ~weak', NEW j \in Slots(capacity)
                PROVE  entries[j].key \notin unmarked
    OBVIOUS
  <2>1. RemoveUnmarked /\ index = capacity
    BY DEF Next, TableGet, TableDelete, TableFindString, TableSet, FreeTable, Idle, BeginRehash,
       Rehash, FinishRehash, Insert, Collect, RemoveUnmarked, IInv, RehashIsPartial, WeakIsPartial
  <2>2. capacity \in Nat /\ \A i \in 0..index - 1 : entries[i].key \notin unmarked
    BY DEF IInv, TypeOK, WeakIsPartial
  <2>. QED
    BY <2>1, <2>2 DEF Slots
<1>. QED
  BY <1>1, AlwaysIInv, PTL DEF Spec, NoDanglingKey

-----------------------------------------------------------------------------
(* Capacities.                                                               *)

\* PowerOfTwo is the function that its recursion describes.
LEMMA Doubling ==
    /\ PowerOfTwo \in [0..30 -> Nat \ {0}]
    /\ \A n \in 0..29 : PowerOfTwo[n + 1] = 2 * PowerOfTwo[n]
<1>. DEFINE Turn(f, n) == IF n = 0 THEN 1 ELSE 2 * f[n - 1]
            S == {m \in 0..30 : \E f \in [0..30 -> Nat \ {0}] : \A n \in 0..m : f[n] = Turn(f, n)}
<1>1. 0 \in S
  <2>. DEFINE f == [n \in 0..30 |-> 1]
  <2>1. f \in [0..30 -> Nat \ {0}]
    OBVIOUS
  <2>2. \A n \in 0..0 : f[n] = Turn(f, n)
    OBVIOUS
  <2>. HIDE DEF f, Turn
  <2>. QED
    BY <2>1, <2>2
<1>2. ASSUME NEW m \in 0..29, m \in S PROVE m + 1 \in S
  <2>1. PICK f \in [0..30 -> Nat \ {0}] : \A n \in 0..m : f[n] = Turn(f, n)
    BY <1>2
  <2>. DEFINE g == [f EXCEPT ![m + 1] = 2 * f[m]]
  <2>2. g \in [0..30 -> Nat \ {0}]
    OBVIOUS
  <2>3. g[m + 1] = 2 * g[m] /\ \A n \in 0..m : g[n] = f[n]
    OBVIOUS
  <2>4. ASSUME NEW n \in 0..m + 1 PROVE g[n] = Turn(g, n)
    <3>. HIDE DEF g
    <3>. QED
      BY <2>1, <2>3
  <2>. HIDE DEF g, Turn
  <2>. QED
    BY <2>2, <2>4
<1>3. 30 \in S
  <2>. HIDE DEF S
  <2>. QED
    BY <1>1, <1>2, TurnByTurn
<1>4. PICK f \in [0..30 -> Nat \ {0}] : \A n \in 0..30 : f[n] = Turn(f, n)
  BY <1>3
<1>5. f = [n \in 0..30 |-> IF n = 0 THEN 1 ELSE 2 * f[n - 1]]
  BY <1>4
<1>6. PowerOfTwo = [n \in 0..30 |-> IF n = 0 THEN 1 ELSE 2 * PowerOfTwo[n - 1]]
  BY <1>5, Zenon DEF PowerOfTwo
<1>7. /\ PowerOfTwo[0] = 1
      /\ \A n \in 0..29 : PowerOfTwo[n + 1] = 2 * PowerOfTwo[n]
  BY <1>6
<1>. DEFINE T == {n \in 0..30 : PowerOfTwo[n] \in Nat \ {0}}
<1>8. 0 \in T /\ \A n \in 0..29 : n \in T => n + 1 \in T
  <2>1. 0 \in T
    BY <1>7
  <2>2. ASSUME NEW n \in 0..29, n \in T PROVE n + 1 \in T
    BY <1>7, <2>2
  <2>. QED
    BY <2>1, <2>2
<1>9. 0..30 \subseteq T
  <2>. HIDE DEF T
  <2>. QED
    BY <1>8, TurnByTurn
<1>. QED
  BY <1>6, <1>7, <1>9

\* A table that is about to grow has a power of two to grow to.
CapacityIsPower ==
    /\ capacity \in {0} \cup PowersOfTwo
    /\ pc \in {"alloc", "collected", "rehash"} => GrowCapacity(capacity) <= MaxCapacity

LEMMA GrowthIsPower ==
    ASSUME capacity \in {0} \cup PowersOfTwo, GrowCapacity(capacity) <= MaxCapacity
    PROVE  GrowCapacity(capacity) \in PowersOfTwo
<1>1. CASE capacity < InitialCapacity
  BY <1>1, CapacityAssumption DEF GrowCapacity
<1>2. CASE ~(capacity < InitialCapacity)
  <2>1. PICK n \in 0..30 : capacity = PowerOfTwo[n]
    BY <1>2, CapacityAssumption DEF PowersOfTwo
  <2>2. GrowCapacity(capacity) = 2 * PowerOfTwo[n] /\ PowerOfTwo[n] \in Nat \ {0}
    BY <1>2, <2>1, Doubling DEF GrowCapacity
  <2>3. n # 30
    BY <2>2, CapacityAssumption, Doubling
  <2>4. n \in 0..29
    BY <2>3
  <2>. QED
    BY <2>2, <2>4, Doubling DEF PowersOfTwo
<1>. QED
  BY <1>1, <1>2

\* Every capacity is zero or a power of two, which is what makes the mask
\* "hash & (capacity - 1)" of findEntry and tableFindString a remainder.
THEOREM CapacitiesArePowers == Spec => []PowerOfTwoCapacity
<1>1. Init => CapacityIsPower
  BY DEF Init, CapacityIsPower
<1>2. IInv /\ CapacityIsPower /\ [Next]_vars => CapacityIsPower'
  <2>. SUFFICES ASSUME IInv, CapacityIsPower, [Next]_vars PROVE CapacityIsPower'
    OBVIOUS
  <2>. USE DEF CapacityIsPower
  <2>1. CASE UNCHANGED vars
    BY <2>1 DEF vars, GrowCapacity
  <2>2. CASE \E k \in Key : TableGet(k) \/ TableDelete(k) \/ TableFindString(k)
    BY <2>2 DEF TableGet, TableDelete, TableFindString, Idle, table, GrowCapacity
  <2>3. CASE \E k \in Key, v \in Value : TableSet(k, v)
    BY <2>3 DEF TableSet, table, GrowCapacity
  <2>4. CASE FreeTable
    BY <2>4 DEF FreeTable, Idle
  <2>5. CASE BeginRehash \/ Rehash
    BY <2>5 DEF BeginRehash, Rehash, GrowCapacity
  <2>6. CASE FinishRehash
    BY <2>6, GrowthIsPower DEF FinishRehash
  <2>7. CASE Insert
    BY <2>7 DEF Insert
  <2>8. CASE Collect \/ RemoveUnmarked
    BY <2>8 DEF Collect, RemoveUnmarked, table, GrowCapacity
  <2>. QED
    BY <2>1, <2>2, <2>3, <2>4, <2>5, <2>6, <2>7, <2>8 DEF Next
<1>3. CapacityIsPower => PowerOfTwoCapacity
  BY DEF CapacityIsPower, PowerOfTwoCapacity
<1>. QED
  BY <1>1, <1>2, <1>3, AlwaysIInv, PTL DEF Spec

-----------------------------------------------------------------------------
(* The table implements the dictionary.                                      *)

\* The map the table stands for, read slot by slot.
ContentsInSlots ==
    /\ Contents = [k \in DOMAIN Contents |-> Contents[k]]
    /\ \A k : k \in DOMAIN Contents <=>
                  \E j \in Slots(capacity) : IsLive(entries[j]) /\ entries[j].key = k
    /\ \A j \in Slots(capacity) :
           IsLive(entries[j]) => Contents[entries[j].key] = entries[j].value

LEMMA ReadContents == IInv => ContentsInSlots
<1>. SUFFICES ASSUME IInv PROVE ContentsInSlots
  OBVIOUS
<1>1. /\ capacity \in Nat /\ entries \in [Slots(capacity) -> Entry]
      /\ Reached(entries, capacity)
  BY DEF IInv, TypeOK
<1>2. Contents = [k \in {entries[j].key : j \in LiveSlots} |-> entries[SlotOf(k)].value]
  BY DEF Contents
<1>3. \A j : j \in LiveSlots <=> j \in Slots(capacity) /\ IsLive(entries[j])
  BY DEF LiveSlots
<1>4. ASSUME NEW j \in LiveSlots
      PROVE  SlotOf(entries[j].key) = j
  <2>1. capacity \in Nat \ {0} /\ j \in Slots(capacity) /\ IsLive(entries[j])
    BY <1>1, <1>3, <1>4 DEF Slots
  <2>2. \A i \in LiveSlots : entries[i].key = entries[j].key => i = j
    BY <1>1, <1>3, <2>1, KeyIsFound
  <2>. QED
    BY <1>4, <2>2 DEF SlotOf
<1>. QED
  BY <1>2, <1>3, <1>4 DEF ContentsInSlots

\* A step that leaves the table alone leaves its contents.
LEMMA SameTable ==
    ASSUME UNCHANGED <<capacity, entries>>
    PROVE  Contents' = Contents
BY DEF Contents, LiveSlots, SlotOf

\* Where nothing is counted, the map is empty.
LEMMA SearchMisses ==
    ASSUME IInv, Idle, count = 0
    PROVE  DOMAIN Contents = {}
<1>1. /\ capacity \in Nat /\ entries \in [Slots(capacity) -> Entry]
      /\ count = Cardinality(Occupied(entries))
  BY DEF Idle, IInv, TypeOK, CountIsOccupancy
<1>. QED
  BY <1>1, ReadContents, RoomIsEmptySlot DEF ContentsInSlots

\* A result of tableGet is that of the map.
LEMMA GetRefines ==
    ASSUME IInv, NEW k \in Key, TableGet(k)
    PROVE  D!Get(k)
<1>1. /\ capacity \in Nat /\ entries \in [Slots(capacity) -> Entry]
      /\ Reached(entries, capacity) /\ ContentsInSlots /\ k # NULL
  BY ReadContents, ValueAssumption DEF IInv, TypeOK
<1>2. UNCHANGED <<Contents, unmarked>>
  BY SameTable DEF TableGet, table
<1>3. result' = IF k \in DOMAIN Contents THEN Contents[k] ELSE NULL
  <2>1. CASE count = 0
    BY <2>1, SearchMisses DEF TableGet
  <2>2. CASE count # 0
    <3>. DEFINE f == FindEntry(entries, capacity, k)
    <3>1. Stops(entries, capacity, k) # {} /\ capacity \in Nat \ {0}
      BY <1>1, <2>2 DEF TableGet, Stops, Slots
    <3>2. Lands(f, entries, capacity, k)
      BY <1>1, <3>1, FindEntryLands
    <3>3. \A i \in Slots(capacity) : entries[i].key = k => i = f
      BY <1>1, <3>1, <3>2, LandingIsUnique
    <3>4. result' = IF entries[f].key = NULL THEN NULL ELSE entries[f].value
      BY <2>2 DEF TableGet
    <3>. HIDE DEF f
    <3>. QED
      BY <1>1, <3>2, <3>3, <3>4 DEF Lands, ContentsInSlots, IsLive
  <2>. QED
    BY <2>1, <2>2
<1>. QED
  BY <1>2, <1>3 DEF D!Get

\* A string that tableFindString gives has the text, and it gives one if there is one.
LEMMA FindStringRefines ==
    ASSUME IInv, NEW k \in Key, TableFindString(k)
    PROVE  D!FindText(Text[k])
<1>. DEFINE same == {x \in DOMAIN Contents : Text[x] = Text[k]}
<1>1. /\ capacity \in Nat /\ entries \in [Slots(capacity) -> Entry]
      /\ Reached(entries, capacity) /\ ContentsInSlots
  BY ReadContents DEF IInv, TypeOK
<1>2. UNCHANGED <<Contents, unmarked>>
  BY SameTable DEF TableFindString, table
<1>3. result' \in IF same = {} THEN {NULL} ELSE same
  <2>1. CASE count = 0
    BY <2>1, SearchMisses DEF TableFindString
  <2>2. CASE count # 0
    <3>. DEFINE m == Nearest(TextStops(k), Home(k, capacity), capacity)
    <3>1. TextStops(k) # {} /\ capacity \in Nat \ {0} /\ TextStops(k) \in SUBSET Slots(capacity)
      BY <1>1, <2>2 DEF TableFindString, TextStops, Slots
    <3>2. m \in TextStops(k) /\ \A i \in TextStops(k) : ~Before(k, i, m, capacity)
      BY <3>1, NearestIsFirst
    <3>3. result' = entries[m].key
      BY <2>2 DEF TableFindString
    <3>. HIDE DEF m
    <3>4. m \in Slots(capacity)
      BY <3>1, <3>2
    <3>5. CASE IsLive(entries[m])
      <4>1. Text[entries[m].key] = Text[k]
        BY <3>2, <3>5 DEF TextStops, IsEmpty, IsLive
      <4>2. entries[m].key \in same
        BY <1>1, <3>4, <3>5, <4>1 DEF ContentsInSlots
      <4>. QED
        BY <3>3, <4>2
    <3>6. CASE ~IsLive(entries[m])
      <4>1. IsEmpty(entries[m]) /\ entries[m].key = NULL
        BY <3>2, <3>6 DEF TextStops, IsLive
      <4>2. ASSUME NEW j \in Slots(capacity), IsLive(entries[j]),
                   Text[entries[j].key] = Text[k]
            PROVE  FALSE
        <5>1. entries[j].key \in Key /\ m # j
          BY <1>1, <3>6, <4>2 DEF Entry, IsLive
        <5>2. \A x : Before(entries[j].key, x, j, capacity) <=> Before(k, x, j, capacity)
          BY <4>2 DEF Before, Home
        <5>3. ~Before(k, j, m, capacity)
          BY <3>2, <4>2 DEF TextStops
        <5>4. Before(k, m, j, capacity)
          BY <3>1, <3>4, <5>1, <5>3, BeforeIsOrder
        <5>. QED
          BY <1>1, <3>4, <4>1, <4>2, <5>2, <5>4 DEF Reached
      <4>3. same = {}
        BY <1>1, <4>2 DEF ContentsInSlots
      <4>. QED
        BY <3>3, <4>1, <4>3
    <3>. QED
      BY <3>5, <3>6
  <2>. QED
    BY <2>1, <2>2
<1>. QED
  BY <1>2, <1>3 DEF D!FindText

\* A table with a key left out stands for the map without it.
LEMMA LeftOutOfContents ==
    ASSUME IInv, IInv', UNCHANGED capacity, NEW k \in Key, LeavesOut(entries', k)
    PROVE  Contents' = D!Without(k)
<1>1. ContentsInSlots /\ ContentsInSlots'
  BY ReadContents, PTL
<1>2. \A j \in Slots(capacity) :
          /\ IsLive(entries'[j]) <=> IsLive(entries[j]) /\ entries[j].key # k
          /\ IsLive(entries'[j]) => entries'[j] = entries[j]
  BY ValueAssumption DEF LeavesOut, IsLive, Tombstone
<1>3. \A x : x \in DOMAIN Contents' <=> x \in DOMAIN Contents \ {k}
  BY <1>1, <1>2 DEF ContentsInSlots
<1>4. ASSUME NEW x \in DOMAIN Contents'
      PROVE  Contents'[x] = Contents[x]
  BY <1>1, <1>2, <1>4 DEF ContentsInSlots
<1>5. Contents' = [x \in DOMAIN Contents' |-> Contents'[x]]
  BY <1>1 DEF ContentsInSlots
<1>6. DOMAIN Contents' = DOMAIN Contents \ {k}
  BY <1>3
<1>. QED
  BY <1>4, <1>5, <1>6 DEF D!Without

\* tableDelete answers whether there was something to remove, and removes it.
LEMMA DeleteRefines ==
    ASSUME IInv, IInv', NEW k \in Key, TableDelete(k)
    PROVE  D!Remove(k)
<1>1. /\ UNCHANGED <<capacity, unmarked>> /\ entries' = Deleted(k)
      /\ result' = (entries' # entries)
      /\ LeavesOut(Deleted(k), k) /\ ContentsInSlots /\ k # NULL
  BY DeletedLeavesOut, ReadContents, ValueAssumption
     DEF TableDelete, Idle, IInv, CountIsOccupancy
<1>2. entries' # entries <=> k \in DOMAIN Contents
  <2>1. /\ entries \in [Slots(capacity) -> Entry] /\ entries' \in [Slots(capacity) -> Entry]
        /\ \A j \in Slots(capacity) :
               entries'[j] = IF entries[j].key = k THEN Tombstone ELSE entries[j]
    BY <1>1 DEF IInv, TypeOK, LeavesOut
  <2>2. \A j \in Slots(capacity) : entries'[j] # entries[j] <=> entries[j].key = k
    BY <1>1, <2>1 DEF Tombstone
  <2>3. entries' # entries <=> \E j \in Slots(capacity) : entries[j].key = k
    BY <2>1, <2>2
  <2>. QED
    BY <1>1, <2>3 DEF ContentsInSlots, IsLive
<1>3. Contents' = D!Without(k)
  BY <1>1, LeftOutOfContents
<1>. QED
  BY <1>1, <1>2, <1>3 DEF D!Remove

\* The end of tableSet puts the value under the key, and answers whether it is new.
LEMMA InsertRefines ==
    ASSUME IInv, IInv', Insert
    PROVE  D!Put(key, value)
<1>. DEFINE f == FindEntry(entries, capacity, key)
            e == [key |-> key, value |-> value]
<1>1. /\ Lands(f, entries, capacity, key) /\ f \in Slots(capacity)
      /\ capacity \in Nat \ {0} /\ key \in Key /\ key # NULL
      /\ entries' = [entries EXCEPT ![f] = e] /\ UNCHANGED <<capacity, unmarked>>
      /\ result' = (entries[f].key = NULL)
  BY InsertLands, ValueAssumption DEF Insert
<1>2. /\ entries \in [Slots(capacity) -> Entry] /\ Reached(entries, capacity)
      /\ ContentsInSlots /\ ContentsInSlots'
  BY ReadContents, PTL DEF IInv, TypeOK
<1>. HIDE DEF f
<1>3. /\ \A i \in Slots(capacity) : entries[i].key = key => i = f
      /\ \A i \in Slots(capacity) : i # f => entries'[i] = entries[i]
      /\ entries'[f] = e
  BY <1>1, <1>2, LandingIsUnique
<1>4. entries[f].key = NULL <=> key \notin DOMAIN Contents
  BY <1>1, <1>2, <1>3 DEF ContentsInSlots, IsLive, Lands
<1>5. \A x : x \in DOMAIN Contents' <=> x \in DOMAIN Contents \/ x = key
  BY <1>1, <1>2, <1>3 DEF ContentsInSlots, IsLive, Lands
<1>6. ASSUME NEW x \in DOMAIN Contents'
      PROVE  Contents'[x] = IF x = key THEN value ELSE Contents[x]
  BY <1>1, <1>2, <1>3, <1>6 DEF ContentsInSlots, IsLive, Lands
<1>7. Contents' = [x \in DOMAIN Contents' |-> Contents'[x]]
  BY <1>2 DEF ContentsInSlots
<1>8. DOMAIN Contents' = DOMAIN Contents \cup {key}
  BY <1>5
<1>. QED
  BY <1>1, <1>4, <1>6, <1>7, <1>8 DEF D!Put

\* A collection takes keys out of the weak table one at a time, unmarked ones only.
LEMMA RemoveUnmarkedRefines ==
    ASSUME IInv, IInv', RemoveUnmarked
    PROVE  [D!Next]_D!vars
<1>1. /\ capacity \in Nat /\ index \in Nat /\ unmarked \subseteq Key
      /\ UNCHANGED <<capacity, result>>
  BY DEF IInv, TypeOK, RemoveUnmarked
<1>2. CASE UNCHANGED <<entries, unmarked>>
  BY <1>1, <1>2, SameTable DEF D!vars
<1>3. CASE ~UNCHANGED unmarked
  <2>1. unmarked' = {} /\ UNCHANGED entries
    BY <1>3 DEF RemoveUnmarked
  <2>2. D!Collect
    BY <1>1, <2>1, SameTable DEF D!Collect
  <2>. QED
    BY <2>2 DEF D!Next
<1>4. CASE ~UNCHANGED entries
  <2>. DEFINE k == entries[index].key
  <2>1. /\ UNCHANGED unmarked /\ index < capacity /\ k # NULL /\ k \in unmarked
        /\ entries' = Deleted(k) /\ (count # 0 => Stops(entries, capacity, k) # {})
    BY <1>4, Zenon DEF RemoveUnmarked
  <2>2. /\ LeavesOut(entries', k)
    BY <1>1, <2>1, DeletedLeavesOut DEF IInv, CountIsOccupancy, WeakIsPartial, RemoveUnmarked
  <2>3. k \in DOMAIN Contents
    BY <1>1, <2>1, ReadContents DEF ContentsInSlots, Slots, IsLive
  <2>4. D!Forget(k)
    BY <1>1, <2>1, <2>2, <2>3, LeftOutOfContents DEF D!Forget
  <2>. QED
    BY <1>1, <2>1, <2>4 DEF D!Next
<1>. QED
  BY <1>2, <1>3, <1>4

\* The new array of adjustCapacity holds the same map as the old one.
LEMMA RehashRefines ==
    ASSUME IInv, IInv', FinishRehash
    PROVE  Contents' = Contents
<1>1. /\ pc = "rehash" /\ index = capacity /\ entries' = fresh
      /\ capacity' = GrowCapacity(capacity)
  BY DEF FinishRehash
<1>2. /\ capacity \in Nat /\ entries \in [Slots(capacity) -> Entry]
      /\ fresh \in [Slots(capacity') -> Entry]
      /\ SameEntries(fresh, Slots(capacity'), entries, Slots(capacity))
  BY <1>1 DEF IInv, TypeOK, RehashIsPartial, Slots
<1>3. ContentsInSlots /\ ContentsInSlots'
  BY ReadContents, PTL
<1>4. /\ \A i \in Slots(capacity') : IsLive(entries'[i]) =>
              \E j \in Slots(capacity) : entries[j] = entries'[i]
      /\ \A j \in Slots(capacity) : IsLive(entries[j]) =>
              \E i \in Slots(capacity') : entries'[i] = entries[j]
  BY <1>1, <1>2 DEF SameEntries
<1>5. DOMAIN Contents' = DOMAIN Contents
  BY <1>3, <1>4 DEF ContentsInSlots
<1>6. ASSUME NEW x \in DOMAIN Contents'
      PROVE  Contents'[x] = Contents[x]
  BY <1>3, <1>4, <1>6 DEF ContentsInSlots
<1>7. /\ Contents = [x \in DOMAIN Contents |-> Contents[x]]
      /\ Contents' = [x \in DOMAIN Contents' |-> Contents'[x]]
  BY <1>3 DEF ContentsInSlots
<1>. QED
  BY <1>5, <1>6, <1>7

\* The other steps of tableSet, and the start of a collection, leave the map.
LEMMA QuietStepRefines ==
    ASSUME IInv,
           \/ \E k \in Key, v \in Value : TableSet(k, v)
           \/ BeginRehash \/ Rehash \/ Collect
    PROVE  [D!Next]_D!vars
<1>1. Contents' = Contents
  BY SameTable DEF TableSet, BeginRehash, Rehash, Collect, table
<1>2. CASE Collect
  <2>1. D!Collect
    BY <1>1, <1>2 DEF Collect, D!Collect
  <2>. QED
    BY <2>1 DEF D!Next
<1>3. CASE ~Collect
  BY <1>1, <1>3 DEF TableSet, BeginRehash, Rehash, D!vars
<1>. QED
  BY <1>2, <1>3

\* An empty table stands for the empty map.
LEMMA EmptyContents ==
    ASSUME capacity = 0
    PROVE  Contents = [k \in {} |-> NULL]
BY NoSlots DEF Contents, LiveSlots

\* The table implements the map, with every collection that comes in between:
\* each operation is one step of the dictionary, and rehashing is none.
THEOREM TableImplementsDictionary == Spec => ImplementsDictionary
<1>1. Init => D!Init
  BY EmptyContents DEF Init, D!Init
<1>2. IInv /\ IInv' /\ [Next]_vars => [D!Next]_D!vars
  <2>. SUFFICES ASSUME IInv, IInv', [Next]_vars PROVE [D!Next]_D!vars
    OBVIOUS
  <2>1. CASE UNCHANGED vars
    BY <2>1, SameTable DEF vars, D!vars
  <2>2. ASSUME NEW k \in Key, TableGet(k) \/ TableDelete(k) \/ TableFindString(k)
        PROVE  D!Next
    BY <2>2, GetRefines, DeleteRefines, FindStringRefines DEF D!Next
  <2>3. ASSUME FreeTable
        PROVE  D!Next
    <3>1. Contents' = [k \in {} |-> NULL]
      BY <2>3, NoSlots DEF FreeTable, Contents, LiveSlots
    <3>2. D!Clear
      BY <2>3, <3>1 DEF FreeTable, D!Clear
    <3>. QED
      BY <3>2 DEF D!Next
  <2>4. ASSUME Insert
        PROVE  D!Next
    <3>1. key \in Key /\ value \in Value
      BY <2>4, InsertLands
    <3>. QED
      BY <2>4, <3>1, InsertRefines DEF D!Next
  <2>5. ASSUME FinishRehash
        PROVE  UNCHANGED D!vars
    BY <2>5, RehashRefines DEF FinishRehash, D!vars
  <2>. QED
    BY <2>1, <2>2, <2>3, <2>4, <2>5, RemoveUnmarkedRefines, QuietStepRefines DEF Next
<1>. QED
  BY <1>1, <1>2, AlwaysIInv, PTL DEF Spec, ImplementsDictionary, D!Spec
=============================================================================
