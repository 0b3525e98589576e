-------------------------------- MODULE Cache --------------------------------
(***************************************************************************)
(* One shard of ShardedLRUCache as operators (src/cache/cache.rs).  A      *)
(* shard is its map of entries, their keys in the order of last_access,    *)
(* least recently used first, and its usage.  Each operation runs under    *)
(* the shard's mutex.                                                      *)
(***************************************************************************)
EXTENDS Integers, Sequences, FiniteSets, FiniteSetsExt, Functions

With(f, n, x) == [m \in DOMAIN f \cup {n} |-> IF m = n THEN x ELSE f[m]]
Without(f, S) == Restrict(f, DOMAIN f \ S)

EmptyShard == [entries |-> <<>>, order |-> <<>>, usage |-> 0]

Has(s, k) == k \in DOMAIN s.entries
ValueOf(s, k) == s.entries[k].value

SaturatingSub(a, b) == IF a > b THEN a - b ELSE 0
Charge(entries) == FoldFunction(LAMBDA e, n : e.charge + n, 0, entries)

(* erase, of each of some keys: an entry goes with its charge. *)
EraseAll(s, keys) ==
    [entries |-> Without(s.entries, keys),
     order |-> SelectSeq(s.order, LAMBDA k : k \notin keys),
     usage |-> SaturatingSub(s.usage, Charge(Restrict(s.entries, keys \cap DOMAIN s.entries)))]

Erase(s, k) == EraseAll(s, {k})

(* insert's loop: evict_oldest until the charge fits or nothing is left. *)
MakeRoom(s, charge, capacity) ==
    LET Evicted(n) == EraseAll(s, {s.order[i] : i \in 1 .. n})
    IN  Evicted(Min({n \in 0 .. Len(s.order) :
                        Evicted(n).usage + charge <= capacity \/ n = Len(s.order)}))

Added(s, k, v, charge) ==
    [entries |-> With(s.entries, k, [value |-> v, charge |-> charge]),
     order |-> Append(s.order, k), usage |-> s.usage + charge]

(* Mutant: the charge of the entry that a second insert replaces stays in usage. *)
InsertTwice(s, k, v, charge, capacity) == Added(MakeRoom(s, charge, capacity), k, v, charge)

(* An entry that is larger than the capacity is kept, alone. *)
Insert(s, k, v, charge, capacity) ==
    Added(MakeRoom(Erase(s, k), charge, capacity), k, v, charge)

(* What a lookup that hits does to the shard. *)
Touch(s, k) ==
    [s EXCEPT !.order = Append(SelectSeq(@, LAMBDA j : j # k), k)]

(* Entries that nobody holds a handle of are dropped. *)
Prune(s, held) ==
    LET kept == {k \in DOMAIN s.entries : s.entries[k].value \in held}
    IN  [entries |-> Restrict(s.entries, kept),
         order |-> SelectSeq(s.order, LAMBDA k : k \in kept),
         usage |-> Charge(Restrict(s.entries, kept))]

(***************************************************************************)
(* usage is the sum of the charges, the order has each key once, and usage *)
(* is above the capacity only for a single entry that is larger by itself. *)
(***************************************************************************)
Accounted(s, capacity) ==
    /\ s.usage = Charge(s.entries)
    /\ Range(s.order) = DOMAIN s.entries /\ Len(s.order) = Cardinality(DOMAIN s.entries)
    /\ s.usage > capacity => Len(s.order) = 1
==============================================================================
