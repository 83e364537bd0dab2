-------------------------------- MODULE ShMap --------------------------------
(***************************************************************************)
(* The hash map of mem/shmem_map.c: chained buckets, entries recycled      *)
(* through a free list, one iterator stored in the map itself.  The map    *)
(* has one user at a time; what makes it hard are calls inside a loop over *)
(* it (sexe_event_handle runs handlers that register and unregister        *)
(* events), the recycled entries, and the expansion, which uses the same   *)
(* iterator.                                                               *)
(*                                                                         *)
(* Lists linked by the next pointers of their entries are sequences; the   *)
(* next pointer of an entry is the one after it in the list it is in.      *)
(***************************************************************************)
EXTENDS Naturals, Sequences, FiniteSets, FiniteSetsExt, SequencesExt

CONSTANTS
  Keys,
  Hash,         \* shmap_hash_num, a function from Keys to numbers
  Kinds,        \* the ways values are set, see Sized and Flags
  INITIAL_MAX

ASSUME MapAssumption ==
  /\ IsFiniteSet(Keys)
  /\ Hash \in [Keys -> Nat]
  /\ INITIAL_MAX \in Nat \ {0}
  /\ \E n \in 1..INITIAL_MAX : INITIAL_MAX = 2^n - 1
  /\ Kinds \subseteq {"str", "astr", "ptr", "any"}

VARIABLES
  ht,           \* the map: array, max, free, count, ent
  it,           \* its iterator: the entry saved as next, and the index
  copies,       \* number of values allocated by the map and not freed
  loop          \* history: the loop over the map

vars == <<ht, it, copies, loop>>

(* Entries are numbered in the order they are allocated; 0 is NULL.        *)
Entries == 1..Cardinality(Keys)

NULL == 0

NoKey == "none"

(* val is the kind of the value.                                           *)
Blank == [key |-> NoKey, val |-> "none", flag |-> {}]

Empty ==
  [array |-> [i \in 0..INITIAL_MAX |-> <<>>], max |-> INITIAL_MAX, free |-> <<>>,
   count |-> 0, ent |-> [e \in Entries |-> Blank]]

(* No loop: kept are the keys that stay in the map while it is looped      *)
(* over, seen how often each was visited, lost whether the loop lost its   *)
(* place.                                                                  *)
Idle == [on |-> FALSE, done |-> FALSE, seen |-> [k \in Keys |-> 0],
         kept |-> {}, lost |-> FALSE]

(* The iterator that shmap_first sets up.  What it has outside a loop is   *)
(* never read.                                                             *)
Start == [next |-> NULL, index |-> 0]

Init ==
  /\ ht = Empty
  /\ it = Start
  /\ copies = 0
  /\ loop = Idle

-----------------------------------------------------------------------------
(* Buckets and chains.                                                     *)

(* hash & max: max is INITIAL_MAX shifted to the left by the expansions,   *)
(* so it masks a part of the hash above the lowest bits.                   *)
Bucket(k, max) ==
  LET shift == max \div INITIAL_MAX
  IN  ((Hash[k] \div shift) % (INITIAL_MAX + 1)) * shift

Chain(t, k) == t.array[Bucket(k, t.max)]

(* find_entry without a value: the entry of the key, or NULL.              *)
Find(t, k) ==
  LET c == Chain(t, k)
      i == SelectInSeq(c, LAMBDA e : t.ent[e].key = k)
  IN  IF i = 0 THEN NULL ELSE c[i]

(* The entries in the order of shmap_first and shmap_next.                 *)
Order(t) == FlattenSeq([i \in 1..(t.max + 1) |-> t.array[i - 1]])

Linked(t) == ToSet(Order(t))

(* The entry find_entry takes for a new key: the first free one, or memory *)
(* that was never used.                                                    *)
Unused(t) == IF t.free # <<>> THEN Head(t.free) ELSE t.count + 1

(* find_entry with a value: a key that is not found gets an entry at the   *)
(* end of its chain.                                                       *)
FindOrAdd(t, k) ==
  IF Find(t, k) # NULL THEN t
  ELSE [t EXCEPT !.array[Bucket(k, t.max)] = Append(@, Unused(t)),
                 !.free = IF @ = <<>> THEN @ ELSE Tail(@),
                 !.ent[Unused(t)] = [Blank EXCEPT !.key = k],
                 !.count = @ + 1]

(* A mutant of Expand for Sound: the buckets are found with the old mask.  *)
ExpandOldMask(t) ==
  LET max == t.max * 2
  IN  [t EXCEPT !.max = max,
                !.array = [i \in 0..max |->
                   Reverse(SelectSeq(Order(t), LAMBDA e : Bucket(t.ent[e].key, t.max) = i))]]

(* _expand_array: every entry is put in front of its new chain.            *)
Expand(t) ==
  LET max == t.max * 2
  IN  [t EXCEPT !.max = max,
                !.array = [i \in 0..max |->
                   Reverse(SelectSeq(Order(t), LAMBDA e : Bucket(t.ent[e].key, max) = i))]]

-----------------------------------------------------------------------------
(* Setting values.                                                         *)

(* shmap_set_str and shmap_set_astr give a size, shmap_set_ptr and         *)
(* shmap_set do not; shmap_set_astr has the map copy the value.            *)
Sized(kind) == kind \in {"str", "astr"}

FLAGS == {"ALLOC", "STRING", "NUMBER", "BINARY"}

(* map_flag of shmap_set_ent: without a size all but SHMAP_ALLOC are set.  *)
Flags(kind) ==
  LET given == CASE kind = "str"  -> {"STRING"}
                 [] kind = "astr" -> {"STRING", "ALLOC"}
                 [] kind = "ptr"  -> {"BINARY"}
                 [] OTHER         -> {}
  IN  IF Sized(kind) THEN given ELSE given \union (FLAGS \ {"ALLOC"})

Allocated(t, e) == IF "ALLOC" \in t.ent[e].flag THEN 1 ELSE 0

(* shmap_set_ent with a value, for the map t and n allocated values: the   *)
(* value is copied, its entry found, the old value freed, and the map      *)
(* expanded if it has more entries than max.                               *)
SetEnt(t, n, k, kind) ==
  LET found == FindOrAdd(t, k)
      e     == Find(found, k)
      new   == [found EXCEPT !.ent[e] = [key |-> k, val |-> kind, flag |-> Flags(kind)]]
  IN  [map |-> IF new.count > new.max THEN Expand(new) ELSE new,
       n   |-> (n + Allocated(new, e)) - Allocated(found, e)]

(* A mutant of UnsetEnt for Refines: the rest of the chain is cut off.     *)
UnsetEntCuts(t, k) ==
  LET e == Find(t, k)
      c == Chain(t, k)
  IN  [t EXCEPT !.array[Bucket(k, t.max)] = SubSeq(@, 1, SelectInSeq(c, LAMBDA f : f = e) - 1),
                !.free = <<e>> \o @,
                !.ent[e] = Blank,
                !.count = @ - 1]

(* shmap_set_ent without a value, for a key that is found: the entry goes  *)
(* to the free list.                                                       *)
UnsetEnt(t, k) ==
  LET e == Find(t, k)
  IN  [t EXCEPT !.array[Bucket(k, t.max)] = Remove(@, e),
                !.free = <<e>> \o @,
                !.ent[e] = Blank,
                !.count = @ - 1]

-----------------------------------------------------------------------------
(* The iterator.                                                           *)

(* The entry after e in the list that it is in.                            *)
After(t, e) ==
  LET lists == {t.array[i] : i \in 0..t.max} \union {t.free}
      l     == CHOOSE s \in lists : Contains(s, e)
      i     == SelectInSeq(l, LAMBDA f : f = e)
  IN  IF i < Len(l) THEN l[i + 1] ELSE NULL

(* A mutant of Ended for TypeOK: the index is moved on once more before it *)
(* is compared with max.                                                   *)
EndedPast(t) == [next |-> NULL, index |-> t.max + 2]

(* What a loop to the end leaves in the iterator.                          *)
Ended(t) == [next |-> NULL, index |-> t.max + 1]

(* A mutant of Advance for VisitedOnce: the index is not moved on.         *)
AdvanceStays(t, i) ==
  LET later == {b \in i.index..t.max : t.array[b] # <<>>}
      e     == IF i.next # NULL THEN i.next
               ELSE IF later # {} THEN Head(t.array[Min(later)]) ELSE NULL
  IN  [this |-> e,
       it   |-> IF e = NULL THEN Ended(t)
                ELSE [next |-> After(t, e),
                      index |-> IF i.next # NULL THEN i.index ELSE Min(later)]]

(* shmap_next: the saved entry, or the first of the next bucket that has   *)
(* one; its successor is saved.                                            *)
Advance(t, i) ==
  LET later == {b \in i.index..t.max : t.array[b] # <<>>}
      e     == IF i.next # NULL THEN i.next
               ELSE IF later # {} THEN Head(t.array[Min(later)]) ELSE NULL
  IN  [this |-> e,
       it   |-> IF e = NULL THEN Ended(t)
                ELSE [next |-> After(t, e),
                      index |-> IF i.next # NULL THEN i.index ELSE Min(later) + 1]]

(* The loop is given the entry e: its key, unless it is in the free list.  *)
Visit(l, e) ==
  IF e = NULL THEN [l EXCEPT !.on = FALSE, !.done = TRUE]
  ELSE IF ht.ent[e].key \notin l.kept THEN l
  ELSE [l EXCEPT !.seen[ht.ent[e].key] = IF @ < 2 THEN @ + 1 ELSE 2]

Present == {k \in Keys : Find(ht, k) # NULL}

(* What the history keeps of a loop when its body unsets the keys gone, or *)
(* makes it lose its place.                                                *)
Disturbed(gone, lost) ==
  IF ~loop.on THEN Idle
  ELSE IF loop.lost \/ lost THEN [Idle EXCEPT !.on = TRUE, !.lost = TRUE]
  ELSE [loop EXCEPT !.kept = @ \ gone,
                    !.seen = [k \in Keys |-> IF k \in gone THEN 0 ELSE @[k]]]

-----------------------------------------------------------------------------
(* Operations.                                                             *)

(* A key set with a value; expanding the map runs its iterator to the end. *)
Set(k, kind) ==
  LET new == SetEnt(ht, copies, k, kind)
  IN  /\ ht' = new.map
      /\ copies' = new.n
      /\ it' = IF loop.on /\ new.map.max # ht.max THEN Ended(ht) ELSE it
      /\ loop' = Disturbed({}, new.map.max # ht.max)

(* A key unset; the value the map allocated for it is freed.               *)
Unset(k) ==
  LET e == Find(ht, k)
  IN  /\ e # NULL
      /\ ht' = UnsetEnt(ht, k)
      /\ copies' = copies - Allocated(ht, e)
      /\ loop' = Disturbed({k}, e = it.next)
      /\ UNCHANGED it

(* One turn of a loop l over the map, whose iterator is i.                 *)
Turn(l, i) ==
  LET step == Advance(ht, i)
  IN  /\ loop' = Visit(l, step.this)
      /\ it' = IF step.this = NULL THEN Start ELSE step.it
      /\ UNCHANGED <<ht, copies>>

(* shmap_first, at the start of a loop.                                    *)
First == ~loop.on /\ Turn([Idle EXCEPT !.on = TRUE, !.kept = Present], Start)

(* shmap_next.                                                             *)
Advances == loop.on /\ Turn(loop, it)

(* shmap_print and shmap_get_ptr_list, in a loop: a loop of their own.     *)
List ==
  /\ loop.on
  /\ it' = Ended(ht)
  /\ loop' = Disturbed({}, TRUE)
  /\ UNCHANGED <<ht, copies>>

(* The map is printed, freed and loaded into a new one (shfs_meta_save,    *)
(* shfs_meta_free, shfs_meta): of the values only those with a size.       *)
Reload ==
  LET load(acc, e) ==
        IF Sized(ht.ent[e].val) THEN SetEnt(acc.map, acc.n, ht.ent[e].key, "astr") ELSE acc
      freed == MapThenSumSet(LAMBDA e : Allocated(ht, e), Linked(ht))
      new   == FoldLeft(load, [map |-> Empty, n |-> copies - freed], Order(ht))
  IN  /\ ~loop.on
      /\ ht' = new.map
      /\ copies' = new.n
      /\ it' = Start
      /\ loop' = Idle

Next ==
  \/ \E k \in Keys : Unset(k) \/ \E kind \in Kinds : Set(k, kind)
  \/ First \/ Advances
  \/ List
  \/ Reload

Spec == Init /\ [][Next]_vars

-----------------------------------------------------------------------------
(* Properties.                                                             *)

(* Types: the map never has more entries, in use and free, than it had     *)
(* keys.                                                                   *)
TypeOK ==
  /\ ht.array \in [0..ht.max -> Seq(Entries)]
  /\ ht.free \in Seq(Entries)
  /\ ht.count \in 0..Cardinality(Keys)
  /\ ht.ent \in [Entries -> [key : Keys \union {NoKey}, val : Kinds \union {"none", "astr"},
                             flag : SUBSET FLAGS]]
  /\ it.next \in Entries \union {NULL} /\ it.index \in 0..(ht.max + 1)

(* Every entry in use is in the chain of its key's bucket, once, and in no *)
(* other list, two entries never have the same key, and the free entries   *)
(* are blank.                                                              *)
Lists ==
  LET all == Order(ht) \o ht.free
  IN  /\ Cardinality(ToSet(all)) = Len(all)
      /\ \A i \in 0..ht.max : \A e \in ToSet(ht.array[i]) :
           ht.ent[e].key \in Keys /\ Bucket(ht.ent[e].key, ht.max) = i
      /\ \A e, f \in Linked(ht) : ht.ent[e].key = ht.ent[f].key => e = f
      /\ \A e \in ToSet(ht.free) : ht.ent[e] = Blank

(* The values that are allocated are those of the entries in use: none is *)
(* leaked or freed twice.                                                  *)
Owned == copies = MapThenSumSet(LAMBDA e : Allocated(ht, e), Linked(ht))

(* The structure of the map survives every sequence of calls, through      *)
(* recycled entries, expansions and loads; count is its number of entries. *)
Sound == Lists /\ Owned /\ ht.count = Len(Order(ht))

Abstract == INSTANCE KeyMap WITH
  Values <- Kinds, Absent <- "none",
  Saved  <- LAMBDA v : IF Sized(v) THEN "astr" ELSE "none",
  map    <- [k \in Keys |-> IF Find(ht, k) = NULL THEN "none" ELSE ht.ent[Find(ht, k)].val]

(* The map is a map from keys to values: shmap_get finds what was last set *)
(* for a key, whatever happened to other keys of its chain, and a loop     *)
(* over the map changes nothing.                                           *)
Refines == Abstract!Spec

(* A loop over the map visits every key that stays in it exactly once,     *)
(* though its body unsets the current key or keys already visited or still *)
(* to come, and sets keys.  It does not if the body expands the map, loops *)
(* over it, or unsets the very entry that is saved as next.                *)
VisitedOnce ==
  ~loop.lost =>
    \A k \in loop.kept : /\ loop.on => loop.seen[k] <= 1
                         /\ loop.done => loop.seen[k] = 1
=============================================================================
