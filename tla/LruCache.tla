------------------------------ MODULE LruCache ------------------------------
(***************************************************************************)
(* utility/lru_cache.hpp: lru_cache, which holds the last results of a     *)
(* function.  The function may itself call the cache (a recursive function *)
(* is what one caches), for other keys and, as it may have a state, for    *)
(* the same: so what operator() found out before it called the function    *)
(* may be untrue when it inserts the result.  bimap's right view is the    *)
(* list of the records from the least to the most recently used one.       *)
(***************************************************************************)
EXTENDS Naturals, Sequences

CONSTANTS Keys, Values, capacity_,
          MaxDepth,  \* of the function's calls
          MaxUses    \* of the cache

VARIABLES cache_,    \* the records, in the order of the right view
          running,   \* the keys whose value fn_ is computing, the innermost last
          used,      \* of each key: the time of its last use, 0 for none
          clock,
          latest,    \* of each key: the value that fn_ last gave for it
          got,       \* the last key called and the value returned for it
          doubled    \* a result has come for a key that had come already

vars == <<cache_, running, used, clock, latest, got, doubled>>

CacheConstants == capacity_ \in Nat \ {0}   \* assert(capacity_ != 0)

Record(k, v) == [key |-> k, info |-> v]
Places(k) == {i \in DOMAIN cache_ : cache_[i].key = k}
Erased(s, i) == [j \in 1..(Len(s) - 1) |-> IF j < i THEN s[j] ELSE s[j + 1]]

Init ==
  /\ cache_ = <<>> /\ running = <<>> /\ used = [k \in Keys |-> 0] /\ clock = 0
  /\ latest \in [Keys -> Values] /\ got \in {Record(k, latest[k]) : k \in Keys} /\ doubled = FALSE

Uses(k) == clock < MaxUses /\ clock' = clock + 1 /\ used' = [used EXCEPT ![k] = clock']

\* operator() finds the key: relocate(end, the record)
Hit(k) ==
  \E i \in Places(k) :
    /\ cache_' = Append(Erased(cache_, i), cache_[i])
    /\ got' = cache_[i] /\ Uses(k) /\ UNCHANGED <<running, latest, doubled>>

\* it does not: it calls fn_
Miss(k) ==
  /\ Places(k) = {} /\ Len(running) < MaxDepth
  /\ running' = Append(running, k)
  /\ UNCHANGED <<cache_, used, clock, latest, got, doubled>>

\* insert: the first record goes when the cache is full, and a set has each key once
Purged == IF Len(cache_) = capacity_ THEN Tail(cache_) ELSE cache_
Top == running[Len(running)]
Return(v) ==
  LET k == Top
      there == \E i \in DOMAIN Purged : Purged[i].key = k
  IN  /\ running # <<>>
      /\ cache_' = IF there THEN Purged ELSE Append(Purged, Record(k, v))
      /\ IF there THEN doubled' = TRUE /\ UNCHANGED <<used, clock>> ELSE Uses(k) /\ UNCHANGED doubled
      /\ running' = SubSeq(running, 1, Len(running) - 1)
      /\ latest' = [latest EXCEPT ![k] = v] /\ got' = Record(k, v)

Next == (\E k \in Keys : Hit(k) \/ Miss(k)) \/ \E v \in Values : Return(v)

Spec == Init /\ [][Next]_vars

\* from the most recently used key on
get_keys == [i \in 1..Len(cache_) |-> cache_[Len(cache_) + 1 - i].key]
-----------------------------------------------------------------------------
TypeOK ==
  /\ cache_ \in Seq([key : Keys, info : Values]) /\ running \in Seq(Keys)
  /\ used \in [Keys -> Nat] /\ clock \in Nat /\ latest \in [Keys -> Values]
  /\ got \in [key : Keys, info : Values] /\ doubled \in BOOLEAN

Bounded == Len(cache_) <= capacity_
\* which includes that no key is there twice
InOrder == \A i, j \in 1..Len(cache_) : i < j => used[cache_[i].key] < used[cache_[j].key]
Stamped == /\ \A k \in Keys : used[k] <= clock
           /\ \A i \in 1..Len(cache_) : used[cache_[i].key] > 0
MostRecent ==
  ~doubled => \A k \in Keys :
    used[k] > 0 /\ (\A i \in 1..Len(cache_) : cache_[i].key # k) =>
      Len(cache_) = capacity_ /\ \A i \in 1..Len(cache_) : used[k] < used[cache_[i].key]
Current == ~doubled => /\ \A i \in 1..Len(cache_) : cache_[i].info = latest[cache_[i].key]
                       /\ got.info = latest[got.key]

\* The cache never exceeds its capacity and lists its keys in the order of their last
\* uses, each once.  Unless a key's result came while the same key was computed, it
\* holds the most recently used keys, as many as there are or fit, and what it
\* returns is what the function last gave.
CachesRecent == Bounded /\ InOrder /\ MostRecent /\ Current
=============================================================================
