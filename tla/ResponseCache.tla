--------------------------- MODULE ResponseCache ---------------------------
(***************************************************************************)
(* The router's cache of answers that were too long (cache.py): an ordered *)
(* dictionary under one lock, least recently used first.  It is a sequence *)
(* of records with the id and the creation time of an answer; every method *)
(* is one operator.  What an answer says, and which slice of it is read,   *)
(* is left out.                                                            *)
(***************************************************************************)
EXTENDS Integers, Sequences, Functions

CONSTANTS
    MaxEntries,    \* CACHE_MAX_ENTRIES (200)
    Ttl            \* CACHE_TTL_SECONDS (1800)

ASSUME CacheAssumption == MaxEntries \in Nat \ {0} /\ Ttl \in Nat

\* The entries of c that are in s, in their order.
Kept(c, s) ==
    LET kept[n \in 0..Len(c)] ==
            IF n = 0 THEN << >>
            ELSE IF c[n] \in s THEN Append(kept[n - 1], c[n]) ELSE kept[n - 1]
    IN  kept[Len(c)]

Keys(c) == {c[k].id : k \in DOMAIN c}

\* _evict_expired: creation counts, not use.
Evicted(c, t) == Kept(c, {e \in Range(c) : t - e.at <= Ttl})

LastOf(c, n) == SubSeq(c, IF Len(c) > n THEN Len(c) - n + 1 ELSE 1, Len(c))

\* store: the oldest go until there is room for one more.
Stored(c, i, t) == Append(LastOf(Evicted(c, t), MaxEntries - 1), [id |-> i, at |-> t])

\* Mutant: reading an entry does not make it recent.
FetchedInPlace(c, i, t) == Evicted(c, t)

\* get: move_to_end when the entry is there, KeyError when it is not.
Fetched(c, i, t) ==
    LET young == Evicted(c, t)
        entry == {e \in Range(young) : e.id = i}
    IN  Kept(young, Range(young) \ entry) \o Kept(young, entry)
=============================================================================
