------------------------------ MODULE CacheData ------------------------------
(* The artifacts of an execution-local cache (simulator/full_flow_cache.py). *)
EXTENDS Naturals, FiniteSetsExt

CONSTANTS
    Keys,           \* cache keys: namespace, object and representation
    Contents,       \* payloads, named by their digest
    Size,           \* the size in bytes of each payload
    Capacity,       \* capacity_bytes
    NoContent

ASSUME CacheAssumption ==
    /\ Size \in [Contents -> Nat \ {0}]
    /\ Capacity \in Nat \ {0}
    /\ NoContent \notin Contents

Entries == [Keys -> Contents \cup {NoContent}]

Cached(entries) == {k \in Keys : entries[k] # NoContent}

\* SUM(size_bytes) over the rows of a set of keys.
Used(entries, S) == MapThenSumSet(LAMBDA k : Size[entries[k]], S)
=============================================================================
