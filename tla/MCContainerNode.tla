-------------------------- MODULE MCContainerNode ---------------------------
(* Requests that meet, fill the cache and reuse an id for another input.   *)
EXTENDS ContainerNode, TLC

CONSTANTS o1, o2, get, put1, put2, ask, t1, t2

R(id, kind, object, size) == [id |-> id, kind |-> kind, object |-> object, size |-> size]

MixedRequests ==
    {R(get, "cache_lookup", o1, 1), R(get, "cache_read", o1, 1),
     R(put1, "cache_insert", o1, 1),
     R(put2, "cache_insert", o2, 2), R(put2, "cache_insert", o2, 3),
     R(ask, "semantic", o1, 1), R(t1, "trial", o1, 1), R(t2, "trial", o1, 1)}

ThreadsAndTrials == Permutations(Handlers) \cup Permutations({t1, t2})

Order == [i \in DOMAIN cache |-> cache[i].object]
Contents == [o \in Objects |->
    IF Holds(o) THEN (CHOOSE e \in {cache[i] : i \in DOMAIN cache} : e.object = o).size ELSE 0]

Lru == INSTANCE LruCache WITH
    Keys <- Objects, Contents <- Sizes, Size <- [s \in Sizes |-> s], NoContent <- 0,
    entries <- Contents, order <- Order

\* Between deaths the node's cache is an LRU cache (LruCache): it evicts the
\* least recently used entries, as many as the new one needs and no more.
LruPerEpoch == [][epoch' # epoch \/ Lru!Next]_<<Contents, Order>>
=============================================================================
