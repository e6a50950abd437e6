------------------------------ MODULE LruCache -------------------------------
(***************************************************************************)
(* What a cache promises: an index in order of use, from which storing     *)
(* drops as many of the least recently used keys as it must and no more.   *)
(***************************************************************************)
EXTENDS CacheData, Sequences

VARIABLES
    entries,    \* the payload of each cached key
    order       \* the cached keys, least recently used first

Init == entries = [k \in Keys |-> NoContent] /\ order = <<>>

\* The order without a key, which is in it at most once.
Without(k) ==
    IF \E i \in DOMAIN order : order[i] = k
    THEN LET i == CHOOSE j \in DOMAIN order : order[j] = k
         IN  SubSeq(order, 1, i - 1) \o SubSeq(order, i + 1, Len(order))
    ELSE order

Touch(k) ==
    /\ entries[k] # NoContent
    /\ order' = Append(Without(k), k)
    /\ UNCHANGED entries

\* What is left of the order when its n oldest keys are dropped.
Rest(k, n) == SubSeq(Without(k), n + 1, Len(Without(k)))

Fits(k, c, n) ==
    Used(entries, {Rest(k, n)[i] : i \in DOMAIN Rest(k, n)}) + Size[c] <= Capacity

Store(k, c) ==
    \E n \in 0..Len(Without(k)) :
        /\ Fits(k, c, n)
        /\ \A m \in 0..n - 1 : ~Fits(k, c, m)
        /\ order' = Append(Rest(k, n), k)
        /\ entries' = [x \in Keys |->
              IF x = k THEN c
              ELSE IF \E i \in DOMAIN Rest(k, n) : Rest(k, n)[i] = x THEN entries[x]
              ELSE NoContent]

Next == \E k \in Keys : Touch(k) \/ \E c \in Contents : Store(k, c)

Spec == Init /\ [][Next]_<<entries, order>>
=============================================================================
