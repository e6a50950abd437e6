--------------------------- MODULE RouteCacheProofs ---------------------------
(***************************************************************************)
(* Proofs about RouteCache, for every matrix of trials, cache size and     *)
(* number of concurrent executions, restarts, deaths and failed calls.     *)
(***************************************************************************)
EXTENDS RouteCache, FiniteSetTheorems, SequenceTheorems, TLAPS

-----------------------------------------------------------------------------
(* The order of use of the cache.                                          *)

Elements(s) == {s[i] : i \in DOMAIN s}

\* A sequence of keys without repetition whose elements are S.
Enumerates(s, S) ==
    /\ s \in Seq(Keys)
    /\ \A i \in DOMAIN s : s[i] \in S
    /\ \A x \in S : \E i \in DOMAIN s : s[i] = x
    /\ \A i, j \in DOMAIN s : s[i] = s[j] => i = j

LEMMA DropOne ==
    ASSUME NEW S, NEW s, Enumerates(s, S), NEW n \in DOMAIN s
    PROVE  Enumerates(SubSeq(s, 1, n - 1) \o SubSeq(s, n + 1, Len(s)), S \ {s[n]})
<1> DEFINE a == SubSeq(s, 1, n - 1)
           b == SubSeq(s, n + 1, Len(s))
           r == a \o b
<1>1. s \in Seq(Keys) /\ DOMAIN s = 1 .. Len(s) /\ Len(s) \in Nat /\ n \in 1 .. Len(s)
  BY DEF Enumerates
<1>2. /\ a \in Seq(Keys) /\ Len(a) = n - 1 /\ \A i \in 1 .. n - 1 : a[i] = s[i]
      /\ b \in Seq(Keys) /\ Len(b) = Len(s) - n /\ \A i \in 1 .. Len(s) - n : b[i] = s[n + i]
  BY <1>1
<1> HIDE DEF a, b
<1>3. /\ r \in Seq(Keys) /\ Len(r) = Len(s) - 1 /\ DOMAIN r = 1 .. Len(s) - 1
      /\ \A i \in 1 .. Len(s) - 1 : r[i] = IF i < n THEN s[i] ELSE s[i + 1]
  <2>1. /\ r \in Seq(Keys) /\ Len(r) = Len(a) + Len(b)
        /\ \A i \in 1 .. Len(a) + Len(b) : r[i] = IF i <= Len(a) THEN a[i] ELSE b[i - Len(a)]
    BY <1>2, ConcatProperties
  <2>2. ASSUME NEW i \in 1 .. Len(s) - 1 PROVE r[i] = IF i < n THEN s[i] ELSE s[i + 1]
    <3>1. CASE i < n
      BY <1>1, <1>2, <2>1, <3>1
    <3>2. CASE ~(i < n)
      <4>1. i - Len(a) \in 1 .. Len(s) - n /\ n + (i - Len(a)) = i + 1
        BY <1>1, <1>2, <3>2
      <4>2. i \in 1 .. Len(a) + Len(b) /\ ~(i <= Len(a))
        BY <1>1, <1>2, <3>2
      <4>3. r[i] = b[i - Len(a)]
        BY <2>1, <4>2
      <4>4. b[i - Len(a)] = s[n + (i - Len(a))]
        BY <1>2, <4>1
      <4> QED
        BY <3>2, <4>1, <4>3, <4>4
    <3> QED
      BY <3>1, <3>2
  <2>3. Len(r) = Len(s) - 1
    BY <1>1, <1>2, <2>1
  <2>4. DOMAIN r = 1 .. Len(s) - 1
    BY <2>1, <2>3
  <2> QED
    BY <2>1, <2>2, <2>3, <2>4
<1> HIDE DEF r
<1>4. ASSUME NEW i \in DOMAIN r, NEW j \in DOMAIN r, r[i] = r[j] PROVE i = j
  <2> DEFINE k == IF i < n THEN i ELSE i + 1
             l == IF j < n THEN j ELSE j + 1
  <2>1. k \in 1 .. Len(s) /\ l \in 1 .. Len(s) /\ r[i] = s[k] /\ r[j] = s[l]
    BY <1>1, <1>3
  <2>2. k = l
    BY <1>1, <1>4, <2>1 DEF Enumerates
  <2> QED
    BY <1>1, <1>3, <2>2
<1>5. \A x \in S \ {s[n]} : \E i \in DOMAIN r : r[i] = x
  <2> SUFFICES ASSUME NEW x \in S, x # s[n] PROVE \E i \in DOMAIN r : r[i] = x
    OBVIOUS
  <2>1. PICK j \in 1 .. Len(s) : s[j] = x
    BY <1>1 DEF Enumerates
  <2>2. CASE j < n
    BY <1>1, <1>3, <2>1, <2>2
  <2>3. CASE j > n
    <3>1. j - 1 \in 1 .. Len(s) - 1 /\ ~(j - 1 < n) /\ (j - 1) + 1 = j
      BY <1>1, <2>3
    <3> QED
      BY <1>3, <2>1, <3>1
  <2> QED
    BY <1>1, <2>1, <2>2, <2>3
<1>6. \A i \in DOMAIN r : r[i] \in S \ {s[n]}
  <2> SUFFICES ASSUME NEW i \in 1 .. Len(s) - 1 PROVE r[i] \in S /\ r[i] # s[n]
    BY <1>3
  <2>1. PICK j \in 1 .. Len(s) : j # n /\ r[i] = s[j]
    BY <1>1, <1>3
  <2> QED
    BY <1>1, <2>1 DEF Enumerates
<1> QED
  BY <1>3, <1>4, <1>5, <1>6 DEF Enumerates, r, a, b

\* A key that is touched or stored moves to the end of the order.
LEMMA AppendOne ==
    ASSUME NEW S, NEW s, Enumerates(s, S), NEW k \in Keys \ S
    PROVE  Enumerates(Append(s, k), S \cup {k})
<1> DEFINE r == Append(s, k)
<1>1. s \in Seq(Keys) /\ DOMAIN s = 1 .. Len(s) /\ Len(s) \in Nat
  BY DEF Enumerates
<1>2. /\ r \in Seq(Keys) /\ Len(r) = Len(s) + 1 /\ DOMAIN r = 1 .. Len(s) + 1
      /\ r[Len(s) + 1] = k /\ \A i \in 1 .. Len(s) : r[i] = s[i]
  BY <1>1
<1> HIDE DEF r
<1>3. \A i \in 1 .. Len(s) : s[i] \in S /\ s[i] # k
  BY <1>1 DEF Enumerates
<1>4. \A i, j \in DOMAIN r : r[i] = r[j] => i = j
  BY <1>1, <1>2, <1>3 DEF Enumerates
<1>5. /\ \A i \in DOMAIN r : r[i] \in S \cup {k}
      /\ \A x \in S \cup {k} : \E i \in DOMAIN r : r[i] = x
  <2>1. ASSUME NEW i \in DOMAIN r PROVE r[i] \in S \cup {k}
    <3>1. i \in 1 .. Len(s) \/ i = Len(s) + 1
      BY <1>1, <1>2
    <3> QED
      BY <1>2, <1>3, <3>1
  <2>2. ASSUME NEW x \in S PROVE \E i \in DOMAIN r : r[i] = x
    <3>1. PICK i \in 1 .. Len(s) : s[i] = x
      BY <1>1 DEF Enumerates
    <3>2. i \in 1 .. Len(s) + 1
      BY <1>1
    <3> QED
      BY <1>2, <3>1, <3>2
  <2>3. Len(s) + 1 \in DOMAIN r
    BY <1>1, <1>2
  <2> QED
    BY <1>2, <2>1, <2>2, <2>3
<1> QED
  BY <1>2, <1>4, <1>5 DEF Enumerates, r

\* The oldest keys go first.
LEMMA DropOldest ==
    ASSUME NEW S, NEW s, Enumerates(s, S), NEW n \in 0 .. Len(s)
    PROVE  /\ Enumerates(SubSeq(s, n + 1, Len(s)), Elements(SubSeq(s, n + 1, Len(s))))
           /\ Elements(SubSeq(s, n + 1, Len(s))) \subseteq S
<1> DEFINE r == SubSeq(s, n + 1, Len(s))
<1>1. s \in Seq(Keys) /\ DOMAIN s = 1 .. Len(s) /\ Len(s) \in Nat
  BY DEF Enumerates
<1>2. /\ r \in Seq(Keys) /\ Len(r) = Len(s) - n /\ DOMAIN r = 1 .. Len(s) - n
      /\ \A i \in 1 .. Len(s) - n : r[i] = s[n + i] /\ n + i \in 1 .. Len(s)
  <2>1. n \in Nat /\ n <= Len(s) /\ n + 1 \in Int /\ Len(s) \in Int
    BY <1>1
  <2>2. \A i \in n + 1 .. Len(s) : s[i] \in Keys
    BY <1>1, <2>1
  <2>3. /\ r \in Seq(Keys)
        /\ \A i \in 1 .. Len(s) - (n + 1) + 1 : r[i] = s[(n + 1) + i - 1]
    BY <2>1, <2>2, SubSeqProperties
  <2>4. Len(r) = Len(s) - n
    <3>1. Len(r) = IF n + 1 <= Len(s) THEN Len(s) - (n + 1) + 1 ELSE 0
      BY <2>1, <2>2, SubSeqProperties
    <3> QED
      BY ONLY <2>1, <3>1
  <2> HIDE DEF r
  <2>5. DOMAIN r = 1 .. Len(s) - n
    BY <2>3, <2>4
  <2>6. \A i \in 1 .. Len(s) - n : r[i] = s[n + i] /\ n + i \in 1 .. Len(s)
    <3> SUFFICES ASSUME NEW i \in 1 .. Len(s) - n PROVE r[i] = s[n + i] /\ n + i \in 1 .. Len(s)
      OBVIOUS
    <3>1. i \in 1 .. Len(s) - (n + 1) + 1 /\ (n + 1) + i - 1 = n + i /\ n + i \in 1 .. Len(s)
      BY <1>1, <2>1
    <3> QED
      BY <2>3, <3>1
  <2> QED
    BY <2>3, <2>4, <2>5, <2>6
<1> HIDE DEF r
<1>3. ASSUME NEW i \in DOMAIN r, NEW j \in DOMAIN r, r[i] = r[j] PROVE i = j
  <2>1. n + i = n + j
    BY <1>1, <1>2, <1>3 DEF Enumerates
  <2> QED
    BY <1>1, <1>2, <2>1
<1>4. \A i \in DOMAIN r : r[i] \in S
  BY <1>1, <1>2 DEF Enumerates
<1>5. Enumerates(r, Elements(r)) /\ Elements(r) \subseteq S
  BY <1>2, <1>3, <1>4 DEF Enumerates, Elements
<1> QED
  BY <1>5 DEF r

\* A hit or a put leaves an order of exactly the cached keys, and a put drops
\* other keys only.
Ordered(o, es) == Enumerates(o, Cached(es))

LEMMA OrderedIs ==
    ASSUME NEW es, NEW o
    PROVE  Ordered(o, es) <=> /\ o \in Seq(Keys) /\ {o[i] : i \in DOMAIN o} = Cached(es)
                              /\ \A i, j \in DOMAIN o : o[i] = o[j] => i = j
BY DEF Ordered, Enumerates

LEMMA WithoutOne ==
    ASSUME Ordered(order, entries), NEW k \in Keys
    PROVE  Enumerates(Cache!Without(k), Cached(entries) \ {k})
<1>1. CASE \E i \in DOMAIN order : order[i] = k
  <2> DEFINE n == CHOOSE j \in DOMAIN order : order[j] = k
  <2>1. n \in DOMAIN order /\ order[n] = k
    BY <1>1
  <2> HIDE DEF n
  <2>2. Enumerates(SubSeq(order, 1, n - 1) \o SubSeq(order, n + 1, Len(order)),
                   Cached(entries) \ {k})
    BY <2>1, DropOne DEF Ordered
  <2> QED
    BY <1>1, <2>2 DEF Cache!Without, n
<1>2. CASE ~\E i \in DOMAIN order : order[i] = k
  <2>1. Cached(entries) \ {k} = Cached(entries)
    BY <1>2 DEF Ordered, Enumerates
  <2> QED
    BY <1>2, <2>1 DEF Cache!Without, Ordered
<1> QED
  BY <1>1, <1>2

LEMMA TouchOrders ==
    ASSUME Ordered(order, entries), NEW k \in Keys, Cache!Touch(k)
    PROVE  Ordered(order', entries') /\ entries' = entries
<1>1. entries' = entries /\ order' = Append(Cache!Without(k), k) /\ k \in Cached(entries)
  BY DEF Cache!Touch, Cached
<1>2. Enumerates(order', (Cached(entries) \ {k}) \cup {k})
  <2>1. Enumerates(Cache!Without(k), Cached(entries) \ {k})
    BY WithoutOne
  <2> QED
    BY <1>1, <2>1, AppendOne
<1>3. (Cached(entries) \ {k}) \cup {k} = Cached(entries)
  BY <1>1
<1> QED
  BY <1>1, <1>2, <1>3 DEF Ordered

LEMMA StoreOrders ==
    ASSUME entries \in Entries, Ordered(order, entries), NEW k \in Keys, NEW c \in Contents,
           Cache!Store(k, c)
    PROVE  /\ entries' \in Entries /\ Ordered(order', entries')
           /\ entries'[k] = c
           /\ \A x \in Keys \ {k} : entries'[x] \in {entries[x], NoContent}
<1>1. PICK n \in 0 .. Len(Cache!Without(k)) :
         /\ order' = Append(Cache!Rest(k, n), k)
         /\ entries' = [x \in Keys |->
              IF x = k THEN c
              ELSE IF \E i \in DOMAIN Cache!Rest(k, n) : Cache!Rest(k, n)[i] = x THEN entries[x]
              ELSE NoContent]
  BY DEF Cache!Store
<1> DEFINE r == Cache!Rest(k, n)
           S == Elements(r)
<1>2. Enumerates(r, S) /\ S \subseteq Cached(entries) \ {k}
  <2> DEFINE w == Cache!Without(k)
  <2>1. Enumerates(w, Cached(entries) \ {k}) /\ n \in 0 .. Len(w) /\ r = SubSeq(w, n + 1, Len(w))
    BY WithoutOne DEF Cache!Rest
  <2> HIDE DEF w, r
  <2> QED
    BY <2>1, DropOldest
<1> HIDE DEF r
<1>3. /\ entries' \in Entries /\ entries'[k] = c
      /\ \A x \in Keys \ {k} : entries'[x] = IF x \in S THEN entries[x] ELSE NoContent
  BY <1>1 DEF Entries, Elements, r
<1>4. Cached(entries') = S \cup {k}
  BY <1>2, <1>3, CacheAssumption DEF Cached
<1>5. Enumerates(order', S \cup {k})
  <2>1. k \in Keys \ S
    BY <1>2
  <2> HIDE DEF S
  <2> QED
    BY <1>1, <1>2, <2>1, AppendOne DEF r
<1> QED
  BY <1>3, <1>4, <1>5 DEF Ordered

-----------------------------------------------------------------------------
(* The inductive invariant.                                                *)

ArtifactOf(t, i) == Artifacts[t.workload][i]

\* Artifact i of the trial was obtained in epoch e: by the miss of a first
\* repetition, or by a hit on what the repetition before it put there.
GotBy(use, rec, put, t, i, e) ==
    IF t.repetition = 0
    THEN /\ [key |-> ArtifactOf(t, i), how |-> "miss", epoch |-> e] \in use
         /\ rec[<<ArtifactOf(t, i), e>>] = t
    ELSE /\ [key |-> ArtifactOf(t, i), how |-> "hit", epoch |-> e] \in use
         /\ [key |-> ArtifactOf(t, i), epoch |-> e, trial |-> Predecessor(t)] \in put
         /\ t.repetition = 1

Got(t, i, e) == GotBy(served[t], lineage, puts, t, i, e)

\* How many artifacts an execution has obtained.
Done(t) == IF pc[t] = "infer" THEN at[t] ELSE at[t] - 1

\* The key was evicted in this epoch or later.
Lost(k, e) == \E f \in e .. MaxRestarts : <<k, f>> \in evicted

\* A trial without a row has done nothing.
FreshInv(t) ==
    rows[t] = "none" =>
        /\ pc[t] = "idle" /\ at[t] = 1 /\ identities[t] = {} /\ served[t] = {}
        /\ \A p \in puts : p.trial # t

\* What an execution has established when it is at a stage.
StageInv(t) ==
    /\ lookup[t].epoch <= epoch /\ \A e \in identities[t] : e <= epoch
    /\ pc[t] \in {"read", "fetch", "insert", "record"} => lookup[t].epoch \in identities[t]
    /\ pc[t] \in {"fetch", "insert", "record"} => t.repetition = 0
    /\ pc[t] = "read" =>
          /\ t.repetition = 1
          /\ [key |-> Key(t), epoch |-> lookup[t].epoch, trial |-> Predecessor(t)] \in puts
    /\ pc[t] = "record" =>
          /\ [key |-> Key(t), epoch |-> lookup[t].epoch, trial |-> t] \in puts
          /\ entries[Key(t)] = NoContent => Lost(Key(t), lookup[t].epoch)
    /\ pc[t] = "infer" => at[t] = Len(Artifacts[t.workload])

\* An execution has obtained its artifacts up to the one it is at, in the
\* epochs it keeps.
GotInv(t) ==
    pc[t] # "idle" =>
        /\ \A i \in 1 .. Done(t) : \E e \in identities[t] : Got(t, i, e)
        /\ \A s \in served[t] : s.epoch \in identities[t]

\* A completed trial has obtained all of them, in one epoch.
PairInv(t) ==
    rows[t] = "COMPLETE" => \E e \in Epochs :
        /\ \A s \in served[t] : s.epoch = e
        /\ \A i \in DOMAIN Artifacts[t.workload] : Got(t, i, e)

\* Only a first repetition puts, its own artifacts in their order.
Placed(t, k) ==
    \E i \in DOMAIN Artifacts[t.workload] :
        /\ k = ArtifactOf(t, i)
        /\ pc[t] # "idle" => i < at[t] \/ (i = at[t] /\ pc[t] \in {"record", "infer"})

PutInv(t) == \A p \in puts : p.trial = t => t.repetition = 0 /\ Placed(t, p.key)

Local(t) == FreshInv(t) /\ StageInv(t) /\ GotInv(t) /\ PairInv(t) /\ PutInv(t)

LineageEpochs == \A k \in Keys, e \in Epochs : lineage[<<k, e>>] # NoTrial => e <= epoch

LineageInv == LineageIsTrue /\ LineageHasBytes /\ LineageEpochs

CachedIsPut == \A k \in Keys : entries[k] # NoContent => \E p \in puts : p.key = k

\* As long as repetitions come in order, a predecessor is complete.
OrderInv ==
    ~disordered => \A t \in Trials :
        t.repetition > 0 /\ rows[t] # "none" => rows[Predecessor(t)] = "COMPLETE"

Quiet == failures = 0 /\ epoch = 0 /\ evicted = {} /\ ~disordered

QuietInv ==
    Quiet => \A t \in Trials : t.repetition <= 1 =>
        /\ rows[t] # "FAILED"
        /\ pc[t] = "resolve" => lookup[t].branch = Expected(t)

IInv ==
    /\ TypeOK /\ LineageInv /\ CachedIsPut /\ OrderInv /\ QuietInv
    /\ \A t \in Trials : Local(t)

-----------------------------------------------------------------------------
(* What all steps have in common.                                          *)

\* History grows, lineage rows stay, and what leaves the cache was evicted.
Grow ==
    /\ puts \subseteq puts' /\ evicted \subseteq evicted'
    /\ \A k \in Keys, e \in Epochs :
          lineage[<<k, e>>] # NoTrial => lineage'[<<k, e>>] = lineage[<<k, e>>]
    /\ epoch' \in Epochs /\ epoch <= epoch'
    /\ \A k \in Keys : entries[k] # NoContent /\ entries'[k] = NoContent => <<k, epoch>> \in evicted'

\* The step is not one of trial u.
Same(u) ==
    /\ rows'[u] = rows[u] /\ pc'[u] = pc[u] /\ at'[u] = at[u] /\ lookup'[u] = lookup[u]
    /\ identities'[u] = identities[u] /\ served'[u] = served[u]

\* The facts about a trial that every step uses.
LEMMA TrialAt ==
    ASSUME TypeOK, NEW t \in Trials
    PROVE  /\ t.workload \in Workloads /\ t.repetition \in Nat
           /\ t = [workload |-> t.workload, repetition |-> t.repetition]
           /\ at[t] \in 1 .. Len(Artifacts[t.workload]) /\ Len(Artifacts[t.workload]) \in Nat \ {0}
           /\ DOMAIN Artifacts[t.workload] = 1 .. Len(Artifacts[t.workload])
           /\ \A i \in DOMAIN Artifacts[t.workload] : ArtifactOf(t, i) \in Keys
           /\ Key(t) = ArtifactOf(t, at[t]) /\ Key(t) \in Keys
           /\ lookup[t].epoch \in Epochs /\ lookup[t].branch \in {"none", "hit", "miss"}
           /\ pc[t] # "idle" => rows[t] = "RUNNING"
           /\ t # NoTrial
<1>1. /\ t \in [workload : Workloads, repetition : Nat] /\ t # NoTrial
      /\ Artifacts[t.workload] \in Seq(Keys) /\ Artifacts[t.workload] # <<>>
  BY RouteCacheAssumption
<1>2. at[t] \in DOMAIN Artifacts[t.workload]
  BY DEF TypeOK
<1>3. lookup[t] \in [epoch : Epochs, branch : {"none", "hit", "miss"}] /\ (pc[t] # "idle" => rows[t] = "RUNNING")
  BY DEF TypeOK, Executing
<1> QED
  BY <1>1, <1>2, <1>3 DEF ArtifactOf, Key

\* A trial that takes no part in a step keeps what is true of it.
LEMMA OthersKept ==
    ASSUME IInv, Grow, NEW u \in Trials, Same(u), \A p \in puts' \ puts : p.trial # u
    PROVE  Local(u)'
<1>1. Local(u) /\ TypeOK
  BY DEF IInv
<1>2. FreshInv(u)'
  BY <1>1 DEF Local, FreshInv, Same, Grow
<1>3. Key(u)' = Key(u) /\ Done(u)' = Done(u)
  BY DEF Same, Key, Done
<1>4. PutInv(u)'
  BY <1>1 DEF Local, PutInv, Placed, Same, ArtifactOf
<1>5. ASSUME NEW i \in DOMAIN Artifacts[u.workload], NEW e \in Epochs, Got(u, i, e)
      PROVE  GotBy(served'[u], lineage', puts', u, i, e)
  <2>1. ArtifactOf(u, i) \in Keys /\ u # NoTrial
    BY <1>1, TrialAt
  <2> QED
    BY <1>5, <2>1 DEF Got, GotBy, Grow, Same
<1>6. PairInv(u)'
  BY <1>1, <1>5 DEF Local, PairInv, Same, Got
<1>7. GotInv(u)'
  <2> SUFFICES ASSUME pc[u] # "idle"
               PROVE  /\ \A i \in 1 .. Done(u) : \E e \in identities[u] :
                            GotBy(served'[u], lineage', puts', u, i, e)
                      /\ \A s \in served[u] : s.epoch \in identities[u]
    BY <1>3 DEF GotInv, Same, Got
  <2>1. identities[u] \subseteq Epochs /\ 1 .. Done(u) \subseteq DOMAIN Artifacts[u.workload]
    BY <1>1, TrialAt DEF TypeOK, Done
  <2> QED
    BY <1>1, <1>5, <2>1 DEF Local, GotInv
<1>8. StageInv(u)'
  <2>1. epoch \in Nat /\ epoch' >= epoch /\ lookup[u].epoch \in Nat /\ identities[u] \subseteq Nat
    BY <1>1, TrialAt DEF TypeOK, Grow, Epochs
  <2>2. epoch \in lookup[u].epoch .. MaxRestarts /\ Key(u) \in Keys
    BY <1>1, <2>1, TrialAt DEF TypeOK, Epochs, Local, StageInv
  <2>3. ASSUME entries[Key(u)] = NoContent => Lost(Key(u), lookup[u].epoch),
               entries'[Key(u)] = NoContent
        PROVE  \E f \in lookup[u].epoch .. MaxRestarts : <<Key(u), f>> \in evicted'
    BY <2>2, <2>3 DEF Lost, Grow
  <2>4. pc[u] = "record" /\ entries'[Key(u)] = NoContent =>
           \E f \in lookup[u].epoch .. MaxRestarts : <<Key(u), f>> \in evicted'
    BY <1>1, <2>3 DEF Local, StageInv
  <2>5. epoch' \in Nat
    BY <1>1 DEF Grow, Epochs
  <2>6. lookup'[u].epoch <= epoch' /\ \A e \in identities'[u] : e <= epoch'
    BY <1>1, <2>1, <2>5 DEF Local, StageInv, Same
  <2> QED
    BY <1>1, <1>3, <2>4, <2>6 DEF Local, StageInv, Same, Grow, Lost
<1> QED
  BY <1>2, <1>4, <1>6, <1>7, <1>8 DEF Local

\* Bytes that a lineage row names go by an eviction only.
LEMMA LineageKept ==
    ASSUME IInv, Grow, lineage' = lineage
    PROVE  LineageInv'
<1>1. TypeOK /\ LineageInv
  BY DEF IInv
<1>2. LineageIsTrue'
  BY <1>1 DEF LineageInv, LineageIsTrue, Grow
<1>3. LineageEpochs'
  BY <1>1 DEF LineageInv, LineageEpochs, Grow, TypeOK, Epochs
<1>4. LineageHasBytes'
  <2> SUFFICES ASSUME NEW k \in Keys, NEW e \in Epochs, lineage[<<k, e>>] # NoTrial,
                      entries'[k] = NoContent
               PROVE  \E f \in e .. MaxRestarts : <<k, f>> \in evicted'
    BY DEF LineageHasBytes
  <2>1. CASE entries[k] = NoContent
    BY <1>1, <2>1 DEF LineageInv, LineageHasBytes, Grow
  <2>2. CASE entries[k] # NoContent
    <3>1. epoch \in e .. MaxRestarts
      BY <1>1 DEF LineageInv, LineageEpochs, TypeOK, Epochs
    <3> QED
      BY <2>2, <3>1 DEF Grow
  <2> QED
    BY <2>1, <2>2
<1> QED
  BY <1>2, <1>3, <1>4 DEF LineageInv

\* Rows that change from RUNNING only keep the order of the repetitions.
LEMMA OrderKept ==
    ASSUME IInv, disordered' = disordered,
           \A u \in Trials : /\ rows[u] = "COMPLETE" => rows'[u] = "COMPLETE"
                             /\ rows'[u] # "none" => rows[u] # "none"
    PROVE  OrderInv'
BY RouteCacheAssumption DEF IInv, OrderInv

\* A step that fails no trial and looks nothing up.
LEMMA QuietKept ==
    ASSUME IInv, Quiet' => Quiet,
           \A u \in Trials : /\ rows'[u] = "FAILED" => rows[u] = "FAILED"
                             /\ pc'[u] = "resolve" => pc[u] = "resolve" /\ lookup'[u] = lookup[u]
    PROVE  QuietInv'
BY DEF IInv, QuietInv, Expected

\* A step of one trial.
LEMMA StepKeeps ==
    ASSUME IInv, NEW t \in Trials, TypeOK', Grow, Local(t)', LineageInv', CachedIsPut',
           OrderInv', QuietInv', \A u \in Trials \ {t} : Same(u), \A p \in puts' \ puts : p.trial = t
    PROVE  IInv'
<1>1. \A u \in Trials \ {t} : Local(u)'
  BY OthersKept
<1> QED
  BY <1>1 DEF IInv

\* A step of one trial that leaves the cache's contents and its lineage alone.
LEMMA StillKeeps ==
    ASSUME IInv, NEW t \in Trials, TypeOK', Local(t)', QuietInv', OrderInv',
           \A u \in Trials \ {t} : Same(u),
           UNCHANGED <<entries, epoch, lineage, puts, evicted>>
    PROVE  IInv'
<1>1. Grow
  BY DEF IInv, TypeOK, Grow, Epochs
<1>2. LineageInv'
  BY <1>1, LineageKept
<1>3. CachedIsPut'
  BY DEF IInv, CachedIsPut
<1> QED
  BY <1>1, <1>2, <1>3, StepKeeps

-----------------------------------------------------------------------------
(* The steps of an execution.                                              *)

LEMMA BeginKeeps ==
    ASSUME IInv, NEW t \in Trials, Begin(t)
    PROVE  IInv'
<1>1. /\ rows[t] = "none" /\ rows' = [rows EXCEPT ![t] = "RUNNING"]
      /\ pc' = [pc EXCEPT ![t] = "lookup"]
      /\ disordered' = (disordered \/ (t.repetition > 0 /\ rows[Predecessor(t)] # "COMPLETE"))
      /\ UNCHANGED <<entries, order, epoch, lineage, at, lookup, identities, puts, served, evicted,
                     deaths, failures>>
  BY DEF Begin, Goto, cacheVars
<1>2. TypeOK /\ Local(t)
  BY DEF IInv
<1>3. /\ rows'[t] = "RUNNING" /\ pc'[t] = "lookup"
      /\ \A u \in Trials \ {t} : rows'[u] = rows[u] /\ pc'[u] = pc[u]
  BY <1>1, <1>2 DEF TypeOK
<1>4. TypeOK'
  BY <1>1, <1>2, <1>3 DEF TypeOK, Executing, Stages
<1>5. Local(t)'
  <2>1. at[t] = 1 /\ served[t] = {} /\ identities[t] = {} /\ \A p \in puts : p.trial # t
    BY <1>1, <1>2 DEF Local, FreshInv
  <2>2. FreshInv(t)' /\ PairInv(t)' /\ PutInv(t)'
    BY <1>1, <1>3, <2>1 DEF FreshInv, PairInv, PutInv
  <2>3. StageInv(t)'
    BY <1>1, <1>2, <1>3 DEF Local, StageInv
  <2>4. GotInv(t)'
    BY <1>1, <1>3, <2>1 DEF GotInv, Done
  <2> QED
    BY <2>2, <2>3, <2>4 DEF Local
<1>6. OrderInv'
  <2> SUFFICES ASSUME ~disordered', NEW u \in Trials, u.repetition > 0, rows'[u] # "none"
               PROVE  rows'[Predecessor(u)] = "COMPLETE"
    BY DEF OrderInv, Predecessor
  <2>1. Predecessor(u) \in Trials
    BY RouteCacheAssumption
  <2>2. rows[Predecessor(u)] = "COMPLETE"
    <3>1. CASE u = t
      BY <1>1, <3>1
    <3>2. CASE u # t
      BY <1>1, <1>3, <3>2 DEF IInv, OrderInv
    <3> QED
      BY <3>1, <3>2
  <2> QED
    BY <1>1, <1>3, <2>1, <2>2
<1>7. QuietInv'
  <2>1. Quiet' => Quiet
    BY <1>1, <1>2 DEF Quiet, TypeOK
  <2> QED
    BY <1>1, <1>3, <2>1, QuietKept
<1> QED
  BY <1>1, <1>3, <1>4, <1>5, <1>6, <1>7, StillKeeps DEF Same

\* An artifact of a first repetition is put by that trial only, when it is
\* done with it.
LEMMA OwnPut ==
    ASSUME IInv, NEW t \in Trials, t.repetition = 0, pc[t] # "idle",
           NEW p \in puts, p.key = Key(t)
    PROVE  p.trial = t /\ pc[t] \in {"record", "infer"}
<1> DEFINE u == p.trial
<1>1. TypeOK /\ u \in Trials /\ PutInv(u)
  BY DEF IInv, TypeOK, Local
<1>2. PICK i \in DOMAIN Artifacts[u.workload] :
         /\ p.key = ArtifactOf(u, i)
         /\ pc[u] # "idle" => i < at[u] \/ (i = at[u] /\ pc[u] \in {"record", "infer"})
  BY <1>1 DEF PutInv, Placed
<1>3. u.repetition = 0
  BY <1>1 DEF PutInv
<1>4. /\ t.workload \in Workloads /\ u.workload \in Workloads
      /\ at[t] \in DOMAIN Artifacts[t.workload] /\ Key(t) = ArtifactOf(t, at[t])
      /\ t = [workload |-> t.workload, repetition |-> t.repetition]
      /\ u = [workload |-> u.workload, repetition |-> u.repetition]
      /\ at[t] \in Nat
  BY <1>1, TrialAt
<1> HIDE DEF u
<1>5. u.workload = t.workload /\ i = at[t]
  <2>1. Artifacts[u.workload][i] = Artifacts[t.workload][at[t]]
    BY <1>2, <1>4 DEF ArtifactOf
  <2>2. \A v, w \in Workloads : \A j \in DOMAIN Artifacts[v], k \in DOMAIN Artifacts[w] :
           Artifacts[v][j] = Artifacts[w][k] => v = w /\ j = k
    BY RouteCacheAssumption
  <2> QED
    BY <1>2, <1>4, <2>1, <2>2
<1>6. u = t
  BY <1>3, <1>4, <1>5
<1>7. ~(at[t] < at[t])
  BY <1>4
<1> QED
  BY <1>2, <1>5, <1>6, <1>7 DEF u

\* When nothing went wrong, a second repetition finds what the first put.
LEMMA PairedKey ==
    ASSUME IInv, NEW t \in Trials, t.repetition = 1, pc[t] # "idle", Quiet
    PROVE  lineage[<<Key(t), 0>>] = Predecessor(t) /\ entries[Key(t)] # NoContent
<1> DEFINE u == Predecessor(t)
<1>1. TypeOK /\ rows[t] # "none" /\ Key(t) \in Keys
  BY TrialAt DEF IInv
<1>2. u \in Trials /\ u.repetition = 0 /\ u.workload = t.workload /\ u # NoTrial
  BY RouteCacheAssumption DEF Predecessor
<1>3. rows[u] = "COMPLETE" /\ PairInv(u)
  BY <1>1, <1>2 DEF IInv, OrderInv, Quiet, Local
<1> HIDE DEF u
<1>4. at[t] \in DOMAIN Artifacts[u.workload] /\ ArtifactOf(u, at[t]) = Key(t)
  BY <1>1, <1>2, TrialAt DEF ArtifactOf
<1>5. PICK e \in Epochs : Got(u, at[t], e)
  BY <1>3, <1>4 DEF PairInv
<1>6. lineage[<<Key(t), e>>] = u
  BY <1>2, <1>4, <1>5 DEF Got, GotBy
<1>7. e = 0
  BY <1>1, <1>2, <1>6 DEF IInv, LineageInv, LineageEpochs, Quiet, Epochs
<1>8. entries[Key(t)] # NoContent
  BY <1>1, <1>2, <1>6, <1>7 DEF IInv, LineageInv, LineageHasBytes, Quiet
<1> QED
  BY <1>6, <1>7, <1>8 DEF u

\* An execution that goes on with the same artifact.
LEMMA MovedOn ==
    ASSUME IInv, NEW t \in Trials, UNCHANGED <<lineage, puts, rows, at, served>>,
           pc[t] \in {"lookup", "resolve", "read", "fetch", "insert"},
           pc'[t] \in {"lookup", "resolve", "read", "fetch", "insert"},
           identities[t] \subseteq identities'[t]
    PROVE  FreshInv(t)' /\ PairInv(t)' /\ PutInv(t)' /\ GotInv(t)'
<1>1. TypeOK /\ Local(t) /\ rows[t] = "RUNNING"
  BY TrialAt DEF IInv
<1>2. FreshInv(t)' /\ PairInv(t)'
  BY <1>1 DEF FreshInv, PairInv
<1>3. PutInv(t)'
  BY <1>1 DEF Local, PutInv, Placed, ArtifactOf
<1>4. Done(t)' = Done(t)
  BY DEF Done
<1>5. GotInv(t)'
  BY <1>1, <1>4 DEF Local, GotInv, Got
<1> QED
  BY <1>2, <1>3, <1>5

\* The first half of a lookup.
LEMMA LookupKeeps ==
    ASSUME IInv, NEW t \in Trials, Lookup(t)
    PROVE  IInv'
<1> DEFINE branch == IF entries[Key(t)] # NoContent THEN "hit" ELSE "miss"
           l == [epoch |-> epoch, branch |-> branch]
<1>1. /\ pc[t] = "lookup" /\ pc' = [pc EXCEPT ![t] = "resolve"]
      /\ lookup' = [lookup EXCEPT ![t] = l]
      /\ IF entries[Key(t)] # NoContent THEN Cache!Touch(Key(t)) ELSE UNCHANGED <<entries, order>>
      /\ UNCHANGED <<epoch, lineage, rows, at, identities, puts, served, evicted, disordered,
                     deaths, failures>>
  BY DEF Lookup, Goto, history, cacheVars
<1>2. TypeOK /\ Local(t) /\ Key(t) \in Keys
  BY TrialAt DEF IInv
<1>3. l \in [epoch : Epochs, branch : {"none", "hit", "miss"}] /\ l.epoch = epoch /\ l.branch = branch
  BY <1>2 DEF TypeOK
<1> HIDE DEF l
<1>4. /\ lookup'[t] = l /\ pc'[t] = "resolve"
      /\ \A u \in Trials \ {t} : lookup'[u] = lookup[u] /\ pc'[u] = pc[u]
      /\ lookup' \in [Trials -> [epoch : Epochs, branch : {"none", "hit", "miss"}]]
      /\ pc' \in [Trials -> Stages]
  BY <1>1, <1>2, <1>3 DEF TypeOK, Stages
<1>5. entries' = entries /\ Ordered(order', entries')
  <2>1. Ordered(order, entries)
    BY <1>2, OrderedIs DEF TypeOK
  <2> QED
    BY <1>1, <1>2, <2>1, TouchOrders
<1>6. TypeOK'
  <2>1. /\ order' \in Seq(Keys) /\ {order'[i] : i \in DOMAIN order'} = Cached(entries')
        /\ \A i, j \in DOMAIN order' : order'[i] = order'[j] => i = j
    BY <1>5, OrderedIs
  <2>2. \A u \in Trials : pc'[u] # "idle" => rows'[u] = "RUNNING"
    BY <1>1, <1>2, <1>4 DEF TypeOK, Executing
  <2> QED
    BY <1>1, <1>2, <1>4, <1>5, <2>1, <2>2 DEF TypeOK, Executing
<1>7. Local(t)'
  <2>1. FreshInv(t)' /\ PairInv(t)' /\ PutInv(t)' /\ GotInv(t)'
    BY <1>1, <1>4, MovedOn
  <2>2. StageInv(t)'
    BY <1>1, <1>2, <1>3, <1>4 DEF Local, StageInv, TypeOK, Epochs
  <2> QED
    BY <2>1, <2>2 DEF Local
<1>8. OrderInv'
  BY <1>1, OrderKept
<1>9. QuietInv'
  <2> SUFFICES ASSUME Quiet', NEW u \in Trials, u.repetition <= 1
               PROVE  /\ rows'[u] # "FAILED"
                      /\ pc'[u] = "resolve" => lookup'[u].branch = Expected(u)
    BY DEF QuietInv, Expected
  <2>1. Quiet
    BY <1>1 DEF Quiet
  <2>2. rows'[u] # "FAILED"
    BY <1>1, <2>1 DEF IInv, QuietInv
  <2>3. CASE u # t
    BY <1>1, <1>4, <2>1, <2>2, <2>3 DEF IInv, QuietInv
  <2>4. CASE u = t /\ t.repetition = 0
    <3>1. entries[Key(t)] = NoContent
      BY <1>1, <1>2, <2>4, OwnPut DEF IInv, CachedIsPut
    <3> QED
      BY <1>3, <1>4, <2>2, <2>4, <3>1 DEF Expected
  <2>5. CASE u = t /\ t.repetition # 0
    <3>1. t.repetition = 1
      BY <1>2, <2>5, TrialAt
    <3>2. entries[Key(t)] # NoContent
      BY <1>1, <2>1, <3>1, PairedKey
    <3> QED
      BY <1>3, <1>4, <2>2, <2>5, <3>2 DEF Expected
  <2> QED
    BY <2>3, <2>4, <2>5
<1> QED
  BY <1>1, <1>4, <1>5, <1>6, <1>7, <1>8, <1>9, StillKeeps DEF Same

LEMMA FetchKeeps ==
    ASSUME IInv, NEW t \in Trials, Fetch(t)
    PROVE  IInv'
<1>1. /\ pc[t] = "fetch" /\ pc' = [pc EXCEPT ![t] = "insert"]
      /\ UNCHANGED <<entries, order, epoch, lineage, rows, at, lookup, identities, puts, served,
                     evicted, disordered, deaths, failures>>
  BY DEF Fetch, Goto, history, cacheVars
<1>2. TypeOK /\ Local(t)
  BY DEF IInv
<1>3. pc'[t] = "insert" /\ \A u \in Trials \ {t} : pc'[u] = pc[u]
  BY <1>1, <1>2 DEF TypeOK
<1>4. TypeOK'
  BY <1>1, <1>2, <1>3 DEF TypeOK, Executing, Stages
<1>5. Local(t)'
  <2>1. FreshInv(t)' /\ PairInv(t)' /\ PutInv(t)' /\ GotInv(t)'
    BY <1>1, <1>3, MovedOn
  <2>2. StageInv(t)'
    BY <1>1, <1>2, <1>3 DEF Local, StageInv
  <2> QED
    BY <2>1, <2>2 DEF Local
<1>6. OrderInv'
  BY <1>1, OrderKept
<1>7. QuietInv'
  BY <1>1, <1>3, QuietKept DEF Quiet
<1> QED
  BY <1>1, <1>3, <1>4, <1>5, <1>6, <1>7, StillKeeps DEF Same

\* What was obtained stays obtained.
LEMMA GotStays ==
    ASSUME TypeOK, Grow, NEW t \in Trials, NEW i \in DOMAIN Artifacts[t.workload], NEW e \in Epochs,
           served[t] \subseteq served'[t], Got(t, i, e)
    PROVE  GotBy(served'[t], lineage', puts', t, i, e)
<1>1. ArtifactOf(t, i) \in Keys /\ t # NoTrial
  BY TrialAt
<1> QED
  BY <1>1 DEF Got, GotBy, Grow

\* The execution has its artifact and goes on to the next one or to the model.
LEMMA ObtainedMoves ==
    ASSUME IInv, Grow, NEW t \in Trials, NEW how \in {"hit", "miss"}, pc[t] \in {"read", "record"},
           Obtained(t, how), UNCHANGED <<epoch, puts, rows, lookup, identities>>,
           t.repetition = 0 => how = "miss" /\ lineage'[<<Key(t), lookup[t].epoch>>] = t,
           t.repetition # 0 =>
              /\ how = "hit" /\ t.repetition = 1
              /\ [key |-> Key(t), epoch |-> lookup[t].epoch, trial |-> Predecessor(t)] \in puts
    PROVE  /\ Local(t)' /\ \A u \in Trials \ {t} : Same(u)
           /\ pc' \in [Trials -> Stages] /\ at' \in [Trials -> Nat]
           /\ \A u \in Trials : at'[u] \in DOMAIN Artifacts[u.workload]
           /\ served' \in [Trials -> SUBSET [key : Keys, how : {"hit", "miss"}, epoch : Epochs]]
           /\ pc'[t] \in {"lookup", "infer"}
<1> DEFINE w == t.workload
           e == lookup[t].epoch
           got == [key |-> Key(t), how |-> how, epoch |-> e]
<1>1. TypeOK /\ Local(t)
  BY DEF IInv
<1>2. /\ rows[t] = "RUNNING" /\ Key(t) \in Keys /\ e \in Epochs /\ Key(t) = ArtifactOf(t, at[t])
      /\ at[t] \in 1 .. Len(Artifacts[w]) /\ Len(Artifacts[w]) \in Nat
      /\ DOMAIN Artifacts[w] = 1 .. Len(Artifacts[w])
  BY <1>1, TrialAt
<1>3. /\ served' = [served EXCEPT ![t] = served[t] \cup {got}]
      /\ \/ /\ at[t] < Len(Artifacts[w]) /\ at' = [at EXCEPT ![t] = at[t] + 1]
            /\ pc' = [pc EXCEPT ![t] = "lookup"]
         \/ /\ ~(at[t] < Len(Artifacts[w])) /\ at' = at
            /\ pc' = [pc EXCEPT ![t] = "infer"]
  BY DEF Obtained, Goto
<1>4. /\ got \in [key : Keys, how : {"hit", "miss"}, epoch : Epochs] /\ got.epoch = e
      /\ served'[t] = served[t] \cup {got} /\ \A u \in Trials \ {t} : served'[u] = served[u]
      /\ served' \in [Trials -> SUBSET [key : Keys, how : {"hit", "miss"}, epoch : Epochs]]
  <2>1. got \in [key : Keys, how : {"hit", "miss"}, epoch : Epochs] /\ got.epoch = e
    BY <1>2
  <2> HIDE DEF got
  <2> QED
    BY <1>1, <1>3, <2>1 DEF TypeOK
<1>5. /\ \/ at[t] < Len(Artifacts[w]) /\ at'[t] = at[t] + 1 /\ pc'[t] = "lookup"
         \/ at[t] = Len(Artifacts[w]) /\ at'[t] = at[t] /\ pc'[t] = "infer"
      /\ \A u \in Trials \ {t} : at'[u] = at[u] /\ pc'[u] = pc[u]
      /\ pc' \in [Trials -> Stages] /\ at' \in [Trials -> Nat]
  <2>1. pc \in [Trials -> Stages] /\ at \in [Trials -> Nat] /\ at[t] + 1 \in Nat
    BY <1>1, <1>2 DEF TypeOK
  <2>2. CASE at[t] < Len(Artifacts[w])
    BY <1>2, <1>3, <2>1, <2>2 DEF Stages
  <2>3. CASE ~(at[t] < Len(Artifacts[w]))
    BY <1>2, <1>3, <2>1, <2>3 DEF Stages
  <2> QED
    BY <2>2, <2>3
<1>6. ASSUME NEW u \in Trials PROVE at'[u] \in DOMAIN Artifacts[u.workload]
  <2>1. CASE u = t
    BY <1>2, <1>5, <2>1
  <2>2. CASE u # t
    BY <1>1, <1>5, <2>2 DEF TypeOK
  <2> QED
    BY <2>1, <2>2
<1>7. \A u \in Trials \ {t} : Same(u)
  BY <1>4, <1>5 DEF Same
<1>8. FreshInv(t)' /\ PairInv(t)'
  BY <1>2 DEF FreshInv, PairInv
<1>9. StageInv(t)'
  BY <1>1, <1>5 DEF Local, StageInv
<1>10. PutInv(t)'
  <2> SUFFICES ASSUME NEW p \in puts, p.trial = t
               PROVE  t.repetition = 0 /\ Placed(t, p.key)'
    BY DEF PutInv, Placed, ArtifactOf
  <2>1. t.repetition = 0 /\ Placed(t, p.key)
    BY <1>1 DEF Local, PutInv
  <2>2. PICK i \in DOMAIN Artifacts[w] : p.key = ArtifactOf(t, i) /\ i \in Nat /\ i <= at[t]
    BY <1>2, <2>1 DEF Placed
  <2>3. i < at'[t] \/ (i = at'[t] /\ pc'[t] \in {"record", "infer"})
    BY <1>2, <1>5, <2>2
  <2> QED
    BY <2>1, <2>2, <2>3 DEF Placed, ArtifactOf
<1>11. GotInv(t)'
  <2>1. Done(t)' = at[t] /\ Done(t) = at[t] - 1
    BY <1>2, <1>5 DEF Done
  <2>2. e \in identities[t] /\ identities[t] \subseteq Epochs
    BY <1>1 DEF Local, StageInv, TypeOK
  <2>3. GotBy(served'[t], lineage', puts', t, at[t], e)
    <3>1. got \in served'[t]
      BY <1>4
    <3> QED
      BY <1>2, <3>1 DEF GotBy
  <2>4. ASSUME NEW i \in 1 .. at[t] 
        PROVE  \E x \in identities[t] : GotBy(served'[t], lineage', puts', t, i, x)
    <3>1. CASE i = at[t]
      BY <2>2, <2>3, <3>1
    <3>2. CASE i # at[t]
      <4>1. i \in 1 .. Done(t) /\ i \in DOMAIN Artifacts[w]
        BY <1>2, <2>1, <3>2
      <4>2. PICK x \in identities[t] : Got(t, i, x)
        BY <1>1, <4>1 DEF Local, GotInv
      <4> QED
        BY <1>1, <1>4, <2>2, <4>1, <4>2, GotStays
    <3> QED
      BY <3>1, <3>2
  <2>5. \A s \in served'[t] : s.epoch \in identities[t]
    BY <1>1, <1>4, <2>2 DEF Local, GotInv
  <2> QED
    BY <2>1, <2>4, <2>5 DEF GotInv, Got
<1> QED
  BY <1>4, <1>5, <1>6, <1>7, <1>8, <1>9, <1>10, <1>11 DEF Local

LEMMA ReadKeeps ==
    ASSUME IInv, NEW t \in Trials, Read(t)
    PROVE  IInv'
<1>1. /\ pc[t] = "read" /\ Obtained(t, "hit")
      /\ UNCHANGED <<entries, order, epoch, lineage, rows, lookup, identities, puts, evicted,
                     disordered, deaths, failures>>
  BY DEF Read, cacheVars
<1>2. TypeOK /\ Local(t)
  BY DEF IInv
<1>3. Grow
  BY <1>1, <1>2 DEF Grow, TypeOK, Epochs
<1>4. /\ t.repetition = 1
      /\ [key |-> Key(t), epoch |-> lookup[t].epoch, trial |-> Predecessor(t)] \in puts
  BY <1>1, <1>2 DEF Local, StageInv
<1>5. /\ Local(t)' /\ \A u \in Trials \ {t} : Same(u)
      /\ pc' \in [Trials -> Stages] /\ at' \in [Trials -> Nat]
      /\ \A u \in Trials : at'[u] \in DOMAIN Artifacts[u.workload]
      /\ served' \in [Trials -> SUBSET [key : Keys, how : {"hit", "miss"}, epoch : Epochs]]
      /\ pc'[t] \in {"lookup", "infer"}
  <2>1. /\ pc[t] \in {"read", "record"} /\ UNCHANGED <<epoch, puts, rows, lookup, identities>>
        /\ t.repetition # 0
    BY <1>1, <1>4
  <2> QED
    BY <1>1, <1>3, <1>4, <2>1, ObtainedMoves
<1>6. TypeOK'
  <2>1. \A u \in Trials : pc'[u] # "idle" => rows[u] = "RUNNING"
    BY <1>1, <1>2, <1>5 DEF TypeOK, Executing, Same
  <2> QED
    BY <1>1, <1>2, <1>5, <2>1 DEF TypeOK, Executing
<1>7. OrderInv' /\ QuietInv'
  BY <1>1, <1>5, OrderKept, QuietKept DEF Quiet, Same
<1> QED
  BY <1>1, <1>5, <1>6, <1>7, StillKeeps

\* The execution of a trial ends.
LEMMA EndMoves ==
    ASSUME IInv, NEW t \in Trials, NEW state \in {"COMPLETE", "FAILED"}, pc[t] # "idle", End(t, state)
    PROVE  /\ rows'[t] = state /\ pc'[t] = "idle" /\ identities'[t] = {} /\ lookup'[t].epoch = 0
           /\ rows[t] = "RUNNING"
           /\ \A u \in Trials \ {t} : /\ rows'[u] = rows[u] /\ pc'[u] = pc[u] /\ at'[u] = at[u]
                                      /\ lookup'[u] = lookup[u] /\ identities'[u] = identities[u]
           /\ rows' \in [Trials -> {"none", "RUNNING", "COMPLETE", "FAILED"}]
           /\ pc' \in [Trials -> Stages] /\ at' \in [Trials -> Nat]
           /\ \A u \in Trials : at'[u] \in DOMAIN Artifacts[u.workload]
           /\ \A u \in Trials : pc'[u] # "idle" => rows'[u] = "RUNNING"
           /\ lookup' \in [Trials -> [epoch : Epochs, branch : {"none", "hit", "miss"}]]
           /\ identities' \in [Trials -> SUBSET Epochs]
<1>1. /\ rows' = [rows EXCEPT ![t] = state] /\ pc' = [pc EXCEPT ![t] = "idle"]
      /\ at' = [at EXCEPT ![t] = 1] /\ lookup' = [lookup EXCEPT ![t] = NoLookup]
      /\ identities' = [identities EXCEPT ![t] = {}]
  BY DEF End, Goto
<1>2. TypeOK /\ rows[t] = "RUNNING" /\ 1 \in DOMAIN Artifacts[t.workload]
  BY TrialAt DEF IInv
<1>3. NoLookup \in [epoch : Epochs, branch : {"none", "hit", "miss"}] /\ NoLookup.epoch = 0
  BY RouteCacheAssumption DEF NoLookup, Epochs
<1>4. /\ rows'[t] = state /\ pc'[t] = "idle" /\ identities'[t] = {} /\ lookup'[t] = NoLookup
      /\ at'[t] = 1
      /\ \A u \in Trials \ {t} : /\ rows'[u] = rows[u] /\ pc'[u] = pc[u] /\ at'[u] = at[u]
                                 /\ lookup'[u] = lookup[u] /\ identities'[u] = identities[u]
  BY <1>1, <1>2 DEF TypeOK
<1>5. /\ rows' \in [Trials -> {"none", "RUNNING", "COMPLETE", "FAILED"}]
      /\ pc' \in [Trials -> Stages] /\ at' \in [Trials -> Nat]
      /\ lookup' \in [Trials -> [epoch : Epochs, branch : {"none", "hit", "miss"}]]
      /\ identities' \in [Trials -> SUBSET Epochs]
  BY <1>1, <1>2, <1>3 DEF TypeOK, Stages
<1>6. \A u \in Trials : at'[u] \in DOMAIN Artifacts[u.workload]
  BY <1>2, <1>4 DEF TypeOK
<1>7. \A u \in Trials : pc'[u] # "idle" => rows'[u] = "RUNNING"
  BY <1>2, <1>4 DEF TypeOK, Executing
<1> QED
  BY <1>2, <1>3, <1>4, <1>5, <1>6, <1>7

\* The execution fails, after a put at most.
LEMMA FailKeeps ==
    ASSUME IInv, Grow, NEW t \in Trials, pc[t] # "idle", Fail(t),
           UNCHANGED <<epoch, lineage, served, disordered, deaths>>,
           failures' \in 0 .. MaxFailures,
           entries' \in Entries, Ordered(order', entries'),
           puts' \subseteq [key : Keys, epoch : Epochs, trial : Trials],
           evicted' \subseteq Keys \X Epochs, CachedIsPut',
           \A p \in puts' \ puts : p.trial = t /\ t.repetition = 0 /\ p.key = Key(t),
           Quiet' => Quiet, Quiet' => t.repetition > 1
    PROVE  IInv'
<1>1. /\ rows'[t] = "FAILED" /\ pc'[t] = "idle" /\ identities'[t] = {} /\ lookup'[t].epoch = 0
      /\ rows[t] = "RUNNING"
      /\ \A u \in Trials \ {t} : /\ rows'[u] = rows[u] /\ pc'[u] = pc[u] /\ at'[u] = at[u]
                                 /\ lookup'[u] = lookup[u] /\ identities'[u] = identities[u]
      /\ rows' \in [Trials -> {"none", "RUNNING", "COMPLETE", "FAILED"}]
      /\ pc' \in [Trials -> Stages] /\ at' \in [Trials -> Nat]
      /\ \A u \in Trials : at'[u] \in DOMAIN Artifacts[u.workload]
      /\ \A u \in Trials : pc'[u] # "idle" => rows'[u] = "RUNNING"
      /\ lookup' \in [Trials -> [epoch : Epochs, branch : {"none", "hit", "miss"}]]
      /\ identities' \in [Trials -> SUBSET Epochs]
  BY EndMoves DEF Fail
<1>2. TypeOK /\ Local(t)
  BY DEF IInv
<1>3. TypeOK'
  <2>1. /\ order' \in Seq(Keys) /\ {order'[i] : i \in DOMAIN order'} = Cached(entries')
        /\ \A i, j \in DOMAIN order' : order'[i] = order'[j] => i = j
    BY OrderedIs
  <2>2. /\ epoch' \in Epochs /\ lineage' \in [Keys \X Epochs -> Trials \cup {NoTrial}]
        /\ served' \in [Trials -> SUBSET [key : Keys, how : {"hit", "miss"}, epoch : Epochs]]
        /\ disordered' \in BOOLEAN /\ deaths' \in 0 .. MaxDeaths
    BY <1>2 DEF TypeOK
  <2> QED
    BY <1>1, <2>1, <2>2 DEF TypeOK, Executing
<1>4. \A u \in Trials \ {t} : Same(u)
  BY <1>1 DEF Same
<1>5. Local(t)'
  <2>1. FreshInv(t)' /\ PairInv(t)' /\ GotInv(t)'
    BY <1>1 DEF FreshInv, PairInv, GotInv
  <2>2. StageInv(t)'
    BY <1>1, <1>2 DEF StageInv, TypeOK, Epochs
  <2>3. ASSUME NEW p \in puts', p.trial = t
        PROVE  t.repetition = 0 /\ \E i \in DOMAIN Artifacts[t.workload] : p.key = ArtifactOf(t, i)
    <3>1. CASE p \in puts
      BY <1>2, <2>3, <3>1 DEF Local, PutInv, Placed
    <3>2. CASE p \notin puts
      BY <1>2, <2>3, <3>2, TrialAt
    <3> QED
      BY <3>1, <3>2
  <2>4. PutInv(t)'
    BY <1>1, <2>3 DEF PutInv, Placed, ArtifactOf
  <2> QED
    BY <2>1, <2>2, <2>4 DEF Local
<1>6. LineageInv'
  BY LineageKept
<1>7. OrderInv'
  BY <1>1, OrderKept
<1>8. QuietInv'
  <2> SUFFICES ASSUME Quiet', NEW u \in Trials, u.repetition <= 1
               PROVE  /\ rows'[u] # "FAILED"
                      /\ pc'[u] = "resolve" => lookup'[u].branch = Expected(u)
    BY DEF QuietInv, Expected
  <2>1. u # t
    BY <1>2, TrialAt
  <2> QED
    BY <1>1, <2>1 DEF IInv, QuietInv
<1> QED
  BY <1>3, <1>4, <1>5, <1>6, <1>7, <1>8, StepKeeps

\* The execution fails and leaves the cache alone.
LEMMA FailStillKeeps ==
    ASSUME IInv, NEW t \in Trials, pc[t] # "idle", Fail(t),
           UNCHANGED <<entries, order, epoch, lineage, puts, served, evicted, disordered, deaths>>,
           failures' \in 0 .. MaxFailures, failures <= failures', Quiet' => t.repetition > 1
    PROVE  IInv'
<1>1. TypeOK
  BY DEF IInv
<1>2. Grow
  BY <1>1 DEF Grow, TypeOK, Epochs
<1>3. /\ entries' \in Entries /\ puts' \subseteq [key : Keys, epoch : Epochs, trial : Trials]
      /\ evicted' \subseteq Keys \X Epochs /\ CachedIsPut' /\ puts' \ puts = {}
  BY DEF IInv, TypeOK, CachedIsPut
<1>4. Ordered(order', entries')
  BY <1>1, OrderedIs DEF TypeOK
<1>5. Quiet' => Quiet
  BY <1>1 DEF Quiet, TypeOK
<1> QED
  BY <1>2, <1>3, <1>4, <1>5, FailKeeps

\* The second half of a lookup.
LEMMA ResolveKeeps ==
    ASSUME IInv, NEW t \in Trials, Resolve(t)
    PROVE  IInv'
<1> DEFINE e == lookup[t].epoch
           row == lineage[<<Key(t), e>>]
           accepts == epoch = e /\ Accepted(t, row)
<1>1. /\ pc[t] = "resolve"
      /\ UNCHANGED <<entries, order, epoch, lineage, puts, served, evicted, disordered, deaths, failures>>
  BY DEF Resolve, history, cacheVars
<1>2. /\ TypeOK /\ Local(t) /\ Key(t) \in Keys /\ e \in Epochs /\ t.repetition \in Nat
      /\ row \in Trials \cup {NoTrial} /\ LineageIsTrue /\ t # NoTrial
  BY TrialAt DEF IInv, TypeOK, LineageInv
<1>3. row # NoTrial => [key |-> Key(t), epoch |-> e, trial |-> row] \in puts /\ row.repetition = 0
  BY <1>2 DEF LineageIsTrue
<1>4. CASE accepts
  <2> DEFINE stage == IF lookup[t].branch = "hit" THEN "read" ELSE "fetch"
  <2>1. /\ pc' = [pc EXCEPT ![t] = stage] /\ UNCHANGED <<rows, at, lookup>>
        /\ identities' = [identities EXCEPT ![t] = identities[t] \cup {e}]
    BY <1>4 DEF Resolve, Goto
  <2>2. stage \in Stages /\ stage \in {"read", "fetch"}
    BY DEF Stages
  <2>3. /\ stage = "fetch" => t.repetition = 0
        /\ stage = "read" =>
              /\ t.repetition = 1
              /\ [key |-> Key(t), epoch |-> e, trial |-> Predecessor(t)] \in puts
    <3>1. CASE lookup[t].branch = "hit"
      <4>1. row = Predecessor(t) /\ row # NoTrial /\ t.repetition # 0
        BY <1>4, <3>1 DEF Accepted, Expected
      <4>2. t.repetition = 1
        <5>1. Predecessor(t).repetition = t.repetition - 1
          BY DEF Predecessor
        <5> QED
          BY <1>2, <1>3, <4>1, <5>1
      <4> QED
        BY <1>3, <3>1, <4>1, <4>2
    <3>2. CASE lookup[t].branch # "hit"
      BY <1>4, <3>2 DEF Accepted, Expected
    <3> QED
      BY <3>1, <3>2
  <2> HIDE DEF stage
  <2>4. /\ pc'[t] = stage /\ identities'[t] = identities[t] \cup {e}
        /\ \A u \in Trials \ {t} : pc'[u] = pc[u] /\ identities'[u] = identities[u]
        /\ pc' \in [Trials -> Stages] /\ identities' \in [Trials -> SUBSET Epochs]
    BY <1>2, <2>1, <2>2 DEF TypeOK
  <2>5. TypeOK'
    <3>1. \A u \in Trials : pc'[u] # "idle" => rows[u] = "RUNNING"
      BY <1>1, <1>2, <2>4 DEF TypeOK, Executing
    <3> QED
      BY <1>1, <1>2, <2>1, <2>4, <3>1 DEF TypeOK, Executing
  <2>6. Local(t)'
    <3>1. FreshInv(t)' /\ PairInv(t)' /\ PutInv(t)' /\ GotInv(t)'
      BY <1>1, <2>1, <2>2, <2>4, MovedOn
    <3>2. Key(t)' = Key(t)
      BY <2>1 DEF Key
    <3>3. StageInv(t)'
      BY <1>1, <1>2, <2>1, <2>2, <2>3, <2>4, <3>2 DEF Local, StageInv
    <3> QED
      BY <3>1, <3>3 DEF Local
  <2>7. OrderInv' /\ QuietInv'
    BY <1>1, <2>1, <2>2, <2>4, OrderKept, QuietKept DEF Quiet
  <2> QED
    BY <1>1, <2>1, <2>4, <2>5, <2>6, <2>7, StillKeeps DEF Same
<1>5. CASE ~accepts
  <2>1. Fail(t)
    BY <1>5 DEF Resolve
  <2>2. Quiet' => t.repetition > 1
    <3> SUFFICES ASSUME Quiet, t.repetition <= 1 PROVE FALSE
      BY <1>1, <1>2 DEF Quiet
    <3>1. epoch = 0 /\ e = 0 /\ lookup[t].branch = Expected(t)
      BY <1>1, <1>2 DEF Quiet, Local, StageInv, Epochs, IInv, QuietInv
    <3>2. CASE t.repetition = 0
      <4>1. row = NoTrial
        BY <1>1, <1>3, <3>2, OwnPut
      <4> QED
        BY <1>5, <3>1, <3>2, <4>1 DEF Accepted, Expected
    <3>3. CASE t.repetition = 1
      <4>1. row = Predecessor(t) /\ Predecessor(t) # NoTrial
        BY <1>1, <3>1, <3>3, PairedKey, RouteCacheAssumption
      <4> QED
        BY <1>5, <3>1, <3>3, <4>1 DEF Accepted, Expected
    <3> QED
      BY <1>2, <3>2, <3>3
  <2>3. failures' \in 0 .. MaxFailures /\ failures <= failures'
    BY <1>1, <1>2 DEF TypeOK
  <2> QED
    BY <1>1, <2>1, <2>2, <2>3, FailStillKeeps
<1> QED
  BY <1>4, <1>5

\* The answer is scored: the trial has seen one cache identity, or it fails.
LEMMA CompleteKeeps ==
    ASSUME IInv, NEW t \in Trials, Complete(t)
    PROVE  IInv'
<1>1. /\ pc[t] = "infer" /\ End(t, IF Cardinality(identities[t]) = 1 THEN "COMPLETE" ELSE "FAILED")
      /\ UNCHANGED <<entries, order, epoch, lineage, puts, served, evicted, disordered, deaths, failures>>
  BY DEF Complete, history, cacheVars
<1>2. /\ TypeOK /\ Local(t) /\ rows[t] = "RUNNING" /\ identities[t] \subseteq Epochs
      /\ DOMAIN Artifacts[t.workload] = 1 .. Len(Artifacts[t.workload])
      /\ Len(Artifacts[t.workload]) \in Nat \ {0}
  BY <1>1, TrialAt DEF IInv, TypeOK
<1>3. /\ \A i \in DOMAIN Artifacts[t.workload] : \E e \in identities[t] : Got(t, i, e)
      /\ \A s \in served[t] : s.epoch \in identities[t]
  BY <1>1, <1>2 DEF Local, StageInv, GotInv, Done
<1>4. CASE Cardinality(identities[t]) = 1
  <2>1. End(t, "COMPLETE") /\ pc[t] # "idle"
    BY <1>1, <1>4
  <2>2. /\ rows'[t] = "COMPLETE" /\ pc'[t] = "idle" /\ identities'[t] = {} /\ lookup'[t].epoch = 0
        /\ \A u \in Trials \ {t} : /\ rows'[u] = rows[u] /\ pc'[u] = pc[u] /\ at'[u] = at[u]
                                   /\ lookup'[u] = lookup[u] /\ identities'[u] = identities[u]
        /\ rows' \in [Trials -> {"none", "RUNNING", "COMPLETE", "FAILED"}]
        /\ pc' \in [Trials -> Stages] /\ at' \in [Trials -> Nat]
        /\ \A u \in Trials : at'[u] \in DOMAIN Artifacts[u.workload]
        /\ \A u \in Trials : pc'[u] # "idle" => rows'[u] = "RUNNING"
        /\ lookup' \in [Trials -> [epoch : Epochs, branch : {"none", "hit", "miss"}]]
        /\ identities' \in [Trials -> SUBSET Epochs]
    BY <2>1, EndMoves
  <2>3. PICK e \in Epochs : identities[t] = {e}
    <3>1. IsFiniteSet(identities[t])
      <4>1. IsFiniteSet(Epochs)
        BY FS_Interval, RouteCacheAssumption DEF Epochs
      <4> QED
        BY <1>2, <4>1, FS_Subset
    <3> QED
      BY <1>2, <1>4, <3>1, FS_Singleton
  <2>4. TypeOK'
    BY <1>1, <1>2, <2>2 DEF TypeOK, Executing
  <2>5. Local(t)'
    <3>1. FreshInv(t)' /\ GotInv(t)'
      BY <2>2 DEF FreshInv, GotInv
    <3>2. StageInv(t)'
      BY <1>1, <1>2, <2>2 DEF StageInv, TypeOK, Epochs
    <3>3. PutInv(t)'
      BY <1>1, <1>2, <2>2 DEF Local, PutInv, Placed, ArtifactOf
    <3>4. PairInv(t)'
      BY <1>1, <1>3, <2>3 DEF PairInv, Got
    <3> QED
      BY <3>1, <3>2, <3>3, <3>4 DEF Local
  <2>6. OrderInv' /\ QuietInv'
    BY <1>1, <1>2, <2>2, OrderKept, QuietKept DEF Quiet
  <2> QED
    BY <1>1, <2>2, <2>4, <2>5, <2>6, StillKeeps DEF Same
<1>5. CASE Cardinality(identities[t]) # 1
  <2>1. Fail(t) /\ pc[t] # "idle"
    BY <1>1, <1>5 DEF Fail
  <2>2. ~Quiet
    <3> SUFFICES ASSUME Quiet PROVE FALSE
      OBVIOUS
    <3>1. \A e \in identities[t] : e = 0
      BY <1>2 DEF Quiet, Local, StageInv, Epochs
    <3>2. identities[t] # {}
      <4>1. 1 \in DOMAIN Artifacts[t.workload]
        BY <1>2
      <4> QED
        BY <1>3, <4>1
    <3>3. identities[t] = {0}
      BY <3>1, <3>2
    <3> QED
      BY <1>5, <3>3, FS_Singleton
  <2>3. failures' \in 0 .. MaxFailures /\ failures <= failures' /\ ~Quiet'
    BY <1>1, <1>2, <2>2 DEF TypeOK, Quiet
  <2> QED
    BY <1>1, <2>1, <2>3, FailStillKeeps
<1> QED
  BY <1>4, <1>5

\* The cache stores an artifact of a first repetition.
LEMMA PutGrows ==
    ASSUME IInv, NEW t \in Trials, pc[t] = "insert", Put(t), UNCHANGED <<epoch, lineage>>
    PROVE  /\ Grow /\ entries' \in Entries /\ Ordered(order', entries')
           /\ entries'[Key(t)] # NoContent /\ CachedIsPut'
           /\ puts' = puts \cup {[key |-> Key(t), epoch |-> epoch, trial |-> t]}
           /\ puts' \subseteq [key : Keys, epoch : Epochs, trial : Trials]
           /\ evicted' \subseteq Keys \X Epochs
<1> DEFINE put == [key |-> Key(t), epoch |-> epoch, trial |-> t]
<1>1. /\ Cache!Store(Key(t), Payload) /\ puts' = puts \cup {put}
      /\ evicted' = evicted \cup
            {<<k, epoch>> : k \in {x \in Keys : entries[x] # NoContent /\ entries'[x] = NoContent}}
  BY DEF Put
<1>2. TypeOK /\ Key(t) \in Keys
  BY TrialAt DEF IInv
<1>3. /\ entries' \in Entries /\ Ordered(order', entries') /\ entries'[Key(t)] = Payload
      /\ \A x \in Keys \ {Key(t)} : entries'[x] \in {entries[x], NoContent}
  <2>1. Ordered(order, entries) /\ entries \in Entries /\ Payload \in Contents
    BY <1>2, OrderedIs, RouteCacheAssumption DEF TypeOK
  <2> QED
    BY <1>1, <1>2, <2>1, StoreOrders
<1>4. entries'[Key(t)] # NoContent
  BY <1>3, RouteCacheAssumption, CacheAssumption
<1>5. put \in [key : Keys, epoch : Epochs, trial : Trials] /\ put.key = Key(t)
  BY <1>2 DEF TypeOK
<1> HIDE DEF put
<1>6. Grow
  BY <1>1, <1>2 DEF Grow, TypeOK, Epochs
<1>7. CachedIsPut'
  BY <1>1, <1>3, <1>5 DEF IInv, CachedIsPut
<1>8. puts' \subseteq [key : Keys, epoch : Epochs, trial : Trials] /\ evicted' \subseteq Keys \X Epochs
  BY <1>1, <1>2, <1>5 DEF TypeOK
<1> QED
  BY <1>1, <1>3, <1>4, <1>6, <1>7, <1>8 DEF put

LEMMA InsertKeeps ==
    ASSUME IInv, NEW t \in Trials, Insert(t)
    PROVE  IInv'
<1>1. pc[t] = "insert" /\ UNCHANGED <<epoch, lineage, served, disordered, deaths, failures>>
  BY DEF Insert
<1>2. TypeOK /\ Local(t) /\ Key(t) \in Keys /\ lookup[t].epoch \in Epochs /\ rows[t] = "RUNNING"
  BY <1>1, TrialAt DEF IInv
<1>3. CASE epoch = lookup[t].epoch
  <2> DEFINE put == [key |-> Key(t), epoch |-> epoch, trial |-> t]
  <2>1. Put(t) /\ pc' = [pc EXCEPT ![t] = "record"] /\ UNCHANGED <<rows, at, lookup, identities>>
    BY <1>3 DEF Insert, Goto
  <2>2. /\ Grow /\ entries' \in Entries /\ Ordered(order', entries')
        /\ entries'[Key(t)] # NoContent /\ CachedIsPut'
        /\ puts' = puts \cup {put}
        /\ puts' \subseteq [key : Keys, epoch : Epochs, trial : Trials]
        /\ evicted' \subseteq Keys \X Epochs
    BY <1>1, <2>1, PutGrows
  <2>3. put.key = Key(t) /\ put.trial = t /\ put \in puts'
    BY <2>2
  <2> HIDE DEF put
  <2>4. /\ pc'[t] = "record" /\ pc' \in [Trials -> Stages]
        /\ \A u \in Trials \ {t} : pc'[u] = pc[u]
    BY <1>2, <2>1 DEF TypeOK, Stages
  <2>5. TypeOK'
    <3>1. /\ order' \in Seq(Keys) /\ {order'[i] : i \in DOMAIN order'} = Cached(entries')
          /\ \A i, j \in DOMAIN order' : order'[i] = order'[j] => i = j
      BY <2>2, OrderedIs
    <3>2. \A u \in Trials : pc'[u] # "idle" => rows'[u] = "RUNNING"
      BY <1>2, <2>1, <2>4 DEF TypeOK, Executing
    <3> QED
      BY <1>1, <1>2, <2>1, <2>2, <2>4, <3>1, <3>2 DEF TypeOK, Executing
  <2>6. Local(t)'
    <3>1. FreshInv(t)' /\ PairInv(t)'
      BY <1>2, <2>1 DEF FreshInv, PairInv
    <3>2. Key(t)' = Key(t) /\ Done(t)' = Done(t)
      BY <1>1, <2>1, <2>4 DEF Key, Done
    <3>3. StageInv(t)'
      BY <1>1, <1>2, <1>3, <2>1, <2>2, <2>3, <2>4, <3>2 DEF Local, StageInv, put
    <3>4. GotInv(t)'
      <4>1. ASSUME NEW i \in 1 .. Done(t), NEW e \in identities[t], Got(t, i, e)
            PROVE  GotBy(served'[t], lineage', puts', t, i, e)
        <5>1. i \in DOMAIN Artifacts[t.workload] /\ e \in Epochs
          BY <1>1, <1>2, TrialAt DEF Done, TypeOK
        <5> QED
          BY <1>1, <1>2, <2>2, <4>1, <5>1, GotStays
      <4> QED
        BY <1>1, <1>2, <2>1, <3>2, <4>1 DEF Local, GotInv, Got
    <3>5. PutInv(t)'
      <4> SUFFICES ASSUME NEW p \in puts', p.trial = t
                   PROVE  t.repetition = 0 /\ Placed(t, p.key)'
        BY DEF PutInv, Placed, ArtifactOf
      <4>1. t.repetition = 0
        BY <1>1, <1>2 DEF Local, StageInv
      <4>2. CASE p = put
        BY <1>2, <2>1, <2>3, <2>4, <4>1, <4>2, TrialAt DEF Placed, ArtifactOf
      <4>3. CASE p \in puts
        BY <1>1, <1>2, <2>1, <2>4, <4>1, <4>3 DEF Local, PutInv, Placed, ArtifactOf
      <4> QED
        BY <2>2, <4>2, <4>3
    <3> QED
      BY <3>1, <3>3, <3>4, <3>5 DEF Local
  <2>7. LineageInv' /\ OrderInv'
    BY <1>1, <2>1, <2>2, LineageKept, OrderKept
  <2>8. QuietInv'
    <3>1. Quiet' => Quiet
      BY <1>1, <2>2 DEF Quiet, Grow
    <3> QED
      BY <2>1, <2>4, <3>1, QuietKept
  <2>9. \A u \in Trials \ {t} : Same(u)
    BY <1>1, <2>1, <2>4 DEF Same
  <2> QED
    BY <2>2, <2>3, <2>5, <2>6, <2>7, <2>8, <2>9, StepKeeps
<1>4. CASE epoch # lookup[t].epoch
  <2>1. Fail(t) /\ UNCHANGED <<entries, order, puts, evicted>>
    BY <1>4 DEF Insert, cacheVars
  <2>2. ~Quiet'
    BY <1>1, <1>2, <1>4 DEF Quiet, Local, StageInv, Epochs
  <2>3. failures' \in 0 .. MaxFailures /\ failures <= failures' /\ pc[t] # "idle"
    BY <1>1, <1>2 DEF TypeOK
  <2> QED
    BY <1>1, <2>1, <2>2, <2>3, FailStillKeeps
<1> QED
  BY <1>3, <1>4

\* The lineage row comes after the put and names the epoch of the put.
LEMMA RecordKeeps ==
    ASSUME IInv, NEW t \in Trials, Record(t)
    PROVE  IInv'
<1> DEFINE e == lookup[t].epoch
           k == Key(t)
           row == lineage[<<k, e>>]
<1>1. /\ pc[t] = "record"
      /\ UNCHANGED <<entries, order, epoch, puts, evicted, disordered, deaths, failures>>
  BY DEF Record, cacheVars
<1>2. TypeOK /\ Local(t) /\ k \in Keys /\ e \in Epochs /\ rows[t] = "RUNNING" /\ t # NoTrial
  BY <1>1, TrialAt DEF IInv
<1>3. /\ t.repetition = 0 /\ [key |-> k, epoch |-> e, trial |-> t] \in puts /\ e <= epoch
      /\ entries[k] = NoContent => Lost(k, e)
  BY <1>1, <1>2 DEF Local, StageInv
<1>4. LineageInv /\ LineageIsTrue /\ LineageHasBytes /\ LineageEpochs
  BY DEF IInv, LineageInv
<1>5. CASE epoch = e /\ row \in {NoTrial, t}
  <2>1. /\ lineage' = [lineage EXCEPT ![<<k, e>>] = t] /\ Obtained(t, "miss")
        /\ UNCHANGED <<rows, lookup, identities>>
    BY <1>5 DEF Record
  <2>2. /\ lineage' \in [Keys \X Epochs -> Trials \cup {NoTrial}] /\ lineage'[<<k, e>>] = t
        /\ \A j \in Keys, f \in Epochs :
              <<j, f>> # <<k, e>> => lineage'[<<j, f>>] = lineage[<<j, f>>]
    BY <1>2, <2>1 DEF TypeOK
  <2>3. Grow
    <3>1. \A j \in Keys, f \in Epochs : lineage[<<j, f>>] # NoTrial =>
             lineage'[<<j, f>>] = lineage[<<j, f>>]
      BY <1>5, <2>2
    <3> QED
      BY <1>1, <1>2, <3>1 DEF Grow, TypeOK, Epochs
  <2>4. \A j \in Keys, f \in Epochs :
           \/ lineage'[<<j, f>>] = lineage[<<j, f>>]
           \/ j = k /\ f = e /\ lineage'[<<j, f>>] = t
    BY <2>2
  <2>5. LineageIsTrue'
    BY <1>1, <1>3, <1>4, <2>4 DEF LineageIsTrue
  <2>6. LineageHasBytes'
    BY <1>1, <1>3, <1>4, <2>4 DEF LineageHasBytes, Lost
  <2>7. LineageEpochs'
    BY <1>1, <1>3, <1>4, <2>4 DEF LineageEpochs
  <2>8. /\ Local(t)' /\ \A u \in Trials \ {t} : Same(u)
        /\ pc' \in [Trials -> Stages] /\ at' \in [Trials -> Nat]
        /\ \A u \in Trials : at'[u] \in DOMAIN Artifacts[u.workload]
        /\ served' \in [Trials -> SUBSET [key : Keys, how : {"hit", "miss"}, epoch : Epochs]]
        /\ pc'[t] \in {"lookup", "infer"}
    <3>1. /\ pc[t] \in {"read", "record"} /\ UNCHANGED <<epoch, puts, rows, lookup, identities>>
          /\ lineage'[<<Key(t), lookup[t].epoch>>] = t
      BY <1>1, <2>1, <2>2
    <3> QED
      BY <1>3, <2>1, <2>3, <3>1, ObtainedMoves
  <2>9. TypeOK'
    <3>1. \A u \in Trials : pc'[u] # "idle" => rows[u] = "RUNNING"
      BY <1>2, <2>8 DEF TypeOK, Executing, Same
    <3> QED
      BY <1>1, <1>2, <2>1, <2>2, <2>8, <3>1 DEF TypeOK, Executing
  <2>10. OrderInv' /\ QuietInv'
    BY <1>1, <2>1, <2>8, OrderKept, QuietKept DEF Quiet, Same
  <2>11. CachedIsPut' /\ puts' \ puts = {}
    BY <1>1 DEF IInv, CachedIsPut
  <2> QED
    BY <2>3, <2>5, <2>6, <2>7, <2>8, <2>9, <2>10, <2>11, StepKeeps DEF LineageInv
<1>6. CASE ~(epoch = e /\ row \in {NoTrial, t})
  <2>1. Fail(t) /\ UNCHANGED <<lineage, served>>
    BY <1>6 DEF Record
  <2>2. row \in {NoTrial, t}
    <3> SUFFICES ASSUME row # NoTrial PROVE row = t
      OBVIOUS
    <3>1. [key |-> k, epoch |-> e, trial |-> row] \in puts
      BY <1>2, <1>4 DEF LineageIsTrue
    <3> QED
      BY <1>1, <1>3, <3>1, OwnPut
  <2>3. ~Quiet'
    BY <1>1, <1>2, <1>3, <1>6, <2>2 DEF Quiet, Epochs
  <2>4. failures' \in 0 .. MaxFailures /\ failures <= failures' /\ pc[t] # "idle"
    BY <1>1, <1>2 DEF TypeOK
  <2> QED
    BY <1>1, <2>1, <2>3, <2>4, FailStillKeeps
<1> QED
  BY <1>5, <1>6

\* A failed call ends the execution; its put may have been carried out.
LEMMA CallFailsKeeps ==
    ASSUME IInv, NEW t \in Trials, CallFails(t)
    PROVE  IInv'
<1>1. /\ pc[t] # "idle" /\ failures < MaxFailures /\ failures' = failures + 1 /\ Fail(t)
      /\ UNCHANGED <<epoch, lineage, served, disordered, deaths>>
  BY DEF CallFails
<1>2. TypeOK /\ Local(t)
  BY DEF IInv
<1>3. failures' \in 0 .. MaxFailures /\ failures <= failures' /\ ~Quiet'
  BY <1>1, <1>2, RouteCacheAssumption DEF TypeOK, Quiet
<1>4. CASE UNCHANGED <<entries, order, puts, evicted>>
  BY <1>1, <1>3, <1>4, FailStillKeeps
<1>5. CASE pc[t] = "insert" /\ Put(t)
  <2> DEFINE put == [key |-> Key(t), epoch |-> epoch, trial |-> t]
  <2>1. /\ Grow /\ entries' \in Entries /\ Ordered(order', entries') /\ CachedIsPut'
        /\ puts' = puts \cup {put}
        /\ puts' \subseteq [key : Keys, epoch : Epochs, trial : Trials]
        /\ evicted' \subseteq Keys \X Epochs
    BY <1>1, <1>5, PutGrows
  <2>2. put.key = Key(t) /\ put.trial = t /\ t.repetition = 0
    BY <1>2, <1>5 DEF Local, StageInv
  <2> HIDE DEF put
  <2>3. \A p \in puts' \ puts : p.trial = t /\ t.repetition = 0 /\ p.key = Key(t)
    BY <2>1, <2>2
  <2> QED
    BY <1>1, <1>3, <2>1, <2>3, FailKeeps
<1> QED
  BY <1>4, <1>5 DEF CallFails, cacheVars

LEMMA NodeRestartKeeps ==
    ASSUME IInv, NodeRestart
    PROVE  IInv'
<1>1. /\ epoch < MaxRestarts /\ epoch' = epoch + 1
      /\ UNCHANGED <<entries, order, lineage, rows, pc, at, lookup, identities, puts, served, evicted,
                     disordered, deaths, failures>>
  BY DEF NodeRestart, cacheVars, history
<1>2. TypeOK
  BY DEF IInv
<1>3. epoch \in Nat /\ epoch' \in Epochs /\ epoch <= epoch'
  BY <1>1, <1>2, RouteCacheAssumption DEF TypeOK, Epochs
<1>4. Grow
  BY <1>1, <1>3 DEF Grow
<1>5. TypeOK'
  BY <1>1, <1>2, <1>3 DEF TypeOK, Executing
<1>6. ASSUME NEW u \in Trials PROVE Local(u)'
  BY <1>1, <1>4, OthersKept DEF Same
<1>7. LineageInv' /\ OrderInv' /\ CachedIsPut'
  BY <1>1, <1>4, LineageKept, OrderKept DEF IInv, CachedIsPut
<1>8. QuietInv'
  BY <1>1, <1>3 DEF QuietInv, Quiet
<1> QED
  BY <1>5, <1>6, <1>7, <1>8 DEF IInv

\* The coordinator dies: what it had obtained is forgotten, rows and lineage
\* stay.
LEMMA DieKeeps ==
    ASSUME IInv, Die
    PROVE  IInv'
<1>1. /\ deaths < MaxDeaths /\ deaths' = deaths + 1
      /\ pc' = [t \in Trials |-> "idle"] /\ at' = [t \in Trials |-> 1]
      /\ lookup' = [t \in Trials |-> NoLookup] /\ identities' = [t \in Trials |-> {}]
      /\ UNCHANGED <<entries, order, epoch, lineage, rows, puts, served, evicted, disordered, failures>>
  BY DEF Die, cacheVars, history
<1>2. TypeOK
  BY DEF IInv
<1>3. NoLookup \in [epoch : Epochs, branch : {"none", "hit", "miss"}] /\ NoLookup.epoch = 0
  BY RouteCacheAssumption DEF NoLookup, Epochs
<1>4. TypeOK'
  <2>1. \A u \in Trials : 1 \in DOMAIN Artifacts[u.workload]
    BY <1>2, TrialAt
  <2>2. /\ lookup' \in [Trials -> [epoch : Epochs, branch : {"none", "hit", "miss"}]]
        /\ pc' \in [Trials -> Stages] /\ at' \in [Trials -> Nat]
        /\ identities' \in [Trials -> SUBSET Epochs]
        /\ \A u \in Trials : at'[u] = 1 /\ pc'[u] = "idle"
    BY <1>1, <1>3 DEF Stages
  <2>3. deaths' \in 0 .. MaxDeaths
    BY <1>1, <1>2, RouteCacheAssumption DEF TypeOK
  <2> QED
    BY <1>1, <1>2, <2>1, <2>2, <2>3 DEF TypeOK, Executing
<1>5. ASSUME NEW u \in Trials PROVE Local(u)'
  <2>1. /\ Local(u) /\ pc'[u] = "idle" /\ at'[u] = 1 /\ lookup'[u].epoch = 0 /\ identities'[u] = {}
    BY <1>1, <1>3 DEF IInv
  <2>2. FreshInv(u)' /\ GotInv(u)'
    BY <1>1, <2>1 DEF Local, FreshInv, GotInv
  <2>3. StageInv(u)'
    BY <1>1, <1>2, <2>1 DEF StageInv, TypeOK, Epochs
  <2>4. PutInv(u)'
    BY <1>1, <2>1 DEF Local, PutInv, Placed, ArtifactOf
  <2>5. PairInv(u)'
    BY <1>1, <2>1 DEF Local, PairInv, Got
  <2> QED
    BY <2>2, <2>3, <2>4, <2>5 DEF Local
<1>6. LineageInv' /\ CachedIsPut'
  BY <1>1 DEF IInv, CachedIsPut, LineageInv, LineageIsTrue, LineageHasBytes, LineageEpochs
<1>7. OrderInv' /\ QuietInv'
  <2>1. \A u \in Trials : pc'[u] # "resolve"
    BY <1>1
  <2> QED
    BY <1>1, <2>1, OrderKept, QuietKept DEF Quiet
<1> QED
  BY <1>4, <1>5, <1>6, <1>7 DEF IInv

-----------------------------------------------------------------------------
(* The theorems.                                                           *)

LEMMA InitIInv == Init => IInv
<1> SUFFICES ASSUME Init PROVE IInv
  OBVIOUS
<1> USE RouteCacheAssumption
<1>1. NoLookup \in [epoch : Epochs, branch : {"none", "hit", "miss"}] /\ NoLookup.epoch = 0 /\ 0 \in Epochs
  BY DEF NoLookup, Epochs
<1>2. /\ entries = [k \in Keys |-> NoContent] /\ order = <<>>
  BY DEF Init, Cache!Init
<1>3. TypeOK
  <2>1. entries \in Entries /\ Cached(entries) = {}
    BY <1>2 DEF Entries, Cached
  <2>2. \A u \in Trials : 1 \in DOMAIN Artifacts[u.workload]
    OBVIOUS
  <2>3. \A u \in Trials : at[u] = 1 /\ pc[u] = "idle"
    BY DEF Init
  <2>4. /\ order \in Seq(Keys) /\ {order[i] : i \in DOMAIN order} = {}
        /\ \A i, j \in DOMAIN order : order[i] = order[j] => i = j
    BY <1>2
  <2>5. /\ epoch \in Epochs /\ lineage \in [Keys \X Epochs -> Trials \cup {NoTrial}]
        /\ rows \in [Trials -> {"none", "RUNNING", "COMPLETE", "FAILED"}]
        /\ pc \in [Trials -> Stages] /\ at \in [Trials -> Nat]
    BY <1>1 DEF Init, Stages
  <2>6. /\ lookup \in [Trials -> [epoch : Epochs, branch : {"none", "hit", "miss"}]]
        /\ identities \in [Trials -> SUBSET Epochs]
    BY <1>1 DEF Init
  <2>7. puts = {} /\ evicted = {} /\ deaths = 0 /\ failures = 0
    BY DEF Init
  <2>8. /\ puts \subseteq [key : Keys, epoch : Epochs, trial : Trials]
        /\ evicted \subseteq Keys \X Epochs
        /\ deaths \in 0 .. MaxDeaths /\ failures \in 0 .. MaxFailures
    BY <2>7
  <2>9. served \in [Trials -> SUBSET [key : Keys, how : {"hit", "miss"}, epoch : Epochs]]
    BY DEF Init
  <2>10. disordered \in BOOLEAN
    BY DEF Init
  <2> QED
    BY <2>1, <2>2, <2>3, <2>4, <2>5, <2>6, <2>8, <2>9, <2>10 DEF TypeOK, Executing
<1>4. \A k \in Keys, e \in Epochs : lineage[<<k, e>>] = NoTrial
  BY DEF Init
<1>5. LineageInv /\ CachedIsPut
  BY <1>2, <1>4 DEF LineageInv, LineageIsTrue, LineageHasBytes, LineageEpochs, CachedIsPut
<1>6. OrderInv /\ QuietInv
  BY DEF Init, OrderInv, QuietInv
<1>7. ASSUME NEW t \in Trials PROVE Local(t)
  BY <1>1 DEF Init, Local, FreshInv, StageInv, GotInv, PairInv, PutInv
<1> QED
  BY <1>3, <1>5, <1>6, <1>7 DEF IInv

LEMMA StutterKeeps ==
    ASSUME IInv, UNCHANGED vars
    PROVE  IInv'
<1>1. UNCHANGED <<entries, order, epoch, lineage, rows, pc, at, lookup, identities, puts, served,
                  evicted, disordered, deaths, failures>>
  BY DEF vars, cacheVars, history
<1>2. TypeOK'
  BY <1>1 DEF IInv, TypeOK, Executing
<1>3. Grow
  BY <1>1 DEF IInv, TypeOK, Grow, Epochs
<1>4. ASSUME NEW u \in Trials PROVE Local(u)'
  BY <1>1, <1>3, OthersKept DEF Same
<1>5. LineageInv' /\ OrderInv' /\ QuietInv' /\ CachedIsPut'
  BY <1>1, <1>3, LineageKept, OrderKept, QuietKept DEF IInv, CachedIsPut, Quiet
<1> QED
  BY <1>2, <1>4, <1>5 DEF IInv

LEMMA IInvStep == IInv /\ [Next]_vars => IInv'
<1> SUFFICES ASSUME IInv, [Next]_vars PROVE IInv'
  OBVIOUS
<1>1. ASSUME NEW t \in Trials,
             \/ Begin(t) \/ Lookup(t) \/ Resolve(t) \/ Read(t) \/ Fetch(t)
             \/ Insert(t) \/ Record(t) \/ Complete(t) \/ CallFails(t)
      PROVE  IInv'
  BY <1>1, BeginKeeps, LookupKeeps, ResolveKeeps, ReadKeeps, FetchKeeps, InsertKeeps, RecordKeeps,
     CompleteKeeps, CallFailsKeeps
<1> QED
  BY <1>1, NodeRestartKeeps, DieKeeps, StutterKeeps DEF Next

\* Lineage, stages and history agree at every step of every execution.
THEOREM Invariance == Spec => []IInv
BY InitIInv, IInvStep, PTL DEF Spec

\* The lineage never claims what did not happen: the identity is compared
\* before and after the put, and a row is written only for the epoch of both.
THEOREM SoundLineage == Spec => []LineageIsSound
<1>1. IInv => LineageIsSound
  BY DEF IInv, LineageInv, LineageIsSound
<1> QED
  BY <1>1, Invariance, PTL

\* A completed trial is a miss of a first repetition or a hit on exactly that
\* miss, in one epoch, whatever ran at the same time.
THEOREM CompletePairs == Spec => []PairsComplete
<1>1. IInv => PairsComplete
  <2> SUFFICES ASSUME IInv, NEW t \in Trials, rows[t] = "COMPLETE"
               PROVE  /\ t.repetition <= 1
                      /\ \E e \in Epochs :
                            /\ {s.epoch : s \in served[t]} = {e}
                            /\ \A i \in DOMAIN Artifacts[t.workload] : Got(t, i, e)
    BY DEF PairsComplete, CompletedIsPaired, OnlyPairsComplete, Got, GotBy, ArtifactOf
  <2>1. PICK e \in Epochs : /\ \A s \in served[t] : s.epoch = e
                            /\ \A i \in DOMAIN Artifacts[t.workload] : Got(t, i, e)
    BY DEF IInv, Local, PairInv
  <2>2. 1 \in DOMAIN Artifacts[t.workload] /\ t.repetition \in Nat
    BY TrialAt DEF IInv
  <2>3. Got(t, 1, e)
    BY <2>1, <2>2
  <2>4. PICK s \in served[t] : TRUE
    BY <2>3 DEF Got, GotBy
  <2>5. {x.epoch : x \in served[t]} = {e}
    BY <2>1, <2>4
  <2>6. t.repetition <= 1
    BY <2>2, <2>3 DEF Got, GotBy
  <2> QED
    BY <2>1, <2>5, <2>6
<1> QED
  BY <1>1, Invariance, PTL

\* Failing closed is not failing at random: with repetitions in order, and no
\* failed call, restart or eviction, no trial of a pair fails, whatever else
\* is executed at the same time.
THEOREM FailsForAReason == Spec => []NoSpuriousFailure
<1>1. IInv => NoSpuriousFailure
  BY DEF IInv, TypeOK, QuietInv, Quiet, NoSpuriousFailure, Epochs
<1> QED
  BY <1>1, Invariance, PTL
=============================================================================
