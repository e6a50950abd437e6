-------------------------- MODULE SimulatorEngine ---------------------------
(***************************************************************************)
(* The discrete-event engine of simulator/engine.py: trials arrive, wait   *)
(* for an admission slot, and run the operations of their route in virtual *)
(* time over resources with slots and LRU caches.  One step of the model   *)
(* is one action popped from the heap.  The scenario is chosen at the      *)
(* start; from there the engine is deterministic.  Times are integers, and *)
(* an operation's duration (latency, bytes over throughput, jitter) is a   *)
(* datum of the scenario.  Costs and the report are left out.              *)
(***************************************************************************)
EXTENDS Integers, FiniteSets, SequencesExt

CONSTANTS
    Scenarios,      \* scenarios that load_simulator_scenario accepts
    None            \* no resource, no condition, no cache decision

VARIABLES
    scenario,
    actions,        \* the heap
    serial,
    admitted,       \* admission_time_ms of each trial, or None
    active,         \* active_trials
    waiting,        \* waiting_trials
    completed,      \* completed_at: by trial, by operation
    finished,       \* completed_trials
    count,          \* completed_operations
    decisions,      \* cache_decisions: by trial, by operation
    available,      \* the slots of each _ResourceQueue
    caches,         \* entries of each _CacheState, the oldest first
    events,         \* SimulationEvents in the order they were completed
    status          \* "running", "complete", or "error" for a RuntimeError

vars == <<scenario, actions, serial, admitted, active, waiting, completed,
          finished, count, decisions, available, caches, events, status>>

-----------------------------------------------------------------------------
(* The scenario *)

Trials == DOMAIN scenario.trials
Trial(t) == scenario.trials[t]
Ops(t) == DOMAIN Trial(t).ops
Op(t, o) == Trial(t).ops[o]

\* arrival_time_ms = order_index * arrival_interval_ms
Arrival(t) == (t - 1) * scenario.interval

\* What _validate_operation_dag asks for: dependencies exist and form no
\* cycle (here: they come earlier), and a condition names a cache lookup the
\* operation depends on.
WellFormed(s) ==
    \A t \in DOMAIN s.trials : \A o \in DOMAIN s.trials[t].ops :
        LET op == s.trials[t].ops[o] IN
        /\ ToSet(op.deps) \subseteq 1..(o - 1)
        /\ op.condition # None =>
              /\ op.condition.lookup \in ToSet(op.deps)
              /\ s.trials[t].ops[op.condition.lookup].kind = "cache_lookup"

ASSUME ScenarioAssumption == \A s \in Scenarios : WellFormed(s)

-----------------------------------------------------------------------------
(* The heap *)

Action(time, priority, t, o, n, event) ==
    [time |-> time, priority |-> priority, trial |-> t, op |-> o,
     serial |-> n, event |-> event]

HeapKey(a) == <<a.time, a.priority, a.trial, a.op, a.serial>>

Before(a, b) ==
    \E i \in 1..5 :
        /\ HeapKey(a)[i] < HeapKey(b)[i]
        /\ \A j \in 1..(i - 1) : HeapKey(a)[j] = HeapKey(b)[j]

\* heappop: the action popped next.
First(a) == \A b \in actions \ {a} : Before(a, b)

\* push_ready for a sequence of operations of one trial that become ready.
Ready(t, ops, time, from) ==
    {Action(time[ops[i]], 2, t, ops[i], from + i, None) : i \in DOMAIN ops}

Roots(t) == SelectSeq([o \in Ops(t) |-> o], LAMBDA o : Op(t, o).deps = <<>>)

-----------------------------------------------------------------------------
(* Resources and caches *)

\* reserve: the slot that is free first, the lowest index among equals.
SlotFor(slots) ==
    CHOOSE i \in DOMAIN slots : \A j \in DOMAIN slots :
        slots[i] < slots[j] \/ (slots[i] = slots[j] /\ i <= j)

Later(m, n) == IF m > n THEN m ELSE n

Used(entries) == FoldLeft(LAMBDA sum, e : sum + e.size, 0, entries)

Without(entries, key) == SelectSeq(entries, LAMBDA e : e.key # key)

\* _CacheState.lookup: a hit becomes the youngest entry.
Lookup(entries, key) == Without(entries, key) \o SelectSeq(entries, LAMBDA e : e.key = key)

Cached(entries, key) == \E i \in DOMAIN entries : entries[i].key = key

\* _CacheState.insert: an entry larger than the cache is ignored; otherwise
\* the oldest entries go until the new one fits.
Insert(entries, key, size) ==
    LET rest == Without(entries, key)
        Fits(n) == Used(SubSeq(rest, n + 1, Len(rest))) + size <= scenario.capacity
        n == CHOOSE n \in 0..Len(rest) : Fits(n) /\ \A k \in 0..(n - 1) : ~Fits(k)
    IN  IF size > scenario.capacity THEN entries
        ELSE Append(SubSeq(rest, n + 1, Len(rest)), [key |-> key, size |-> size])

-----------------------------------------------------------------------------
Init ==
    /\ scenario \in Scenarios
    /\ actions = {Action(Arrival(t), 1, t, 0, t, None) : t \in Trials}
    /\ serial = Cardinality(Trials)
    /\ admitted = [t \in Trials |-> None]
    /\ active = 0
    /\ waiting = <<>>
    /\ completed = [t \in Trials |-> [o \in Ops(t) |-> None]]
    /\ finished = 0
    /\ count = 0
    /\ decisions = [t \in Trials |-> [o \in Ops(t) |-> None]]
    /\ available = [r \in DOMAIN scenario.slots |-> [i \in 1..scenario.slots[r] |-> 0]]
    /\ caches = [g \in {Trial(t).scope : t \in Trials} |-> scenario.initial]
    /\ events = <<>>
    /\ status = "running"

\* admit_trial: the operations without dependencies become ready.
Admit(t, time, heap, n) ==
    /\ admitted' = [admitted EXCEPT ![t] = time]
    /\ actions' = heap \cup Ready(t, Roots(t), [o \in Ops(t) |-> time], n)
    /\ serial' = n + Len(Roots(t))

\* trial_arrival, with a free admission slot.
Arrive(a) ==
    /\ a.priority = 1
    /\ active < scenario.admission
    /\ active' = active + 1
    /\ Admit(a.trial, a.time, actions \ {a}, serial)
    /\ UNCHANGED <<scenario, waiting, completed, finished, count, decisions,
                   available, caches, events, status>>

\* trial_arrival, with all admission slots taken.
Wait(a) ==
    /\ a.priority = 1
    /\ active >= scenario.admission
    /\ waiting' = Append(waiting, a.trial)
    /\ actions' = actions \ {a}
    /\ UNCHANGED <<scenario, serial, admitted, active, completed, finished,
                   count, decisions, available, caches, events, status>>

\* Mutant: only a dependent that names the ended operation first is looked at.
NowReadyWithFirst(t, o, ends) ==
    SelectSeq([p \in Ops(t) |-> p],
              LAMBDA p : /\ Op(t, p).deps # <<>> /\ Head(Op(t, p).deps) = o
                         /\ \A i \in DOMAIN Op(t, p).deps : ends[Op(t, p).deps[i]] # None)

\* The dependents of an operation, once for each time they name it, that now
\* have all their dependencies.
NowReady(t, o, ends) ==
    LET naming == [p \in Ops(t) |->
                      [i \in 1..Len(SelectSeq(Op(t, p).deps, LAMBDA d : d = o)) |-> p]]
    IN  SelectSeq(FlattenSeq(naming),
                  LAMBDA p : \A i \in DOMAIN Op(t, p).deps : ends[Op(t, p).deps[i]] # None)

ReadyTime(t, ends) ==
    [p \in Ops(t) |-> FoldLeft(LAMBDA m, d : IF ends[d] = None THEN m ELSE Later(m, ends[d]),
                               0, Op(t, p).deps)]

\* Mutant: insertions are forgotten.
NeverStores(t, o, event) == caches

\* An executed cache_insert changes the cache when it completes.
Stored(t, o, event) ==
    IF Op(t, o).kind = "cache_insert" /\ event.executed
    THEN [caches EXCEPT ![Trial(t).scope] = Insert(@, Trial(t).object, Op(t, o).size)]
    ELSE caches

\* complete: the event is kept, dependents become ready, and the last
\* operation of a trial passes its admission slot to the first trial waiting.
Complete(a) ==
    /\ a.priority = 0
    /\ LET t == a.trial  o == a.op
           ends == [completed[t] EXCEPT ![o] = a.event.end]
           next == NowReady(t, o, ends)
           heap == (actions \ {a}) \cup Ready(t, next, ReadyTime(t, ends), serial)
           last == \A p \in Ops(t) : ends[p] # None
       IN  /\ caches' = Stored(t, o, a.event)
           /\ events' = Append(events, a.event)
           /\ completed' = [completed EXCEPT ![t] = ends]
           /\ count' = count + 1
           /\ finished' = IF last THEN finished + 1 ELSE finished
           /\ IF last /\ waiting # <<>>
              THEN /\ waiting' = Tail(waiting)
                   /\ active' = active
                   /\ Admit(Head(waiting), a.time, heap, serial + Len(next))
              ELSE /\ active' = IF last THEN active - 1 ELSE active
                   /\ actions' = heap
                   /\ serial' = serial + Len(next)
                   /\ UNCHANGED <<waiting, admitted>>
    /\ UNCHANGED <<scenario, decisions, available, status>>

Decision(t, o) == decisions[t][Op(t, o).condition.lookup]

\* _condition_met, where the lookup has been decided.
Met(t, o) == Op(t, o).condition # None => Decision(t, o) = Op(t, o).condition.equals

Undecided(t, o) == Op(t, o).condition # None /\ Decision(t, o) = None

Event(t, o, executed, ready, start, end, result) ==
    [trial |-> t, op |-> o, executed |-> executed, ready |-> ready,
     start |-> start, end |-> end, result |-> result]

\* ready, with a condition that is not met: a skipped event completes at once.
Skip(a) ==
    /\ a.priority = 2
    /\ LET t == a.trial  o == a.op IN
       /\ ~Undecided(t, o) /\ ~Met(t, o)
       /\ actions' = (actions \ {a}) \cup
             {Action(a.time, 0, t, o, serial + 1,
                     Event(t, o, FALSE, a.time, a.time, a.time, None))}
    /\ serial' = serial + 1
    /\ UNCHANGED <<scenario, admitted, active, waiting, completed, finished,
                   count, decisions, available, caches, events, status>>

\* reserve: not before the slot is free.
StartTime(time, free) == Later(time, free)

\* ready: a slot is reserved, a lookup is decided now, and the completion is
\* pushed for the end of the service.
Execute(a) ==
    /\ a.priority = 2
    /\ LET t == a.trial  o == a.op  op == Op(t, o)
           slots == available[op.resource]
           slot == SlotFor(slots)
           start == IF op.resource = None THEN a.time
                    ELSE StartTime(a.time, slots[slot])
           end == start + op.duration
           lookup == op.kind = "cache_lookup"
           scope == Trial(t).scope
           result == CASE ~lookup -> None
                       [] lookup /\ Cached(caches[scope], Trial(t).object) -> "hit"
                       [] OTHER -> "miss"
       IN  /\ ~Undecided(t, o) /\ Met(t, o)
           /\ available' = IF op.resource = None THEN available
                           ELSE [available EXCEPT ![op.resource][slot] = end]
           /\ caches' = IF lookup THEN [caches EXCEPT ![scope] = Lookup(@, Trial(t).object)]
                        ELSE caches
           /\ decisions' = IF lookup THEN [decisions EXCEPT ![t][o] = result]
                           ELSE decisions
           /\ actions' = (actions \ {a}) \cup
                 {Action(end, 0, t, o, serial + 1,
                         Event(t, o, TRUE, a.time, start, end, result))}
    /\ serial' = serial + 1
    /\ UNCHANGED <<scenario, admitted, active, waiting, completed, finished,
                   count, events, status>>

\* ready, with a condition on a lookup that was itself skipped: RuntimeError.
RaiseUndecided(a) ==
    /\ a.priority = 2
    /\ Undecided(a.trial, a.op)
    /\ status' = "error"
    /\ UNCHANGED <<scenario, actions, serial, admitted, active, waiting, completed,
                   finished, count, decisions, available, caches, events>>

Planned == FoldLeft(LAMBDA sum, trial : sum + Len(trial.ops), 0, scenario.trials)

\* Mutant: the counters are not compared with the plan.
FinishAnyway ==
    /\ status = "running" /\ actions = {}
    /\ status' = "complete"
    /\ UNCHANGED <<scenario, actions, serial, admitted, active, waiting, completed,
                   finished, count, decisions, available, caches, events>>

\* The heap is empty: the run is published if every operation completed once
\* and admission drained, and refused otherwise.
Finish ==
    /\ status = "running" /\ actions = {}
    /\ status' = IF /\ count = Planned
                    /\ finished = Cardinality(Trials)
                    /\ active = 0 /\ waiting = <<>>
                 THEN "complete" ELSE "error"
    /\ UNCHANGED <<scenario, actions, serial, admitted, active, waiting, completed,
                   finished, count, decisions, available, caches, events>>

Over == status # "running" /\ UNCHANGED vars

Step(a) ==
    Arrive(a) \/ Wait(a) \/ Complete(a) \/ Skip(a) \/ Execute(a) \/ RaiseUndecided(a)

Next ==
    \/ status = "running" /\ \E a \in actions : First(a) /\ Step(a)
    \/ Finish
    \/ Over

Spec == Init /\ [][Next]_vars

FairSpec == Spec /\ WF_vars(Next)

-----------------------------------------------------------------------------
TypeOK ==
    /\ status \in {"running", "complete", "error"}
    /\ \A a \in actions :
          /\ a.priority \in 0..2 /\ a.time \in Nat /\ a.trial \in Trials
          /\ a.priority # 1 => a.op \in Ops(a.trial)
    /\ ToSet(waiting) \subseteq Trials
    /\ \A g \in DOMAIN caches : Used(caches[g]) <= scenario.capacity

Published == status = "complete"
Executed == {e \in ToSet(events) : e.executed}
ResourceOf(e) == Op(e.trial, e.op).resource

\* The events of a published run are a schedule of its plan: each operation
\* completes once, is skipped exactly when its lookup decided otherwise, and
\* starts neither before it is ready nor before its dependencies have ended
\* (the push_ready of "complete" and run_discrete_event_simulation's checks).
PublishedIsSchedule ==
    Published =>
        /\ Len(events) = Planned
        /\ \A t \in Trials : \A o \in Ops(t) :
              \E e \in ToSet(events) :
                 /\ e.trial = t /\ e.op = o
                 /\ e.start >= e.ready /\ e.ready >= admitted[t]
                 /\ \A f \in ToSet(events) :
                       f.trial = t /\ f.op \in ToSet(Op(t, o).deps) => f.end <= e.start
                 /\ e.executed <=> Met(t, o)

\* At no time do more operations use a resource than it has slots, and an
\* operation waits only while all of them are taken (_ResourceQueue.reserve).
SlotsAreShared ==
    Published =>
        \A r \in DOMAIN scenario.slots :
            LET on == {e \in Executed : ResourceOf(e) = r}
                Busy(time) == Cardinality({e \in on : e.start <= time /\ time < e.end})
            IN  \A e \in on :
                   /\ Busy(e.start) <= scenario.slots[r]
                   /\ \A time \in e.ready..(e.start - 1) : Busy(time) = scenario.slots[r]

\* A lookup hits only what a cache of its design and repetition held at the
\* start or what an insertion put there in the virtual past, and a miss means
\* that the object was never there or was replaced (_CacheState).
CacheIsCausal ==
    Published =>
        \A e \in Executed : e.result # None =>
            LET t == e.trial
                Puts == {f \in Executed : /\ Op(f.trial, f.op).kind = "cache_insert"
                                          /\ f.end <= e.ready
                                          /\ Trial(f.trial).scope = Trial(t).scope}
                Same == {f \in Puts : Trial(f.trial).object = Trial(t).object}
            IN  /\ e.result = "hit" =>
                      Cached(scenario.initial, Trial(t).object) \/ Same # {}
                /\ e.result = "miss" =>
                      \/ /\ ~Cached(scenario.initial, Trial(t).object)
                         /\ \A f \in Same : f.end = e.ready
                      \/ Puts \ Same # {}
                      \/ \A f \in Same : Op(f.trial, f.op).size > scenario.capacity

\* Trials are admitted in the order of their arrival, never more than the
\* slots at a time, and none waits while a slot is free: the contract
\* "fifo-by-arrival-time-then-order-index" of trial_admission_contract.
AdmissionIsFifo ==
    Published =>
        LET End(t) == CHOOSE m \in {completed[t][o] : o \in Ops(t)} :
                         \A o \in Ops(t) : completed[t][o] <= m
            Inside(time) == Cardinality({t \in Trials : admitted[t] <= time /\ time < End(t)})
        IN  \A t \in Trials :
               /\ \A u \in Trials : t < u => admitted[t] <= admitted[u]
               /\ Inside(admitted[t]) <= scenario.admission
               /\ \A time \in Arrival(t)..(admitted[t] - 1) : Inside(time) = scenario.admission

\* A published run is a schedule its plan and its resources allow, with no
\* time lost: everything waits only for what it has to wait for.
RunIsSchedule == TypeOK /\ PublishedIsSchedule /\ SlotsAreShared /\ AdmissionIsFifo

\* What the loader accepts and the engine cannot run: a condition on a lookup
\* that is conditional itself, and a dependency named twice.
Nested(t, o) == Op(t, o).condition # None /\ Op(t, Op(t, o).condition.lookup).condition # None
NamedTwice(t, o) == ~IsInjective(Op(t, o).deps)

\* Every scenario without these two comes to a published end: no trial keeps
\* its slot for ever, no operation waits for a dependency that has ended, and
\* the final checks of run_discrete_event_simulation pass.
Ends == <>(Published \/ \E t \in Trials : \E o \in Ops(t) : Nested(t, o) \/ NamedTwice(t, o))
=============================================================================
