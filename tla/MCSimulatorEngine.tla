------------------------- MODULE MCSimulatorEngine --------------------------
(* Scenarios for TLC: three trials of a cached route over two objects, with *)
(* every combination of arrival interval, admission slots, link slots,      *)
(* cache capacity and a few durations; and routes the loader accepts with a *)
(* lookup behind a lookup or a dependency named twice.                      *)
EXTENDS SimulatorEngine

Operation(kind, deps, condition, resource, size, duration) ==
    [kind |-> kind, deps |-> deps, condition |-> condition,
     resource |-> resource, size |-> size, duration |-> duration]

If(lookup, equals) == [lookup |-> lookup, equals |-> equals]

\* Lookup; read the cache, or fetch and insert; compute.
CachedOps(fetch, compute, size) ==
    <<Operation("cache_lookup", <<>>, None, None, 0, 0),
      Operation("cache_read", <<1>>, If(1, "hit"), "cpu", 0, 1),
      Operation("network_transfer", <<1>>, If(1, "miss"), "link", 0, fetch),
      Operation("cache_insert", <<1, 3>>, If(1, "miss"), None, size, 0),
      Operation("compute", <<2, 4>>, None, "cpu", 0, compute)>>

\* A second lookup only after a miss of the first, and a fetch after a miss
\* of the second.
NestedOps ==
    <<Operation("cache_lookup", <<>>, None, None, 0, 0),
      Operation("cache_lookup", <<1>>, If(1, "miss"), None, 0, 1),
      Operation("network_transfer", <<2>>, If(2, "miss"), "link", 0, 1),
      Operation("cache_insert", <<3>>, None, None, 1, 0)>>

TwiceOps ==
    <<Operation("control", <<>>, None, "cpu", 0, 1),
      Operation("compute", <<1, 1>>, None, "cpu", 0, 1)>>

TrialOf(object, scope, ops) == [object |-> object, scope |-> scope, ops |-> ops]

Scenario(interval, admission, links, capacity, initial, trials) ==
    [interval |-> interval, admission |-> admission,
     slots |-> [r \in {"cpu", "link"} |-> IF r = "cpu" THEN 1 ELSE links],
     capacity |-> capacity, initial |-> initial, trials |-> trials]

Warm == <<[key |-> "y", size |-> 1]>>

CachedRoutes ==
    {Scenario(interval, admission, links, capacity, initial,
              <<TrialOf("x", 1, CachedOps(f, 1, 1)), TrialOf("y", 1, CachedOps(g, c, 2)),
                TrialOf("x", other, CachedOps(2, 1, 1))>>) :
        interval \in 0..2, admission \in 1..3, links \in 1..2, capacity \in 1..2,
        initial \in {<<>>, Warm}, f \in {0, 2}, g \in {1, 3}, c \in 0..1, other \in 1..2}

OddRoutes ==
    {Scenario(interval, 1, 1, 1, initial,
              <<TrialOf("x", 1, ops), TrialOf("y", 1, ops), TrialOf("x", 1, ops)>>) :
        interval \in 0..2, initial \in {<<>>, Warm}, ops \in {NestedOps, TwiceOps}}

AllScenarios == CachedRoutes \cup OddRoutes
=============================================================================
