---------------------------- MODULE MCScoreLedger ----------------------------
(* Instances of the N1 oracle for TLC: two predictions that compete for one *)
(* evaluation unit, a request id reused for another unit, a task without a  *)
(* label, and two packages that disagree on the correct option.             *)
EXTENDS ScoreLedger

CONSTANTS q1, q2, q3, u1, u2, t1, t2, h1, h2

Request(i, u, t, form, option) ==
    [id |-> i, unit |-> u, task |-> t, answer |-> [form |-> form, option |-> option]]

CompetingRequests ==
    {Request(q1, u1, t1, "bracketed", "A"),
     Request(q2, u1, t1, "bare", "B"),
     Request(q2, u2, t1, "bare", "A"),
     Request(q3, u2, t2, "prose", "A")}

Label(option, rule) == [t \in {t1} |-> [correct |-> option, rule |-> rule]]

TwoPackages == {Label("A", "canonical"), Label("B", "exact")}
=============================================================================
