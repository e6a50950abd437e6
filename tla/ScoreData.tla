------------------------------ MODULE ScoreData ------------------------------
(***************************************************************************)
(* The data of the N1 oracle: hidden label packages, score requests and    *)
(* the results stored for them (simulator/hidden_oracle.py).               *)
(***************************************************************************)
CONSTANTS
    Requests,       \* score requests [id, unit, task, answer]
    RequestIds,     \* values of score_request_id
    Units,          \* values of evaluation_unit_id
    Packages,       \* hidden label packages: [correct, rule] by labelled task
    NoPackage, NoRow

RowType == [request : Requests, package : Packages, correct : BOOLEAN]

ASSUME ScoreDataAssumption ==
    /\ \A r \in Requests : r.id \in RequestIds /\ r.unit \in Units
    /\ NoPackage \notin Packages
    /\ NoRow \notin RowType

\* _score_answer: the exact rule takes the bare option id, the canonical rule
\* also one in brackets, and neither takes an option quoted in prose.
ScoreAnswer(answer, label) ==
    /\ answer.option = label.correct
    /\ \/ answer.form = "bare"
       \/ answer.form = "bracketed" /\ label.rule = "canonical"

Labelled(p, r) == r.task \in DOMAIN p

\* The response: its evidence binds the request, the label and the package.
Row(p, r) ==
    [request |-> r, package |-> p, correct |-> ScoreAnswer(r.answer, p[r.task])]
=============================================================================
