------------------------ MODULE ContainerMatrixProofs ------------------------
(***************************************************************************)
(* Proofs about ContainerMatrix, for any number of trials, any set of      *)
(* conditional trials and of command processes, and any number of          *)
(* failures, restarts of the nodes and deaths.                             *)
(*                                                                         *)
(* The argument: a phase is submitted only when no workflow of its that    *)
(* FlowMesh ever accepted can still send, or has sent, its work.  Where    *)
(* the journal stands says which phases these are, and each command        *)
(* decides by the journal because it alone holds the lock.                 *)
(***************************************************************************)
EXTENDS ContainerMatrix, TLAPS

\* The label is one of the trial's phases, and which of them.
IsPhase(k) == IF k[1] \in Conditional THEN k[2] \in {"A", "B"} ELSE k[2] = "unconditional"
Index(k) == IF k[2] = "B" THEN 2 ELSE 1

\* The phase the journal is at.
Here(j) == <<Trial(j), Phases(Trial(j))[j.phase]>>

\* The journal has the results of the phase; it has at least its intent.
Past(j, k) ==
    IsPhase(k) /\ (k[1] < Trial(j) \/ (k[1] = Trial(j) /\ Index(k) < j.phase))
Begun(j, k) ==
    Past(j, k) \/ (IsPhase(k) /\ k[1] = Trial(j) /\ Index(k) = j.phase /\ j.step > 0)

\* Where a failure was: in a phase the journal has come to, or before the trial.
Reached(j, phase) ==
    phase \in Labels => IsPhase(<<Trial(j), phase>>) /\ Index(<<Trial(j), phase>>) <= j.phase

\* What holds of every journal by itself.
JournalInv(j) ==
    /\ j \in Journals /\ j.legal = TRUE
    /\ j.completed = N => j.phase = 1
    /\ Trial(j) \in Trials => j.phase <= Len(Phases(Trial(j))) + 1
    /\ j.step > 0 => Trial(j) \in Trials /\ ~Ready(j)
    /\ j.failed # NoFailure =>
          /\ Trial(j) \in Trials /\ j.failed.trial = Trial(j)
          /\ Reached(j, j.failed.phase)
    /\ j.failed # NoFailure => j.first # NoFailure
    /\ \A k \in PhaseKeys : j.results[k] # NoResult <=> Past(j, k)
    /\ \A k \in j.recovered : IsPhase(k)
    /\ \A k \in j.adopted : k[2] = "unconditional" /\ IsPhase(k) /\ k[1] <= Trial(j)
    /\ \A k \in j.adopted : k[1] = Trial(j) => j.failed = NoFailure /\ (~Ready(j) => j.step = 2)

\* A workflow that can still send the work of its phase, or has sent it.
Active(flow) == flow.status = "RUNNING" \/ flow.work.kind # "pending"

NoneActive(ws, k) == \A v \in DOMAIN ws : ws[v].key = k => ~Active(ws[v])

\* A workflow of the phase, and the only one that may be active.
Sole(ws, w, k) ==
    /\ w \in DOMAIN ws /\ ws[w].key = k
    /\ \A v \in DOMAIN ws : ws[v].key = k /\ Active(ws[v]) => v = w

FlowInv(flow) ==
    /\ flow.status = "RUNNING" => flow.work.kind = "pending"
    /\ flow.status = "DONE" => flow.work.kind \in {"fresh", "replay"}
    /\ flow.key[2] = "B" <=> flow.schedule.kind = "none"

MeshInv ==
    /\ \A w \in DOMAIN workflows : FlowInv(workflows[w])
    /\ \A w \in DOMAIN workflows : Active(workflows[w]) => Sole(workflows, w, workflows[w].key)
    /\ \A k \in PhaseKeys :
          /\ sent[k] \in {0, 1}
          /\ sent[k] = 1 <=> \E w \in DOMAIN workflows :
                                workflows[w].key = k /\ workflows[w].work.kind # "pending"

\* A journalled result is that of a finished workflow of its phase.
Measured(ws, result, k, c) ==
    LET w == result.workflow IN
    /\ w \in DOMAIN ws /\ ws[w].key = k /\ ws[w].status = "DONE"
    /\ result.work = ws[w].work /\ result.schedule = ws[w].schedule
    /\ result.work.kind = "fresh" /\ result.work.epoch = c

\* The journal and the workflows FlowMesh accepted.
JournalMesh(j, ws, c) ==
    /\ \A k \in PhaseKeys : ~Begun(j, k) => NoneActive(ws, k)
    /\ j.step = 2 => Sole(ws, j.workflow, Here(j))
    /\ \A k \in PhaseKeys : j.results[k] # NoResult => Measured(ws, j.results[k], k, c)
    /\ \A k \in PhaseKeys : j.results[k] # NoResult =>
          (j.results[k].schedule.kind = "replay" <=> k \in j.adopted)
    /\ \A k \in j.adopted : k[1] = Trial(j) /\ ~Ready(j) =>
          LET flow == ws[j.workflow] IN
          /\ flow.status = "DONE" /\ flow.schedule.kind = "replay"
          /\ flow.work.kind = "fresh" /\ flow.work.epoch = c

\* The checkpoints follow the journal, or are one ahead of it.
CheckpointInv ==
    /\ Loads(journal)
    /\ Len(checkpoints) = journal.completed \/ Gap(journal)

DiskInv ==
    /\ JournalInv(journal) /\ JournalMesh(journal, workflows, contract) /\ CheckpointInv
    /\ DocumentIsFirst
    /\ files < 4 => journal = EmptyJournal /\ checkpoints = <<>> /\ document = NoFailure
    /\ sums => journal.completed = N /\ document = journal.first

Running == {"reconcile", "loop", "phase", "submit", "bind", "wait", "collect",
            "after", "checkpoint", "complete", "fail", "finalize"}
InLoop == Running \ {"reconcile", "complete"}
InTrial == InLoop \ {"loop", "finalize"}

\* What a process has seen to on its way to where it is.
LockInv(p) ==
    /\ pc[p] # "idle" => holder = p /\ sums = FALSE
    /\ pc[p] \notin {"idle", "open"} => mem[p] = journal
    /\ pc[p] = "create" => files \in 1 .. 3
    /\ pc[p] \notin {"idle", "create"} => files = 4
    /\ pc[p] \notin {"idle", "document"} /\ journal.first # NoFailure => document = journal.first
    /\ pc[p] = "document" /\ document = NoFailure => error[p] = journal.first

CommandInv(p) ==
    /\ pc[p] \in {"open", "authorize"} /\ journal.failed # NoFailure =>
          <<journal.failed.trial, journal.failed.phase>> \notin journal.recovered
    /\ pc[p] = "authorize" => journal.failed # NoFailure
    /\ pc[p] \in Running => journal.failed = NoFailure
    /\ pc[p] \in Running \cup {"open", "authorize"} => ~PendingAdoption(journal)
    /\ pc[p] = "adopt" =>
          /\ journal.failed.error = "replayed" /\ journal.failed.phase = "unconditional"
          /\ journal.step = 2 /\ <<Trial(journal), "unconditional">> \in journal.recovered
    /\ pc[p] = "adopted" => <<Trial(journal), "unconditional">> \in journal.adopted
    /\ pc[p] = "fail" =>
          /\ error[p].trial = Trial(journal) /\ error[p].phase # "none"
          /\ Reached(journal, error[p].phase)

LoopInv(p) ==
    /\ pc[p] \notin InTrial \cup {"complete", "document"} => at[p] = 1
    /\ pc[p] \in InLoop => Len(checkpoints) = journal.completed
    /\ pc[p] \in InTrial \cup {"complete"} =>
          Trial(journal) \in Trials /\ at[p] <= Len(Phases(Trial(journal)))
    /\ pc[p] = "finalize" => journal.completed = N
    /\ pc[p] = "phase" => at[p] <= journal.phase
    /\ pc[p] \in {"submit", "bind"} => journal.step = 1 /\ at[p] = journal.phase
    /\ pc[p] \in {"wait", "collect"} => journal.step = 2 /\ at[p] = journal.phase
    /\ pc[p] = "after" => at[p] < journal.phase
    /\ pc[p] \in {"checkpoint", "complete"} => Ready(journal)
    /\ pc[p] = "complete" => Len(checkpoints) = journal.completed + 1
    /\ pc[p] = "submit" => NoneActive(workflows, Here(journal))
    /\ pc[p] = "bind" => Sole(workflows, submitted[p], Here(journal))
    /\ pc[p] = "collect" => workflows[journal.workflow].status = "DONE"

IInv ==
    /\ TypeOK /\ MeshInv /\ DiskInv
    /\ \A p \in Processes : LockInv(p) /\ CommandInv(p) /\ LoopInv(p)

-----------------------------------------------------------------------------
(* Phases and keys.                                                        *)

\* The phases of a trial are labels of their own, in order.
LEMMA PhasesOf ==
    ASSUME NEW t \in Trials
    PROVE  /\ Len(Phases(t)) = (IF t \in Conditional THEN 2 ELSE 1)
           /\ Len(Phases(t)) \in 1 .. 2 /\ 1 <= Len(Phases(t))
           /\ \A i \in 1 .. Len(Phases(t)) :
                 /\ Phases(t)[i] \in Labels
                 /\ IsPhase(<<t, Phases(t)[i]>>) /\ Index(<<t, Phases(t)[i]>>) = i
<1>1. CASE t \in Conditional
  <2>1. Phases(t) = <<"A", "B">>
    BY <1>1 DEF Phases
  <2>2. \A i \in 1 .. 2 : i = 1 \/ i = 2
    OBVIOUS
  <2> QED
    BY <1>1, <2>1, <2>2 DEF IsPhase, Index, Labels
<1>2. CASE t \notin Conditional
  <2>1. Phases(t) = <<"unconditional">>
    BY <1>2 DEF Phases
  <2>2. \A i \in 1 .. 1 : i = 1
    OBVIOUS
  <2> QED
    BY <1>2, <2>1, <2>2 DEF IsPhase, Index, Labels
<1> QED
  BY <1>1, <1>2

\* ... and a key of the trial is the phase its index says.
LEMMA PhaseAt ==
    ASSUME NEW k \in PhaseKeys, IsPhase(k)
    PROVE  /\ k[1] \in Trials /\ k = <<k[1], k[2]>>
           /\ Index(k) \in 1 .. Len(Phases(k[1])) /\ k[2] = Phases(k[1])[Index(k)]
<1>1. k[1] \in Trials /\ k[2] \in Labels /\ k = <<k[1], k[2]>>
  BY DEF PhaseKeys
<1>2. CASE k[1] \in Conditional
  <2>1. Phases(k[1]) = <<"A", "B">>
    BY <1>2 DEF Phases
  <2> QED
    BY <1>1, <1>2, <2>1 DEF IsPhase, Index
<1>3. CASE k[1] \notin Conditional
  <2>1. Phases(k[1]) = <<"unconditional">>
    BY <1>3 DEF Phases
  <2> QED
    BY <1>1, <1>3, <2>1 DEF IsPhase, Index
<1> QED
  BY <1>1, <1>2, <1>3

\* Where a journal stands.
LEMMA JournalAt ==
    ASSUME NEW j, JournalInv(j)
    PROVE  /\ j.completed \in 0 .. N /\ Trial(j) = j.completed + 1 /\ Trial(j) \in 1 .. N + 1
           /\ j.phase \in 1 .. 3 /\ j.step \in 0 .. 2
           /\ Trial(j) \in Trials /\ ~Ready(j) =>
                 /\ j.phase \in 1 .. Len(Phases(Trial(j)))
                 /\ Here(j) \in PhaseKeys /\ IsPhase(Here(j)) /\ Index(Here(j)) = j.phase
                 /\ Here(j)[1] = Trial(j) /\ Here(j)[2] = Phases(Trial(j))[j.phase]
                 /\ Here(j)[2] \in Labels
<1>1. j \in Journals
  BY DEF JournalInv
<1>2. j.completed \in 0 .. N /\ j.phase \in 1 .. 3 /\ j.step \in 0 .. 2
  BY <1>1 DEF Journals
<1>3. Trial(j) = j.completed + 1 /\ Trial(j) \in 1 .. N + 1
  BY <1>2, ContainerAssumption DEF Trial
<1>4. ASSUME Trial(j) \in Trials, ~Ready(j)
      PROVE  j.phase \in 1 .. Len(Phases(Trial(j)))
  <2>1. Len(Phases(Trial(j))) \in Nat
    BY <1>4, PhasesOf
  <2> QED
    BY <1>2, <1>4, <2>1 DEF Ready
<1>5. ASSUME Trial(j) \in Trials, ~Ready(j)
      PROVE  /\ Here(j) \in PhaseKeys /\ IsPhase(Here(j)) /\ Index(Here(j)) = j.phase
             /\ Here(j)[1] = Trial(j) /\ Here(j)[2] = Phases(Trial(j))[j.phase]
             /\ Here(j)[2] \in Labels
  BY <1>4, <1>5, PhasesOf DEF Here, PhaseKeys
<1> QED
  BY <1>2, <1>3, <1>4, <1>5

-----------------------------------------------------------------------------
(* The rows of the journal.                                                *)

\* The journal after each kind of row.
Intended(j) == [j EXCEPT !.step = 1]
BoundTo(j, w) == [j EXCEPT !.step = 2, !.workflow = w]
Obtained(j, result) ==
    [j EXCEPT !.step = 0, !.workflow = 0, !.phase = j.phase + 1,
              !.results = [j.results EXCEPT ![Here(j)] = result]]
Finished(j) == [j EXCEPT !.completed = j.completed + 1, !.phase = 1]
FailedWith(j, f) ==
    [j EXCEPT !.failed = f, !.first = IF j.first = NoFailure THEN f ELSE j.first]
Recovered(j) ==
    [j EXCEPT !.failed = NoFailure, !.step = 0, !.workflow = 0,
              !.recovered = j.recovered \cup {Here(j)}]
AdoptedHere(j) == [j EXCEPT !.failed = NoFailure, !.adopted = j.adopted \cup {Here(j)}]

\* What each row changes of the journal, and what it leaves alone.
LEMMA IntendedFields ==
    ASSUME NEW j \in Journals, NEW g, g = Intended(j)
    PROVE  /\ g.completed = j.completed /\ g.phase = j.phase /\ g.step = 1
           /\ g.workflow = j.workflow /\ g.failed = j.failed /\ g.first = j.first
           /\ g.recovered = j.recovered /\ g.adopted = j.adopted /\ g.results = j.results
BY DEF Intended, Journals

LEMMA BoundFields ==
    ASSUME NEW j \in Journals, NEW w, NEW g, g = BoundTo(j, w)
    PROVE  /\ g.completed = j.completed /\ g.phase = j.phase /\ g.step = 2
           /\ g.workflow = w /\ g.failed = j.failed /\ g.first = j.first
           /\ g.recovered = j.recovered /\ g.adopted = j.adopted /\ g.results = j.results
BY DEF BoundTo, Journals

LEMMA ObtainedFields ==
    ASSUME NEW j \in Journals, NEW result, NEW g, g = Obtained(j, result)
    PROVE  /\ g.completed = j.completed /\ g.phase = j.phase + 1 /\ g.step = 0
           /\ g.workflow = 0 /\ g.failed = j.failed /\ g.first = j.first
           /\ g.recovered = j.recovered /\ g.adopted = j.adopted /\ g.results = [j.results EXCEPT ![Here(j)] = result]
BY DEF Obtained, Journals

LEMMA FinishedFields ==
    ASSUME NEW j \in Journals, NEW g, g = Finished(j)
    PROVE  /\ g.completed = j.completed + 1 /\ g.phase = 1 /\ g.step = j.step
           /\ g.workflow = j.workflow /\ g.failed = j.failed /\ g.first = j.first
           /\ g.recovered = j.recovered /\ g.adopted = j.adopted /\ g.results = j.results
BY DEF Finished, Journals

LEMMA FailedFields ==
    ASSUME NEW j \in Journals, NEW f, NEW g, g = FailedWith(j, f)
    PROVE  /\ g.completed = j.completed /\ g.phase = j.phase /\ g.step = j.step
           /\ g.workflow = j.workflow /\ g.failed = f /\ g.first = (IF j.first = NoFailure THEN f ELSE j.first)
           /\ g.recovered = j.recovered /\ g.adopted = j.adopted /\ g.results = j.results
BY DEF FailedWith, Journals

LEMMA RecoveredFields ==
    ASSUME NEW j \in Journals, NEW g, g = Recovered(j)
    PROVE  /\ g.completed = j.completed /\ g.phase = j.phase /\ g.step = 0
           /\ g.workflow = 0 /\ g.failed = NoFailure /\ g.first = j.first
           /\ g.recovered = j.recovered \cup {Here(j)} /\ g.adopted = j.adopted /\ g.results = j.results
BY DEF Recovered, Journals

LEMMA AdoptedFields ==
    ASSUME NEW j \in Journals, NEW g, g = AdoptedHere(j)
    PROVE  /\ g.completed = j.completed /\ g.phase = j.phase /\ g.step = j.step
           /\ g.workflow = j.workflow /\ g.failed = NoFailure /\ g.first = j.first
           /\ g.recovered = j.recovered /\ g.adopted = j.adopted \cup {Here(j)} /\ g.results = j.results
BY DEF AdoptedHere, Journals

\* The phase is begun.
LEMMA IntentRow ==
    ASSUME NEW j, JournalInv(j), j.failed = NoFailure, Trial(j) \in Trials, ~Ready(j), j.step = 0,
           NEW g, g = Extend(j, Row("SUBMISSION_INTENT", Trial(j), Phases(Trial(j))[j.phase], None))
    PROVE  /\ JournalInv(g)
           /\ g = Intended(j)
           /\ \A k \in PhaseKeys : Begun(g, k) <=> Begun(j, k) \/ k = Here(j)
<1> DEFINE row == Row("SUBMISSION_INTENT", Trial(j), Phases(Trial(j))[j.phase], None)
<1>1. /\ row.state = "SUBMISSION_INTENT" /\ row.trial = Trial(j)
      /\ row.phase = Phases(Trial(j))[j.phase]
  BY DEF Row
<1>2. Follows(j, row)
  BY <1>1 DEF Follows, InPhase, PhaseStates
<1>3. After(j, row) = [j EXCEPT !.step = 1]
  BY <1>1 DEF After
<1>4. j \in Journals /\ j.legal = TRUE
  BY DEF JournalInv
<1>5. g = [j EXCEPT !.step = 1]
  BY <1>2, <1>3, <1>4 DEF Extend
<1> HIDE DEF row
<1>6. /\ g \in Journals /\ g.step = 1 /\ g.completed = j.completed /\ g.phase = j.phase
      /\ g.failed = j.failed /\ g.first = j.first /\ g.recovered = j.recovered
      /\ g.adopted = j.adopted /\ g.results = j.results /\ g.legal = TRUE
  BY <1>4, <1>5 DEF Journals
<1>7. Trial(g) = Trial(j) /\ Ready(g) = Ready(j)
  BY <1>6 DEF Trial, Ready
<1>8. \A k \in PhaseKeys : Past(g, k) <=> Past(j, k)
  BY <1>6, <1>7 DEF Past
<1>9. \A k \in PhaseKeys : Begun(g, k) <=> Begun(j, k) \/ k = Here(j)
  <2>1. /\ Here(j) \in PhaseKeys /\ IsPhase(Here(j)) /\ Index(Here(j)) = j.phase
        /\ Here(j)[1] = Trial(j)
    BY JournalAt
  <2>2. \A k \in PhaseKeys : IsPhase(k) /\ k[1] = Trial(j) /\ Index(k) = j.phase => k = Here(j)
    BY PhaseAt DEF Here
  <2> QED
    BY <1>6, <1>7, <1>8, <2>1, <2>2 DEF Begun
<1>10. JournalInv(g)
  BY <1>6, <1>7, <1>8 DEF JournalInv, Reached
<1> QED
  BY <1>5, <1>9, <1>10 DEF Intended

\* Its workflow is known.
LEMMA BoundRow ==
    ASSUME NEW j, JournalInv(j), j.failed = NoFailure, Trial(j) \in Trials, ~Ready(j), j.step = 1,
           NEW w \in Nat,
           NEW g, g = Extend(j, Row("WORKFLOW_BOUND", Trial(j), Phases(Trial(j))[j.phase], w))
    PROVE  /\ JournalInv(g)
           /\ g = BoundTo(j, w)
           /\ \A k \in PhaseKeys : Begun(g, k) <=> Begun(j, k)
<1> DEFINE row == Row("WORKFLOW_BOUND", Trial(j), Phases(Trial(j))[j.phase], w)
<1>1. /\ row.state = "WORKFLOW_BOUND" /\ row.trial = Trial(j) /\ row.content = w
      /\ row.phase = Phases(Trial(j))[j.phase]
  BY DEF Row
<1>2. Follows(j, row)
  BY <1>1 DEF Follows, InPhase, PhaseStates
<1>3. After(j, row) = [j EXCEPT !.step = 2, !.workflow = w]
  BY <1>1 DEF After
<1>4. j \in Journals /\ j.legal = TRUE
  BY DEF JournalInv
<1>5. g = [j EXCEPT !.step = 2, !.workflow = w]
  BY <1>2, <1>3, <1>4 DEF Extend
<1> HIDE DEF row
<1>a. 2 \in 0 .. 2
  OBVIOUS
<1>6. /\ g \in Journals /\ g.step = 2 /\ g.completed = j.completed /\ g.phase = j.phase
      /\ g.failed = j.failed /\ g.first = j.first /\ g.recovered = j.recovered
      /\ g.adopted = j.adopted /\ g.results = j.results /\ g.legal = TRUE
  BY <1>4, <1>5, <1>a DEF Journals
<1>7. Trial(g) = Trial(j) /\ Ready(g) = Ready(j)
  BY <1>6 DEF Trial, Ready
<1>8. \A k \in PhaseKeys : Past(g, k) <=> Past(j, k)
  BY <1>6, <1>7 DEF Past
<1>9. \A k \in PhaseKeys : Begun(g, k) <=> Begun(j, k)
  BY <1>6, <1>7, <1>8 DEF Begun
<1>10. JournalInv(g)
  BY <1>6, <1>7, <1>8 DEF JournalInv, Reached
<1> QED
  BY <1>5, <1>9, <1>10 DEF BoundTo

\* The phase has its results.
LEMMA ResultsRow ==
    ASSUME NEW j, JournalInv(j), j.failed = NoFailure, Trial(j) \in Trials, ~Ready(j), j.step = 2,
           NEW result \in [schedule : Outcomes, work : Outcomes, workflow : Nat], result # NoResult,
           NEW g, g = Extend(j, Row("RESULTS_OBTAINED", Trial(j), Phases(Trial(j))[j.phase], result))
    PROVE  /\ JournalInv(g)
           /\ g = Obtained(j, result)
           /\ \A k \in PhaseKeys : Begun(g, k) <=> Begun(j, k)
<1> DEFINE row == Row("RESULTS_OBTAINED", Trial(j), Phases(Trial(j))[j.phase], result)
<1>1. /\ row.state = "RESULTS_OBTAINED" /\ row.trial = Trial(j) /\ row.content = result
      /\ row.phase = Phases(Trial(j))[j.phase]
  BY DEF Row
<1>2. Follows(j, row)
  BY <1>1 DEF Follows, InPhase, PhaseStates
<1>3. After(j, row) = [j EXCEPT !.step = 0, !.workflow = 0, !.phase = j.phase + 1,
                                !.results = [j.results EXCEPT ![Here(j)] = result]]
  BY <1>1 DEF After, Here
<1>4. j \in Journals /\ j.legal = TRUE
  BY DEF JournalInv
<1>5. g = [j EXCEPT !.step = 0, !.workflow = 0, !.phase = j.phase + 1,
                    !.results = [j.results EXCEPT ![Here(j)] = result]]
  BY <1>2, <1>3, <1>4 DEF Extend
<1> HIDE DEF row
<1>a. /\ j.phase \in 1 .. Len(Phases(Trial(j))) /\ Len(Phases(Trial(j))) \in 1 .. 2
      /\ Here(j) \in PhaseKeys /\ IsPhase(Here(j)) /\ Index(Here(j)) = j.phase
      /\ Here(j)[1] = Trial(j)
  BY JournalAt, PhasesOf
<1>b. \A k \in PhaseKeys : IsPhase(k) /\ k[1] = Trial(j) /\ Index(k) = j.phase => k = Here(j)
  BY PhaseAt DEF Here
<1>6. /\ g.step = 0 /\ g.completed = j.completed /\ g.phase = j.phase + 1
      /\ g.failed = j.failed /\ g.first = j.first /\ g.recovered = j.recovered
      /\ g.adopted = j.adopted /\ g.legal = TRUE
      /\ g.results = [j.results EXCEPT ![Here(j)] = result]
  BY <1>4, <1>5 DEF Journals
<1>c. g \in Journals
  <2> DEFINE rs == [j.results EXCEPT ![Here(j)] = result]
             ph == j.phase + 1
  <2>1. rs \in [PhaseKeys -> [schedule : Outcomes, work : Outcomes, workflow : Nat]]
    BY <1>4 DEF Journals
  <2>2. ph \in 1 .. 3 /\ 0 \in 0 .. 2 /\ 0 \in Nat
    BY <1>a
  <2>3. g = [j EXCEPT !.step = 0, !.workflow = 0, !.phase = ph, !.results = rs]
    BY <1>5
  <2> HIDE DEF rs, ph
  <2> QED
    BY <1>4, <2>1, <2>2, <2>3 DEF Journals
<1>7. Trial(g) = Trial(j)
  BY <1>6 DEF Trial
<1>8. \A k \in PhaseKeys : Past(g, k) <=> Past(j, k) \/ k = Here(j)
  BY <1>6, <1>7, <1>a, <1>b DEF Past, Index
<1>9. \A k \in PhaseKeys : Begun(g, k) <=> Begun(j, k)
  BY <1>6, <1>7, <1>8, <1>a, <1>b DEF Begun
<1>10. \A k \in PhaseKeys : g.results[k] # NoResult <=> Past(g, k)
  <2>1. j.results \in [PhaseKeys -> [schedule : Outcomes, work : Outcomes, workflow : Nat]]
    BY <1>4 DEF Journals
  <2>2. \A k \in PhaseKeys : j.results[k] # NoResult <=> Past(j, k)
    BY DEF JournalInv
  <2> QED
    BY <1>6, <1>8, <2>1, <2>2
<1>11. \A k \in g.adopted : k[1] = Trial(g) => g.failed = NoFailure /\ (~Ready(g) => g.step = 2)
  <2> SUFFICES ASSUME NEW k \in j.adopted, k[1] = Trial(j) PROVE Ready(g)
    BY <1>6, <1>7
  <2>1. k[2] = "unconditional" /\ IsPhase(k)
    BY DEF JournalInv
  <2>2. Trial(j) \notin Conditional
    BY <2>1 DEF IsPhase
  <2>3. Len(Phases(Trial(j))) = 1
    BY <2>2, PhasesOf
  <2>4. g.phase > 1
    BY <1>6, <1>a
  <2> QED
    BY <1>7, <2>3, <2>4 DEF Ready
<1>12. Trial(g) \in Trials /\ g.phase <= Len(Phases(Trial(g))) + 1
  BY <1>6, <1>7, <1>a
<1>13. g.completed # N
  BY <1>6, JournalAt, ContainerAssumption DEF Trials
<1> HIDE DEF JournalInv
<1>14. JournalInv(g)
  BY <1>6, <1>7, <1>c, <1>10, <1>11, <1>12, <1>13 DEF JournalInv
<1> QED
  BY <1>5, <1>9, <1>14 DEF Obtained

\* The trial is complete.
LEMMA CompletedRow ==
    ASSUME NEW j, JournalInv(j), j.failed = NoFailure, Ready(j),
           NEW g, g = Extend(j, Row("TRIAL_COMPLETED", Trial(j), "trial", None))
    PROVE  /\ JournalInv(g)
           /\ g = Finished(j)
           /\ \A k \in PhaseKeys : Begun(g, k) <=> Begun(j, k)
<1> DEFINE row == Row("TRIAL_COMPLETED", Trial(j), "trial", None)
<1>1. row.state = "TRIAL_COMPLETED" /\ row.trial = Trial(j)
  BY DEF Row
<1>2. Follows(j, row)
  BY <1>1 DEF Follows, Ready
<1>3. After(j, row) = [j EXCEPT !.completed = j.completed + 1, !.phase = 1]
  BY <1>1 DEF After
<1>4. j \in Journals /\ j.legal = TRUE
  BY DEF JournalInv
<1>5. g = [j EXCEPT !.completed = j.completed + 1, !.phase = 1]
  BY <1>2, <1>3, <1>4 DEF Extend
<1> HIDE DEF row
<1>a. Trial(j) \in Trials /\ j.step = 0 /\ j.phase > Len(Phases(Trial(j))) /\ j.phase \in 1 .. 3
  <2>1. j.step \in 0 .. 2 /\ j.phase \in 1 .. 3
    BY JournalAt
  <2>2. ~(j.step > 0)
    BY DEF JournalInv
  <2> QED
    BY <2>1, <2>2 DEF Ready
<1>b. Trial(j) = j.completed + 1 /\ j.completed \in 0 .. N
  BY JournalAt
<1>c. j.completed + 1 \in 0 .. N
  BY <1>a, <1>b, ContainerAssumption DEF Trials
<1>d. Len(Phases(Trial(j))) \in 1 .. 2
  BY <1>a, PhasesOf
<1>6. /\ g \in Journals /\ g.step = 0 /\ g.completed = j.completed + 1 /\ g.phase = 1
      /\ g.failed = j.failed /\ g.first = j.first /\ g.recovered = j.recovered
      /\ g.adopted = j.adopted /\ g.results = j.results /\ g.legal = TRUE
  <2> DEFINE c == j.completed + 1
  <2>1. c \in 0 .. N /\ 1 \in 1 .. 3
    BY <1>c
  <2>2. g = [j EXCEPT !.completed = c, !.phase = 1]
    BY <1>5
  <2> HIDE DEF c
  <2>3. /\ g \in Journals /\ g.step = j.step /\ g.completed = c /\ g.phase = 1
        /\ g.failed = j.failed /\ g.first = j.first /\ g.recovered = j.recovered
        /\ g.adopted = j.adopted /\ g.results = j.results /\ g.legal = TRUE
    BY <1>4, <2>1, <2>2 DEF Journals
  <2> QED
    BY <1>a, <2>3 DEF c
<1>7. Trial(g) = Trial(j) + 1 /\ Trial(j) \in Nat
  BY <1>6, <1>b DEF Trial
<1>8. \A k \in PhaseKeys : Past(g, k) <=> Past(j, k)
  <2> SUFFICES ASSUME NEW k \in PhaseKeys, IsPhase(k) PROVE Past(g, k) <=> Past(j, k)
    BY DEF Past
  <2>1. k[1] \in Nat /\ Index(k) \in 1 .. 2
    BY DEF PhaseKeys, Trials, Index
  <2>2. k[1] = Trial(j) => Index(k) < j.phase
    BY <1>a, <1>d, <2>1, PhaseAt
  <2>3. ~(Index(k) < g.phase)
    BY <1>6, <2>1
  <2>4. k[1] < Trial(g) <=> k[1] < Trial(j) \/ k[1] = Trial(j)
    BY <1>7, <2>1
  <2> QED
    BY <2>2, <2>3, <2>4 DEF Past
<1>9. \A k \in PhaseKeys : Begun(g, k) <=> Begun(j, k)
  BY <1>6, <1>8, <1>a DEF Begun
<1>10. \A k \in g.adopted : k[1] <= Trial(g) /\ k[1] # Trial(g)
  <2> SUFFICES ASSUME NEW k \in j.adopted PROVE k[1] <= Trial(g) /\ k[1] # Trial(g)
    BY <1>6
  <2>1. k \in PhaseKeys /\ k[1] <= Trial(j)
    BY <1>4 DEF JournalInv, Journals
  <2>2. k[1] \in Nat
    BY <2>1 DEF PhaseKeys, Trials
  <2> QED
    BY <1>7, <2>1, <2>2
<1>11. Trial(g) \in Trials => g.phase <= Len(Phases(Trial(g))) + 1
  BY <1>6, PhasesOf
<1>12. JournalInv(g)
  BY <1>6, <1>8, <1>10, <1>11 DEF JournalInv
<1> QED
  BY <1>5, <1>9, <1>12 DEF Finished

\* The run fails.
LEMMA FailedRow ==
    ASSUME NEW j, JournalInv(j), j.failed = NoFailure, Trial(j) \in Trials,
           NEW f \in Failures, f.trial = Trial(j), f.phase # "none", Reached(j, f.phase),
           \A k \in j.adopted : k[1] # Trial(j),
           NEW g, g = Extend(j, Row("RUN_FAILED", f.trial, f.phase, f))
    PROVE  /\ JournalInv(g)
           /\ g = FailedWith(j, f)
           /\ \A k \in PhaseKeys : Begun(g, k) <=> Begun(j, k)
<1> DEFINE row == Row("RUN_FAILED", f.trial, f.phase, f)
           first == IF j.first = NoFailure THEN f ELSE j.first
<1>1. row.state = "RUN_FAILED" /\ row.trial = Trial(j) /\ row.content = f
  BY DEF Row
<1>2. Follows(j, row)
  BY <1>1 DEF Follows
<1>3. After(j, row) = [j EXCEPT !.failed = f, !.first = first]
  BY <1>1 DEF After
<1>4. j \in Journals /\ j.legal = TRUE
  BY DEF JournalInv
<1>5. g = [j EXCEPT !.failed = f, !.first = first]
  BY <1>2, <1>3, <1>4 DEF Extend
<1>a. first \in Failures /\ first # NoFailure
  <2>1. j.first \in Failures
    BY <1>4 DEF Journals
  <2>2. f # NoFailure
    BY DEF NoFailure
  <2> QED
    BY <2>1, <2>2
<1> HIDE DEF row, first
<1>6. /\ g \in Journals /\ g.step = j.step /\ g.completed = j.completed /\ g.phase = j.phase
      /\ g.failed = f /\ g.first = first /\ g.recovered = j.recovered
      /\ g.adopted = j.adopted /\ g.results = j.results /\ g.legal = TRUE
  BY <1>4, <1>5, <1>a DEF Journals
<1>7. Trial(g) = Trial(j) /\ Ready(g) = Ready(j)
  BY <1>6 DEF Trial, Ready
<1>8. \A k \in PhaseKeys : Past(g, k) <=> Past(j, k)
  BY <1>6, <1>7 DEF Past
<1>9. \A k \in PhaseKeys : Begun(g, k) <=> Begun(j, k)
  BY <1>6, <1>7, <1>8 DEF Begun
<1>10. JournalInv(g)
  BY <1>6, <1>7, <1>8, <1>a DEF JournalInv, Reached
<1> QED
  BY <1>5, <1>9, <1>10 DEF FailedWith, first

\* The failed phase, which was bound, is to be submitted again.
LEMMA RecoveryRow ==
    ASSUME NEW j, JournalInv(j), j.failed # NoFailure, j.step = 2,
           j.failed.phase = Phases(Trial(j))[j.phase],
           <<j.failed.trial, j.failed.phase>> \notin j.recovered,
           NEW g, g = Extend(j, Row("INFRASTRUCTURE_RECOVERY_AUTHORIZED",
                                    j.failed.trial, j.failed.phase, None))
    PROVE  /\ JournalInv(g)
           /\ g = Recovered(j)
           /\ \A k \in PhaseKeys : Begun(g, k) <=> Begun(j, k) /\ k # Here(j)
<1> DEFINE row == Row("INFRASTRUCTURE_RECOVERY_AUTHORIZED", j.failed.trial, j.failed.phase, None)
           rec == j.recovered \cup {Here(j)}
<1>a. j.failed.trial = Trial(j) /\ Trial(j) \in Trials /\ ~Ready(j)
  BY DEF JournalInv
<1>b. /\ Here(j) \in PhaseKeys /\ IsPhase(Here(j)) /\ Index(Here(j)) = j.phase
      /\ Here(j)[1] = Trial(j)
  BY <1>a, JournalAt
<1>1. /\ row.state = "INFRASTRUCTURE_RECOVERY_AUTHORIZED" /\ row.trial = Trial(j)
      /\ row.phase = Phases(Trial(j))[j.phase] /\ <<row.trial, row.phase>> = Here(j)
      /\ <<row.trial, row.phase>> \notin j.recovered
  BY <1>a DEF Row, Here
<1>2. Follows(j, row)
  BY <1>1, <1>a DEF Follows, InPhase
<1>3. After(j, row) = [j EXCEPT !.failed = NoFailure, !.step = 0, !.workflow = 0, !.recovered = rec]
  BY <1>1 DEF After
<1>4. j \in Journals /\ j.legal = TRUE
  BY DEF JournalInv
<1>5. g = [j EXCEPT !.failed = NoFailure, !.step = 0, !.workflow = 0, !.recovered = rec]
  BY <1>2, <1>3, <1>4 DEF Extend
<1>c. rec \in SUBSET PhaseKeys /\ NoFailure \in Failures /\ 0 \in 0 .. 2 /\ 0 \in Nat
  BY <1>4, <1>b, ContainerAssumption DEF Journals, NoFailure, Failures
<1> HIDE DEF row, rec
<1>6. /\ g \in Journals /\ g.step = 0 /\ g.completed = j.completed /\ g.phase = j.phase
      /\ g.failed = NoFailure /\ g.first = j.first /\ g.recovered = rec
      /\ g.adopted = j.adopted /\ g.results = j.results /\ g.legal = TRUE
  BY <1>4, <1>5, <1>c DEF Journals
<1>7. Trial(g) = Trial(j) /\ Ready(g) = Ready(j)
  BY <1>6 DEF Trial, Ready
<1>8. \A k \in PhaseKeys : Past(g, k) <=> Past(j, k)
  BY <1>6, <1>7 DEF Past
<1>9. \A k \in PhaseKeys : Begun(g, k) <=> Begun(j, k) /\ k # Here(j)
  <2>1. \A k \in PhaseKeys : IsPhase(k) /\ k[1] = Trial(j) /\ Index(k) = j.phase => k = Here(j)
    BY PhaseAt DEF Here
  <2>2. ~Past(g, Here(j))
    BY <1>b, <1>6, <1>7, JournalAt DEF Past
  <2> QED
    BY <1>6, <1>7, <1>8, <2>1, <2>2 DEF Begun
<1>10. \A k \in g.recovered : IsPhase(k)
  BY <1>6, <1>b DEF rec, JournalInv
<1>11. JournalInv(g)
  BY <1>6, <1>7, <1>8, <1>10 DEF JournalInv
<1> QED
  BY <1>5, <1>9, <1>11 DEF Recovered, rec

\* The replayed results of the phase are to be taken as they are.
LEMMA AdoptionRow ==
    ASSUME NEW j, JournalInv(j), j.failed.error = "replayed", j.step = 2,
           <<Trial(j), "unconditional">> \in j.recovered,
           NEW g, g = Extend(j, Row("REPLAY_RESULTS_ADOPTION_AUTHORIZED",
                                    Trial(j), "unconditional", None))
    PROVE  /\ JournalInv(g)
           /\ g = AdoptedHere(j)
           /\ Here(j) = <<Trial(j), "unconditional">>
           /\ \A k \in PhaseKeys : Begun(g, k) <=> Begun(j, k)
<1> DEFINE row == Row("REPLAY_RESULTS_ADOPTION_AUTHORIZED", Trial(j), "unconditional", None)
           ad == j.adopted \cup {Here(j)}
<1>a. j.failed # NoFailure /\ Trial(j) \in Trials /\ ~Ready(j)
  BY DEF JournalInv, NoFailure
<1>b. /\ Here(j) \in PhaseKeys /\ IsPhase(Here(j)) /\ Index(Here(j)) = j.phase
      /\ Here(j)[1] = Trial(j) /\ Here(j)[2] = Phases(Trial(j))[j.phase]
  BY <1>a, JournalAt
<1>d. Here(j) = <<Trial(j), "unconditional">> /\ Phases(Trial(j))[j.phase] = "unconditional"
  <2>1. IsPhase(<<Trial(j), "unconditional">>)
    BY DEF JournalInv
  <2>2. Trial(j) \notin Conditional
    BY <2>1 DEF IsPhase
  <2>3. Here(j)[2] = "unconditional"
    BY <1>b, <2>2 DEF IsPhase
  <2> QED
    BY <1>b, <2>3 DEF Here
<1>e. <<Trial(j), "unconditional">> \notin j.adopted
  BY <1>a DEF JournalInv
<1>1. /\ row.state = "REPLAY_RESULTS_ADOPTION_AUTHORIZED" /\ row.trial = Trial(j)
      /\ row.phase = Phases(Trial(j))[j.phase] /\ <<row.trial, row.phase>> = Here(j)
      /\ <<row.trial, row.phase>> \in j.recovered \ j.adopted
  BY <1>d, <1>e DEF Row
<1>2. Follows(j, row)
  BY <1>1, <1>a DEF Follows, InPhase
<1>3. After(j, row) = [j EXCEPT !.failed = NoFailure, !.adopted = ad]
  BY <1>1 DEF After
<1>4. j \in Journals /\ j.legal = TRUE
  BY DEF JournalInv
<1>5. g = [j EXCEPT !.failed = NoFailure, !.adopted = ad]
  BY <1>2, <1>3, <1>4 DEF Extend
<1>c. ad \in SUBSET PhaseKeys /\ NoFailure \in Failures
  BY <1>4, <1>b, ContainerAssumption DEF Journals, NoFailure, Failures
<1> HIDE DEF row, ad
<1>6. /\ g \in Journals /\ g.step = j.step /\ g.completed = j.completed /\ g.phase = j.phase
      /\ g.failed = NoFailure /\ g.first = j.first /\ g.recovered = j.recovered
      /\ g.adopted = ad /\ g.results = j.results /\ g.legal = TRUE
  BY <1>4, <1>5, <1>c DEF Journals
<1>7. Trial(g) = Trial(j) /\ Ready(g) = Ready(j)
  BY <1>6 DEF Trial, Ready
<1>8. \A k \in PhaseKeys : Past(g, k) <=> Past(j, k)
  BY <1>6, <1>7 DEF Past
<1>9. \A k \in PhaseKeys : Begun(g, k) <=> Begun(j, k)
  BY <1>6, <1>7, <1>8 DEF Begun
<1>10. Trial(j) <= Trial(j)
  BY JournalAt
<1>11. \A k \in g.adopted : k[2] = "unconditional" /\ IsPhase(k) /\ k[1] <= Trial(g)
  BY <1>6, <1>7, <1>b, <1>d, <1>10 DEF ad, JournalInv
<1>12. JournalInv(g)
  BY <1>6, <1>7, <1>8, <1>11 DEF JournalInv
<1> QED
  BY <1>5, <1>d, <1>9, <1>12 DEF AdoptedHere, ad

-----------------------------------------------------------------------------
(* FlowMesh and the nodes.                                                 *)

Flows == [key : PhaseKeys, status : {"RUNNING", "DONE", "FAILED"},
          schedule : Outcomes, work : Outcomes]

\* What FlowMesh does with the workflows it has: what ended is left alone,
\* and nothing becomes active.
Later(ws, vs) ==
    /\ DOMAIN vs = DOMAIN ws
    /\ \A w \in DOMAIN ws :
          /\ vs[w].key = ws[w].key
          /\ ws[w].status # "RUNNING" => vs[w] = ws[w]
          /\ Active(vs[w]) => Active(ws[w])

LEMMA LaterKeeps ==
    ASSUME NEW ws, NEW vs, Later(ws, vs)
    PROVE  /\ \A k : NoneActive(ws, k) => NoneActive(vs, k)
           /\ \A w, k : Sole(ws, w, k) => Sole(vs, w, k)
           /\ \A r, k, c : Measured(ws, r, k, c) => Measured(vs, r, k, c)
<1>1. \A k : NoneActive(ws, k) => NoneActive(vs, k)
  BY DEF Later, NoneActive
<1>2. \A w, k : Sole(ws, w, k) => Sole(vs, w, k)
  BY DEF Later, Sole
<1>3. \A r, k, c : Measured(ws, r, k, c) => Measured(vs, r, k, c)
  BY DEF Later, Measured
<1> QED
  BY <1>1, <1>2, <1>3

LEMMA JournalLater ==
    ASSUME NEW ws, NEW vs, Later(ws, vs), NEW j, JournalInv(j), NEW c, JournalMesh(j, ws, c)
    PROVE  JournalMesh(j, vs, c)
<1>1. \A k \in PhaseKeys : ~Begun(j, k) => NoneActive(vs, k)
  BY LaterKeeps DEF JournalMesh
<1>2. j.step = 2 => Sole(vs, j.workflow, Here(j))
  BY LaterKeeps DEF JournalMesh
<1>3. \A k \in PhaseKeys : j.results[k] # NoResult => Measured(vs, j.results[k], k, c)
  BY LaterKeeps DEF JournalMesh
<1>4. ASSUME NEW k \in j.adopted, k[1] = Trial(j), ~Ready(j)
      PROVE  LET flow == vs[j.workflow] IN
             /\ flow.status = "DONE" /\ flow.schedule.kind = "replay"
             /\ flow.work.kind = "fresh" /\ flow.work.epoch = c
  <2>1. j.step = 2
    BY <1>4 DEF JournalInv
  <2>2. j.workflow \in DOMAIN ws
    BY <2>1 DEF JournalMesh, Sole
  <2>3. ws[j.workflow].status = "DONE"
    BY <1>4 DEF JournalMesh
  <2>4. vs[j.workflow] = ws[j.workflow]
    BY <2>2, <2>3 DEF Later
  <2> QED
    BY <1>4, <2>4 DEF JournalMesh
<1> QED
  BY <1>1, <1>2, <1>3, <1>4 DEF JournalMesh

\* One workflow changes, of a phase whose work nobody else sends.
LEMMA FlowChanges ==
    ASSUME MeshInv, MeshTypeOK, NEW w \in DOMAIN workflows, workflows[w].status = "RUNNING",
           NEW flow \in Flows, flow.key = workflows[w].key, FlowInv(flow),
           workflows' = [workflows EXCEPT ![w] = flow],
           sent' = IF flow.work.kind = "pending" THEN sent
                   ELSE [sent EXCEPT ![workflows[w].key] = sent[workflows[w].key] + 1]
    PROVE  MeshInv' /\ Later(workflows, workflows') /\ workflows' \in Seq(Flows)
           /\ sent' \in [PhaseKeys -> Nat]
<1> DEFINE key == workflows[w].key
<1>1. workflows \in Seq(Flows) /\ sent \in [PhaseKeys -> Nat]
  BY DEF MeshTypeOK, Flows
<1>2. key \in PhaseKeys
  <2>1. workflows[w] \in Flows
    BY <1>1
  <2> QED
    BY <2>1 DEF Flows
<1>3. /\ DOMAIN workflows' = DOMAIN workflows /\ workflows' \in Seq(Flows) /\ workflows'[w] = flow
      /\ \A v \in DOMAIN workflows : v # w => workflows'[v] = workflows[v]
  BY <1>1
<1>4. Active(workflows[w])
  BY DEF Active
<1>5. Later(workflows, workflows')
  BY <1>3, <1>4 DEF Later
<1>6. Sole(workflows, w, key)
  BY <1>4 DEF MeshInv
<1>7. sent[key] = 0
  <2>1. \A v \in DOMAIN workflows : workflows[v].key = key => workflows[v].work.kind = "pending"
    BY <1>6 DEF Sole, Active, MeshInv, FlowInv
  <2> QED
    BY <1>2, <2>1 DEF MeshInv
<1>8. \A v \in DOMAIN workflows' : FlowInv(workflows'[v])
  BY <1>3 DEF MeshInv
<1>9. ASSUME NEW v \in DOMAIN workflows', Active(workflows'[v])
      PROVE  Sole(workflows', v, workflows'[v].key)
  <2>1. Active(workflows[v]) /\ workflows'[v].key = workflows[v].key
    BY <1>3, <1>5, <1>9 DEF Later
  <2>2. Sole(workflows, v, workflows[v].key)
    BY <1>3, <2>1 DEF MeshInv
  <2> QED
    BY <1>5, <2>1, <2>2, LaterKeeps
<1>10. ASSUME NEW k \in PhaseKeys
       PROVE  /\ sent'[k] \in {0, 1} /\ sent'[k] \in Nat
              /\ sent'[k] = 1 <=> \E v \in DOMAIN workflows' :
                                     workflows'[v].key = k /\ workflows'[v].work.kind # "pending"
  <2>1. /\ sent[k] \in {0, 1}
        /\ sent[k] = 1 <=> \E v \in DOMAIN workflows :
                              workflows[v].key = k /\ workflows[v].work.kind # "pending"
    BY DEF MeshInv
  <2>2. workflows[w].work.kind = "pending"
    BY DEF MeshInv, FlowInv
  <2>3. CASE k # key
    <3>1. sent'[k] = sent[k]
      BY <1>1, <2>3
    <3> QED
      BY <1>3, <2>1, <2>3, <3>1
  <2>4. CASE k = key /\ flow.work.kind = "pending"
    <3>1. sent'[k] = sent[k]
      BY <2>4
    <3> QED
      BY <1>3, <2>1, <2>2, <2>4, <3>1
  <2>5. CASE k = key /\ flow.work.kind # "pending"
    <3>1. sent'[k] = 1
      BY <1>1, <1>7, <2>5
    <3> QED
      BY <1>3, <2>5, <3>1
  <2> QED
    BY <2>3, <2>4, <2>5
<1>11. sent' \in [PhaseKeys -> Nat]
  BY <1>1, <1>2
<1> QED
  BY <1>3, <1>5, <1>8, <1>9, <1>10, <1>11 DEF MeshInv

\* Every step of FlowMesh and the nodes.
LEMMA MeshSteps ==
    ASSUME MeshInv, MeshTypeOK, Mesh
    PROVE  MeshInv' /\ MeshTypeOK' /\ Later(workflows, workflows')
<1> USE ContainerAssumption
<1>1. /\ workflows \in Seq(Flows) /\ sent \in [PhaseKeys -> Nat] /\ epoch \in 0 .. MaxRestarts
      /\ ledger \subseteq PhaseKeys \X {"schedule", "work"} /\ failures \in Nat
  BY DEF MeshTypeOK, Flows
<1>2. \A class \in DeliveryFailures \cup {"fresh", "replay", "failed"} :
         /\ Outcome(class) \in Outcomes /\ Outcome(class).kind = class
         /\ class # "none" /\ class # "pending"
  BY <1>1 DEF Outcome, Outcomes, DeliveryFailures
<1>3. \A k, o : Answer(k, o) \in Outcomes /\ Answer(k, o).kind \in {"fresh", "replay"}
  BY <1>2 DEF Answer
<1>4. ASSUME NEW w \in DOMAIN workflows
      PROVE  /\ workflows[w] \in Flows /\ workflows[w].key \in PhaseKeys
             /\ workflows[w].schedule \in Outcomes /\ workflows[w].work \in Outcomes
             /\ FlowInv(workflows[w])
  <2>1. workflows[w] \in Flows
    BY <1>1
  <2> QED
    BY <2>1 DEF Flows, MeshInv
<1>5. ASSUME NEW w \in DOMAIN workflows, RunSchedule(w)
      PROVE  MeshInv' /\ MeshTypeOK' /\ Later(workflows, workflows')
  <2> DEFINE flow == workflows[w]
             new == [flow EXCEPT !.schedule = Answer(flow.key, "schedule")]
  <2>1. flow.status = "RUNNING" /\ flow.schedule.kind = "pending" /\ flow.work.kind = "pending"
    BY <1>4, <1>5 DEF RunSchedule, Pending, FlowInv
  <2>2. /\ new \in Flows /\ new.key = flow.key /\ new.status = flow.status /\ new.work = flow.work
        /\ new.schedule.kind \in {"fresh", "replay"}
    BY <1>3, <1>4 DEF Flows
  <2>3. workflows' = [workflows EXCEPT ![w] = new] /\ sent' = sent
    BY <1>5 DEF RunSchedule
  <2>4. FlowInv(new)
    BY <1>4, <2>1, <2>2 DEF FlowInv
  <2> HIDE DEF new
  <2>5. MeshInv' /\ Later(workflows, workflows') /\ workflows' \in Seq(Flows) /\ sent' \in [PhaseKeys -> Nat]
    BY <2>1, <2>2, <2>3, <2>4, FlowChanges
  <2>6. /\ ledger' \subseteq PhaseKeys \X {"schedule", "work"}
        /\ epoch' = epoch /\ failures' = failures
    BY <1>1, <1>4, <1>5 DEF RunSchedule
  <2> QED
    BY <1>1, <2>5, <2>6 DEF MeshTypeOK, Flows
<1>6. ASSUME NEW w \in DOMAIN workflows, NEW class \in DeliveryFailures, NEW executed \in BOOLEAN,
             ScheduleFails(w, class, executed)
      PROVE  MeshInv' /\ MeshTypeOK' /\ Later(workflows, workflows')
  <2> DEFINE flow == workflows[w]
             new == [flow EXCEPT !.schedule = Outcome(class), !.status = "FAILED"]
  <2>1. flow.status = "RUNNING" /\ flow.schedule.kind = "pending" /\ flow.work.kind = "pending"
    BY <1>4, <1>6 DEF ScheduleFails, Pending, FlowInv
  <2>2. /\ new \in Flows /\ new.key = flow.key /\ new.status = "FAILED" /\ new.work = flow.work
        /\ new.schedule.kind # "none"
    BY <1>2, <1>4 DEF Flows
  <2>3. workflows' = [workflows EXCEPT ![w] = new] /\ sent' = sent
    BY <1>6 DEF ScheduleFails
  <2>4. FlowInv(new)
    BY <1>4, <2>1, <2>2 DEF FlowInv
  <2> HIDE DEF new
  <2>5. MeshInv' /\ Later(workflows, workflows') /\ workflows' \in Seq(Flows) /\ sent' \in [PhaseKeys -> Nat]
    BY <2>1, <2>2, <2>3, <2>4, FlowChanges
  <2>6. ledger' \subseteq PhaseKeys \X {"schedule", "work"}
    BY <1>1, <1>4, <1>6 DEF ScheduleFails
  <2>7. epoch' = epoch /\ failures' \in Nat
    BY <1>1, <1>6 DEF ScheduleFails, CanFail
  <2> QED
    BY <1>1, <2>5, <2>6, <2>7 DEF MeshTypeOK, Flows
<1>7. ASSUME NEW w \in DOMAIN workflows, RunWork(w)
      PROVE  MeshInv' /\ MeshTypeOK' /\ Later(workflows, workflows')
  <2> DEFINE flow == workflows[w]
             new == [flow EXCEPT !.work = Answer(flow.key, "work"), !.status = "DONE"]
  <2>1. flow.status = "RUNNING"
    BY <1>7 DEF RunWork
  <2>2. /\ new \in Flows /\ new.key = flow.key /\ new.status = "DONE" /\ new.schedule = flow.schedule
        /\ new.work.kind \in {"fresh", "replay"}
    BY <1>3, <1>4 DEF Flows
  <2>3. workflows' = [workflows EXCEPT ![w] = new] /\ sent' = [sent EXCEPT ![flow.key] = sent[flow.key] + 1]
    BY <1>7 DEF RunWork
  <2>4. FlowInv(new)
    BY <1>4, <2>1, <2>2 DEF FlowInv
  <2> HIDE DEF new
  <2>5. MeshInv' /\ Later(workflows, workflows') /\ workflows' \in Seq(Flows) /\ sent' \in [PhaseKeys -> Nat]
    BY <2>1, <2>2, <2>3, <2>4, FlowChanges
  <2>6. /\ ledger' \subseteq PhaseKeys \X {"schedule", "work"}
        /\ epoch' = epoch /\ failures' = failures
    BY <1>1, <1>4, <1>7 DEF RunWork
  <2> QED
    BY <1>1, <2>5, <2>6 DEF MeshTypeOK, Flows
<1>8. ASSUME NEW w \in DOMAIN workflows, WorkFails(w)
      PROVE  MeshInv' /\ MeshTypeOK' /\ Later(workflows, workflows')
  <2> DEFINE flow == workflows[w]
             new == [flow EXCEPT !.work = Outcome("failed"), !.status = "FAILED"]
  <2>1. flow.status = "RUNNING"
    BY <1>8 DEF WorkFails
  <2>2. /\ new \in Flows /\ new.key = flow.key /\ new.status = "FAILED" /\ new.schedule = flow.schedule
        /\ new.work.kind = "failed"
    BY <1>2, <1>4 DEF Flows
  <2>3. workflows' = [workflows EXCEPT ![w] = new] /\ sent' = [sent EXCEPT ![flow.key] = sent[flow.key] + 1]
    BY <1>8 DEF WorkFails
  <2>4. FlowInv(new)
    BY <1>4, <2>1, <2>2 DEF FlowInv
  <2> HIDE DEF new
  <2>5. MeshInv' /\ Later(workflows, workflows') /\ workflows' \in Seq(Flows) /\ sent' \in [PhaseKeys -> Nat]
    BY <2>1, <2>2, <2>3, <2>4, FlowChanges
  <2>6. ledger' \subseteq PhaseKeys \X {"schedule", "work"}
    BY <1>1, <1>4, <1>8 DEF WorkFails
  <2>7. epoch' = epoch /\ failures' \in Nat
    BY <1>1, <1>8 DEF WorkFails, CanFail
  <2> QED
    BY <1>1, <2>5, <2>6, <2>7 DEF MeshTypeOK, Flows
<1>9. ASSUME NodeRestart
      PROVE  MeshInv' /\ MeshTypeOK' /\ Later(workflows, workflows')
  BY <1>1, <1>9 DEF NodeRestart, MeshInv, MeshTypeOK, Later
<1> QED
  BY <1>5, <1>6, <1>7, <1>8, <1>9 DEF Mesh

\* A workflow is accepted for a phase that nobody's work is sent for.
LEMMA Accepted ==
    ASSUME MeshInv, MeshTypeOK, NEW k \in PhaseKeys, NoneActive(workflows, k), Accept(k),
           UNCHANGED <<sent, ledger, epoch>>, failures' \in Nat,
           NEW j, JournalInv(j), NEW c, JournalMesh(j, workflows, c), Begun(j, k), j.step # 2
    PROVE  /\ MeshInv' /\ MeshTypeOK' /\ Len(workflows) + 1 \in Nat
           /\ Sole(workflows', Len(workflows) + 1, k) /\ JournalMesh(j, workflows', c)
<1> DEFINE n == Len(workflows) + 1
           new == Workflow(k)
<1>1. workflows \in Seq(Flows) /\ DOMAIN workflows = 1 .. Len(workflows) /\ Len(workflows) \in Nat
  BY DEF MeshTypeOK, Flows
<1>2. /\ new \in Flows /\ new.key = k /\ new.status = "RUNNING" /\ new.work.kind = "pending"
      /\ FlowInv(new) /\ Active(new)
  BY ContainerAssumption
     DEF Workflow, Flows, Outcomes, Pending, Absent, FlowInv, Active
<1>3. workflows' = Append(workflows, new)
  BY DEF Accept
<1> HIDE DEF new
<1>4. /\ workflows' \in Seq(Flows) /\ DOMAIN workflows' = 1 .. n /\ workflows'[n] = new
      /\ n \notin DOMAIN workflows
      /\ \A v \in DOMAIN workflows : v \in DOMAIN workflows' /\ workflows'[v] = workflows[v]
  BY <1>1, <1>2, <1>3
<1>5. \A v \in DOMAIN workflows' : v \in DOMAIN workflows \/ v = n
  BY <1>1, <1>4
<1>6. n \in DOMAIN workflows' /\ n \in Nat
  BY <1>1, <1>4
<1> HIDE DEF n
<1>7. Sole(workflows', n, k)
  BY <1>2, <1>4, <1>5, <1>6 DEF Sole, NoneActive
<1>8. \A v \in DOMAIN workflows' : FlowInv(workflows'[v])
  BY <1>2, <1>4, <1>5 DEF MeshInv
<1>9. ASSUME NEW v \in DOMAIN workflows', Active(workflows'[v])
      PROVE  Sole(workflows', v, workflows'[v].key)
  <2>1. CASE v = n
    BY <1>2, <1>4, <1>7, <2>1
  <2>2. CASE v \in DOMAIN workflows
    <3>1. workflows'[v] = workflows[v] /\ Sole(workflows, v, workflows[v].key)
      BY <1>4, <1>9, <2>2 DEF MeshInv
    <3>2. workflows[v].key # k
      BY <1>9, <2>2, <3>1 DEF NoneActive
    <3> QED
      BY <1>2, <1>4, <1>5, <3>1, <3>2 DEF Sole
  <2> QED
    BY <1>5, <2>1, <2>2
<1>10. \A x \in PhaseKeys :
          (\E v \in DOMAIN workflows' : workflows'[v].key = x /\ workflows'[v].work.kind # "pending")
          <=> (\E v \in DOMAIN workflows : workflows[v].key = x /\ workflows[v].work.kind # "pending")
  BY <1>2, <1>4, <1>5
<1>11. MeshInv'
  BY <1>8, <1>9, <1>10 DEF MeshInv
<1>12. MeshTypeOK'
  BY <1>4 DEF MeshTypeOK, Flows
<1>13. \A x \in PhaseKeys : ~Begun(j, x) => NoneActive(workflows', x)
  <2> SUFFICES ASSUME NEW x \in PhaseKeys, ~Begun(j, x) PROVE NoneActive(workflows', x)
    OBVIOUS
  <2>1. NoneActive(workflows, x) /\ x # k
    BY DEF JournalMesh
  <2> QED
    BY <1>2, <1>4, <1>5, <2>1 DEF NoneActive
<1>14. \A x \in PhaseKeys : j.results[x] # NoResult => Measured(workflows', j.results[x], x, c)
  BY <1>4 DEF JournalMesh, Measured
<1>15. \A x \in j.adopted : x[1] = Trial(j) => Ready(j)
  BY DEF JournalInv
<1> QED
  BY <1>6, <1>7, <1>11, <1>12, <1>13, <1>14, <1>15 DEF n, JournalMesh

-----------------------------------------------------------------------------
(* The rows of the journal and the workflows they speak of.                *)

LEMMA IntentMesh ==
    ASSUME NEW j, JournalInv(j), j.failed = NoFailure, Trial(j) \in Trials, ~Ready(j), j.step = 0,
           NEW g, g = Extend(j, Row("SUBMISSION_INTENT", Trial(j), Phases(Trial(j))[j.phase], None)),
           NEW ws, NEW c, JournalMesh(j, ws, c)
    PROVE  JournalMesh(g, ws, c) /\ NoneActive(ws, Here(g)) /\ Here(g) \in PhaseKeys /\ Begun(g, Here(g))
<1>1. /\ JournalInv(g) /\ g = Intended(j)
      /\ \A k \in PhaseKeys : Begun(g, k) <=> Begun(j, k) \/ k = Here(j)
  BY IntentRow
<1>2. j \in Journals
  BY DEF JournalInv
<1>3. /\ g.step = 1 /\ g.completed = j.completed /\ g.phase = j.phase
      /\ g.results = j.results /\ g.adopted = j.adopted
  BY <1>1, <1>2 DEF Journals, Intended
<1>4. Trial(g) = Trial(j) /\ Here(g) = Here(j)
  BY <1>3 DEF Trial, Here
<1>5. Here(j) \in PhaseKeys /\ IsPhase(Here(j)) /\ Index(Here(j)) = j.phase /\ Here(j)[1] = Trial(j)
  BY JournalAt
<1>6. ~Begun(j, Here(j))
  BY <1>5, JournalAt DEF Begun, Past
<1>7. \A k \in g.adopted : k[1] = Trial(g) => Ready(g)
  BY <1>1, <1>3 DEF JournalInv
<1> QED
  BY <1>1, <1>3, <1>4, <1>5, <1>6, <1>7 DEF JournalMesh

LEMMA BoundMesh ==
    ASSUME NEW j, JournalInv(j), j.failed = NoFailure, Trial(j) \in Trials, ~Ready(j), j.step = 1,
           NEW w \in Nat,
           NEW g, g = Extend(j, Row("WORKFLOW_BOUND", Trial(j), Phases(Trial(j))[j.phase], w)),
           NEW ws, NEW c, JournalMesh(j, ws, c), Sole(ws, w, Here(j))
    PROVE  JournalMesh(g, ws, c)
<1>1. /\ JournalInv(g) /\ g = BoundTo(j, w)
      /\ \A k \in PhaseKeys : Begun(g, k) <=> Begun(j, k)
  BY BoundRow
<1>2. j \in Journals
  BY DEF JournalInv
<1>3. /\ g.step = 2 /\ g.completed = j.completed /\ g.phase = j.phase /\ g.workflow = w
      /\ g.results = j.results /\ g.adopted = j.adopted
  BY <1>1, <1>2 DEF Journals, BoundTo
<1>4. Trial(g) = Trial(j) /\ Here(g) = Here(j) /\ Ready(g) = Ready(j)
  BY <1>3 DEF Trial, Here, Ready
<1>5. \A k \in g.adopted : k[1] = Trial(g) => Ready(g)
  BY <1>3, <1>4 DEF JournalInv
<1> QED
  BY <1>1, <1>3, <1>4, <1>5 DEF JournalMesh

LEMMA ResultsMesh ==
    ASSUME NEW j, JournalInv(j), j.failed = NoFailure, Trial(j) \in Trials, ~Ready(j), j.step = 2,
           NEW ws, NEW c, JournalMesh(j, ws, c), ws[j.workflow].status = "DONE",
           NEW result \in [schedule : Outcomes, work : Outcomes, workflow : Nat],
           result.schedule = ws[j.workflow].schedule, result.work = ws[j.workflow].work,
           result.workflow = j.workflow, result.work.kind = "fresh", result.work.epoch = c,
           result.schedule.kind = "replay" <=> Here(j) \in j.adopted,
           NEW g, g = Extend(j, Row("RESULTS_OBTAINED", Trial(j), Phases(Trial(j))[j.phase], result))
    PROVE  JournalMesh(g, ws, c) /\ JournalInv(g)
           /\ g = Obtained(j, result)
<1>1. /\ JournalInv(g)
      /\ g = Obtained(j, result)
      /\ \A k \in PhaseKeys : Begun(g, k) <=> Begun(j, k)
  <2>1. result # NoResult
    BY DEF NoResult, Pending
  <2> QED
    BY <2>1, ResultsRow
<1>2. j \in Journals
  BY DEF JournalInv
<1>3. /\ g.step = 0 /\ g.completed = j.completed
      /\ g.results = [j.results EXCEPT ![Here(j)] = result] /\ g.adopted = j.adopted
  BY <1>1, <1>2 DEF Journals, Obtained
<1>4. \A k \in g.adopted : k[1] = Trial(g) => Ready(g)
  BY <1>1, <1>3 DEF JournalInv
<1>5. Sole(ws, j.workflow, Here(j)) /\ Here(j) \in PhaseKeys
  BY JournalAt DEF JournalMesh
<1>6. Measured(ws, result, Here(j), c)
  BY <1>5 DEF Sole, Measured
<1>7. \A k \in PhaseKeys : g.results[k] = IF k = Here(j) THEN result ELSE j.results[k]
  <2>1. j.results \in [PhaseKeys -> [schedule : Outcomes, work : Outcomes, workflow : Nat]]
    BY <1>2 DEF Journals
  <2> QED
    BY <1>3, <2>1
<1>8. \A k \in PhaseKeys : g.results[k] # NoResult => Measured(ws, g.results[k], k, c)
  BY <1>6, <1>7 DEF JournalMesh
<1>9. \A k \in PhaseKeys : g.results[k] # NoResult =>
         (g.results[k].schedule.kind = "replay" <=> k \in g.adopted)
  BY <1>3, <1>7 DEF JournalMesh
<1>10. \A k \in PhaseKeys : ~Begun(g, k) => NoneActive(ws, k)
  BY <1>1 DEF JournalMesh
<1>11. JournalMesh(g, ws, c)
  <2>1. g.step # 2 /\ \A k \in g.adopted : ~(k[1] = Trial(g) /\ ~Ready(g))
    BY <1>3, <1>4
  <2> QED
    BY <1>8, <1>9, <1>10, <2>1 DEF JournalMesh
<1> QED
  BY <1>1, <1>11

LEMMA CompletedMesh ==
    ASSUME NEW j, JournalInv(j), j.failed = NoFailure, Ready(j),
           NEW g, g = Extend(j, Row("TRIAL_COMPLETED", Trial(j), "trial", None)),
           NEW ws, NEW c, JournalMesh(j, ws, c)
    PROVE  JournalMesh(g, ws, c)
<1>1. /\ JournalInv(g) /\ g = Finished(j)
      /\ \A k \in PhaseKeys : Begun(g, k) <=> Begun(j, k)
  BY CompletedRow
<1>2. j \in Journals
  BY DEF JournalInv
<1>3. g.step = j.step /\ g.results = j.results /\ g.adopted = j.adopted
  BY <1>1, <1>2 DEF Journals, Finished
<1>4. g.step # 2
  <2>1. ~(j.step > 0)
    BY DEF JournalInv
  <2> QED
    BY <1>3, <2>1
<1>5. \A k \in g.adopted : k[1] = Trial(g) => Ready(g)
  BY <1>1, <1>4 DEF JournalInv
<1> QED
  BY <1>1, <1>3, <1>4, <1>5 DEF JournalMesh

LEMMA FailedMesh ==
    ASSUME NEW j, JournalInv(j), j.failed = NoFailure, Trial(j) \in Trials,
           NEW f \in Failures, f.trial = Trial(j), f.phase # "none", Reached(j, f.phase),
           \A k \in j.adopted : k[1] # Trial(j),
           NEW g, g = Extend(j, Row("RUN_FAILED", f.trial, f.phase, f)),
           NEW ws, NEW c, JournalMesh(j, ws, c)
    PROVE  JournalMesh(g, ws, c)
<1>1. /\ JournalInv(g)
      /\ g = FailedWith(j, f)
      /\ \A k \in PhaseKeys : Begun(g, k) <=> Begun(j, k)
  BY FailedRow
<1>2. j \in Journals
  BY DEF JournalInv
<1>3. /\ g.step = j.step /\ g.completed = j.completed /\ g.phase = j.phase /\ g.workflow = j.workflow
      /\ g.results = j.results /\ g.adopted = j.adopted
  BY <1>1, <1>2 DEF Journals, FailedWith
<1>4. Trial(g) = Trial(j) /\ Here(g) = Here(j)
  BY <1>3 DEF Trial, Here
<1> QED
  BY <1>1, <1>3, <1>4 DEF JournalMesh

LEMMA RecoveryMesh ==
    ASSUME NEW j, JournalInv(j), j.failed # NoFailure, j.step = 2,
           j.failed.phase = Phases(Trial(j))[j.phase],
           <<j.failed.trial, j.failed.phase>> \notin j.recovered,
           NEW g, g = Extend(j, Row("INFRASTRUCTURE_RECOVERY_AUTHORIZED",
                                    j.failed.trial, j.failed.phase, None)),
           NEW ws, NEW c, JournalMesh(j, ws, c), ~Active(ws[j.workflow])
    PROVE  JournalMesh(g, ws, c)
<1>1. /\ JournalInv(g)
      /\ g = Recovered(j)
      /\ \A k \in PhaseKeys : Begun(g, k) <=> Begun(j, k) /\ k # Here(j)
  BY RecoveryRow
<1>2. j \in Journals
  BY DEF JournalInv
<1>3. g.step = 0 /\ g.results = j.results /\ g.adopted = j.adopted
  BY <1>1, <1>2 DEF Journals, Recovered
<1>4. \A k \in g.adopted : k[1] = Trial(g) => Ready(g)
  BY <1>1, <1>3 DEF JournalInv
<1>5. NoneActive(ws, Here(j))
  BY DEF JournalMesh, Sole, NoneActive
<1>6. \A k \in PhaseKeys : ~Begun(g, k) => NoneActive(ws, k)
  BY <1>1, <1>5 DEF JournalMesh
<1>7. \A k \in PhaseKeys : g.results[k] # NoResult => Measured(ws, g.results[k], k, c)
  BY <1>3 DEF JournalMesh
<1>8. \A k \in PhaseKeys : g.results[k] # NoResult =>
         (g.results[k].schedule.kind = "replay" <=> k \in g.adopted)
  BY <1>3 DEF JournalMesh
<1>9. g.step # 2
  BY <1>3
<1> QED
  BY <1>4, <1>6, <1>7, <1>8, <1>9 DEF JournalMesh

LEMMA AdoptionMesh ==
    ASSUME NEW j, JournalInv(j), j.failed.error = "replayed", j.step = 2,
           <<Trial(j), "unconditional">> \in j.recovered,
           NEW g, g = Extend(j, Row("REPLAY_RESULTS_ADOPTION_AUTHORIZED",
                                    Trial(j), "unconditional", None)),
           NEW ws, NEW c, JournalMesh(j, ws, c),
           ws[j.workflow].status = "DONE", ws[j.workflow].schedule.kind = "replay",
           ws[j.workflow].work.kind = "fresh", ws[j.workflow].work.epoch = c
    PROVE  JournalMesh(g, ws, c)
<1>1. /\ JournalInv(g) /\ g = AdoptedHere(j)
      /\ \A k \in PhaseKeys : Begun(g, k) <=> Begun(j, k)
  BY AdoptionRow
<1>2. j \in Journals
  BY DEF JournalInv
<1>3. /\ g.step = j.step /\ g.completed = j.completed /\ g.phase = j.phase /\ g.workflow = j.workflow
      /\ g.results = j.results /\ g.adopted = j.adopted \cup {Here(j)}
  BY <1>1, <1>2 DEF Journals, AdoptedHere
<1>4. Trial(g) = Trial(j) /\ Here(g) = Here(j)
  BY <1>3 DEF Trial, Here
<1>5. Here(j) \in PhaseKeys /\ Index(Here(j)) = j.phase /\ Here(j)[1] = Trial(j)
  <2>1. Trial(j) \in Trials /\ ~Ready(j)
    BY DEF JournalInv
  <2> QED
    BY <2>1, JournalAt
<1>6. ~Past(j, Here(j))
  BY <1>5, JournalAt DEF Past
<1>7. j.results[Here(j)] = NoResult
  BY <1>5, <1>6 DEF JournalInv
<1>8. \A k \in PhaseKeys : g.results[k] # NoResult =>
         (g.results[k].schedule.kind = "replay" <=> k \in g.adopted)
  BY <1>3, <1>7 DEF JournalMesh
<1> QED
  BY <1>1, <1>3, <1>4, <1>8 DEF JournalMesh

-----------------------------------------------------------------------------
(* Processes.                                                              *)

DiskTypes ==
    /\ files \in 0 .. 4 /\ contract \in 0 .. MaxRestarts
    /\ journal \in Journals
    /\ checkpoints \in Seq({"measured", "adopted"})
    /\ document \in Failures /\ sums \in BOOLEAN

ProcTypes ==
    /\ holder \in Processes \cup {None}
    /\ pc \in [Processes -> Steps]
    /\ mem \in [Processes -> Journals]
    /\ at \in [Processes -> 1 .. 2]
    /\ submitted \in [Processes -> Nat]
    /\ error \in [Processes -> Failures]
    /\ crashes \in Nat

ProcInv(p) == LockInv(p) /\ CommandInv(p) /\ LoopInv(p)

LEMMA Parts ==
    IInv <=> /\ MeshTypeOK /\ DiskTypes /\ ProcTypes /\ MeshInv /\ DiskInv
             /\ \A p \in Processes : ProcInv(p)
<1>1. TypeOK <=> MeshTypeOK /\ DiskTypes /\ ProcTypes
  BY DEF TypeOK, DiskTypes, ProcTypes
<1> QED
  BY <1>1 DEF IInv, ProcInv

\* The process that is at work is alone.
LEMMA Alone ==
    ASSUME IInv, NEW p \in Processes, pc[p] # "idle" \/ holder = None
    PROVE  \A q \in Processes : q # p => pc[q] = "idle" /\ at[q] = 1
<1>1. \A q \in Processes : q # p => pc[q] = "idle"
  BY ProcessAssumption DEF IInv, LockInv
<1>2. \A q \in Processes : pc[q] = "idle" => at[q] = 1
  BY DEF IInv, LoopInv, InTrial, InLoop, Running
<1> QED
  BY <1>1, <1>2

\* An idle process knows nothing.
LEMMA IdleInv ==
    ASSUME NEW q \in Processes, pc'[q] = "idle", at'[q] = 1
    PROVE  ProcInv(q)'
<1>1. LockInv(q)'
  BY DEF LockInv
<1>2. CommandInv(q)'
  BY DEF CommandInv, Running
<1>3. LoopInv(q)'
  BY DEF LoopInv, InTrial, InLoop, Running
<1> QED
  BY <1>1, <1>2, <1>3 DEF ProcInv

\* The step of a process that has the lock, or takes it.
LEMMA StepKeeps ==
    ASSUME IInv, NEW p \in Processes, pc[p] # "idle" \/ holder = None,
           \A q \in Processes : q # p => pc'[q] = pc[q] /\ at'[q] = at[q],
           MeshTypeOK', MeshInv', DiskTypes', DiskInv', ProcTypes', ProcInv(p)'
    PROVE  IInv'
<1>1. \A q \in Processes : q # p => ProcInv(q)'
  BY Alone, IdleInv
<1>2. \A q \in Processes : ProcInv(q)'
  BY <1>1
<1>3. TypeOK'
  BY DEF TypeOK, DiskTypes, ProcTypes
<1> QED
  BY <1>2, <1>3 DEF IInv, ProcInv

\* A command ends.
LEMMA ExitKeeps ==
    ASSUME IInv, NEW p \in Processes, pc[p] # "idle", Exit(p),
           crashes' \in Nat, MeshTypeOK', MeshInv', DiskTypes', DiskInv'
    PROVE  IInv'
<1>1. ProcTypes
  BY Parts
<1>2. EmptyJournal \in Journals
  BY ContainerAssumption
     DEF Journals, EmptyJournal, NoFailure, NoResult, Failures, Pending, Outcomes
<1>3. NoFailure \in Failures
  BY ContainerAssumption DEF NoFailure, Failures
<1>4. ProcTypes'
  BY <1>1, <1>2, <1>3 DEF ProcTypes, Exit, Goto, Steps
<1>5. pc'[p] = "idle" /\ at'[p] = 1
  BY <1>1 DEF ProcTypes, Exit, Goto
<1>6. \A q \in Processes : q # p => pc'[q] = pc[q] /\ at'[q] = at[q]
  BY <1>1 DEF ProcTypes, Exit, Goto
<1> QED
  BY <1>4, <1>5, <1>6, IdleInv, StepKeeps

\* A process goes on.
LEMMA ContinueKeeps ==
    ASSUME IInv, NEW p \in Processes, pc[p] # "idle", NEW step \in Steps, Continue(p, step),
           crashes' = crashes
    PROVE  /\ ProcTypes' /\ pc'[p] = step /\ at'[p] = at[p] /\ mem'[p] = mem[p]
           /\ \A q \in Processes : q # p => pc'[q] = pc[q] /\ at'[q] = at[q]
BY Parts DEF ProcTypes, Continue, Goto

\* An exception is raised.
LEMMA RaiseKeeps ==
    ASSUME IInv, NEW p \in Processes, pc[p] # "idle", Current(p) \in Trials,
           NEW phase \in Labels \cup {"preflight"}, NEW kind \in {"other", "replayed"},
           Raise(p, phase, kind), crashes' = crashes
    PROVE  /\ ProcTypes' /\ pc'[p] = "fail" /\ at'[p] = at[p] /\ mem' = mem /\ holder' = holder
           /\ error'[p] = [trial |-> Current(p), phase |-> phase, error |-> kind]
           /\ \A q \in Processes : q # p => pc'[q] = pc[q] /\ at'[q] = at[q]
<1>1. [trial |-> Current(p), phase |-> phase, error |-> kind] \in Failures
  BY DEF Failures, Trials
<1> QED
  BY <1>1, Parts DEF ProcTypes, Raise, Goto, Steps

\* FlowMesh and the nodes are left alone.
LEMMA MeshStays ==
    ASSUME MeshTypeOK, MeshInv, UNCHANGED <<workflows, ledger, sent, epoch>>, failures' \in Nat
    PROVE  MeshTypeOK' /\ MeshInv'
BY DEF MeshTypeOK, MeshInv

LEMMA DiskStays ==
    ASSUME DiskTypes, DiskInv, UNCHANGED <<diskVars, workflows>>
    PROVE  DiskTypes' /\ DiskInv'
<1>1. DiskTypes'
  BY DEF DiskTypes, diskVars
<1>2. CheckpointInv <=> CheckpointInv'
  BY DEF CheckpointInv, Loads, Gap, diskVars
<1>3. DiskInv'
  BY <1>2 DEF DiskInv, DocumentIsFirst, diskVars
<1> QED
  BY <1>1, <1>3

\* The steps of FlowMesh and the nodes.
LEMMA MeshKeeps ==
    ASSUME IInv, Mesh, UNCHANGED <<diskVars, procVars, crashes>>
    PROVE  IInv'
<1>1. MeshTypeOK /\ DiskTypes /\ ProcTypes /\ MeshInv /\ DiskInv
  BY Parts
<1>2. MeshInv' /\ MeshTypeOK' /\ Later(workflows, workflows')
  BY <1>1, MeshSteps
<1>3. UNCHANGED <<files, contract, journal, checkpoints, document, sums,
                  holder, pc, mem, at, submitted, error, crashes>>
  BY DEF diskVars, procVars
<1>4. DiskTypes' /\ ProcTypes'
  BY <1>1, <1>3 DEF DiskTypes, ProcTypes
<1>5. JournalMesh(journal, workflows', contract)
  BY <1>1, <1>2, JournalLater DEF DiskInv
<1>6. CheckpointInv'
  BY <1>1, <1>3 DEF DiskInv, CheckpointInv, Loads, Gap
<1>7. DiskInv'
  BY <1>1, <1>3, <1>5, <1>6 DEF DiskInv, DocumentIsFirst
<1>8. ASSUME NEW p \in Processes PROVE ProcInv(p)'
  <2>1. LockInv(p) /\ CommandInv(p) /\ LoopInv(p)
    BY DEF IInv
  <2>2. LockInv(p)'
    BY <1>3, <2>1 DEF LockInv
  <2>3. CommandInv(p)'
    BY <1>3, <2>1 DEF CommandInv, PendingAdoption
  <2>4. pc[p] = "submit" => NoneActive(workflows', Here(journal))
    BY <1>2, <2>1, LaterKeeps DEF LoopInv
  <2>5. pc[p] = "bind" => Sole(workflows', submitted[p], Here(journal))
    BY <1>2, <2>1, LaterKeeps DEF LoopInv
  <2>6. pc[p] = "collect" => workflows'[journal.workflow].status = "DONE"
    <3> SUFFICES ASSUME pc[p] = "collect" PROVE workflows'[journal.workflow].status = "DONE"
      OBVIOUS
    <3>1. journal.step = 2 /\ workflows[journal.workflow].status = "DONE"
      BY <2>1 DEF LoopInv
    <3>2. journal.workflow \in DOMAIN workflows
      BY <1>1, <3>1 DEF DiskInv, JournalMesh, Sole
    <3> QED
      BY <1>2, <3>1, <3>2 DEF Later
  <2>7. LoopInv(p)'
    BY <1>3, <2>1, <2>4, <2>5, <2>6 DEF LoopInv
  <2> QED
    BY <2>2, <2>3, <2>7 DEF ProcInv
<1>9. TypeOK'
  BY <1>2, <1>4 DEF TypeOK, DiskTypes, ProcTypes
<1> QED
  BY <1>2, <1>7, <1>8, <1>9 DEF IInv, ProcInv

\* What a process at work can rely on.
LEMMA AtWork ==
    ASSUME IInv, NEW p \in Processes, pc[p] # "idle"
    PROVE  /\ JournalInv(journal) /\ JournalMesh(journal, workflows, contract)
           /\ at[p] \in 1 .. 2 /\ failures \in Nat
           /\ ProcInv(p) /\ DiskInv /\ MeshInv /\ MeshTypeOK /\ DiskTypes /\ ProcTypes
           /\ pc[p] # "open" => /\ mem[p] = journal /\ Current(p) = Trial(journal)
                                /\ Progress(p) = IF at[p] < journal.phase THEN 3 ELSE journal.step
                                /\ Bound(p) = workflows[journal.workflow]
<1>1. MeshTypeOK /\ DiskTypes /\ ProcTypes /\ MeshInv /\ DiskInv /\ ProcInv(p)
  BY Parts
<1>2. JournalInv(journal) /\ JournalMesh(journal, workflows, contract)
  BY <1>1 DEF DiskInv
<1>3. at[p] \in 1 .. 2 /\ failures \in Nat
  BY <1>1 DEF ProcTypes, MeshTypeOK
<1>4. pc[p] # "open" => mem[p] = journal
  BY <1>1 DEF ProcInv, LockInv
<1> QED
  BY <1>1, <1>2, <1>3, <1>4 DEF Current, Progress, Bound

\* A step that writes nothing.
LEMMA NothingWritten ==
    ASSUME IInv, NEW p \in Processes, pc[p] # "idle",
           UNCHANGED <<workflows, ledger, sent, epoch, diskVars>>, failures' \in Nat,
           ProcTypes', ProcInv(p)', \A q \in Processes : q # p => pc'[q] = pc[q] /\ at'[q] = at[q]
    PROVE  IInv'
<1>1. MeshTypeOK /\ DiskTypes /\ MeshInv /\ DiskInv
  BY Parts
<1>2. MeshTypeOK' /\ MeshInv'
  BY <1>1, MeshStays
<1>3. DiskTypes' /\ DiskInv'
  BY <1>1, DiskStays
<1> QED
  BY <1>2, <1>3, StepKeeps

\* ... and ends the command.
LEMMA NothingWrittenExit ==
    ASSUME IInv, NEW p \in Processes, pc[p] # "idle", Exit(p), crashes' \in Nat,
           UNCHANGED <<workflows, ledger, sent, epoch, diskVars>>, failures' \in Nat
    PROVE  IInv'
<1>1. MeshTypeOK /\ DiskTypes /\ MeshInv /\ DiskInv
  BY Parts
<1>2. MeshTypeOK' /\ MeshInv'
  BY <1>1, MeshStays
<1>3. DiskTypes' /\ DiskInv'
  BY <1>1, DiskStays
<1> QED
  BY <1>2, <1>3, ExitKeeps

Raising == {"loop", "phase", "submit", "wait", "collect", "after"}

\* An exception is raised where the trial is, or before it.
LEMMA RaiseInv ==
    ASSUME IInv, NEW p \in Processes, pc[p] \in Raising, Trial(journal) \in Trials,
           NEW phase, phase = "preflight" \/ (pc[p] # "loop" /\ phase = Phase(p)),
           NEW kind \in {"other", "replayed"},
           Raise(p, phase, kind), UNCHANGED <<diskVars, crashes>>
    PROVE  /\ ProcTypes' /\ ProcInv(p)'
           /\ \A q \in Processes : q # p => pc'[q] = pc[q] /\ at'[q] = at[q]
<1>1. pc[p] # "idle" /\ pc[p] # "open" /\ pc[p] # "document" /\ pc[p] # "create"
      /\ pc[p] \in Running /\ pc[p] \in InLoop
  BY DEF Raising, Running, InLoop
<1>2. /\ JournalInv(journal) /\ at[p] \in 1 .. 2 /\ mem[p] = journal /\ Current(p) = Trial(journal)
      /\ LockInv(p) /\ CommandInv(p) /\ LoopInv(p)
  BY <1>1, AtWork DEF ProcInv
<1>3. at[p] <= Len(Phases(Trial(journal)))
  <2>1. CASE pc[p] = "loop"
    <3>1. at[p] = 1
      BY <1>2, <2>1 DEF LoopInv, InTrial, InLoop, Running
    <3>2. 1 <= Len(Phases(Trial(journal)))
      BY PhasesOf
    <3> QED
      BY <3>1, <3>2
  <2>2. CASE pc[p] # "loop"
    BY <1>2, <2>2 DEF LoopInv, InTrial, InLoop, Running, Raising
  <2> QED
    BY <2>1, <2>2
<1>4. phase \in Labels \cup {"preflight"} /\ Reached(journal, phase)
  <2>1. CASE phase = "preflight"
    BY <2>1 DEF Reached, Labels
  <2>2. CASE pc[p] # "loop" /\ phase = Phase(p)
    <3>1. at[p] <= journal.phase
      BY <1>2, <2>2, JournalAt DEF LoopInv, Raising
    <3>2. /\ phase = Phases(Trial(journal))[at[p]] /\ phase \in Labels
          /\ IsPhase(<<Trial(journal), phase>>) /\ Index(<<Trial(journal), phase>>) = at[p]
      <4>1. at[p] \in 1 .. Len(Phases(Trial(journal)))
        BY <1>2, <1>3, PhasesOf
      <4> QED
        BY <1>2, <2>2, <4>1, PhasesOf DEF Phase
    <3> QED
      BY <3>1, <3>2 DEF Reached
  <2> QED
    BY <2>1, <2>2
<1>5. /\ ProcTypes' /\ pc'[p] = "fail" /\ at'[p] = at[p] /\ mem' = mem /\ holder' = holder
      /\ error'[p] = [trial |-> Trial(journal), phase |-> phase, error |-> kind]
      /\ \A q \in Processes : q # p => pc'[q] = pc[q] /\ at'[q] = at[q]
  BY <1>1, <1>2, <1>4, RaiseKeeps
<1>6. UNCHANGED <<files, contract, journal, checkpoints, document, sums>>
  BY DEF diskVars
<1>7. LockInv(p)'
  BY <1>1, <1>2, <1>5, <1>6 DEF LockInv
<1>8. CommandInv(p)'
  <2>1. error'[p].trial = Trial(journal) /\ error'[p].phase # "none" /\ Reached(journal, error'[p].phase)
    BY <1>4, <1>5 DEF Labels
  <2>2. ~PendingAdoption(journal)'
    BY <1>1, <1>2, <1>6 DEF CommandInv, PendingAdoption
  <2>3. journal.failed = NoFailure
    BY <1>1, <1>2 DEF CommandInv
  <2> QED
    BY <1>5, <1>6, <2>1, <2>2, <2>3 DEF CommandInv
<1>9. LoopInv(p)'
  <2>1. Len(checkpoints) = journal.completed
    BY <1>1, <1>2 DEF LoopInv
  <2> QED
    BY <1>3, <1>5, <1>6, <2>1 DEF LoopInv, InTrial, InLoop, Running
<1> QED
  BY <1>5, <1>7, <1>8, <1>9 DEF ProcInv

-----------------------------------------------------------------------------
(* The steps that write nothing.                                           *)

LEMMA ProbeFailsKeeps ==
    ASSUME IInv, NEW p \in Processes, ProbeFails(p)
    PROVE  IInv'
<1>1. pc[p] # "idle" /\ Exit(p) /\ UNCHANGED <<workflows, ledger, sent, epoch, diskVars, crashes>>
  BY DEF ProbeFails
<1>2. failures' \in Nat /\ crashes' \in Nat
  BY <1>1, AtWork DEF ProbeFails, CanFail, ProcTypes
<1> QED
  BY <1>1, <1>2, NothingWrittenExit

LEMMA CrashKeeps ==
    ASSUME IInv, NEW p \in Processes, Crash(p)
    PROVE  IInv'
<1>1. pc[p] # "idle" /\ Exit(p) /\ UNCHANGED <<workflows, ledger, sent, epoch, failures, diskVars>>
  BY DEF Crash, meshVars
<1>2. failures' \in Nat /\ crashes' \in Nat
  BY <1>1, AtWork DEF Crash, ProcTypes
<1> QED
  BY <1>1, <1>2, NothingWrittenExit

LEMMA CheckFailsKeeps ==
    ASSUME IInv, NEW p \in Processes, CheckFails(p)
    PROVE  IInv'
<1> DEFINE phase == IF pc[p] = "loop" THEN "preflight" ELSE Phase(p)
<1>1. /\ pc[p] \in Raising /\ pc[p] # "idle" /\ Current(p) \in Trials
      /\ Raise(p, phase, "other") /\ UNCHANGED <<diskVars, crashes>>
      /\ UNCHANGED <<workflows, ledger, sent, epoch>>
  BY DEF CheckFails, Raising
<1>2. Trial(journal) \in Trials
  BY <1>1, AtWork DEF Raising
<1>3. phase = "preflight" \/ (pc[p] # "loop" /\ phase = Phase(p))
  OBVIOUS
<1> HIDE DEF phase
<1>4. /\ ProcTypes' /\ ProcInv(p)'
      /\ \A q \in Processes : q # p => pc'[q] = pc[q] /\ at'[q] = at[q]
  BY <1>1, <1>2, <1>3, RaiseInv
<1>5. failures' \in Nat
  BY <1>1, AtWork DEF CheckFails, CanFail
<1> QED
  BY <1>1, <1>4, <1>5, NothingWritten

LEMMA NextTrialKeeps ==
    ASSUME IInv, NEW p \in Processes, NextTrial(p)
    PROVE  IInv'
<1>1. /\ pc[p] = "loop" /\ UNCHANGED <<diskVars, crashes>>
      /\ UNCHANGED <<workflows, ledger, sent, epoch, failures>>
  BY DEF NextTrial, meshVars
<1>2. /\ JournalInv(journal) /\ mem[p] = journal /\ Current(p) = Trial(journal)
      /\ LockInv(p) /\ CommandInv(p) /\ LoopInv(p) /\ failures' \in Nat
  BY <1>1, AtWork DEF ProcInv
<1>3. CASE Current(p) \in Trials /\ epoch # contract
  <2>1. Raise(p, "preflight", "other")
    BY <1>3 DEF NextTrial
  <2>2. /\ ProcTypes' /\ ProcInv(p)'
        /\ \A q \in Processes : q # p => pc'[q] = pc[q] /\ at'[q] = at[q]
    BY <1>1, <1>2, <1>3, <2>1, RaiseInv DEF Raising
  <2> QED
    BY <1>1, <1>2, <2>2, NothingWritten
<1>4. CASE ~(Current(p) \in Trials /\ epoch # contract)
  <2> DEFINE step == IF Current(p) \in Trials THEN "phase" ELSE "finalize"
  <2>1. Continue(p, step) /\ step \in Steps
    BY <1>4 DEF NextTrial, Steps
  <2>2. /\ ProcTypes' /\ pc'[p] = step /\ at'[p] = at[p] /\ mem'[p] = mem[p] /\ holder' = holder
        /\ \A q \in Processes : q # p => pc'[q] = pc[q] /\ at'[q] = at[q]
    BY <1>1, <2>1, ContinueKeeps DEF Continue
  <2>3. UNCHANGED <<files, contract, journal, checkpoints, document, sums>>
    BY <1>1 DEF diskVars
  <2>4. LockInv(p)'
    BY <1>1, <1>2, <2>2, <2>3 DEF LockInv
  <2>5. CommandInv(p)'
    <3>1. ~PendingAdoption(journal)' /\ journal'.failed = NoFailure
      BY <1>1, <1>2, <2>3 DEF CommandInv, PendingAdoption, Running
    <3> QED
      BY <2>2, <3>1 DEF CommandInv, Running
  <2>6. LoopInv(p)'
    <3>1. at[p] = 1 /\ Len(checkpoints) = journal.completed
      BY <1>1, <1>2 DEF LoopInv, InTrial, InLoop, Running
    <3>2. CASE step = "phase"
      <4>1. Trial(journal) \in Trials /\ 1 <= Len(Phases(Trial(journal))) /\ 1 <= journal.phase
        <5>1. Trial(journal) \in Trials
          BY <1>2, <3>2
        <5>2. 1 <= Len(Phases(Trial(journal)))
          BY <5>1, PhasesOf
        <5>3. journal.phase \in 1 .. 3
          BY <1>2, JournalAt
        <5> QED
          BY <5>1, <5>2, <5>3
      <4> QED
        BY <2>2, <2>3, <3>1, <3>2, <4>1 DEF LoopInv, InTrial, InLoop, Running
    <3>3. CASE step = "finalize"
      <4>1. journal.completed = N
        BY <1>2, <3>3, JournalAt, ContainerAssumption DEF Trials
      <4> QED
        BY <2>2, <2>3, <3>1, <3>3, <4>1 DEF LoopInv, InTrial, InLoop, Running
    <3> QED
      BY <3>2, <3>3
  <2> HIDE DEF step
  <2> QED
    BY <1>1, <1>2, <2>2, <2>4, <2>5, <2>6, NothingWritten DEF ProcInv
<1> QED
  BY <1>3, <1>4

LEMMA WaitKeeps ==
    ASSUME IInv, NEW p \in Processes, Wait(p)
    PROVE  IInv'
<1>1. /\ pc[p] = "wait" /\ UNCHANGED <<diskVars, crashes>>
      /\ UNCHANGED <<workflows, ledger, sent, epoch, failures>>
  BY DEF Wait, meshVars
<1>2. /\ JournalInv(journal) /\ mem[p] = journal /\ Bound(p) = workflows[journal.workflow]
      /\ LockInv(p) /\ CommandInv(p) /\ LoopInv(p) /\ failures' \in Nat
  BY <1>1, AtWork DEF ProcInv
<1>3. Trial(journal) \in Trials
  BY <1>1, <1>2 DEF LoopInv, InTrial, InLoop, Running
<1>4. CASE Bound(p).status # "DONE"
  <2>1. Raise(p, Phase(p), "other")
    BY <1>4 DEF Wait
  <2>2. /\ ProcTypes' /\ ProcInv(p)'
        /\ \A q \in Processes : q # p => pc'[q] = pc[q] /\ at'[q] = at[q]
    BY <1>1, <1>2, <1>3, <2>1, RaiseInv DEF Raising
  <2> QED
    BY <1>1, <1>2, <2>2, NothingWritten
<1>5. CASE Bound(p).status = "DONE"
  <2>1. Continue(p, "collect")
    BY <1>5 DEF Wait
  <2>2. /\ ProcTypes' /\ pc'[p] = "collect" /\ at'[p] = at[p] /\ mem'[p] = mem[p] /\ holder' = holder
        /\ \A q \in Processes : q # p => pc'[q] = pc[q] /\ at'[q] = at[q]
    BY <1>1, <2>1, ContinueKeeps DEF Continue, Steps
  <2>3. UNCHANGED <<files, contract, journal, checkpoints, document, sums, workflows>>
    BY <1>1 DEF diskVars
  <2>4. LockInv(p)'
    BY <1>1, <1>2, <2>2, <2>3 DEF LockInv
  <2>5. CommandInv(p)'
    <3>1. ~PendingAdoption(journal)' /\ journal'.failed = NoFailure
      BY <1>1, <1>2, <2>3 DEF CommandInv, PendingAdoption, Running
    <3> QED
      BY <2>2, <3>1 DEF CommandInv, Running
  <2>6. LoopInv(p)'
    BY <1>1, <1>2, <1>5, <2>2, <2>3 DEF LoopInv, InTrial, InLoop, Running
  <2> QED
    BY <1>1, <1>2, <2>2, <2>4, <2>5, <2>6, NothingWritten DEF ProcInv
<1> QED
  BY <1>4, <1>5

LEMMA AfterPhaseKeeps ==
    ASSUME IInv, NEW p \in Processes, AfterPhase(p)
    PROVE  IInv'
<1>1. /\ pc[p] = "after" /\ UNCHANGED <<diskVars, crashes>>
      /\ UNCHANGED <<workflows, ledger, sent, epoch, failures>>
  BY DEF AfterPhase, meshVars
<1>2. /\ JournalInv(journal) /\ mem[p] = journal /\ Current(p) = Trial(journal) /\ at[p] \in 1 .. 2
      /\ LockInv(p) /\ CommandInv(p) /\ LoopInv(p) /\ failures' \in Nat /\ ProcTypes
  BY <1>1, AtWork DEF ProcInv
<1>3. /\ Trial(journal) \in Trials /\ at[p] <= Len(Phases(Trial(journal))) /\ at[p] < journal.phase
      /\ Len(checkpoints) = journal.completed
  BY <1>1, <1>2 DEF LoopInv, InTrial, InLoop, Running
<1>4. CASE epoch # contract
  <2>1. Raise(p, Phase(p), "other")
    BY <1>4 DEF AfterPhase
  <2>2. /\ ProcTypes' /\ ProcInv(p)'
        /\ \A q \in Processes : q # p => pc'[q] = pc[q] /\ at'[q] = at[q]
    BY <1>1, <1>2, <1>3, <2>1, RaiseInv DEF Raising
  <2> QED
    BY <1>1, <1>2, <2>2, NothingWritten
<1>5. CASE epoch = contract
  <2> DEFINE more == at[p] < Len(Phases(Trial(journal)))
  <2>1. /\ pc' = [pc EXCEPT ![p] = IF more THEN "phase" ELSE "checkpoint"]
        /\ at' = IF more THEN [at EXCEPT ![p] = at[p] + 1] ELSE at
        /\ UNCHANGED <<holder, mem, submitted, error>>
    BY <1>2, <1>5 DEF AfterPhase, Goto
  <2>2. more => at[p] + 1 \in 1 .. 2
    <3> DEFINE n == Len(Phases(Trial(journal)))
    <3>1. n \in 1 .. 2
      BY <1>3, PhasesOf
    <3> HIDE DEF n
    <3>2. at[p] < n => at[p] + 1 \in 1 .. 2
      BY <1>2, <3>1
    <3> QED
      BY <3>2 DEF n
  <2>3. /\ ProcTypes' /\ pc'[p] = IF more THEN "phase" ELSE "checkpoint"
        /\ at'[p] = IF more THEN at[p] + 1 ELSE at[p]
        /\ \A q \in Processes : q # p => pc'[q] = pc[q] /\ at'[q] = at[q]
    <3>1. pc \in [Processes -> Steps] /\ at \in [Processes -> 1 .. 2]
      BY <1>2 DEF ProcTypes
    <3>2. at' \in [Processes -> 1 .. 2]
      BY <2>1, <2>2, <3>1
    <3>3. pc' \in [Processes -> Steps]
      BY <2>1, <3>1 DEF Steps
    <3>4. ProcTypes'
      BY <1>1, <1>2, <2>1, <3>2, <3>3 DEF ProcTypes
    <3> QED
      BY <2>1, <3>1, <3>4
  <2>4. UNCHANGED <<files, contract, journal, checkpoints, document, sums>>
    BY <1>1 DEF diskVars
  <2>5. LockInv(p)'
    BY <1>1, <1>2, <2>1, <2>3, <2>4 DEF LockInv
  <2>6. CommandInv(p)'
    <3>1. ~PendingAdoption(journal)' /\ journal'.failed = NoFailure
      BY <1>1, <1>2, <2>4 DEF CommandInv, PendingAdoption, Running
    <3> QED
      BY <2>3, <3>1 DEF CommandInv, Running
  <2>7. LoopInv(p)'
    <3>1. journal.phase \in 1 .. 3 /\ Len(Phases(Trial(journal))) \in 1 .. 2
      BY <1>2, <1>3, JournalAt, PhasesOf
    <3>2. CASE more
      <4>1. at'[p] <= Len(Phases(Trial(journal))) /\ at'[p] <= journal.phase /\ pc'[p] = "phase"
        BY <1>2, <1>3, <2>3, <3>1, <3>2
      <4> QED
        BY <1>3, <2>4, <4>1 DEF LoopInv, InTrial, InLoop, Running
    <3>3. CASE ~more
      <4>1. journal.phase > Len(Phases(Trial(journal))) /\ at'[p] = at[p] /\ pc'[p] = "checkpoint"
        BY <1>2, <1>3, <2>3, <3>1, <3>3
      <4>2. Ready(journal)
        BY <1>3, <4>1 DEF Ready
      <4> QED
        BY <1>3, <2>4, <4>1, <4>2 DEF LoopInv, InTrial, InLoop, Running
    <3> QED
      BY <3>2, <3>3
  <2> QED
    BY <1>1, <1>2, <2>3, <2>5, <2>6, <2>7, NothingWritten DEF ProcInv
<1> QED
  BY <1>4, <1>5

LEMMA OpenKeeps ==
    ASSUME IInv, NEW p \in Processes, Open(p)
    PROVE  IInv'
<1>1. /\ pc[p] = "open" /\ UNCHANGED <<diskVars, crashes>>
      /\ UNCHANGED <<workflows, ledger, sent, epoch, failures>>
  BY DEF Open, meshVars
<1>2. /\ JournalInv(journal) /\ LockInv(p) /\ CommandInv(p) /\ LoopInv(p) /\ failures' \in Nat
      /\ ProcTypes /\ DiskTypes
  BY <1>1, AtWork DEF ProcInv
<1>3. CASE epoch # contract
  <2>1. Exit(p) /\ crashes' \in Nat
    BY <1>1, <1>2, <1>3 DEF Open, ProcTypes
  <2> QED
    BY <1>1, <1>2, <2>1, NothingWrittenExit
<1>4. CASE epoch = contract
  <2> DEFINE step == IF journal.failed = NoFailure THEN "reconcile" ELSE "authorize"
  <2>1. /\ mem' = [mem EXCEPT ![p] = journal] /\ pc' = [pc EXCEPT ![p] = step]
        /\ UNCHANGED <<holder, at, submitted, error>>
    BY <1>4 DEF Open, Goto
  <2>2. /\ ProcTypes' /\ pc'[p] = step /\ mem'[p] = journal
        /\ \A q \in Processes : q # p => pc'[q] = pc[q] /\ at'[q] = at[q]
    BY <1>1, <1>2, <2>1 DEF ProcTypes, DiskTypes, Steps
  <2>3. UNCHANGED <<files, contract, journal, checkpoints, document, sums>>
    BY <1>1 DEF diskVars
  <2>4. LockInv(p)'
    BY <1>1, <1>2, <2>1, <2>2, <2>3 DEF LockInv
  <2>5. CommandInv(p)'
    <3>1. ~PendingAdoption(journal)'
      BY <1>1, <1>2, <2>3 DEF CommandInv, PendingAdoption
    <3>2. journal.failed # NoFailure =>
             <<journal.failed.trial, journal.failed.phase>> \notin journal.recovered
      BY <1>1, <1>2 DEF CommandInv
    <3>3. CASE step = "reconcile"
      BY <2>2, <2>3, <3>1, <3>3 DEF CommandInv, Running
    <3>4. CASE step = "authorize"
      BY <2>2, <2>3, <3>1, <3>2, <3>4 DEF CommandInv, Running
    <3> QED
      BY <3>3, <3>4
  <2>6. LoopInv(p)'
    <3>1. at'[p] = 1
      BY <1>1, <1>2, <2>1 DEF LoopInv, InTrial, InLoop, Running
    <3>2. CASE step = "reconcile"
      BY <2>2, <3>1, <3>2 DEF LoopInv, InTrial, InLoop, Running
    <3>3. CASE step = "authorize"
      BY <2>2, <3>1, <3>3 DEF LoopInv, InTrial, InLoop, Running
    <3> QED
      BY <3>2, <3>3
  <2> HIDE DEF step
  <2> QED
    BY <1>1, <1>2, <2>2, <2>4, <2>5, <2>6, NothingWritten DEF ProcInv
<1> QED
  BY <1>3, <1>4

-----------------------------------------------------------------------------
(* The steps that write to the journal.                                    *)

\* Another trial's results are left alone.
LEMMA LoadsKept ==
    ASSUME NEW j, NEW g, Loads(j),
           \A t \in DOMAIN checkpoints : \A phase \in Labels :
              g.results[<<t, phase>>] = j.results[<<t, phase>>]
    PROVE  Loads(g)
BY DEF Loads

LEMMA JournalKeeps ==
    ASSUME IInv, NEW p \in Processes, pc[p] \notin {"idle", "open", "create"},
           NEW row, Journal(p, row),
           JournalInv(Extend(journal, row)), JournalMesh(Extend(journal, row), workflows, contract),
           UNCHANGED <<meshVars, files, contract, checkpoints, document, sums>>,
           DocumentIsFirst', CheckpointInv'
    PROVE  /\ journal' = Extend(journal, row) /\ mem'[p] = journal'
           /\ mem' \in [Processes -> Journals]
           /\ MeshTypeOK' /\ MeshInv' /\ DiskTypes' /\ DiskInv'
<1>1. /\ mem[p] = journal /\ files = 4 /\ sums = FALSE
      /\ MeshTypeOK /\ MeshInv /\ DiskTypes /\ ProcTypes /\ failures \in Nat
  BY AtWork DEF ProcInv, LockInv
<1>2. journal' = Extend(journal, row) /\ mem' = [mem EXCEPT ![p] = journal']
  BY <1>1 DEF Journal
<1>3. journal' \in Journals
  BY <1>2 DEF JournalInv
<1>4. mem' \in [Processes -> Journals] /\ mem'[p] = journal'
  BY <1>1, <1>2, <1>3 DEF ProcTypes
<1>5. UNCHANGED <<workflows, ledger, sent, epoch, failures>>
  BY DEF meshVars
<1>6. MeshTypeOK' /\ MeshInv'
  BY <1>1, <1>5, MeshStays
<1>7. DiskTypes'
  BY <1>1, <1>3 DEF DiskTypes
<1>8. DiskInv'
  BY <1>1, <1>2, <1>5 DEF DiskInv
<1> QED
  BY <1>2, <1>4, <1>6, <1>7, <1>8

LEMMA ReconcileKeeps ==
    ASSUME IInv, NEW p \in Processes, Reconcile(p)
    PROVE  IInv'
<1>1. /\ pc[p] = "reconcile" /\ pc' = [pc EXCEPT ![p] = "loop"]
      /\ UNCHANGED <<meshVars, files, contract, checkpoints, document, sums,
                     holder, at, submitted, error, crashes>>
  BY DEF Reconcile, Goto
<1>2. /\ JournalInv(journal) /\ JournalMesh(journal, workflows, contract)
      /\ mem[p] = journal /\ Current(p) = Trial(journal)
      /\ LockInv(p) /\ CommandInv(p) /\ LoopInv(p) /\ ProcTypes /\ DiskTypes /\ DiskInv
      /\ MeshTypeOK /\ MeshInv
  BY <1>1, AtWork DEF ProcInv
<1>3. /\ at[p] = 1 /\ journal.failed = NoFailure /\ ~PendingAdoption(journal)
  BY <1>1, <1>2 DEF LoopInv, CommandInv, InTrial, InLoop, Running
<1>4. ASSUME journal'.failed = NoFailure, ~PendingAdoption(journal)',
             journal'.first = journal.first, mem'[p] = journal',
             Len(checkpoints) = journal'.completed,
             mem' \in [Processes -> Journals],
             MeshTypeOK', MeshInv', DiskTypes', DiskInv'
      PROVE  IInv'
  <2>1. /\ ProcTypes' /\ pc'[p] = "loop" /\ at'[p] = 1
        /\ \A q \in Processes : q # p => pc'[q] = pc[q] /\ at'[q] = at[q]
    BY <1>1, <1>2, <1>3, <1>4 DEF ProcTypes, Steps
  <2>2. LockInv(p)'
    BY <1>1, <1>2, <1>4, <2>1 DEF LockInv
  <2>3. CommandInv(p)'
    BY <1>4, <2>1 DEF CommandInv, Running
  <2>4. LoopInv(p)'
    BY <1>1, <1>4, <2>1 DEF LoopInv, InTrial, InLoop, Running
  <2> QED
    BY <1>1, <1>4, <2>1, <2>2, <2>3, <2>4, StepKeeps DEF ProcInv
<1>5. CASE ~Gap(journal)
  <2>1. UNCHANGED <<journal, mem>>
    BY <1>2, <1>5 DEF Reconcile
  <2>2. Len(checkpoints) = journal.completed
    BY <1>2, <1>5 DEF DiskInv, CheckpointInv
  <2>3. UNCHANGED <<workflows, ledger, sent, epoch, failures, diskVars>>
    BY <1>1, <2>1 DEF meshVars, diskVars
  <2>4. MeshTypeOK' /\ MeshInv' /\ DiskTypes' /\ DiskInv'
    <3>1. failures' \in Nat
      BY <1>2, <2>3 DEF MeshTypeOK
    <3> QED
      BY <1>2, <2>3, <3>1, MeshStays, DiskStays
  <2>5. ~PendingAdoption(journal)'
    BY <1>1, <1>3, <2>1 DEF PendingAdoption
  <2>6. mem' \in [Processes -> Journals] /\ mem'[p] = journal'
    BY <1>2, <2>1 DEF ProcTypes
  <2> QED
    BY <1>3, <1>4, <2>1, <2>2, <2>4, <2>5, <2>6
<1>6. CASE Gap(journal)
  <2> DEFINE row == Row("TRIAL_COMPLETED", Trial(journal), "trial", None)
             g == Extend(journal, row)
  <2>1. Journal(p, row)
    BY <1>2, <1>6 DEF Reconcile
  <2>2. Ready(journal) /\ Len(checkpoints) = journal.completed + 1
    BY <1>6 DEF Gap
  <2>3. JournalInv(g) /\ g = Finished(journal)
    BY <1>2, <1>3, <2>2, CompletedRow
  <2>4. JournalMesh(g, workflows, contract)
    BY <1>2, <1>3, <2>2, CompletedMesh
  <2>5. /\ g.completed = journal.completed + 1 /\ g.failed = NoFailure /\ g.first = journal.first
        /\ g.results = journal.results /\ g.adopted = journal.adopted
    <3>1. journal \in Journals
      BY <1>2 DEF JournalInv
    <3> QED
      BY <1>3, <2>3, <3>1, FinishedFields
  <2>6. journal' = g
    BY <1>2, <2>1 DEF Journal
  <2> HIDE DEF g
  <2>7. Loads(g)
    BY <1>2, <2>5, LoadsKept DEF DiskInv, CheckpointInv
  <2>8. CheckpointInv'
    BY <1>1, <2>2, <2>5, <2>6, <2>7 DEF CheckpointInv, Loads
  <2>9. DocumentIsFirst'
    BY <1>1, <1>2, <2>5, <2>6 DEF DiskInv, DocumentIsFirst
  <2>10. /\ mem'[p] = journal' /\ mem' \in [Processes -> Journals]
         /\ MeshTypeOK' /\ MeshInv' /\ DiskTypes' /\ DiskInv'
    BY <1>1, <2>1, <2>3, <2>4, <2>8, <2>9, JournalKeeps DEF g
  <2>11. ~PendingAdoption(journal)'
    BY <1>1, <1>3, <2>5, <2>6 DEF PendingAdoption
  <2> QED
    BY <1>4, <2>2, <2>5, <2>6, <2>10, <2>11
<1> QED
  BY <1>5, <1>6

\* The process goes on after its row.
LEMMA GoesOn ==
    ASSUME IInv, NEW p \in Processes, pc[p] \notin {"idle", "open", "create", "document"},
           NEW step \in Steps, step \notin {"idle", "create", "document"},
           pc' = [pc EXCEPT ![p] = step],
           mem' \in [Processes -> Journals], mem'[p] = journal',
           at' \in [Processes -> 1 .. 2], \A q \in Processes : q # p => at'[q] = at[q],
           submitted' \in [Processes -> Nat],
           UNCHANGED <<holder, error, crashes, files, document, sums>>, journal'.first = journal.first,
           MeshTypeOK', MeshInv', DiskTypes', DiskInv', CommandInv(p)', LoopInv(p)'
    PROVE  IInv'
<1>1. ProcTypes /\ LockInv(p)
  BY AtWork DEF ProcInv
<1>2. /\ pc'[p] = step /\ \A q \in Processes : q # p => pc'[q] = pc[q]
      /\ ProcTypes'
  BY <1>1 DEF ProcTypes
<1>3. LockInv(p)'
  BY <1>1, <1>2 DEF LockInv
<1> QED
  BY <1>2, <1>3, StepKeeps DEF ProcInv

LEMMA AuthorizeKeeps ==
    ASSUME IInv, NEW p \in Processes, Authorize(p)
    PROVE  IInv'
<1>1. /\ pc[p] = "authorize"
      /\ UNCHANGED <<meshVars, files, contract, checkpoints, document, sums, crashes>>
  BY DEF Authorize
<1>2. /\ JournalInv(journal) /\ JournalMesh(journal, workflows, contract)
      /\ mem[p] = journal /\ LockInv(p) /\ CommandInv(p) /\ LoopInv(p) /\ ProcTypes /\ DiskTypes
      /\ DiskInv /\ MeshTypeOK /\ MeshInv /\ failures \in Nat
  BY <1>1, AtWork DEF ProcInv
<1>3. UNCHANGED <<workflows, ledger, sent, epoch, failures>>
  BY <1>1 DEF meshVars
<1>4. CASE ~Authorizable(journal)
  <2>1. Exit(p) /\ UNCHANGED journal
    BY <1>2, <1>4 DEF Authorize
  <2>2. UNCHANGED diskVars /\ crashes' \in Nat
    BY <1>1, <1>2, <2>1 DEF diskVars, ProcTypes
  <2> QED
    BY <1>1, <1>2, <1>3, <2>1, <2>2, NothingWrittenExit
<1>5. CASE Authorizable(journal)
  <2> DEFINE failed == journal.failed
             row == Row("INFRASTRUCTURE_RECOVERY_AUTHORIZED", failed.trial, failed.phase, None)
             g == Extend(journal, row)
             flow == workflows[journal.workflow]
  <2>1. /\ Journal(p, row) /\ pc' = [pc EXCEPT ![p] = "loop"]
        /\ UNCHANGED <<holder, at, submitted, error>>
    BY <1>2, <1>5 DEF Authorize, Goto
  <2>2. /\ failed # NoFailure /\ failed.trial = Trial(journal) /\ Trial(journal) \in Trials
        /\ <<failed.trial, failed.phase>> \notin journal.recovered
        /\ Reached(journal, failed.phase) /\ ~PendingAdoption(journal) /\ at[p] = 1
    BY <1>1, <1>2 DEF CommandInv, LoopInv, JournalInv, InTrial, InLoop, Running
  <2>3. /\ journal.step = 2 /\ failed.phase \in Labels /\ failed.phase # "B"
        /\ flow.status = "FAILED" /\ flow.work.kind = "pending"
        /\ flow.schedule.kind \in {"identity-503", "upload-timeout"}
    BY <1>5 DEF Authorizable, Recoverable, SoleFailure, ScheduleRooted, Pending
  <2>4. /\ ~Ready(journal) /\ journal.phase \in 1 .. Len(Phases(Trial(journal)))
        /\ Here(journal) \in PhaseKeys /\ IsPhase(Here(journal)) /\ Index(Here(journal)) = journal.phase
        /\ Here(journal)[1] = Trial(journal)
        /\ Here(journal)[2] = Phases(Trial(journal))[journal.phase]
    <3>1. ~Ready(journal)
      BY <1>2, <2>3 DEF JournalInv
    <3> QED
      BY <1>2, <2>2, <3>1, JournalAt
  \* The workflow is not one of phase B, so the failed phase is its phase.
  <2>5. failed.phase = Phases(Trial(journal))[journal.phase]
    <3>1. Sole(workflows, journal.workflow, Here(journal))
      BY <1>2, <2>3 DEF JournalMesh
    <3>2. Here(journal)[2] # "B"
      <4>1. FlowInv(flow) /\ flow.key = Here(journal)
        BY <1>2, <3>1 DEF MeshInv, Sole
      <4> QED
        BY <2>3, <4>1 DEF FlowInv
    <3>3. Here(journal)[2] \in Labels /\ Here(journal) = <<Trial(journal), Here(journal)[2]>>
      BY <2>4 DEF PhaseKeys, Here
    <3>4. IsPhase(<<Trial(journal), failed.phase>>)
      BY <2>2, <2>3 DEF Reached
    <3>5. Here(journal)[2] = failed.phase
      <4>1. CASE Trial(journal) \in Conditional
        <5>1. failed.phase = "A"
          BY <2>3, <3>4, <4>1 DEF IsPhase
        <5>2. Here(journal)[2] = "A"
          BY <2>4, <3>2, <4>1 DEF IsPhase
        <5> QED
          BY <5>1, <5>2
      <4>2. CASE Trial(journal) \notin Conditional
        <5>1. failed.phase = "unconditional"
          BY <3>4, <4>2 DEF IsPhase
        <5>2. Here(journal)[2] = "unconditional"
          BY <2>4, <4>2 DEF IsPhase
        <5> QED
          BY <5>1, <5>2
      <4> QED
        BY <4>1, <4>2
    <3> QED
      BY <2>4, <3>5
  <2>6. ~Active(flow)
    BY <2>3 DEF Active
  <2>7. JournalInv(g) /\ g = Recovered(journal)
    BY <1>2, <2>2, <2>3, <2>5, RecoveryRow
  <2>8. JournalMesh(g, workflows, contract)
    BY <1>2, <2>2, <2>3, <2>5, <2>6, RecoveryMesh
  <2>9. /\ g.completed = journal.completed /\ g.failed = NoFailure /\ g.first = journal.first
        /\ g.results = journal.results /\ g.adopted = journal.adopted
    <3>1. journal \in Journals
      BY <1>2 DEF JournalInv
    <3> QED
      BY <2>7, <3>1, RecoveredFields
  <2>10. journal' = g
    BY <1>2, <2>1 DEF Journal
  <2>11. Len(checkpoints) = journal.completed /\ Loads(journal)
    BY <1>2, <2>2 DEF DiskInv, CheckpointInv, Gap
  <2> HIDE DEF g
  <2>12. CheckpointInv'
    <3>1. Loads(g)
      BY <2>9, <2>11, LoadsKept
    <3> QED
      BY <1>1, <2>9, <2>10, <2>11, <3>1 DEF CheckpointInv, Loads
  <2>13. DocumentIsFirst'
    BY <1>1, <1>2, <2>9, <2>10 DEF DiskInv, DocumentIsFirst
  <2>14. /\ mem'[p] = journal' /\ mem' \in [Processes -> Journals]
         /\ MeshTypeOK' /\ MeshInv' /\ DiskTypes' /\ DiskInv'
    BY <1>1, <2>1, <2>7, <2>8, <2>12, <2>13, JournalKeeps DEF g
  <2>15. CommandInv(p)'
    <3>1. ~PendingAdoption(journal)'
      BY <1>1, <2>2, <2>9, <2>10 DEF PendingAdoption
    <3>2. pc'[p] = "loop"
      BY <1>2, <2>1 DEF ProcTypes
    <3> QED
      BY <2>9, <2>10, <3>1, <3>2 DEF CommandInv, Running
  <2>16. LoopInv(p)'
    <3>1. pc'[p] = "loop" /\ at'[p] = 1
      BY <1>2, <2>1, <2>2 DEF ProcTypes
    <3> QED
      BY <1>1, <2>9, <2>10, <2>11, <3>1 DEF LoopInv, InTrial, InLoop, Running
  <2> HIDE DEF row
  <2>17. at' \in [Processes -> 1 .. 2] /\ submitted' \in [Processes -> Nat]
    BY <1>2, <2>1 DEF ProcTypes
  <2>18. "loop" \in Steps
    BY DEF Steps
  <2> QED
    BY <1>1, <2>1, <2>9, <2>10, <2>14, <2>15, <2>16, <2>17, <2>18, GoesOn
<1> QED
  BY <1>4, <1>5

LEMMA BeginPhaseKeeps ==
    ASSUME IInv, NEW p \in Processes, BeginPhase(p)
    PROVE  IInv'
<1>1. /\ pc[p] = "phase"
      /\ UNCHANGED <<meshVars, files, contract, checkpoints, document, sums, crashes>>
  BY DEF BeginPhase
<1>2. /\ JournalInv(journal) /\ JournalMesh(journal, workflows, contract)
      /\ mem[p] = journal /\ Current(p) = Trial(journal) /\ at[p] \in 1 .. 2
      /\ LockInv(p) /\ CommandInv(p) /\ LoopInv(p) /\ ProcTypes /\ DiskTypes
      /\ DiskInv /\ MeshTypeOK /\ MeshInv /\ failures \in Nat
      /\ Progress(p) = IF at[p] < journal.phase THEN 3 ELSE journal.step
  BY <1>1, AtWork DEF ProcInv
<1>3. UNCHANGED <<workflows, ledger, sent, epoch, failures>>
  BY <1>1 DEF meshVars
<1>4. /\ journal.failed = NoFailure /\ ~PendingAdoption(journal)
      /\ Trial(journal) \in Trials /\ at[p] <= Len(Phases(Trial(journal))) /\ at[p] <= journal.phase
      /\ Len(checkpoints) = journal.completed
  BY <1>1, <1>2 DEF CommandInv, LoopInv, InTrial, InLoop, Running
<1>a. journal.phase \in 1 .. 3 /\ journal.step \in 0 .. 2
  BY <1>2, JournalAt
<1>b. Progress(p) # 3 => at[p] = journal.phase /\ journal.step = Progress(p) /\ ~Ready(journal)
  BY <1>2, <1>4, <1>a DEF Ready
<1>5. CASE Progress(p) = 1
  <2>1. Raise(p, Phase(p), "other") /\ UNCHANGED journal
    BY <1>5 DEF BeginPhase
  <2>2. UNCHANGED diskVars
    BY <1>1, <2>1 DEF diskVars
  <2>3. /\ ProcTypes' /\ ProcInv(p)'
        /\ \A q \in Processes : q # p => pc'[q] = pc[q] /\ at'[q] = at[q]
    BY <1>1, <1>4, <2>1, <2>2, RaiseInv DEF Raising
  <2> QED
    BY <1>1, <1>2, <1>3, <2>2, <2>3, NothingWritten
<1>6. CASE Progress(p) \in {2, 3}
  <2> DEFINE step == IF Progress(p) = 2 THEN "wait" ELSE "after"
  <2>1. Continue(p, step) /\ step \in Steps /\ UNCHANGED journal
    BY <1>6 DEF BeginPhase, Steps
  <2>2. /\ ProcTypes' /\ pc'[p] = step /\ at'[p] = at[p] /\ mem'[p] = mem[p] /\ holder' = holder
        /\ \A q \in Processes : q # p => pc'[q] = pc[q] /\ at'[q] = at[q]
    BY <1>1, <2>1, ContinueKeeps DEF Continue
  <2>3. UNCHANGED <<files, contract, journal, checkpoints, document, sums, diskVars>>
    BY <1>1, <2>1 DEF diskVars
  <2>4. LockInv(p)'
    BY <1>1, <1>2, <2>2, <2>3 DEF LockInv
  <2>5. CommandInv(p)'
    <3>1. ~PendingAdoption(journal)' /\ journal'.failed = NoFailure
      BY <1>4, <2>3 DEF PendingAdoption
    <3> QED
      BY <2>2, <3>1 DEF CommandInv, Running
  <2>6. LoopInv(p)'
    <3>1. CASE Progress(p) = 2
      BY <1>4, <1>b, <2>2, <2>3, <3>1 DEF LoopInv, InTrial, InLoop, Running
    <3>2. CASE Progress(p) = 3
      <4>1. at[p] < journal.phase
        BY <1>2, <1>a, <3>2
      <4> QED
        BY <1>4, <2>2, <2>3, <3>2, <4>1 DEF LoopInv, InTrial, InLoop, Running
    <3> QED
      BY <1>6, <3>1, <3>2
  <2> HIDE DEF step
  <2> QED
    BY <1>1, <1>2, <1>3, <2>2, <2>3, <2>4, <2>5, <2>6, NothingWritten DEF ProcInv
<1>7. CASE Progress(p) = 0
  <2> DEFINE row == Row("SUBMISSION_INTENT", Trial(journal), Phases(Trial(journal))[journal.phase], None)
             g == Extend(journal, row)
  <2>1. at[p] = journal.phase /\ journal.step = 0 /\ ~Ready(journal)
    BY <1>7, <1>b
  <2>2. /\ Journal(p, row) /\ pc' = [pc EXCEPT ![p] = "submit"]
        /\ UNCHANGED <<holder, at, submitted, error>>
    <3>1. Phase(p) = Phases(Trial(journal))[journal.phase]
      BY <1>2, <2>1 DEF Phase
    <3> QED
      BY <1>2, <1>7, <3>1 DEF BeginPhase, Goto
  <2>3. JournalInv(g) /\ g = Intended(journal)
    BY <1>2, <1>4, <2>1, IntentRow
  <2>4. JournalMesh(g, workflows, contract) /\ NoneActive(workflows, Here(g))
    BY <1>2, <1>4, <2>1, IntentMesh
  <2>5. /\ g.completed = journal.completed /\ g.failed = NoFailure /\ g.first = journal.first
        /\ g.results = journal.results /\ g.adopted = journal.adopted
        /\ g.step = 1 /\ g.phase = journal.phase
    <3>1. journal \in Journals
      BY <1>2 DEF JournalInv
    <3> QED
      BY <1>4, <2>3, <3>1, IntendedFields
  <2>6. journal' = g
    BY <1>2, <2>2 DEF Journal
  <2> HIDE DEF g, row
  <2>7. CheckpointInv'
    <3>1. Loads(g)
      BY <1>2, <2>5, LoadsKept DEF DiskInv, CheckpointInv
    <3> QED
      BY <1>1, <1>4, <2>5, <2>6, <3>1 DEF CheckpointInv, Loads
  <2>8. DocumentIsFirst'
    BY <1>1, <1>2, <2>5, <2>6 DEF DiskInv, DocumentIsFirst
  <2>9. /\ mem'[p] = journal' /\ mem' \in [Processes -> Journals]
        /\ MeshTypeOK' /\ MeshInv' /\ DiskTypes' /\ DiskInv'
    BY <1>1, <2>2, <2>3, <2>4, <2>7, <2>8, JournalKeeps DEF g
  <2>10. /\ pc'[p] = "submit" /\ at'[p] = at[p]
         /\ at' \in [Processes -> 1 .. 2] /\ submitted' \in [Processes -> Nat] /\ "submit" \in Steps
    BY <1>2, <2>2 DEF ProcTypes, Steps
  <2>11. CommandInv(p)'
    <3>1. ~PendingAdoption(journal)'
      BY <1>1, <1>4, <2>5, <2>6 DEF PendingAdoption
    <3> QED
      BY <2>5, <2>6, <2>10, <3>1 DEF CommandInv, Running
  <2>12. LoopInv(p)'
    <3>1. Trial(g) = Trial(journal)
      BY <2>5 DEF Trial
    <3> QED
      BY <1>1, <1>3, <1>4, <2>1, <2>4, <2>5, <2>6, <2>10, <3>1 DEF LoopInv, InTrial, InLoop, Running
  <2> QED
    BY <1>1, <2>2, <2>5, <2>6, <2>9, <2>10, <2>11, <2>12, GoesOn
<1> QED
  BY <1>2, <1>5, <1>6, <1>7, <1>a

LEMMA BindKeeps ==
    ASSUME IInv, NEW p \in Processes, Bind(p)
    PROVE  IInv'
<1>1. /\ pc[p] = "bind"
      /\ UNCHANGED <<meshVars, files, contract, checkpoints, document, sums, holder, at, error, crashes>>
  BY DEF Bind
<1>2. /\ JournalInv(journal) /\ JournalMesh(journal, workflows, contract)
      /\ mem[p] = journal /\ Current(p) = Trial(journal)
      /\ LockInv(p) /\ CommandInv(p) /\ LoopInv(p) /\ ProcTypes /\ DiskTypes
      /\ DiskInv /\ MeshTypeOK /\ MeshInv
  BY <1>1, AtWork DEF ProcInv
<1>3. /\ journal.failed = NoFailure /\ ~PendingAdoption(journal)
      /\ Trial(journal) \in Trials /\ at[p] <= Len(Phases(Trial(journal)))
      /\ Len(checkpoints) = journal.completed /\ journal.step = 1 /\ at[p] = journal.phase
      /\ Sole(workflows, submitted[p], Here(journal))
  BY <1>1, <1>2 DEF CommandInv, LoopInv, InTrial, InLoop, Running
<1>4. ~Ready(journal)
  BY <1>2, <1>3 DEF JournalInv
<1>5. submitted[p] \in Nat
  BY <1>2 DEF ProcTypes
<1> DEFINE row == Row("WORKFLOW_BOUND", Trial(journal), Phases(Trial(journal))[journal.phase], submitted[p])
           g == Extend(journal, row)
<1>6. Journal(p, row) /\ submitted' = [submitted EXCEPT ![p] = 0] /\ pc' = [pc EXCEPT ![p] = "wait"]
  <2>1. Phase(p) = Phases(Trial(journal))[journal.phase]
    BY <1>2, <1>3 DEF Phase
  <2> QED
    BY <1>2, <2>1 DEF Bind, Goto
<1>7. JournalInv(g) /\ g = BoundTo(journal, submitted[p])
  BY <1>2, <1>3, <1>4, <1>5, BoundRow
<1>8. JournalMesh(g, workflows, contract)
  BY <1>2, <1>3, <1>4, <1>5, BoundMesh
<1>9. /\ g.completed = journal.completed /\ g.failed = NoFailure /\ g.first = journal.first
      /\ g.results = journal.results /\ g.adopted = journal.adopted
      /\ g.step = 2 /\ g.phase = journal.phase
  <2>1. journal \in Journals
    BY <1>2 DEF JournalInv
  <2> QED
    BY <1>3, <1>7, <2>1, BoundFields
<1>10. journal' = g
  BY <1>2, <1>6 DEF Journal
<1> HIDE DEF g, row
<1>11. CheckpointInv'
  <2>1. Loads(g)
    BY <1>2, <1>9, LoadsKept DEF DiskInv, CheckpointInv
  <2> QED
    BY <1>1, <1>3, <1>9, <1>10, <2>1 DEF CheckpointInv, Loads
<1>12. DocumentIsFirst'
  BY <1>1, <1>2, <1>9, <1>10 DEF DiskInv, DocumentIsFirst
<1>13. /\ mem'[p] = journal' /\ mem' \in [Processes -> Journals]
       /\ MeshTypeOK' /\ MeshInv' /\ DiskTypes' /\ DiskInv'
  BY <1>1, <1>6, <1>7, <1>8, <1>11, <1>12, JournalKeeps DEF g
<1>14. /\ pc'[p] = "wait" /\ at'[p] = at[p]
       /\ at' \in [Processes -> 1 .. 2] /\ submitted' \in [Processes -> Nat] /\ "wait" \in Steps
  BY <1>1, <1>2, <1>6 DEF ProcTypes, Steps
<1>15. CommandInv(p)'
  <2>1. ~PendingAdoption(journal)'
    BY <1>1, <1>3, <1>9, <1>10 DEF PendingAdoption
  <2> QED
    BY <1>9, <1>10, <1>14, <2>1 DEF CommandInv, Running
<1>16. LoopInv(p)'
  <2>1. Trial(g) = Trial(journal)
    BY <1>9 DEF Trial
  <2> QED
    BY <1>1, <1>3, <1>9, <1>10, <1>14, <2>1 DEF LoopInv, InTrial, InLoop, Running
<1> QED
  BY <1>1, <1>6, <1>9, <1>10, <1>13, <1>14, <1>15, <1>16, GoesOn

\* The workflow the journal is bound to.
LEMMA BoundFlow ==
    ASSUME MeshTypeOK, NEW j, JournalInv(j), NEW c, JournalMesh(j, workflows, c), j.step = 2
    PROVE  /\ Trial(j) \in Trials /\ ~Ready(j) /\ Here(j) \in PhaseKeys /\ Here(j)[1] = Trial(j)
           /\ j.workflow \in Nat /\ j.workflow \in DOMAIN workflows
           /\ workflows[j.workflow] \in Flows
           /\ workflows[j.workflow].key = Here(j)
           /\ [schedule |-> workflows[j.workflow].schedule, work |-> workflows[j.workflow].work,
               workflow |-> j.workflow]
                 \in [schedule : Outcomes, work : Outcomes, workflow : Nat]
<1>1. Trial(j) \in Trials /\ ~Ready(j) /\ j \in Journals
  BY DEF JournalInv
<1>2. Here(j) \in PhaseKeys /\ Here(j)[1] = Trial(j)
  BY <1>1, JournalAt
<1>3. j.workflow \in Nat
  BY <1>1 DEF Journals
<1>4. Sole(workflows, j.workflow, Here(j))
  BY DEF JournalMesh
<1>5. j.workflow \in DOMAIN workflows /\ workflows[j.workflow].key = Here(j)
  BY <1>4 DEF Sole
<1>6. workflows[j.workflow] \in Flows
  <2>1. workflows \in Seq(Flows)
    BY DEF MeshTypeOK, Flows
  <2> QED
    BY <1>5, <2>1
<1> QED
  BY <1>1, <1>2, <1>3, <1>5, <1>6 DEF Flows

\* A trial that is not pending adoption has no adopted phase.
LEMMA NotAdopted ==
    ASSUME JournalInv(journal), ~PendingAdoption(journal), Len(checkpoints) = journal.completed
    PROVE  \A k \in journal.adopted : k[1] # Trial(journal)
<1>1. journal.completed \in 0 .. N /\ Trial(journal) = journal.completed + 1
  BY JournalAt
<1>2. \A k \in journal.adopted : ~(k[1] > journal.completed)
  BY DEF PendingAdoption
<1> QED
  BY <1>1, <1>2, ContainerAssumption

LEMMA CollectKeeps ==
    ASSUME IInv, NEW p \in Processes, Collect(p)
    PROVE  IInv'
<1>1. /\ pc[p] = "collect"
      /\ UNCHANGED <<meshVars, files, contract, checkpoints, document, sums, crashes>>
  BY DEF Collect
<1>2. /\ JournalInv(journal) /\ JournalMesh(journal, workflows, contract)
      /\ mem[p] = journal /\ Current(p) = Trial(journal) /\ Bound(p) = workflows[journal.workflow]
      /\ LockInv(p) /\ CommandInv(p) /\ LoopInv(p) /\ ProcTypes /\ DiskTypes
      /\ DiskInv /\ MeshTypeOK /\ MeshInv /\ failures \in Nat
  BY <1>1, AtWork DEF ProcInv
<1>3. UNCHANGED <<workflows, ledger, sent, epoch, failures>>
  BY <1>1 DEF meshVars
<1>4. /\ journal.failed = NoFailure /\ ~PendingAdoption(journal)
      /\ Trial(journal) \in Trials /\ at[p] <= Len(Phases(Trial(journal)))
      /\ Len(checkpoints) = journal.completed /\ journal.step = 2 /\ at[p] = journal.phase
      /\ workflows[journal.workflow].status = "DONE"
  BY <1>1, <1>2 DEF CommandInv, LoopInv, InTrial, InLoop, Running
<1> DEFINE flow == workflows[journal.workflow]
<1>5. CASE Replayed(flow) # {} \/ ~OfContract(flow)
  <2>1. Raise(p, Phase(p), CollectError(Bound(p))) /\ UNCHANGED journal
    BY <1>2, <1>5 DEF Collect
  <2>2. UNCHANGED diskVars
    BY <1>1, <2>1 DEF diskVars
  <2>3. CollectError(Bound(p)) \in {"other", "replayed"}
    BY DEF CollectError
  <2>4. /\ ProcTypes' /\ ProcInv(p)'
        /\ \A q \in Processes : q # p => pc'[q] = pc[q] /\ at'[q] = at[q]
    BY <1>1, <1>4, <2>1, <2>2, <2>3, RaiseInv DEF Raising
  <2> QED
    BY <1>1, <1>2, <1>3, <2>2, <2>4, NothingWritten
<1>6. CASE Replayed(flow) = {} /\ OfContract(flow)
  <2> DEFINE result == [schedule |-> flow.schedule, work |-> flow.work, workflow |-> journal.workflow]
             row == Row("RESULTS_OBTAINED", Trial(journal), Phases(Trial(journal))[journal.phase], result)
             g == Extend(journal, row)
  <2>1. /\ Journal(p, row) /\ pc' = [pc EXCEPT ![p] = "after"]
        /\ UNCHANGED <<holder, at, submitted, error>>
    <3>1. Phase(p) = Phases(Trial(journal))[journal.phase] /\ Result(p) = result
      BY <1>2, <1>4 DEF Phase, Result
    <3> QED
      BY <1>2, <1>6, <3>1 DEF Collect, Goto
  <2>2. /\ ~Ready(journal) /\ Here(journal) \in PhaseKeys /\ Here(journal)[1] = Trial(journal)
        /\ flow \in Flows /\ journal.workflow \in DOMAIN workflows
        /\ result \in [schedule : Outcomes, work : Outcomes, workflow : Nat]
    BY <1>2, <1>4, BoundFlow
  <2>3. /\ flow.work.kind = "fresh" /\ flow.work.epoch = contract
        /\ flow.schedule.kind # "replay"
    <3>1. flow.work.kind # "replay" /\ flow.schedule.kind # "replay"
      BY <1>6 DEF Replayed
    <3>2. FlowInv(flow)
      BY <1>2, <2>2 DEF MeshInv
    <3> QED
      BY <1>4, <1>6, <3>1, <3>2 DEF FlowInv, OfContract
  <2>4. Here(journal) \notin journal.adopted
    BY <1>2, <1>4, <2>2, NotAdopted
  <2>5. /\ result.schedule = flow.schedule /\ result.work = flow.work
        /\ result.workflow = journal.workflow
    OBVIOUS
  <2> HIDE DEF result
  <2>6. JournalMesh(g, workflows, contract) /\ JournalInv(g) /\ g = Obtained(journal, result)
    BY <1>2, <1>4, <2>2, <2>3, <2>4, <2>5, ResultsMesh
  <2>7. journal.results \in [PhaseKeys -> [schedule : Outcomes, work : Outcomes, workflow : Nat]]
        /\ journal \in Journals
    BY <1>2 DEF JournalInv, Journals
  <2>8. /\ g.completed = journal.completed /\ g.failed = NoFailure /\ g.first = journal.first
        /\ g.adopted = journal.adopted /\ g.phase = journal.phase + 1
        /\ g.results = [journal.results EXCEPT ![Here(journal)] = result]
    BY <1>4, <2>6, <2>7, ObtainedFields
  <2>9. journal' = g
    BY <1>2, <2>1 DEF Journal
  <2> HIDE DEF g, row
  <2>10. CheckpointInv'
    <3>1. \A t \in DOMAIN checkpoints : \A phase \in Labels :
             g.results[<<t, phase>>] = journal.results[<<t, phase>>]
      <4>1. \A t \in DOMAIN checkpoints : t # Trial(journal) /\ t \in Trials
        <5>1. checkpoints \in Seq({"measured", "adopted"}) /\ journal.completed \in 0 .. N
              /\ Trial(journal) = journal.completed + 1
          BY <1>2, JournalAt DEF DiskTypes
        <5> QED
          BY <1>4, <5>1, ContainerAssumption DEF Trials
      <4>2. \A t \in DOMAIN checkpoints : \A phase \in Labels :
               <<t, phase>> # Here(journal) /\ <<t, phase>> \in PhaseKeys
        BY <2>2, <4>1 DEF PhaseKeys
      <4> QED
        BY <2>7, <2>8, <4>2
    <3>2. Loads(g)
      BY <1>2, <3>1, LoadsKept DEF DiskInv, CheckpointInv
    <3> QED
      BY <1>1, <1>4, <2>8, <2>9, <3>2 DEF CheckpointInv, Loads
  <2>11. DocumentIsFirst'
    BY <1>1, <1>2, <2>8, <2>9 DEF DiskInv, DocumentIsFirst
  <2>12. /\ mem'[p] = journal' /\ mem' \in [Processes -> Journals]
         /\ MeshTypeOK' /\ MeshInv' /\ DiskTypes' /\ DiskInv'
    BY <1>1, <2>1, <2>6, <2>10, <2>11, JournalKeeps DEF g
  <2>13. /\ pc'[p] = "after" /\ at'[p] = at[p]
         /\ at' \in [Processes -> 1 .. 2] /\ submitted' \in [Processes -> Nat] /\ "after" \in Steps
    BY <1>2, <2>1 DEF ProcTypes, Steps
  <2>14. CommandInv(p)'
    <3>1. ~PendingAdoption(journal)'
      BY <1>1, <1>4, <2>8, <2>9 DEF PendingAdoption
    <3> QED
      BY <2>8, <2>9, <2>13, <3>1 DEF CommandInv, Running
  <2>15. LoopInv(p)'
    <3>1. Trial(g) = Trial(journal)
      BY <2>8 DEF Trial
    <3>2. at[p] < g.phase
      BY <1>2, <1>4, <2>8, JournalAt
    <3> QED
      BY <1>1, <1>4, <2>8, <2>9, <2>13, <3>1, <3>2 DEF LoopInv, InTrial, InLoop, Running
  <2> QED
    BY <1>1, <2>1, <2>8, <2>9, <2>12, <2>13, <2>14, <2>15, GoesOn
<1> QED
  BY <1>5, <1>6

LEMMA CompleteKeeps ==
    ASSUME IInv, NEW p \in Processes, Complete(p)
    PROVE  IInv'
<1>1. /\ pc[p] = "complete"
      /\ UNCHANGED <<meshVars, files, contract, checkpoints, document, sums,
                     holder, submitted, error, crashes>>
  BY DEF Complete
<1>2. /\ JournalInv(journal) /\ JournalMesh(journal, workflows, contract)
      /\ mem[p] = journal /\ Current(p) = Trial(journal)
      /\ LockInv(p) /\ CommandInv(p) /\ LoopInv(p) /\ ProcTypes /\ DiskTypes
      /\ DiskInv /\ MeshTypeOK /\ MeshInv
  BY <1>1, AtWork DEF ProcInv
<1>3. /\ journal.failed = NoFailure /\ ~PendingAdoption(journal)
      /\ Ready(journal) /\ Len(checkpoints) = journal.completed + 1
  BY <1>1, <1>2 DEF CommandInv, LoopInv, InTrial, InLoop, Running
<1> DEFINE row == Row("TRIAL_COMPLETED", Trial(journal), "trial", None)
           g == Extend(journal, row)
<1>4. Journal(p, row) /\ at' = [at EXCEPT ![p] = 1] /\ pc' = [pc EXCEPT ![p] = "loop"]
  BY <1>2 DEF Complete, Goto
<1>5. JournalInv(g) /\ g = Finished(journal)
  BY <1>2, <1>3, CompletedRow
<1>6. JournalMesh(g, workflows, contract)
  BY <1>2, <1>3, CompletedMesh
<1>7. /\ g.completed = journal.completed + 1 /\ g.failed = NoFailure /\ g.first = journal.first
      /\ g.results = journal.results /\ g.adopted = journal.adopted
  <2>1. journal \in Journals
    BY <1>2 DEF JournalInv
  <2> QED
    BY <1>3, <1>5, <2>1, FinishedFields
<1>8. journal' = g
  BY <1>2, <1>4 DEF Journal
<1> HIDE DEF g, row
<1>9. CheckpointInv'
  <2>1. Loads(g)
    BY <1>2, <1>7, LoadsKept DEF DiskInv, CheckpointInv
  <2> QED
    BY <1>1, <1>3, <1>7, <1>8, <2>1 DEF CheckpointInv, Loads
<1>10. DocumentIsFirst'
  BY <1>1, <1>2, <1>7, <1>8 DEF DiskInv, DocumentIsFirst
<1>11. /\ mem'[p] = journal' /\ mem' \in [Processes -> Journals]
       /\ MeshTypeOK' /\ MeshInv' /\ DiskTypes' /\ DiskInv'
  BY <1>1, <1>4, <1>5, <1>6, <1>9, <1>10, JournalKeeps DEF g
<1>12. /\ pc'[p] = "loop" /\ at'[p] = 1 /\ \A q \in Processes : q # p => at'[q] = at[q]
       /\ at' \in [Processes -> 1 .. 2] /\ submitted' \in [Processes -> Nat] /\ "loop" \in Steps
  BY <1>1, <1>2, <1>4 DEF ProcTypes, Steps
<1>13. CommandInv(p)'
  <2>1. ~PendingAdoption(journal)'
    BY <1>1, <1>3, <1>7, <1>8 DEF PendingAdoption
  <2> QED
    BY <1>7, <1>8, <1>12, <2>1 DEF CommandInv, Running
<1>14. LoopInv(p)'
  BY <1>1, <1>3, <1>7, <1>8, <1>12 DEF LoopInv, InTrial, InLoop, Running
<1> QED
  BY <1>1, <1>4, <1>7, <1>8, <1>11, <1>12, <1>13, <1>14, GoesOn

LEMMA FailKeeps ==
    ASSUME IInv, NEW p \in Processes, Fail(p)
    PROVE  IInv'
<1> DEFINE f == error[p]
           row == Row("RUN_FAILED", f.trial, f.phase, f)
           g == Extend(journal, row)
<1>1. /\ pc[p] = "fail" /\ Journal(p, row) /\ pc' = [pc EXCEPT ![p] = "document"]
      /\ UNCHANGED <<meshVars, files, contract, checkpoints, document, sums,
                     holder, at, submitted, error, crashes>>
  BY DEF Fail, Goto
<1>2. /\ JournalInv(journal) /\ JournalMesh(journal, workflows, contract)
      /\ mem[p] = journal /\ f \in Failures
      /\ LockInv(p) /\ CommandInv(p) /\ LoopInv(p) /\ ProcTypes /\ DiskTypes
      /\ DiskInv /\ MeshTypeOK /\ MeshInv
  BY <1>1, AtWork DEF ProcInv, ProcTypes
<1>3. /\ journal.failed = NoFailure /\ ~PendingAdoption(journal) /\ Trial(journal) \in Trials
      /\ Len(checkpoints) = journal.completed
      /\ f.trial = Trial(journal) /\ f.phase # "none" /\ Reached(journal, f.phase)
  BY <1>1, <1>2 DEF CommandInv, LoopInv, InTrial, InLoop, Running
<1>4. \A k \in journal.adopted : k[1] # Trial(journal)
  BY <1>2, <1>3, NotAdopted
<1> HIDE DEF f
<1>5. JournalInv(g) /\ g = FailedWith(journal, f)
  BY <1>2, <1>3, <1>4, FailedRow
<1>6. JournalMesh(g, workflows, contract)
  BY <1>2, <1>3, <1>4, FailedMesh
<1>7. /\ g.completed = journal.completed /\ g.results = journal.results
      /\ g.first = (IF journal.first = NoFailure THEN f ELSE journal.first)
  <2>1. journal \in Journals
    BY <1>2 DEF JournalInv
  <2> QED
    BY <1>5, <2>1, FailedFields
<1>8. journal' = g
  BY <1>1, <1>2 DEF Journal
<1> HIDE DEF g, row
<1>9. CheckpointInv'
  <2>1. Loads(g)
    BY <1>2, <1>7, LoadsKept DEF DiskInv, CheckpointInv
  <2> QED
    BY <1>1, <1>3, <1>7, <1>8, <2>1 DEF CheckpointInv, Loads
<1>10. DocumentIsFirst'
  BY <1>1, <1>2, <1>7, <1>8 DEF DiskInv, DocumentIsFirst
<1>11. /\ mem'[p] = journal' /\ mem' \in [Processes -> Journals]
       /\ MeshTypeOK' /\ MeshInv' /\ DiskTypes' /\ DiskInv'
  BY <1>1, <1>5, <1>6, <1>9, <1>10, JournalKeeps DEF g
<1>12. /\ ProcTypes' /\ pc'[p] = "document"
       /\ \A q \in Processes : q # p => pc'[q] = pc[q] /\ at'[q] = at[q]
  BY <1>1, <1>2, <1>11 DEF ProcTypes, Steps
<1>13. LockInv(p)'
  <2>1. document = NoFailure => journal.first = NoFailure
    BY <1>1, <1>2 DEF LockInv
  <2>2. document' = NoFailure => error'[p] = journal'.first
    BY <1>1, <1>7, <1>8, <2>1 DEF f
  <2> QED
    BY <1>1, <1>2, <1>11, <1>12, <2>2 DEF LockInv
<1>14. CommandInv(p)' /\ LoopInv(p)'
  BY <1>12 DEF CommandInv, LoopInv, InTrial, InLoop, Running
<1> QED
  BY <1>1, <1>11, <1>12, <1>13, <1>14, StepKeeps DEF ProcInv

-----------------------------------------------------------------------------
(* The steps that write to the other files, or submit.                     *)

LEMMA CheckpointKeeps ==
    ASSUME IInv, NEW p \in Processes, Checkpoint(p)
    PROVE  IInv'
<1>1. /\ pc[p] = "checkpoint" /\ checkpoints' = Append(checkpoints, "measured")
      /\ Continue(p, "complete")
      /\ UNCHANGED <<meshVars, files, contract, journal, document, sums, crashes>>
  BY DEF Checkpoint
<1>2. /\ JournalInv(journal) /\ mem[p] = journal /\ JournalMesh(journal, workflows, contract)
      /\ LockInv(p) /\ CommandInv(p) /\ LoopInv(p) /\ ProcTypes /\ DiskTypes
      /\ DiskInv /\ MeshTypeOK /\ MeshInv
  BY <1>1, AtWork DEF ProcInv
<1>3. /\ journal.failed = NoFailure /\ ~PendingAdoption(journal) /\ Trial(journal) \in Trials
      /\ at[p] <= Len(Phases(Trial(journal)))
      /\ Len(checkpoints) = journal.completed /\ Ready(journal)
  BY <1>1, <1>2 DEF CommandInv, LoopInv, InTrial, InLoop, Running
<1>4. /\ checkpoints \in Seq({"measured", "adopted"}) /\ journal.completed \in 0 .. N
      /\ Trial(journal) = journal.completed + 1
  BY <1>2, JournalAt DEF DiskTypes
<1>5. /\ checkpoints' \in Seq({"measured", "adopted"}) /\ Len(checkpoints') = Trial(journal)
      /\ checkpoints'[Trial(journal)] = "measured"
      /\ \A t \in DOMAIN checkpoints' :
            t = Trial(journal) \/ (t \in DOMAIN checkpoints /\ checkpoints'[t] = checkpoints[t])
  BY <1>1, <1>3, <1>4
<1>6. \A phase \in Labels : journal.results[<<Trial(journal), phase>>].schedule.kind # "replay"
  <2> SUFFICES ASSUME NEW phase \in Labels
               PROVE  journal.results[<<Trial(journal), phase>>].schedule.kind # "replay"
    OBVIOUS
  <2> DEFINE k == <<Trial(journal), phase>>
  <2>1. k \in PhaseKeys /\ k[1] = Trial(journal)
    BY <1>3 DEF PhaseKeys
  <2> HIDE DEF k
  <2>2. k \notin journal.adopted
    BY <1>2, <1>3, <2>1, NotAdopted
  <2>3. NoResult.schedule.kind # "replay"
    BY DEF NoResult, Pending
  <2>4. journal.results[k] # NoResult => journal.results[k].schedule.kind # "replay"
    BY <1>2, <2>1, <2>2 DEF JournalMesh
  <2> QED
    BY <2>3, <2>4 DEF k
<1>7. CheckpointInv'
  <2>1. Loads(journal)'
    <3> SUFFICES ASSUME NEW t \in DOMAIN checkpoints'
                 PROVE  checkpoints'[t] = "adopted"
                           <=> \E phase \in Labels :
                                  journal.results[<<t, phase>>].schedule.kind = "replay"
      BY <1>1 DEF Loads
    <3>1. CASE t = Trial(journal)
      BY <1>5, <1>6, <3>1
    <3>2. CASE t # Trial(journal)
      <4>1. t \in DOMAIN checkpoints /\ checkpoints'[t] = checkpoints[t]
        BY <1>5, <3>2
      <4> QED
        BY <1>2, <4>1 DEF DiskInv, CheckpointInv, Loads
    <3> QED
      BY <3>1, <3>2
  <2>2. Gap(journal)'
    BY <1>1, <1>3, <1>4, <1>5 DEF Gap, Ready
  <2> QED
    BY <2>1, <2>2 DEF CheckpointInv
<1>8. UNCHANGED <<workflows, ledger, sent, epoch, failures>> /\ failures \in Nat
  BY <1>1, <1>2 DEF meshVars, MeshTypeOK
<1>9. MeshTypeOK' /\ MeshInv'
  BY <1>2, <1>8, MeshStays
<1>10. files = 4 /\ sums = FALSE
  BY <1>1, <1>2 DEF LockInv
<1>11. DiskTypes' /\ DiskInv'
  BY <1>1, <1>2, <1>5, <1>7, <1>8, <1>10 DEF DiskTypes, DiskInv, DocumentIsFirst
<1>12. /\ ProcTypes' /\ pc'[p] = "complete" /\ at'[p] = at[p] /\ mem'[p] = mem[p] /\ holder' = holder
       /\ \A q \in Processes : q # p => pc'[q] = pc[q] /\ at'[q] = at[q]
  BY <1>1, ContinueKeeps DEF Continue, Steps
<1>13. LockInv(p)'
  BY <1>1, <1>2, <1>12 DEF LockInv
<1>14. CommandInv(p)'
  <2>1. ~PendingAdoption(journal)'
    <3>1. \A k \in journal.adopted : k[1] \in Nat
      BY <1>2 DEF JournalInv, Journals, PhaseKeys, Trials
    <3> QED
      BY <1>1, <1>3, <1>4, <1>5, <3>1 DEF PendingAdoption
  <2> QED
    BY <1>1, <1>3, <1>12, <2>1 DEF CommandInv, Running
<1>15. LoopInv(p)'
  BY <1>1, <1>3, <1>4, <1>5, <1>12 DEF LoopInv, InTrial, InLoop, Running
<1> QED
  BY <1>1, <1>9, <1>11, <1>12, <1>13, <1>14, <1>15, StepKeeps DEF ProcInv

LEMMA SubmitKeeps ==
    ASSUME IInv, NEW p \in Processes, Submit(p)
    PROVE  IInv'
<1>1. /\ pc[p] = "submit" /\ Accept(<<Current(p), Phase(p)>>)
      /\ submitted' = [submitted EXCEPT ![p] = Len(workflows) + 1] /\ pc' = [pc EXCEPT ![p] = "bind"]
      /\ UNCHANGED <<sent, ledger, epoch>> /\ failures' = failures
      /\ UNCHANGED <<files, contract, journal, checkpoints, document, sums, holder, mem, at, error, crashes>>
  BY DEF Submit, Goto, diskVars
<1>2. /\ JournalInv(journal) /\ JournalMesh(journal, workflows, contract)
      /\ mem[p] = journal /\ Current(p) = Trial(journal) /\ failures \in Nat
      /\ LockInv(p) /\ CommandInv(p) /\ LoopInv(p) /\ ProcTypes /\ DiskTypes
      /\ DiskInv /\ MeshTypeOK /\ MeshInv
  BY <1>1, AtWork DEF ProcInv
<1>3. /\ journal.failed = NoFailure /\ ~PendingAdoption(journal)
      /\ Trial(journal) \in Trials /\ at[p] <= Len(Phases(Trial(journal)))
      /\ Len(checkpoints) = journal.completed /\ journal.step = 1 /\ at[p] = journal.phase
      /\ NoneActive(workflows, Here(journal))
  BY <1>1, <1>2 DEF CommandInv, LoopInv, InTrial, InLoop, Running
<1>4. Accept(Here(journal))
  BY <1>1, <1>2, <1>3 DEF Phase, Here
<1>5. Here(journal) \in PhaseKeys /\ Begun(journal, Here(journal))
  <2>1. ~Ready(journal)
    BY <1>2, <1>3 DEF JournalInv
  <2>2. /\ Here(journal) \in PhaseKeys /\ IsPhase(Here(journal))
        /\ Index(Here(journal)) = journal.phase /\ Here(journal)[1] = Trial(journal)
    BY <1>2, <1>3, <2>1, JournalAt
  <2> QED
    BY <1>3, <2>2 DEF Begun
<1>6. /\ MeshInv' /\ MeshTypeOK' /\ Len(workflows) + 1 \in Nat
      /\ Sole(workflows', Len(workflows) + 1, Here(journal))
      /\ JournalMesh(journal, workflows', contract)
  <2>1. failures' \in Nat /\ journal.step # 2
    BY <1>1, <1>2, <1>3
  <2> QED
    BY <1>1, <1>2, <1>3, <1>4, <1>5, <2>1, Accepted
<1>7. DiskTypes' /\ DiskInv'
  <2>1. CheckpointInv'
    BY <1>1, <1>2 DEF DiskInv, CheckpointInv, Loads, Gap
  <2> QED
    BY <1>1, <1>2, <1>6, <2>1 DEF DiskTypes, DiskInv, DocumentIsFirst
<1>8. /\ pc'[p] = "bind" /\ at'[p] = at[p] /\ submitted'[p] = Len(workflows) + 1
      /\ mem'[p] = journal'
      /\ mem' \in [Processes -> Journals] /\ at' \in [Processes -> 1 .. 2]
      /\ submitted' \in [Processes -> Nat] /\ "bind" \in Steps
  BY <1>1, <1>2, <1>6 DEF ProcTypes, Steps
<1>9. CommandInv(p)'
  <2>1. ~PendingAdoption(journal)'
    BY <1>1, <1>3 DEF PendingAdoption
  <2> QED
    BY <1>1, <1>3, <1>8, <2>1 DEF CommandInv, Running
<1>10. LoopInv(p)'
  BY <1>1, <1>3, <1>6, <1>8 DEF LoopInv, InTrial, InLoop, Running
<1> QED
  BY <1>1, <1>6, <1>7, <1>8, <1>9, <1>10, GoesOn

LEMMA SubmitFailsKeeps ==
    ASSUME IInv, NEW p \in Processes, SubmitFails(p)
    PROVE  IInv'
<1>1. /\ pc[p] = "submit" /\ pc[p] # "idle" /\ Raise(p, Phase(p), "other")
      /\ Accept(<<Current(p), Phase(p)>>) \/ UNCHANGED workflows
      /\ failures' = failures + 1
      /\ UNCHANGED <<sent, ledger, epoch>> /\ UNCHANGED <<diskVars, crashes>>
      /\ UNCHANGED <<files, contract, journal, checkpoints, document, sums>>
  BY DEF SubmitFails, CanFail, diskVars
<1>2. /\ JournalInv(journal) /\ JournalMesh(journal, workflows, contract)
      /\ mem[p] = journal /\ Current(p) = Trial(journal) /\ failures' \in Nat
      /\ LockInv(p) /\ CommandInv(p) /\ LoopInv(p) /\ ProcTypes /\ DiskTypes
      /\ DiskInv /\ MeshTypeOK /\ MeshInv
  BY <1>1, AtWork DEF ProcInv
<1>3. /\ Trial(journal) \in Trials /\ journal.step = 1 /\ at[p] = journal.phase
      /\ NoneActive(workflows, Here(journal))
  BY <1>1, <1>2 DEF LoopInv, InTrial, InLoop, Running
<1>4. /\ ProcTypes' /\ ProcInv(p)'
      /\ \A q \in Processes : q # p => pc'[q] = pc[q] /\ at'[q] = at[q]
  BY <1>1, <1>3, RaiseInv DEF Raising
<1>5. CASE UNCHANGED workflows
  BY <1>1, <1>2, <1>4, <1>5, NothingWritten
<1>6. CASE Accept(<<Current(p), Phase(p)>>)
  <2>1. Accept(Here(journal))
    BY <1>2, <1>3, <1>6 DEF Phase, Here
  <2>2. Here(journal) \in PhaseKeys /\ Begun(journal, Here(journal))
    <3>1. ~Ready(journal)
      BY <1>2, <1>3 DEF JournalInv
    <3>2. /\ Here(journal) \in PhaseKeys /\ IsPhase(Here(journal))
          /\ Index(Here(journal)) = journal.phase /\ Here(journal)[1] = Trial(journal)
      BY <1>2, <1>3, <3>1, JournalAt
    <3> QED
      BY <1>3, <3>2 DEF Begun
  <2>3. MeshInv' /\ MeshTypeOK' /\ JournalMesh(journal, workflows', contract)
    <3>1. journal.step # 2
      BY <1>3
    <3> QED
      BY <1>1, <1>2, <1>3, <2>1, <2>2, <3>1, Accepted
  <2>4. DiskTypes' /\ DiskInv'
    <3>1. CheckpointInv'
      BY <1>1, <1>2 DEF DiskInv, CheckpointInv, Loads, Gap
    <3> QED
      BY <1>1, <1>2, <2>3, <3>1 DEF DiskTypes, DiskInv, DocumentIsFirst
  <2> QED
    BY <1>1, <1>4, <2>3, <2>4, StepKeeps
<1> QED
  BY <1>1, <1>5, <1>6

LEMMA WriteFailureKeeps ==
    ASSUME IInv, NEW p \in Processes, WriteFailure(p)
    PROVE  IInv'
<1>1. /\ pc[p] = "document" /\ Exit(p)
      /\ document' = IF document = NoFailure THEN error[p] ELSE document
      /\ UNCHANGED <<meshVars, files, contract, journal, checkpoints, sums, crashes>>
  BY DEF WriteFailure
<1>2. /\ LockInv(p) /\ ProcTypes /\ DiskTypes /\ DiskInv /\ MeshTypeOK /\ MeshInv
  BY <1>1, AtWork DEF ProcInv
<1>3. UNCHANGED <<workflows, ledger, sent, epoch, failures>> /\ failures' \in Nat /\ crashes' \in Nat
  BY <1>1, <1>2 DEF meshVars, MeshTypeOK, ProcTypes
<1>4. MeshTypeOK' /\ MeshInv'
  BY <1>2, <1>3, MeshStays
<1>5. files = 4 /\ sums = FALSE /\ (document = NoFailure => error[p] = journal.first)
  BY <1>1, <1>2 DEF LockInv
<1>6. DiskTypes'
  BY <1>1, <1>2 DEF DiskTypes, ProcTypes
<1>7. DocumentIsFirst'
  BY <1>1, <1>2, <1>5 DEF DiskInv, DocumentIsFirst
<1>8. CheckpointInv'
  BY <1>1, <1>2 DEF DiskInv, CheckpointInv, Loads, Gap
<1>9. DiskInv'
  BY <1>1, <1>2, <1>3, <1>5, <1>7, <1>8 DEF DiskInv
<1> QED
  BY <1>1, <1>3, <1>4, <1>6, <1>9, ExitKeeps

LEMMA FinalizeKeeps ==
    ASSUME IInv, NEW p \in Processes, Finalize(p)
    PROVE  IInv'
<1>1. /\ pc[p] = "finalize" /\ Exit(p)
      /\ sums' = (sums \/ (mem[p].recovered = {} <=> document = NoFailure))
      /\ UNCHANGED <<meshVars, files, contract, journal, checkpoints, document, crashes>>
  BY DEF Finalize
<1>2. /\ LockInv(p) /\ LoopInv(p) /\ ProcTypes /\ DiskTypes /\ DiskInv /\ MeshTypeOK /\ MeshInv
  BY <1>1, AtWork DEF ProcInv
<1>3. UNCHANGED <<workflows, ledger, sent, epoch, failures>> /\ failures' \in Nat /\ crashes' \in Nat
  BY <1>1, <1>2 DEF meshVars, MeshTypeOK, ProcTypes
<1>4. MeshTypeOK' /\ MeshInv'
  BY <1>2, <1>3, MeshStays
<1>5. /\ files = 4 /\ journal.completed = N
      /\ journal.first # NoFailure => document = journal.first
  BY <1>1, <1>2 DEF LockInv, LoopInv
<1>6. DiskTypes'
  BY <1>1, <1>2 DEF DiskTypes
<1>7. document = journal.first
  BY <1>2, <1>5 DEF DiskInv, DocumentIsFirst
<1>8. CheckpointInv' /\ DocumentIsFirst'
  BY <1>1, <1>2 DEF DiskInv, CheckpointInv, Loads, Gap, DocumentIsFirst
<1>9. DiskInv'
  BY <1>1, <1>2, <1>3, <1>5, <1>7, <1>8 DEF DiskInv
<1> QED
  BY <1>1, <1>3, <1>4, <1>6, <1>9, ExitKeeps

-----------------------------------------------------------------------------
(* The steps that start a command.                                         *)

\* An idle process has no journal in memory: the second part of the
\* inductive invariant.
IdleMemory == \A p \in Processes : pc[p] = "idle" => mem[p] = EmptyJournal

\* What a process that takes the lock finds.
LEMMA AtStart ==
    ASSUME IInv, NEW p \in Processes, Acquire(p)
    PROVE  /\ pc[p] = "idle" /\ holder = None /\ holder' = p /\ at[p] = 1
           /\ JournalInv(journal) /\ JournalMesh(journal, workflows, contract)
           /\ DiskInv /\ MeshInv /\ MeshTypeOK /\ DiskTypes /\ ProcTypes
<1>1. MeshTypeOK /\ DiskTypes /\ ProcTypes /\ MeshInv /\ DiskInv /\ ProcInv(p)
  BY Parts
<1>2. pc[p] = "idle" /\ holder = None /\ holder' = p
  BY DEF Acquire
<1>3. at[p] = 1
  BY <1>1, <1>2 DEF ProcInv, LoopInv, InTrial, InLoop, Running
<1> QED
  BY <1>1, <1>2, <1>3 DEF DiskInv

LEMMA StartFreshKeeps ==
    ASSUME IInv, IdleMemory, NEW p \in Processes, StartFresh(p)
    PROVE  IInv'
<1>1. /\ files = 0 /\ Acquire(p) /\ files' = 1 /\ contract' = epoch
      /\ pc' = [pc EXCEPT ![p] = "create"]
      /\ UNCHANGED <<workflows, ledger, sent, epoch, failures>>
      /\ UNCHANGED <<journal, checkpoints, document, sums, mem, at, submitted, error, crashes>>
  BY DEF StartFresh, Goto, meshVars
<1>2. /\ pc[p] = "idle" /\ holder = None /\ holder' = p /\ at[p] = 1
      /\ JournalInv(journal) /\ JournalMesh(journal, workflows, contract)
      /\ DiskInv /\ MeshInv /\ MeshTypeOK /\ DiskTypes /\ ProcTypes
  BY <1>1, AtStart
<1>3. journal = EmptyJournal /\ checkpoints = <<>> /\ document = NoFailure /\ mem[p] = EmptyJournal
  BY <1>1, <1>2 DEF DiskInv, IdleMemory
<1>4. /\ EmptyJournal.adopted = {} /\ EmptyJournal.first = NoFailure /\ EmptyJournal.completed = 0
      /\ EmptyJournal.step = 0
      /\ \A k \in PhaseKeys : EmptyJournal.results[k] = NoResult
  BY DEF EmptyJournal
<1>5. sums = FALSE
  <2>1. N # 0
    BY ContainerAssumption
  <2> QED
    BY <1>2, <1>3, <1>4, <2>1 DEF DiskInv, DiskTypes
<1>6. JournalMesh(journal, workflows, contract')
  BY <1>2, <1>3, <1>4 DEF JournalMesh
<1>7. failures \in Nat /\ epoch \in 0 .. MaxRestarts
  BY <1>2 DEF MeshTypeOK
<1>8. MeshTypeOK' /\ MeshInv'
  BY <1>1, <1>2, <1>7, MeshStays
<1>9. DiskTypes'
  BY <1>1, <1>2, <1>7 DEF DiskTypes
<1>10. DiskInv'
  <2>1. CheckpointInv'
    BY <1>1, <1>2 DEF DiskInv, CheckpointInv, Loads, Gap
  <2> QED
    BY <1>1, <1>2, <1>3, <1>5, <1>6, <2>1 DEF DiskInv, DocumentIsFirst
<1>11. /\ ProcTypes' /\ pc'[p] = "create" /\ at'[p] = 1 /\ mem'[p] = journal'
       /\ \A q \in Processes : q # p => pc'[q] = pc[q] /\ at'[q] = at[q]
  BY <1>1, <1>2, <1>3 DEF ProcTypes, Steps
<1>12. LockInv(p)'
  BY <1>1, <1>2, <1>3, <1>4, <1>5, <1>11 DEF LockInv
<1>13. CommandInv(p)' /\ LoopInv(p)'
  BY <1>11 DEF CommandInv, LoopInv, InTrial, InLoop, Running
<1> QED
  BY <1>2, <1>8, <1>9, <1>10, <1>11, <1>12, <1>13, StepKeeps DEF ProcInv

LEMMA CreateKeeps ==
    ASSUME IInv, NEW p \in Processes, Create(p)
    PROVE  IInv'
<1> DEFINE step == IF files = 3 THEN "loop" ELSE "create"
<1>1. /\ pc[p] = "create" /\ files' = files + 1 /\ Continue(p, step) /\ step \in Steps
      /\ UNCHANGED <<workflows, ledger, sent, epoch, failures>>
      /\ UNCHANGED <<contract, journal, checkpoints, document, sums, crashes>>
  BY DEF Create, meshVars, Steps
<1>2. /\ JournalInv(journal) /\ JournalMesh(journal, workflows, contract)
      /\ mem[p] = journal /\ failures' \in Nat
      /\ LockInv(p) /\ LoopInv(p) /\ ProcTypes /\ DiskTypes
      /\ DiskInv /\ MeshTypeOK /\ MeshInv
  BY <1>1, AtWork DEF ProcInv
<1>3. files \in 1 .. 3 /\ sums = FALSE /\ holder = p /\ at[p] = 1
  BY <1>1, <1>2 DEF LockInv, LoopInv, InTrial, InLoop, Running
<1>4. journal = EmptyJournal /\ checkpoints = <<>> /\ document = NoFailure
  BY <1>2, <1>3 DEF DiskInv
<1>5. /\ EmptyJournal.adopted = {} /\ EmptyJournal.first = NoFailure
      /\ EmptyJournal.failed = NoFailure /\ EmptyJournal.completed = 0
  BY DEF EmptyJournal
<1>6. MeshTypeOK' /\ MeshInv'
  BY <1>1, <1>2, MeshStays
<1>7. DiskTypes'
  BY <1>1, <1>2, <1>3 DEF DiskTypes
<1>8. DiskInv'
  <2>1. CheckpointInv'
    BY <1>1, <1>2 DEF DiskInv, CheckpointInv, Loads, Gap
  <2> QED
    BY <1>1, <1>2, <1>3, <1>4, <2>1 DEF DiskInv, DocumentIsFirst
<1>9. /\ ProcTypes' /\ pc'[p] = step /\ at'[p] = at[p] /\ mem'[p] = mem[p] /\ holder' = holder
      /\ \A q \in Processes : q # p => pc'[q] = pc[q] /\ at'[q] = at[q]
  BY <1>1, ContinueKeeps DEF Continue
<1>10. LockInv(p)'
  <2>1. files' = 4 \/ (step = "create" /\ files' \in 1 .. 3)
    BY <1>1, <1>3
  <2>2. step \in {"loop", "create"} /\ (step = "create" => files' \in 1 .. 3)
    BY <1>1, <1>3
  <2> HIDE DEF step
  <2> QED
    BY <1>1, <1>2, <1>3, <1>4, <1>5, <1>9, <2>1, <2>2 DEF LockInv
<1>11. CommandInv(p)'
  <2>1. ~PendingAdoption(journal)'
    BY <1>1, <1>4, <1>5 DEF PendingAdoption
  <2>2. step \in {"loop", "create"}
    OBVIOUS
  <2> HIDE DEF step
  <2> QED
    BY <1>1, <1>4, <1>5, <1>9, <2>1, <2>2 DEF CommandInv, Running
<1>12. LoopInv(p)'
  <2>1. Len(checkpoints) = journal.completed
    BY <1>4, <1>5
  <2>2. step \in {"loop", "create"}
    OBVIOUS
  <2> HIDE DEF step
  <2> QED
    BY <1>1, <1>3, <1>9, <2>1, <2>2 DEF LoopInv, InTrial, InLoop, Running
<1> HIDE DEF step
<1> QED
  BY <1>1, <1>6, <1>7, <1>8, <1>9, <1>10, <1>11, <1>12, StepKeeps DEF ProcInv

LEMMA StartResumeKeeps ==
    ASSUME IInv, NEW p \in Processes, NEW request \in Requests, StartResume(p, request)
    PROVE  IInv'
<1>1. /\ sums = FALSE /\ files = 4 /\ (journal.first # NoFailure => document = journal.first)
      /\ ~PendingAdoption(journal) /\ Admits(journal, request) /\ Acquire(p)
      /\ pc' = [pc EXCEPT ![p] = "open"]
      /\ UNCHANGED <<workflows, ledger, sent, epoch, failures>> /\ UNCHANGED diskVars
      /\ UNCHANGED <<files, contract, journal, checkpoints, document, sums>>
      /\ UNCHANGED <<mem, at, submitted, error, crashes>>
  <2>1. sums \in BOOLEAN
    BY Parts DEF DiskTypes
  <2> QED
    BY <2>1 DEF StartResume, Durable, Goto, meshVars, diskVars
<1>2. /\ pc[p] = "idle" /\ holder = None /\ holder' = p /\ at[p] = 1
      /\ DiskInv /\ MeshInv /\ MeshTypeOK /\ DiskTypes /\ ProcTypes
  BY <1>1, AtStart
<1>3. failures' \in Nat
  BY <1>1, <1>2 DEF MeshTypeOK
<1>4. MeshTypeOK' /\ MeshInv' /\ DiskTypes' /\ DiskInv'
  BY <1>1, <1>2, <1>3, MeshStays, DiskStays
<1>5. /\ ProcTypes' /\ pc'[p] = "open" /\ at'[p] = 1
      /\ \A q \in Processes : q # p => pc'[q] = pc[q] /\ at'[q] = at[q]
  BY <1>1, <1>2 DEF ProcTypes, Steps
<1>6. LockInv(p)'
  BY <1>1, <1>2, <1>5 DEF LockInv
<1>7. CommandInv(p)'
  <2>1. journal.failed # NoFailure =>
           <<journal.failed.trial, journal.failed.phase>> \notin journal.recovered
    BY <1>1 DEF Admits
  <2>2. ~PendingAdoption(journal)'
    BY <1>1 DEF PendingAdoption
  <2> QED
    BY <1>1, <1>5, <2>1, <2>2 DEF CommandInv, Running
<1>8. LoopInv(p)'
  BY <1>5 DEF LoopInv, InTrial, InLoop, Running
<1> QED
  BY <1>2, <1>4, <1>5, <1>6, <1>7, <1>8, StepKeeps DEF ProcInv

LEMMA StartAdoptionKeeps ==
    ASSUME IInv, NEW p \in Processes, StartAdoption(p)
    PROVE  IInv'
<1>1. /\ sums = FALSE /\ files = 4 /\ (journal.first # NoFailure => document = journal.first)
      /\ Acquire(p) /\ mem' = [mem EXCEPT ![p] = journal]
      /\ UNCHANGED <<workflows, ledger, sent, epoch, failures>> /\ UNCHANGED diskVars
      /\ UNCHANGED <<files, contract, journal, checkpoints, document, sums>>
      /\ UNCHANGED <<at, submitted, error, crashes>>
  <2>1. sums \in BOOLEAN
    BY Parts DEF DiskTypes
  <2> QED
    BY <2>1 DEF StartAdoption, Durable, meshVars, diskVars
<1>2. /\ pc[p] = "idle" /\ holder = None /\ holder' = p /\ at[p] = 1
      /\ DiskInv /\ MeshInv /\ MeshTypeOK /\ DiskTypes /\ ProcTypes
  BY <1>1, AtStart
<1>3. failures' \in Nat
  BY <1>1, <1>2 DEF MeshTypeOK
<1>4. MeshTypeOK' /\ MeshInv' /\ DiskTypes' /\ DiskInv'
  BY <1>1, <1>2, <1>3, MeshStays, DiskStays
<1>5. ASSUME NEW step \in {"adopt", "adopted"}, pc' = [pc EXCEPT ![p] = step],
             step = "adopt" =>
                /\ journal.failed.error = "replayed" /\ journal.failed.phase = "unconditional"
                /\ journal.step = 2 /\ <<Trial(journal), "unconditional">> \in journal.recovered,
             step = "adopted" => <<Trial(journal), "unconditional">> \in journal.adopted
      PROVE  IInv'
  <2>1. /\ ProcTypes' /\ pc'[p] = step /\ at'[p] = 1 /\ mem'[p] = journal
        /\ \A q \in Processes : q # p => pc'[q] = pc[q] /\ at'[q] = at[q]
    BY <1>1, <1>2, <1>5 DEF ProcTypes, DiskTypes, Steps
  <2>2. LockInv(p)'
    BY <1>1, <1>2, <1>5, <2>1 DEF LockInv
  <2>3. CommandInv(p)'
    BY <1>1, <1>5, <2>1 DEF CommandInv, Running
  <2>4. LoopInv(p)'
    BY <1>5, <2>1 DEF LoopInv, InTrial, InLoop, Running
  <2> QED
    BY <1>2, <1>4, <2>1, <2>2, <2>3, <2>4, StepKeeps DEF ProcInv
<1>6. \/ /\ pc' = [pc EXCEPT ![p] = "adopt"]
         /\ journal.failed.error = "replayed" /\ journal.failed.phase = "unconditional"
         /\ journal.step = 2 /\ <<Trial(journal), "unconditional">> \in journal.recovered
      \/ /\ pc' = [pc EXCEPT ![p] = "adopted"]
         /\ <<Trial(journal), "unconditional">> \in journal.adopted
  BY DEF StartAdoption, Goto
<1> QED
  BY <1>5, <1>6

-----------------------------------------------------------------------------
(* The adoption of replayed results.                                       *)

\* A trial with an unconditional phase has no other.
LEMMA OnlyPhase ==
    ASSUME NEW t \in Trials, IsPhase(<<t, "unconditional">>)
    PROVE  Phases(t) = <<"unconditional">> /\ Phases(t)[1] = "unconditional" /\ Len(Phases(t)) = 1
BY DEF IsPhase, Phases

LEMMA AdoptKeeps ==
    ASSUME IInv, NEW p \in Processes, Adopt(p)
    PROVE  IInv'
<1>1. /\ pc[p] = "adopt"
      /\ UNCHANGED <<meshVars, files, contract, checkpoints, document, sums, crashes>>
  BY DEF Adopt
<1>2. /\ JournalInv(journal) /\ JournalMesh(journal, workflows, contract)
      /\ mem[p] = journal /\ Current(p) = Trial(journal) /\ Bound(p) = workflows[journal.workflow]
      /\ LockInv(p) /\ CommandInv(p) /\ LoopInv(p) /\ ProcTypes /\ DiskTypes
      /\ DiskInv /\ MeshTypeOK /\ MeshInv /\ failures \in Nat
  BY <1>1, AtWork DEF ProcInv
<1>3. UNCHANGED <<workflows, ledger, sent, epoch, failures>>
  BY <1>1 DEF meshVars
<1> DEFINE flow == workflows[journal.workflow]
<1>4. CASE ~(Adoptable(flow) /\ epoch = contract)
  <2>1. Exit(p) /\ UNCHANGED journal
    BY <1>2, <1>4 DEF Adopt
  <2>2. UNCHANGED diskVars /\ crashes' \in Nat
    BY <1>1, <1>2, <2>1 DEF diskVars, ProcTypes
  <2> QED
    BY <1>1, <1>2, <1>3, <2>1, <2>2, NothingWrittenExit
<1>5. CASE Adoptable(flow) /\ epoch = contract
  <2>1. /\ journal.failed.error = "replayed" /\ journal.step = 2 /\ at[p] = 1
        /\ <<Trial(journal), "unconditional">> \in journal.recovered
    BY <1>1, <1>2 DEF CommandInv, LoopInv, InTrial, InLoop, Running
  <2>2. /\ Trial(journal) \in Trials /\ IsPhase(<<Trial(journal), "unconditional">>)
        /\ journal.failed # NoFailure
    BY <1>2, <2>1 DEF JournalInv, NoFailure
  <2>3. Phase(p) = "unconditional"
    BY <1>2, <2>1, <2>2, OnlyPhase DEF Phase
  <2> DEFINE row == Row("REPLAY_RESULTS_ADOPTION_AUTHORIZED", Trial(journal), "unconditional", None)
             g == Extend(journal, row)
  <2>4. /\ Journal(p, row) /\ pc' = [pc EXCEPT ![p] = "adopted"]
        /\ UNCHANGED <<holder, at, submitted, error>>
    BY <1>2, <1>5, <2>3 DEF Adopt, Goto
  <2>5. /\ flow.status = "DONE" /\ flow.schedule.kind = "replay"
        /\ flow.work.kind = "fresh" /\ flow.work.epoch = contract
    <3>1. FlowInv(flow)
      BY <1>2, <2>1, BoundFlow DEF MeshInv
    <3>2. flow.status = "DONE" /\ flow.work.epoch = contract /\ Replayed(flow) = {"schedule"}
      BY <1>5 DEF Adoptable, OfContract
    <3>3. flow.schedule.kind = "replay" /\ flow.work.kind # "replay"
      <4>1. "schedule" \in Replayed(flow) /\ "work" \notin Replayed(flow)
        BY <3>2
      <4> QED
        BY <4>1 DEF Replayed
    <3> QED
      BY <3>1, <3>2, <3>3 DEF FlowInv
  <2>6. JournalInv(g) /\ g = AdoptedHere(journal) /\ Here(journal) = <<Trial(journal), "unconditional">>
    BY <1>2, <2>1, AdoptionRow
  <2>7. JournalMesh(g, workflows, contract)
    BY <1>2, <2>1, <2>5, AdoptionMesh
  <2>8. /\ g.completed = journal.completed /\ g.failed = NoFailure /\ g.first = journal.first
        /\ g.results = journal.results /\ g.adopted = journal.adopted \cup {Here(journal)}
    <3>1. journal \in Journals
      BY <1>2 DEF JournalInv
    <3> QED
      BY <2>6, <3>1, AdoptedFields
  <2>9. journal' = g
    BY <1>2, <2>4 DEF Journal
  <2>10. Len(checkpoints) = journal.completed /\ Loads(journal)
    BY <1>2, <2>2 DEF DiskInv, CheckpointInv, Gap
  <2> HIDE DEF g, row
  <2>11. CheckpointInv'
    <3>1. Loads(g)
      BY <2>8, <2>10, LoadsKept
    <3> QED
      BY <1>1, <2>8, <2>9, <2>10, <3>1 DEF CheckpointInv, Loads
  <2>12. DocumentIsFirst'
    BY <1>1, <1>2, <2>8, <2>9 DEF DiskInv, DocumentIsFirst
  <2>13. /\ mem'[p] = journal' /\ mem' \in [Processes -> Journals]
         /\ MeshTypeOK' /\ MeshInv' /\ DiskTypes' /\ DiskInv'
    BY <1>1, <2>4, <2>6, <2>7, <2>11, <2>12, JournalKeeps DEF g
  <2>14. /\ pc'[p] = "adopted" /\ at'[p] = at[p]
         /\ at' \in [Processes -> 1 .. 2] /\ submitted' \in [Processes -> Nat] /\ "adopted" \in Steps
    BY <1>2, <2>4 DEF ProcTypes, Steps
  <2>15. CommandInv(p)'
    <3>1. <<Trial(g), "unconditional">> \in g.adopted
      BY <2>6, <2>8 DEF Trial
    <3> QED
      BY <2>9, <2>14, <3>1 DEF CommandInv, Running
  <2>16. LoopInv(p)'
    BY <2>1, <2>14 DEF LoopInv, InTrial, InLoop, Running
  <2> QED
    BY <1>1, <2>4, <2>8, <2>9, <2>13, <2>14, <2>15, <2>16, GoesOn
<1> QED
  BY <1>4, <1>5

LEMMA FinishAdoptionKeeps ==
    ASSUME IInv, NEW p \in Processes, FinishAdoption(p)
    PROVE  IInv'
<1>1. /\ pc[p] = "adopted"
      /\ UNCHANGED <<meshVars, files, contract, document, sums, crashes>>
      /\ UNCHANGED <<workflows, ledger, sent, epoch, failures>>
  BY DEF FinishAdoption, meshVars
<1>2. /\ JournalInv(journal) /\ JournalMesh(journal, workflows, contract)
      /\ mem[p] = journal /\ Current(p) = Trial(journal) /\ Bound(p) = workflows[journal.workflow]
      /\ LockInv(p) /\ CommandInv(p) /\ LoopInv(p) /\ ProcTypes /\ DiskTypes
      /\ DiskInv /\ MeshTypeOK /\ MeshInv /\ failures \in Nat
  BY <1>1, AtWork DEF ProcInv
<1> DEFINE key == <<Trial(journal), "unconditional">>
<1>3. key \in journal.adopted /\ at[p] = 1 /\ files = 4 /\ sums = FALSE
  BY <1>1, <1>2 DEF CommandInv, LockInv, LoopInv, InTrial, InLoop, Running
<1>4. /\ journal.failed = NoFailure /\ (~Ready(journal) => journal.step = 2)
      /\ key \in PhaseKeys /\ Trial(journal) \in Trials /\ IsPhase(key)
      /\ journal \in Journals
  BY <1>2, <1>3 DEF JournalInv, Journals, PhaseKeys
<1>5. Phase(p) = "unconditional" /\ Len(Phases(Trial(journal))) = 1 /\ Phases(Trial(journal))[1] = "unconditional"
  BY <1>2, <1>3, <1>4, OnlyPhase DEF Phase
<1>6. /\ journal.completed \in 0 .. N /\ Trial(journal) = journal.completed + 1
      /\ journal.phase \in 1 .. 3 /\ checkpoints \in Seq({"measured", "adopted"})
      /\ Loads(journal) /\ (Len(checkpoints) = journal.completed \/ Gap(journal))
  BY <1>2, JournalAt DEF DiskTypes, DiskInv, CheckpointInv
<1>7. ASSUME Ready(journal), Len(checkpoints) < Trial(journal), UNCHANGED journal,
             checkpoints' = Append(checkpoints, "adopted"), Continue(p, "adopted")
      PROVE  IInv'
  <2>1. Len(checkpoints) = journal.completed
    BY <1>6, <1>7 DEF Gap
  <2>2. /\ checkpoints' \in Seq({"measured", "adopted"}) /\ Len(checkpoints') = Trial(journal)
        /\ checkpoints'[Trial(journal)] = "adopted"
        /\ \A t \in DOMAIN checkpoints' :
              t = Trial(journal) \/ (t \in DOMAIN checkpoints /\ checkpoints'[t] = checkpoints[t])
    BY <1>6, <1>7, <2>1
  <2>3. journal.results[key].schedule.kind = "replay"
    <3>1. Past(journal, key)
      <4>1. journal.phase > 1
        BY <1>5, <1>7 DEF Ready
      <4> QED
        BY <1>4, <1>6, <4>1 DEF Past, Index
    <3>2. journal.results[key] # NoResult
      BY <1>2, <1>4, <3>1 DEF JournalInv
    <3> QED
      BY <1>2, <1>3, <1>4, <3>2 DEF JournalMesh
  <2>4. Loads(journal)'
    <3> SUFFICES ASSUME NEW t \in DOMAIN checkpoints'
                 PROVE  checkpoints'[t] = "adopted"
                           <=> \E phase \in Labels :
                                  journal.results[<<t, phase>>].schedule.kind = "replay"
      BY <1>7 DEF Loads
    <3>1. CASE t = Trial(journal)
      <4>1. "unconditional" \in Labels
        BY DEF Labels
      <4> QED
        BY <2>2, <2>3, <3>1, <4>1
    <3>2. CASE t # Trial(journal)
      <4>1. t \in DOMAIN checkpoints /\ checkpoints'[t] = checkpoints[t]
        BY <2>2, <3>2
      <4> QED
        BY <1>6, <4>1 DEF Loads
    <3> QED
      BY <3>1, <3>2
  <2>5. CheckpointInv'
    <3>1. Gap(journal)'
      BY <1>4, <1>6, <1>7, <2>2 DEF Gap, Ready
    <3> QED
      BY <2>4, <3>1 DEF CheckpointInv
  <2>6. MeshTypeOK' /\ MeshInv'
    BY <1>1, <1>2, MeshStays
  <2>7. DiskTypes' /\ DiskInv'
    BY <1>1, <1>2, <1>3, <1>7, <2>2, <2>5 DEF DiskTypes, DiskInv, DocumentIsFirst
  <2>8. /\ ProcTypes' /\ pc'[p] = "adopted" /\ at'[p] = at[p] /\ mem'[p] = mem[p] /\ holder' = holder
        /\ \A q \in Processes : q # p => pc'[q] = pc[q] /\ at'[q] = at[q]
    BY <1>1, <1>7, ContinueKeeps DEF Continue, Steps
  <2>9. LockInv(p)'
    BY <1>1, <1>2, <1>7, <2>8 DEF LockInv
  <2>10. CommandInv(p)'
    BY <1>3, <1>7, <2>8 DEF CommandInv, Running
  <2>11. LoopInv(p)'
    BY <1>3, <2>8 DEF LoopInv, InTrial, InLoop, Running
  <2> QED
    BY <1>1, <2>6, <2>7, <2>8, <2>9, <2>10, <2>11, StepKeeps DEF ProcInv
<1>8. ASSUME Ready(journal), Len(checkpoints) = Trial(journal), UNCHANGED checkpoints, Exit(p),
             journal' = Extend(journal, Row("TRIAL_COMPLETED", Trial(journal), "trial", None))
      PROVE  IInv'
  <2>1. JournalInv(journal') /\ journal' = Finished(journal)
    BY <1>2, <1>4, <1>8, CompletedRow
  <2>2. JournalMesh(journal', workflows, contract)
    BY <1>2, <1>4, <1>8, CompletedMesh
  <2>3. /\ journal'.completed = journal.completed + 1 /\ journal'.first = journal.first
        /\ journal'.results = journal.results
    BY <1>4, <2>1, FinishedFields
  <2>4. CheckpointInv'
    <3>1. Loads(journal')
      BY <1>6, <2>3, LoadsKept
    <3> QED
      BY <1>6, <1>8, <2>3, <3>1 DEF CheckpointInv, Loads
  <2>5. DocumentIsFirst'
    BY <1>1, <1>2, <2>3 DEF DiskInv, DocumentIsFirst
  <2>6. MeshTypeOK' /\ MeshInv'
    BY <1>1, <1>2, MeshStays
  <2>7. DiskTypes'
    BY <1>1, <1>2, <1>8, <2>1 DEF DiskTypes, JournalInv
  <2>8. DiskInv'
    BY <1>1, <1>3, <2>1, <2>2, <2>4, <2>5 DEF DiskInv
  <2>9. crashes' \in Nat
    BY <1>1, <1>2 DEF ProcTypes
  <2> QED
    BY <1>1, <1>8, <2>6, <2>7, <2>8, <2>9, ExitKeeps
<1>9. ASSUME ~Ready(journal), Journal(p, Row("RESULTS_OBTAINED", Trial(journal), Phase(p), Result(p))),
             UNCHANGED <<checkpoints, holder, pc, at, submitted, error>>
      PROVE  IInv'
  <2> DEFINE flow == workflows[journal.workflow]
             result == [schedule |-> flow.schedule, work |-> flow.work, workflow |-> journal.workflow]
             row == Row("RESULTS_OBTAINED", Trial(journal), Phases(Trial(journal))[journal.phase], result)
             g == Extend(journal, row)
  <2>1. journal.step = 2 /\ journal.phase = 1 /\ Here(journal) = key
    <3>1. journal.phase \in 1 .. Len(Phases(Trial(journal)))
      BY <1>2, <1>4, <1>9, JournalAt
    <3>2. journal.phase = 1
      BY <1>5, <3>1
    <3> QED
      BY <1>4, <1>5, <1>9, <3>2 DEF Here
  <2>2. Journal(p, row)
    BY <1>2, <1>5, <1>9, <2>1 DEF Result
  <2>3. /\ flow.status = "DONE" /\ flow.schedule.kind = "replay"
        /\ flow.work.kind = "fresh" /\ flow.work.epoch = contract
    BY <1>2, <1>3, <1>9 DEF JournalMesh
  <2>4. /\ result \in [schedule : Outcomes, work : Outcomes, workflow : Nat]
        /\ result.schedule = flow.schedule /\ result.work = flow.work
        /\ result.workflow = journal.workflow
    BY <1>2, <2>1, BoundFlow
  <2>5. JournalMesh(g, workflows, contract) /\ JournalInv(g) /\ g = Obtained(journal, result)
    <3>1. result.work.kind = "fresh" /\ result.work.epoch = contract
      BY <2>3, <2>4
    <3>2. result.schedule.kind = "replay" <=> Here(journal) \in journal.adopted
      BY <1>3, <2>1, <2>3, <2>4
    <3> HIDE DEF result
    <3> QED
      BY <1>2, <1>4, <1>9, <2>1, <2>3, <2>4, <3>1, <3>2, ResultsMesh
  <2>6. /\ g.completed = journal.completed /\ g.first = journal.first
        /\ g.adopted = journal.adopted
        /\ g.results = [journal.results EXCEPT ![Here(journal)] = result]
    BY <1>4, <2>5, ObtainedFields
  <2>7. journal' = g
    BY <1>2, <2>2 DEF Journal
  <2> HIDE DEF g, row, result
  <2>8. Len(checkpoints) = journal.completed
    BY <1>6, <1>9 DEF Gap
  <2>9. CheckpointInv'
    <3>1. ASSUME NEW t \in DOMAIN checkpoints, NEW phase \in Labels
          PROVE  g.results[<<t, phase>>] = journal.results[<<t, phase>>]
      <4>1. t # Trial(journal) /\ t \in Trials
        BY <1>6, <2>8, ContainerAssumption DEF Trials
      <4>2. <<t, phase>> # Here(journal) /\ <<t, phase>> \in PhaseKeys
        BY <2>1, <4>1 DEF PhaseKeys
      <4>3. DOMAIN journal.results = PhaseKeys
        BY <1>4 DEF Journals
      <4> QED
        BY <2>6, <4>2, <4>3
    <3>2. Loads(g)
      BY <1>6, <3>1, LoadsKept
    <3> QED
      BY <1>9, <2>6, <2>7, <2>8, <3>2 DEF CheckpointInv, Loads
  <2>10. DocumentIsFirst'
    BY <1>1, <1>2, <2>6, <2>7 DEF DiskInv, DocumentIsFirst
  <2>11. /\ mem'[p] = journal' /\ mem' \in [Processes -> Journals]
         /\ MeshTypeOK' /\ MeshInv' /\ DiskTypes' /\ DiskInv'
    BY <1>1, <1>9, <2>2, <2>5, <2>9, <2>10, JournalKeeps DEF g
  <2>12. /\ ProcTypes' /\ pc'[p] = "adopted" /\ at'[p] = 1
         /\ \A q \in Processes : q # p => pc'[q] = pc[q] /\ at'[q] = at[q]
    BY <1>1, <1>2, <1>3, <1>9, <2>11 DEF ProcTypes
  <2>13. LockInv(p)'
    BY <1>1, <1>2, <1>9, <2>6, <2>7, <2>11, <2>12 DEF LockInv
  <2>14. CommandInv(p)'
    <3>1. <<Trial(g), "unconditional">> \in g.adopted
      BY <1>3, <2>6 DEF Trial
    <3> QED
      BY <2>7, <2>12, <3>1 DEF CommandInv, Running
  <2>15. LoopInv(p)'
    BY <2>12 DEF LoopInv, InTrial, InLoop, Running
  <2> QED
    BY <1>1, <2>11, <2>12, <2>13, <2>14, <2>15, StepKeeps DEF ProcInv
<1> QED
  BY <1>2, <1>7, <1>8, <1>9 DEF FinishAdoption

-----------------------------------------------------------------------------
(* The inductive invariant.                                                *)

LEMMA EmptyInv ==
    /\ JournalInv(EmptyJournal) /\ EmptyJournal.completed = 0
    /\ EmptyJournal.first = NoFailure /\ EmptyJournal.step = 0
    /\ EmptyJournal.adopted = {} /\ EmptyJournal.phase = 1
    /\ \A k \in PhaseKeys : EmptyJournal.results[k] = NoResult
<1> USE ContainerAssumption
<1>1. /\ EmptyJournal.completed = 0 /\ EmptyJournal.phase = 1 /\ EmptyJournal.step = 0
      /\ EmptyJournal.failed = NoFailure /\ EmptyJournal.first = NoFailure
      /\ EmptyJournal.recovered = {} /\ EmptyJournal.adopted = {} /\ EmptyJournal.legal = TRUE
      /\ \A k \in PhaseKeys : EmptyJournal.results[k] = NoResult
  BY DEF EmptyJournal
<1>2. EmptyJournal \in Journals
  BY DEF Journals, EmptyJournal, NoFailure, NoResult, Failures, Pending, Outcomes
<1>3. Trial(EmptyJournal) = 1
  BY <1>1 DEF Trial
<1>4. Trial(EmptyJournal) \in Trials /\ EmptyJournal.phase <= Len(Phases(Trial(EmptyJournal))) + 1
  <2>1. 1 \in Trials
    BY DEF Trials
  <2>2. 1 <= Len(Phases(1)) /\ Len(Phases(1)) \in 1 .. 2
    BY <2>1, PhasesOf
  <2> QED
    BY <1>1, <1>3, <2>1, <2>2
<1>5. \A k \in PhaseKeys : ~Past(EmptyJournal, k)
  BY <1>1, <1>3 DEF Past, PhaseKeys, Trials, Index
<1> HIDE DEF EmptyJournal
<1>6. JournalInv(EmptyJournal)
  BY <1>1, <1>2, <1>4, <1>5 DEF JournalInv
<1> QED
  BY <1>1, <1>6

LEMMA InitIInv ==
    Init => IInv /\ IdleMemory
<1> SUFFICES ASSUME Init PROVE IInv /\ IdleMemory
  OBVIOUS
<1>1. /\ workflows = <<>> /\ ledger = {} /\ sent = [k \in PhaseKeys |-> 0] /\ epoch = 0 /\ failures = 0
      /\ files = 0 /\ contract = 0 /\ journal = EmptyJournal
      /\ checkpoints = <<>> /\ document = NoFailure /\ sums = FALSE /\ holder = None
      /\ pc = [p \in Processes |-> "idle"] /\ mem = [p \in Processes |-> EmptyJournal]
      /\ at = [p \in Processes |-> 1] /\ submitted = [p \in Processes |-> 0]
      /\ error = [p \in Processes |-> NoFailure] /\ crashes = 0
  BY DEF Init, MeshInit
<1>2. DOMAIN workflows = {} /\ DOMAIN checkpoints = {} /\ Len(checkpoints) = 0
  BY <1>1
<1>3. JournalInv(journal) /\ journal \in Journals /\ EmptyJournal \in Journals
  BY <1>1, EmptyInv DEF JournalInv
<1>4. MeshTypeOK
  BY <1>1, ContainerAssumption DEF MeshTypeOK
<1>5. NoFailure \in Failures
  BY ContainerAssumption DEF NoFailure, Failures
<1>6. TypeOK
  <2>1. /\ 0 \in 0 .. 4 /\ 0 \in 0 .. MaxRestarts /\ 1 \in 1 .. 2
        /\ 0 \in Nat /\ FALSE \in BOOLEAN /\ "idle" \in Steps
    BY ContainerAssumption DEF Steps
  <2>2. checkpoints \in Seq({"measured", "adopted"})
    BY <1>1
  <2> QED
    BY <1>1, <1>3, <1>4, <1>5, <2>1, <2>2 DEF TypeOK
<1>7. MeshInv
  BY <1>1, <1>2 DEF MeshInv
<1>8. JournalMesh(journal, workflows, contract)
  BY <1>1, <1>2, EmptyInv DEF JournalMesh, NoneActive
<1>9. CheckpointInv
  BY <1>1, <1>2, EmptyInv DEF CheckpointInv, Loads
<1>10. DiskInv
  BY <1>1, <1>3, <1>8, <1>9 DEF DiskInv, DocumentIsFirst
<1>11. \A p \in Processes : LockInv(p) /\ CommandInv(p) /\ LoopInv(p)
  BY <1>1 DEF LockInv, CommandInv, LoopInv, InTrial, InLoop, Running
<1>12. IdleMemory
  BY <1>1 DEF IdleMemory
<1> QED
  BY <1>6, <1>7, <1>10, <1>11, <1>12 DEF IInv

LEMMA StutterKeeps ==
    ASSUME IInv, UNCHANGED vars
    PROVE  IInv'
<1>1. /\ UNCHANGED <<workflows, ledger, sent, epoch, failures>>
      /\ UNCHANGED <<files, contract, journal, checkpoints, document, sums,
                     holder, pc, mem, at, submitted, error, crashes>>
  BY DEF vars, meshVars, diskVars, procVars
<1>2. MeshTypeOK /\ DiskTypes /\ ProcTypes /\ MeshInv /\ DiskInv
  BY Parts
<1>3. MeshTypeOK' /\ MeshInv'
  <2>1. failures \in Nat
    BY <1>2 DEF MeshTypeOK
  <2> QED
    BY <1>1, <1>2, <2>1, MeshStays
<1>4. DiskTypes' /\ DiskInv'
  <2>1. UNCHANGED <<diskVars, workflows>>
    BY <1>1 DEF diskVars
  <2> QED
    BY <1>2, <2>1, DiskStays
<1>5. TypeOK'
  BY <1>1, <1>2, <1>3, <1>4 DEF TypeOK, DiskTypes, ProcTypes
<1>6. ASSUME NEW p \in Processes PROVE ProcInv(p)'
  <2>1. LockInv(p) /\ CommandInv(p) /\ LoopInv(p)
    BY DEF IInv
  <2>2. LockInv(p)'
    BY <1>1, <2>1 DEF LockInv
  <2>3. CommandInv(p)'
    BY <1>1, <2>1 DEF CommandInv, PendingAdoption
  <2>4. LoopInv(p)'
    BY <1>1, <2>1 DEF LoopInv
  <2> QED
    BY <2>2, <2>3, <2>4 DEF ProcInv
<1> QED
  BY <1>3, <1>4, <1>5, <1>6 DEF IInv, ProcInv

LEMMA StepsKeep ==
    ASSUME IInv, NEW p \in Processes, Step(p)
    PROVE  IInv'
BY CreateKeeps, OpenKeeps, ReconcileKeeps, AuthorizeKeeps, NextTrialKeeps, BeginPhaseKeeps,
   SubmitKeeps, BindKeeps, WaitKeeps, CollectKeeps, AfterPhaseKeeps, CheckpointKeeps,
   CompleteKeeps, FailKeeps, WriteFailureKeeps, FinalizeKeeps, AdoptKeeps, FinishAdoptionKeeps
   DEF Step

LEMMA NextKeeps ==
    ASSUME IInv, IdleMemory, [Next]_vars
    PROVE  IInv'
<1>1. CASE UNCHANGED vars
  BY <1>1, StutterKeeps
<1>2. ASSUME NEW p \in Processes, Start(p) PROVE IInv'
  BY <1>2, StartFreshKeeps, StartAdoptionKeeps, StartResumeKeeps DEF Start
<1>3. ASSUME NEW p \in Processes, Step(p) PROVE IInv'
  BY <1>3, StepsKeep
<1>4. ASSUME NEW p \in Processes, SubmitFails(p) \/ CheckFails(p) \/ ProbeFails(p) \/ Crash(p)
      PROVE  IInv'
  BY <1>4, SubmitFailsKeeps, CheckFailsKeeps, ProbeFailsKeeps, CrashKeeps
<1>5. CASE Mesh /\ UNCHANGED <<diskVars, procVars, crashes>>
  BY <1>5, MeshKeeps
<1> QED
  BY <1>1, <1>2, <1>3, <1>4, <1>5 DEF Next

\* A process that becomes idle forgets its journal; one that stays idle
\* reads none.
LEMMA IdleMemoryKept ==
    ASSUME IInv, IdleMemory, [Next]_vars
    PROVE  IdleMemory'
<1>1. pc \in [Processes -> Steps] /\ mem \in [Processes -> Journals]
  BY Parts DEF ProcTypes
<1>2. ASSUME NEW p \in Processes, Exit(p) PROVE IdleMemory'
  BY <1>1, <1>2 DEF IdleMemory, Exit, Goto
<1>3. ASSUME NEW p \in Processes, NEW step \in Steps \ {"idle"}, pc' = [pc EXCEPT ![p] = step],
             \A q \in Processes : q # p => mem'[q] = mem[q]
      PROVE  IdleMemory'
  BY <1>1, <1>3 DEF IdleMemory
<1>4. ASSUME pc' = pc, \A q \in Processes : pc[q] = "idle" => mem'[q] = mem[q]
      PROVE  IdleMemory'
  BY <1>4 DEF IdleMemory
<1>5. CASE UNCHANGED vars
  BY <1>4, <1>5 DEF vars, procVars
<1>6. CASE Mesh /\ UNCHANGED <<diskVars, procVars, crashes>>
  BY <1>4, <1>6 DEF procVars
<1>7. ASSUME NEW p \in Processes, NEW row, Journal(p, row) PROVE \A q \in Processes : q # p => mem'[q] = mem[q]
  BY <1>1, <1>7 DEF Journal
<1>8. ASSUME NEW p \in Processes, Start(p) PROVE IdleMemory'
  <2>1. CASE StartFresh(p)
    BY <1>3, <2>1 DEF StartFresh, Goto, Steps
  <2>2. CASE StartAdoption(p)
    <3>1. mem' = [mem EXCEPT ![p] = journal]
      BY <2>2 DEF StartAdoption
    <3>2. \E step \in {"adopt", "adopted"} : pc' = [pc EXCEPT ![p] = step]
      BY <2>2 DEF StartAdoption, Goto
    <3> QED
      BY <1>1, <1>3, <3>1, <3>2 DEF Steps
  <2>3. ASSUME NEW request \in Requests, StartResume(p, request) PROVE IdleMemory'
    BY <1>3, <2>3 DEF StartResume, Goto, Steps
  <2> QED
    BY <1>8, <2>1, <2>2, <2>3 DEF Start
<1>9. ASSUME NEW p \in Processes, NEW step \in Steps \ {"idle"}, Continue(p, step) PROVE IdleMemory'
  BY <1>3, <1>9 DEF Continue, Goto
<1>10. ASSUME NEW p \in Processes, NEW phase, NEW kind, Raise(p, phase, kind) PROVE IdleMemory'
  BY <1>3, <1>10 DEF Raise, Goto, Steps
<1>11. ASSUME NEW p \in Processes, NEW row, NEW step \in Steps \ {"idle"},
              Journal(p, row), Goto(p, step)
       PROVE  IdleMemory'
  BY <1>3, <1>7, <1>11 DEF Goto
<1>12. ASSUME NEW p \in Processes, SubmitFails(p) \/ CheckFails(p) \/ ProbeFails(p) \/ Crash(p)
       PROVE  IdleMemory'
  BY <1>2, <1>10, <1>12 DEF SubmitFails, CheckFails, ProbeFails, Crash
<1>13. ASSUME NEW p \in Processes, Create(p) \/ NextTrial(p) \/ Wait(p) \/ Checkpoint(p)
       PROVE  IdleMemory'
  BY <1>9, <1>10, <1>13 DEF Create, NextTrial, Wait, Checkpoint, Steps
<1>14. ASSUME NEW p \in Processes, WriteFailure(p) \/ Finalize(p) PROVE IdleMemory'
  BY <1>2, <1>14 DEF WriteFailure, Finalize
<1>15. ASSUME NEW p \in Processes, Bind(p) \/ Complete(p) \/ Fail(p) PROVE IdleMemory'
  BY <1>11, <1>15 DEF Bind, Complete, Fail, Steps
<1>16. ASSUME NEW p \in Processes, Authorize(p) \/ BeginPhase(p) \/ Collect(p) \/ Adopt(p)
       PROVE  IdleMemory'
  <2>1. CASE Authorize(p)
    BY <1>2, <1>11, <2>1 DEF Authorize, Steps
  <2>2. CASE BeginPhase(p)
    BY <1>9, <1>10, <1>11, <2>2 DEF BeginPhase, Steps
  <2>3. CASE Collect(p)
    BY <1>10, <1>11, <2>3 DEF Collect, Steps
  <2>4. CASE Adopt(p)
    BY <1>2, <1>11, <2>4 DEF Adopt, Steps
  <2> QED
    BY <1>16, <2>1, <2>2, <2>3, <2>4
<1>17. ASSUME NEW p \in Processes, Open(p) \/ Reconcile(p) \/ Submit(p) \/ AfterPhase(p)
       PROVE  IdleMemory'
  <2>1. CASE Open(p)
    <3>1. CASE epoch = contract
      <4>1. /\ mem' = [mem EXCEPT ![p] = journal]
            /\ pc' = [pc EXCEPT ![p] = IF journal.failed = NoFailure THEN "reconcile" ELSE "authorize"]
        BY <2>1, <3>1 DEF Open, Goto
      <4>2. \A q \in Processes : q # p => mem'[q] = mem[q]
        BY <1>1, <4>1
      <4> DEFINE step == IF journal.failed = NoFailure THEN "reconcile" ELSE "authorize"
      <4>3. pc' = [pc EXCEPT ![p] = step]
        BY <4>1
      <4>4. step \in Steps \ {"idle"}
        BY DEF Steps
      <4> HIDE DEF step
      <4> QED
        BY <1>3, <4>2, <4>3, <4>4
    <3>2. CASE epoch # contract
      BY <1>2, <2>1, <3>2 DEF Open
    <3> QED
      BY <3>1, <3>2
  <2>2. CASE Reconcile(p)
    <3>1. pc' = [pc EXCEPT ![p] = "loop"] /\ "loop" \in Steps \ {"idle"}
      BY <2>2 DEF Reconcile, Goto, Steps
    <3>2. \A q \in Processes : q # p => mem'[q] = mem[q]
      BY <1>7, <2>2 DEF Reconcile
    <3> QED
      BY <1>3, <3>1, <3>2
  <2>3. CASE Submit(p)
    BY <1>3, <2>3 DEF Submit, Goto, Steps
  <2>4. CASE AfterPhase(p)
    <3>1. CASE epoch # contract
      BY <1>10, <2>4, <3>1 DEF AfterPhase
    <3>2. CASE epoch = contract
      <4>1. mem' = mem /\ \E step \in {"phase", "checkpoint"} : pc' = [pc EXCEPT ![p] = step]
        BY <2>4, <3>2 DEF AfterPhase, Goto
      <4> QED
        BY <1>3, <4>1 DEF Steps
    <3> QED
      BY <3>1, <3>2
  <2> QED
    BY <1>17, <2>1, <2>2, <2>3, <2>4
<1>18. ASSUME NEW p \in Processes, FinishAdoption(p) PROVE IdleMemory'
  <2>1. CASE Exit(p)
    BY <1>2, <2>1
  <2>2. CASE Continue(p, "adopted")
    BY <1>9, <2>2 DEF Steps
  <2>3. ASSUME NEW row, Journal(p, row), UNCHANGED pc PROVE IdleMemory'
    <3>1. pc[p] # "idle"
      BY <1>18 DEF FinishAdoption
    <3> QED
      BY <1>4, <1>7, <2>3, <3>1
  <2> QED
    BY <1>18, <2>1, <2>2, <2>3 DEF FinishAdoption
<1> QED
  BY <1>5, <1>6, <1>8, <1>12, <1>13, <1>14, <1>15, <1>16, <1>17, <1>18 DEF Next, Step

\* The files, the memory of the commands and FlowMesh stay as IInv says.
THEOREM Invariance ==
    Spec => [](IInv /\ IdleMemory)
<1>1. Init => IInv /\ IdleMemory
  BY InitIInv
<1>2. IInv /\ IdleMemory /\ [Next]_vars => (IInv /\ IdleMemory)'
  <2>1. IInv /\ IdleMemory /\ [Next]_vars => IInv'
    BY NextKeeps
  <2>2. IInv /\ IdleMemory /\ [Next]_vars => IdleMemory'
    BY IdleMemoryKept
  <2> QED
    BY <2>1, <2>2
<1> QED
  BY <1>1, <1>2, PTL DEF Spec

-----------------------------------------------------------------------------
(* What follows from it.                                                   *)

LEMMA FilesAgreeHolds ==
    IInv => FilesAgree
<1> SUFFICES ASSUME IInv PROVE FilesAgree
  OBVIOUS
<1>1. DiskInv /\ \A p \in Processes : LockInv(p)
  BY DEF IInv
<1>2. JournalValidates
  BY <1>1 DEF JournalValidates, Valid, DiskInv, JournalInv, CheckpointInv
<1>3. MemoryIsFile
  BY <1>1 DEF MemoryIsFile, LockInv
<1> QED
  BY <1>1, <1>2, <1>3 DEF FilesAgree, DiskInv, IInv

LEMMA MeasuredOnceHolds ==
    IInv => MeasuredOnce
<1> SUFFICES ASSUME IInv PROVE MeasuredOnce
  OBVIOUS
<1>1. /\ MeshInv /\ JournalInv(journal) /\ JournalMesh(journal, workflows, contract)
      /\ CheckpointInv /\ (sums => journal.completed = N /\ document = journal.first)
  BY DEF IInv, DiskInv
<1>2. WorkSentOnce
  BY <1>1 DEF MeshInv, WorkSentOnce
<1>3. ASSUME NEW k \in PhaseKeys, journal.results[k] # NoResult
      PROVE  /\ sent[k] = 1
             /\ journal.results[k].work = [kind |-> "fresh", epoch |-> contract]
             /\ journal.results[k].schedule.kind = "replay" => k \in journal.adopted
  <2>1. Measured(workflows, journal.results[k], k, contract)
    BY <1>1, <1>3 DEF JournalMesh
  <2> DEFINE result == journal.results[k]
  <2>2. /\ result.workflow \in DOMAIN workflows /\ workflows[result.workflow].key = k
        /\ workflows[result.workflow].work.kind = "fresh"
        /\ result.work.kind = "fresh" /\ result.work.epoch = contract
    BY <2>1 DEF Measured
  <2>3. sent[k] = 1
    BY <1>1, <2>2 DEF MeshInv
  <2>4. result.work \in Outcomes
    <3>1. journal.results \in [PhaseKeys -> [schedule : Outcomes, work : Outcomes, workflow : Nat]]
      BY <1>1 DEF JournalInv, Journals
    <3> QED
      BY <3>1
  <2> HIDE DEF result
  <2>5. result.work = [kind |-> "fresh", epoch |-> contract]
    BY <2>2, <2>4 DEF Outcomes
  <2>6. result.schedule.kind = "replay" => k \in journal.adopted
    BY <1>1, <1>3 DEF result, JournalMesh
  <2> QED
    BY <2>3, <2>5, <2>6 DEF result
<1>4. ResultsAreMeasured
  BY <1>3 DEF ResultsAreMeasured
<1>5. ASSUME sums, NEW t \in Trials, NEW i \in DOMAIN Phases(t)
      PROVE  /\ journal.results[<<t, Phases(t)[i]>>] # NoResult
             /\ sent[<<t, Phases(t)[i]>>] = 1
  <2>1. i \in 1 .. Len(Phases(t))
    BY DEF Phases
  <2>2. <<t, Phases(t)[i]>> \in PhaseKeys /\ IsPhase(<<t, Phases(t)[i]>>)
    BY <2>1, PhasesOf DEF PhaseKeys
  <2>3. t < Trial(journal)
    BY <1>1, <1>5, ContainerAssumption DEF Trial, Trials
  <2>4. Past(journal, <<t, Phases(t)[i]>>)
    BY <2>2, <2>3 DEF Past
  <2>5. journal.results[<<t, Phases(t)[i]>>] # NoResult
    BY <1>1, <2>2, <2>4 DEF JournalInv
  <2> QED
    BY <1>3, <2>2, <2>5
<1>6. Valid(journal)
  BY <1>1 DEF Valid, JournalInv, CheckpointInv
<1>7. CompleteIsMeasured
  BY <1>1, <1>5, <1>6 DEF CompleteIsMeasured
<1> QED
  BY <1>2, <1>4, <1>7 DEF MeasuredOnce

\* For any number of trials, commands, failures, deaths and restarts of the
\* nodes: the files always validate, the command that holds the lock decides
\* by what they say, and the failure document is about the first failure
\* (_validate_journal, _exclusive_run_lock, _validate_failure_document).
THEOREM FilesStayTrue ==
    Spec => []FilesAgree
BY Invariance, FilesAgreeHolds, PTL

\* ... and the work of a phase is sent to the nodes at most once, a journalled
\* result is that of the one execution, in the epoch of the contract, and a
\* run with its checksums has measured every phase of every trial
\* ("refusing to resubmit", verify_flowmesh_container_matrix_run).
THEOREM MeasuresOnce ==
    Spec => []MeasuredOnce
BY Invariance, MeasuredOnceHolds, PTL
=============================================================================
