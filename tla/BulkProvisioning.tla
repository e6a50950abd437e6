-------------------------- MODULE BulkProvisioning ---------------------------
(***************************************************************************)
(* The bulk N5-to-N4 provisioning coordinator:                             *)
(* run_full_flow_bulk_live_provisioning of                                 *)
(* simulator/full_flow_bulk_live_provisioning.py.                          *)
(*                                                                         *)
(* One process walks the frozen operations 1..N in order.  Operation i     *)
(* publishes catalog label i in the N4 store, expecting label i - 1.  Its  *)
(* progress is kept in four durable places that are written one after the  *)
(* other: the N4 catalog, the one-object receipt directory, the checkpoint *)
(* file and the hash-chained journal.  The process may die between any two *)
(* of these writes; the operator then starts it again with resume.         *)
(***************************************************************************)
EXTENDS Naturals, Sequences, FiniteSets

CONSTANTS
    N,              \* number of operations
    MaxForeign,     \* bound: publications of another client of the N4 store
    MaxCrashes,     \* bound: process deaths
    MaxFailures,    \* bound: executor failures
    MaxJournal,     \* bound: the operator resumes a journal shorter than this
    FailureClasses, \* failure classes the executor may raise
    TornWrites      \* a death may leave a temporary file or directory behind

Classes == {"infrastructure", "semantic", "data", "internal"}

ASSUME BulkAssumption ==
    /\ N \in Nat \ {0}
    /\ {MaxForeign, MaxCrashes, MaxFailures, MaxJournal} \subseteq Nat
    /\ FailureClasses \subseteq Classes
    /\ TornWrites \in BOOLEAN

Operations == 1..N
Foreign == 0        \* a label committed by another client

VARIABLES
    commits,        \* labels committed to the N4 catalog, oldest first
    root,           \* the output directory exists
    journal,        \* rows [state, op, class]
    receipts,       \* operations with a receipt directory
    checkpoints,    \* operations with a checkpoint file
    final,          \* the final aggregate directory exists
    stray,          \* temporaries a dead process left in the output
    pc, op,         \* the process: its next step and the operation it is at
    outcome,        \* what the last process reported
    failure,        \* class of the failure being journalled
    wedged,         \* history: the process died inside CrashWindow
    crashes, failures

durable == <<root, journal, receipts, checkpoints, final, stray>>
bounds == <<wedged, crashes, failures>>
vars == <<commits, durable, pc, op, outcome, failure, bounds>>

Row(state, i, class) == [state |-> state, op |-> i, class |-> class]

-----------------------------------------------------------------------------
(* Reading the journal.                                                    *)

Done == {"OPERATION_COMPLETED", "RECEIPT_ADOPTED"}

\* current_index of _validate_journal_semantics when it reaches row p.
CurrentIndex(j, p) == 1 + Cardinality({q \in 1..p - 1 : j[q].state \in Done})

\* _validate_journal_semantics: one row in its place.
RowInOrder(j, p) ==
    CASE j[p].state = "RUN_STARTED"   -> p = 1
      [] j[p].state = "RUN_COMPLETED" -> p = Len(j) /\ CurrentIndex(j, p) = N + 1
      [] OTHER -> j[p].op = CurrentIndex(j, p) /\ j[p].op \in Operations

\* _read_journal: missing, empty and out-of-order journals are refused.
Readable(j) ==
    /\ j # <<>>
    /\ j[1].state = "RUN_STARTED"
    /\ \A p \in DOMAIN j : RowInOrder(j, p)

Last(j) == j[Len(j)]

\* Mutant: a run that died inside an operation may not be resumed.
ResumableBetweenOperations(j) ==
    /\ Readable(j)
    /\ Last(j).state \in Done \cup {"RUN_COMPLETED", "RUN_FAILED"}

\* _prepare_root with resume.
Resumable(j) ==
    /\ Readable(j)
    /\ \/ Last(j).state \in Done \cup {"OPERATION_INTENT", "RUN_COMPLETED"}
       \/ Last(j).state = "RUN_FAILED" /\ Last(j).class = "infrastructure"

-----------------------------------------------------------------------------
Init ==
    /\ commits = <<>>
    /\ root = FALSE /\ journal = <<>>
    /\ receipts = {} /\ checkpoints = {} /\ final = FALSE /\ stray = {}
    /\ pc = "down" /\ op = 0 /\ outcome = "none" /\ failure = "none"
    /\ wedged = FALSE /\ crashes = 0 /\ failures = 0

\* The process raises: it reports and exits, with nothing else written.
Exit(result) ==
    /\ pc' = "down"
    /\ op' = 0
    /\ outcome' = result
    /\ failure' = "none"

Goto(step) == pc' = step /\ UNCHANGED <<op, outcome, failure>>

\* _append_journal reads and validates the whole journal before it appends
\* one row, and does not look at the new row.
Append1(row, step) ==
    IF journal = <<>> \/ Readable(journal)
      THEN /\ journal' = Append(journal, row)
           /\ Goto(step)
      ELSE /\ UNCHANGED journal
           /\ Exit("refused")

\* _prepare_root of a new run: the directories, then the first row.
StartFresh ==
    /\ pc = "down" /\ ~root
    /\ root' = TRUE
    /\ pc' = "begin" /\ op' = 1
    /\ UNCHANGED <<commits, journal, receipts, checkpoints, final, stray, outcome, failure, bounds>>

Begin ==
    /\ pc = "begin"
    /\ Append1(Row("RUN_STARTED", 0, "none"), "walk")
    /\ UNCHANGED <<commits, root, receipts, checkpoints, final, stray, bounds>>

\* A run started with resume on an existing root: _prepare_root, then
\* _checkpoint_set, which refuses a stray temporary and a gap.
StartResume ==
    /\ pc = "down" /\ root /\ Len(journal) < MaxJournal
    /\ IF /\ Resumable(journal)
          /\ \/ Last(journal).state = "RUN_COMPLETED"
             \/ /\ "checkpoint" \notin stray
                /\ checkpoints = 1..Cardinality(checkpoints)
         THEN /\ pc' = CASE Last(journal).state # "RUN_COMPLETED" -> "walk"
                         [] Last(journal).state = "RUN_COMPLETED" /\ final -> "verify"
                         [] OTHER -> "final"
              /\ op' = 1
              /\ UNCHANGED <<outcome, failure>>
         ELSE Exit("refused")
    /\ UNCHANGED <<commits, durable, bounds>>

\* A checkpointed operation is verified against its receipt and skipped; no
\* journal row is written for it.
SkipCheckpointed ==
    /\ pc = "walk" /\ op \in checkpoints
    /\ op \in receipts
    /\ op' = op + 1
    /\ UNCHANGED <<commits, durable, pc, outcome, failure, bounds>>

\* A receipt without a checkpoint is verified and adopted.
AdoptReceipt ==
    /\ pc = "walk" /\ op \in receipts \ checkpoints
    /\ checkpoints' = checkpoints \cup {op}
    /\ Goto("adopted")
    /\ UNCHANGED <<commits, root, journal, receipts, final, stray, bounds>>

JournalAdopted ==
    /\ pc = "adopted"
    /\ \/ /\ Readable(journal)
          /\ journal' = Append(journal, Row("RECEIPT_ADOPTED", op, "none"))
          /\ pc' = "walk" /\ op' = op + 1
          /\ UNCHANGED <<outcome, failure>>
       \/ /\ ~Readable(journal)
          /\ Exit("refused")
          /\ UNCHANGED journal
    /\ UNCHANGED <<commits, root, receipts, checkpoints, final, stray, bounds>>

JournalIntent ==
    /\ pc = "walk" /\ op \in Operations \ (receipts \cup checkpoints)
    /\ Append1(Row("OPERATION_INTENT", op, "none"), "execute")
    /\ UNCHANGED <<commits, root, receipts, checkpoints, final, stray, bounds>>

-----------------------------------------------------------------------------
(* The executor: N5 materializes, N4 publishes, a receipt is written.      *)

CatalogLabel == IF commits = <<>> THEN 0 ELSE Last(commits)

Published(i) == \E p \in DOMAIN commits : commits[p] = i

\* Mutant: the store does not compare the expected label.
AlwaysPublish(i) == TRUE

\* The N4 store's answer to operation i: a replay of a committed publication,
\* a commit when the label it expects is current.  Operation 1 expects an
\* empty catalog.
CanPublish(i) ==
    \/ Published(i)
    \/ IF i = 1 THEN commits = <<>> ELSE CatalogLabel = i - 1

Publish ==
    /\ pc = "execute"
    /\ CanPublish(op)
    /\ commits' = IF Published(op) THEN commits ELSE Append(commits, op)
    /\ Goto("receipt")
    /\ UNCHANGED <<durable, bounds>>

\* HTTP 409 from the store reads as an infrastructure failure to
\* _classify_existing_failure.
PublishConflict ==
    /\ pc = "execute"
    /\ ~CanPublish(op)
    /\ pc' = "failed" /\ failure' = "infrastructure"
    /\ UNCHANGED <<commits, durable, op, outcome, bounds>>

WriteReceipt ==
    /\ pc = "receipt"
    /\ receipts' = receipts \cup {op}
    /\ Goto("checkpoint")
    /\ UNCHANGED <<commits, root, journal, checkpoints, final, stray, bounds>>

\* The executor raises: before anything reached N4, after the publication
\* (its answer lost) or when the new receipt does not verify.
ExecutorFails(class) ==
    /\ pc \in {"execute", "receipt", "checkpoint"}
    /\ failures < MaxFailures
    /\ failures' = failures + 1
    /\ pc' = "failed" /\ failure' = class
    /\ UNCHANGED <<commits, durable, op, outcome, wedged, crashes>>

JournalFailure ==
    /\ pc = "failed"
    /\ journal' = IF Readable(journal)
                    THEN Append(journal, Row("RUN_FAILED", op, failure))
                    ELSE journal
    /\ Exit(IF Readable(journal) THEN failure ELSE "refused")
    /\ UNCHANGED <<commits, root, receipts, checkpoints, final, stray, bounds>>

WriteCheckpoint ==
    /\ pc = "checkpoint"
    /\ checkpoints' = checkpoints \cup {op}
    /\ Goto("completed")
    /\ UNCHANGED <<commits, root, journal, receipts, final, stray, bounds>>

\* Mutant: a completed operation is not journalled.
CompletedUnjournalled ==
    /\ pc = "completed"
    /\ pc' = "walk" /\ op' = op + 1
    /\ UNCHANGED <<commits, durable, outcome, failure, bounds>>

JournalCompleted ==
    /\ pc = "completed"
    /\ \/ /\ Readable(journal)
          /\ journal' = Append(journal, Row("OPERATION_COMPLETED", op, "none"))
          /\ pc' = "walk" /\ op' = op + 1
          /\ UNCHANGED <<outcome, failure>>
       \/ /\ ~Readable(journal)
          /\ Exit("refused")
          /\ UNCHANGED journal
    /\ UNCHANGED <<commits, root, receipts, checkpoints, final, stray, bounds>>

-----------------------------------------------------------------------------
(* The end of the run.                                                     *)

JournalRunCompleted ==
    /\ pc = "walk" /\ op = N + 1
    /\ Append1(Row("RUN_COMPLETED", 0, "none"), "final")
    /\ UNCHANGED <<commits, root, receipts, checkpoints, final, stray, bounds>>

WriteFinal ==
    /\ pc = "final"
    /\ final' = TRUE
    /\ Goto("verify")
    /\ UNCHANGED <<commits, root, journal, receipts, checkpoints, stray, bounds>>

\* verify_full_flow_bulk_live_provisioning on the finished run.
Verify ==
    /\ pc = "verify"
    /\ Exit(IF /\ Readable(journal)
               /\ Last(journal).state = "RUN_COMPLETED"
               /\ stray = {} /\ final
               /\ checkpoints = Operations
               /\ receipts = Operations
            THEN "verified" ELSE "refused")
    /\ UNCHANGED <<commits, durable, bounds>>

-----------------------------------------------------------------------------
(* The environment.                                                        *)

ForeignPublish ==
    /\ Cardinality({p \in DOMAIN commits : commits[p] = Foreign}) < MaxForeign
    /\ commits' = Append(commits, Foreign)
    /\ UNCHANGED <<durable, pc, op, outcome, failure, bounds>>

\* What a write that is cut short leaves behind, by the step it belongs to.
Leftover ==
    CASE pc = "receipt"    -> {"receipt"}
      [] pc = "checkpoint" -> {"checkpoint"}
      [] pc = "walk" /\ op \in receipts \ checkpoints -> {"checkpoint"}
      [] pc = "final"      -> {"final"}
      [] OTHER             -> {}

\* Where a death leaves a run that resume cannot finish: before the first
\* intent is in the journal, and between a checkpoint and its journal row.
CrashWindow ==
    \/ journal = <<>>
    \/ Last(journal).state = "RUN_STARTED"
    \/ pc \in {"adopted", "completed"}

Crash ==
    /\ pc # "down"
    /\ crashes < MaxCrashes
    /\ crashes' = crashes + 1
    /\ wedged' = (wedged \/ CrashWindow)
    /\ \E left \in {{}} \cup (IF TornWrites THEN {Leftover} ELSE {}) :
          stray' = stray \cup left
    /\ Exit("crashed")
    /\ UNCHANGED <<commits, root, journal, receipts, checkpoints, final, failures>>

Run ==
    \/ StartFresh \/ Begin \/ StartResume
    \/ SkipCheckpointed \/ AdoptReceipt \/ JournalAdopted
    \/ JournalIntent \/ Publish \/ PublishConflict \/ WriteReceipt
    \/ JournalFailure \/ WriteCheckpoint \/ JournalCompleted
    \/ JournalRunCompleted \/ WriteFinal \/ Verify

Next ==
    \/ Run
    \/ \E class \in FailureClasses : ExecutorFails(class)
    \/ ForeignPublish
    \/ Crash

Spec == Init /\ [][Next]_vars

\* The process keeps running and the operator resumes a run that stopped.
FairSpec == Spec /\ WF_vars(Run)
-----------------------------------------------------------------------------
States == Done \cup {"RUN_STARTED", "OPERATION_INTENT", "RUN_FAILED", "RUN_COMPLETED"}

TypeOK ==
    /\ commits \in Seq(Operations \cup {Foreign})
    /\ root \in BOOLEAN /\ final \in BOOLEAN
    /\ journal \in Seq([state : States, op : 0..N, class : Classes \cup {"none"}])
    /\ receipts \subseteq Operations
    /\ checkpoints \subseteq Operations
    /\ stray \subseteq {"receipt", "checkpoint", "final"}
    /\ pc \in {"down", "begin", "walk", "adopted", "execute", "receipt",
               "failed", "checkpoint", "completed", "final", "verify"}
    /\ op \in 0..N + 1
    /\ pc \in {"adopted", "execute", "receipt", "failed", "checkpoint", "completed"} =>
          op \in Operations
    /\ outcome \in Classes \cup {"none", "refused", "crashed", "verified"}
    /\ failure \in Classes \cup {"none"}
    /\ wedged \in BOOLEAN /\ crashes \in Nat /\ failures \in Nat

\* The durable places are filled in order and stay contiguous, whatever dies
\* between the writes: a checkpoint has its receipt, a receipt its N4
\* publication, and checkpoints are a prefix of the operations
\* (_checkpoint_set refuses the run otherwise).
DurableOrder ==
    /\ checkpoints \subseteq receipts
    /\ \A i \in receipts : Published(i)
    /\ \A i \in checkpoints : 1..i \subseteq checkpoints

\* The N4 compare-and-swap chain is contiguous and exactly once: every
\* operation is committed at most once, directly on top of its predecessor
\* (the claim all_required_derived_identities_provisioned_exactly_once of the
\* aggregate receipt), although operations are retried.
ChainContiguous ==
    \A p \in DOMAIN commits :
        commits[p] # Foreign =>
            /\ commits[p] = 1 => p = 1
            /\ commits[p] > 1 => p > 1 /\ commits[p - 1] = commits[p] - 1

\* The run is never more than one publication ahead of its checkpoints, so a
\* resumed run repeats at most one operation.
OneInFlight ==
    \A i, j \in Operations :
        Published(i) /\ Published(j) /\ {i, j} \cap checkpoints = {} => i = j

\* A run reported verified has published every operation in the N4 store,
\* although verification only reads local files.
VerifiedIsProvisioned ==
    outcome = "verified" => \A i \in Operations : Published(i)

\* Semantic, data and internal failures stop for investigation: however often
\* the run is resumed, nothing is journalled after such a failure
\* (_prepare_root).
StopsForInvestigation ==
    \A p \in DOMAIN journal :
        journal[p].state = "RUN_FAILED" /\ journal[p].class # "infrastructure" =>
            p = Len(journal)

\* Over deaths, retries, failures of every class and other clients of N4, the
\* operations are published once and in order, no more than one ahead of the
\* durable checkpoints, and a verified run has published them all.
ProvisionedInOrder ==
    /\ TypeOK /\ DurableOrder /\ ChainContiguous /\ OneInFlight
    /\ VerifiedIsProvisioned /\ StopsForInvestigation

\* What _read_journal asserts of the journal this process wrote.
JournalReadable == journal # <<>> => Readable(journal)

\* Deaths between any other two writes, retries and failures never make the
\* journal unreadable: CrashWindow is the whole of the exception.
ReadableOutsideWindow == ~wedged => JournalReadable

\* Every operation is provisioned and verified in the end, over infrastructure
\* failures and deaths, unless the process died in CrashWindow or in a torn
\* write, another client moved the catalog, or the run stopped for
\* investigation.
Provisioned ==
    <>(\/ outcome = "verified"
       \/ wedged \/ stray # {} \/ \E p \in DOMAIN commits : commits[p] = Foreign
       \/ \E p \in DOMAIN journal : journal[p].state = "RUN_FAILED"
                                    /\ journal[p].class # "infrastructure")
=============================================================================
