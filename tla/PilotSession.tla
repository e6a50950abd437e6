---------------------------- MODULE PilotSession ----------------------------
(***************************************************************************)
(* One session of a FlowMesh pilot over the Data Agent: the agent's tool   *)
(* calls at the access gateway (gateway.py, one lock for all of them), the *)
(* gateway's HTTP calls with time-outs and retries (data_agent_client.py), *)
(* and the pilot with its adapter in another process (pilot.py,            *)
(* adapter.py), which submits the workflow, waits for it, folds the Data   *)
(* Agent's transfer telemetry into the session's events and records the    *)
(* outcome, and which may die and be started again at any of these steps.  *)
(*                                                                         *)
(* FlowMesh is external: a workflow runs, its agent calls tools, and it    *)
(* ends, with or without waiting for the calls it has made.                *)
(***************************************************************************)
EXTENDS DataAgentServer, Sequences

CONSTANTS
    Tools,         \* threads of the gateway
    Runner,        \* the pilot process
    None, Broken,  \* no HTTP call; a call whose connection the server's death cut
    Reps,          \* the representations on offer
    Price,         \* quoted prices
    Budget,        \* task.access_budget
    MaxAccesses,   \* task.max_accesses
    MaxRetries,    \* settings.max_retries of the client
    MaxEvents,     \* bound on the events of the session
    MaxTransfers,  \* bound on the artifact requests of one access
    MaxFaults      \* bound on time-outs, failures and deaths

ASSUME PilotAssumption ==
    /\ Price \in [Reps -> Nat]
    /\ {Budget, MaxAccesses, MaxRetries, MaxEvents, MaxTransfers, MaxFaults} \subseteq Nat
    /\ Reps # {} /\ MaxEvents > 0
    /\ IsFiniteSet(Handlers) /\ IsFiniteSet(Tools)
    /\ Accesses = (0 .. MaxEvents - 1) \X Reps
    /\ {Runner, None} \cap Tools = {} /\ {None, Broken} \cap Handlers = {} /\ None # Broken

VARIABLES
    status,      \* gateway_sessions.status, "NONE" before the session exists
    events,      \* gateway_access_events of the session
    gateLock,    \* the tool call that holds AccessGateway._lock
    tool,        \* what each gateway thread is doing
    link,        \* the HTTP call each caller waits for
    attempt,     \* repetitions of that call
    mesh,        \* the workflow at FlowMesh
    runner,      \* what the pilot process is doing
    recorded,    \* the outcome in runs.jsonl; "unsaved" is there a failure like any
                 \* other, after an operation on the session's rows that failed
    faults,
    submissions, \* history: workflows FlowMesh accepted
    due          \* history: transfers reserved when the workflow ended

gatewayVars == <<status, events, gateLock, tool>>
clientVars == <<link, attempt>>
runnerVars == <<mesh, runner, recorded, submissions, due>>
vars == <<serverVars, gatewayVars, clientVars, runnerVars, faults>>

Callers == Tools \cup {Runner}
NoCall == [pc |-> "idle", rep |-> CHOOSE r \in Reps : TRUE, index |-> 0,
           fetch |-> FALSE, response |-> 0]
NoRun == [pc |-> "down", next |-> 1, upto |-> 0, pending |-> <<>>, ok |-> FALSE]

Event == [index : 0 .. MaxEvents, rep : Reps, accepted : BOOLEAN, response : Nat,
          figures : [requests : Nat, full : Nat]]

TypeOK ==
    /\ ServerTypeOK
    /\ status \in {"NONE", "CREATED", "RUNNING", "DONE", "FAILED"}
    /\ events \in Seq(Event) /\ Len(events) <= MaxEvents
    /\ gateLock \in Tools \cup {None}
    /\ tool \in [Tools -> [pc : {"idle", "lock", "send", "await", "append",
                                 "download", "receive"},
                           rep : Reps, index : 0 .. MaxEvents,
                           fetch : BOOLEAN, response : Nat]]
    /\ link \in [Callers -> Handlers \cup {None, Broken}]
    /\ attempt \in [Callers -> 0 .. MaxRetries]
    /\ mesh \in {"none", "running", "done", "failed"}
    /\ runner.pc \in {"down", "register", "submit", "bind", "wait",
                      "collect", "await", "polling", "write", "fail",
                      "record", "unsaved", "over"}
    /\ recorded \in {"none", "success", "failure", "unsaved"}
    /\ faults \in 0 .. MaxFaults
    /\ submissions \in Nat
    /\ due \in [Accesses -> Nat]

Init ==
    /\ ServerInit
    /\ status = "NONE" /\ events = <<>> /\ gateLock = None
    /\ tool = [t \in Tools |-> NoCall]
    /\ link = [c \in Callers |-> None]
    /\ attempt = [c \in Callers |-> 0]
    /\ mesh = "none" /\ runner = NoRun /\ recorded = "none"
    /\ faults = 0 /\ submissions = 0
    /\ due = [a \in Accesses |-> 0]

Fault == faults < MaxFaults /\ faults' = faults + 1

----------------------------------------------------------------------------
\* DataAgentClient: one HTTP call of a caller.

FreeHandler == CHOOSE h \in Handlers : At(h, "idle")

Send(c, label, a) ==
    /\ link[c] = None
    /\ \E h \in Handlers : At(h, "idle")
    /\ Receive(FreeHandler, label, a)
    /\ link' = [link EXCEPT ![c] = FreeHandler]
    /\ UNCHANGED <<storeVars, poolVars, transferVars>>

Answered(c) == link[c] \in Handlers /\ At(link[c], "answer")
Answer(c) == thread[link[c]]

\* The caller takes its answer or stops waiting for it: then the server goes on
\* with the request.  The next call starts afresh.
Gone(c) ==
    /\ thread' = [h \in Handlers |->
          IF h # link[c] THEN thread[h]
          ELSE IF At(h, "answer") THEN Idle ELSE [thread[h] EXCEPT !.open = FALSE]]
    /\ link' = [link EXCEPT ![c] = None]
    /\ UNCHANGED <<storeVars, poolVars, transferVars>>

HangUp(c) ==
    /\ Gone(c)
    /\ attempt' = [attempt EXCEPT ![c] = 0]

MayRetry(c) == attempt[c] < MaxRetries

\* _send_with_retries: a time-out is retried so often ...
TimesOut(c) == link[c] \in Handlers /\ ~Answered(c) /\ Fault
Retry(c) ==
    /\ MayRetry(c) /\ TimesOut(c)
    /\ Gone(c)
    /\ attempt' = [attempt EXCEPT ![c] = @ + 1]

\* ... and then raised; a connection that breaks in an answer is raised at once.
GiveUp(c) ==
    /\ ~MayRetry(c) /\ TimesOut(c)
    /\ HangUp(c)

Break(c) ==
    /\ link[c] = Broken
    /\ HangUp(c)
    /\ UNCHANGED faults

----------------------------------------------------------------------------
\* AccessGateway: the agent's tool calls.

Accepted == {i \in 1 .. Len(events) : events[i].accepted}
Cost(event) == IF event.accepted THEN Price[event.rep] ELSE 0
Spent ==
    LET spent[i \in 0 .. Len(events)] == IF i = 0 THEN 0 ELSE spent[i - 1] + Cost(events[i])
    IN  spent[Len(events)]

\* list_offers: a slot is left and the quoted price within the remaining budget.
Affordable(rep) ==
    /\ Cardinality(Accepted) < MaxAccesses
    /\ Spent + Price[rep] <= Budget

AccessOf(event) == <<event.index, event.rep>>
RequestOf(t) == <<tool[t].index, tool[t].rep>>

FreeTools == {t \in Tools : tool[t].pc = "idle"}
Open(fetch) == Cardinality({t \in Tools \ FreeTools : tool[t].fetch = fetch})

\* The agent names a representation, or the handle of an accepted access; the
\* call takes any free thread, which are alike.
AgentCalls(call) ==
    /\ mesh = "running"
    /\ FreeTools # {}
    /\ tool' = [tool EXCEPT ![CHOOSE t \in FreeTools : TRUE] = call]
    /\ UNCHANGED <<serverVars, status, events, gateLock, clientVars, runnerVars, faults>>

AgentAccess(rep) ==
    /\ Len(events) + Open(FALSE) < MaxEvents
    /\ AgentCalls([NoCall EXCEPT !.pc = "lock", !.rep = rep])

AgentFetch(i) ==
    /\ transferred[AccessOf(events[i])] + Open(TRUE) < MaxTransfers
    /\ AgentCalls([NoCall EXCEPT !.pc = "lock", !.fetch = TRUE, !.rep = events[i].rep,
                                 !.index = events[i].index])

\* The call returns, with a result or an error, and the lock is free.
Return(t) ==
    /\ tool' = [tool EXCEPT ![t] = NoCall]
    /\ gateLock' = None

Active == status \in {"CREATED", "RUNNING"}

Enter(t) ==
    /\ tool[t].pc = "lock"
    /\ gateLock = None
    /\ gateLock' = t

\* _reject: the refusal is an event too.
Rejected(t) == [index |-> Len(events), rep |-> tool[t].rep, accepted |-> FALSE,
                response |-> 0, figures |-> NoSummary]

\* access_representation and fetch_artifact up to the first request.
AdmitAccess(t) ==
    /\ ~tool[t].fetch
    /\ Active /\ Affordable(tool[t].rep)
    /\ Enter(t)
    /\ tool' = [tool EXCEPT ![t].pc = "send", ![t].index = Len(events)]
    /\ UNCHANGED <<serverVars, status, events, clientVars, runnerVars, faults>>

RejectAccess(t) ==
    /\ ~tool[t].fetch
    /\ ~(Active /\ Affordable(tool[t].rep))
    /\ tool[t].pc = "lock" /\ gateLock = None
    /\ events' = Append(events, Rejected(t))
    /\ Return(t)
    /\ UNCHANGED <<serverVars, status, clientVars, runnerVars, faults>>

AdmitFetch(t) ==
    /\ tool[t].fetch
    /\ Active
    /\ Enter(t)
    /\ tool' = [tool EXCEPT ![t].pc = "send"]
    /\ UNCHANGED <<serverVars, status, events, clientVars, runnerVars, faults>>

RejectFetch(t) ==
    /\ tool[t].fetch
    /\ ~Active
    /\ tool[t].pc = "lock" /\ gateLock = None
    /\ Return(t)
    /\ UNCHANGED <<serverVars, status, events, clientVars, runnerVars, faults>>

SendAccess(t) ==
    /\ tool[t].pc = "send"
    /\ Send(t, "reference", RequestOf(t))
    /\ tool' = [tool EXCEPT ![t].pc = "await"]
    /\ UNCHANGED <<status, events, gateLock, attempt, runnerVars, faults>>

AccessAnswered(t) ==
    /\ tool[t].pc = "await"
    /\ Answered(t)
    /\ IF Answer(t).response = 0
       THEN Return(t)
       ELSE /\ tool' = [tool EXCEPT ![t].pc = IF tool[t].fetch THEN "download" ELSE "append",
                                    ![t].response = Answer(t).response]
            /\ UNCHANGED gateLock
    /\ HangUp(t)
    /\ UNCHANGED <<status, events, runnerVars, faults>>

AccessRetried(t) ==
    /\ tool[t].pc = "await"
    /\ Retry(t)
    /\ tool' = [tool EXCEPT ![t].pc = "send"]
    /\ UNCHANGED <<status, events, gateLock, runnerVars>>

AccessLost(t) ==
    /\ tool[t].pc = "await"
    /\ GiveUp(t)
    /\ Return(t)
    /\ UNCHANGED <<status, events, runnerVars>>

\* append_event; the session's status is not looked at again.
AppendEvent(t) ==
    /\ tool[t].pc = "append"
    /\ events' = Append(events, [index |-> tool[t].index, rep |-> tool[t].rep,
                                 accepted |-> TRUE, response |-> tool[t].response,
                                 figures |-> NoSummary])
    /\ Return(t)
    /\ UNCHANGED <<serverVars, status, clientVars, runnerVars, faults>>

\* _download_artifact: one request, no repetition.
SendDownload(t) ==
    /\ tool[t].pc = "download"
    /\ Send(t, "begin", RequestOf(t))
    /\ tool' = [tool EXCEPT ![t].pc = "receive"]
    /\ UNCHANGED <<status, events, gateLock, attempt, runnerVars, faults>>

\* The client has read the body (or its end) while the server still records it.
BodyReceived(t) ==
    /\ tool[t].pc = "receive"
    /\ link[t] \in Handlers /\ thread[link[t]].pc \in {"commit", "release", "answer"}
    /\ HangUp(t)
    /\ Return(t)
    /\ UNCHANGED <<status, events, runnerVars, faults>>

DownloadLost(t) ==
    /\ tool[t].pc = "receive"
    /\ TimesOut(t)
    /\ HangUp(t)
    /\ Return(t)
    /\ UNCHANGED <<status, events, runnerVars>>

ConnectionBroken(t) ==
    /\ Break(t)
    /\ Return(t)
    /\ UNCHANGED <<status, events, runnerVars>>

\* The session or its events cannot be read, or the event not be inserted.
StoreFails(t) ==
    /\ tool[t].pc = "append" \/ (tool[t].pc = "lock" /\ gateLock = None)
    /\ Fault
    /\ Return(t)
    /\ UNCHANGED <<serverVars, status, events, clientVars, runnerVars>>

ToolStep(t) ==
    \/ AdmitAccess(t) \/ RejectAccess(t) \/ AdmitFetch(t) \/ RejectFetch(t)
    \/ SendAccess(t) \/ AccessAnswered(t) \/ AppendEvent(t)
    \/ SendDownload(t) \/ BodyReceived(t) \/ ConnectionBroken(t)

ToolFault(t) == AccessRetried(t) \/ AccessLost(t) \/ DownloadLost(t) \/ StoreFails(t)

----------------------------------------------------------------------------
\* FlowMesh ends the workflow, whatever calls its agent still has open.
MeshEnds(outcome) ==
    /\ mesh = "running"
    /\ mesh' = outcome
    /\ due' = transferred
    /\ UNCHANGED <<serverVars, gatewayVars, clientVars, runner, recorded, submissions>>

MeshDone == MeshEnds("done") /\ UNCHANGED faults
MeshFails == MeshEnds("failed") /\ Fault

----------------------------------------------------------------------------
\* The pilot and its adapter.

RunnerAt(label) == runner.pc = label
RunnerGoto(label) == runner' = [runner EXCEPT !.pc = label]
RunnerUnchanged == UNCHANGED <<serverVars, events, gateLock, tool, clientVars>>

\* The pilot skips a recorded trial and calls recover: a session that ended is
\* reported as it ended, a bound one is completed, one that was never bound is
\* given up; without a session, run.
Recover ==
    /\ RunnerAt("down")
    /\ runner' = [NoRun EXCEPT !.pc =
            IF recorded # "none" THEN "over"
            ELSE CASE status = "NONE" -> "register" [] status = "CREATED" -> "fail"
                   [] status = "RUNNING" -> "wait" [] OTHER -> "record",
          !.ok = (status = "DONE")]
    /\ UNCHANGED <<status, mesh, recorded, submissions, due, faults>> /\ RunnerUnchanged

\* The session, or the events of one that is done, cannot be read: the trial is
\* recorded as a failure whatever the session is.
RecoverFails ==
    /\ RunnerAt("down") /\ recorded = "none"
    /\ Fault
    /\ runner' = [NoRun EXCEPT !.pc = "unsaved"]
    /\ UNCHANGED <<status, mesh, recorded, submissions, due>> /\ RunnerUnchanged

RegisterSession ==
    /\ RunnerAt("register")
    /\ status' = "CREATED"
    /\ RunnerGoto("submit")
    /\ UNCHANGED <<mesh, recorded, submissions, due, faults>> /\ RunnerUnchanged

\* The pinned worker cannot be verified, or the session not be inserted: there is
\* no session and nothing ran.
PinningFails ==
    /\ RunnerAt("register")
    /\ Fault
    /\ RunnerGoto("record")
    /\ UNCHANGED <<status, mesh, recorded, submissions, due>> /\ RunnerUnchanged

Submit ==
    /\ RunnerAt("submit")
    /\ mesh' = "running"
    /\ submissions' = submissions + 1
    /\ RunnerGoto("bind")
    /\ UNCHANGED <<status, recorded, due, faults>> /\ RunnerUnchanged

\* The submission is refused, or accepted with its answer lost.
SubmitFails ==
    /\ RunnerAt("submit")
    /\ Fault
    /\ \/ UNCHANGED <<mesh, submissions>>
       \/ mesh' = "running" /\ submissions' = submissions + 1
    /\ RunnerGoto("fail")
    /\ UNCHANGED <<status, recorded, due>> /\ RunnerUnchanged

BindFlowmesh ==
    /\ RunnerAt("bind")
    /\ status' = "RUNNING"
    /\ RunnerGoto("wait")
    /\ UNCHANGED <<mesh, recorded, submissions, due, faults>> /\ RunnerUnchanged

\* The workflow runs and its session does not know it.
BindFails ==
    /\ RunnerAt("bind")
    /\ Fault
    /\ RunnerGoto("fail")
    /\ UNCHANGED <<status, mesh, recorded, submissions, due>> /\ RunnerUnchanged

\* wait and retrieve_result; then the events are listed, once.
WorkflowEnded ==
    /\ RunnerAt("wait")
    /\ mesh \in {"done", "failed"}
    /\ runner' = [runner EXCEPT !.pc = IF mesh = "done" THEN "collect" ELSE "fail",
                                !.upto = Len(events)]
    /\ UNCHANGED <<status, mesh, recorded, submissions, due, faults>> /\ RunnerUnchanged

\* Waiting fails, also while the workflow runs, or its result or the events cannot
\* be had.
RetrieveFails ==
    /\ RunnerAt("wait")
    /\ Fault
    /\ RunnerGoto("fail")
    /\ UNCHANGED <<status, mesh, recorded, submissions, due>> /\ RunnerUnchanged

\* reconcile_artifact_telemetry collects everything ...
Collected == runner.next > runner.upto

\* A refused event has no access id and keeps its zeros.
SkipRefused ==
    /\ RunnerAt("collect")
    /\ ~Collected /\ ~events[runner.next].accepted
    /\ runner' = [runner EXCEPT !.next = @ + 1, !.pending = Append(@, NoSummary)]
    /\ UNCHANGED <<status, mesh, recorded, submissions, due, faults>> /\ RunnerUnchanged

SendTelemetry ==
    /\ RunnerAt("collect")
    /\ ~Collected /\ events[runner.next].accepted
    /\ Send(Runner, "before", AccessOf(events[runner.next]))
    /\ RunnerGoto("await")
    /\ UNCHANGED <<gatewayVars, attempt, mesh, recorded, submissions, due, faults>>

\* Mutant: the summary is accepted as it comes.
FinalAlways(answer) == TRUE
Final(answer) == answer.complete

TelemetryAnswered ==
    /\ RunnerAt("await")
    /\ Answered(Runner)
    /\ runner' = IF Answer(Runner).response = 0 THEN [runner EXCEPT !.pc = "fail"]
                 ELSE IF Final(Answer(Runner))
                 THEN [runner EXCEPT !.pc = "collect", !.next = @ + 1,
                                     !.pending = Append(@, Answer(Runner).summary)]
                 ELSE [runner EXCEPT !.pc = "polling"]
    /\ HangUp(Runner)
    /\ UNCHANGED <<gatewayVars, mesh, recorded, submissions, due, faults>>

\* get_access_telemetry polls until its deadline, and then fails closed.
Poll ==
    /\ RunnerAt("polling")
    /\ RunnerGoto("collect")
    /\ UNCHANGED <<status, mesh, recorded, submissions, due, faults>> /\ RunnerUnchanged

\* Mutant: the deadline is not a number and no time is past it.
QuiescenceDeadlineNever == FALSE /\ UNCHANGED vars

QuiescenceDeadline ==
    /\ RunnerAt("polling")
    /\ RunnerGoto("fail")
    /\ UNCHANGED <<status, mesh, recorded, submissions, due, faults>> /\ RunnerUnchanged

TelemetryRetried ==
    /\ RunnerAt("await")
    /\ Retry(Runner)
    /\ RunnerGoto("collect")
    /\ UNCHANGED <<gatewayVars, mesh, recorded, submissions, due>>

TelemetryLost ==
    /\ RunnerAt("await")
    /\ GiveUp(Runner)
    /\ RunnerGoto("fail")
    /\ UNCHANGED <<gatewayVars, mesh, recorded, submissions, due>>

TelemetryBroken ==
    /\ RunnerAt("await")
    /\ Break(Runner)
    /\ RunnerGoto("fail")
    /\ UNCHANGED <<gatewayVars, mesh, recorded, submissions, due>>

\* ... before it writes, one transaction for each event.
StartWriting ==
    /\ RunnerAt("collect")
    /\ Collected
    /\ runner' = [runner EXCEPT !.pc = "write", !.next = 1]
    /\ UNCHANGED <<status, mesh, recorded, submissions, due, faults>> /\ RunnerUnchanged

Written == runner.next > runner.upto

UpdateTelemetry ==
    /\ RunnerAt("write")
    /\ ~Written
    /\ events' = [events EXCEPT ![runner.next].figures = runner.pending[runner.next]]
    /\ runner' = [runner EXCEPT !.next = @ + 1]
    /\ UNCHANGED <<serverVars, status, gateLock, tool, clientVars, mesh, recorded,
                   submissions, due, faults>>

UpdateFails ==
    /\ RunnerAt("write")
    /\ ~Written
    /\ Fault
    /\ RunnerGoto("fail")
    /\ UNCHANGED <<status, mesh, recorded, submissions, due>> /\ RunnerUnchanged

FinishDone ==
    /\ RunnerAt("write")
    /\ Written
    /\ status' = "DONE"
    /\ runner' = [runner EXCEPT !.pc = "record", !.ok = TRUE]
    /\ UNCHANGED <<mesh, recorded, submissions, due, faults>> /\ RunnerUnchanged

\* finish_session fails, or the read of the events after it: both are within the
\* block whose handler gives the session up.
FinishDoneFails ==
    /\ RunnerAt("write")
    /\ Written
    /\ Fault
    /\ status' \in {status, "DONE"}
    /\ RunnerGoto("fail")
    /\ UNCHANGED <<mesh, recorded, submissions, due>> /\ RunnerUnchanged

FinishFailed ==
    /\ RunnerAt("fail")
    /\ status' = "FAILED"
    /\ RunnerGoto("record")
    /\ UNCHANGED <<mesh, recorded, submissions, due, faults>> /\ RunnerUnchanged

\* Nothing gives the session up a second time: it stays as it is.
FinishFails ==
    /\ RunnerAt("fail")
    /\ Fault
    /\ RunnerGoto("unsaved")
    /\ UNCHANGED <<status, mesh, recorded, submissions, due>> /\ RunnerUnchanged

Outcome ==
    IF RunnerAt("unsaved") THEN "unsaved" ELSE IF runner.ok THEN "success" ELSE "failure"

Record ==
    /\ runner.pc \in {"record", "unsaved"}
    /\ recorded' = Outcome
    /\ RunnerGoto("over")
    /\ UNCHANGED <<status, mesh, submissions, due, faults>> /\ RunnerUnchanged

RunnerDies ==
    /\ runner.pc \notin {"down", "over"}
    /\ Fault
    /\ runner' = NoRun
    /\ HangUp(Runner)
    /\ UNCHANGED <<gatewayVars, mesh, recorded, submissions, due>>

RunnerStep ==
    \/ Recover \/ RegisterSession \/ Submit \/ BindFlowmesh
    \/ WorkflowEnded \/ SkipRefused \/ SendTelemetry \/ TelemetryAnswered \/ Poll
    \/ StartWriting \/ UpdateTelemetry \/ FinishDone \/ FinishFailed
    \/ Record \/ TelemetryBroken

RunnerFault ==
    \/ PinningFails \/ SubmitFails \/ BindFails \/ RetrieveFails
    \/ TelemetryRetried \/ TelemetryLost \/ UpdateFails \/ FinishDoneFails
    \/ FinishFails \/ RecoverFails \/ RunnerDies

----------------------------------------------------------------------------
\* The gateway's process dies and is started again over the same database.
GatewayDies ==
    /\ Fault
    /\ \E t \in Tools : tool[t].pc # "idle"
    /\ tool' = [t \in Tools |-> NoCall]
    /\ gateLock' = None
    /\ IF gateLock = None THEN UNCHANGED <<serverVars, clientVars>> ELSE HangUp(gateLock)
    /\ UNCHANGED <<status, events, runnerVars>>

\* So does the Data Agent's; the calls to it break.
DataAgentDies ==
    /\ Fault
    /\ ServerDies
    /\ link' = [c \in Callers |-> IF link[c] = None THEN None ELSE Broken]
    /\ UNCHANGED <<gatewayVars, attempt, runnerVars>>

HandlerStep(h) ==
    ServerStep(h) /\ UNCHANGED <<gatewayVars, clientVars, runnerVars, faults>>

HandlerFault(h) ==
    ServerFault(h) /\ Fault /\ UNCHANGED <<gatewayVars, clientVars, runnerVars>>

\* The trial is recorded and nothing is left to do.
Over ==
    /\ RunnerAt("over") /\ mesh # "running"
    /\ \A t \in Tools : tool[t].pc = "idle"
    /\ \A h \in Handlers : At(h, "idle")
    /\ UNCHANGED vars

Next ==
    \/ \E rep \in Reps : AgentAccess(rep)
    \/ \E i \in Accepted : AgentFetch(i)
    \/ \E t \in Tools : ToolStep(t) \/ ToolFault(t)
    \/ MeshDone \/ MeshFails
    \/ \E h \in Handlers : HandlerStep(h) \/ HandlerFault(h)
    \/ RunnerStep \/ QuiescenceDeadline \/ RunnerFault
    \/ GatewayDies \/ DataAgentDies
    \/ Over

Spec == Init /\ [][Next]_vars

\* The Data Agent's threads and the pilot keep running, the workflow has a time
\* limit, the poll a deadline, and the operator starts the pilot again.
Fairness ==
    /\ \A h \in Handlers : WF_vars(HandlerStep(h))
    /\ WF_vars(MeshDone)
    /\ WF_vars(RunnerStep)
    /\ SF_vars(QuiescenceDeadline)

FairSpec == Spec /\ Fairness

----------------------------------------------------------------------------
\* What an accepted event says was served is what the Data Agent has stored for
\* its access id, over time-outs, retries and deaths of both processes between
\* the execution and the event (access_representation, put_if_absent).
EventsAreOperations ==
    \A i \in Accepted : events[i].response = operations[AccessOf(events[i])]

\* Concurrent tool calls never exceed the session's slots or budget, and no two
\* events share an index, from which the access id is derived.
WithinLimits ==
    /\ Cardinality(Accepted) <= MaxAccesses
    /\ Spent <= Budget
    /\ \A i, j \in 1 .. Len(events) : events[i].index = events[j].index => i = j

\* A trial is submitted to FlowMesh at most once, however often the pilot dies
\* around the submission (recover).
SubmittedOnce == submissions <= 1

\* In a session that is reported as done every event counts at least the
\* transfers its artifact had when the workflow ended, up to those a restart of
\* the Data Agent forgot, and none that did not happen.  A call the agent left
\* open may still transfer more (reconcile_artifact_telemetry).
SuccessIsCounted ==
    status = "DONE" =>
        \A i \in Accepted :
            LET a == AccessOf(events[i])
            IN  /\ events[i].figures.requests + forgotten[a] >= due[a]
                /\ events[i].figures.requests <= transferred[a]

\* The recorded outcome is that of the session (recover, run, Record): a success
\* is a session that is done, a failure one that failed or was never created; a
\* pilot that dies between the two leaves a session whose outcome the next one
\* records.  Nothing is said of a failure recorded after an operation on the
\* session's own rows had failed (RecoverFails, FinishFails): such a session may
\* be left in any state, against the comment in run that every exit is recorded.
RecordAgrees ==
    /\ recorded = "success" => status = "DONE"
    /\ recorded = "failure" => status \in {"FAILED", "NONE"}

\* Accesses are exact on both sides: executed by one thread at a time, within
\* the limits, each event what the Data Agent stored, each transfer accounted.
AccessesAreExact ==
    TypeOK /\ ExecutesAlone /\ EventsAreOperations /\ WithinLimits /\ TransfersAccounted

\* The recorded outcome is that of the one workflow submitted, and counts its
\* transfers.
OutcomeIsCounted == SubmittedOnce /\ SuccessIsCounted /\ RecordAgrees

\* Every trial gets its record, even when a transfer's row was never written and
\* its access never becomes quiescent (get_access_telemetry).
TrialRecorded == <>(recorded # "none")
=============================================================================
