------------------------------ MODULE AgentJob ------------------------------
(***************************************************************************)
(* One AgentJobDispatcher.run per job: the AgentJob row, the directory of  *)
(* the job, the codex process that writes its answer there, and the checks *)
(* an answer must pass before the workflow may use it.  Jobs of different  *)
(* requests run at the same time; a process may outlive the job that       *)
(* started it.                                                             *)
(***************************************************************************)
EXTENDS Naturals, FiniteSets

CONSTANTS
  Jobs,      \* the job ids of a behaviour
  Modes,     \* the values of settings.agent_job_mode considered
  MaxFaults  \* bound: failed writes, lost database commits, server crashes

ASSUME ModesAssumption == Modes \subseteq {"local_stub", "codex_cli"}
ASSUME FaultsAssumption == MaxFaults \in Nat

VARIABLES
  mode,    \* settings.agent_job_mode, the same throughout
  pc,      \* where each run is
  row,     \* the status of each AgentJob row
  child,   \* the codex process of each job
  file,    \* what each output path holds
  raw,     \* raw_output: what each run read or built
  faults

vars == <<mode, pc, row, child, file, raw, faults>>

-----------------------------------------------------------------------------
(* Values. *)

\* An answer, by the first check it does not pass.
Qualities == {"good", "oversize", "not_json", "ungrounded", "leaks", "bad_plan"}

Nothing == [by |-> "none", quality |-> "none", late |-> FALSE]

\* by and late are a history: the job whose process wrote it, and whether that
\* job was over by then.
Output == [by : Jobs, quality : Qualities, late : BOOLEAN]

\* done: the plan was returned.  raised: an exception was.  lost: the server
\* went down.
PCs == {"idle", "files", "call", "child", "read", "check", "commit", "refresh",
        "except", "done", "raised", "lost"}
Over == {"done", "raised", "lost"}

Statuses == {"none", "queued", "completed", "failed"}

\* orphan: alive although its job is over.
Children == {"none", "running", "exited", "crashed", "orphan", "gone"}

TypeOK ==
  /\ mode \in Modes
  /\ pc \in [Jobs -> PCs]
  /\ row \in [Jobs -> Statuses]
  /\ child \in [Jobs -> Children]
  /\ file \in [Jobs -> Output \cup {Nothing}]
  /\ raw \in [Jobs -> Output \cup {Nothing}]
  /\ faults \in 0..MaxFaults

Init ==
  /\ mode \in Modes
  /\ pc = [j \in Jobs |-> "idle"]
  /\ row = [j \in Jobs |-> "none"]
  /\ child = [j \in Jobs |-> "none"]
  /\ file = [j \in Jobs |-> Nothing]
  /\ raw = [j \in Jobs |-> Nothing]
  /\ faults = 0

At(j, place) == pc[j] = place
Goto(j, place) == pc' = [pc EXCEPT ![j] = place]

\* Mutant: one output file for all jobs.
SharedPath(j) == CHOOSE k \in Jobs : TRUE

\* output_path: agent_job_root / job.id / output.json
OutputPath(j) == j

Answer(j, quality) == [by |-> j, quality |-> quality, late |-> pc[j] \in Over]

-----------------------------------------------------------------------------
(* Before the call. *)

\* The row is committed as queued.
StartJob(j) ==
  /\ At(j, "idle")
  /\ row' = [row EXCEPT ![j] = "queued"]
  /\ Goto(j, "files")
  /\ UNCHANGED <<mode, child, file, raw, faults>>

\* The directory and context.json are written outside the try block.
WriteInput(j) ==
  /\ At(j, "files")
  /\ Goto(j, "call")
  /\ UNCHANGED <<mode, row, child, file, raw, faults>>

InputFails(j) ==
  /\ At(j, "files")
  /\ faults < MaxFaults
  /\ faults' = faults + 1
  /\ Goto(j, "raised")
  /\ UNCHANGED <<mode, row, child, file, raw>>

\* local_stub: the answer is built here, and it passes every check.
BuildLocalStub(j) ==
  /\ At(j, "call")
  /\ mode = "local_stub"
  /\ raw' = [raw EXCEPT ![j] = Answer(j, "good")]
  /\ file' = [file EXCEPT ![OutputPath(j)] = Answer(j, "good")]
  /\ Goto(j, "check")
  /\ UNCHANGED <<mode, row, child, faults>>

SpawnCodex(j) ==
  /\ At(j, "call")
  /\ mode = "codex_cli"
  /\ child' = [child EXCEPT ![j] = "running"]
  /\ Goto(j, "child")
  /\ UNCHANGED <<mode, row, file, raw, faults>>

\* A file cannot be written or the command is not there.
CallFails(j) ==
  /\ At(j, "call")
  /\ faults < MaxFaults
  /\ faults' = faults + 1
  /\ Goto(j, "except")
  /\ UNCHANGED <<mode, row, child, file, raw>>

-----------------------------------------------------------------------------
(* The codex process. *)

\* It writes its last message, whatever that is, in time or not.
ChildWrites(j) ==
  /\ child[j] \in {"running", "orphan"}
  /\ \E quality \in Qualities :
       file' = [file EXCEPT ![OutputPath(j)] = Answer(j, quality)]
  /\ UNCHANGED <<mode, pc, row, child, raw, faults>>

\* It exits, with status 0 or another.
ChildExits(j) ==
  /\ child[j] \in {"running", "orphan"}
  /\ \E status \in IF child[j] = "orphan" THEN {"gone"} ELSE {"exited", "crashed"} :
       child' = [child EXCEPT ![j] = status]
  /\ UNCHANGED <<mode, pc, row, file, raw, faults>>

\* Mutant: the time only counts while there is no answer.
SilentTooLong(j) ==
  /\ At(j, "child") /\ child[j] = "running"
  /\ file[OutputPath(j)] = Nothing
  /\ child' = [child EXCEPT ![j] = "gone"]
  /\ Goto(j, "except")
  /\ UNCHANGED <<mode, row, file, raw, faults>>

\* TimeoutExpired: the process is killed; what it started may live on.
TimeOut(j) ==
  /\ At(j, "child") /\ child[j] = "running"
  /\ \E fate \in {"gone", "orphan"} : child' = [child EXCEPT ![j] = fate]
  /\ Goto(j, "except")
  /\ UNCHANGED <<mode, row, file, raw, faults>>

\* subprocess.run returns, or raises for a status other than 0.
ChildDone(j) ==
  /\ At(j, "child") /\ child[j] \in {"exited", "crashed"}
  /\ Goto(j, IF child[j] = "exited" THEN "read" ELSE "except")
  /\ UNCHANGED <<mode, row, child, file, raw, faults>>

-----------------------------------------------------------------------------
(* What is done with the answer. *)

\* Size, JSON and _reject_context_unavailable_output.
Readable(output) == output # Nothing /\ output.quality \in {"good", "leaks", "bad_plan"}

ReadOutput(j) ==
  /\ At(j, "read")
  /\ IF Readable(file[OutputPath(j)])
       THEN Goto(j, "check") /\ raw' = [raw EXCEPT ![j] = file[OutputPath(j)]]
       ELSE Goto(j, "except") /\ UNCHANGED raw
  /\ UNCHANGED <<mode, row, child, file, faults>>

\* Mutant: the plan is validated, the identifiers are not looked for.
ValidPlanOnly(output) == output.quality # "bad_plan"

\* reject_forbidden_output_identifiers, NeedAssessment and Plan.
Accepted(output) == output.quality \notin {"leaks", "bad_plan"}

Validate(j) ==
  /\ At(j, "check")
  /\ Goto(j, IF Accepted(raw[j]) THEN "commit" ELSE "except")
  /\ UNCHANGED <<mode, row, child, file, raw, faults>>

\* Mutant: the plan is returned before the row says so.
ReturnUncommitted(j) ==
  /\ At(j, "commit")
  /\ Goto(j, "refresh")
  /\ UNCHANGED <<mode, row, child, file, raw, faults>>

CommitCompleted(j) ==
  /\ At(j, "commit")
  /\ row' = [row EXCEPT ![j] = "completed"]
  /\ Goto(j, "refresh")
  /\ UNCHANGED <<mode, child, file, raw, faults>>

\* The transaction cannot be used after a failed commit, so the commit of the
\* except branch fails too.
CommitFails(j) ==
  /\ pc[j] \in {"commit", "except"}
  /\ faults < MaxFaults
  /\ faults' = faults + 1
  /\ Goto(j, "raised")
  /\ UNCHANGED <<mode, row, child, file, raw>>

RefreshJob(j) ==
  /\ At(j, "refresh")
  /\ Goto(j, "done")
  /\ UNCHANGED <<mode, row, child, file, raw, faults>>

\* db.refresh is inside the try block as well.
RefreshFails(j) ==
  /\ At(j, "refresh")
  /\ faults < MaxFaults
  /\ faults' = faults + 1
  /\ Goto(j, "except")
  /\ UNCHANGED <<mode, row, child, file, raw>>

\* Mutant: a status the other code does not know.
CommitError(j) ==
  /\ At(j, "except")
  /\ row' = [row EXCEPT ![j] = "error"]
  /\ Goto(j, "raised")
  /\ UNCHANGED <<mode, child, file, raw, faults>>

\* The except branch: failed, whatever was committed before, and the exception
\* goes on to the graph.
CommitFailed(j) ==
  /\ At(j, "except")
  /\ row' = [row EXCEPT ![j] = "failed"]
  /\ Goto(j, "raised")
  /\ UNCHANGED <<mode, child, file, raw, faults>>

\* The server goes down: runs are gone, their processes are not.
Crash ==
  /\ faults < MaxFaults
  /\ faults' = faults + 1
  /\ pc' = [j \in Jobs |-> IF pc[j] \in Over \cup {"idle"} THEN pc[j] ELSE "lost"]
  /\ child' = [j \in Jobs |-> IF child[j] = "running" THEN "orphan" ELSE child[j]]
  /\ UNCHANGED <<mode, row, file, raw>>

-----------------------------------------------------------------------------

DispatcherStep(j) ==
  \/ WriteInput(j) \/ BuildLocalStub(j) \/ SpawnCodex(j)
  \/ TimeOut(j) \/ ChildDone(j) \/ ReadOutput(j) \/ Validate(j)
  \/ CommitCompleted(j) \/ RefreshJob(j) \/ CommitFailed(j)

ChildStep(j) == ChildWrites(j) \/ ChildExits(j)

FaultStep(j) == InputFails(j) \/ CallFails(j) \/ CommitFails(j) \/ RefreshFails(j)

\* Every job is over: the only place where a behaviour may stop.
AllOver ==
  /\ \A j \in Jobs : pc[j] \in Over
  /\ UNCHANGED vars

Next ==
  \/ \E j \in Jobs : StartJob(j) \/ DispatcherStep(j) \/ ChildStep(j) \/ FaultStep(j)
  \/ Crash
  \/ AllOver

Spec == Init /\ [][Next]_vars

\* A run goes on by itself, and the timeout fires while the process lives.
\* Nothing is assumed of the process.
FairSpec == Spec /\ \A j \in Jobs : WF_vars(DispatcherStep(j))

-----------------------------------------------------------------------------
(* Properties. *)

\* What a workflow is given as a plan was written by the process of that very
\* job, before the job was over, and passed every check, even while processes
\* of other jobs, timed out ones included, still write their answers.
PlanIsOwn ==
  \A j \in Jobs : pc[j] = "done" =>
    raw[j].by = j /\ ~raw[j].late /\ raw[j].quality = "good"

\* The row and the caller agree: a returned plan has a completed row; a raised
\* error has a failed one, unless a fault kept the row from being written.
StatusTellsOutcome ==
  \A j \in Jobs :
    /\ pc[j] = "done" => row[j] = "completed"
    /\ pc[j] = "raised" /\ faults = 0 => row[j] = "failed"
    /\ pc[j] = "raised" /\ row[j] = "completed" => faults > 1

\* Every job that was started ends, although its process may never: the request
\* that waits for it is answered.
JobEnds == \A j \in Jobs : pc[j] # "idle" ~> pc[j] \in Over

=============================================================================
