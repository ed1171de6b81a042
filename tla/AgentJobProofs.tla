--------------------------- MODULE AgentJobProofs ---------------------------
(***************************************************************************)
(* Proofs about AgentJob, for every set of jobs, both modes and any number *)
(* of faults.                                                              *)
(*                                                                         *)
(* PlanIsOwn and StatusTellsOutcome speak of runs that are over; IInv says *)
(* what holds of a run's files and row on the way there.  A step of one    *)
(* job leaves the files and the row of every other job alone, so each      *)
(* action is checked at the job that takes it.                             *)
(***************************************************************************)
EXTENDS AgentJob, TLAPS

-----------------------------------------------------------------------------
(* The inductive invariant, one job at a time. *)

\* The job's path holds what the job's own process wrote; the note that it came
\* late is only made when the job is over.
OwnFile(j) ==
  file[j] # Nothing => file[j].by = j /\ (file[j].late => pc[j] \in Over)

\* What the run goes on with was read from that path, in time.
OwnRaw(j) ==
  /\ pc[j] \in {"check", "commit", "refresh", "done"} =>
       /\ raw[j] # Nothing
       /\ raw[j].by = j /\ ~raw[j].late
       /\ raw[j].quality \in {"good", "leaks", "bad_plan"}
  /\ pc[j] \in {"commit", "refresh", "done"} => raw[j].quality = "good"

\* The row is completed from the commit on and not before; only faults part the
\* row from what the caller learns.
RowTells(j) ==
  /\ pc[j] \in {"refresh", "done"} => row[j] = "completed"
  /\ pc[j] \in {"idle", "files", "call", "child", "read", "check", "commit"} =>
       row[j] # "completed"
  /\ pc[j] = "except" /\ row[j] = "completed" => faults > 0
  /\ pc[j] = "raised" /\ faults = 0 => row[j] = "failed"
  /\ pc[j] = "raised" /\ row[j] = "completed" => faults > 1

JobInv(j) == OwnFile(j) /\ OwnRaw(j) /\ RowTells(j)

IInv == TypeOK /\ \A j \in Jobs : JobInv(j)

-----------------------------------------------------------------------------
(* Types. *)

\* Whatever a process writes is an output of its job.
LEMMA AnswerTyped ==
  ASSUME NEW j \in Jobs, NEW quality \in Qualities
  PROVE  /\ Answer(j, quality) \in Output
         /\ Answer(j, quality).by = j
         /\ Answer(j, quality).quality = quality
         /\ Answer(j, quality).late <=> pc[j] \in Over
<1> DEFINE late == pc[j] \in Over
<1>1. late \in BOOLEAN /\ (late <=> pc[j] \in Over)
  OBVIOUS
<1>2. Answer(j, quality) = [by |-> j, quality |-> quality, late |-> late]
  BY DEF Answer
<1> HIDE DEF late
<1> QED  BY <1>1, <1>2 DEF Output

\* Going to another place keeps pc typed and moves no other job.
LEMMA GotoTyped ==
  ASSUME pc \in [Jobs -> PCs], NEW j \in Jobs, NEW place \in PCs, Goto(j, place)
  PROVE  /\ pc' \in [Jobs -> PCs] /\ pc'[j] = place
         /\ \A k \in Jobs : k # j => pc'[k] = pc[k]
  BY DEF Goto

LEMMA TypeInit == Init => TypeOK
  BY FaultsAssumption DEF Init, TypeOK, PCs, Statuses, Children

LEMMA TypeNext == TypeOK /\ [Next]_vars => TypeOK'
<1> SUFFICES ASSUME TypeOK, [Next]_vars PROVE TypeOK'
  OBVIOUS
<1> USE FaultsAssumption DEF TypeOK, PCs
<1>1. ASSUME NEW j \in Jobs, StartJob(j) PROVE TypeOK'
  BY <1>1 DEF StartJob, Goto, Statuses
<1>2. ASSUME NEW j \in Jobs, WriteInput(j) PROVE TypeOK'
  BY <1>2 DEF WriteInput, Goto
<1>3. ASSUME NEW j \in Jobs, InputFails(j) PROVE TypeOK'
  BY <1>3 DEF InputFails, Goto
<1>4. ASSUME NEW j \in Jobs, BuildLocalStub(j) PROVE TypeOK'
  <2>1. Answer(j, "good") \in Output
    BY AnswerTyped DEF Qualities
  <2> QED  BY <1>4, <2>1 DEF BuildLocalStub, Goto, OutputPath
<1>5. ASSUME NEW j \in Jobs, SpawnCodex(j) PROVE TypeOK'
  BY <1>5 DEF SpawnCodex, Goto, Children
<1>6. ASSUME NEW j \in Jobs, CallFails(j) PROVE TypeOK'
  BY <1>6 DEF CallFails, Goto
<1>7. ASSUME NEW j \in Jobs, ChildWrites(j) PROVE TypeOK'
  <2>1. PICK quality \in Qualities :
          file' = [file EXCEPT ![OutputPath(j)] = Answer(j, quality)]
    BY <1>7 DEF ChildWrites
  <2>2. Answer(j, quality) \in Output
    BY AnswerTyped
  <2> QED  BY <1>7, <2>1, <2>2 DEF ChildWrites, OutputPath
<1>8. ASSUME NEW j \in Jobs, ChildExits(j) PROVE TypeOK'
  BY <1>8 DEF ChildExits, Children
<1>9. ASSUME NEW j \in Jobs, TimeOut(j) PROVE TypeOK'
  BY <1>9 DEF TimeOut, Goto, Children
<1>10. ASSUME NEW j \in Jobs, ChildDone(j) PROVE TypeOK'
  BY <1>10 DEF ChildDone, Goto
<1>11. ASSUME NEW j \in Jobs, ReadOutput(j) PROVE TypeOK'
  BY <1>11 DEF ReadOutput, Goto, OutputPath
<1>12. ASSUME NEW j \in Jobs, Validate(j) PROVE TypeOK'
  BY <1>12 DEF Validate, Goto
<1>13. ASSUME NEW j \in Jobs, CommitCompleted(j) PROVE TypeOK'
  BY <1>13 DEF CommitCompleted, Goto, Statuses
<1>14. ASSUME NEW j \in Jobs, CommitFails(j) PROVE TypeOK'
  BY <1>14 DEF CommitFails, Goto
<1>15. ASSUME NEW j \in Jobs, RefreshJob(j) PROVE TypeOK'
  BY <1>15 DEF RefreshJob, Goto
<1>16. ASSUME NEW j \in Jobs, RefreshFails(j) PROVE TypeOK'
  BY <1>16 DEF RefreshFails, Goto
<1>17. ASSUME NEW j \in Jobs, CommitFailed(j) PROVE TypeOK'
  BY <1>17 DEF CommitFailed, Goto, Statuses
<1>18. CASE Crash
  BY <1>18 DEF Crash, Children
<1>19. CASE AllOver \/ UNCHANGED vars
  BY <1>19 DEF AllOver, vars
<1> QED
  BY <1>1, <1>2, <1>3, <1>4, <1>5, <1>6, <1>7, <1>8, <1>9, <1>10, <1>11, <1>12,
     <1>13, <1>14, <1>15, <1>16, <1>17, <1>18, <1>19
  DEF Next, DispatcherStep, ChildStep, FaultStep

\* Every variable keeps its type.
THEOREM AgentJobTypeCorrect == Spec => []TypeOK
  BY TypeInit, TypeNext, PTL DEF Spec

-----------------------------------------------------------------------------
(* The invariant. *)

\* A step of one job that leaves the path, the output, the place and the row of
\* every other job alone has only that job to answer for.
LEMMA OneJob ==
  ASSUME IInv, TypeOK', NEW j \in Jobs, JobInv(j)', faults' >= faults,
         \A k \in Jobs : k # j =>
           /\ pc'[k] = pc[k] /\ row'[k] = row[k]
           /\ file'[k] = file[k] /\ raw'[k] = raw[k]
  PROVE  IInv'
<1>1. faults \in Nat /\ faults' \in Nat
  BY FaultsAssumption DEF IInv, TypeOK
<1>2. ASSUME NEW k \in Jobs, k # j PROVE JobInv(k)'
  <2>1. OwnFile(k)' /\ OwnRaw(k)'
    BY <1>2 DEF IInv, JobInv, OwnFile, OwnRaw
  <2>2. RowTells(k)'
    BY <1>1, <1>2 DEF IInv, JobInv, RowTells
  <2> QED  BY <2>1, <2>2 DEF JobInv
<1> QED  BY <1>2 DEF IInv

LEMMA InvInit == Init => IInv
  BY TypeInit DEF Init, IInv, JobInv, OwnFile, OwnRaw, RowTells

LEMMA InvNext == IInv /\ [Next]_vars => IInv'
<1> SUFFICES ASSUME IInv, [Next]_vars PROVE IInv'
  OBVIOUS
<1>0. /\ TypeOK /\ TypeOK' /\ \A j \in Jobs : JobInv(j)
      /\ faults \in Nat
  BY TypeNext, FaultsAssumption DEF IInv, TypeOK
<1>1. ASSUME NEW j \in Jobs, StartJob(j) PROVE IInv'
  <2>1. OwnFile(j)'
    BY <1>0, <1>1 DEF TypeOK, JobInv, OwnFile, StartJob, At, Goto, Over
  <2>2. OwnRaw(j)'
    BY <1>0, <1>1 DEF TypeOK, JobInv, OwnFile, OwnRaw, StartJob, At, Goto, Over
  <2>3. RowTells(j)'
    BY <1>0, <1>1 DEF TypeOK, JobInv, RowTells, StartJob, At, Goto
  <2>4. /\ faults' >= faults
        /\ \A k \in Jobs : k # j => /\ pc'[k] = pc[k] /\ row'[k] = row[k]
                                   /\ file'[k] = file[k] /\ raw'[k] = raw[k]
    BY <1>0, <1>1 DEF TypeOK, StartJob, Goto
  <2> QED  BY <1>0, <2>1, <2>2, <2>3, <2>4, OneJob DEF JobInv
<1>2. ASSUME NEW j \in Jobs, WriteInput(j) PROVE IInv'
  <2>1. OwnFile(j)'
    BY <1>0, <1>2 DEF TypeOK, JobInv, OwnFile, WriteInput, At, Goto, Over
  <2>2. OwnRaw(j)'
    BY <1>0, <1>2 DEF TypeOK, JobInv, OwnFile, OwnRaw, WriteInput, At, Goto, Over
  <2>3. RowTells(j)'
    BY <1>0, <1>2 DEF TypeOK, JobInv, RowTells, WriteInput, At, Goto
  <2>4. /\ faults' >= faults
        /\ \A k \in Jobs : k # j => /\ pc'[k] = pc[k] /\ row'[k] = row[k]
                                   /\ file'[k] = file[k] /\ raw'[k] = raw[k]
    BY <1>0, <1>2 DEF TypeOK, WriteInput, Goto
  <2> QED  BY <1>0, <2>1, <2>2, <2>3, <2>4, OneJob DEF JobInv
<1>3. ASSUME NEW j \in Jobs, InputFails(j) PROVE IInv'
  <2>1. OwnFile(j)'
    BY <1>0, <1>3 DEF TypeOK, JobInv, OwnFile, InputFails, At, Goto, Over
  <2>2. OwnRaw(j)'
    BY <1>0, <1>3 DEF TypeOK, JobInv, OwnFile, OwnRaw, InputFails, At, Goto, Over
  <2>3. RowTells(j)'
    BY <1>0, <1>3 DEF TypeOK, JobInv, RowTells, InputFails, At, Goto
  <2>4. /\ faults' >= faults
        /\ \A k \in Jobs : k # j => /\ pc'[k] = pc[k] /\ row'[k] = row[k]
                                   /\ file'[k] = file[k] /\ raw'[k] = raw[k]
    BY <1>0, <1>3 DEF TypeOK, InputFails, Goto
  <2> QED  BY <1>0, <2>1, <2>2, <2>3, <2>4, OneJob DEF JobInv
<1>4. ASSUME NEW j \in Jobs, BuildLocalStub(j) PROVE IInv'
  <2>1. /\ Answer(j, "good") \in Output /\ Answer(j, "good").by = j
        /\ Answer(j, "good").quality = "good" /\ ~Answer(j, "good").late
        /\ Answer(j, "good") # Nothing
    BY <1>4, AnswerTyped DEF Qualities, BuildLocalStub, At, Over, Nothing
  <2>2. OwnFile(j)'
    BY <1>0, <1>4, <2>1 DEF TypeOK, JobInv, OwnFile, BuildLocalStub, At, Goto, OutputPath, Over
  <2>3. OwnRaw(j)'
    BY <1>0, <1>4, <2>1 DEF TypeOK, JobInv, OwnFile, OwnRaw, BuildLocalStub, At, Goto, OutputPath, Over
  <2>4. RowTells(j)'
    BY <1>0, <1>4 DEF TypeOK, JobInv, RowTells, BuildLocalStub, At, Goto
  <2>5. /\ faults' >= faults
        /\ \A k \in Jobs : k # j => /\ pc'[k] = pc[k] /\ row'[k] = row[k]
                                   /\ file'[k] = file[k] /\ raw'[k] = raw[k]
    BY <1>0, <1>4, <2>1 DEF TypeOK, BuildLocalStub, Goto, OutputPath
  <2> QED  BY <1>0, <2>2, <2>3, <2>4, <2>5, OneJob DEF JobInv
<1>5. ASSUME NEW j \in Jobs, SpawnCodex(j) PROVE IInv'
  <2>1. OwnFile(j)'
    BY <1>0, <1>5 DEF TypeOK, JobInv, OwnFile, SpawnCodex, At, Goto, Over
  <2>2. OwnRaw(j)'
    BY <1>0, <1>5 DEF TypeOK, JobInv, OwnFile, OwnRaw, SpawnCodex, At, Goto, Over
  <2>3. RowTells(j)'
    BY <1>0, <1>5 DEF TypeOK, JobInv, RowTells, SpawnCodex, At, Goto
  <2>4. /\ faults' >= faults
        /\ \A k \in Jobs : k # j => /\ pc'[k] = pc[k] /\ row'[k] = row[k]
                                   /\ file'[k] = file[k] /\ raw'[k] = raw[k]
    BY <1>0, <1>5 DEF TypeOK, SpawnCodex, Goto
  <2> QED  BY <1>0, <2>1, <2>2, <2>3, <2>4, OneJob DEF JobInv
<1>6. ASSUME NEW j \in Jobs, CallFails(j) PROVE IInv'
  <2>1. OwnFile(j)'
    BY <1>0, <1>6 DEF TypeOK, JobInv, OwnFile, CallFails, At, Goto, Over
  <2>2. OwnRaw(j)'
    BY <1>0, <1>6 DEF TypeOK, JobInv, OwnFile, OwnRaw, CallFails, At, Goto, Over
  <2>3. RowTells(j)'
    BY <1>0, <1>6 DEF TypeOK, JobInv, RowTells, CallFails, At, Goto
  <2>4. /\ faults' >= faults
        /\ \A k \in Jobs : k # j => /\ pc'[k] = pc[k] /\ row'[k] = row[k]
                                   /\ file'[k] = file[k] /\ raw'[k] = raw[k]
    BY <1>0, <1>6 DEF TypeOK, CallFails, Goto
  <2> QED  BY <1>0, <2>1, <2>2, <2>3, <2>4, OneJob DEF JobInv
<1>7. ASSUME NEW j \in Jobs, ChildWrites(j) PROVE IInv'
  <2>1. PICK quality \in Qualities :
          file' = [file EXCEPT ![OutputPath(j)] = Answer(j, quality)]
    BY <1>7 DEF ChildWrites
  <2>2. OwnFile(j)'
    BY <1>0, <1>7, <2>1, AnswerTyped DEF TypeOK, JobInv, OwnFile, ChildWrites, OutputPath, Over
  <2>3. OwnRaw(j)'
    BY <1>0, <1>7, <2>1, AnswerTyped DEF TypeOK, JobInv, OwnFile, OwnRaw, ChildWrites, OutputPath, Over
  <2>4. RowTells(j)'
    BY <1>0, <1>7 DEF TypeOK, JobInv, RowTells, ChildWrites
  <2>5. /\ faults' >= faults
        /\ \A k \in Jobs : k # j => /\ pc'[k] = pc[k] /\ row'[k] = row[k]
                                   /\ file'[k] = file[k] /\ raw'[k] = raw[k]
    BY <1>0, <1>7, <2>1 DEF TypeOK, ChildWrites, OutputPath
  <2> QED  BY <1>0, <2>2, <2>3, <2>4, <2>5, OneJob DEF JobInv
<1>8. ASSUME NEW j \in Jobs, ChildExits(j) PROVE IInv'
  <2>1. OwnFile(j)'
    BY <1>0, <1>8 DEF TypeOK, JobInv, OwnFile, ChildExits, Over
  <2>2. OwnRaw(j)'
    BY <1>0, <1>8 DEF TypeOK, JobInv, OwnFile, OwnRaw, ChildExits, Over
  <2>3. RowTells(j)'
    BY <1>0, <1>8 DEF TypeOK, JobInv, RowTells, ChildExits
  <2>4. /\ faults' >= faults
        /\ \A k \in Jobs : k # j => /\ pc'[k] = pc[k] /\ row'[k] = row[k]
                                   /\ file'[k] = file[k] /\ raw'[k] = raw[k]
    BY <1>0, <1>8 DEF TypeOK, ChildExits
  <2> QED  BY <1>0, <2>1, <2>2, <2>3, <2>4, OneJob DEF JobInv
<1>9. ASSUME NEW j \in Jobs, TimeOut(j) PROVE IInv'
  <2>1. OwnFile(j)'
    BY <1>0, <1>9 DEF TypeOK, JobInv, OwnFile, TimeOut, At, Goto, Over
  <2>2. OwnRaw(j)'
    BY <1>0, <1>9 DEF TypeOK, JobInv, OwnFile, OwnRaw, TimeOut, At, Goto, Over
  <2>3. RowTells(j)'
    BY <1>0, <1>9 DEF TypeOK, JobInv, RowTells, TimeOut, At, Goto
  <2>4. /\ faults' >= faults
        /\ \A k \in Jobs : k # j => /\ pc'[k] = pc[k] /\ row'[k] = row[k]
                                   /\ file'[k] = file[k] /\ raw'[k] = raw[k]
    BY <1>0, <1>9 DEF TypeOK, TimeOut, Goto
  <2> QED  BY <1>0, <2>1, <2>2, <2>3, <2>4, OneJob DEF JobInv
<1>10. ASSUME NEW j \in Jobs, ChildDone(j) PROVE IInv'
  <2>1. OwnFile(j)'
    BY <1>0, <1>10 DEF TypeOK, JobInv, OwnFile, ChildDone, At, Goto, Over
  <2>2. OwnRaw(j)'
    BY <1>0, <1>10 DEF TypeOK, JobInv, OwnFile, OwnRaw, ChildDone, At, Goto, Over
  <2>3. RowTells(j)'
    BY <1>0, <1>10 DEF TypeOK, JobInv, RowTells, ChildDone, At, Goto
  <2>4. /\ faults' >= faults
        /\ \A k \in Jobs : k # j => /\ pc'[k] = pc[k] /\ row'[k] = row[k]
                                   /\ file'[k] = file[k] /\ raw'[k] = raw[k]
    BY <1>0, <1>10 DEF TypeOK, ChildDone, Goto
  <2> QED  BY <1>0, <2>1, <2>2, <2>3, <2>4, OneJob DEF JobInv
<1>11. ASSUME NEW j \in Jobs, ReadOutput(j) PROVE IInv'
  <2>1. OwnFile(j)'
    BY <1>0, <1>11 DEF TypeOK, JobInv, OwnFile, ReadOutput, At, Goto, OutputPath, Over
  <2>2. OwnRaw(j)'
    BY <1>0, <1>11 DEF TypeOK, JobInv, OwnFile, OwnRaw, ReadOutput, At, Goto, OutputPath, Readable, Over
  <2>3. RowTells(j)'
    BY <1>0, <1>11 DEF TypeOK, JobInv, RowTells, ReadOutput, At, Goto
  <2>4. /\ faults' >= faults
        /\ \A k \in Jobs : k # j => /\ pc'[k] = pc[k] /\ row'[k] = row[k]
                                   /\ file'[k] = file[k] /\ raw'[k] = raw[k]
    BY <1>0, <1>11 DEF TypeOK, ReadOutput, Goto, OutputPath
  <2> QED  BY <1>0, <2>1, <2>2, <2>3, <2>4, OneJob DEF JobInv
<1>12. ASSUME NEW j \in Jobs, Validate(j) PROVE IInv'
  <2>1. OwnFile(j)'
    BY <1>0, <1>12 DEF TypeOK, JobInv, OwnFile, Validate, At, Goto, Over
  <2>2. OwnRaw(j)'
    BY <1>0, <1>12 DEF TypeOK, JobInv, OwnFile, OwnRaw, Validate, At, Goto, Accepted, Over
  <2>3. RowTells(j)'
    BY <1>0, <1>12 DEF TypeOK, JobInv, RowTells, Validate, At, Goto
  <2>4. /\ faults' >= faults
        /\ \A k \in Jobs : k # j => /\ pc'[k] = pc[k] /\ row'[k] = row[k]
                                   /\ file'[k] = file[k] /\ raw'[k] = raw[k]
    BY <1>0, <1>12 DEF TypeOK, Validate, Goto
  <2> QED  BY <1>0, <2>1, <2>2, <2>3, <2>4, OneJob DEF JobInv
<1>13. ASSUME NEW j \in Jobs, CommitCompleted(j) PROVE IInv'
  <2>1. OwnFile(j)'
    BY <1>0, <1>13 DEF TypeOK, JobInv, OwnFile, CommitCompleted, At, Goto, Over
  <2>2. OwnRaw(j)'
    BY <1>0, <1>13 DEF TypeOK, JobInv, OwnFile, OwnRaw, CommitCompleted, At, Goto, Over
  <2>3. RowTells(j)'
    BY <1>0, <1>13 DEF TypeOK, JobInv, RowTells, CommitCompleted, At, Goto
  <2>4. /\ faults' >= faults
        /\ \A k \in Jobs : k # j => /\ pc'[k] = pc[k] /\ row'[k] = row[k]
                                   /\ file'[k] = file[k] /\ raw'[k] = raw[k]
    BY <1>0, <1>13 DEF TypeOK, CommitCompleted, Goto
  <2> QED  BY <1>0, <2>1, <2>2, <2>3, <2>4, OneJob DEF JobInv
<1>14. ASSUME NEW j \in Jobs, CommitFails(j) PROVE IInv'
  <2>1. OwnFile(j)'
    BY <1>0, <1>14 DEF TypeOK, JobInv, OwnFile, CommitFails, Goto, Over
  <2>2. OwnRaw(j)'
    BY <1>0, <1>14 DEF TypeOK, JobInv, OwnFile, OwnRaw, CommitFails, Goto, Over
  <2>3. RowTells(j)'
    BY <1>0, <1>14 DEF TypeOK, JobInv, RowTells, CommitFails, Goto
  <2>4. /\ faults' >= faults
        /\ \A k \in Jobs : k # j => /\ pc'[k] = pc[k] /\ row'[k] = row[k]
                                   /\ file'[k] = file[k] /\ raw'[k] = raw[k]
    BY <1>0, <1>14 DEF TypeOK, CommitFails, Goto
  <2> QED  BY <1>0, <2>1, <2>2, <2>3, <2>4, OneJob DEF JobInv
<1>15. ASSUME NEW j \in Jobs, RefreshJob(j) PROVE IInv'
  <2>1. OwnFile(j)'
    BY <1>0, <1>15 DEF TypeOK, JobInv, OwnFile, RefreshJob, At, Goto, Over
  <2>2. OwnRaw(j)'
    BY <1>0, <1>15 DEF TypeOK, JobInv, OwnFile, OwnRaw, RefreshJob, At, Goto, Over
  <2>3. RowTells(j)'
    BY <1>0, <1>15 DEF TypeOK, JobInv, RowTells, RefreshJob, At, Goto
  <2>4. /\ faults' >= faults
        /\ \A k \in Jobs : k # j => /\ pc'[k] = pc[k] /\ row'[k] = row[k]
                                   /\ file'[k] = file[k] /\ raw'[k] = raw[k]
    BY <1>0, <1>15 DEF TypeOK, RefreshJob, Goto
  <2> QED  BY <1>0, <2>1, <2>2, <2>3, <2>4, OneJob DEF JobInv
<1>16. ASSUME NEW j \in Jobs, RefreshFails(j) PROVE IInv'
  <2>1. OwnFile(j)'
    BY <1>0, <1>16 DEF TypeOK, JobInv, OwnFile, RefreshFails, At, Goto, Over
  <2>2. OwnRaw(j)'
    BY <1>0, <1>16 DEF TypeOK, JobInv, OwnFile, OwnRaw, RefreshFails, At, Goto, Over
  <2>3. RowTells(j)'
    BY <1>0, <1>16 DEF TypeOK, JobInv, RowTells, RefreshFails, At, Goto
  <2>4. /\ faults' >= faults
        /\ \A k \in Jobs : k # j => /\ pc'[k] = pc[k] /\ row'[k] = row[k]
                                   /\ file'[k] = file[k] /\ raw'[k] = raw[k]
    BY <1>0, <1>16 DEF TypeOK, RefreshFails, Goto
  <2> QED  BY <1>0, <2>1, <2>2, <2>3, <2>4, OneJob DEF JobInv
<1>17. ASSUME NEW j \in Jobs, CommitFailed(j) PROVE IInv'
  <2>1. OwnFile(j)'
    BY <1>0, <1>17 DEF TypeOK, JobInv, OwnFile, CommitFailed, At, Goto, Over
  <2>2. OwnRaw(j)'
    BY <1>0, <1>17 DEF TypeOK, JobInv, OwnFile, OwnRaw, CommitFailed, At, Goto, Over
  <2>3. RowTells(j)'
    BY <1>0, <1>17 DEF TypeOK, JobInv, RowTells, CommitFailed, At, Goto
  <2>4. /\ faults' >= faults
        /\ \A k \in Jobs : k # j => /\ pc'[k] = pc[k] /\ row'[k] = row[k]
                                   /\ file'[k] = file[k] /\ raw'[k] = raw[k]
    BY <1>0, <1>17 DEF TypeOK, CommitFailed, Goto
  <2> QED  BY <1>0, <2>1, <2>2, <2>3, <2>4, OneJob DEF JobInv
<1>18. CASE Crash
  <2>1. ASSUME NEW j \in Jobs PROVE JobInv(j)'
    BY <1>0, <1>18 DEF Crash, TypeOK, JobInv, OwnFile, OwnRaw, RowTells, Over
  <2> QED  BY <1>0, <2>1 DEF IInv
<1>19. CASE AllOver \/ UNCHANGED vars
  BY <1>0, <1>19 DEF AllOver, vars, IInv, JobInv, OwnFile, OwnRaw, RowTells
<1> QED
  BY <1>1, <1>2, <1>3, <1>4, <1>5, <1>6, <1>7, <1>8, <1>9, <1>10, <1>11, <1>12,
     <1>13, <1>14, <1>15, <1>16, <1>17, <1>18, <1>19
  DEF Next, DispatcherStep, ChildStep, FaultStep

LEMMA InvMeans == IInv => PlanIsOwn /\ StatusTellsOutcome
  BY DEF IInv, JobInv, OwnRaw, RowTells, PlanIsOwn, StatusTellsOutcome

LEMMA InvCorrect == Spec => []IInv
  BY InvInit, InvNext, PTL DEF Spec

\* A plan given to the workflow was written by that job's own process before the
\* job was over and passed every check, however many jobs run and whatever the
\* processes of other or earlier jobs still write.
THEOREM PlansAreOwn == Spec => []PlanIsOwn
  BY InvCorrect, InvMeans, PTL

\* The row a job leaves behind and what its caller learned agree, up to the
\* faults that keep the row from being written.
THEOREM OutcomeIsTold == Spec => []StatusTellsOutcome
  BY InvCorrect, InvMeans, PTL

=============================================================================
