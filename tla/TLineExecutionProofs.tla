------------------------- MODULE TLineExecutionProofs -------------------------
(***************************************************************************)
(* Theorems about TLineExecution for every number of runs, championships,   *)
(* workers and attempts, with leases that may expire at any moment.         *)
(***************************************************************************)
EXTENDS TLineExecution, TLAPS

-----------------------------------------------------------------------------
(* Lemmas on the operators.                                                *)

\* Folding championship statuses always gives a terminal status.
LEMMA FinalStatusType ==
    \A st : resolveRunFinalStatus(st) \in Terminal /\ resolveFailedRunStatus(st) \in Terminal
  BY DEF resolveRunFinalStatus, resolveFailedRunStatus, Combined, Terminal

\* Closing out championships keeps the type of the row.
LEMMA CloseOutType ==
    ASSUME NEW st \in [Champs -> Status], NEW to \in Status
    PROVE  CloseOut(st, to) \in [Champs -> Status]
  BY DEF CloseOut

\* What a progress counter counts are championships.
LEMMA ProcessedType ==
    ASSUME NEW st \in [Champs -> Status]
    PROVE  Processed(st) \in SUBSET Champs
  BY DEF Processed

\* Closing a run keeps the type of the runs.
LEMMA CloseRunType ==
    ASSUME run \in [Runs -> RunRow], NEW r \in Runs, NEW st \in Terminal,
           NEW closed \in [Champs -> Status]
    PROVE  /\ CloseRun(r, st, closed) \in [Runs -> RunRow]
           /\ Settle(r, st) \in Status \cup {"NONE"}
  <1>1. [run[r] EXCEPT !.status = st, !.processed = Processed(closed)] \in RunRow
    BY ProcessedType DEF RunRow, Status
  <1>2. QED
    BY <1>1 DEF CloseRun, Settle, RunRow, Status

\* The row of an idle worker has the type of a worker.
LEMMA IdleType == IdleWorker \in WorkerState
  BY MaxAttemptsAssumption DEF IdleWorker, WorkerState, Steps, Terminal

\* Passing or failing a test of the guard keeps the type of the worker.
LEMMA GoOnType ==
    ASSUME worker \in [Workers -> WorkerState], NEW w \in Workers, NEW step \in Steps
    PROVE  GoOn(w, step) \in WorkerState
  BY IdleType DEF GoOn, WorkerState

\* So does an error, which sends the worker to the failure handler or out of the job.
LEMMA ThrownType ==
    ASSUME worker \in [Workers -> WorkerState], NEW w \in Workers
    PROVE  Thrown(w) \in WorkerState
  <1>1. [IdleWorker EXCEPT !.pc = "fail", !.run = worker[w].run, !.token = worker[w].token]
            \in WorkerState
    BY IdleType DEF WorkerState, Steps
  <1>2. QED
    BY <1>1, IdleType DEF Thrown

-----------------------------------------------------------------------------
(* Type correctness.                                                       *)

\* A claim keeps the types because the queued job has an attempt left.
LEMMA TypeClaim ==
    ASSUME TypeOK, QueuedJobHasAttemptLeft,
           NEW w \in Workers, NEW r \in Runs, claimNextJob(w, r)
    PROVE  TypeOK'
  <1>1. NextAttempt(r) \in 0..MaxAttempts
    BY MaxAttemptsAssumption
       DEF claimNextJob, NextAttempt, TypeOK, JobRow, QueuedJobHasAttemptLeft
  <1>2. [job[r] EXCEPT !.status = "RUNNING", !.owner = w, !.live = TRUE,
                       !.attempts = NextAttempt(r)] \in JobRow
    BY <1>1 DEF TypeOK, JobRow, Status, Active
  <1>3. [IdleWorker EXCEPT !.pc = "load", !.run = r, !.token = NextAttempt(r)] \in WorkerState
    BY <1>1, IdleType DEF WorkerState, Steps
  <1>4. QED
    BY <1>2, <1>3 DEF claimNextJob, TypeOK

\* Creation, expiry and recovery of jobs keep the types.
LEMMA TypeQueue ==
    ASSUME TypeOK, NEW r \in Runs,
           \/ requestManualTLineRun(r) \/ scheduleDueRun(r)
           \/ LeaseRunsOut(r) \/ requeueExpiredJob(r) \/ finishExpiredJob(r)
    PROVE  TypeOK'
  <1>1. ASSUME NEW b \in BOOLEAN, createRunWithJob(r, b) PROVE TypeOK'
    <2>1. [run[r] EXCEPT !.status = "QUEUED", !.scheduled = b] \in RunRow
      <3>1. run[r] \in RunRow
        BY DEF TypeOK
      <3>2. QED
        BY <3>1 DEF RunRow, Status, Active
    <2>2. [job[r] EXCEPT !.status = "QUEUED"] \in JobRow
      BY DEF TypeOK, JobRow, Status, Active
    <2>3. QED
      BY <1>1, <2>1, <2>2 DEF createRunWithJob, TypeOK
  <1>2. CASE LeaseRunsOut(r)
    <2>1. [job[r] EXCEPT !.live = FALSE] \in JobRow
      BY DEF TypeOK, JobRow
    <2>2. QED
      BY <1>2, <2>1 DEF LeaseRunsOut, TypeOK
  <1>3. CASE requeueExpiredJob(r)
    <2>1. [job[r] EXCEPT !.status = "QUEUED", !.owner = Nobody] \in JobRow
      BY DEF TypeOK, JobRow, Status, Active
    <2>2. QED
      BY <1>3, <2>1 DEF requeueExpiredJob, TypeOK
  <1>4. CASE finishExpiredJob(r)
    <2> DEFINE to == IF job[r].cancel THEN "CANCELLED" ELSE "FAILED"
               closed == CloseOut(champ[r], to)
               status == IF job[r].cancel THEN "CANCELLED" ELSE resolveRunFinalStatus(closed)
    <2>1. closed \in [Champs -> Status]
      BY CloseOutType DEF TypeOK, Status, Terminal
    <2>2. status \in Terminal
      BY FinalStatusType DEF Terminal
    <2> HIDE DEF closed, status
    <2>3. /\ CloseRun(r, status, closed) \in [Runs -> RunRow]
          /\ Settle(r, status) \in Status \cup {"NONE"}
      BY <2>1, <2>2, CloseRunType DEF TypeOK
    <2>4. [job[r] EXCEPT !.status = Settle(r, status), !.owner = Nobody] \in JobRow
      BY <2>3 DEF TypeOK, JobRow
    <2>5. /\ champ' = [champ EXCEPT ![r] = closed]
          /\ run' = CloseRun(r, status, closed)
          /\ job' = [job EXCEPT ![r] = [@ EXCEPT !.status = Settle(r, status), !.owner = Nobody]]
          /\ UNCHANGED <<evidence, worker, route>>
      BY <1>4 DEF finishExpiredJob, closed, status
    <2>6. QED
      BY <2>1, <2>3, <2>4, <2>5 DEF TypeOK
  <1>5. QED
    BY <1>1, <1>2, <1>3, <1>4 DEF requestManualTLineRun, scheduleDueRun

\* A step of a worker's control flow keeps the types.
LEMMA TypeExecute ==
    ASSUME TypeOK, BusyWorkersHaveRun, NEW w \in Workers, Execute(w)
    PROVE  TypeOK'
  <1> DEFINE r == worker[w].run
  <1>1. worker[w] \in WorkerState /\ worker \in [Workers -> WorkerState]
    BY DEF TypeOK
  <1>2. worker[w].pc # "idle" => r \in Runs
    BY <1>1 DEF BusyWorkersHaveRun, WorkerState
  <1>3. r \in Runs => champ[r] \in [Champs -> Status] /\ run[r] \in RunRow /\ job[r] \in JobRow
    BY DEF TypeOK
  <1>4. r \in Runs => [run[r] EXCEPT !.processed = worker[w].seen] \in RunRow
    BY <1>1, <1>3 DEF RunRow, WorkerState
  <1> HIDE DEF r
  <1>5. CASE loadRun(w)
    <2>1. [worker[w] EXCEPT !.pc = "open", !.todo = Champs, !.skip = DoneAlready(worker[w].run)]
              \in WorkerState
      BY <1>1 DEF WorkerState, Steps, DoneAlready
    <2>2. QED
      BY <1>5, <2>1, IdleType DEF loadRun, TypeOK
  <1>6. CASE openRun(w)
    <2>1. Thrown(w) \in WorkerState /\ GoOn(w, AfterLoop(w)) \in WorkerState
      BY <1>1, GoOnType, ThrownType DEF AfterLoop, Steps
    <2>2. r \in Runs => [run[r] EXCEPT !.status = "RUNNING"] \in RunRow
      BY <1>3 DEF RunRow, Status, Active
    <2>3. QED
      BY <1>2, <1>6, <2>1, <2>2 DEF openRun, TypeOK, r
  <1>7. ASSUME NEW c \in Champs, skipChampionship(w, c) PROVE TypeOK'
    <2> DEFINE seen == Processed(champ[worker[w].run])
    <2>1. seen \in SUBSET Champs
      BY <1>2, <1>3, <1>7, ProcessedType DEF skipChampionship, r
    <2> HIDE DEF seen
    <2>2. [worker[w] EXCEPT !.pc = "count", !.cur = c, !.seen = seen] \in WorkerState
      BY <1>1, <2>1 DEF WorkerState, Steps
    <2>3. QED
      BY <1>7, <2>2 DEF skipChampionship, TypeOK, seen
  <1>8. ASSUME NEW c \in Champs, checkCancellation(w, c) PROVE TypeOK'
    <2>1. /\ [worker[w] EXCEPT !.pc = "sweep", !.cancelled = TRUE] \in WorkerState
          /\ [worker[w] EXCEPT !.pc = "mark", !.cur = c] \in WorkerState
      BY <1>1 DEF WorkerState, Steps
    <2>2. QED
      BY <1>8, <2>1, IdleType DEF checkCancellation, TypeOK
  <1>9. ASSUME NEW step \in {"work", "progress", "resolve", "failing"}
        PROVE  [worker[w] EXCEPT !.pc = step] \in WorkerState
    BY <1>1 DEF WorkerState, Steps
  <1>10. ASSUME NEW status \in Status, NEW c
         PROVE  r \in Runs => [champ[r] EXCEPT ![c] = status] \in [Champs -> Status]
    BY <1>3
  <1>11. CASE markChampionship(w)
    BY <1>2, <1>9, <1>10, <1>11 DEF markChampionship, TypeOK, Status, Active, r
  <1>12. CASE Store(w)
    <2>1. PICK rows \in SUBSET Matches, outcome \in Completed : storeEvidence(w, rows, outcome)
      BY <1>12 DEF Store
    <2>2. outcome \in Status
      BY DEF Completed, Status, Terminal
    <2>3. r \in Runs
      BY <1>2, <2>1 DEF storeEvidence
    <2>4. [job[r] EXCEPT !.live = TRUE] \in JobRow
      BY <1>3, <2>3 DEF JobRow
    <2>5. [evidence[r] EXCEPT ![worker[w].cur] = @ \cup rows] \in [Champs -> SUBSET Matches]
      <3>1. evidence[r] \in [Champs -> SUBSET Matches]
        BY <2>3 DEF TypeOK
      <3>2. ASSUME worker[w].cur \in Champs
            PROVE  evidence[r][worker[w].cur] \cup rows \in SUBSET Matches
        BY <3>1, <3>2
      <3>3. QED
        BY <3>1, <3>2
    <2>6. QED
      BY <1>9, <1>10, <2>1, <2>2, <2>3, <2>4, <2>5 DEF storeEvidence, TypeOK, r
  <1>13. CASE evidenceRefused(w) \/ completionRefused(w) \/ failRefused(w) \/ leave(w)
    BY <1>13, IdleType DEF evidenceRefused, completionRefused, failRefused, leave, TypeOK
  <1>14. CASE championshipError(w) \/ executorError(w)
    <2>1. GoOn(w, "failChamp") \in WorkerState /\ Thrown(w) \in WorkerState
      BY <1>1, GoOnType, ThrownType DEF Steps
    <2>2. QED
      BY <1>14, <2>1 DEF championshipError, executorError, TypeOK
  <1>15. CASE failChampionship(w)
    BY <1>2, <1>9, <1>10, <1>15 DEF failChampionship, TypeOK, Status, Terminal, r
  <1>16. CASE readProgress(w)
    <2> DEFINE seen == Processed(champ[worker[w].run])
    <2>1. seen \in SUBSET Champs
      BY <1>2, <1>3, <1>16, ProcessedType DEF readProgress, r
    <2> HIDE DEF seen
    <2>2. [worker[w] EXCEPT !.pc = "count", !.seen = seen] \in WorkerState
      BY <1>1, <2>1 DEF WorkerState, Steps
    <2>3. QED
      BY <1>16, <2>2 DEF readProgress, TypeOK, seen
  <1>17. CASE refreshRunProgress(w)
    <2> DEFINE left == worker[w].todo \ {worker[w].cur}
               next == IF worker[w].cur = NoChamp THEN "finish"
                       ELSE IF left = {} THEN "resolve" ELSE "next"
    <2>1. [worker[w] EXCEPT !.todo = left, !.cur = NoChamp, !.seen = {}, !.pc = next] \in WorkerState
      BY <1>1 DEF WorkerState, Steps
    <2>2. QED
      BY <1>2, <1>4, <1>17, <2>1, IdleType DEF refreshRunProgress, TypeOK, r
  <1>18. CASE sweepCancelled(w)
    <2>1. r \in Runs => CloseOut(champ[r], "CANCELLED") \in [Champs -> Status]
      BY <1>3, CloseOutType DEF Status, Terminal
    <2>2. QED
      BY <1>2, <1>9, <1>18, <2>1 DEF sweepCancelled, TypeOK, r
  <1>19. CASE resolveRun(w)
    <2> DEFINE final == IF worker[w].cancelled THEN "CANCELLED"
                        ELSE resolveRunFinalStatus(champ[worker[w].run])
    <2>1. final \in Terminal
      BY FinalStatusType DEF Terminal
    <2> HIDE DEF final
    <2>2. [worker[w] EXCEPT !.pc = "progress", !.final = final, !.todo = {}, !.skip = {},
                            !.cancelled = FALSE] \in WorkerState
      BY <1>1, <2>1 DEF WorkerState, Steps
    <2>3. QED
      BY <1>19, <2>2 DEF resolveRun, TypeOK, final
  <1>20. CASE finishRun(w)
    <2>1. r \in Runs => [run[r] EXCEPT !.status = worker[w].final] \in RunRow
      BY <1>1, <1>3 DEF RunRow, WorkerState, Status
    <2>2. GoOn(w, "complete") \in WorkerState
      BY <1>1, GoOnType DEF Steps
    <2>3. QED
      BY <1>2, <1>20, <2>1, <2>2 DEF finishRun, TypeOK, r
  <1>21. CASE completeJob(w)
    <2>1. r \in Runs => [job[r] EXCEPT !.status = worker[w].final, !.owner = Nobody, !.live = FALSE]
                            \in JobRow
      BY <1>1, <1>3 DEF JobRow, WorkerState, Status
    <2>2. QED
      BY <1>2, <1>21, <2>1, IdleType DEF completeJob, TypeOK, r
  <1>22. CASE failBegins(w)
    BY <1>9, <1>22 DEF failBegins, TypeOK
  <1>23. CASE failCommits(w)
    <2> DEFINE closed == CloseOut(champ[r], "FAILED")
               status == resolveFailedRunStatus(closed)
    <2>1. r \in Runs
      BY <1>2, <1>23 DEF failCommits
    <2>2. closed \in [Champs -> Status]
      BY <1>3, <2>1, CloseOutType DEF Status, Terminal
    <2>3. status \in Terminal
      BY FinalStatusType
    <2>4. /\ champ' = [champ EXCEPT ![r] = closed]
          /\ run' = CloseRun(r, status, closed)
          /\ job' = IF HasLease(w)
                    THEN [job EXCEPT ![r] = [@ EXCEPT !.status = Settle(r, status),
                                                      !.owner = Nobody, !.live = FALSE]]
                    ELSE job
          /\ worker' = [worker EXCEPT ![w] = IdleWorker]
          /\ UNCHANGED <<evidence, route>>
      BY <1>23 DEF failCommits, r
    <2> HIDE DEF closed, status
    <2>5. /\ CloseRun(r, status, closed) \in [Runs -> RunRow]
          /\ Settle(r, status) \in Status \cup {"NONE"}
      BY <2>1, <2>2, <2>3, CloseRunType DEF TypeOK
    <2>6. [job[r] EXCEPT !.status = Settle(r, status), !.owner = Nobody, !.live = FALSE] \in JobRow
      BY <1>3, <2>1, <2>5 DEF JobRow
    <2>7. QED
      BY <2>1, <2>2, <2>4, <2>5, <2>6, IdleType DEF TypeOK
  <1>24. QED
    BY <1>17, <1>5, <1>6, <1>7, <1>8, <1>11, <1>12, <1>13, <1>14, <1>15, <1>16, <1>18, <1>19, <1>20,
       <1>21, <1>22, <1>23 DEF Execute

\* Heartbeats, crashes and operators keep the types.
LEMMA TypeEnvironment ==
    ASSUME TypeOK, Environment
    PROVE  TypeOK'
  <1>1. ASSUME NEW r \in Runs,
               requestManualTLineRun(r) \/ scheduleDueRun(r) \/ LeaseRunsOut(r)
        PROVE  TypeOK'
    BY <1>1, TypeQueue
  <1>2. ASSUME NEW w \in Workers, heartbeatRenews(w) \/ heartbeatLost(w) \/ crash(w)
        PROVE  TypeOK'
    <2>1. [worker[w] EXCEPT !.aborted = TRUE] \in WorkerState
      BY DEF TypeOK, WorkerState
    <2>2. ASSUME NEW r \in Runs PROVE [job[r] EXCEPT !.live = TRUE] \in JobRow
      BY DEF TypeOK, JobRow
    <2>3. CASE heartbeatRenews(w)
      BY <2>2, <2>3 DEF heartbeatRenews, HasLease, Owns, TypeOK
    <2>4. CASE heartbeatLost(w)
      BY <2>1, <2>4 DEF heartbeatLost, TypeOK
    <2>5. CASE crash(w)
      BY <2>5, IdleType DEF crash, TypeOK
    <2>6. QED
      BY <1>2, <2>3, <2>4, <2>5
  <1>3. ASSUME NEW r \in Runs, cancelReads(r) PROVE TypeOK'
    BY <1>3 DEF cancelReads, TypeOK
  <1>4. ASSUME NEW r \in Runs PROVE [run[r] EXCEPT !.cancel = TRUE] \in RunRow
    <2>1. run[r] \in RunRow
      BY DEF TypeOK
    <2>2. QED
      BY <2>1 DEF RunRow
  <1>5. ASSUME NEW r \in Runs PROVE [job[r] EXCEPT !.cancel = TRUE] \in JobRow
    <2>1. job[r] \in JobRow
      BY DEF TypeOK
    <2>2. QED
      BY <2>1 DEF JobRow
  <1>6. ASSUME NEW r \in Runs, cancelWrites(r) PROVE TypeOK'
    <2>1. [run[r] EXCEPT !.status = "CANCELLED", !.cancel = TRUE] \in RunRow
      <3>1. run[r] \in RunRow
        BY DEF TypeOK
      <3>2. QED
        BY <3>1 DEF RunRow, Status, Terminal
    <2>2. [job[r] EXCEPT !.status = "CANCELLED", !.cancel = TRUE] \in JobRow
      BY DEF TypeOK, JobRow, Status, Terminal
    <2>3. [c \in Champs |-> IF champ[r][c] = "QUEUED" THEN "CANCELLED" ELSE champ[r][c]]
              \in [Champs -> Status]
      BY DEF TypeOK, Status, Terminal
    <2>4. run' \in [Runs -> RunRow] /\ champ' \in [Runs -> [Champs -> Status]]
      BY <1>4, <1>6, <2>1, <2>3 DEF cancelWrites, TypeOK
    <2>5. job' \in [Runs -> JobRow]
      BY <1>5, <1>6, <2>2 DEF cancelWrites, buildCancelJobQuery, TypeOK
    <2>6. QED
      BY <1>6, <2>4, <2>5 DEF cancelWrites, TypeOK
  <1>7. CASE stopTLineSchedule
    <2>1. run' \in [Runs -> RunRow]
      BY <1>4, <1>7 DEF stopTLineSchedule, TypeOK
    <2>2. job' \in [Runs -> JobRow]
      BY <1>5, <1>7 DEF stopTLineSchedule, TypeOK
    <2>3. QED
      BY <1>7, <2>1, <2>2 DEF stopTLineSchedule, TypeOK
  <1>8. QED
    BY <1>1, <1>2, <1>3, <1>6, <1>7 DEF Environment

\* Every step keeps the types.
LEMMA TypeStep == IndInv /\ [Next]_vars => TypeOK'
  <1> SUFFICES ASSUME IndInv, [Next]_vars PROVE TypeOK'
    OBVIOUS
  <1> USE DEF IndInv
  <1>1. ASSUME NEW w \in Workers, Execute(w) PROVE TypeOK'
    BY <1>1, TypeExecute
  <1>2. ASSUME NEW w \in Workers, NEW r \in Runs, claimNextJob(w, r) PROVE TypeOK'
    BY <1>2, TypeClaim
  <1>3. ASSUME NEW r \in Runs, Recover(r) PROVE TypeOK'
    BY <1>3, TypeQueue DEF Recover
  <1>4. CASE Environment
    BY <1>4, TypeEnvironment
  <1>5. CASE UNCHANGED vars
    BY <1>5 DEF vars, TypeOK
  <1>6. QED
    BY <1>1, <1>2, <1>3, <1>4, <1>5 DEF Next

\* Initially every row and worker has its type and the invariant holds.
LEMMA InitIndInv == Init => IndInv
  <1> SUFFICES ASSUME Init PROVE IndInv
    OBVIOUS
  <1>1. run \in [Runs -> RunRow]
    <2>1. ASSUME NEW s \in Sports
          PROVE  [status |-> "NONE", cancel |-> FALSE, scheduled |-> FALSE, sport |-> s,
                  processed |-> {}] \in RunRow
      BY DEF RunRow
    <2>2. QED
      BY <2>1 DEF Init
  <1>2. NoJobRow \in JobRow
    BY MaxAttemptsAssumption DEF NoJobRow, JobRow
  <1>3. TypeOK
    BY <1>1, <1>2, IdleType DEF Init, TypeOK, Status, Active
  <1>4. QueuedJobHasAttemptLeft /\ UncreatedRunHasNoJob
    BY DEF Init, NoJobRow, QueuedJobHasAttemptLeft, UncreatedRunHasNoJob
  <1>5. BusyWorkersHaveRun /\ TokensIssued /\ AttemptTokensUnique
    BY DEF Init, IdleWorker, BusyWorkersHaveRun, TokensIssued, AttemptTokensUnique
  <1>6. QED
    BY <1>3, <1>4, <1>5 DEF IndInv

-----------------------------------------------------------------------------
(* How a step changes one job, one run and one worker.                     *)

\* Only a claim changes the attempts of a job, a job is queued again only while it has an
\* attempt left, and a job that does not exist is touched only by its creation.
LEMMA JobStep ==
    ASSUME TypeOK, [Next]_vars, NEW r \in Runs
    PROVE  \/ job'[r] = job[r]
           \/ \E w \in Workers : claimNextJob(w, r)
           \/ run[r].status = "NONE" /\ run'[r].status = "QUEUED" /\ job'[r].attempts = job[r].attempts
           \/ /\ job[r].status \in Active
              /\ job'[r].attempts = job[r].attempts
              /\ job[r].cancel => job'[r].cancel
              /\ job'[r].status = "QUEUED" => job[r].status = "QUEUED" \/ AttemptsLeft(r)
  <1> DEFINE Goal ==
           \/ job'[r] = job[r]
           \/ \E w \in Workers : claimNextJob(w, r)
           \/ run[r].status = "NONE" /\ run'[r].status = "QUEUED" /\ job'[r].attempts = job[r].attempts
           \/ /\ job[r].status \in Active
              /\ job'[r].attempts = job[r].attempts
              /\ job[r].cancel => job'[r].cancel
              /\ job'[r].status = "QUEUED" => job[r].status = "QUEUED" \/ AttemptsLeft(r)
  <1>1. job \in [Runs -> JobRow] /\ run \in [Runs -> RunRow] /\ worker \in [Workers -> WorkerState]
    BY DEF TypeOK
  <1>2. job[r] \in JobRow /\ run[r] \in RunRow
    BY <1>1
  <1>3. ASSUME NEW q \in Runs, NEW w \in Workers, claimNextJob(w, q) PROVE Goal
    BY <1>1, <1>3 DEF claimNextJob
  <1>4. ASSUME NEW q \in Runs, NEW b \in BOOLEAN, createRunWithJob(q, b) PROVE Goal
    <2>1. [run[r] EXCEPT !.status = "QUEUED", !.scheduled = b].status = "QUEUED"
      BY <1>2 DEF RunRow
    <2>2. [job[r] EXCEPT !.status = "QUEUED"].attempts = job[r].attempts
      BY <1>2 DEF JobRow
    <2>3. QED
      BY <1>1, <1>4, <2>1, <2>2 DEF createRunWithJob
  <1>5. ASSUME NEW q \in Runs, LeaseRunsOut(q) \/ requeueExpiredJob(q) PROVE Goal
    <2>1. [job[r] EXCEPT !.live = FALSE].attempts = job[r].attempts
          /\ [job[r] EXCEPT !.live = FALSE].status = job[r].status
          /\ [job[r] EXCEPT !.live = FALSE].cancel = job[r].cancel
          /\ [job[r] EXCEPT !.status = "QUEUED", !.owner = Nobody].attempts = job[r].attempts
          /\ [job[r] EXCEPT !.status = "QUEUED", !.owner = Nobody].cancel = job[r].cancel
      BY <1>2 DEF JobRow
    <2>2. QED
      BY <1>1, <1>5, <2>1 DEF LeaseRunsOut, requeueExpiredJob, Expired, Active
  <1>6. ASSUME NEW st \in Terminal \cup {"NONE"}, NEW o, NEW live
        PROVE  /\ [job[r] EXCEPT !.status = st, !.owner = o].attempts = job[r].attempts
               /\ [job[r] EXCEPT !.status = st, !.owner = o].status # "QUEUED"
               /\ [job[r] EXCEPT !.status = st, !.owner = o].cancel = job[r].cancel
               /\ [job[r] EXCEPT !.status = st, !.owner = o, !.live = live].cancel = job[r].cancel
               /\ [job[r] EXCEPT !.status = st, !.owner = o, !.live = live].attempts = job[r].attempts
               /\ [job[r] EXCEPT !.status = st, !.owner = o, !.live = live].status # "QUEUED"
    BY <1>2 DEF JobRow, Terminal
  <1>7. ASSUME NEW st \in Terminal PROVE Settle(r, st) \in Terminal \cup {"NONE"}
    BY <1>2 DEF Settle, RunRow, Status
  <1>8. ASSUME NEW q \in Runs, finishExpiredJob(q) PROVE Goal
    <2> DEFINE closed == CloseOut(champ[q], IF job[q].cancel THEN "CANCELLED" ELSE "FAILED")
               status == IF job[q].cancel THEN "CANCELLED" ELSE resolveRunFinalStatus(closed)
    <2>1. status \in Terminal
      BY FinalStatusType DEF Terminal
    <2>2. /\ job[q].status = "RUNNING"
          /\ job' = [job EXCEPT ![q] = [@ EXCEPT !.status = Settle(q, status), !.owner = Nobody]]
      BY <1>8 DEF finishExpiredJob, Expired
    <2> HIDE DEF status
    <2>3. QED
      BY <1>1, <1>6, <1>7, <2>1, <2>2 DEF Active
  <1>9. ASSUME NEW w \in Workers, completeJob(w) PROVE Goal
    <2>1. worker[w].final \in Terminal
      BY <1>1 DEF WorkerState
    <2>2. QED
      BY <1>1, <1>6, <1>9, <2>1 DEF completeJob, Owns, Active
  <1>10. ASSUME NEW w \in Workers, failCommits(w) PROVE Goal
    <2> DEFINE q == worker[w].run
               status == resolveFailedRunStatus(CloseOut(champ[q], "FAILED"))
    <2>1. status \in Terminal
      BY FinalStatusType
    <2>2. \/ job' = job
          \/ /\ job[q].status = "RUNNING"
             /\ job' = [job EXCEPT ![q] = [@ EXCEPT !.status = Settle(q, status),
                                                    !.owner = Nobody, !.live = FALSE]]
      BY <1>10 DEF failCommits, HasLease, Owns
    <2> HIDE DEF q, status
    <2>3. CASE q = r
      <3>1. Settle(q, status) \in Terminal \cup {"NONE"}
        BY <1>7, <2>1, <2>3
      <3>2. \/ job'[r] = job[r]
            \/ /\ job[r].status = "RUNNING"
               /\ job'[r] = [job[r] EXCEPT !.status = Settle(q, status), !.owner = Nobody, !.live = FALSE]
        BY <1>1, <2>2, <2>3
      <3> DEFINE ended == [job[r] EXCEPT !.status = Settle(q, status), !.owner = Nobody, !.live = FALSE]
      <3>3. ended.attempts = job[r].attempts /\ ended.status # "QUEUED" /\ ended.cancel = job[r].cancel
        BY <1>6, <3>1
      <3> HIDE DEF ended
      <3>4. job'[r] = job[r] \/ (job[r].status = "RUNNING" /\ job'[r] = ended)
        BY <3>2 DEF ended
      <3>5. QED
        BY <3>3, <3>4 DEF Active
    <2>4. CASE q # r
      BY <1>1, <2>2, <2>4
    <2>5. QED
      BY <2>3, <2>4
  <1>11. ASSUME NEW w \in Workers, heartbeatRenews(w) \/ Store(w) PROVE Goal
    <2>1. job[worker[w].run].status = "RUNNING" /\ job' = [job EXCEPT ![worker[w].run].live = TRUE]
      BY <1>11 DEF heartbeatRenews, Store, storeEvidence, HasLease, Owns
    <2>2. [job[r] EXCEPT !.live = TRUE].attempts = job[r].attempts
          /\ [job[r] EXCEPT !.live = TRUE].status = job[r].status
          /\ [job[r] EXCEPT !.live = TRUE].cancel = job[r].cancel
      BY <1>2 DEF JobRow
    <2>3. QED
      BY <1>1, <2>1, <2>2 DEF Active
  <1>12. [job[r] EXCEPT !.cancel = TRUE].attempts = job[r].attempts
         /\ [job[r] EXCEPT !.cancel = TRUE].cancel
         /\ [job[r] EXCEPT !.status = "CANCELLED", !.cancel = TRUE].cancel
         /\ [job[r] EXCEPT !.cancel = TRUE].status = job[r].status
         /\ [job[r] EXCEPT !.status = "CANCELLED", !.cancel = TRUE].attempts = job[r].attempts
         /\ [job[r] EXCEPT !.status = "CANCELLED", !.cancel = TRUE].status = "CANCELLED"
    BY <1>2 DEF JobRow
  <1>13. ASSUME NEW q \in Runs, cancelWrites(q) PROVE Goal
    BY <1>1, <1>12, <1>13 DEF cancelWrites, buildCancelJobQuery, Active
  <1>14. CASE stopTLineSchedule
    BY <1>1, <1>12, <1>14 DEF stopTLineSchedule, Active
  <1>15. CASE job' = job
    BY <1>15
  <1>16. ASSUME NEW w \in Workers, Execute(w) PROVE Goal
    BY <1>9, <1>10, <1>11, <1>15, <1>16
       DEF Execute, loadRun, openRun, skipChampionship, checkCancellation, markChampionship,
           evidenceRefused, championshipError, failChampionship, readProgress, refreshRunProgress,
           sweepCancelled, resolveRun, finishRun, completionRefused, executorError, failBegins, failRefused, leave
  <1>17. CASE Environment
    BY <1>4, <1>5, <1>11, <1>13, <1>14, <1>15, <1>17
       DEF Environment, requestManualTLineRun, scheduleDueRun, cancelReads, heartbeatLost, crash
  <1>18. QED
    BY <1>3, <1>5, <1>8, <1>15, <1>16, <1>17 DEF Next, Recover, vars

\* No step turns a run back into one that was not created.
LEMMA RunStep ==
    ASSUME TypeOK, [Next]_vars, NEW r \in Runs, run'[r].status = "NONE"
    PROVE  run[r].status = "NONE"
  <1>1. run \in [Runs -> RunRow] /\ run[r] \in RunRow /\ worker \in [Workers -> WorkerState]
    BY DEF TypeOK
  <1>2. CASE run' = run
    BY <1>2
  <1>3. ASSUME NEW q, NEW p, run' = [run EXCEPT ![q].processed = p] PROVE run[r].status = "NONE"
    <2>1. [run[r] EXCEPT !.processed = p].status = run[r].status
      BY <1>1 DEF RunRow
    <2>2. QED
      BY <1>1, <1>3, <2>1
  <1>4. ASSUME NEW q, NEW st \in {"RUNNING"} \cup Terminal, run' = [run EXCEPT ![q].status = st]
        PROVE  run[r].status = "NONE"
    <2>1. [run[r] EXCEPT !.status = st].status # "NONE"
      BY <1>1 DEF RunRow, Terminal
    <2>2. QED
      BY <1>1, <1>4, <2>1
  <1>5. ASSUME NEW q, NEW st \in Terminal, NEW closed, run' = CloseRun(q, st, closed)
        PROVE  run[r].status = "NONE"
    <2>1. [run[r] EXCEPT !.status = st, !.processed = Processed(closed)].status # "NONE"
      BY <1>1 DEF RunRow, Terminal
    <2>2. QED
      BY <1>1, <1>5, <2>1 DEF CloseRun
  <1>6. ASSUME NEW q, NEW b, run' = [run EXCEPT ![q] = [@ EXCEPT !.status = "QUEUED", !.scheduled = b]]
        PROVE  run[r].status = "NONE"
    <2>1. [run[r] EXCEPT !.status = "QUEUED", !.scheduled = b].status # "NONE"
      BY <1>1 DEF RunRow
    <2>2. QED
      BY <1>1, <1>6, <2>1
  <1>7. /\ [run[r] EXCEPT !.cancel = TRUE].status = run[r].status
        /\ [run[r] EXCEPT !.status = "CANCELLED", !.cancel = TRUE].status = "CANCELLED"
    BY <1>1 DEF RunRow
  <1>8. ASSUME NEW w \in Workers, Execute(w) PROVE run[r].status = "NONE"
    <2>1. CASE refreshRunProgress(w)
      BY <1>3, <2>1 DEF refreshRunProgress
    <2>2. CASE openRun(w)
      BY <1>2, <1>4, <2>2 DEF openRun
    <2>3. CASE finishRun(w)
      <3>1. worker[w].final \in Terminal
        BY <1>1 DEF WorkerState
      <3>2. QED
        BY <1>4, <2>3, <3>1 DEF finishRun
    <2>4. CASE failCommits(w)
      BY <1>5, <2>4, FinalStatusType DEF failCommits
    <2>5. QED
      BY <1>2, <1>8, <2>1, <2>2, <2>3, <2>4
         DEF Execute, Store, storeEvidence, loadRun, skipChampionship, checkCancellation,
             markChampionship, evidenceRefused, championshipError, failChampionship, readProgress,
             sweepCancelled, resolveRun, completeJob, completionRefused, executorError, failBegins, failRefused, leave
  <1>9. ASSUME NEW q \in Runs, finishExpiredJob(q) PROVE run[r].status = "NONE"
    <2> DEFINE closed == CloseOut(champ[q], IF job[q].cancel THEN "CANCELLED" ELSE "FAILED")
               status == IF job[q].cancel THEN "CANCELLED" ELSE resolveRunFinalStatus(closed)
    <2>1. status \in Terminal
      BY FinalStatusType DEF Terminal
    <2>2. run' = CloseRun(q, status, closed)
      BY <1>9 DEF finishExpiredJob
    <2> HIDE DEF closed, status
    <2>3. QED
      BY <1>5, <2>1, <2>2
  <1>10. ASSUME NEW q \in Runs, cancelWrites(q) PROVE run[r].status = "NONE"
    BY <1>1, <1>7, <1>10 DEF cancelWrites
  <1>11. CASE stopTLineSchedule
    BY <1>1, <1>7, <1>11 DEF stopTLineSchedule
  <1>12. CASE Environment
    BY <1>2, <1>6, <1>10, <1>11, <1>12
       DEF Environment, requestManualTLineRun, scheduleDueRun, createRunWithJob, LeaseRunsOut,
           cancelReads, heartbeatRenews, heartbeatLost, crash
  <1>13. QED
    BY <1>2, <1>8, <1>9, <1>12 DEF Next, Recover, requeueExpiredJob, claimNextJob, vars

\* A step that is not a claim of worker v either frees it or leaves its run and token alone.
LEMMA HolderStep ==
    ASSUME TypeOK, [Next]_vars, NEW v \in Workers
    PROVE  \/ \E r \in Runs : claimNextJob(v, r)
           \/ worker'[v] = IdleWorker
           \/ /\ worker'[v].run = worker[v].run
              /\ worker'[v].token = worker[v].token
              /\ worker'[v].pc = "idle" <=> worker[v].pc = "idle"
  <1> DEFINE Kept(s) == /\ s.run = worker[v].run
                        /\ s.token = worker[v].token
                        /\ s.pc = "idle" <=> worker[v].pc = "idle"
             Goal == \/ \E r \in Runs : claimNextJob(v, r)
                     \/ worker'[v] = IdleWorker
                     \/ Kept(worker'[v])
  <1>1. worker \in [Workers -> WorkerState] /\ worker[v] \in WorkerState
    BY DEF TypeOK
  <1>2. CASE worker' = worker
    BY <1>2
  <1>3. ASSUME NEW w \in Workers, worker' = [worker EXCEPT ![w] = IdleWorker] PROVE Goal
    BY <1>1, <1>3
  <1>4. ASSUME NEW w \in Workers, worker[w].pc # "idle", NEW s,
               worker' = [worker EXCEPT ![w] = IF worker[w].aborted THEN IdleWorker ELSE s],
               w = v => Kept(s)
        PROVE  Goal
    <2>1. CASE w = v
      BY <1>1, <1>4, <2>1
    <2>2. CASE w # v
      BY <1>1, <1>4, <2>2
    <2>3. QED
      BY <2>1, <2>2
  <1>5. ASSUME NEW w \in Workers, worker[w].pc # "idle", NEW s,
                worker' = [worker EXCEPT ![w] = s], w = v => Kept(s)
         PROVE  Goal
    <2>1. CASE w = v
      BY <1>1, <1>5, <2>1
    <2>2. CASE w # v
      BY <1>1, <1>5, <2>2
    <2>3. QED
      BY <2>1, <2>2
  <1>6. ASSUME NEW w \in Workers, worker[w].pc # "idle", NEW step, step # "idle",
               \/ worker' = [worker EXCEPT ![w].pc = step]
               \/ worker' = [worker EXCEPT ![w] = GoOn(w, step)]
               \/ worker' = [worker EXCEPT ![w] = Thrown(w)]
        PROVE  Goal
    <2>1. worker[v].pc # "idle" => Kept([worker[v] EXCEPT !.pc = step])
      BY <1>1, <1>6 DEF WorkerState
    <2>2. worker[v].pc # "idle" =>
              Kept([IdleWorker EXCEPT !.pc = "fail", !.run = worker[v].run, !.token = worker[v].token])
      BY DEF IdleWorker
    <2> HIDE DEF Kept
    <2>3. QED
      BY <1>1, <1>6, <2>1, <2>2 DEF GoOn, Thrown, Kept
  <1>7. ASSUME NEW w \in Workers, heartbeatLost(w) PROVE Goal
    <2>1. Kept([worker[v] EXCEPT !.aborted = TRUE])
      BY <1>1 DEF WorkerState
    <2>2. QED
      BY <1>1, <1>7, <2>1 DEF heartbeatLost
  <1>8. ASSUME NEW w \in Workers, NEW r \in Runs, claimNextJob(w, r) PROVE Goal
    BY <1>1, <1>8 DEF claimNextJob
  <1>9. ASSUME NEW w \in Workers, Execute(w) PROVE Goal
    <2> USE <1>1
    <2>1. CASE loadRun(w)
      <3> DEFINE s == [worker[w] EXCEPT !.pc = "open", !.todo = Champs, !.skip = DoneAlready(worker[w].run)]
      <3>1. w = v => Kept(s)
        BY <2>1 DEF loadRun, WorkerState
      <3>2. QED
        BY <1>4, <2>1, <3>1 DEF loadRun
    <2>2. CASE openRun(w)
      BY <1>6, <2>2 DEF openRun, AfterLoop
    <2>3. ASSUME NEW c \in Champs, skipChampionship(w, c) PROVE Goal
      <3> DEFINE s == [worker[w] EXCEPT !.pc = "count", !.cur = c, !.seen = Processed(champ[worker[w].run])]
      <3>1. w = v => Kept(s)
        BY <2>3 DEF skipChampionship, WorkerState
      <3>2. QED
        BY <1>5, <2>3, <3>1 DEF skipChampionship
    <2>4. ASSUME NEW c \in Champs, checkCancellation(w, c) PROVE Goal
      <3> DEFINE s == [worker[w] EXCEPT !.pc = "sweep", !.cancelled = TRUE]
                 t == [worker[w] EXCEPT !.pc = "mark", !.cur = c]
      <3>1. w = v => Kept(s) /\ Kept(t)
        BY <2>4 DEF checkCancellation, WorkerState
      <3>2. QED
        BY <1>4, <2>4, <3>1 DEF checkCancellation
    <2>5. CASE markChampionship(w) \/ Store(w) \/ failChampionship(w) \/ sweepCancelled(w) \/ failBegins(w)
      BY <1>6, <2>5 DEF markChampionship, Store, storeEvidence, failChampionship, sweepCancelled, failBegins
    <2>6. CASE championshipError(w) \/ executorError(w) \/ finishRun(w)
      BY <1>6, <2>6 DEF championshipError, executorError, finishRun
    <2>7. CASE refreshRunProgress(w)
      <3> DEFINE left == worker[w].todo \ {worker[w].cur}
                 next == IF worker[w].cur = NoChamp THEN "finish"
                         ELSE IF left = {} THEN "resolve" ELSE "next"
                 s == [worker[w] EXCEPT !.todo = left, !.cur = NoChamp, !.seen = {}, !.pc = next]
      <3>1. w = v => Kept(s)
        BY <2>7 DEF refreshRunProgress, WorkerState
      <3>2. QED
        BY <1>4, <2>7, <3>1 DEF refreshRunProgress
    <2>8. CASE resolveRun(w)
      <3> DEFINE final == IF worker[w].cancelled THEN "CANCELLED"
                          ELSE resolveRunFinalStatus(champ[worker[w].run])
                 s == [worker[w] EXCEPT !.pc = "progress", !.final = final, !.todo = {}, !.skip = {},
                                        !.cancelled = FALSE]
      <3>1. w = v => Kept(s)
        BY <2>8 DEF resolveRun, WorkerState
      <3>2. QED
        BY <1>5, <2>8, <3>1 DEF resolveRun
    <2>9. CASE readProgress(w)
      <3> DEFINE s == [worker[w] EXCEPT !.pc = "count", !.seen = Processed(champ[worker[w].run])]
      <3>1. w = v => Kept(s)
        BY <2>9 DEF readProgress, WorkerState
      <3>2. QED
        BY <1>5, <2>9, <3>1 DEF readProgress
    <2>10. CASE evidenceRefused(w) \/ completeJob(w) \/ completionRefused(w) \/ failRefused(w)
               \/ failCommits(w) \/ leave(w)
      BY <1>3, <2>10 DEF evidenceRefused, completeJob, completionRefused, failRefused, failCommits, leave
    <2>11. QED
      BY <1>9, <2>9, <2>1, <2>2, <2>3, <2>4, <2>5, <2>6, <2>7, <2>8, <2>10 DEF Execute
  <1>10. CASE Environment
    BY <1>2, <1>3, <1>7, <1>10
       DEF Environment, requestManualTLineRun, scheduleDueRun, createRunWithJob, LeaseRunsOut,
           cancelReads, cancelWrites, heartbeatRenews, crash, stopTLineSchedule
  <1>11. QED
    BY <1>2, <1>8, <1>9, <1>10 DEF Next, Recover, requeueExpiredJob, finishExpiredJob, vars

\* What a claim does to its worker, to the others and to its job.
LEMMA ClaimStep ==
    ASSUME TypeOK, NEW w \in Workers, NEW r \in Runs, claimNextJob(w, r)
    PROVE  /\ worker'[w].run = r
           /\ worker'[w].token = job[r].attempts + 1
           /\ job[r].attempts \in Nat
           /\ job'[r].attempts = job[r].attempts + 1
           /\ \A v \in Workers \ {w} : worker'[v] = worker[v]
           /\ \A q \in Runs \ {r} : job'[q] = job[q]
  <1>1. /\ worker \in [Workers -> WorkerState]
        /\ job \in [Runs -> JobRow] /\ job[r] \in JobRow
    BY DEF TypeOK
  <1>2. job[r].attempts \in Nat
    BY <1>1, MaxAttemptsAssumption DEF JobRow
  <1> DEFINE holder == [IdleWorker EXCEPT !.pc = "load", !.run = r, !.token = NextAttempt(r)]
             held == [job[r] EXCEPT !.status = "RUNNING", !.owner = w, !.live = TRUE,
                                    !.attempts = NextAttempt(r)]
  <1>3. holder.run = r /\ holder.token = job[r].attempts + 1
    BY DEF IdleWorker, NextAttempt
  <1>4. held.attempts = job[r].attempts + 1
    BY <1>1 DEF JobRow, NextAttempt
  <1>5. worker' = [worker EXCEPT ![w] = holder] /\ job' = [job EXCEPT ![r] = held]
    BY DEF claimNextJob
  <1> HIDE DEF holder, held
  <1>6. QED
    BY <1>1, <1>2, <1>3, <1>4, <1>5

\* Attempts never decrease.
LEMMA AttemptsStep ==
    ASSUME TypeOK, [Next]_vars, NEW r \in Runs
    PROVE  job'[r].attempts \in Nat /\ job'[r].attempts >= job[r].attempts
  <1>1. job[r].attempts \in Nat
    BY MaxAttemptsAssumption DEF TypeOK, JobRow
  <1>2. ASSUME NEW w \in Workers, claimNextJob(w, r)
        PROVE  job'[r].attempts = job[r].attempts + 1
    BY <1>2, ClaimStep
  <1>3. QED
    BY <1>1, <1>2, JobStep

-----------------------------------------------------------------------------
(* The inductive invariant.                                                *)

\* Queued jobs keep an attempt: only recovery queues a job again, and it compares attempts.
LEMMA QueuedStep == IndInv /\ [Next]_vars => QueuedJobHasAttemptLeft'
  <1> SUFFICES ASSUME IndInv, [Next]_vars, NEW r \in Runs, job'[r].status = "QUEUED"
               PROVE  job'[r].attempts < MaxAttempts
    BY DEF QueuedJobHasAttemptLeft
  <1>1. job \in [Runs -> JobRow] /\ job[r] \in JobRow /\ TypeOK
    BY DEF IndInv, TypeOK
  <1>2. ASSUME NEW w \in Workers, claimNextJob(w, r) PROVE FALSE
    <2>1. [job[r] EXCEPT !.status = "RUNNING", !.owner = w, !.live = TRUE,
                         !.attempts = NextAttempt(r)].status = "RUNNING"
      BY <1>1 DEF JobRow
    <2>2. QED
      BY <1>1, <1>2, <2>1 DEF claimNextJob
  <1>3. CASE run[r].status = "NONE" /\ job'[r].attempts = job[r].attempts
    BY <1>3, MaxAttemptsAssumption DEF IndInv, UncreatedRunHasNoJob, NoJobRow
  <1>4. CASE job'[r] = job[r]
    BY <1>4 DEF IndInv, QueuedJobHasAttemptLeft
  <1>5. CASE /\ job'[r].attempts = job[r].attempts
             /\ job[r].status = "QUEUED" \/ AttemptsLeft(r)
    BY <1>5 DEF IndInv, QueuedJobHasAttemptLeft, AttemptsLeft
  <1>6. QED
    BY <1>1, <1>2, <1>3, <1>4, <1>5, JobStep

\* A run that was not created keeps its empty job row: nothing but its creation touches it.
LEMMA UncreatedStep == IndInv /\ [Next]_vars => UncreatedRunHasNoJob'
  <1> SUFFICES ASSUME IndInv, [Next]_vars, NEW r \in Runs, run'[r].status = "NONE"
               PROVE  job'[r] = NoJobRow
    BY DEF UncreatedRunHasNoJob
  <1>1. TypeOK /\ run[r].status = "NONE"
    BY RunStep DEF IndInv
  <1>2. job[r] = NoJobRow
    BY <1>1 DEF IndInv, UncreatedRunHasNoJob
  <1>3. job[r].status = "NONE"
    BY <1>2 DEF NoJobRow
  <1>4. QED
    BY <1>1, <1>2, <1>3, JobStep DEF claimNextJob, Active

\* Workers get and lose their run together with leaving and reaching idleness.
LEMMA BusyStep == IndInv /\ [Next]_vars => BusyWorkersHaveRun'
  <1> SUFFICES ASSUME IndInv, [Next]_vars, NEW v \in Workers
               PROVE  worker'[v].pc = "idle" <=> worker'[v].run = NoRun
    BY DEF BusyWorkersHaveRun
  <1>1. TypeOK /\ worker \in [Workers -> WorkerState]
    BY DEF IndInv, TypeOK
  <1>2. ASSUME NEW r \in Runs, claimNextJob(v, r)
        PROVE  worker'[v].pc = "load" /\ worker'[v].run = r
    BY <1>1, <1>2 DEF claimNextJob, IdleWorker
  <1>3. CASE worker'[v] = IdleWorker
    BY <1>3 DEF IdleWorker
  <1>4. QED
    BY <1>1, <1>2, <1>3, HolderStep, NoRunAssumption DEF IndInv, BusyWorkersHaveRun

\* A claim issues the token it hands out; attempts never decrease, so tokens stay issued.
LEMMA TokensStep == IndInv /\ [Next]_vars => TokensIssued'
  <1> SUFFICES ASSUME IndInv, [Next]_vars, NEW v \in Workers, worker'[v].run # NoRun
               PROVE  worker'[v].token <= job'[worker'[v].run].attempts
    BY DEF TokensIssued
  <1>1. /\ TypeOK
        /\ worker \in [Workers -> WorkerState] /\ worker[v] \in WorkerState
        /\ job \in [Runs -> JobRow]
    BY DEF IndInv, TypeOK
  <1>2. CASE \E r \in Runs : claimNextJob(v, r)
    BY <1>1, <1>2, ClaimStep
  <1>3. CASE worker'[v] = IdleWorker
    BY <1>3 DEF IdleWorker
  <1>4. CASE worker'[v].run = worker[v].run /\ worker'[v].token = worker[v].token
    <2> DEFINE r == worker[v].run
    <2>1. r \in Runs /\ worker[v].token \in Nat /\ job[r].attempts \in Nat
             /\ worker[v].token <= job[r].attempts
      BY <1>1, <1>4, MaxAttemptsAssumption DEF WorkerState, JobRow, IndInv, TokensIssued
    <2>2. job'[r].attempts \in Nat /\ job'[r].attempts >= job[r].attempts
      BY <1>1, <2>1, AttemptsStep
    <2>3. QED
      BY <1>4, <2>1, <2>2
  <1>5. QED
    BY <1>1, <1>2, <1>3, <1>4, HolderStep

\* The token of a claim exceeds every token issued for the job, and nothing else gives a
\* worker a new token.
LEMMA UniqueStep == IndInv /\ [Next]_vars => AttemptTokensUnique'
  <1> SUFFICES ASSUME IndInv, [Next]_vars, NEW v \in Workers, NEW w \in Workers,
                      worker'[v].run # NoRun, worker'[v].run = worker'[w].run,
                      worker'[v].token = worker'[w].token
               PROVE  v = w
    BY DEF AttemptTokensUnique
  <1>1. TypeOK
    BY DEF IndInv
  <1>2. ASSUME NEW x \in Workers, NEW y \in Workers, x # y, NEW r \in Runs, claimNextJob(x, r),
               worker'[y].run = r
        PROVE  worker'[y].token # worker'[x].token
    <2>1. /\ worker'[x].token = job[r].attempts + 1
          /\ worker'[y] = worker[y]
          /\ job[r].attempts \in Nat
      BY <1>1, <1>2, ClaimStep
    <2>2. worker[y] \in WorkerState
      BY <1>1 DEF TypeOK
    <2>3. worker[y].token \in Nat
      BY <2>2, MaxAttemptsAssumption DEF WorkerState
    <2>4. worker[y].run = r /\ r # NoRun
      BY <1>2, <2>1, NoRunAssumption
    <2>5. worker[y].token <= job[r].attempts
      BY <2>4 DEF IndInv, TokensIssued
    <2>6. QED
      BY <2>1, <2>3, <2>5
  <1>3. ASSUME NEW x \in Workers, NEW y \in Workers, x # y, NEW r \in Runs, claimNextJob(x, r)
        PROVE  worker'[x].run = r
    BY <1>1, <1>3, ClaimStep
  <1>4. CASE \E r \in Runs : claimNextJob(v, r) \/ claimNextJob(w, r)
    BY <1>2, <1>3, <1>4
  <1>5. CASE ~ \E r \in Runs : claimNextJob(v, r) \/ claimNextJob(w, r)
    <2>1. worker'[v].run = worker[v].run /\ worker'[v].token = worker[v].token
      BY <1>1, <1>5, HolderStep DEF IdleWorker
    <2>2. worker'[w].run = worker[w].run /\ worker'[w].token = worker[w].token
      BY <1>1, <1>5, HolderStep DEF IdleWorker
    <2>3. QED
      BY <2>1, <2>2 DEF IndInv, AttemptTokensUnique
  <1>6. QED
    BY <1>4, <1>5

\* The invariant holds initially and every step keeps it.
THEOREM Inductive == Spec => []IndInv
  <1>1. IndInv /\ [Next]_vars => IndInv'
    BY TypeStep, QueuedStep, UncreatedStep, BusyStep, TokensStep, UniqueStep DEF IndInv
  <1>2. QED
    BY <1>1, InitIndInv, PTL DEF Spec

\* Type correctness of the rows and workers for every instance.
THEOREM TypeCorrect == Spec => []TypeOK
  <1>1. IndInv => TypeOK
    BY DEF IndInv
  <1>2. QED
    BY <1>1, Inductive, PTL

\* Recovery never queues a job that has no attempt left.
THEOREM QueuedJobsRunnable == Spec => []QueuedJobHasAttemptLeft
  <1>1. IndInv => QueuedJobHasAttemptLeft
    BY DEF IndInv
  <1>2. QED
    BY <1>1, Inductive, PTL

\* (job, attempt) identifies at most one worker: "attempts" is a sound fencing token.
THEOREM FencingTokensUnique == Spec => []AttemptTokensUnique
  <1>1. IndInv => AttemptTokensUnique
    BY DEF IndInv
  <1>2. QED
    BY <1>1, Inductive, PTL

-----------------------------------------------------------------------------
(* One active run per sport.                                               *)

\* A step makes a run active only while the sport's place is free, and then touches no other
\* run; the sport of a run never changes.
LEMMA ActiveStep ==
    ASSUME TypeOK, [Next]_vars, NEW r \in Runs
    PROVE  /\ run'[r].sport = run[r].sport
           /\ run'[r].status \in Active /\ run[r].status \notin Active =>
                 ~AnotherActive(r) /\ \A q \in Runs \ {r} : run'[q] = run[q]
  <1> DEFINE Goal == /\ run'[r].sport = run[r].sport
                     /\ run'[r].status \in Active /\ run[r].status \notin Active =>
                           ~AnotherActive(r) /\ \A q \in Runs \ {r} : run'[q] = run[q]
  <1>1. run \in [Runs -> RunRow] /\ run[r] \in RunRow /\ worker \in [Workers -> WorkerState]
    BY DEF TypeOK
  <1>2. CASE run' = run
    BY <1>2
  <1>3. ASSUME NEW q, NEW p, run' = [run EXCEPT ![q].processed = p] PROVE Goal
    <2>1. [run[r] EXCEPT !.processed = p].status = run[r].status
          /\ [run[r] EXCEPT !.processed = p].sport = run[r].sport
      BY <1>1 DEF RunRow
    <2>2. QED
      BY <1>1, <1>3, <2>1
  <1>4. ASSUME NEW q, NEW st \in Terminal, run' = [run EXCEPT ![q].status = st] PROVE Goal
    <2>1. [run[r] EXCEPT !.status = st].status \notin Active
          /\ [run[r] EXCEPT !.status = st].sport = run[r].sport
      BY <1>1 DEF RunRow, Terminal, Active
    <2>2. QED
      BY <1>1, <1>4, <2>1
  <1>5. ASSUME NEW q, NEW st \in Terminal, NEW closed, run' = CloseRun(q, st, closed) PROVE Goal
    <2>1. [run[r] EXCEPT !.status = st, !.processed = Processed(closed)].status \notin Active
          /\ [run[r] EXCEPT !.status = st, !.processed = Processed(closed)].sport = run[r].sport
      BY <1>1 DEF RunRow, Terminal, Active
    <2>2. QED
      BY <1>1, <1>5, <2>1 DEF CloseRun
  <1>6. ASSUME NEW q \in Runs, NEW b \in BOOLEAN, createRunWithJob(q, b) PROVE Goal
    <2>1. [run[r] EXCEPT !.status = "QUEUED", !.scheduled = b].sport = run[r].sport
      BY <1>1 DEF RunRow
    <2>2. QED
      BY <1>1, <1>6, <2>1 DEF createRunWithJob
  <1>7. ASSUME NEW w \in Workers, openRun(w) PROVE Goal
    <2> DEFINE q == worker[w].run
    <2>1. CASE run' = [run EXCEPT ![q].status = "RUNNING"]
               /\ (run[q].status \in Active \/ ~AnotherActive(q))
      <3>1. [run[r] EXCEPT !.status = "RUNNING"].sport = run[r].sport
        BY <1>1 DEF RunRow
      <3>2. QED
        BY <1>1, <2>1, <3>1
    <2>2. QED
      BY <1>2, <1>7, <2>1 DEF openRun
  <1>8. /\ [run[r] EXCEPT !.cancel = TRUE].status = run[r].status
        /\ [run[r] EXCEPT !.cancel = TRUE].sport = run[r].sport
        /\ [run[r] EXCEPT !.status = "CANCELLED", !.cancel = TRUE].status \notin Active
        /\ [run[r] EXCEPT !.status = "CANCELLED", !.cancel = TRUE].sport = run[r].sport
    BY <1>1 DEF RunRow, Active
  <1>9. ASSUME NEW w \in Workers, Execute(w) PROVE Goal
    <2>1. CASE refreshRunProgress(w)
      BY <1>3, <2>1 DEF refreshRunProgress
    <2>2. CASE finishRun(w)
      <3>1. worker[w].final \in Terminal
        BY <1>1 DEF WorkerState
      <3>2. QED
        BY <1>4, <2>2, <3>1 DEF finishRun
    <2>3. CASE failCommits(w)
      BY <1>5, <2>3, FinalStatusType DEF failCommits
    <2>4. QED
      BY <1>2, <1>7, <1>9, <2>1, <2>2, <2>3
         DEF Execute, Store, storeEvidence, loadRun, skipChampionship, checkCancellation,
             markChampionship, evidenceRefused, championshipError, failChampionship, readProgress,
             sweepCancelled, resolveRun, completeJob, completionRefused, executorError, failBegins,
             failRefused, leave
  <1>10. ASSUME NEW q \in Runs, finishExpiredJob(q) PROVE Goal
    <2> DEFINE closed == CloseOut(champ[q], IF job[q].cancel THEN "CANCELLED" ELSE "FAILED")
               status == IF job[q].cancel THEN "CANCELLED" ELSE resolveRunFinalStatus(closed)
    <2>1. status \in Terminal
      BY FinalStatusType DEF Terminal
    <2>2. run' = CloseRun(q, status, closed)
      BY <1>10 DEF finishExpiredJob
    <2> HIDE DEF closed, status
    <2>3. QED
      BY <1>5, <2>1, <2>2
  <1>11. ASSUME NEW q \in Runs, cancelWrites(q) PROVE Goal
    BY <1>1, <1>8, <1>11 DEF cancelWrites
  <1>12. CASE stopTLineSchedule
    BY <1>1, <1>8, <1>12 DEF stopTLineSchedule
  <1>13. CASE Environment
    BY <1>2, <1>6, <1>11, <1>12, <1>13
       DEF Environment, requestManualTLineRun, scheduleDueRun, LeaseRunsOut, cancelReads,
           heartbeatRenews, heartbeatLost, crash
  <1>14. QED
    BY <1>2, <1>9, <1>10, <1>13 DEF Next, Recover, requeueExpiredJob, claimNextJob, vars

\* A sport never has two active runs, for any number of runs, sports and workers and with
\* workers stalled past their leases.
THEOREM SportsHaveOneActiveRun == Spec => []OneActiveRunPerSport
  <1>1. Init => OneActiveRunPerSport
    BY DEF Init, OneActiveRunPerSport, Active
  <1>2. TypeOK /\ OneActiveRunPerSport /\ [Next]_vars => OneActiveRunPerSport'
    <2> SUFFICES ASSUME TypeOK, OneActiveRunPerSport, [Next]_vars,
                        NEW r \in Runs, NEW q \in Runs, r # q,
                        run'[r].status \in Active, run'[q].status \in Active,
                        run'[r].sport = run'[q].sport
                 PROVE  FALSE
      BY DEF OneActiveRunPerSport
    <2>1. run[r].sport = run[q].sport
      BY ActiveStep
    <2>2. CASE run[r].status \in Active /\ run[q].status \in Active
      BY <2>1, <2>2 DEF OneActiveRunPerSport
    <2>3. CASE run[r].status \notin Active
      BY <2>1, <2>3, ActiveStep DEF AnotherActive
    <2>4. CASE run[q].status \notin Active
      BY <2>1, <2>4, ActiveStep DEF AnotherActive
    <2>5. QED
      BY <2>2, <2>3, <2>4
  <1>3. QED
    BY <1>1, <1>2, TypeCorrect, PTL DEF Spec

-----------------------------------------------------------------------------
(* What no step may do to a job and its evidence.                          *)

\* Only the evidence transaction changes evidence, and only that of its worker's run.
LEMMA EvidenceStep ==
    ASSUME TypeOK, [Next]_vars, NEW r \in Runs, evidence'[r] # evidence[r]
    PROVE  \E w \in Workers :
              /\ HasLease(w) /\ worker[w].run = r
              /\ worker[w].pc = "work" /\ worker'[w].pc = "progress"
  <1>1. CASE evidence' = evidence
    BY <1>1
  <1>2. ASSUME NEW w \in Workers, Store(w)
        PROVE  /\ HasLease(w) /\ worker[w].run = r
               /\ worker[w].pc = "work" /\ worker'[w].pc = "progress"
    <2>1. PICK rows \in SUBSET Matches, outcome \in Completed : storeEvidence(w, rows, outcome)
      BY <1>2 DEF Store
    <2>2. HasLease(w) /\ worker[w].pc = "work"
      BY <2>1 DEF storeEvidence
    <2>3. worker[w].run = r
      BY <2>1 DEF storeEvidence, TypeOK
    <2>4. [worker[w] EXCEPT !.pc = "progress"].pc = "progress"
      BY DEF TypeOK, WorkerState
    <2>5. worker'[w].pc = "progress"
      BY <2>1, <2>4 DEF storeEvidence, TypeOK
    <2>6. QED
      BY <2>2, <2>3, <2>5
  <1>3. ASSUME NEW w \in Workers, Execute(w)
        PROVE  Store(w) \/ evidence' = evidence
    BY <1>3
       DEF Execute, loadRun, openRun, skipChampionship, checkCancellation, markChampionship,
           evidenceRefused, championshipError, failChampionship, readProgress, refreshRunProgress,
           sweepCancelled, resolveRun, finishRun, completeJob, completionRefused, executorError,
           failBegins, failRefused, failCommits, leave
  <1>4. CASE Environment
    BY <1>1, <1>4
       DEF Environment, requestManualTLineRun, scheduleDueRun, createRunWithJob, LeaseRunsOut,
           cancelReads, cancelWrites, heartbeatRenews, heartbeatLost, crash, stopTLineSchedule
  <1>5. QED
    BY <1>1, <1>2, <1>3, <1>4
       DEF Next, Recover, requeueExpiredJob, finishExpiredJob, claimNextJob, vars

\* Evidence is stored only under the job's current, uncancelled lease.
THEOREM EvidenceIsFenced == Spec => EvidenceByHolderOnly
  <1>1. TypeOK /\ [Next]_vars =>
          [\A r \in Runs : evidence'[r] # evidence[r] =>
              \E w \in Workers :
                  /\ worker[w].pc = "work" /\ worker'[w].pc = "progress"
                  /\ job[r].status = "RUNNING" /\ ~job[r].cancel
                  /\ job[r].owner = w /\ worker[w].run = r
                  /\ job[r].attempts = worker[w].token]_vars
    BY EvidenceStep DEF HasLease, Owns
  <1>2. QED
    BY <1>1, TypeCorrect, PTL DEF Spec, EvidenceByHolderOnly

\* No step changes a job that ended, nor its evidence.
THEOREM EndsAreFinal == Spec => EndedJobsAreFinal
  <1>1. IndInv /\ [Next]_vars =>
          [\A r \in Runs : job[r].status \in Terminal =>
              job'[r] = job[r] /\ evidence'[r] = evidence[r]]_vars
    <2> SUFFICES ASSUME IndInv, [Next]_vars, NEW r \in Runs, job[r].status \in Terminal
                 PROVE  job'[r] = job[r] /\ evidence'[r] = evidence[r]
      OBVIOUS
    <2>1. TypeOK /\ job[r].status \notin Active /\ job[r].status # "NONE"
      BY DEF IndInv, Terminal, Active
    <2>2. run[r].status # "NONE"
      BY <2>1 DEF IndInv, UncreatedRunHasNoJob, NoJobRow
    <2>3. job'[r] = job[r]
      BY <2>1, <2>2, JobStep DEF claimNextJob, Active
    <2>4. evidence'[r] = evidence[r]
      BY <2>1, EvidenceStep DEF HasLease, Owns, Active
    <2>5. QED
      BY <2>3, <2>4
  <1>2. QED
    BY <1>1, Inductive, PTL DEF Spec, EndedJobsAreFinal

\* After a cancellation was requested no attempt starts, no evidence is added and the request
\* stands.
THEOREM CancellationHolds == Spec => CancelledJobsGainNothing
  <1>1. IndInv /\ [Next]_vars =>
          [\A r \in Runs : job[r].cancel =>
              /\ job'[r].cancel
              /\ job'[r].attempts = job[r].attempts
              /\ evidence'[r] = evidence[r]]_vars
    <2> SUFFICES ASSUME IndInv, [Next]_vars, NEW r \in Runs, job[r].cancel
                 PROVE  /\ job'[r].cancel
                        /\ job'[r].attempts = job[r].attempts
                        /\ evidence'[r] = evidence[r]
      OBVIOUS
    <2>1. TypeOK
      BY DEF IndInv
    <2>2. run[r].status # "NONE"
      BY DEF IndInv, UncreatedRunHasNoJob, NoJobRow
    <2>3. job'[r].cancel /\ job'[r].attempts = job[r].attempts
      BY <2>1, <2>2, JobStep DEF claimNextJob
    <2>4. evidence'[r] = evidence[r]
      BY <2>1, EvidenceStep DEF HasLease
    <2>5. QED
      BY <2>3, <2>4
  <1>2. QED
    BY <1>1, Inductive, PTL DEF Spec, CancelledJobsGainNothing

-----------------------------------------------------------------------------
(* The jobs of TLine are leased jobs.                                      *)

Phases == [r \in Runs |-> Phase(job[r].status)]
Attempts == [r \in Runs |-> job[r].attempts]
Stopped == [r \in Runs |-> job[r].cancel]
Recorded == [r \in Runs |-> {p \in Champs \X Matches : p[2] \in evidence[r][p[1]]}]

\* A step that keeps status, attempts and mark of every job, and all evidence, is not seen.
LEMMA Unseen ==
    ASSUME evidence' = evidence,
           \A q \in Runs : /\ job'[q].status = job[q].status
                           /\ job'[q].attempts = job[q].attempts
                           /\ job'[q].cancel = job[q].cancel
    PROVE  UNCHANGED Queue!vars
  <1>1. Phases' = Phases /\ Attempts' = Attempts /\ Stopped' = Stopped /\ Recorded' = Recorded
    BY DEF Phases, Attempts, Stopped, Recorded
  <1>2. QED
    BY <1>1 DEF Queue!vars, Phases, Attempts, Stopped, Recorded

\* The creation of a run submits its job.
LEMMA CreationSubmits ==
    ASSUME TypeOK, UncreatedRunHasNoJob, NEW r \in Runs, NEW b \in BOOLEAN, createRunWithJob(r, b)
    PROVE  Queue!Submit(r)
  <1>1. job \in [Runs -> JobRow] /\ job[r] = NoJobRow /\ job[r].status = "NONE"
    BY DEF TypeOK, UncreatedRunHasNoJob, createRunWithJob, NoJobRow
  <1>2. job' = [job EXCEPT ![r] = [job[r] EXCEPT !.status = "QUEUED"]] /\ evidence' = evidence
    BY DEF createRunWithJob
  <1>3. LET row == [job[r] EXCEPT !.status = "QUEUED"]
        IN  row.status = "QUEUED" /\ row.attempts = job[r].attempts /\ row.cancel = job[r].cancel
    BY <1>1 DEF JobRow
  <1>4. Phases' = [Phases EXCEPT ![r] = "waiting"]
    BY <1>1, <1>2, <1>3 DEF Phases, Phase
  <1>5. Attempts' = Attempts /\ Stopped' = Stopped /\ Recorded' = Recorded
    BY <1>1, <1>2, <1>3 DEF Attempts, Stopped, Recorded
  <1>6. Phases[r] = "absent"
    BY <1>1 DEF Phases, Phase
  <1>7. QED
    BY <1>4, <1>5, <1>6 DEF Queue!Submit, Phases, Attempts, Stopped, Recorded

\* A claim grants the job: it was queued, unmarked and had an attempt left.
LEMMA ClaimGrants ==
    ASSUME TypeOK, QueuedJobHasAttemptLeft, NEW w \in Workers, NEW r \in Runs, claimNextJob(w, r)
    PROVE  Queue!Grant(r)
  <1>1. /\ job \in [Runs -> JobRow]
        /\ job[r].status = "QUEUED" /\ ~job[r].cancel /\ job[r].attempts < MaxAttempts
    BY DEF TypeOK, claimNextJob, QueuedJobHasAttemptLeft
  <1> DEFINE row == [job[r] EXCEPT !.status = "RUNNING", !.owner = w, !.live = TRUE,
                                   !.attempts = NextAttempt(r)]
  <1>2. job' = [job EXCEPT ![r] = row] /\ evidence' = evidence
    BY DEF claimNextJob
  <1>3. row.status = "RUNNING" /\ row.attempts = job[r].attempts + 1 /\ row.cancel = job[r].cancel
    BY <1>1 DEF JobRow, NextAttempt
  <1> HIDE DEF row
  <1>4. Phases' = [Phases EXCEPT ![r] = "held"] /\ Phases[r] = "waiting"
    BY <1>1, <1>2, <1>3 DEF Phases, Phase
  <1>5. Attempts' = [Attempts EXCEPT ![r] = @ + 1]
    BY <1>1, <1>2, <1>3 DEF Attempts
  <1>6. Stopped' = Stopped /\ Recorded' = Recorded
    BY <1>1, <1>2, <1>3 DEF Stopped, Recorded
  <1>7. QED
    BY <1>1, <1>4, <1>5, <1>6 DEF Queue!Grant, Phases, Attempts, Stopped, Recorded

\* Whatever ends a running job, by its holder or by recovery, ends the leased job.
LEMMA EndingEnds ==
    ASSUME TypeOK, NEW r \in Runs, NEW row, job' = [job EXCEPT ![r] = row], evidence' = evidence,
           job[r].status = "RUNNING", row.status \in Terminal,
           row.attempts = job[r].attempts, row.cancel = job[r].cancel
    PROVE  Queue!End(r)
  <1>1. job \in [Runs -> JobRow]
    BY DEF TypeOK
  <1>2. Phases' = [Phases EXCEPT ![r] = "over"] /\ Phases[r] = "held"
    BY <1>1 DEF Phases, Phase, Terminal
  <1>3. Attempts' = Attempts /\ Stopped' = Stopped /\ Recorded' = Recorded
    BY <1>1 DEF Attempts, Stopped, Recorded
  <1>4. QED
    BY <1>2, <1>3 DEF Queue!End, Phases, Attempts, Stopped, Recorded

\* Recovery gives an expired job back only unmarked and with an attempt left.
LEMMA RecoveryRequeues ==
    ASSUME TypeOK, NEW r \in Runs, requeueExpiredJob(r)
    PROVE  Queue!Requeue(r)
  <1>1. /\ job \in [Runs -> JobRow] /\ job[r].status = "RUNNING"
        /\ ~job[r].cancel /\ job[r].attempts < MaxAttempts
    BY DEF TypeOK, requeueExpiredJob, Expired, AttemptsLeft
  <1> DEFINE row == [job[r] EXCEPT !.status = "QUEUED", !.owner = Nobody]
  <1>2. job' = [job EXCEPT ![r] = row] /\ evidence' = evidence
    BY DEF requeueExpiredJob
  <1>3. row.status = "QUEUED" /\ row.attempts = job[r].attempts /\ row.cancel = job[r].cancel
    BY <1>1 DEF JobRow
  <1> HIDE DEF row
  <1>4. Phases' = [Phases EXCEPT ![r] = "waiting"] /\ Phases[r] = "held"
    BY <1>1, <1>2, <1>3 DEF Phases, Phase
  <1>5. Attempts' = Attempts /\ Stopped' = Stopped /\ Recorded' = Recorded
    BY <1>1, <1>2, <1>3 DEF Attempts, Stopped, Recorded
  <1>6. QED
    BY <1>1, <1>4, <1>5 DEF Queue!Requeue, Phases, Attempts, Stopped, Recorded

\* Recovery closes an expired job that cannot be given back.
LEMMA RecoveryEnds ==
    ASSUME TypeOK, UncreatedRunHasNoJob, NEW r \in Runs, finishExpiredJob(r)
    PROVE  Queue!End(r)
  <1> DEFINE closed == CloseOut(champ[r], IF job[r].cancel THEN "CANCELLED" ELSE "FAILED")
             status == IF job[r].cancel THEN "CANCELLED" ELSE resolveRunFinalStatus(closed)
             row == [job[r] EXCEPT !.status = Settle(r, status), !.owner = Nobody]
  <1>1. job[r] \in JobRow /\ run[r] \in RunRow /\ job[r].status = "RUNNING"
    BY DEF TypeOK, finishExpiredJob, Expired
  <1>2. status \in Terminal
    BY FinalStatusType DEF Terminal
  <1>3. Settle(r, status) \in Terminal
    BY <1>1, <1>2 DEF Settle, RunRow, Status, UncreatedRunHasNoJob, NoJobRow
  <1>4. job' = [job EXCEPT ![r] = row] /\ evidence' = evidence
    BY DEF finishExpiredJob
  <1>5. row.status \in Terminal /\ row.attempts = job[r].attempts /\ row.cancel = job[r].cancel
    BY <1>1, <1>3 DEF JobRow
  <1> HIDE DEF row
  <1>6. QED
    BY <1>1, <1>4, <1>5, EndingEnds

\* The holder's own ends: completion and failure.
LEMMA HolderEnds ==
    ASSUME TypeOK, UncreatedRunHasNoJob, NEW w \in Workers, completeJob(w) \/ failCommits(w)
    PROVE  (\E r \in Runs : Queue!End(r)) \/ UNCHANGED Queue!vars
  <1> DEFINE r == worker[w].run
  <1>1. CASE completeJob(w)
    <2> DEFINE row == [job[r] EXCEPT !.status = worker[w].final, !.owner = Nobody, !.live = FALSE]
    <2>1. r \in Runs /\ job[r] \in JobRow /\ job[r].status = "RUNNING" /\ worker[w].final \in Terminal
      BY <1>1 DEF TypeOK, WorkerState, completeJob, Owns
    <2>2. job' = [job EXCEPT ![r] = row] /\ evidence' = evidence
      BY <1>1 DEF completeJob
    <2>3. row.status \in Terminal /\ row.attempts = job[r].attempts /\ row.cancel = job[r].cancel
      BY <2>1 DEF JobRow
    <2> HIDE DEF row, r
    <2>4. QED
      BY <2>1, <2>2, <2>3, EndingEnds
  <1>2. CASE failCommits(w) /\ HasLease(w)
    <2> DEFINE status == resolveFailedRunStatus(CloseOut(champ[r], "FAILED"))
               row == [job[r] EXCEPT !.status = Settle(r, status), !.owner = Nobody, !.live = FALSE]
    <2>1. r \in Runs /\ job[r] \in JobRow /\ run[r] \in RunRow /\ job[r].status = "RUNNING"
      BY <1>2 DEF TypeOK, WorkerState, HasLease, Owns
    <2>2. Settle(r, status) \in Terminal
      BY <2>1, FinalStatusType DEF Settle, RunRow, Status, UncreatedRunHasNoJob, NoJobRow
    <2>3. job' = [job EXCEPT ![r] = row] /\ evidence' = evidence
      BY <1>2 DEF failCommits
    <2>4. row.status \in Terminal /\ row.attempts = job[r].attempts /\ row.cancel = job[r].cancel
      BY <2>1, <2>2 DEF JobRow
    <2> HIDE DEF row, r
    <2>5. QED
      BY <2>1, <2>3, <2>4, EndingEnds
  <1>3. CASE failCommits(w) /\ ~HasLease(w)
    BY <1>3, Unseen DEF failCommits
  <1>4. QED
    BY <1>1, <1>2, <1>3

\* Evidence is recorded for a job that is held and unmarked.
LEMMA StoringRecords ==
    ASSUME TypeOK, NEW w \in Workers, Store(w)
    PROVE  \E r \in Runs, S \in SUBSET (Champs \X Matches) : Queue!Record(r, S)
  <1>1. PICK rows \in SUBSET Matches, outcome \in Completed : storeEvidence(w, rows, outcome)
    BY DEF Store
  <1> DEFINE r == worker[w].run
             c == worker[w].cur
             row == [job[r] EXCEPT !.live = TRUE]
             S == {p \in Champs \X Matches : p[1] = c /\ p[2] \in rows}
  <1>2. /\ r \in Runs /\ job \in [Runs -> JobRow] /\ job[r].status = "RUNNING" /\ ~job[r].cancel
        /\ evidence \in [Runs -> [Champs -> SUBSET Matches]]
    BY <1>1 DEF TypeOK, WorkerState, storeEvidence, HasLease, Owns
  <1>3. /\ evidence' = [evidence EXCEPT ![r] = [evidence[r] EXCEPT ![c] = evidence[r][c] \cup rows]]
        /\ job' = [job EXCEPT ![r] = row]
    BY <1>1 DEF storeEvidence
  <1>4. row.status = job[r].status /\ row.attempts = job[r].attempts /\ row.cancel = job[r].cancel
    BY <1>2 DEF JobRow
  <1>5. Phases' = Phases /\ Attempts' = Attempts /\ Stopped' = Stopped
    BY <1>2, <1>3, <1>4 DEF Phases, Attempts, Stopped
  <1>6. Phases[r] = "held"
    BY <1>2 DEF Phases, Phase
  <1>7. \A q \in Runs : {p \in Champs \X Matches : p[2] \in evidence'[q][p[1]]}
                         = IF q = r THEN {p \in Champs \X Matches : p[2] \in evidence[r][p[1]]} \cup S
                           ELSE {p \in Champs \X Matches : p[2] \in evidence[q][p[1]]}
    BY <1>2, <1>3
  <1>8. Recorded' = [Recorded EXCEPT ![r] = @ \cup S]
    BY <1>2, <1>7 DEF Recorded
  <1> HIDE DEF r, S
  <1>9. PICK q \in Runs, T \in SUBSET (Champs \X Matches) : q = r /\ T = S
    BY <1>2 DEF S
  <1>10. Queue!Record(q, T)
    BY <1>2, <1>5, <1>6, <1>8, <1>9 DEF Queue!Record, Phases, Attempts, Stopped, Recorded
  <1>11. QED
    BY <1>10

\* A cancellation marks an open job and ends it at once when it still waits; of a job that
\* ended it changes nothing.
LEMMA CancellationStops ==
    ASSUME TypeOK, UncreatedRunHasNoJob, NEW r \in Runs, cancelWrites(r)
    PROVE  \/ \E S \in SUBSET Runs, W \in SUBSET Runs : Queue!RequestStop(S, W)
           \/ UNCHANGED Queue!vars
  <1>1. job \in [Runs -> JobRow] /\ job[r] \in JobRow /\ evidence' = evidence
    BY DEF TypeOK, cancelWrites
  <1>2. CASE job[r].status = "QUEUED"
    <2> DEFINE row == [job[r] EXCEPT !.status = "CANCELLED", !.cancel = TRUE]
    <2>1. job' = [job EXCEPT ![r] = row]
      BY <1>2 DEF cancelWrites, buildCancelJobQuery
    <2>2. row.status = "CANCELLED" /\ row.attempts = job[r].attempts /\ row.cancel = TRUE
      BY <1>1 DEF JobRow
    <2> HIDE DEF row
    <2>3. Phases' = [q \in Runs |-> IF q \in {r} THEN "over" ELSE Phases[q]] /\ Phases[r] = "waiting"
      BY <1>1, <1>2, <2>1, <2>2 DEF Phases, Phase
    <2>4. Stopped' = [q \in Runs |-> Stopped[q] \/ q \in {r}]
      BY <1>1, <2>1, <2>2 DEF Stopped, JobRow
    <2>5. Attempts' = Attempts /\ Recorded' = Recorded
      BY <1>1, <2>1, <2>2 DEF Attempts, Recorded
    <2>6. Queue!RequestStop({r}, {r})
      BY <2>3, <2>4, <2>5 DEF Queue!RequestStop, Queue!Open, Phases, Attempts, Stopped, Recorded
    <2>7. QED
      BY <2>6
  <1>3. CASE job[r].status = "RUNNING"
    <2> DEFINE row == [job[r] EXCEPT !.cancel = TRUE]
    <2>1. job' = [job EXCEPT ![r] = row]
      BY <1>3 DEF cancelWrites, buildCancelJobQuery
    <2>2. row.status = job[r].status /\ row.attempts = job[r].attempts /\ row.cancel = TRUE
      BY <1>1 DEF JobRow
    <2> HIDE DEF row
    <2>3. Phases' = Phases /\ Phases[r] = "held"
      BY <1>1, <1>3, <2>1, <2>2 DEF Phases, Phase
    <2>4. Stopped' = [q \in Runs |-> Stopped[q] \/ q \in {r}]
      BY <1>1, <2>1, <2>2 DEF Stopped, JobRow
    <2>5. Attempts' = Attempts /\ Recorded' = Recorded
      BY <1>1, <2>1, <2>2 DEF Attempts, Recorded
    <2>6. Queue!RequestStop({r}, {})
      BY <2>3, <2>4, <2>5 DEF Queue!RequestStop, Queue!Open, Phases, Attempts, Stopped, Recorded
    <2>7. QED
      BY <2>6
  <1>4. CASE job[r].status \notin {"QUEUED", "RUNNING"}
    <2>1. job'[r] = job[r] /\ \A q \in Runs : job'[q] = job[q]
      BY <1>1, <1>4 DEF cancelWrites, buildCancelJobQuery
    <2>2. QED
      BY <1>1, <2>1, Unseen
  <1>5. QED
    BY <1>2, <1>3, <1>4

\* Stopping the schedule marks open jobs and ends none.
LEMMA StopStops ==
    ASSUME TypeOK, stopTLineSchedule
    PROVE  \E S \in SUBSET Runs, W \in SUBSET Runs : Queue!RequestStop(S, W)
  <1> DEFINE marked == {r \in Runs : Stoppable(r) /\ job[r].status \in Active}
  <1>1. /\ job \in [Runs -> JobRow] /\ evidence' = evidence
        /\ job' = [r \in Runs |-> IF Stoppable(r) /\ job[r].status \in Active
                                  THEN [job[r] EXCEPT !.cancel = TRUE] ELSE job[r]]
    BY DEF TypeOK, stopTLineSchedule
  <1>2. PICK S \in SUBSET Runs : S = marked
    OBVIOUS
  <1>3. \A q \in Runs : /\ job'[q].status = job[q].status
                        /\ job'[q].attempts = job[q].attempts
                        /\ job'[q].cancel = (job[q].cancel \/ q \in S)
    <2>1. \A q \in Runs : /\ [job[q] EXCEPT !.cancel = TRUE].status = job[q].status
                          /\ [job[q] EXCEPT !.cancel = TRUE].attempts = job[q].attempts
                          /\ [job[q] EXCEPT !.cancel = TRUE].cancel = TRUE
                          /\ job[q].cancel \in BOOLEAN
      BY <1>1 DEF JobRow
    <2>2. \A q \in Runs : job'[q] = IF q \in S THEN [job[q] EXCEPT !.cancel = TRUE] ELSE job[q]
      BY <1>1, <1>2
    <2>3. QED
      BY <2>1, <2>2
  <1>4. \A q \in S : Phases[q] \in {"waiting", "held"}
    BY <1>2 DEF Phases, Phase, Active
  <1>5. Phases' = Phases /\ Attempts' = Attempts /\ Recorded' = Recorded
    BY <1>1, <1>3 DEF Phases, Attempts, Recorded
  <1>6. Stopped' = [q \in Runs |-> Stopped[q] \/ q \in S]
    BY <1>3 DEF Stopped
  <1> HIDE DEF marked
  <1>7. Queue!RequestStop(S, {})
    BY <1>4, <1>5, <1>6 DEF Queue!RequestStop, Queue!Open, Phases, Attempts, Stopped, Recorded
  <1>8. QED
    BY <1>7

\* Every step of the code is a step of the leased jobs, or one they do not see.
LEMMA QueueRefines == IndInv /\ [Next]_vars => [Queue!Next]_Queue!vars
  <1> SUFFICES ASSUME IndInv, [Next]_vars PROVE Queue!Next \/ UNCHANGED Queue!vars
    OBVIOUS
  <1>1. TypeOK /\ QueuedJobHasAttemptLeft /\ UncreatedRunHasNoJob
    BY DEF IndInv
  <1>2. CASE job' = job /\ evidence' = evidence
    BY <1>2, Unseen
  <1>3. ASSUME NEW r \in Runs, LeaseRunsOut(r) PROVE UNCHANGED Queue!vars
    <2>1. \A q \in Runs : /\ job'[q].status = job[q].status /\ job'[q].attempts = job[q].attempts
                          /\ job'[q].cancel = job[q].cancel
      BY <1>1, <1>3 DEF LeaseRunsOut, TypeOK, JobRow
    <2>2. QED
      BY <1>3, <2>1, Unseen DEF LeaseRunsOut
  <1>4. ASSUME NEW w \in Workers, heartbeatRenews(w) PROVE UNCHANGED Queue!vars
    <2>1. \A q \in Runs : /\ job'[q].status = job[q].status /\ job'[q].attempts = job[q].attempts
                          /\ job'[q].cancel = job[q].cancel
      BY <1>1, <1>4 DEF heartbeatRenews, TypeOK, JobRow
    <2>2. QED
      BY <1>4, <2>1, Unseen DEF heartbeatRenews
  <1>5. ASSUME NEW w \in Workers, Execute(w) PROVE Queue!Next \/ UNCHANGED Queue!vars
    <2>1. CASE Store(w)
      BY <1>1, <2>1, StoringRecords DEF Queue!Next
    <2>2. CASE completeJob(w) \/ failCommits(w)
      BY <1>1, <2>2, HolderEnds DEF Queue!Next
    <2>3. QED
      BY <1>2, <1>5, <2>1, <2>2
         DEF Execute, loadRun, openRun, skipChampionship, checkCancellation, markChampionship,
             evidenceRefused, championshipError, failChampionship, readProgress, refreshRunProgress,
             sweepCancelled, resolveRun, finishRun, completionRefused, executorError, failBegins, failRefused, leave
  <1>6. ASSUME NEW w \in Workers, NEW r \in Runs, claimNextJob(w, r) PROVE Queue!Next
    BY <1>1, <1>6, ClaimGrants DEF Queue!Next
  <1>7. ASSUME NEW r \in Runs, Recover(r) PROVE Queue!Next
    BY <1>1, <1>7, RecoveryRequeues, RecoveryEnds DEF Recover, Queue!Next
  <1>8. CASE Environment
    <2>1. ASSUME NEW r \in Runs, requestManualTLineRun(r) \/ scheduleDueRun(r) PROVE Queue!Next
      BY <1>1, <2>1, CreationSubmits DEF requestManualTLineRun, scheduleDueRun, Queue!Next
    <2>2. ASSUME NEW r \in Runs, cancelWrites(r) PROVE Queue!Next \/ UNCHANGED Queue!vars
      BY <1>1, <2>2, CancellationStops DEF Queue!Next
    <2>3. CASE stopTLineSchedule
      BY <1>1, <2>3, StopStops DEF Queue!Next
    <2>4. QED
      BY <1>2, <1>3, <1>4, <1>8, <2>1, <2>2, <2>3 DEF Environment, cancelReads, heartbeatLost, crash
  <1>9. QED
    BY <1>2, <1>5, <1>6, <1>7, <1>8 DEF Next, vars

\* The queue of TLine, with leases that expire at any moment, crashes, retries and
\* cancellations, implements the abstract queue of leased jobs.
THEOREM JobsAreLeased == Spec => ImplementsLeasedJobs
  <1>1. Init => Queue!Init
    BY DEF Init, Queue!Init, NoJobRow, Phase
  <1>2. QED
    BY <1>1, QueueRefines, Inductive, PTL DEF Spec, Queue!Spec, ImplementsLeasedJobs
=============================================================================
