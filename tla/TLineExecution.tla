---------------------------- MODULE TLineExecution ----------------------------
(***************************************************************************)
(* TLine checks: the PostgreSQL job queue with leases, the worker processes *)
(* that execute a run championship by championship, the recovery of expired *)
(* leases, the operator's cancel route and the schedule's stop.             *)
(*                                                                         *)
(* One step is one database statement or one committed transaction, with    *)
(* the calls to external sources that precede it, so every interleaving of  *)
(* workers, recovery and operator requests between two awaits is explored.  *)
(*                                                                         *)
(* Time is abstracted to job[r].live, "leaseExpiresAt is later than now":    *)
(* LeaseRunsOut may falsify it at any moment.  A fenced statement compares  *)
(* the lease with a now that its worker read before sending it, so on an    *)
(* expired lease that nobody recovered yet it may still succeed: success    *)
(* needs ownership, refusal needs ownership or liveness to be missing.      *)
(***************************************************************************)
EXTENDS TLineStatuses, Naturals, FiniteSets

CONSTANTS
    Runs,         \* identities of runs; a run and its job are created together
    Sports,       \* sport configurations
    Champs,       \* active championships of a sport
    Matches,      \* keys of the match snapshots a championship can store
    Workers,      \* tline-worker processes
    MaxAttempts,  \* TLineJob.maxAttempts
    Overrun,      \* may a lease expire while its holder is still executing?
    Nobody, NoRun, NoChamp

ASSUME MaxAttemptsAssumption == MaxAttempts \in Nat \ {0}
ASSUME OverrunAssumption == Overrun \in BOOLEAN
ASSUME NobodyAssumption == Nobody \notin Workers
ASSUME NoRunAssumption == NoRun \notin Runs
ASSUME NoChampAssumption == NoChamp \notin Champs

VARIABLES
    run,       \* TLineRun rows
    job,       \* TLineJob rows, one per run
    champ,     \* TLineRunChampionship.status
    evidence,  \* keys of the stored match snapshots per championship of a run
    worker,    \* what each worker process is doing
    route      \* the run status a cancel request has read, while it is in flight

vars == <<run, job, champ, evidence, worker, route>>

Steps == {"idle", "load", "open", "next", "mark", "work", "failChamp",
          "progress", "count", "sweep", "resolve", "finish", "complete", "fail", "failing"}

\* The heartbeat interval runs from the claim until stopHeartbeat.
Beating == Steps \ {"idle", "complete", "fail", "failing"}

\* Steps preceded by a test of the lease guard, where an aborted worker gives up.
Guarded == {"load", "open", "next", "work", "failChamp", "sweep", "finish", "complete", "fail"}

RunRow == [status: Status \cup {"NONE"}, cancel: BOOLEAN, scheduled: BOOLEAN,
           sport: Sports, processed: SUBSET Champs]
JobRow == [status: Status \cup {"NONE"}, attempts: 0..MaxAttempts,
           owner: Workers \cup {Nobody}, live: BOOLEAN, cancel: BOOLEAN]
WorkerState == [pc: Steps, run: Runs \cup {NoRun}, token: 0..MaxAttempts,
                todo: SUBSET Champs, skip: SUBSET Champs, cur: Champs \cup {NoChamp},
                seen: SUBSET Champs, aborted: BOOLEAN, cancelled: BOOLEAN, final: Terminal]

NoJobRow == [status |-> "NONE", attempts |-> 0, owner |-> Nobody, live |-> FALSE, cancel |-> FALSE]
IdleWorker == [pc |-> "idle", run |-> NoRun, token |-> 0, todo |-> {}, skip |-> {},
               cur |-> NoChamp, seen |-> {}, aborted |-> FALSE, cancelled |-> FALSE,
               final |-> "SUCCEEDED"]

Init ==
    /\ run \in [Runs -> {[status |-> "NONE", cancel |-> FALSE, scheduled |-> FALSE,
                          sport |-> s, processed |-> {}] : s \in Sports}]
    /\ job = [r \in Runs |-> NoJobRow]
    /\ champ = [r \in Runs |-> [c \in Champs |-> "QUEUED"]]
    /\ evidence = [r \in Runs |-> [c \in Champs |-> {}]]
    /\ worker = [w \in Workers |-> IdleWorker]
    /\ route = [r \in Runs |-> "none"]

-----------------------------------------------------------------------------
(* Creating work: the manual request and the schedule tick.                *)

\* Mutant: the index forgets running runs.
AnotherQueued(r) ==
    \E q \in Runs \ {r} : run[q].sport = run[r].sport /\ run[q].status = "QUEUED"

\* The partial unique index TLineRun_one_active_per_sport would reject an active row for r.
AnotherActive(r) ==
    \E q \in Runs \ {r} : run[q].sport = run[r].sport /\ run[q].status \in Active

\* A request that finds an active run, or loses the race on the index, changes nothing.
createRunWithJob(r, scheduled) ==
    /\ run[r].status = "NONE"
    /\ ~AnotherActive(r)
    /\ run' = [run EXCEPT ![r] = [@ EXCEPT !.status = "QUEUED", !.scheduled = scheduled]]
    /\ job' = [job EXCEPT ![r].status = "QUEUED"]
    /\ UNCHANGED <<champ, evidence, worker, route>>

requestManualTLineRun(r) == createRunWithJob(r, FALSE)

scheduleDueRun(r) == createRunWithJob(r, TRUE)

-----------------------------------------------------------------------------
(* Leases.                                                                 *)

\* Mutant: only the job's status is compared, neither owner nor attempt.
OwnsAnybody(w) == worker[w].run # NoRun /\ job[worker[w].run].status = "RUNNING"

\* The row conditions of heartbeat, complete and fail that do not read the clock.
Owns(w) ==
    LET r == worker[w].run
    IN  /\ r # NoRun
        /\ job[r].status = "RUNNING"
        /\ job[r].owner = w
        /\ job[r].attempts = worker[w].token

\* Mutant: cancelRequestedAt is not compared.
HasLeaseCancelledToo(w) == Owns(w)

HasLease(w) == Owns(w) /\ ~job[worker[w].run].cancel

HasLiveLease(w) == HasLease(w) /\ job[worker[w].run].live

\* After an await the executor tests its signal: aborted workers leave, others go on.
GoOn(w, step) == IF worker[w].aborted THEN IdleWorker ELSE [worker[w] EXCEPT !.pc = step]

\* An error leaves the executor, and with it everything but the job and its attempt.
Thrown(w) ==
    IF worker[w].aborted THEN IdleWorker
    ELSE [IdleWorker EXCEPT !.pc = "fail", !.run = worker[w].run, !.token = worker[w].token]

\* Mutant: a claim does not count the attempt.
SameAttempt(r) == job[r].attempts

NextAttempt(r) == job[r].attempts + 1

claimNextJob(w, r) ==
    /\ worker[w].pc = "idle"
    /\ job[r].status = "QUEUED"
    /\ ~job[r].cancel
    /\ job' = [job EXCEPT ![r] = [@ EXCEPT !.status = "RUNNING", !.owner = w, !.live = TRUE,
                                           !.attempts = NextAttempt(r)]]
    /\ worker' = [worker EXCEPT ![w] = [IdleWorker EXCEPT !.pc = "load", !.run = r,
                                                          !.token = NextAttempt(r)]]
    /\ UNCHANGED <<run, champ, evidence, route>>

\* A heartbeat whose now precedes the expiry prolongs a lease nobody recovered yet.
heartbeatRenews(w) ==
    /\ worker[w].pc \in Beating
    /\ ~worker[w].aborted
    /\ HasLease(w)
    /\ ~job[worker[w].run].live
    /\ job' = [job EXCEPT ![worker[w].run].live = TRUE]
    /\ UNCHANGED <<run, champ, evidence, worker, route>>

\* The heartbeat was refused, or its statement failed: the guard is lost either way.
heartbeatLost(w) ==
    /\ worker[w].pc \in Beating
    /\ ~worker[w].aborted
    /\ worker' = [worker EXCEPT ![w].aborted = TRUE]
    /\ UNCHANGED <<run, job, champ, evidence, route>>

\* Sixty seconds without a heartbeat.  A holder that executes is beaten to it only if it stalls.
Executing(r) == \E w \in Workers : worker[w].run = r /\ worker[w].token = job[r].attempts

LeaseRunsOut(r) ==
    /\ job[r].status = "RUNNING"
    /\ job[r].live
    /\ Overrun \/ ~Executing(r)
    /\ job' = [job EXCEPT ![r].live = FALSE]
    /\ UNCHANGED <<run, champ, evidence, worker, route>>

Expired(r) == job[r].status = "RUNNING" /\ ~job[r].live

\* Recovery runs in the main loop, so only between the jobs of some worker.
SomeoneIdle == \E w \in Workers : worker[w].pc = "idle"

AttemptsLeft(r) == job[r].attempts < MaxAttempts

Unretryable(r) == job[r].cancel \/ job[r].attempts >= MaxAttempts

requeueExpiredJob(r) ==
    /\ SomeoneIdle
    /\ Expired(r)
    /\ ~job[r].cancel
    /\ AttemptsLeft(r)
    /\ job' = [job EXCEPT ![r] = [@ EXCEPT !.status = "QUEUED", !.owner = Nobody]]
    /\ UNCHANGED <<run, champ, evidence, worker, route>>

\* Mutant: a run that no worker opened yet is forgotten.
CloseRunningRun(r, st, closed) ==
    IF run[r].status = "RUNNING"
    THEN [run EXCEPT ![r] = [@ EXCEPT !.status = st, !.processed = Processed(closed)]] ELSE run

\* An active run is closed with its counters, a finished one is left alone.
CloseRun(r, st, closed) ==
    IF run[r].status \in Active
    THEN [run EXCEPT ![r] = [@ EXCEPT !.status = st, !.processed = Processed(closed)]] ELSE run

\* The run status a terminal transaction leaves: an active run takes st, a finished one keeps its own.
Settle(r, st) == IF run[r].status \in Active THEN st ELSE run[r].status

finishExpiredJob(r) ==
    /\ SomeoneIdle
    /\ Expired(r)
    /\ Unretryable(r)
    /\ LET closed == CloseOut(champ[r], IF job[r].cancel THEN "CANCELLED" ELSE "FAILED")
           status == IF job[r].cancel THEN "CANCELLED" ELSE resolveRunFinalStatus(closed)
       IN  /\ champ' = [champ EXCEPT ![r] = closed]
           /\ run' = CloseRun(r, status, closed)
           /\ job' = [job EXCEPT ![r] = [@ EXCEPT !.status = Settle(r, status), !.owner = Nobody]]
    /\ UNCHANGED <<evidence, worker, route>>

-----------------------------------------------------------------------------
(* executeTLineRun, statement by statement.                                *)

\* Mutant: partial results are executed again.
SucceededAlready(r) == {c \in Champs : champ[r][c] = "SUCCEEDED"}

DoneAlready(r) == {c \in Champs : champ[r][c] \in Completed}

\* The run and its championships are read once; completed ones will be skipped.
loadRun(w) ==
    /\ worker[w].pc = "load"
    /\ worker' = [worker EXCEPT ![w] =
           IF worker[w].aborted THEN IdleWorker
           ELSE [@ EXCEPT !.pc = "open", !.todo = Champs, !.skip = DoneAlready(worker[w].run)]]
    /\ UNCHANGED <<run, job, champ, evidence, route>>

AfterLoop(w) == IF worker[w].todo = {} THEN "resolve" ELSE "next"

\* The run becomes RUNNING whatever it was: the write carries no lease condition.
openRun(w) ==
    /\ worker[w].pc = "open"
    /\ LET r == worker[w].run
       IN  IF run[r].status \notin Active /\ AnotherActive(r)
           THEN /\ worker' = [worker EXCEPT ![w] = Thrown(w)]
                /\ UNCHANGED run
           ELSE /\ run' = [run EXCEPT ![r].status = "RUNNING"]
                /\ worker' = [worker EXCEPT ![w] = GoOn(w, AfterLoop(w))]
    /\ UNCHANGED <<job, champ, evidence, route>>

\* A completed championship only refreshes the progress, which is a read and a write.
skipChampionship(w, c) ==
    /\ worker[w].pc = "next"
    /\ c \in worker[w].todo \cap worker[w].skip
    /\ worker' = [worker EXCEPT ![w] = [@ EXCEPT !.pc = "count", !.cur = c,
                                                !.seen = Processed(champ[worker[w].run])]]
    /\ UNCHANGED <<run, job, champ, evidence, route>>

\* Cancellation is looked at before each championship that will be executed.
checkCancellation(w, c) ==
    /\ worker[w].pc = "next"
    /\ c \in worker[w].todo \ worker[w].skip
    /\ worker' = [worker EXCEPT ![w] =
           IF run[worker[w].run].cancel
           THEN IF worker[w].aborted THEN IdleWorker
                ELSE [worker[w] EXCEPT !.pc = "sweep", !.cancelled = TRUE]
           ELSE [worker[w] EXCEPT !.pc = "mark", !.cur = c]]
    /\ UNCHANGED <<run, job, champ, evidence, route>>

markChampionship(w) ==
    /\ worker[w].pc = "mark"
    /\ champ' = [champ EXCEPT ![worker[w].run][worker[w].cur] = "RUNNING"]
    /\ worker' = [worker EXCEPT ![w].pc = "work"]
    /\ UNCHANGED <<run, job, evidence, route>>

\* Both sides were fetched and compared: snapshots, comparisons and the status commit
\* together, after a heartbeat inside the transaction that locks the job row.  PARTIAL is
\* the outcome without a complete Admin context or with an unpublished stage.
storeEvidence(w, rows, outcome) ==
    /\ worker[w].pc = "work"
    /\ ~worker[w].aborted
    /\ HasLease(w)
    /\ LET r == worker[w].run
           c == worker[w].cur
       IN  /\ rows \cap evidence[r][c] = {}   \* unique (runChampionshipId, key, occurrence)
           /\ evidence' = [evidence EXCEPT ![r][c] = @ \cup rows]
           /\ champ' = [champ EXCEPT ![r][c] = outcome]
           /\ job' = [job EXCEPT ![r].live = TRUE]
    /\ worker' = [worker EXCEPT ![w].pc = "progress"]
    /\ UNCHANGED <<run, route>>

\* verifyLease found the lease lost: the transaction rolls back and the worker leaves.
evidenceRefused(w) ==
    /\ worker[w].pc = "work"
    /\ ~HasLiveLease(w)
    /\ worker' = [worker EXCEPT ![w] = IdleWorker]
    /\ UNCHANGED <<run, job, champ, evidence, route>>

\* A source failure, a database error or a duplicate snapshot key ends the championship.
championshipError(w) ==
    /\ worker[w].pc \in {"mark", "work"}
    /\ worker' = [worker EXCEPT ![w] = GoOn(w, "failChamp")]
    /\ UNCHANGED <<run, job, champ, evidence, route>>

failChampionship(w) ==
    /\ worker[w].pc = "failChamp"
    /\ champ' = [champ EXCEPT ![worker[w].run][worker[w].cur] = "FAILED"]
    /\ worker' = [worker EXCEPT ![w].pc = "progress"]
    /\ UNCHANGED <<run, job, evidence, route>>

readProgress(w) ==
    /\ worker[w].pc = "progress"
    /\ worker' = [worker EXCEPT ![w] = [@ EXCEPT !.pc = "count",
                                                !.seen = Processed(champ[worker[w].run])]]
    /\ UNCHANGED <<run, job, champ, evidence, route>>

\* The counters as they were read; cur tells the loop's refreshes from the last one.
refreshRunProgress(w) ==
    /\ worker[w].pc = "count"
    /\ run' = [run EXCEPT ![worker[w].run].processed = worker[w].seen]
    /\ LET left == worker[w].todo \ {worker[w].cur}
           next == IF worker[w].cur = NoChamp THEN "finish"
                   ELSE IF left = {} THEN "resolve" ELSE "next"
       IN  worker' = [worker EXCEPT ![w] =
               IF worker[w].aborted THEN IdleWorker
               ELSE [worker[w] EXCEPT !.todo = left, !.cur = NoChamp, !.seen = {}, !.pc = next]]
    /\ UNCHANGED <<job, champ, evidence, route>>

sweepCancelled(w) ==
    /\ worker[w].pc = "sweep"
    /\ champ' = [champ EXCEPT ![worker[w].run] = CloseOut(@, "CANCELLED")]
    /\ worker' = [worker EXCEPT ![w].pc = "resolve"]
    /\ UNCHANGED <<run, job, evidence, route>>

resolveRun(w) ==
    /\ worker[w].pc = "resolve"
    /\ LET final == IF worker[w].cancelled THEN "CANCELLED"
                    ELSE resolveRunFinalStatus(champ[worker[w].run])
       IN  worker' = [worker EXCEPT ![w] = [@ EXCEPT !.pc = "progress", !.final = final,
                                        !.todo = {}, !.skip = {}, !.cancelled = FALSE]]
    /\ UNCHANGED <<run, job, champ, evidence, route>>

\* Like openRun, the final status carries no lease condition.
finishRun(w) ==
    /\ worker[w].pc = "finish"
    /\ run' = [run EXCEPT ![worker[w].run].status = worker[w].final]
    /\ worker' = [worker EXCEPT ![w] = GoOn(w, "complete")]
    /\ UNCHANGED <<job, champ, evidence, route>>

\* Completion does not ask whether a cancellation was requested meanwhile.
completeJob(w) ==
    /\ worker[w].pc = "complete"
    /\ Owns(w)
    /\ job' = [job EXCEPT ![worker[w].run] =
                  [@ EXCEPT !.status = worker[w].final, !.owner = Nobody, !.live = FALSE]]
    /\ worker' = [worker EXCEPT ![w] = IdleWorker]
    /\ UNCHANGED <<run, champ, evidence, route>>

completionRefused(w) ==
    /\ worker[w].pc = "complete"
    /\ ~(Owns(w) /\ job[worker[w].run].live)
    /\ worker' = [worker EXCEPT ![w] = IdleWorker]
    /\ UNCHANGED <<run, job, champ, evidence, route>>

\* An error outside a championship goes to the catch block of processJob.
executorError(w) ==
    /\ worker[w].pc \in {"load", "open", "next", "failChamp", "progress", "count",
                         "sweep", "resolve", "finish", "complete"}
    /\ worker' = [worker EXCEPT ![w] = Thrown(w)]
    /\ UNCHANGED <<run, job, champ, evidence, route>>

\* failJobAndRun first reads its job without a row lock ...
failBegins(w) ==
    /\ worker[w].pc = "fail"
    /\ HasLease(w)
    /\ worker' = [worker EXCEPT ![w].pc = "failing"]
    /\ UNCHANGED <<run, job, champ, evidence, route>>

failRefused(w) ==
    /\ worker[w].pc = "fail"
    /\ ~HasLiveLease(w)
    /\ worker' = [worker EXCEPT ![w] = IdleWorker]
    /\ UNCHANGED <<run, job, champ, evidence, route>>

\* ... and commits the championships and the run even if the job is no longer its own.
failCommits(w) ==
    /\ worker[w].pc = "failing"
    /\ LET r == worker[w].run
           closed == CloseOut(champ[r], "FAILED")
           status == resolveFailedRunStatus(closed)
       IN  /\ champ' = [champ EXCEPT ![r] = closed]
           /\ run' = CloseRun(r, status, closed)
           /\ job' = IF HasLease(w)
                     THEN [job EXCEPT ![r] = [@ EXCEPT !.status = Settle(r, status),
                                                         !.owner = Nobody, !.live = FALSE]]
                     ELSE job
    /\ worker' = [worker EXCEPT ![w] = IdleWorker]
    /\ UNCHANGED <<evidence, route>>

\* An aborted worker reaches a test of the guard.
leave(w) ==
    /\ worker[w].aborted
    /\ worker[w].pc \in Guarded \/ (worker[w].pc = "resolve" /\ ~worker[w].cancelled)
    /\ worker' = [worker EXCEPT ![w] = IdleWorker]
    /\ UNCHANGED <<run, job, champ, evidence, route>>

\* The process dies and its container starts a new one, with a new worker identity.
crash(w) ==
    /\ worker[w].pc # "idle"
    /\ worker' = [worker EXCEPT ![w] = IdleWorker]
    /\ UNCHANGED <<run, job, champ, evidence, route>>

-----------------------------------------------------------------------------
(* The operator.                                                           *)

\* The cancel route reads the run status ...
cancelReads(r) ==
    /\ route[r] = "none"
    /\ run[r].status \in Active
    /\ route' = [route EXCEPT ![r] = run[r].status]
    /\ UNCHANGED <<run, job, champ, evidence, worker>>

buildCancelJobQuery(r) ==
    [job EXCEPT ![r] =
        CASE @.status = "QUEUED" -> [@ EXCEPT !.status = "CANCELLED", !.cancel = TRUE]
          [] @.status = "RUNNING" -> [@ EXCEPT !.cancel = TRUE]
          [] OTHER -> @]

\* ... and later writes what that status called for, unconditionally.
cancelWrites(r) ==
    /\ route[r] # "none"
    /\ IF route[r] = "QUEUED"
       THEN /\ run' = [run EXCEPT ![r] = [@ EXCEPT !.status = "CANCELLED", !.cancel = TRUE]]
            /\ champ' = [champ EXCEPT ![r] =
                            [c \in Champs |-> IF @[c] = "QUEUED" THEN "CANCELLED" ELSE @[c]]]
       ELSE /\ run' = [run EXCEPT ![r].cancel = TRUE]
            /\ UNCHANGED champ
    /\ job' = buildCancelJobQuery(r)
    /\ route' = [route EXCEPT ![r] = "none"]
    /\ UNCHANGED <<evidence, worker>>

\* Stopping the schedule flags the scheduled runs and their jobs, and moves no status.
Stoppable(r) == run[r].scheduled /\ run[r].status \in Active

stopTLineSchedule ==
    /\ \E r \in Runs : Stoppable(r) /\ ~run[r].cancel
    /\ run' = [r \in Runs |-> IF Stoppable(r) THEN [run[r] EXCEPT !.cancel = TRUE] ELSE run[r]]
    /\ job' = [r \in Runs |-> IF Stoppable(r) /\ job[r].status \in Active
                              THEN [job[r] EXCEPT !.cancel = TRUE] ELSE job[r]]
    /\ UNCHANGED <<champ, evidence, worker, route>>

-----------------------------------------------------------------------------

Store(w) ==
    \E rows \in SUBSET Matches, outcome \in Completed : storeEvidence(w, rows, outcome)

\* The worker's own control flow; every step follows from the previous await.
Execute(w) ==
    \/ loadRun(w) \/ openRun(w)
    \/ \E c \in Champs : skipChampionship(w, c) \/ checkCancellation(w, c)
    \/ markChampionship(w)
    \/ Store(w) \/ evidenceRefused(w) \/ championshipError(w) \/ failChampionship(w)
    \/ readProgress(w) \/ refreshRunProgress(w)
    \/ sweepCancelled(w) \/ resolveRun(w) \/ finishRun(w)
    \/ completeJob(w) \/ completionRefused(w)
    \/ executorError(w) \/ failBegins(w) \/ failRefused(w) \/ failCommits(w)
    \/ leave(w)

Recover(r) == requeueExpiredJob(r) \/ finishExpiredJob(r)

Environment ==
    \/ \E r \in Runs : \/ requestManualTLineRun(r) \/ scheduleDueRun(r)
                       \/ LeaseRunsOut(r) \/ cancelReads(r) \/ cancelWrites(r)
    \/ \E w \in Workers : heartbeatRenews(w) \/ heartbeatLost(w) \/ crash(w)
    \/ stopTLineSchedule

Next ==
    \/ \E w \in Workers : Execute(w) \/ \E r \in Runs : claimNextJob(w, r)
    \/ \E r \in Runs : Recover(r)
    \/ Environment

Spec == Init /\ [][Next]_vars

(***************************************************************************)
(* Fairness.  A worker that runs takes its next step (every call it awaits  *)
(* has a timeout) and its container restarts it; its main loop recovers     *)
(* before it claims; the clock passes the expiry of a lease nobody renews.  *)
(* Operators, crashes and lost heartbeats owe nothing.                      *)
(***************************************************************************)
Fairness ==
    /\ \A w \in Workers : WF_vars(Execute(w))
    /\ \A r \in Runs : /\ WF_vars(\E w \in Workers : claimNextJob(w, r))
                       /\ WF_vars(Recover(r))
                       /\ WF_vars(~Executing(r) /\ LeaseRunsOut(r))
                       /\ WF_vars(cancelWrites(r))

FairSpec == Spec /\ Fairness
-----------------------------------------------------------------------------
(* Properties.                                                             *)

\* Type correctness of the rows and of the worker processes.
TypeOK ==
    /\ run \in [Runs -> RunRow]
    /\ job \in [Runs -> JobRow]
    /\ champ \in [Runs -> [Champs -> Status]]
    /\ evidence \in [Runs -> [Champs -> SUBSET Matches]]
    /\ worker \in [Workers -> WorkerState]
    /\ route \in [Runs -> {"none"} \cup Active]

\* The pair (job, attempt) names at most one worker at a time, stalled workers of earlier
\* attempts included: this is what makes "attempts" usable as the fencing token of
\* heartbeat, evidence, completion and failure.
AttemptTokensUnique ==
    \A v, w \in Workers :
        worker[v].run # NoRun /\ worker[v].run = worker[w].run
            /\ worker[v].token = worker[w].token => v = w

\* A queued job always has an attempt left: claimNextJob does not look at maxAttempts and
\* relies on recovery never to requeue an exhausted job.
QueuedJobHasAttemptLeft ==
    \A r \in Runs : job[r].status = "QUEUED" => job[r].attempts < MaxAttempts

\* A sport never has two active runs, although openRun makes a finished run active again.
OneActiveRunPerSport ==
    \A r, q \in Runs :
        run[r].status \in Active /\ run[q].status \in Active /\ run[r].sport = run[q].sport
            => r = q

\* A job that ended never changes again and its evidence is final, whatever stalled workers,
\* late cancellations and recovery still send.
EndedJobsAreFinal ==
    [][\A r \in Runs : job[r].status \in Terminal =>
          job'[r] = job[r] /\ evidence'[r] = evidence[r]]_vars

\* Once cancellation of a job is requested no attempt starts, no evidence is added and the
\* request is not forgotten.
CancelledJobsGainNothing ==
    [][\A r \in Runs : job[r].cancel =>
          /\ job'[r].cancel
          /\ job'[r].attempts = job[r].attempts
          /\ evidence'[r] = evidence[r]]_vars

\* Evidence of a run is stored only by the worker that holds the job's lease for the current
\* attempt, uncancelled: executor.ts promises it of signal and verifyLease.
EvidenceByHolderOnly ==
    [][\A r \in Runs : evidence'[r] # evidence[r] =>
          \E w \in Workers :
              /\ worker[w].pc = "work" /\ worker'[w].pc = "progress"
              /\ job[r].status = "RUNNING" /\ ~job[r].cancel
              /\ job[r].owner = w /\ worker[w].run = r
              /\ job[r].attempts = worker[w].token]_vars

\* When leases outlive their holders, a job that ended without a cancellation agrees with its
\* run, no championship is left open and the progress counter has counted all of them.
SettledTogether ==
    \A r \in Runs : job[r].status \in Terminal /\ ~run[r].cancel =>
        /\ run[r].status = job[r].status
        /\ run[r].processed = Champs
        /\ \A c \in Champs : champ[r][c] \in Terminal

\* When leases outlive their holders, a championship that stored its result keeps its status:
\* retries skip it, failures and cancellations close only the unfinished ones.
StoredResultsKept ==
    [][\A r \in Runs, c \in Champs :
          champ[r][c] \in Completed => champ'[r][c] = champ[r][c]]_vars

\* When leases outlive their holders, every run ends unless somebody asked to cancel it.
RunsEnd ==
    \A r \in Runs : run[r].status \in Active ~> run[r].status \in Terminal \/ run[r].cancel

-----------------------------------------------------------------------------
(* The inductive strengthening the proofs need.                            *)

\* A run that was not created has no job, so its attempts start from zero.
UncreatedRunHasNoJob ==
    \A r \in Runs : run[r].status = "NONE" => job[r] = NoJobRow

\* A busy worker works on a run.
BusyWorkersHaveRun ==
    \A w \in Workers : worker[w].pc = "idle" <=> worker[w].run = NoRun

\* The token a busy worker carries was issued already.
TokensIssued ==
    \A w \in Workers : worker[w].run # NoRun => worker[w].token <= job[worker[w].run].attempts

\* The invariant that is inductive: type correctness needs that queued jobs have an attempt
\* left, uniqueness of tokens needs that no worker holds one that was not issued.
IndInv ==
    /\ TypeOK
    /\ QueuedJobHasAttemptLeft
    /\ UncreatedRunHasNoJob
    /\ BusyWorkersHaveRun
    /\ TokensIssued
    /\ AttemptTokensUnique

-----------------------------------------------------------------------------
(* The strengthening of SettledTogether, for leases that outlive holders.  *)

\* Whoever works on a run holds its job, on a live lease.
HoldersHold ==
    \A w \in Workers : worker[w].run # NoRun => Owns(w) /\ job[worker[w].run].live

\* A cancelled job is one of a cancelled run.
MarksAgree == \A r \in Runs : job[r].cancel => run[r].cancel

AllClosed(st) == \A c \in Champs : st[c] \in Terminal

\* A worker in state s will skip exactly the championships whose result is stored.
SkipsStored(s, st) ==
    /\ s.pc \in {"mark", "work", "failChamp"} => s.cur \in s.todo \ s.skip
    /\ s.pc \in {"open", "next", "mark", "work", "failChamp", "progress", "count"} =>
          \A c \in s.todo : \/ s.pc \in {"progress", "count"} /\ c = s.cur
                            \/ c \in s.skip <=> st[c] \in Completed

\* It closes one championship after the other, and its last refresh counts all of them.
LoopCloses(s, st, row) ==
    /\ s.pc \in {"next", "mark", "work", "failChamp", "progress", "count", "resolve", "finish"} =>
          row.status = "RUNNING" /\ \A c \in Champs \ s.todo : st[c] \in Terminal
    /\ s.pc \in {"load", "open", "next", "resolve", "finish"} => s.cur = NoChamp
    /\ s.pc = "open" => s.todo = Champs
    /\ s.pc \in {"resolve", "finish"} => s.todo = {}
    /\ s.pc \in {"progress", "count"} => IF s.cur = NoChamp THEN s.todo = {} ELSE st[s.cur] \in Terminal
    /\ s.pc = "count" /\ s.cur = NoChamp => s.seen = Champs
    /\ s.pc \in {"finish", "complete"} => row.processed = Champs
    /\ s.pc = "complete" => row.status = s.final /\ AllClosed(st)

InOrder(s, st, row) ==
    /\ s.pc = "sweep" \/ s.cancelled => row.cancel
    /\ SkipsStored(s, st)
    /\ ~row.cancel => LoopCloses(s, st, row)

WorkersInOrder ==
    \A w \in Workers :
        worker[w].run # NoRun => InOrder(worker[w], champ[worker[w].run], run[worker[w].run])

\* A run that has ended is closed, although its job may still be with a worker.
EndedRunsClosed ==
    \A r \in Runs : run[r].status \in Terminal /\ ~run[r].cancel =>
        run[r].processed = Champs /\ AllClosed(champ[r])

SettleInv ==
    HoldersHold /\ MarksAgree /\ WorkersInOrder /\ EndedRunsClosed /\ SettledTogether

-----------------------------------------------------------------------------
(* The abstract queue this one implements.                                 *)

Phase(status) ==
    CASE status = "NONE" -> "absent"
      [] status = "QUEUED" -> "waiting"
      [] status = "RUNNING" -> "held"
      [] OTHER -> "over"

Queue == INSTANCE LeasedJobs
    WITH Jobs <- Runs,
         Items <- Champs \X Matches,
         phase <- [r \in Runs |-> Phase(job[r].status)],
         attempts <- [r \in Runs |-> job[r].attempts],
         stopped <- [r \in Runs |-> job[r].cancel],
         record <- [r \in Runs |-> {p \in Champs \X Matches : p[2] \in evidence[r][p[1]]}]

\* The jobs of TLine are leased jobs: bounded attempts, evidence only while a job is held
\* and not asked to stop, and nothing after its end.
ImplementsLeasedJobs == Queue!Spec

-----------------------------------------------------------------------------
(* What the repository's texts say and the code does not keep.             *)

\* docs/CODE_GUIDE.md: a cancellation is taken into account and then job and run complete;
\* here for runs that were still queued when the schedule was stopped.
StoppedQueuedRunsEnd ==
    \A r \in Runs :
        run[r].status = "QUEUED" /\ run[r].cancel ~> run[r].status \in Terminal
=============================================================================
