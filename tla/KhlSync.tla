------------------------------- MODULE KhlSync -------------------------------
(***************************************************************************)
(* Collection of KHL results: the run queue behind one control row, the     *)
(* workers that share its lease, the checkpoints they resume from, and the   *)
(* operator's requests and pause switch.                                    *)
(*                                                                         *)
(* Every transaction begins by locking the control row, so each is one step; *)
(* between two of them anything may happen.  As in TLineExecution a fence    *)
(* compares the expiry with a now read before it waits for the lock: success *)
(* needs ownership, refusal needs ownership or control.live to be missing.  *)
(*                                                                         *)
(* Dates are abstracted to the phase of a game: ahead of now, being played,  *)
(* over, or over and older than the rolling window of fourteen days.  A      *)
(* calendar window is the set of games it contains.                         *)
(***************************************************************************)
EXTENDS Naturals, FiniteSets

CONSTANTS
    Games,
    Workers,      \* khl-worker processes and CLI ticks
    Kinds,        \* bound: the kinds of runs requested, among "all", "game" and "event"
    MaxRuns,      \* bound: KhlSyncRun rows
    QueueLimit,   \* active runs the queue accepts, 100 in the code
    Aging,        \* bound: may games leave the rolling window?
    MaxMishaps,   \* bound: crashes, lost heartbeats and stalls beyond the lease
    Nobody, NoGame

ASSUME QueueLimitAssumption == QueueLimit \in Nat /\ MaxRuns \in Nat /\ MaxMishaps \in Nat
ASSUME AgingAssumption == Aging \in BOOLEAN
ASSUME KindsAssumption == Kinds \subseteq {"all", "game", "event"}
ASSUME NobodyIsNoWorker == Nobody \notin Workers
ASSUME NoGameAssumption == NoGame \notin Games

VARIABLES
    control,  \* the KhlSyncControl row
    paused,   \* the setting khl_results_auto_sync_paused
    run,      \* KhlSyncRun rows, numbered in the order of requestedAt
    stored,   \* games with a stored revision, validated or rejected
    game,     \* phase of each game
    worker,   \* what each process is doing
    mishaps   \* how many have happened

vars == <<control, paused, run, stored, game, worker, mishaps>>

Runs == 1..MaxRuns
NoRun == 0

Scopes == [kind : {"all"}, game : {NoGame}] \cup [kind : {"game", "event"}, game : Games]
AllGames == [kind |-> "all", game |-> NoGame]

\* Windows not listed yet, candidates found, candidates not handled yet, candidates whose
\* failure left no diagnostic, and whether some failure demands a retry or is reported.
Checkpoint == [windows : SUBSET Games, found : SUBSET Games, todo : SUBSET Games,
               failed : SUBSET Games, retry : BOOLEAN, reported : BOOLEAN]

Active == {"QUEUED", "RUNNING"}
Ended == {"SUCCEEDED", "PARTIAL", "FAILED", "CANCELLED"}

RunRow == [status : Active \cup Ended \cup {"NONE"}, trigger : {"MANUAL", "AUTOMATIC"},
           scope : Scopes, full : BOOLEAN, checkpoint : Checkpoint]
ControlRow == [active : Runs \cup {NoRun}, owner : Workers \cup {Nobody},
               live : BOOLEAN, bootstrapped : BOOLEAN, due : BOOLEAN]
Steps == {"idle", "claim", "begin", "loop", "list", "fetch", "save", "last", "finish"}
WorkerState == [pc : Steps, run : Runs \cup {NoRun}, mine : Checkpoint, cur : Games \cup {NoGame},
                result : {"complete", "stopped", "error"}, lost : BOOLEAN, cancelled : BOOLEAN]

Fresh(windows, games) ==
    [windows |-> windows, found |-> games, todo |-> games, failed |-> {},
     retry |-> FALSE, reported |-> FALSE]

NoRunRow == [status |-> "NONE", trigger |-> "MANUAL", scope |-> AllGames, full |-> FALSE,
             checkpoint |-> Fresh({}, {})]
IdleWorker == [pc |-> "idle", run |-> NoRun, mine |-> Fresh({}, {}), cur |-> NoGame,
               result |-> "complete", lost |-> FALSE, cancelled |-> FALSE]

Init ==
    /\ control = [active |-> NoRun, owner |-> Nobody, live |-> FALSE,
                  bootstrapped |-> FALSE, due |-> TRUE]
    /\ paused = FALSE
    /\ run = [r \in Runs |-> NoRunRow]
    /\ stored = {}
    /\ game \in [Games -> {"ahead", "over"}]
    /\ worker = [w \in Workers |-> IdleWorker]
    /\ mishaps = 0

-----------------------------------------------------------------------------
(* enqueueLocked.                                                          *)

Oldest(S) == CHOOSE r \in S : \A q \in S : r <= q

ActiveRuns == {r \in Runs : run[r].status \in Active}

Unused == {r \in Runs : run[r].status = "NONE"}

\* Mutant: a manual request also takes over an automatic run that is being executed.
AnyReusable(scope, trigger, wantFull) ==
    {r \in ActiveRuns : run[r].scope = scope /\ (wantFull => run[r].full)}

\* Mutant: the width of the scan must be the same.
SameWidthReusable(scope, trigger, wantFull) ==
    {r \in ActiveRuns :
        /\ run[r].scope = scope
        /\ wantFull = run[r].full
        /\ trigger = "MANUAL" => run[r].trigger = "MANUAL" \/ run[r].status = "QUEUED"}

\* An active run that already does what is asked.  An automatic run that is being executed
\* may have observed a pause, so it does not serve a manual request.
Reusable(scope, trigger, wantFull) ==
    {r \in ActiveRuns :
        /\ run[r].scope = scope
        /\ wantFull => run[r].full
        /\ trigger = "MANUAL" => run[r].trigger = "MANUAL" \/ run[r].status = "QUEUED"}

\* The games that start within the period a general run is given: since the project's first
\* day, or within the rolling window, and not after now.
Period(full) == {g \in Games : game[g] # "ahead" /\ (full \/ game[g] # "old")}

NewRun(scope, trigger, wantFull) ==
    LET full == scope.kind = "all" /\ (wantFull \/ ~control.bootstrapped)
    IN  [status |-> "QUEUED", trigger |-> trigger, scope |-> scope, full |-> full,
         checkpoint |-> CASE scope.kind = "all" -> Fresh(Period(full), {})
                          [] scope.kind = "game" -> Fresh({}, {scope.game})
                          [] scope.kind = "event" -> Fresh({}, {})]

HasRoom == Cardinality(ActiveRuns) < QueueLimit

\* Whether enqueueLocked returns rather than throws "queue is full".
Accepts(scope, trigger, wantFull) == Reusable(scope, trigger, wantFull) # {} \/ HasRoom

\* The rows it leaves: one is reused, and promoted by a manual request, or one is created.
enqueueLocked(scope, trigger, wantFull) ==
    LET reusable == Reusable(scope, trigger, wantFull)
    IN  IF reusable # {}
        THEN IF trigger = "MANUAL" THEN [run EXCEPT ![Oldest(reusable)].trigger = "MANUAL"] ELSE run
        ELSE IF Unused = {} THEN run
        ELSE [run EXCEPT ![Oldest(Unused)] = NewRun(scope, trigger, wantFull)]

\* The public routes and the CLI.  A single game must be stored already.
enqueueKhlSync(scope, wantFull) ==
    /\ scope.kind = "game" => scope.game \in stored
    /\ wantFull => scope.kind = "all"
    /\ Accepts(scope, "MANUAL", wantFull)
    /\ run' = enqueueLocked(scope, "MANUAL", wantFull)
    /\ UNCHANGED <<control, paused, stored, game, worker, mishaps>>

\* Pausing withdraws the automatic runs that wait; one that is executed stops by itself.
pauseKhlSync ==
    /\ paused' = TRUE
    /\ run' = [r \in Runs |-> IF run[r].trigger = "AUTOMATIC" /\ run[r].status = "QUEUED"
                              THEN [run[r] EXCEPT !.status = "CANCELLED"] ELSE run[r]]
    /\ control' = [control EXCEPT !.due = TRUE]
    /\ UNCHANGED <<stored, game, worker, mishaps>>

\* Resuming queues a run at once; if the queue is full the whole request is refused.
resumeKhlSync ==
    /\ Accepts(AllGames, "AUTOMATIC", FALSE)
    /\ paused' = FALSE
    /\ run' = enqueueLocked(AllGames, "AUTOMATIC", FALSE)
    /\ control' = [control EXCEPT !.due = TRUE]
    /\ UNCHANGED <<stored, game, worker, mishaps>>

-----------------------------------------------------------------------------
(* runKhlWorkerTick.                                                       *)

\* Automation is configured and not paused, and the next run is due.
WantsRun == control.due /\ ~paused

\* Every tick begins with the schedule.  If the queue is full enqueueLocked throws and the tick
\* ends here, leaving everything as it was.
tickKhlAutoSchedule(w) ==
    /\ worker[w].pc = "idle"
    /\ IF WantsRun
       THEN /\ Accepts(AllGames, "AUTOMATIC", FALSE)
            /\ run' = enqueueLocked(AllGames, "AUTOMATIC", FALSE)
            /\ control' = [control EXCEPT !.due = FALSE]
       ELSE UNCHANGED <<run, control>>
    /\ worker' = [worker EXCEPT ![w].pc = "claim"]
    /\ UNCHANGED <<paused, stored, game, mishaps>>

\* Mutant: the expired run is not looked for.
QueuedOnly == {r \in Runs : run[r].status = "QUEUED"}

\* The run whose lease expired goes first, then the queue in the order of requests.
Claimable ==
    IF control.active # NoRun /\ run[control.active].status = "RUNNING" THEN {control.active}
    ELSE {r \in Runs : run[r].status = "QUEUED"}

\* Mutant: the candidate a crash interrupted is skipped.
ResumeSkipping(r) ==
    LET todo == run[r].checkpoint.todo
    IN  IF todo = {} THEN run[r].checkpoint
        ELSE [run[r].checkpoint EXCEPT !.todo = todo \ {CHOOSE g \in todo : TRUE}]

Resume(r) == run[r].checkpoint

claimKhlSync(w) ==
    /\ worker[w].pc = "claim"
    /\ IF (control.active # NoRun /\ control.live) \/ Claimable = {}
       THEN /\ worker' = [worker EXCEPT ![w] = IdleWorker]
            /\ UNCHANGED <<run, control>>
       ELSE LET r == Oldest(Claimable)
            IN  /\ run' = [run EXCEPT ![r].status = "RUNNING"]
                /\ control' = [control EXCEPT !.active = r, !.owner = w, !.live = TRUE]
                /\ worker' = [worker EXCEPT ![w] = [IdleWorker EXCEPT !.pc = "begin", !.run = r,
                                                                      !.mine = Resume(r)]]
    /\ UNCHANGED <<paused, stored, game, mishaps>>

\* Mutant: the owner is not compared.
OwnsAnybody(w) == control.active = worker[w].run

\* What fenceKhlSyncWrite compares besides the clock.
Owns(w) == control.active = worker[w].run /\ control.owner = w

Leased(w) == Owns(w) /\ control.live

\* Runs of one event neither scan nor save checkpoints.
Scanning(w) == run[worker[w].run].scope.kind # "event"

\* A process learns that the lease is gone, here or by a failed heartbeat, and ends its tick.
leaseLost(w) ==
    /\ worker[w].run # NoRun
    /\ \/ ~Leased(w)
       \/ worker[w].lost /\ (worker[w].pc \notin {"list", "fetch"} \/ ~Scanning(w))
    /\ worker' = [worker EXCEPT ![w] = IdleWorker]
    /\ UNCHANGED <<control, paused, run, stored, game, mishaps>>

\* shouldStop: fenced, it answers whether the pause reached this automatic run.
MustStop(w) == worker[w].cancelled \/ (run[worker[w].run].trigger = "AUTOMATIC" /\ paused)

Asked(w) == worker[w].run # NoRun /\ Owns(w) /\ ~worker[w].lost

begin(w) ==
    /\ worker[w].pc = "begin"
    /\ Asked(w)
    /\ LET scope == run[worker[w].run].scope
       IN  worker' = [worker EXCEPT ![w] =
               IF MustStop(w) THEN [@ EXCEPT !.pc = "finish", !.result = "stopped"]
               ELSE IF scope.kind = "event" THEN [@ EXCEPT !.pc = "fetch", !.cur = scope.game]
               ELSE [@ EXCEPT !.pc = "loop"]]
    /\ UNCHANGED <<control, paused, run, stored, game, mishaps>>

\* The loop heads of syncKhlResults: windows first, then candidates, then the last look.
loop(w) ==
    /\ worker[w].pc = "loop"
    /\ Asked(w)
    /\ LET mine == worker[w].mine
       IN  IF MustStop(w)
           THEN worker' = [worker EXCEPT ![w] = [@ EXCEPT !.pc = "last", !.result = "stopped"]]
           ELSE IF mine.windows # {} THEN worker' = [worker EXCEPT ![w].pc = "list"]
           ELSE IF mine.todo # {}
           THEN \E g \in mine.todo :
                    worker' = [worker EXCEPT ![w] = [@ EXCEPT !.pc = "fetch", !.cur = g]]
           ELSE worker' = [worker EXCEPT ![w].pc = "last"]
    /\ UNCHANGED <<control, paused, run, stored, game, mishaps>>

\* One window of the schedule is read: finished games of the range become candidates.
listEvents(w, window) ==
    /\ worker[w].pc = "list"
    /\ window # {} /\ window \subseteq worker[w].mine.windows
    /\ LET finished == {g \in window : game[g] \in {"over", "old"}}
           listed == [worker[w].mine EXCEPT !.windows = @ \ window, !.found = @ \cup finished,
                                            !.todo = @ \cup finished]
       IN  worker' = [worker EXCEPT ![w] = [@ EXCEPT !.pc = "save", !.mine = listed]]
    /\ UNCHANGED <<control, paused, run, stored, game, mishaps>>

\* A window that cannot be read is reported and left behind.
listFailed(w, window) ==
    /\ worker[w].pc = "list"
    /\ window # {} /\ window \subseteq worker[w].mine.windows
    /\ LET reported == [worker[w].mine EXCEPT !.windows = @ \ window, !.retry = TRUE, !.reported = TRUE]
       IN  worker' = [worker EXCEPT ![w] = [@ EXCEPT !.pc = "save", !.mine = reported]]
    /\ UNCHANGED <<control, paused, run, stored, game, mishaps>>

\* The event cannot be read or its protocol is refused: the scan reports it and goes on.
candidateFailed(w) ==
    /\ worker[w].pc = "fetch"
    /\ Scanning(w)
    /\ LET g == worker[w].cur
           reported == [worker[w].mine EXCEPT !.todo = @ \ {g}, !.failed = @ \cup {g},
                                              !.retry = TRUE, !.reported = TRUE]
       IN  worker' = [worker EXCEPT ![w] = [@ EXCEPT !.pc = "save", !.cur = NoGame, !.mine = reported]]
    /\ UNCHANGED <<control, paused, run, stored, game, mishaps>>

\* The protocol of a finished game is read, then stored, fenced; one that breaks the rules becomes a
\* rejected revision, which is reported but is a diagnostic that needs no retry.
ingestKhlEventDetail(w, valid) ==
    /\ worker[w].pc = "fetch"
    /\ Owns(w)
    /\ LET g == worker[w].cur
           handled == [worker[w].mine EXCEPT !.todo = @ \ {g}, !.reported = @ \/ ~valid]
       IN  /\ game[g] \in {"over", "old"}
           /\ stored' = stored \cup {g}
           /\ worker' = [worker EXCEPT ![w] = [@ EXCEPT !.pc = IF Scanning(w) THEN "save" ELSE "finish",
                                                        !.cur = NoGame, !.mine = handled]]
    /\ UNCHANGED <<control, paused, run, game, mishaps>>

Save(w) == run' = [run EXCEPT ![worker[w].run].checkpoint = worker[w].mine]

\* The checkpoint names what comes next.  Only the fence is asked, not the lost flag.
saveKhlSyncCheckpoint(w) ==
    /\ worker[w].pc \in {"save", "last"}
    /\ Owns(w)
    /\ Save(w)
    /\ worker' = [worker EXCEPT ![w] =
           IF @.pc = "save" THEN [@ EXCEPT !.pc = "loop"]
           ELSE IF @.lost THEN IdleWorker ELSE [@ EXCEPT !.pc = "finish"]]
    /\ UNCHANGED <<control, paused, stored, game, mishaps>>

\* An error outside the two loops' catch blocks, or in the event of a single-event run.
workerError(w) ==
    /\ worker[w].run # NoRun
    /\ ~worker[w].lost
    /\ worker[w].pc \notin {"list", "fetch"} \/ ~Scanning(w)
    /\ worker' = [worker EXCEPT ![w] =
           [@ EXCEPT !.pc = "finish", !.cur = NoGame, !.mine = run[worker[w].run].checkpoint,
                     !.result = IF worker[w].cancelled THEN "stopped" ELSE "error"]]
    /\ UNCHANGED <<control, paused, run, stored, game, mishaps>>

\* Mutant: only errors of the whole run are remembered.
UnresolvedError(w) == worker[w].result = "error"

\* Something the run was to collect is still missing.
Unresolved(w) == worker[w].result = "error" \/ (worker[w].result = "complete" /\ worker[w].mine.retry)

Released == [control EXCEPT !.active = NoRun, !.owner = Nobody, !.live = FALSE]

EndStatus(w) ==
    CASE worker[w].result = "error" -> "FAILED"
      [] worker[w].result = "stopped" -> "CANCELLED"
      [] OTHER -> IF worker[w].mine.reported THEN "PARTIAL" ELSE "SUCCEEDED"

\* A missing candidate sends the next general run over the whole history; a clean full run
\* ends that; a stopped run decides nothing.
finishKhlSync(w) ==
    /\ worker[w].pc = "finish"
    /\ Owns(w)
    /\ LET r == worker[w].run
       IN  /\ run' = [run EXCEPT ![r].status = EndStatus(w)]
           /\ control' = [Released EXCEPT !.bootstrapped =
                  ~Unresolved(w) /\ (@ \/ (run[r].full /\ worker[w].result = "complete"))]
    /\ worker' = [worker EXCEPT ![w] = IdleWorker]
    /\ UNCHANGED <<paused, stored, game, mishaps>>

-----------------------------------------------------------------------------
(* Heartbeats, time and mishaps.                                           *)

heartbeatKhlWorker(w) ==
    /\ worker[w].run # NoRun
    /\ Owns(w)
    /\ ~control.live
    /\ control' = [control EXCEPT !.live = TRUE]
    /\ UNCHANGED <<paused, run, stored, game, worker, mishaps>>

\* After a heartbeat the interval looks at the switch.
heartbeatSeesPause(w) ==
    /\ worker[w].run # NoRun
    /\ ~worker[w].cancelled
    /\ run[worker[w].run].trigger = "AUTOMATIC"
    /\ paused
    /\ worker' = [worker EXCEPT ![w].cancelled = TRUE]
    /\ UNCHANGED <<control, paused, run, stored, game, mishaps>>

Mishap == mishaps < MaxMishaps /\ mishaps' = mishaps + 1

\* The heartbeat transaction failed, whether the lease is gone or the database hiccuped.
heartbeatFails(w) ==
    /\ worker[w].run # NoRun
    /\ ~worker[w].lost
    /\ Mishap
    /\ worker' = [worker EXCEPT ![w].lost = TRUE]
    /\ UNCHANGED <<control, paused, run, stored, game>>

\* A crash or a SIGTERM: the lease stays until it expires; the container starts a new process.
crash(w) ==
    /\ worker[w].run # NoRun
    /\ Mishap
    /\ worker' = [worker EXCEPT ![w] = IdleWorker]
    /\ UNCHANGED <<control, paused, run, stored, game>>

Executing == \E w \in Workers : worker[w].run # NoRun /\ Owns(w)

abandonedLeaseExpires ==
    /\ control.live
    /\ ~Executing
    /\ control' = [control EXCEPT !.live = FALSE]
    /\ UNCHANGED <<paused, run, stored, game, worker, mishaps>>

\* The holder stalls for longer than the lease.
stall ==
    /\ control.live
    /\ Executing
    /\ Mishap
    /\ control' = [control EXCEPT !.live = FALSE]
    /\ UNCHANGED <<paused, run, stored, game, worker>>

intervalPasses ==
    /\ ~control.due
    /\ control' = [control EXCEPT !.due = TRUE]
    /\ UNCHANGED <<paused, run, stored, game, worker, mishaps>>

timePasses(g) ==
    /\ game[g] # "old"
    /\ game[g] = "over" => Aging
    /\ game' = [game EXCEPT ![g] = CASE @ = "ahead" -> "live" [] @ = "live" -> "over" [] OTHER -> "old"]
    /\ UNCHANGED <<control, paused, run, stored, worker, mishaps>>

-----------------------------------------------------------------------------

Work(w) ==
    \/ tickKhlAutoSchedule(w) \/ claimKhlSync(w) \/ leaseLost(w)
    \/ begin(w) \/ loop(w)
    \/ \E window \in SUBSET Games : listEvents(w, window) \/ listFailed(w, window)
    \/ candidateFailed(w)
    \/ \E valid \in BOOLEAN : ingestKhlEventDetail(w, valid)
    \/ saveKhlSyncCheckpoint(w) \/ workerError(w) \/ finishKhlSync(w)

Operator ==
    \/ \E scope \in {s \in Scopes : s.kind \in Kinds}, wantFull \in BOOLEAN : enqueueKhlSync(scope, wantFull)
    \/ pauseKhlSync \/ resumeKhlSync

Environment ==
    \/ \E w \in Workers : heartbeatKhlWorker(w) \/ heartbeatSeesPause(w) \/ heartbeatFails(w) \/ crash(w)
    \/ abandonedLeaseExpires \/ stall \/ intervalPasses
    \/ \E g \in Games : timePasses(g)

Next == (\E w \in Workers : Work(w)) \/ Operator \/ Environment

Spec == Init /\ [][Next]_vars

(***************************************************************************)
(* Fairness.  A worker's loop never ends and every call it awaits does; the  *)
(* clock passes the expiry of a lease nobody renews.  Mishaps are bounded.  *)
(***************************************************************************)
Fairness == (\A w \in Workers : WF_vars(Work(w))) /\ WF_vars(abandonedLeaseExpires)

FairSpec == Spec /\ Fairness
-----------------------------------------------------------------------------
(* Properties.                                                             *)

\* Type correctness; the control row names an owner exactly while it names a run.
TypeOK ==
    /\ control \in ControlRow
    /\ paused \in BOOLEAN
    /\ run \in [Runs -> RunRow]
    /\ stored \subseteq Games
    /\ game \in [Games -> {"ahead", "live", "over", "old"}]
    /\ worker \in [Workers -> WorkerState]
    /\ mishaps \in 0..MaxMishaps
    /\ control.owner = Nobody <=> control.active = NoRun

\* A running run is always the one the control row points to, so an abandoned one is found
\* again: claimKhlSync looks for expired runs nowhere else.
RunningIsActive ==
    \A r \in Runs : run[r].status = "RUNNING" <=> control.active = r

\* While automation is paused no automatic run waits to be started, whatever ticks and
\* requests arrive around the pause.
PausedQueueHasNoAutomatic ==
    paused => \A r \in Runs : ~(run[r].status = "QUEUED" /\ run[r].trigger = "AUTOMATIC")

\* Requests coalesce: two waiting runs of one scope are a rolling and a full scan.
QueuedRunsDiffer ==
    \A r, q \in Runs :
        /\ run[r].status = "QUEUED" /\ run[q].status = "QUEUED"
        /\ run[r].scope = run[q].scope /\ run[r].full = run[q].full
        => r = q

\* What waits in the queue is wanted, and wanted once.
QueueInOrder == PausedQueueHasNoAutomatic /\ QueuedRunsDiffer

\* What a manual request asked for is not cancelled by a pause, although runs are promoted
\* and the executor decides on a trigger it read some steps ago.
ManualRunsNotCancelled ==
    [][\A r \in Runs :
          run'[r].status = "CANCELLED" /\ run[r].status # "CANCELLED"
              => run[r].trigger = "AUTOMATIC"]_vars

\* A candidate a checkpoint no longer lists was stored or recorded as failed, so a run that
\* resumes after a crash, as often as it may, passes over none.
CheckpointsHonest ==
    \A r \in Runs :
        LET saved == run[r].checkpoint
        IN  /\ saved.found \ saved.todo \subseteq stored \cup saved.failed
            /\ saved.failed # {} => saved.retry

\* A run whose executor died is found again, and passes over no candidate.
RunsResumable == TypeOK /\ RunningIsActive /\ CheckpointsHonest

\* Progress never goes back: a stalled executor cannot overwrite its successor's checkpoint.
CheckpointsAdvance ==
    [][\A r \in Runs : run[r].status # "NONE" =>
          LET old == run[r].checkpoint
              new == run'[r].checkpoint
          IN  /\ new.windows \subseteq old.windows
              /\ old.found \subseteq new.found
              /\ old.found \ old.todo \subseteq new.found \ new.todo
              /\ old.failed \subseteq new.failed]_vars

\* Once history counts as collected, every candidate of a run that was not stopped is stored:
\* a failure reopens history until a full run has collected it.
CollectedOrReopened ==
    \A r \in Runs :
        run[r].status \in {"SUCCEEDED", "PARTIAL", "FAILED"} /\ control.bootstrapped
            => run[r].checkpoint.found \subseteq stored

\* Every run ends, as long as the queue is not full.
RunsEnd == \A r \in Runs : run[r].status \in Active ~> run[r].status \in Ended

-----------------------------------------------------------------------------
(* What the repository's texts say and the code does not keep.             *)

\* syncQueue.ts tells a client that meets a full queue to wait for the current collection.
WaitingQueueMoves == \A r \in Runs : run[r].status = "QUEUED" ~> run[r].status # "QUEUED"
=============================================================================
