# TData in TLA+

TLA+ models of TData, a platform that collects sports data from several sources
(tournaments from Liquipedia, HLTV, DLTV, Fandom, VLR; tennis and volleyball
tablets; KHL results) and checks bookmakers' lines against official sources
(TLine). The modules describe the parts that keep state over time and that
several processes, requests or retries change at once. TLC checks small
instances; TLAPS proves the central safety facts for all of them.

Run a check inside this directory with
`tlc -config tline_fencing.cfg TLineExecutionMC.tla`, a proof with
`tlapm TLineExecutionProofs.tla`. `PROJECT.json` lists the runs, the mutants that
show each property can fail, the source lines behind every definition, the
hazards and the theorems.

## Inventory of the system

| Component | Where | State | Operations | What makes it correct |
|---|---|---|---|---|
| TLine jobs | `backend/src/tline/jobs` | `TLineJob` rows: status, owner, lease, attempts, `cancelRequestedAt` | enqueue, claim, heartbeat, fail or retry, complete, recover, cancel | an attempt is held by one worker, an ended job never changes, a crash costs one attempt, every job ends |
| TLine runs | `backend/src/tline/application` | `TLineRun`, `TLineRunChampionship`, evidence rows, progress counters | create, execute championship by championship, refresh progress, close | job and run agree, results once stored are kept, one active run per sport |
| TLine scheduler | `scripts/tline-worker.ts`, `scheduleState.ts`, `scheduler/slots.ts` | `TLineScheduleState`, idempotency keys | tick, first tick, catch up, start, stop | a slot is run once, none is lost but for busy, old or unset |
| TLine comparison and review | `backend/src/tline/comparison`, `mappings` | comparisons, links, exceptions | match two lists, overlay decisions, decide | no match lost, the operator's last word counts |
| TLine team mappings | `tline/mappings`, routes under `team-mappings` | `TLineTeamMapping` rows | set, clear, lock, automap | what an operator locked stands |
| KHL queue | `backend/src/results/khl/syncQueue.ts` | one `KhlSyncControl` row, `KhlSyncRun` rows | enqueue, pause, resume, tick, claim, fence, heartbeat, checkpoint, finish | one run at a time, no work lost over a crash, requests coalesce, the limit holds |
| KHL collection | `results/khl/autoSync.ts`, `syncWorker.ts` | checkpoint of windows and candidates | list, fetch, store, record a failure | no candidate is skipped |
| KHL revisions and delivery | `repository.ts`, `bindings.ts`, `targetBindings.ts`, `preview.ts`, `delivery.ts` | revisions, active revision, bindings, staged deliveries | ingest, activate, bind, preview, stage | what is staged is consistent, reviewed and current |
| Liquipedia limiter, client, portal | `liquipedia/rateLimiter.ts`, `client/network.ts`, `portal.ts` | per route: promise chain, last request, cooldown; requests in flight | enter, back off, request, fall back, retry, abort | one at a time, spaced, cooled down, every request ends |
| Liquipedia imports | `liquipedia/importer`, `utils/sourceFetchCache.ts` | raw snapshots, last good snapshots, tournament, diagnostics | fetch pages and subpages, gate, commit, publish | never back to an older main page, stored as a whole |
| Other tournament imports | `sources/tdata/hltv`, `dltv`, `tbvolley`, `tournamentImportConcurrency.ts` | imports, tournaments, matches, participants | start, fetch, commit in a serializable transaction, retry | an older import never replaces a newer one, edits survive |
| Monitor | `backend/src/monitoring`, `scripts/parser-monitor.ts` | results, incidents, the announced state | probe, retry, time out, report, announce | one operation per host, a whole report, what is recorded was said |
| Deployment | `scripts/deploy/auto_deploy.py` | lock, containers, schema, record of the release | build, back up, migrate, activate, roll back | services fit the schema, releases go back only by rollback |
| Proxy pool | `proxy/proxySelector.ts` | pool rows, a cache | select, mark | failures count, cooldowns are respected |
| Consultant | `consultant/runner.ts` | offset, usage, cache, state file | poll, answer, persist | budget kept, no update lost or paid twice |
| Login limit | `auth/loginRateLimit.ts` | one counter row per client | reserve, clear | limit holds over processes |
| Normalizers, exporters, teams, matches, manual import, admin upload | the rest of `backend/src` | database rows | parsing, matching, export | |
| Frontend | `frontend` | none of its own | routes, pages | |

How they interact: the frontend's routes and the workers share PostgreSQL and
nothing else. A TLine run is created by a route or by the worker's scheduler and
executed by whichever worker claims its job; KHL likewise, with one control row as
the lock of every transaction. A championship's check reads team mappings, links
and exceptions that operators change meanwhile. Importers and the portal call the
Liquipedia client within one process, where the limiter's promise chains order
them; importers and the routes that edit team mappings write the same participant
rows. The monitor and the deployment share nothing with the rest but the host.

Hard behaviours: leases that expire while their holder still works; reads that are
stale when used (`assertExecutionActive`, the KHL worker's view of its trigger, the
preview of a delivery, the automap's list of mappings, the snapshot an import
compares itself with); steps that are two transactions (cancel route, failing a
job and closing its run, an edit and its cascade); imports that finish in the
opposite order of their start; crashes between a stored result and the checkpoint,
progress or record that mentions it; retries of what is partly done; a limited
queue fed by its own consumer; a promise chain entered from inside itself.
`PROJECT.json` lists them with their lines.

## Modules

```
LeasedJobs                what a job queue with leases and attempts promises
TLineStatuses             statuses and the functions that combine them
TLineExecution            queue, run execution, worker, cancel route, Stop
  TLineExecutionMC        symmetry for TLC
  TLineExecutionProofs    fencing, cancellation, one active run, refinement of LeasedJobs
  TLineSettlingProofs     settling and kept results when leases outlive their holders
  TLineScheduler          the schedule tick, composed with TLineExecution
    TLineSchedulerMC      symmetry for TLC
    TLineSchedulerProofs  slots; the composition implements TLineExecution
TLineComparison           the comparison of two lists of matches, as operators
  TLineReview             a championship's check against the operator's decisions
TLineTeamMapping          manual and automatic mappings of teams
KhlSync                   control row, run queue, workers, checkpoints
  KhlSyncMC, KhlSyncProofs
KhlDelivery               revisions, bindings, previews, staging
  KhlDeliveryMC, KhlDeliveryProofs
LiquipediaClient          promise chains, client, portal
  LiquipediaClientProofs
LiquipediaImport          pages, caches, commit and publication of one tournament
TournamentImport          imports of the other sources and team mapping edits
  ImportProofs            both: whole snapshots, fresher ones win, edits survive
ParserMonitor             probes, report, announcement
Consultant                the Telegram consultant
AutoDeploy                one host's deployments
ServicesMC                the modules that share no state with each other, for TLC
ServicesProofs            deployments, team mappings, reviews, monitor, consultant
```

### TLineExecution

One action per SQL statement or transaction of `jobs/queries.ts`,
`jobs/repository.ts`, `executor.ts`, the worker's loop, the cancel route and Stop.
Variables: `run` (a `TLineRun` row with its progress counter as the set of
championships counted), `job` (its `TLineJob`), `champ` (status of each
`TLineRunChampionship`), `evidence` (the match rows stored by championship),
`worker` (where each process is, with the attempt it holds as `token`) and `route`
(the cancel route's request between its two writes).

* Time is one bit, `job.live`: the lease has not expired. A fenced statement
  compares the expiry with a `now` the worker read earlier, so it may still
  succeed when the lease is over, but only for the owner of the current attempt:
  success needs `Owns`, refusal needs that ownership or the live lease is gone.
* `Overrun` says whether a lease may expire while its holder executes. The
  heartbeat normally prevents it; the fencing properties are checked with
  `Overrun = TRUE`, those that need leases to outlive their holder say so, are
  checked with `FALSE` and proved under `~Overrun`.
* A guard tested at the start of a code step is resolved at the end of the step
  before it (`GoOn`), where its value was last read: that is what the code
  acts upon, and between the two anything may happen.
* `failJobAndRun` reads its job without a lock and commits later: two steps.
  Cancellation is two steps, recovery works job by job. The final status of a run
  and the completion of its job are two statements and two steps, with crashes
  between them.
* What the comparison of a championship yields is a nondeterministic outcome with
  a set of evidence rows; `TLineReview` has the inside of that step. Messages,
  severities, views and logging are left out. The order in which jobs are claimed
  is abstracted to "any queued job".

### TLineScheduler

EXTENDS `TLineExecution`: `SchedulerNext` is a step of the execution that is not
the creation of a run, or a step of the tick. `clock` is a number, `slot` the
`scheduledAt` in a job's idempotency key, `tick` what each worker's tick has read,
`schedule` the row with `enabled` and `lastTickAt`. `missed` and `firstTick` are
history. A worker that ticks executes nothing, as in the code; several workers may
tick at once, although `docker-compose.yml:109-113` deploys one. One sport is
scheduled; its readiness check may refuse for any reason, which disables the
schedule. Time zones and the texts of a schedule are left out: `Slots` are the
moments it names.

`checkable` stands for everything that makes the loop pass over the sport without a
run (`tline-worker.ts:175-193`): the sport or all its championships inactive, an
offset that is not set, or a period that does not end after it begins, which no
route refuses (`sports/[id]/route.ts:23-26`). `configureSport` is any change of
that, at any moment: between slots, between ticks or inside a tick, which reads the
settings once (`readSports`). `lastTickAt` moves past such slots like past any
other, so `NoSlotLost` has them as a reason of their own: `lastUnset`, the latest
moment the sport could not be checked, is at or after the slot. A sport whose
settings are wrong for an hour loses the slots due in that hour or still waiting to
be caught up, and no others.

### TLineComparison, TLineReview, TLineTeamMapping

`TLineComparison` has the algorithm of `engine.ts` as operators over sequences of
matches: what fits, duplicates on either side, groups by pair, the choice of
pairs by nearness in time, candidates, statuses. It has no reference definition
of its own: `PairsAreBest` and `EveryMatchAccountedFor` are that reference, and
`TLineReview` evaluates both on every check of every small list. `TLineReview`
adds the check's reads (the official site, the Admin line, then links, then
exceptions), the save, and the operator's decisions between any two of them.

A check that has no Admin adapter, no Admin ids or no tolerances ends after the
official site: `persistSourceOnlyEvidence` (`executor.ts:181-202`, `410-471`) keeps
one row for each of its matches and reads neither links nor exceptions. Without an
HTTP Admin adapter, which does not exist yet (`docs/TLINE.md:15` and `:79`), it is
what every check in production does: a match an operator excluded for good is shown
again, not ignored, by the next such check. The decision itself stays in force, as
`docs/CODE_GUIDE.md:80-81` asks (a repeated run must not silently erase manual
decisions), and this is what `LastWordCounts` states: a comparison of both sides
applies the operator's last word, however many checks of the site alone came
between. `EveryMatchAccountedFor` covers both kinds. Which kind a check is depends on
what is configured when it runs, so each check may be either.

Home and away order, the order of rows and decisions that do not persist are left
out.

`TLineTeamMapping` has one row per team of the official site. `raced` is history:
teams locked while an automap that had read them before was about to write. Those
are overwritten (the lock stays), and `OperatorsChoiceStands` leaves them out: it
says that what an automap has read as locked stands.

### KhlSync

Every transaction of `syncQueue.ts` begins by locking the control row, so each is
one action. `control` is that row, `run` the run rows with their checkpoint
(windows to list, candidates found, to do, failed), `stored` the games with a
revision, `game` the phase of each game, `worker` what each process is doing with
its own copy of the checkpoint, `mishaps` how many crashes, stalls and lost
heartbeats happened. Dates are the phase of a game relative to now and to the
rolling window; a calendar window is the set of games in it. The owner recorded in
the control row is fixed per process and ticks of one process follow each other,
which is why a fence without an attempt number is enough (`CheckpointsAdvance`
checks it). Two functions of `autoSync.ts` that nothing calls in production,
`setKhlResultsAutoSyncPaused` and `runKhlResultsAutoSync`, are left out; the cap on
the number of failures a summary keeps is abstracted.

### KhlDelivery

`Contents` are the normalized answers the source may give, each with its game, its
validity, its identity (date and teams) and its roster. Every write is a
serializable transaction and one action; only the staging of a delivery spans
steps: a preview is read, the operator confirms it, a transaction compares the
revision and the match with the current ones and stages, and a transaction that
loses a conflict is tried again up to `MaxStageAttempts` times. The first query of
a preview reads game, revision and bindings and is one read. All contents are of
finished games, since others have no preview. The identity includes the teams
(`ContentsAssumption`). A source that returns to an older content has that
revision activated again; a delivery of it is refused until a newer one arrives,
and so deliveries never go back. Records of a team's statistics confirmed before
the team was bound to another Admin team are kept by the code: the model has this
(`teamStats`), no property judges it.

### LiquipediaClient

One JavaScript process. `chain` is, per channel, the queue of calls whose promise
is pending: `channel.chain.then(...)` gives a call the turn after all others.
`request[q].held` lists the channels of the calls a request is nested in: the
portal's page, the API request it falls back to, that request's retries. When the
innermost promise settles all of them do. `cooling` and `recent` are the two facts
of time the limiter looks at, once, before it sleeps. The caller's abort ends an
open fetch and otherwise is looked at only when a call begins. Proxies are ranked
by past results in the code; here any active one may be chosen, which includes
every choice the ranking can make.

### LiquipediaImport

One tournament with a main page and subpages. A page comes from the cache of last
good snapshots, a raw snapshot of the last hour or the network; then the
completeness, quality and freshness gates; one transaction that replaces the
matches; publication of the pages as last good; the merged diagnostics. Time is
left out: an entry may or may not be an hour old when it is read. So a subpage
may come from the cache while the main page is new, and an older reading of a
subpage may replace a newer one; what is promised, and checked, is that the main
page never goes back, that no page is missing from what is stored, and that each is
as some snapshot of it that was stored with an import shows it. Match ids are
namespaced by tournament and cannot collide with another's. Participants are left
out.

### TournamentImport

Three kinds of importers (HLTV, DLTV, the beach volleyball sources) from the
import record to the serializable transaction and its retries; VLR, Fandom, WTT
and the other volleyball importers follow the same calls. A transaction reads at
its beginning, and a row it writes that somebody changed since is a conflict. The
freshness of an import is `startedAt` and then the id, not the end. The edit of a
mapping and its cascade to the participants are two steps. What the code also
does, and the model shows without a property: the record of an import whose
process died stays PENDING; a match that leaves a page and returns loses its
`syncedAt`; an edit and the cascade of another may leave mapping and participant
apart (write skew).

### ParserMonitor, Consultant and AutoDeploy

`ParserMonitor`: the runner's tasks with their attempts, hosts in quarantine
after a timeout, the report, the incidents it opens and closes, and the
announcement with the state that is persisted after it. A crash between the two
may announce twice (`deploy/systemd/README.md:31`), never not at all. The probes
are network I/O and may end in any way.

`Consultant`: Telegram forgets what is below the offset of the last poll; the
process polls, handles one update after the other and writes `state.json` after
each. An update whose message could not be sent is read again; an answer is
recorded, with its usage, before it is sent. `paid` and `handled` are history. The
code also does this, and no property judges it: a request that failed, or whose
record could not be written, is not counted in the daily budget, although
`docs/TELEGRAM_CONSULTANT.md:15` speaks of 12 calls a day; what state.json counts
are the answers recorded.

`AutoDeploy`: one action per command of `auto_deploy.py`, any of which may fail;
containers may stop at any time, and a deployment may die with its lock released.
Other scripts on the host use other locks and are left out. A container that is
missing after a crash makes later deployments refuse, in the code and here.

### ServicesMC

Imports, Liquipedia imports, deployments, the monitor, the consultant, reviews and
team mappings share no state. `ServicesMC` extends the modules of all of them, which
also has TLC evaluate their assumptions. A behaviour of `services` is one of any single service, chosen at
the start, so that one run checks all of them without the product of their states.

## Runs

| Run | Instance | What it shows |
|---|---|---|
| `tline_fencing` | 1 run, 1 championship, 1 match, 2 workers, 2 attempts, `Overrun`, symmetry | `AttemptTokensUnique`, `EvidenceByHolderOnly`, `CancelledJobsGainNothing`, `ImplementsLeasedJobs`: writes are fenced by the attempt, and the whole is a queue of leased jobs |
| `tline_settling` | 1 run, 2 championships, 2 workers, 2 attempts, fair | `SettledTogether`, `StoredResultsKept`, `RunsEnd`: job and run settle together with all championships closed and counted, retries keep what is stored, every run ends |
| `tline_scheduler` | 1 worker, 2 runs, slots 2 and 3, 1 old slot caught up, settings that change at 2 | `OneActiveRunPerSport`, `SlotsRunOnce`, `NoSlotLost`: crashes, Stop, manual requests and changes of settings around the tick repeat no slot and lose none but for the reasons the code has |
| `tline_stop_parks` | 1 run, fair, violation | `StoppedQueuedRunsEnd`: a queued run that Stop cancels never ends |
| `khl_fencing` | 2 workers, 2 runs, 1 mishap, symmetry | `RunsResumable`, `ManualRunsNotCancelled`, `CheckpointsAdvance`: one run at a time, checkpoints that skip nothing and never go back |
| `khl_queue` | 1 worker, 3 runs of all kinds, limit 2, ageing games | `QueueInOrder`, `CollectedOrReopened`: merging, pause, limit, and what a completed history claims |
| `khl_progress` | 1 worker, 2 runs, limit 3, 1 mishap, fair | `RunsEnd`: every run ends while there is room in the queue |
| `khl_full_queue` | limit 1, fair, violation | `WaitingQueueMoves`: with a full queue and an automatic run due nothing is ever claimed |
| `khl_delivery` | 1 game, 4 contents, 2 Admin teams and matches, 2 requests, symmetry | `BindingsFollowIdentity`, `PayloadsConsistent`, `DeliveriesAdvance`, `AnswersAreCurrent`: what is staged is one match's, as reviewed, current and never older than before |
| `liquipedia_pacing` | 3 requests, 1 portal, 2 proxies, 1 retry, fair | `OneAtATimePerChannel`, `SpacedStarts`, `CooldownRespected`, `RequestsEnd` (while none is retried) |
| `liquipedia_timeout` | 1 portal request, no proxy, fair, violation | `TimedOutPortalsEnd`: a retried portal request outlives its timeout for ever |
| `services` | see `services.cfg`, symmetry | imports: `StoredSoundly`, `FresherImportWins`, `LastGoodKept`, `EditsSurvive`; Liquipedia imports: `StoredIsWhole`, `MainPageAdvances`, `LastGoodAdvances`; deployment: `ServicesSound`, `OnlyRollbackGoesBack`; monitor: `ProbingIsSound`, `AnnouncedIsSaid`; consultant: `QuestionsSettled`; review and automap: `LastWordCounts`, `EveryMatchAccountedFor`, `PairsAreBest`, `OperatorsChoiceStands` |

Each property of a passing run has a mutant in `PROJECT.json`: a plausible mistake
in the code it is about, under which TLC finds the property violated.

### Bounds

Bounds with a name of their own: `Runs`, `Requests`, `Imports`, `Deployments`,
`Stagers` (how often something is begun), `MaxRuns`, `Kinds` and `Aging` (KHL),
`MaxMishaps` (crashes, stalls and lost heartbeats), `Overrun`, `MaxTime` and `Slots`
(the scheduler's clock; also the time of imports), `MaxEdits`, `MaxRelease`,
`Changes` (the moments at which settings may change), `LastUpdate`, `LastDay`, `LastReport`, `MaxUnrecorded`, and those of
`ServicesMC.tla`. `MaxAttempts`, `CatchUp`, `QueueLimit`, `MaxRetries` and
`MaxStageAttempts` are the code's own limits at small values.

* Fencing is about two holders of one job: two workers and two attempts give a
  stalled holder and its successor, and a third of either only repeats the
  situation. Settling needs one championship that is done and one that is not, and
  a second attempt after a crash.
* Two slots and three moments let a slot fall due while an earlier one is caught up,
  is too old, or meets an active run. The sport may be checkable or not at the
  start, and its settings may change any number of times at the second moment, when
  one slot is due and one is to come: before, inside and after ticks, so that a slot
  is passed over, caught up or run by a tick that read them earlier. One worker
  ticks, as deployed; the theorems hold for any number, and for changes at any
  moment.
* For KHL two workers and two runs give a takeover and a successor run; three runs
  against a limit of two reach the limit, merge and promote.
* The four contents of a game are a first one, the same with a shorter roster, one
  with another date, and one that fails validation: every way an identity, a
  binding or a revision can change. One attempt of staging suffices for TLC: another
  attempt begins from the same request and reads everything anew, so it shows the
  orders the first shows; the theorems take any number.
* Three requests over two proxies give a queue behind a holder and two nested
  holders at once.
* Two imports of one tournament are enough to finish in the wrong order, from an
  HLTV and a DLTV page; the third kind (beach) differs in that it throws instead of
  returning invalid data, and is not in the instance. Two deployments of releases 0 to 2
  give an interrupted one and its successor, with a rollback.
* Five updates of the consultant are one of each kind, a question repeated and
  another one; with a budget of two, one lost answer and one midnight the repetition
  meets the cache, the budget, a new report or a new day.

`CHECK_DEADLOCK FALSE` is set where a behaviour ends because a bound is used up: all
run identifiers created, all requests made, all imports done, the clock at its end.
The KHL runs check deadlock.

## Fairness

* TLine: a running worker takes its next step, since every call it awaits has a
  timeout and its container restarts it; its loop recovers expired jobs before it
  claims; the expiry of a lease nobody renews passes; the cancel route finishes its
  second write. Crashes, lost heartbeats and operators owe nothing.
* KHL: the worker's loop takes its next step, an abandoned lease expires. Mishaps
  are bounded by a constant, without which a run could be interrupted for ever.
* Liquipedia: chains run, every fetch has a timeout, intervals and cooldowns pass,
  the portal's timer fires.

The other modules state no fairness: what they promise is safety. Nothing obliges a
crashed import or deployment to be started again.

## Three disagreements

* **Stop parks queued runs.** `docs/CODE_GUIDE.md:76` has a cancellation end with job
  and run completed. `stopTLineSchedule` (`scheduleState.ts:49`) only marks them; the
  claim skips a marked queued job and recovery looks at running jobs only. The run
  stays QUEUED and keeps its sport's single active place until it is cancelled by
  hand.
* **A full KHL queue stays full.** The worker's tick enqueues the automatic run before
  it claims (`syncQueue.ts:123`, `syncWorker.ts:30`). With a full queue that throws,
  and the tick ends, although clients are told to wait for the current collection.
* **A retry waits for itself.** `apiRequest` retries from inside its own turn
  (`network.ts:227`, `:264`). On the same route the retry waits for the turn that
  waits for it, and the portal's timeout cannot end it. Imports and searches are
  configured without retries, the portal is not. With several proxies two requests
  can wait for each other the same way, which is why `RequestsEnd` assumes that
  nobody is retried.

## Proofs

All theorems hold for every value of the constants that satisfies the named
assumptions of the modules. Each safety result rests on an inductive invariant; the
proof that a step preserves it has one lemma or step per action of `Next` and, under
it, one substep per conjunct the action can disturb.

`TLineExecutionProofs`

* `Inductive`: `Spec => []IndInv`. `IndInv` is type correctness with five facts it
  cannot do without: a queued job has an attempt left (so that a claim stays within
  `MaxAttempts`, which the claim itself does not check); a run that was not created
  has no job; a worker is busy exactly when it has a run; a token was issued by the
  job it belongs to; and tokens are unique. Uniqueness is not inductive alone: a
  claim takes the next number, and only because every token in use was already
  issued is that number new.
* `TypeCorrect`, `QueuedJobsRunnable`, `FencingTokensUnique` follow from it.
* `SportsHaveOneActiveRun`: from `IndInv` and the two places where a run becomes
  active, creation and the reopening by a retry (`ActiveStep`).
* `EvidenceIsFenced`, `EndsAreFinal`, `CancellationHolds`: action properties, from
  lemmas that say what any step may do to a job (`JobStep`), to a run (`RunStep`), to
  the holder (`HolderStep`) and to evidence (`EvidenceStep`).
* `JobsAreLeased`: `TLineExecution` implements `LeasedJobs`. Initial states map to
  initial states, and every action to one abstract step or a stutter. Two steps need
  the invariant: a claim is a grant only because a queued job has an attempt left,
  and the creation of a run submits a job only because it had none.

`TLineSettlingProofs` assumes `~Overrun`, that no lease expires while its holder
executes; without it a stalled worker may still close a championship of the attempt
that replaced it, and `SettledTogether` is not promised. The invariant `SettleInv`
says: whoever works on a run holds its job on a live lease, so that
only it and cancellations change the run; the championships its loop skips are
exactly those stored before; the loop closes one after the other, and behind it all
are closed; the refresh counted at the end counts all of them; ended runs are closed.
`SettlesTogether` and `ResultsKept` follow.

`TLineSchedulerProofs`: `SchedulerImplements` shows that every step of the scheduler
is a step of `TLineExecution` or leaves its variables alone, so that its theorems
hold of scheduled runs too. `SlotsNotLost` needs that a tick that has read the
schedule holds, in what it has left to do, every slot up to its time that nobody
handled, unless the sport could not be checked at that slot or later (`TicksCover`):
`lastTickAt` is written from a time read long before. A tick that finds the sport
uncheckable drops all it has left; that they are all behind `lastUnset` follows from
`SettingsSound`: while the sport is not checkable `lastUnset` is the clock, and the
time of a tick is never ahead of it.

`KhlSyncProofs`: `SyncInv` has three parts. Rows and processes agree (the control row
names the one running run; the queue differs pairwise; paused means no automatic
run). Checkpoints are honest: a candidate is to do, failed, or stored. And history:
runs are begun in the order of their numbers (`OldestIsFirst`), and a full run covers
what earlier runs found (`FullCovers`), which is why its completion may close
history although an earlier run failed. `CheckpointsNeverGoBack` holds although the
fence has no attempt number, because ticks of one owner follow each other.

`KhlDeliveryProofs`: `BindingInv` (an active revision is a stored valid content;
bindings are made for its identity) gives `BindingsSound`. `StagingInv` adds that a
preview under review and a staged payload have stored contents and consistent ids,
and that the deliveries of a game follow the numbers of its revisions; `PayloadsSound`,
`DeliveriesNeverGoBack` and `AnswersCurrent` follow. The preview is read before the
transaction, and only revision and match are compared: that is enough since every
other change of what it shows changes one of the two or is bound to the identity.

`LiquipediaClientProofs`

* `Inductive`: `Spec => []IndInv`. Its parts: the chains hold exactly the calls that
  are pending, each once (`ChainsExact`, the type invariant of that module); a request
  that is inside a call holds at least one place; whoever executes is first in
  *every* chain it holds, not only in that of its innermost call; whoever sleeps has
  in `waits` all that its channel makes it wait for.
* `ChannelsExclusive`: places are distinct and first places are unique, so two
  requests never work on one channel. With nesting this is not obvious: a request that
  retries elsewhere keeps its first channel.
* `StartsSpaced`, `CooldownsHold`: the code computes a wait once and does not look
  again after the sleep. That is enough because a cooldown or a request time of a
  channel is only written by the request that executes on it, and the sleeper is
  first there: nobody else can (`SleepAside`).

`ImportProofs`

* `ImportInv` (imports of the other sources): a tournament is what the import it names
  read (`SnapshotIsWhole`), rows are written by imports of their page, and, what the
  rest depends on, `ViewCurrent`: a transaction that nobody outdated since it began
  still has what its freshness and foreign-match checks and its snapshot of the rows
  found. The commit writes from that view and not from the tables, so without it
  nothing follows about either. `NoneAssumption` keeps SQL's null and a missing row
  apart from ids. From it: `TournamentsStoredSoundly`; `FresherTournamentImportWins` and
  `LastGoodTournamentKept`, for which no step but a commit writes a match or a
  tournament (`OnlyCommitWrites`); `OperatorsEditsSurvive`, because a commit writes no
  row whose id it did not see.
* `ImporterInv` (Liquipedia): every page an importer has is a snapshot that exists, what
  it will publish was stored (`ProcessSound`), stored and last good pages are snapshots
  that exist (`PagesSound`). Snapshots are only added (`Grown`), so importers in other
  stages disturb nothing. `LiquipediaStoredWhole`, `LiquipediaMainPageAdvances` and
  `LiquipediaLastGoodAdvances` follow; the second from the check inside the
  transaction alone, the third because the publication compares what it replaces.
  `LiquipediaAssumption` says that imports are numbered and that "no import" is no number.

`ServicesProofs` has one part per service.

* Deployments. `DeployInv` says stage by stage what a deployment has left of schema,
  containers and record. Only the holder of the lock is past its first stage
  (`WorksAlone`), so what it leaves when it is cut off is what the next one finds.
* Team mappings. `LocksHold` from `LocksWereSeen`, that an automap has seen every lock
  set since it read, except those it raced; the write's own condition covers the rest.
* Reviews. `ReadsSound`: what a check has read of an id nobody decided about since it
  began is what is stored. It is inductive only because a decision that replaces
  exceptions counts as one about all ids of those it replaces (`About`).
  `ExceptionsAreHeard` proves the second half of `LastWordCounts`, of comparisons of
  both sides. `ReviewAssumption`:
  the matches of the site are finitely many, and "no match" is none of them.
* Monitor. That two operations never meet at a host (`OneOperationPerHost`) needs: active
  probes have different hosts and a probe not yet finished has none that is quarantined
  (`HostsApart`); a living operation is the last attempt of a probe that waits for it,
  or of one that is finished and whose host is then quarantined, unless all was aborted
  (`LiveSound`); after an abort nothing starts (`AbortSound`); an idle runner left
  nothing behind (`IdleIsClean`). `ReportIsWhole` adds what the results say
  (`ResultsSound`). That a free runner finds a probe it may start rests on `Min` of a
  set of numbers, hence on the order of the natural numbers being well-founded.
  `AnnouncementsAreSaid` needs only that the message about to be recorded is that of the
  incidents at hand. `MonitorAssumption`: probes are numbered.
* Consultant. `ConsultantInv` relates five things: what Telegram still has, state.json,
  the process's copy, the batch and the question under way. The usage of the file and of
  the process counts the answers recorded for its date; every recorded answer lies
  below the offset, since an answer's usage and the offset behind it are written at once; what lies below the offset was handled or was there before the first
  start; the batch begins at the offset or later. `QuestionsAreSettled` follows, with the
  cardinality of a set of recorded answers that grows by one. `ConsultantAssumption`:
  the bounds are natural numbers and Telegram may send at least one update.

Only model-checked: all liveness (`RunsEnd` of both queues, `RequestsEnd`), since no
installed prover handles fairness and ENABLED; and of `TLineReview`
`EveryMatchAccountedFor`, `PairsAreBest` and the half of `LastWordCounts` about links
(`LinksCount`). These three say what the folds and the recursive function of the
comparison compute for every list of matches, which takes induction over data. No
module declares a RECURSIVE operator.

## Not modelled

Most lines of the repository keep no state from one step to another: parsers and
normalizers of some thirty sources, network clients, exporters, pages, views and
audit scripts. They are functions from an answer to rows, with no order of events
that could go wrong; here they appear as the outcome of a step. That is why the map
covers a small part of all lines, although it covers what coordinates them.

Left out of parts that are modelled: what games, matches and pages contain; the order
of claims; proxy scores; several sports of one schedule; participants of Liquipedia
tournaments; a `state.json` of the consultant that cannot be read (`state.ts:17-34`),
which the consultant, writing it by renaming, never leaves itself; applied
migrations that the release no longer holds but its policy knows by checksum
(`auto_deploy.py:729-735`); the direct KHL sync of the command line; `remote-redeploy.sh` and
`deploy-khl-release.py`. Left out entirely: the login limit, manual
import and admin upload. Each omission that hides a hazard is listed as one in
`PROJECT.json` with a note.

## Plan

Done: everything in the tree above. What remains, in this order:

1. Participants in `LiquipediaImport`: deleted and created again in a transaction
   that does not see a concurrent edit, against what `participantPreservation.ts`
   promises.
2. `ProxyPool`: the cache against failures reported meanwhile, cooldown and recovery;
   composed with `LiquipediaClient` through the choice of a route.
3. The other deployment scripts, which use other locks; the login limit.
