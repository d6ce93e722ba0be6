--------------------------- MODULE ParserMonitor ---------------------------
(***************************************************************************)
(* The weekly reliability monitor of the parsers (scripts/parser-monitor.ts *)
(* and backend/src/monitoring): it runs the probes of all sources, a few at *)
(* a time and one per host, retries them, writes the report and tells the  *)
(* Telegram chat when the set of incidents changed.                        *)
(*                                                                         *)
(* A probe's adapter may ignore the signal that aborts it.  The process may *)
(* get SIGTERM (58 minutes are over) or be killed at any time.  An incident *)
(* is a required probe with its status; its error class is left out, and so *)
(* is healthy_empty, which counts as healthy.  Of the report files only what *)
(* is announced of them is kept.                                           *)
(***************************************************************************)
EXTENDS Naturals, FiniteSets, FiniteSetsExt

CONSTANTS
    LastProbe,       \* the probes are 1..LastProbe, in the order of the registry
    HostOf,            \* [probe -> host]
    Required,        \* probes whose failure is an incident
    MaxConcurrency,
    MaxAttempts      \* one more than the retry delays

ASSUME MonitorAssumption == LastProbe \in Nat

Probes == 1..LastProbe
Problems == {"warning", "failed"}

VARIABLES
    runner,      \* what the process does
    task,        \* [Probes -> stage and attempt of runProbe]
    live,        \* operations of adapters that have not settled: <<probe, attempt>>
    quarantinedHosts,
    results,
    aborted,     \* the process got SIGTERM
    incidents,   \* of the report to be announced
    failing,     \* it is the report of a failure of the runner itself
    alerted,     \* state.json: the incidents last announced, {} for none
    said,        \* history: the last message in the chat
    unrecorded   \* history: state.json does not tell of that message

monitorVars == <<runner, task, live, quarantinedHosts, results, aborted, incidents, failing,
                 alerted, said, unrecorded>>

Probing == <<task, live, quarantinedHosts, results>>
Announcing == <<incidents, failing, alerted, said, unrecorded>>

RunnerIncident == {<<0, "failed">>}
NoResults == [p \in Probes |-> "none"]
AllPending == [p \in Probes |-> [stage |-> "pending", attempt |-> 0]]

MonitorInit ==
    /\ runner = "idle" /\ aborted = FALSE
    /\ task = AllPending /\ live = {} /\ quarantinedHosts = {} /\ results = NoResults
    /\ incidents = {} /\ failing = FALSE
    /\ alerted = {} /\ said = {} /\ unrecorded = FALSE

InStage(p, stages) == task[p].stage \in stages
Active == {p \in Probes : InStage(p, {"attempt", "cleanup", "sleep"})}
Waiting == {p \in Probes : InStage(p, {"pending"})}
LastAttempt(p) == task[p].attempt = MaxAttempts

\* flock: one process at a time.
startRun ==
    /\ runner = "idle"
    /\ runner' \in {"probing", "failure"}
    /\ task' = AllPending /\ quarantinedHosts' = {} /\ results' = NoResults
    /\ UNCHANGED <<live, aborted, Announcing>>

-----------------------------------------------------------------------------
(* runScheduled and runProbe. *)

Eligible(p) == HostOf[p] \notin {HostOf[q] : q \in Active} \cup quarantinedHosts

StartsAttempt(p, n) ==
    /\ task' = [task EXCEPT ![p] = [stage |-> "attempt", attempt |-> n]]
    /\ live' = live \cup {<<p, n>>}

\* The first probe whose host is free takes the free slot.
startProbe ==
    /\ runner = "probing" /\ ~aborted
    /\ Cardinality(Active) < MaxConcurrency
    /\ \E p \in Waiting : Eligible(p)
    /\ StartsAttempt(Min({p \in Waiting : Eligible(p)}), 1)
    /\ UNCHANGED <<runner, quarantinedHosts, results, aborted, Announcing>>

NeedsRetry(p, status) == status = "failed" \/ (p \in Required /\ status = "warning")

\* An attempt of probe p ends with a status of its own.
Concludes(p, status) ==
    IF NeedsRetry(p, status) /\ ~LastAttempt(p)
    THEN task' = [task EXCEPT ![p].stage = "sleep"] /\ UNCHANGED results
    ELSE /\ task' = [task EXCEPT ![p].stage = "finished"]
         /\ results' = [results EXCEPT ![p] = status]

\* The adapter answers in time.
answers(p) ==
    /\ InStage(p, {"attempt"}) /\ <<p, task[p].attempt>> \in live
    /\ live' = live \ {<<p, task[p].attempt>>}
    /\ \E status \in {"healthy"} \cup Problems : Concludes(p, status)
    /\ UNCHANGED <<runner, quarantinedHosts, aborted, Announcing>>

\* Mutant: a probe that timed out is concluded at once, whatever its adapter still does.
CleanUpUnawaited(p) == Concludes(p, "failed")

AwaitsCleanup(p) == task' = [task EXCEPT ![p].stage = "cleanup"] /\ UNCHANGED results

timesOut(p) ==
    /\ InStage(p, {"attempt"}) /\ ~aborted
    /\ AwaitsCleanup(p)
    /\ UNCHANGED <<runner, live, quarantinedHosts, aborted, Announcing>>

\* The adapter settles after the abort; its answer no longer counts.
cleansUp(p) ==
    /\ InStage(p, {"cleanup"})
    /\ live' = live \ {<<p, task[p].attempt>>}
    /\ IF aborted
       THEN task' = [task EXCEPT ![p].stage = "finished"] /\ UNCHANGED results
       ELSE Concludes(p, "failed")
    /\ UNCHANGED <<runner, quarantinedHosts, aborted, Announcing>>

\* Mutant: the probes that will not run are taken off the queue, and no more.
OnlyOwn(p) == {p}

GivesUp(p) == {p} \cup {q \in Waiting : HostOf[q] = HostOf[p]}

\* It does not settle within the grace: no other probe will touch its host in this run.
graceOver(p) ==
    /\ InStage(p, {"cleanup"})
    /\ IF aborted
       THEN task' = [task EXCEPT ![p].stage = "finished"] /\ UNCHANGED <<quarantinedHosts, results>>
       ELSE /\ quarantinedHosts' = quarantinedHosts \cup {HostOf[p]}
            /\ task' = [q \in Probes |-> IF q = p \/ (q \in Waiting /\ HostOf[q] = HostOf[p])
                                         THEN [task[q] EXCEPT !.stage = "finished"] ELSE task[q]]
            /\ results' = [q \in Probes |-> IF q \in GivesUp(p) THEN "failed" ELSE results[q]]
    /\ UNCHANGED <<runner, live, aborted, Announcing>>

wakes(p) ==
    /\ InStage(p, {"sleep"})
    /\ StartsAttempt(p, task[p].attempt + 1)
    /\ UNCHANGED <<runner, quarantinedHosts, results, aborted, Announcing>>

\* An adapter that had ignored its abort settles at last.
settlesLate(p, n) ==
    /\ <<p, n>> \in live /\ InStage(p, {"finished"})
    /\ live' = live \ {<<p, n>>}
    /\ UNCHANGED <<runner, task, quarantinedHosts, results, aborted, Announcing>>

\* SIGTERM aborts what runs and nothing after the report is written.
abort ==
    /\ runner # "idle" /\ ~aborted
    /\ aborted' = TRUE
    /\ task' = [p \in Probes |->
          [task[p] EXCEPT !.stage = CASE @ = "attempt" -> "cleanup"
                                      [] @ = "sleep" -> "finished"
                                      [] OTHER -> @]]
    /\ UNCHANGED <<runner, live, quarantinedHosts, results, Announcing>>

\* All active tasks have settled: main ends without a report.
unwind ==
    /\ runner = "probing" /\ aborted /\ Active = {}
    /\ runner' = "exit"
    /\ UNCHANGED <<Probing, aborted, Announcing>>

-----------------------------------------------------------------------------
(* The report and its announcement. *)

\* Where main goes when something throws.
Thrown == IF aborted THEN "exit" ELSE "failure"

writeReport ==
    /\ runner = "probing" /\ ~aborted /\ Active \cup Waiting = {}
    /\ incidents' = {<<p, results[p]>> : p \in {q \in Required : results[q] \in Problems}}
    /\ failing' = FALSE
    /\ runner' \in {"announce", "failure"}
    /\ UNCHANGED <<Probing, aborted, alerted, said, unrecorded>>

\* handleParserMonitorRunnerFailure: another report takes the place of the first; an error is logged.
runnerFailure ==
    /\ runner = "failure"
    /\ incidents' = RunnerIncident /\ failing' = TRUE
    /\ runner' = "announce"
    /\ UNCHANGED <<Probing, aborted, alerted, said, unrecorded>>

AfterFailure == IF failing THEN "exit" ELSE Thrown

\* processTelegramTransition: there is a message when the incidents differ from those announced.
sendTelegramMessage ==
    /\ runner = "announce" /\ incidents # alerted
    /\ said' = incidents /\ unrecorded' = TRUE
    /\ runner' \in {"record", AfterFailure}
    /\ UNCHANGED <<Probing, aborted, incidents, failing, alerted>>

\* Mutant: an error of Telegram is logged, and the run goes on.
Ignored == "record"

AfterError == AfterFailure

sendFails ==
    /\ runner = "announce"
    /\ runner' = AfterError
    /\ UNCHANGED <<Probing, aborted, Announcing>>

noTransition ==
    /\ runner = "announce" /\ incidents = alerted
    /\ runner' = "exit"
    /\ UNCHANGED <<Probing, aborted, Announcing>>

persistState ==
    /\ runner = "record"
    /\ \/ alerted' = incidents /\ unrecorded' = FALSE /\ runner' = "exit"
       \/ UNCHANGED <<alerted, unrecorded>> /\ runner' = AfterFailure
    /\ UNCHANGED <<Probing, aborted, incidents, failing, said>>

\* The process ends when nothing runs in it any more ...
exit ==
    /\ runner = "exit" /\ live = {}
    /\ runner' = "idle" /\ aborted' = FALSE
    /\ task' = AllPending /\ quarantinedHosts' = {} /\ results' = NoResults
    /\ incidents' = {} /\ failing' = FALSE
    /\ UNCHANGED <<live, alerted, said, unrecorded>>

\* ... or is killed, with all that runs in it.
killed ==
    /\ runner # "idle"
    /\ runner' = "idle" /\ aborted' = FALSE
    /\ task' = AllPending /\ live' = {} /\ quarantinedHosts' = {} /\ results' = NoResults
    /\ incidents' = {} /\ failing' = FALSE
    /\ UNCHANGED <<alerted, said, unrecorded>>

MonitorNext ==
    \/ startRun \/ startProbe
    \/ \E p \in Probes :
          \/ answers(p) \/ timesOut(p) \/ cleansUp(p) \/ graceOver(p) \/ wakes(p)
          \/ \E n \in 1..MaxAttempts : settlesLate(p, n)
    \/ abort \/ unwind \/ writeReport \/ runnerFailure
    \/ sendTelegramMessage \/ sendFails \/ noTransition \/ persistState
    \/ exit \/ killed

MonitorSpec == MonitorInit /\ [][MonitorNext]_monitorVars

-----------------------------------------------------------------------------
(* Properties. *)

\* A source is never asked twice at a time: not by two probes of one host, not by a retry after a
\* timeout, and not after an adapter that ignored its abort and is still at it.
OneOperationPerHost ==
    \A a, b \in live : HostOf[a[1]] = HostOf[b[1]] => a = b

\* The report names every probe, those that were never started included, and calls none healthy
\* whose adapter is still running; until then some probe runs or can start.
ReportIsWhole ==
    /\ runner = "announce" /\ ~failing =>
          \A p \in Probes : results[p] # "none" /\ (results[p] = "healthy" => \A o \in live : o[1] # p)
    /\ runner = "probing" /\ ~aborted /\ Active = {} /\ Waiting # {} => \E p \in Waiting : Eligible(p)

\* Adapters that hang, retries and quarantined hosts neither let two operations meet at a host nor
\* leave a probe out of the report.
ProbingIsSound == OneOperationPerHost /\ ReportIsWhole

\* What state.json calls announced is what the chat was told last, unless a run was cut off, or
\* could not write the file, after its message.
AnnouncedIsSaid == ~unrecorded => alerted = said
=============================================================================
