--------------------------- MODULE TLineScheduler ---------------------------
(***************************************************************************)
(* The schedule tick of tline-worker.ts composed with the execution of the  *)
(* runs it creates.  A worker's main loop is sequential: it recovers, ticks *)
(* and claims in turn, so a worker that ticks executes nothing, while the   *)
(* other workers and the operator go on.                                   *)
(*                                                                         *)
(* The clock is a number; slots are the moments the schedule names.  A tick *)
(* takes its now before it reads the state, and each transaction of its     *)
(* loop is one step.  The settings of the sport are read once in a tick,    *)
(* and an operator may change them at any time.                            *)
(***************************************************************************)
EXTENDS TLineExecution

CONSTANTS
    AutoSport, \* the sport the schedule checks
    Slots,     \* the moments a scheduled run is due
    MaxTime,   \* bound of the clock
    CatchUp,   \* how far a tick looks back, 24 hours in the code
    Changes    \* bound: the moments at which operators may change the settings of the sport

ASSUME AutoSportAssumption == AutoSport \in Sports
ASSUME SlotsAssumption == Slots \subseteq 1..MaxTime /\ MaxTime \in Nat /\ CatchUp \in Nat \ {0}

VARIABLES
    clock,
    schedule,  \* TLineScheduleState: [enabled, lastTick], lastTick 0 when there is none
    checkable, \* TLineSportConfig: the sport is active, with championships and a period to check
    slot,      \* run -> the scheduledAt of its job's idempotency key, 0 for a manual run
    tick,      \* worker -> its tick: [pc, now, todo]
    missed,    \* history: slots a tick met while the sport had an active run, or too old
    firstTick, \* history: the latest moment a tick took for the first one
    lastUnset  \* history: the latest moment the sport was not checkable, 0 when it always was

settings == <<checkable, lastUnset>>
schedulerVars == <<clock, schedule, slot, tick, missed, firstTick, settings>>
allVars == <<vars, schedulerVars>>

NoTick == [pc |-> "none", now |-> 0, todo |-> {}]

SchedulerInit ==
    /\ Init
    /\ clock = 1
    /\ schedule = [enabled |-> FALSE, lastTick |-> 0]
    /\ slot = [r \in Runs |-> 0]
    /\ tick = [w \in Workers |-> NoTick]
    /\ missed = {}
    /\ firstTick = 0
    /\ checkable \in BOOLEAN
    /\ lastUnset = IF checkable THEN 0 ELSE clock

-----------------------------------------------------------------------------
(* One tick.                                                               *)

EndTick(w) == tick' = [tick EXCEPT ![w] = NoTick]

\* The main loop reads the clock, then recovers expired jobs before it ticks.
beginTick(w) ==
    /\ worker[w].pc = "idle"
    /\ tick[w].pc = "none"
    /\ tick' = [tick EXCEPT ![w] = [NoTick EXCEPT !.pc = "read", !.now = clock]]
    /\ UNCHANGED <<vars, clock, schedule, slot, missed, firstTick, settings>>

\* Where the tick starts to look: at the last tick, but not more than CatchUp ago.
From(last, now) == IF now > last + CatchUp THEN now - CatchUp ELSE last

\* computeDueScheduleSlots.
Due(last, now) == {k \in Slots : last < k /\ k <= now}

\* scheduleDueRuns reads the schedule once.  The readiness check that follows may refuse, and
\* a now before the last tick of another worker is an error that ends the process.
readSchedule(w) ==
    /\ tick[w].pc = "read"
    /\ LET now == tick[w].now
           last == schedule.lastTick
       IN  \/ /\ ~schedule.enabled
              /\ EndTick(w)
              /\ UNCHANGED missed
           \/ /\ schedule.enabled
              /\ tick' = [tick EXCEPT ![w].pc = "disable"]
              /\ UNCHANGED missed
           \/ /\ schedule.enabled
              /\ last = 0
              /\ tick' = [tick EXCEPT ![w].pc = "first"]
              /\ UNCHANGED missed
           \/ /\ schedule.enabled
              /\ last > now
              /\ EndTick(w)
              /\ UNCHANGED missed
           \/ /\ schedule.enabled
              /\ last # 0 /\ last <= now
              /\ LET from == From(last, now)
                 IN  /\ tick' = [tick EXCEPT ![w].pc = "sports", ![w].todo = Due(from, now)]
                     /\ missed' = missed \cup Due(last, from)
    /\ UNCHANGED <<vars, clock, schedule, slot, firstTick, settings>>

disableSchedule(w) ==
    /\ tick[w].pc = "disable"
    /\ schedule' = [schedule EXCEPT !.enabled = FALSE]
    /\ EndTick(w)
    /\ UNCHANGED <<vars, clock, slot, missed, firstTick, settings>>

recordFirstTick(w) ==
    /\ tick[w].pc = "first"
    /\ schedule' = [schedule EXCEPT !.lastTick = tick[w].now]
    /\ firstTick' = IF tick[w].now > firstTick THEN tick[w].now ELSE firstTick
    /\ EndTick(w)
    /\ UNCHANGED <<vars, clock, slot, missed, settings>>

\* The sport with its settings.  The loop passes over a sport that is not to be checked, has no
\* championships or offsets, or a period that does not end after it begins: all of that is the same
\* for every slot, so a tick has all its slots before it or none.
readSports(w) ==
    /\ tick[w].pc = "sports"
    /\ tick' = [tick EXCEPT ![w].pc = "create", ![w].todo = IF checkable THEN @ ELSE {}]
    /\ UNCHANGED <<vars, clock, schedule, slot, missed, firstTick, settings>>

\* Mutant: the key does not name the slot.
NoKeyTaken(k) == FALSE

\* The idempotency key of a slot and a sport, unique over all jobs ever created.
KeyTaken(k) == \E r \in Runs : slot[r] = k

\* Slots are taken in order.
NextSlot(w, k) == tick[w].pc = "create" /\ k \in tick[w].todo /\ \A j \in tick[w].todo : k <= j

\* One transaction creates run and job of the next slot ...
createScheduledRun(w, r, k) ==
    /\ NextSlot(w, k)
    /\ ~KeyTaken(k)
    /\ run[r].sport = AutoSport
    /\ scheduleDueRun(r)
    /\ slot' = [slot EXCEPT ![r] = k]
    /\ tick' = [tick EXCEPT ![w].todo = @ \ {k}]
    /\ UNCHANGED <<clock, schedule, missed, firstTick, settings>>

SportBusy == \E r \in Runs : run[r].sport = AutoSport /\ run[r].status \in Active

\* ... or violates a unique index, the key's or the one of the active run: both are swallowed.
swallowCollision(w, k) ==
    /\ NextSlot(w, k)
    /\ KeyTaken(k) \/ SportBusy
    /\ tick' = [tick EXCEPT ![w].todo = @ \ {k}]
    /\ missed' = IF KeyTaken(k) THEN missed ELSE missed \cup {k}
    /\ UNCHANGED <<vars, clock, schedule, slot, firstTick, settings>>

\* Mutant: lastTickAt is written before the runs are created.
SlotsPending(w) == tick[w].pc = "create"

SlotsHandled(w) == tick[w].pc = "create" /\ tick[w].todo = {}

recordTick(w) ==
    /\ SlotsHandled(w)
    /\ schedule' = [schedule EXCEPT !.lastTick = tick[w].now]
    /\ EndTick(w)
    /\ UNCHANGED <<vars, clock, slot, missed, firstTick, settings>>

crashInTick(w) ==
    /\ tick[w].pc # "none"
    /\ EndTick(w)
    /\ UNCHANGED <<vars, clock, schedule, slot, missed, firstTick, settings>>

-----------------------------------------------------------------------------
(* The operator and the clock.                                             *)

\* updateTLineSchedule: the last tick stays where it was.
enableTLineSchedule ==
    /\ ~schedule.enabled
    /\ schedule' = [schedule EXCEPT !.enabled = TRUE]
    /\ UNCHANGED <<vars, clock, slot, tick, missed, firstTick, settings>>

\* stopTLineSchedule: the state and the scheduled runs in one transaction.
stopSchedule ==
    /\ schedule' = [schedule EXCEPT !.enabled = FALSE]
    /\ IF \E r \in Runs : Stoppable(r) /\ ~run[r].cancel THEN stopTLineSchedule
       ELSE schedule.enabled /\ UNCHANGED vars
    /\ UNCHANGED <<clock, slot, tick, missed, firstTick, settings>>

\* The settings of the sport and its championships; any offsets are accepted.
configureSport ==
    /\ clock \in Changes
    /\ checkable' = ~checkable
    /\ lastUnset' = IF checkable' THEN lastUnset ELSE clock
    /\ UNCHANGED <<vars, clock, schedule, slot, tick, missed, firstTick>>

timeAdvances ==
    /\ clock < MaxTime
    /\ clock' = clock + 1
    /\ lastUnset' = IF checkable THEN lastUnset ELSE clock'
    /\ UNCHANGED <<vars, schedule, slot, tick, missed, firstTick, checkable>>

-----------------------------------------------------------------------------

Tick(w) ==
    \/ beginTick(w) \/ readSchedule(w) \/ readSports(w) \/ disableSchedule(w) \/ recordFirstTick(w)
    \/ \E k \in Slots : swallowCollision(w, k) \/ \E r \in Runs : createScheduledRun(w, r, k)
    \/ recordTick(w) \/ crashInTick(w)

\* Everything of TLineExecution but the schedule it abstracts.
ExecutionStep ==
    \/ \E w \in Workers : \/ Execute(w) \/ heartbeatRenews(w) \/ heartbeatLost(w) \/ crash(w)
                          \/ tick[w].pc = "none" /\ \E r \in Runs : claimNextJob(w, r)
    \/ \E r \in Runs : \/ Recover(r) \/ requestManualTLineRun(r) \/ LeaseRunsOut(r)
                       \/ cancelReads(r) \/ cancelWrites(r)

SchedulerNext ==
    \/ ExecutionStep /\ UNCHANGED schedulerVars
    \/ \E w \in Workers : Tick(w)
    \/ enableTLineSchedule \/ stopSchedule \/ configureSport \/ timeAdvances

SchedulerSpec == SchedulerInit /\ [][SchedulerNext]_allVars

-----------------------------------------------------------------------------
(* Properties.                                                             *)

\* A slot is checked at most once, although a crashed tick is repeated and two workers may
\* tick at once and write their lastTickAt in the opposite order.
SlotsRunOnce ==
    \A r, q \in Runs : slot[r] = slot[q] /\ slot[r] # 0 => r = q

\* Every slot the schedule has passed since its first tick was run, unless a tick found the
\* sport busy or the slot older than a day, or the settings left the sport uncheckable when the
\* slot was due or later: no crash, stop, race of ticks or other change of settings loses one.
NoSlotLost ==
    \A k \in Slots :
        firstTick < k /\ k <= schedule.lastTick => KeyTaken(k) \/ k \in missed \/ k <= lastUnset
-----------------------------------------------------------------------------
(* The inductive strengthening the proofs need.                            *)

TickRow == [pc: {"none", "read", "disable", "first", "sports", "create"}, now: Nat, todo: SUBSET Slots]

SchedulerTypeOK ==
    /\ clock \in Nat
    /\ schedule \in [enabled: BOOLEAN, lastTick: Nat]
    /\ slot \in [Runs -> Nat]
    /\ tick \in [Workers -> TickRow]
    /\ firstTick \in Nat
    /\ checkable \in BOOLEAN
    /\ lastUnset \in Nat

\* Only a run that exists has a slot, so no slot is ever taken from its run.
SlotsBelongToRuns == \A r \in Runs : slot[r] # 0 => run[r].status # "NONE"

\* Ticks look back, and what is said of the past is up to date.
SettingsSound ==
    /\ lastUnset <= clock
    /\ ~checkable => lastUnset = clock
    /\ \A w \in Workers : tick[w].now <= clock

\* A tick that has read the schedule has before it, in todo, every slot up to its now that nobody
\* handled while the sport was checkable: its lastTick will be true whenever it is written.
TicksCover ==
    \A w \in Workers : tick[w].pc \in {"sports", "create"} =>
        \A k \in Slots : firstTick < k /\ k <= tick[w].now =>
            KeyTaken(k) \/ k \in missed \/ k \in tick[w].todo \/ k <= lastUnset

SchedulerInv ==
    SchedulerTypeOK /\ SlotsBelongToRuns /\ SlotsRunOnce /\ SettingsSound /\ TicksCover /\ NoSlotLost
=============================================================================
