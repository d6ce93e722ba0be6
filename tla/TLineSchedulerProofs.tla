------------------------ MODULE TLineSchedulerProofs ------------------------
(* Proofs about the schedule tick, for any number of workers that tick.     *)
EXTENDS TLineScheduler, TLineExecutionProofs

-----------------------------------------------------------------------------
(* The scheduler drives the runs of TLineExecution.                        *)

\* Whatever the scheduler does is a step of the execution, or leaves it alone.
LEMMA ExecutionSteps == [SchedulerNext]_allVars => [Next]_vars
<1> SUFFICES ASSUME SchedulerNext PROVE [Next]_vars
    BY DEF allVars
<1>1. CASE ExecutionStep
    BY <1>1 DEF ExecutionStep, Next, Environment
<1>2. ASSUME NEW w \in Workers, Tick(w) PROVE [Next]_vars
  <2>1. CASE \E k \in Slots, r \in Runs : createScheduledRun(w, r, k)
      BY <2>1 DEF createScheduledRun, Next, Environment
  <2>2. CASE ~\E k \in Slots, r \in Runs : createScheduledRun(w, r, k)
      BY <1>2, <2>2 DEF Tick, beginTick, readSchedule, readSports, disableSchedule, recordFirstTick,
                        swallowCollision, recordTick, crashInTick
  <2> QED BY <2>1, <2>2
<1>3. CASE enableTLineSchedule \/ configureSport \/ timeAdvances
    BY <1>3 DEF enableTLineSchedule, configureSport, timeAdvances
<1>4. CASE stopSchedule
    BY <1>4 DEF stopSchedule, Next, Environment
<1> QED BY <1>1, <1>2, <1>3, <1>4 DEF SchedulerNext

\* The composition implements the execution it is composed with: what is proved of that holds
\* here, with any schedule.
THEOREM SchedulerImplements == SchedulerSpec => Spec
<1>1. SchedulerInit => Init
    BY DEF SchedulerInit
<1> QED BY <1>1, ExecutionSteps, PTL DEF SchedulerSpec, Spec

\* With the scheduler too, a sport never has two active runs.
THEOREM ScheduledSportsHaveOneActiveRun == SchedulerSpec => []OneActiveRunPerSport
BY SchedulerImplements, SportsHaveOneActiveRun, PTL

-----------------------------------------------------------------------------
(* Slots.                                                                  *)

\* Initially there is neither a tick nor a slot.
LEMMA SchedulerInitInv == SchedulerInit => SchedulerInv
BY SlotsAssumption
   DEF SchedulerInit, SchedulerInv, SchedulerTypeOK, TickRow, NoTick, SlotsBelongToRuns,
       SlotsRunOnce, SettingsSound, TicksCover, NoSlotLost

\* A tick takes no slot from a run, so a slot that is taken stays taken.
LEMMA SlotsStay ==
    ASSUME TypeOK, SchedulerInv, [SchedulerNext]_allVars, NEW r \in Runs, slot[r] # 0
    PROVE  slot'[r] = slot[r] /\ run'[r].status # "NONE"
<1>1. run'[r].status # "NONE"
    BY RunStep, ExecutionSteps DEF SchedulerInv, SlotsBelongToRuns
<1>2. slot'[r] = slot[r]
  <2>1. ASSUME NEW w \in Workers, NEW q \in Runs, NEW k \in Slots, createScheduledRun(w, q, k)
        PROVE  slot'[r] = slot[r]
      BY <2>1 DEF createScheduledRun, scheduleDueRun, createRunWithJob, SchedulerInv,
                  SchedulerTypeOK, SlotsBelongToRuns
  <2>2. CASE UNCHANGED slot
      BY <2>2
  <2> QED BY <2>1, <2>2
          DEF SchedulerNext, schedulerVars, settings, allVars, Tick, beginTick, readSchedule, readSports, disableSchedule,
              recordFirstTick, swallowCollision, recordTick, crashInTick, enableTLineSchedule,
              stopSchedule, configureSport, timeAdvances
<1> QED BY <1>1, <1>2

\* The step of a worker's tick leaves the other ticks, and all steps but those leave all of them.
LEMMA TicksApart ==
    ASSUME SchedulerInv, [SchedulerNext]_allVars, NEW w \in Workers, tick'[w] # tick[w]
    PROVE  Tick(w)
<1> USE DEF SchedulerInv, SchedulerTypeOK
<1>1. ASSUME NEW v \in Workers, Tick(v), v # w PROVE tick'[w] = tick[w]
    BY <1>1 DEF Tick, beginTick, readSchedule, readSports, disableSchedule, recordFirstTick, createScheduledRun,
                swallowCollision, recordTick, crashInTick, EndTick
<1>2. ASSUME ~\E v \in Workers : Tick(v) PROVE tick' = tick
    BY <1>2 DEF SchedulerNext, schedulerVars, settings, allVars, enableTLineSchedule, stopSchedule, configureSport, timeAdvances
<1> QED BY <1>1, <1>2

\* What the history says of the past is never taken back, and neither is a slot.
LEMMA HistoryGrows ==
    ASSUME TypeOK, SchedulerInv, [SchedulerNext]_allVars
    PROVE  /\ firstTick' \in Nat /\ firstTick' >= firstTick
           /\ missed \subseteq missed'
           /\ \A k \in Slots : KeyTaken(k) => KeyTaken(k)'
<1>1. firstTick' \in Nat /\ firstTick' >= firstTick /\ missed \subseteq missed'
  <2> USE DEF SchedulerInv, SchedulerTypeOK
  <2>1. ASSUME NEW w \in Workers, recordFirstTick(w) PROVE firstTick' \in Nat /\ firstTick' >= firstTick /\ missed' = missed
      BY <2>1 DEF recordFirstTick, TickRow
  <2>2. ASSUME NEW w \in Workers, Tick(w), ~recordFirstTick(w) PROVE firstTick' = firstTick /\ missed \subseteq missed'
      BY <2>2 DEF Tick, beginTick, readSchedule, readSports, disableSchedule, createScheduledRun,
                  swallowCollision, recordTick, crashInTick
  <2>3. ASSUME ~\E w \in Workers : Tick(w) PROVE firstTick' = firstTick /\ missed' = missed
      BY <2>3 DEF SchedulerNext, schedulerVars, settings, allVars, enableTLineSchedule, stopSchedule, configureSport, timeAdvances
  <2> QED BY <2>1, <2>2, <2>3
<1>2. ASSUME NEW k \in Slots, KeyTaken(k) PROVE KeyTaken(k)'
  <2>1. PICK r \in Runs : slot[r] = k
      BY <1>2 DEF KeyTaken
  <2>2. slot'[r] = k
      BY <2>1, SlotsStay, SlotsAssumption
  <2> QED BY <2>2 DEF KeyTaken
<1> QED BY <1>1, <1>2

LEMMA SchedulerTypeStep ==
    ASSUME SchedulerInv, [SchedulerNext]_allVars
    PROVE  SchedulerTypeOK'
<1> USE DEF SchedulerInv, SchedulerTypeOK, TickRow
<1>1. ASSUME NEW w \in Workers, Tick(w) PROVE SchedulerTypeOK'
  <2>1. NoTick \in TickRow /\ tick[w] \in TickRow
      BY DEF NoTick
  <2>2. CASE beginTick(w)
      BY <2>2, <2>1 DEF beginTick, NoTick, settings
  <2>3. CASE readSchedule(w)
    <3>1. \A last, now : Due(last, now) \subseteq Slots
        BY DEF Due
    <3>2. UNCHANGED <<clock, schedule, slot, firstTick, settings>>
        BY <2>3 DEF readSchedule
    <3>3. tick' \in [Workers -> TickRow]
      <4>1. \/ tick' = [tick EXCEPT ![w] = NoTick]
            \/ tick' = [tick EXCEPT ![w].pc = "disable"]
            \/ tick' = [tick EXCEPT ![w].pc = "first"]
            \/ \E todo \in SUBSET Slots : tick' = [tick EXCEPT ![w].pc = "sports", ![w].todo = todo]
          BY <2>3, <3>1 DEF readSchedule, EndTick
      <4>2. /\ [tick[w] EXCEPT !.pc = "disable"] \in TickRow
            /\ [tick[w] EXCEPT !.pc = "first"] \in TickRow
          BY <2>1
      <4>3. \A todo \in SUBSET Slots : [[tick[w] EXCEPT !.pc = "sports"] EXCEPT !.todo = todo] \in TickRow
          BY <2>1
      <4>4. CASE tick' = [tick EXCEPT ![w].pc = "disable"] \/ tick' = [tick EXCEPT ![w].pc = "first"]
          BY <4>4, <4>2
      <4>5. ASSUME NEW todo \in SUBSET Slots, tick' = [tick EXCEPT ![w].pc = "sports", ![w].todo = todo]
            PROVE  tick' \in [Workers -> TickRow]
          BY <4>5, <4>3
      <4> QED BY <4>1, <4>4, <4>5, <2>1
    <3> QED BY <3>2, <3>3 DEF settings
  <2>4. CASE disableSchedule(w)
      BY <2>4, <2>1 DEF disableSchedule, EndTick, settings
  <2>5. CASE recordFirstTick(w)
      BY <2>5, <2>1 DEF recordFirstTick, EndTick, settings
  <2>6. ASSUME NEW k \in Slots, swallowCollision(w, k) PROVE SchedulerTypeOK'
      BY <2>6, <2>1 DEF swallowCollision, settings
  <2>7. ASSUME NEW k \in Slots, NEW r \in Runs, createScheduledRun(w, r, k) PROVE SchedulerTypeOK'
    <3>1. k \in Nat
        BY SlotsAssumption
    <3> QED BY <2>7, <2>1, <3>1 DEF createScheduledRun, settings
  <2>8. CASE recordTick(w)
      BY <2>8, <2>1 DEF recordTick, EndTick, settings
  <2>9. CASE crashInTick(w)
      BY <2>9, <2>1 DEF crashInTick, EndTick, settings
  <2>10. CASE readSports(w)
    <3>1. [[tick[w] EXCEPT !.pc = "create"] EXCEPT !.todo = IF checkable THEN tick[w].todo ELSE {}] \in TickRow
        BY <2>1
    <3> QED BY <2>10, <3>1 DEF readSports, settings
  <2> QED BY <1>1, <2>2, <2>3, <2>4, <2>5, <2>6, <2>7, <2>8, <2>9, <2>10 DEF Tick
<1>2. CASE enableTLineSchedule \/ stopSchedule \/ configureSport \/ timeAdvances
  <2>1. [schedule EXCEPT !.enabled = TRUE] \in [enabled: BOOLEAN, lastTick: Nat]
      OBVIOUS
  <2>2. [schedule EXCEPT !.enabled = FALSE] \in [enabled: BOOLEAN, lastTick: Nat]
      OBVIOUS
  <2>3. CASE enableTLineSchedule
      BY <2>3, <2>1 DEF enableTLineSchedule, settings
  <2>4. CASE stopSchedule
      BY <2>4, <2>2 DEF stopSchedule, settings
  <2>5. CASE timeAdvances
      BY <2>5 DEF timeAdvances
  <2>6. CASE configureSport
      BY <2>6 DEF configureSport
  <2> QED BY <1>2, <2>3, <2>4, <2>5, <2>6
<1>3. CASE UNCHANGED schedulerVars
    BY <1>3 DEF schedulerVars, settings
<1> QED BY <1>1, <1>2, <1>3 DEF SchedulerNext, allVars

\* What any step does to a slot: nothing, or the creation of its run while the key was free.
LEMMA SlotStep ==
    ASSUME TypeOK, SchedulerInv, [SchedulerNext]_allVars, NEW r \in Runs, slot'[r] # slot[r]
    PROVE  \E w \in Workers, k \in Slots : createScheduledRun(w, r, k) /\ slot'[r] = k
<1> USE DEF SchedulerInv, SchedulerTypeOK
<1>1. PICK w \in Workers, q \in Runs, k \in Slots : createScheduledRun(w, q, k)
    BY DEF SchedulerNext, schedulerVars, settings, allVars, Tick, beginTick, readSchedule, readSports, disableSchedule,
           recordFirstTick, swallowCollision, recordTick, crashInTick, enableTLineSchedule,
           stopSchedule, configureSport, timeAdvances
<1>2. slot' = [slot EXCEPT ![q] = k]
    BY <1>1 DEF createScheduledRun
<1>3. q = r /\ slot'[r] = k
    BY <1>2
<1> QED BY <1>1, <1>3

LEMMA BelongStep ==
    ASSUME TypeOK, SchedulerInv, [SchedulerNext]_allVars
    PROVE  SlotsBelongToRuns'
<1> SUFFICES ASSUME NEW r \in Runs, slot'[r] # 0 PROVE run'[r].status # "NONE"
    BY DEF SlotsBelongToRuns
<1>1. CASE slot'[r] = slot[r]
    BY <1>1, SlotsStay
<1>2. CASE slot'[r] # slot[r]
  <2>1. PICK w \in Workers, k \in Slots : createScheduledRun(w, r, k)
      BY <1>2, SlotStep
  <2>2. run' = [run EXCEPT ![r] = [@ EXCEPT !.status = "QUEUED", !.scheduled = TRUE]]
      BY <2>1 DEF createScheduledRun, scheduleDueRun, createRunWithJob
  <2>3. run \in [Runs -> RunRow]
      BY DEF TypeOK
  <2> QED BY <2>2, <2>3 DEF RunRow
<1> QED BY <1>1, <1>2

\* The key of a slot is unique over all jobs ever created, so a second run finds it taken.
LEMMA OnceStep ==
    ASSUME TypeOK, SchedulerInv, [SchedulerNext]_allVars
    PROVE  SlotsRunOnce'
<1> SUFFICES ASSUME NEW r \in Runs, NEW q \in Runs, slot'[r] = slot'[q], slot'[r] # 0, r # q
             PROVE  FALSE
    BY DEF SlotsRunOnce
<1>1. ASSUME NEW x \in Runs, NEW y \in Runs, x # y, slot'[x] # slot[x], slot'[x] = slot'[y]
      PROVE  FALSE
  <2>1. PICK w \in Workers, k \in Slots : createScheduledRun(w, x, k) /\ slot'[x] = k
      BY <1>1, SlotStep
  <2>2. slot[y] = k /\ ~KeyTaken(k)
      BY <1>1, <2>1 DEF createScheduledRun, SchedulerInv, SchedulerTypeOK
  <2> QED BY <2>2 DEF KeyTaken
<1>2. slot'[r] = slot[r] /\ slot'[q] = slot[q]
    BY <1>1
<1> QED BY <1>2 DEF SchedulerInv, SlotsRunOnce

\* What is said of the settings is only added to, and no tick is ahead of the clock.
LEMMA SettingsStep ==
    ASSUME SchedulerInv, [SchedulerNext]_allVars
    PROVE  SettingsSound' /\ lastUnset' \in Nat /\ lastUnset' >= lastUnset
<1> USE DEF SchedulerInv, SchedulerTypeOK, TickRow
<1>1. ASSUME NEW w \in Workers, Tick(w), UNCHANGED <<clock, settings>> PROVE SettingsSound'
  <2>1. tick'[w].now <= clock
    <3>1. NoTick.now <= clock
        BY DEF NoTick
    <3>2. CASE beginTick(w)
        BY <3>2 DEF beginTick
    <3>3. CASE readSchedule(w) \/ readSports(w)
        BY <3>1, <3>3 DEF readSchedule, readSports, EndTick, SettingsSound
    <3>4. CASE disableSchedule(w) \/ recordFirstTick(w) \/ recordTick(w) \/ crashInTick(w)
        BY <3>1, <3>4 DEF disableSchedule, recordFirstTick, recordTick, crashInTick, EndTick
    <3>5. ASSUME NEW k \in Slots, swallowCollision(w, k) \/ \E r \in Runs : createScheduledRun(w, r, k)
          PROVE  tick'[w].now <= clock
        BY <3>5 DEF swallowCollision, createScheduledRun, SettingsSound
    <3> QED BY <1>1, <3>2, <3>3, <3>4, <3>5 DEF Tick
  <2>2. \A v \in Workers : v # w => tick'[v] = tick[v]
      BY <1>1 DEF Tick, beginTick, readSchedule, readSports, disableSchedule, recordFirstTick,
                  createScheduledRun, swallowCollision, recordTick, crashInTick, EndTick
  <2> QED BY <1>1, <2>1, <2>2 DEF SettingsSound, settings
<1>2. ASSUME NEW w \in Workers, Tick(w) PROVE UNCHANGED <<clock, settings>>
    BY <1>2 DEF Tick, beginTick, readSchedule, readSports, disableSchedule, recordFirstTick,
                createScheduledRun, swallowCollision, recordTick, crashInTick
<1>3. CASE configureSport \/ timeAdvances
  <2>1. tick' = tick /\ clock' \in Nat /\ clock <= clock' /\ lastUnset' \in {lastUnset, clock'}
        /\ (~checkable' => lastUnset' = clock')
      BY <1>3 DEF configureSport, timeAdvances
  <2>2. \A w \in Workers : tick[w].now \in Nat /\ tick[w].now <= clock
      BY DEF SettingsSound
  <2>3. lastUnset \in Nat /\ lastUnset <= clock /\ clock \in Nat
      BY DEF SettingsSound
  <2> HIDE DEF SchedulerInv, SchedulerTypeOK, TickRow
  <2>4. \A w \in Workers : tick[w].now <= clock'
      BY <2>1, <2>2, <2>3
  <2> QED BY <2>1, <2>3, <2>4 DEF SettingsSound
<1>4. CASE UNCHANGED <<clock, tick, settings>>
    BY <1>4 DEF SettingsSound, settings
<1>5. CASE \E w \in Workers : Tick(w)
    BY <1>1, <1>2, <1>5 DEF settings
<1> QED BY <1>3, <1>4, <1>5
        DEF SchedulerNext, schedulerVars, allVars, enableTLineSchedule, stopSchedule, settings

\* A tick sees from the last tick to its now, and takes a slot out of todo only when it was
\* run, is run, or meets the sport busy; it drops all of them when the sport is not checkable now,
\* which is after all of them were due.
LEMMA CoverStep ==
    ASSUME TypeOK, SchedulerInv, [SchedulerNext]_allVars
    PROVE  TicksCover'
<1> USE DEF SchedulerInv, SchedulerTypeOK, TickRow
<1> SUFFICES ASSUME NEW w \in Workers, tick'[w].pc \in {"sports", "create"},
                    NEW k \in Slots, firstTick' < k, k <= tick'[w].now,
                    ~KeyTaken(k)', k \notin missed', ~(k <= lastUnset')
             PROVE  k \in tick'[w].todo
    BY DEF TicksCover, KeyTaken
<1>1. k \in Nat /\ firstTick < k /\ ~KeyTaken(k) /\ k \notin missed /\ ~(k <= lastUnset)
    BY HistoryGrows, SettingsStep, SlotsAssumption
<1>2. CASE tick'[w] = tick[w]
    BY <1>1, <1>2 DEF TicksCover
<1>3. CASE tick'[w] # tick[w]
  <2>1. Tick(w)
      BY <1>3, TicksApart
  <2>2. CASE readSchedule(w)
    <3> DEFINE now == tick[w].now
               last == schedule.lastTick
    <3>1. /\ last <= now /\ tick'[w].now = now
          /\ tick'[w].todo = Due(From(last, now), now)
          /\ missed' = missed \cup Due(last, From(last, now))
        BY <2>2 DEF readSchedule, EndTick, NoTick
    <3>2. ~(k <= last)
        BY <1>1 DEF NoSlotLost
    <3>3. last \in Nat /\ now \in Nat /\ From(last, now) \in Nat
        BY SlotsAssumption DEF From
    <3>4. ~(k <= From(last, now))
      <4>1. k \notin Due(last, From(last, now))
          BY <3>1
      <4> HIDE DEF now, last
      <4> QED BY <1>1, <3>2, <3>3, <4>1 DEF Due
    <3> QED BY <1>1, <3>1, <3>3, <3>4 DEF Due
  <2>3. ASSUME NEW j \in Slots, swallowCollision(w, j) PROVE k \in tick'[w].todo
    <3>1. tick'[w] = [tick[w] EXCEPT !.todo = @ \ {j}] /\ tick[w].pc = "create"
        BY <2>3 DEF swallowCollision, NextSlot
    <3>2. k # j
        BY <2>3, <1>1 DEF swallowCollision
    <3> QED BY <1>1, <3>1, <3>2 DEF TicksCover
  <2>4. ASSUME NEW j \in Slots, NEW r \in Runs, createScheduledRun(w, r, j) PROVE k \in tick'[w].todo
    <3>1. tick'[w] = [tick[w] EXCEPT !.todo = @ \ {j}] /\ tick[w].pc = "create"
        BY <2>4 DEF createScheduledRun, NextSlot
    <3>2. KeyTaken(j)'
        BY <2>4 DEF createScheduledRun, KeyTaken
    <3>3. k # j
        BY <3>2 DEF KeyTaken
    <3> QED BY <1>1, <3>1, <3>3 DEF TicksCover
  <2>5. CASE beginTick(w)
    <3>1. tick'[w].pc = "read"
        BY <2>5 DEF beginTick, NoTick
    <3> QED BY <3>1
  <2>6. CASE disableSchedule(w) \/ recordFirstTick(w) \/ recordTick(w) \/ crashInTick(w)
    <3>1. tick'[w] = NoTick
        BY <2>6 DEF disableSchedule, recordFirstTick, recordTick, crashInTick, EndTick
    <3> QED BY <3>1 DEF NoTick
  <2>7. CASE readSports(w)
    <3>1. tick[w].pc = "sports" /\ tick'[w].now = tick[w].now /\ k \in tick[w].todo
        BY <2>7, <1>1 DEF readSports, TicksCover
    <3>2. checkable
      <4>1. tick[w].now <= clock /\ (~checkable => lastUnset = clock) /\ tick[w].now \in Nat /\ clock \in Nat
          BY DEF SettingsSound
      <4> QED BY <1>1, <3>1, <4>1
    <3> QED BY <2>7, <3>1, <3>2 DEF readSports
  <2> QED BY <2>1, <2>2, <2>3, <2>4, <2>5, <2>6, <2>7 DEF Tick
<1> QED BY <1>2, <1>3

\* lastTickAt moves only to the now of a tick that has nothing left to do, or of a first one.
LEMMA LostStep ==
    ASSUME TypeOK, SchedulerInv, [SchedulerNext]_allVars
    PROVE  NoSlotLost'
<1> USE DEF SchedulerInv, SchedulerTypeOK, TickRow
<1> SUFFICES ASSUME NEW k \in Slots, firstTick' < k, k <= schedule'.lastTick,
                    ~KeyTaken(k)', k \notin missed', ~(k <= lastUnset')
             PROVE  FALSE
    BY DEF NoSlotLost, KeyTaken
<1>1. k \in Nat /\ firstTick < k /\ ~KeyTaken(k) /\ k \notin missed /\ ~(k <= lastUnset)
    BY HistoryGrows, SettingsStep, SlotsAssumption
<1>2. CASE schedule'.lastTick = schedule.lastTick
    BY <1>1, <1>2 DEF NoSlotLost
<1>3. ASSUME NEW w \in Workers, recordFirstTick(w) PROVE FALSE
  <2>1. tick[w].now \in Nat /\ firstTick \in Nat
      OBVIOUS
  <2>2. k <= tick[w].now
      BY <1>3 DEF recordFirstTick
  <2>3. firstTick' = IF tick[w].now > firstTick THEN tick[w].now ELSE firstTick
      BY <1>3 DEF recordFirstTick
  <2>4. k \in Nat /\ firstTick' < k
      BY <1>1
  <2> HIDE DEF TickRow, SchedulerTypeOK, SchedulerInv
  <2> QED BY <2>1, <2>2, <2>3, <2>4
<1>4. ASSUME NEW w \in Workers, recordTick(w) PROVE FALSE
    BY <1>1, <1>4 DEF recordTick, SlotsHandled, TicksCover
<1>5. CASE schedule'.lastTick # schedule.lastTick
  <2>1. \E w \in Workers : recordFirstTick(w) \/ recordTick(w)
    <3>1. ASSUME NEW w \in Workers, disableSchedule(w) PROVE FALSE
        BY <3>1, <1>5 DEF disableSchedule
    <3>2. CASE enableTLineSchedule \/ stopSchedule
        BY <3>2, <1>5 DEF enableTLineSchedule, stopSchedule
    <3>3. schedule' # schedule
        BY <1>5
    <3> QED BY <3>1, <3>2, <3>3
            DEF SchedulerNext, schedulerVars, settings, allVars, Tick, beginTick, readSchedule,
                readSports, createScheduledRun, swallowCollision, crashInTick, configureSport, timeAdvances
  <2> QED BY <2>1, <1>3, <1>4
<1> QED BY <1>2, <1>5

-----------------------------------------------------------------------------

\* The strengthened invariant of the tick, for any number of workers that tick, crash and race.
THEOREM SchedulerInductive == SchedulerSpec => []SchedulerInv
<1>1. TypeOK /\ SchedulerInv /\ [SchedulerNext]_allVars => SchedulerInv'
    BY SchedulerTypeStep, BelongStep, OnceStep, SettingsStep, CoverStep, LostStep DEF SchedulerInv
<1> QED BY <1>1, SchedulerInitInv, SchedulerImplements, TypeCorrect, PTL DEF SchedulerSpec

\* However many workers tick at once, a slot is run at most once.
THEOREM ScheduledOnce == SchedulerSpec => []SlotsRunOnce
<1>1. SchedulerInv => SlotsRunOnce
    BY DEF SchedulerInv
<1> QED BY <1>1, SchedulerInductive, PTL

\* No crash, Stop, race of ticks or change of settings loses a slot that was due while the sport
\* was checkable and has been since, whichever worker writes lastTickAt last.
THEOREM SlotsNotLost == SchedulerSpec => []NoSlotLost
<1>1. SchedulerInv => NoSlotLost
    BY DEF SchedulerInv
<1> QED BY <1>1, SchedulerInductive, PTL
=============================================================================
