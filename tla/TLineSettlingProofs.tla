------------------------- MODULE TLineSettlingProofs -------------------------
(***************************************************************************)
(* When no lease expires while its holder executes, job and run settle      *)
(* together and a stored result is never lost, for every number of runs,    *)
(* championships, workers and attempts.  The theorems assume ~Overrun: with *)
(* a holder that lost its lease the code does not promise either.           *)
(***************************************************************************)
EXTENDS TLineExecutionProofs

-----------------------------------------------------------------------------
(* One worker, by the values it sees: s is its state, st the statuses of    *)
(* its run's championships and row the run.                                 *)

\* Closing out ends all championships, and changes none when all have ended.
LEMMA ClosedOut ==
    ASSUME NEW st \in [Champs -> Status], NEW to \in Terminal
    PROVE  /\ AllClosed(CloseOut(st, to)) /\ Processed(CloseOut(st, to)) = Champs
           /\ AllClosed(st) => CloseOut(st, to) = st
           /\ \A c \in Champs : st[c] \in Completed => CloseOut(st, to)[c] = st[c]
           /\ \A c \in Champs : CloseOut(st, to)[c] \in Completed =>
                 st[c] \in Completed \/ to \in Completed
  BY DEF CloseOut, Processed, AllClosed, Status, Active, Terminal, Completed

\* A status is final or not, and what counts as processed is what is final.
LEMMA ClosedCounts ==
    ASSUME NEW st \in [Champs -> Status], AllClosed(st)
    PROVE  Processed(st) = Champs
  BY DEF Processed, AllClosed, Status, Active, Terminal

\* The placeholder for "no championship" is none.
LEMMA NotAChampionship == NoChamp \notin Champs
  BY NoChampAssumption

\* Steps that leave the loop owe nothing.
LEMMA Outside ==
    ASSUME NEW s, NEW st, NEW row, s.pc \in {"load", "fail", "failing", "sweep"},
           s.pc = "load" => s.cur = NoChamp,
           s.pc = "sweep" \/ s.cancelled => row.cancel
    PROVE  InOrder(s, st, row)
  BY DEF InOrder, SkipsStored, LoopCloses

\* The loaded run is skipped where it is complete.
LEMMA LoadInOrder ==
    ASSUME NEW s \in WorkerState, NEW st \in [Champs -> Status], NEW row \in RunRow,
           InOrder(s, st, row), s.pc = "load",
           NEW t, t = [s EXCEPT !.pc = "open", !.todo = Champs,
                                !.skip = {c \in Champs : st[c] \in Completed}]
    PROVE  InOrder(t, st, row)
  <1>1. /\ t.pc = "open" /\ t.todo = Champs /\ t.skip = {c \in Champs : st[c] \in Completed}
        /\ t.cur = s.cur /\ t.cancelled = s.cancelled
    BY DEF WorkerState
  <1>2. QED
    BY <1>1 DEF InOrder, SkipsStored, LoopCloses

\* Opening the run makes it RUNNING and starts the loop, or ends it without championships.
LEMMA OpenInOrder ==
    ASSUME NEW s \in WorkerState, NEW st \in [Champs -> Status], NEW row \in RunRow,
           InOrder(s, st, row), s.pc = "open",
           NEW t, t = [s EXCEPT !.pc = IF s.todo = {} THEN "resolve" ELSE "next"],
           NEW row2, row2 = [row EXCEPT !.status = "RUNNING"]
    PROVE  InOrder(t, st, row2)
  <1>1. /\ t.pc = IF s.todo = {} THEN "resolve" ELSE "next"
        /\ t.todo = s.todo /\ t.skip = s.skip /\ t.cur = s.cur /\ t.cancelled = s.cancelled
    BY DEF WorkerState
  <1>2. row2.status = "RUNNING" /\ row2.cancel = row.cancel
    BY DEF RunRow
  <1>3. QED
    BY <1>1, <1>2 DEF InOrder, SkipsStored, LoopCloses

\* A skipped championship is one whose result is stored.
LEMMA SkipInOrder ==
    ASSUME NEW s \in WorkerState, NEW st \in [Champs -> Status], NEW row \in RunRow,
           InOrder(s, st, row), s.pc = "next", NEW c \in s.todo \cap s.skip,
           NEW t, t = [s EXCEPT !.pc = "count", !.cur = c, !.seen = Processed(st)]
    PROVE  InOrder(t, st, row)
  <1>1. /\ t.pc = "count" /\ t.cur = c
        /\ t.todo = s.todo /\ t.skip = s.skip /\ t.cancelled = s.cancelled
    BY DEF WorkerState
  <1>2. c \in Champs /\ c # NoChamp
    BY NotAChampionship DEF WorkerState
  <1>3. st[c] \in Completed
    BY DEF InOrder, SkipsStored
  <1>4. QED
    BY <1>1, <1>2, <1>3 DEF InOrder, SkipsStored, LoopCloses, Completed, Terminal

\* A cancelled run is swept, otherwise the next championship begins.
LEMMA CheckInOrder ==
    ASSUME NEW s \in WorkerState, NEW st \in [Champs -> Status], NEW row \in RunRow,
           InOrder(s, st, row), s.pc = "next", NEW c \in s.todo \ s.skip,
           NEW t, \/ row.cancel /\ t = [s EXCEPT !.pc = "sweep", !.cancelled = TRUE]
                  \/ ~row.cancel /\ t = [s EXCEPT !.pc = "mark", !.cur = c]
    PROVE  InOrder(t, st, row)
  <1>1. CASE row.cancel
    <2>1. t.pc = "sweep"
      BY <1>1 DEF WorkerState
    <2>2. QED
      BY <1>1, <2>1 DEF InOrder, SkipsStored
  <1>2. CASE ~row.cancel
    <2>1. /\ t.pc = "mark" /\ t.cur = c
          /\ t.todo = s.todo /\ t.skip = s.skip /\ t.cancelled = s.cancelled
      BY <1>2 DEF WorkerState
    <2>2. QED
      BY <1>2, <2>1 DEF InOrder, SkipsStored, LoopCloses
  <1>3. QED
    BY <1>1, <1>2

\* The current championship runs, is stored or fails; the others are as they were.
LEMMA WorkInOrder ==
    ASSUME NEW s \in WorkerState, NEW st \in [Champs -> Status], NEW row \in RunRow,
           InOrder(s, st, row),
           NEW step, NEW to,
           \/ s.pc = "mark" /\ step = "work" /\ to = "RUNNING"
           \/ s.pc = "work" /\ step = "progress" /\ to \in Completed
           \/ s.pc = "failChamp" /\ step = "progress" /\ to = "FAILED",
           NEW t, t = [s EXCEPT !.pc = step],
           NEW st2, st2 = [st EXCEPT ![s.cur] = to]
    PROVE  InOrder(t, st2, row)
  <1>1. /\ t.pc = step /\ t.todo = s.todo /\ t.skip = s.skip /\ t.cur = s.cur
        /\ t.cancelled = s.cancelled
    BY DEF WorkerState
  <1>2. s.cur \in s.todo \ s.skip /\ s.todo \subseteq Champs /\ s.cur # NoChamp
    BY NotAChampionship DEF InOrder, SkipsStored, WorkerState
  <1>3. st2[s.cur] = to /\ \A c \in Champs : c # s.cur => st2[c] = st[c]
    BY <1>2
  <1>4. SkipsStored(t, st2)
    BY <1>1, <1>2, <1>3 DEF InOrder, SkipsStored, Completed
  <1>5. ~row.cancel => LoopCloses(t, st2, row)
    BY <1>1, <1>2, <1>3 DEF InOrder, LoopCloses, Completed, Terminal
  <1>6. QED
    BY <1>1, <1>4, <1>5 DEF InOrder

\* An error of the championship is recorded next.
LEMMA ErrorInOrder ==
    ASSUME NEW s \in WorkerState, NEW st \in [Champs -> Status], NEW row \in RunRow,
           InOrder(s, st, row), s.pc \in {"mark", "work"},
           NEW t, t = [s EXCEPT !.pc = "failChamp"]
    PROVE  InOrder(t, st, row)
  <1>1. /\ t.pc = "failChamp" /\ t.todo = s.todo /\ t.skip = s.skip /\ t.cur = s.cur
        /\ t.cancelled = s.cancelled
    BY DEF WorkerState
  <1>2. QED
    BY <1>1 DEF InOrder, SkipsStored, LoopCloses

\* The last refresh reads that all championships are processed.
LEMMA ReadInOrder ==
    ASSUME NEW s \in WorkerState, NEW st \in [Champs -> Status], NEW row \in RunRow,
           InOrder(s, st, row), s.pc = "progress",
           NEW t, t = [s EXCEPT !.pc = "count", !.seen = Processed(st)]
    PROVE  InOrder(t, st, row)
  <1>1. /\ t.pc = "count" /\ t.todo = s.todo /\ t.skip = s.skip /\ t.cur = s.cur
        /\ t.cancelled = s.cancelled /\ t.seen = Processed(st)
    BY DEF WorkerState
  <1>2. ~row.cancel /\ s.cur = NoChamp => Processed(st) = Champs
    BY ClosedCounts DEF InOrder, LoopCloses, AllClosed
  <1>3. QED
    BY <1>1, <1>2 DEF InOrder, SkipsStored, LoopCloses

\* A refresh takes its championship off the list, the last one leads to the final status.
LEMMA CountInOrder ==
    ASSUME NEW s \in WorkerState, NEW st \in [Champs -> Status], NEW row \in RunRow,
           InOrder(s, st, row), s.pc = "count",
           NEW left, left = s.todo \ {s.cur},
           NEW t, t = [s EXCEPT !.todo = left, !.cur = NoChamp, !.seen = {},
                                !.pc = IF s.cur = NoChamp THEN "finish"
                                       ELSE IF left = {} THEN "resolve" ELSE "next"],
           NEW row2, row2 = [row EXCEPT !.processed = s.seen]
    PROVE  InOrder(t, st, row2)
  <1>1. /\ t.todo = left /\ t.cur = NoChamp /\ t.skip = s.skip /\ t.cancelled = s.cancelled
        /\ t.pc = IF s.cur = NoChamp THEN "finish" ELSE IF left = {} THEN "resolve" ELSE "next"
    BY DEF WorkerState
  <1>2. row2.processed = s.seen /\ row2.cancel = row.cancel /\ row2.status = row.status
    BY DEF RunRow
  <1>3. SkipsStored(t, st)
    BY <1>1 DEF InOrder, SkipsStored
  <1>4. ASSUME ~row.cancel PROVE LoopCloses(t, st, row2)
    <2>1. /\ row.status = "RUNNING" /\ \A c \in Champs \ s.todo : st[c] \in Terminal
          /\ s.cur = NoChamp => s.todo = {} /\ s.seen = Champs
          /\ s.cur # NoChamp => st[s.cur] \in Terminal
      BY <1>4 DEF InOrder, LoopCloses
    <2>2. QED
      BY <1>1, <1>2, <2>1 DEF LoopCloses
  <1>5. QED
    BY <1>1, <1>2, <1>3, <1>4 DEF InOrder

\* The final status is resolved when all championships were looked at.
LEMMA ResolveInOrder ==
    ASSUME NEW s \in WorkerState, NEW st \in [Champs -> Status], NEW row \in RunRow,
           InOrder(s, st, row), s.pc = "resolve", NEW final,
           NEW t, t = [s EXCEPT !.pc = "progress", !.final = final, !.todo = {}, !.skip = {},
                                !.cancelled = FALSE]
    PROVE  InOrder(t, st, row)
  <1>1. /\ t.pc = "progress" /\ t.todo = {} /\ t.skip = {} /\ t.cur = s.cur /\ t.cancelled = FALSE
    BY DEF WorkerState
  <1>2. QED
    BY <1>1 DEF InOrder, SkipsStored, LoopCloses

\* The run takes its final status only when it is counted and closed.
LEMMA FinishInOrder ==
    ASSUME NEW s \in WorkerState, NEW st \in [Champs -> Status], NEW row \in RunRow,
           InOrder(s, st, row), s.pc = "finish",
           NEW t, t = [s EXCEPT !.pc = "complete"],
           NEW row2, row2 = [row EXCEPT !.status = s.final]
    PROVE  InOrder(t, st, row2)
  <1>1. t.pc = "complete" /\ t.final = s.final /\ t.cancelled = s.cancelled
    BY DEF WorkerState
  <1>2. row2.status = s.final /\ row2.cancel = row.cancel /\ row2.processed = row.processed
    BY DEF RunRow
  <1>3. QED
    BY <1>1, <1>2 DEF InOrder, SkipsStored, LoopCloses, AllClosed

\* A cancelled run is swept and then resolved.
LEMMA SweepInOrder ==
    ASSUME NEW s \in WorkerState, NEW st, NEW row \in RunRow, row.cancel,
           NEW t, t = [s EXCEPT !.pc = "resolve"]
    PROVE  InOrder(t, st, row)
  <1>1. t.pc = "resolve"
    BY DEF WorkerState
  <1>2. QED
    BY <1>1 DEF InOrder, SkipsStored

-----------------------------------------------------------------------------
(* The steps of a worker's own control flow.                               *)

\* Each leaves its worker in order, or without a run.
LEMMA ExecuteInOrder ==
    ASSUME IndInv, NEW w \in Workers, Execute(w), NEW r \in Runs, worker[w].run = r,
           InOrder(worker[w], champ[r], run[r])
    PROVE  worker'[w].run # NoRun => InOrder(worker'[w], champ'[r], run'[r])
  <1> DEFINE Goal == worker'[w].run # NoRun => InOrder(worker'[w], champ'[r], run'[r])
  <1>1. PICK s \in WorkerState, st \in [Champs -> Status], row \in RunRow :
            s = worker[w] /\ st = champ[r] /\ row = run[r]
    BY DEF IndInv, TypeOK
  <1>2. /\ InOrder(s, st, row) /\ s.run = r /\ worker \in [Workers -> WorkerState]
        /\ champ \in [Runs -> [Champs -> Status]] /\ run \in [Runs -> RunRow]
    BY <1>1 DEF IndInv, TypeOK
  <1>3. IdleWorker.run = NoRun
    BY DEF IdleWorker
  <1>4. CASE worker'[w] = IdleWorker
    BY <1>3, <1>4
  <1>5. ASSUME NEW t, NEW st2, NEW row2, worker'[w] \in {IdleWorker, t}, champ'[r] = st2, run'[r] = row2,
               InOrder(t, st2, row2)
        PROVE  Goal
    BY <1>3, <1>5
  <1>6. CASE loadRun(w)
    <2> DEFINE t == [s EXCEPT !.pc = "open", !.todo = Champs, !.skip = {c \in Champs : st[c] \in Completed}]
    <2>1. worker'[w] \in {IdleWorker, t} /\ champ'[r] = st /\ run'[r] = row
      BY <1>1, <1>2, <1>6 DEF loadRun, DoneAlready
    <2>2. InOrder(t, st, row)
      BY <1>1, <1>2, <1>6, LoadInOrder DEF loadRun
    <2> HIDE DEF t
    <2>3. QED
      BY <1>5, <2>1, <2>2
  <1>7. ASSUME worker' = [worker EXCEPT ![w] = Thrown(w)], champ' = champ, run' = run PROVE Goal
    <2>1. PICK t : t = [IdleWorker EXCEPT !.pc = "fail", !.run = s.run, !.token = s.token]
      OBVIOUS
    <2>2. t.pc = "fail" /\ t.cancelled = FALSE
      BY <2>1 DEF IdleWorker
    <2>3. InOrder(t, st, row)
      BY <2>2, Outside
    <2>4. worker'[w] \in {IdleWorker, t} /\ champ'[r] = st /\ run'[r] = row
      BY <1>1, <1>2, <1>7, <2>1 DEF Thrown
    <2>5. QED
      BY <1>5, <2>3, <2>4
  <1>8. CASE openRun(w)
    <2>1. CASE run[r].status \notin Active /\ AnotherActive(r)
      BY <1>1, <1>2, <1>7, <1>8, <2>1 DEF openRun
    <2>2. CASE ~(run[r].status \notin Active /\ AnotherActive(r))
      <3>1. PICK t, row2 : /\ t = [s EXCEPT !.pc = IF s.todo = {} THEN "resolve" ELSE "next"]
                           /\ row2 = [row EXCEPT !.status = "RUNNING"]
        OBVIOUS
      <3>2. InOrder(t, st, row2)
        BY <1>1, <1>2, <1>8, <3>1, OpenInOrder DEF openRun
      <3>3. worker'[w] \in {IdleWorker, t} /\ champ'[r] = st /\ run'[r] = row2
        BY <1>1, <1>2, <1>8, <2>2, <3>1 DEF openRun, GoOn, AfterLoop
      <3>4. QED
        BY <1>5, <3>2, <3>3
    <2>3. QED
      BY <2>1, <2>2
  <1>9. ASSUME NEW c \in Champs, skipChampionship(w, c) PROVE Goal
    <2>1. PICK t : t = [s EXCEPT !.pc = "count", !.cur = c, !.seen = Processed(st)]
      OBVIOUS
    <2>2. InOrder(t, st, row)
      BY <1>1, <1>2, <1>9, <2>1, SkipInOrder DEF skipChampionship
    <2>3. worker'[w] \in {IdleWorker, t} /\ champ'[r] = st /\ run'[r] = row
      BY <1>1, <1>2, <1>9, <2>1 DEF skipChampionship
    <2>4. QED
      BY <1>5, <2>2, <2>3
  <1>10. ASSUME NEW c \in Champs, checkCancellation(w, c) PROVE Goal
    <2>1. PICK t : t = IF row.cancel THEN [s EXCEPT !.pc = "sweep", !.cancelled = TRUE]
                       ELSE [s EXCEPT !.pc = "mark", !.cur = c]
      OBVIOUS
    <2>2. InOrder(t, st, row)
      BY <1>1, <1>2, <1>10, <2>1, CheckInOrder DEF checkCancellation
    <2>3. worker'[w] \in {IdleWorker, t} /\ champ'[r] = st /\ run'[r] = row
      BY <1>1, <1>2, <1>10, <2>1 DEF checkCancellation
    <2>4. QED
      BY <1>5, <2>2, <2>3
  <1>11. ASSUME NEW step, NEW to,
                \/ s.pc = "mark" /\ step = "work" /\ to = "RUNNING"
                \/ s.pc = "work" /\ step = "progress" /\ to \in Completed
                \/ s.pc = "failChamp" /\ step = "progress" /\ to = "FAILED",
                worker' = [worker EXCEPT ![w].pc = step], run' = run,
                champ' = [champ EXCEPT ![worker[w].run][worker[w].cur] = to]
         PROVE  Goal
    <2>1. PICK t, st2 : t = [s EXCEPT !.pc = step] /\ st2 = [st EXCEPT ![s.cur] = to]
      OBVIOUS
    <2>2. InOrder(t, st2, row)
      BY <1>2, <1>11, <2>1, WorkInOrder
    <2>3. worker'[w] \in {IdleWorker, t} /\ champ'[r] = st2 /\ run'[r] = row
      BY <1>1, <1>2, <1>11, <2>1
    <2>4. QED
      BY <1>5, <2>2, <2>3
  <1>12. CASE markChampionship(w)
    BY <1>1, <1>11, <1>12 DEF markChampionship
  <1>13. CASE Store(w)
    <2>1. PICK rows \in SUBSET Matches, outcome \in Completed : storeEvidence(w, rows, outcome)
      BY <1>13 DEF Store
    <2>2. QED
      BY <1>1, <1>11, <2>1 DEF storeEvidence
  <1>14. CASE failChampionship(w)
    BY <1>1, <1>11, <1>14 DEF failChampionship
  <1>15. CASE championshipError(w)
    <2>1. PICK t : t = [s EXCEPT !.pc = "failChamp"]
      OBVIOUS
    <2>2. InOrder(t, st, row)
      BY <1>1, <1>2, <1>15, <2>1, ErrorInOrder DEF championshipError
    <2>3. worker'[w] \in {IdleWorker, t} /\ champ'[r] = st /\ run'[r] = row
      BY <1>1, <1>2, <1>15, <2>1 DEF championshipError, GoOn
    <2>4. QED
      BY <1>5, <2>2, <2>3
  <1>16. CASE readProgress(w)
    <2>1. PICK t : t = [s EXCEPT !.pc = "count", !.seen = Processed(st)]
      OBVIOUS
    <2>2. InOrder(t, st, row)
      BY <1>1, <1>2, <1>16, <2>1, ReadInOrder DEF readProgress
    <2>3. worker'[w] \in {IdleWorker, t} /\ champ'[r] = st /\ run'[r] = row
      BY <1>1, <1>2, <1>16, <2>1 DEF readProgress
    <2>4. QED
      BY <1>5, <2>2, <2>3
  <1>17. CASE refreshRunProgress(w)
    <2>1. PICK left : left = s.todo \ {s.cur}
      OBVIOUS
    <2>2. PICK t, row2 : /\ t = [s EXCEPT !.todo = left, !.cur = NoChamp, !.seen = {},
                                          !.pc = IF s.cur = NoChamp THEN "finish"
                                                 ELSE IF left = {} THEN "resolve" ELSE "next"]
                         /\ row2 = [row EXCEPT !.processed = s.seen]
      OBVIOUS
    <2>3. InOrder(t, st, row2)
      BY <1>1, <1>2, <1>17, <2>1, <2>2, CountInOrder DEF refreshRunProgress
    <2>4. worker'[w] \in {IdleWorker, t} /\ champ'[r] = st /\ run'[r] = row2
      BY <1>1, <1>2, <1>17, <2>1, <2>2 DEF refreshRunProgress
    <2>5. QED
      BY <1>5, <2>3, <2>4
  <1>18. CASE sweepCancelled(w)
    <2>1. PICK t, st2 : t = [s EXCEPT !.pc = "resolve"] /\ st2 = champ'[r]
      OBVIOUS
    <2>2. row.cancel
      BY <1>1, <1>2, <1>18 DEF sweepCancelled, InOrder
    <2>3. InOrder(t, st2, row)
      BY <2>1, <2>2, SweepInOrder
    <2>4. worker'[w] \in {IdleWorker, t} /\ champ'[r] = st2 /\ run'[r] = row
      BY <1>1, <1>2, <1>18, <2>1 DEF sweepCancelled
    <2>5. QED
      BY <1>5, <2>3, <2>4
  <1>19. CASE resolveRun(w)
    <2>1. PICK final : final = IF worker[w].cancelled THEN "CANCELLED"
                               ELSE resolveRunFinalStatus(champ[worker[w].run])
      OBVIOUS
    <2>2. PICK t : t = [s EXCEPT !.pc = "progress", !.final = final, !.todo = {}, !.skip = {},
                                 !.cancelled = FALSE]
      OBVIOUS
    <2>3. InOrder(t, st, row)
      BY <1>1, <1>2, <1>19, <2>2, ResolveInOrder DEF resolveRun
    <2>4. worker'[w] \in {IdleWorker, t} /\ champ'[r] = st /\ run'[r] = row
      BY <1>1, <1>2, <1>19, <2>1, <2>2 DEF resolveRun
    <2>5. QED
      BY <1>5, <2>3, <2>4
  <1>20. CASE finishRun(w)
    <2>1. PICK t, row2 : t = [s EXCEPT !.pc = "complete"] /\ row2 = [row EXCEPT !.status = s.final]
      OBVIOUS
    <2>2. InOrder(t, st, row2)
      BY <1>1, <1>2, <1>20, <2>1, FinishInOrder DEF finishRun
    <2>3. worker'[w] \in {IdleWorker, t} /\ champ'[r] = st /\ run'[r] = row2
      BY <1>1, <1>2, <1>20, <2>1 DEF finishRun, GoOn
    <2>4. QED
      BY <1>5, <2>2, <2>3
  <1>21. CASE executorError(w)
    BY <1>7, <1>21 DEF executorError
  <1>22. CASE failBegins(w)
    <2>1. PICK t : t = [s EXCEPT !.pc = "failing"]
      OBVIOUS
    <2>2. t.pc = "failing" /\ t.cancelled = s.cancelled
      BY <2>1 DEF WorkerState
    <2>3. InOrder(t, st, row)
      BY <1>2, <2>2 DEF InOrder, SkipsStored, LoopCloses
    <2>4. worker'[w] \in {IdleWorker, t} /\ champ'[r] = st /\ run'[r] = row
      BY <1>1, <1>2, <1>22, <2>1 DEF failBegins
    <2>5. QED
      BY <1>5, <2>3, <2>4
  <1>23. CASE evidenceRefused(w) \/ completeJob(w) \/ completionRefused(w) \/ failRefused(w)
              \/ failCommits(w) \/ leave(w)
    BY <1>2, <1>4, <1>23
       DEF evidenceRefused, completeJob, completionRefused, failRefused, failCommits, leave
  <1>24. QED
    BY <1>6, <1>8, <1>9, <1>10, <1>12, <1>13, <1>14, <1>15, <1>16, <1>17, <1>18, <1>19, <1>20,
       <1>21, <1>22, <1>23 DEF Execute

-----------------------------------------------------------------------------
(* Who works on a run holds its job.                                       *)

\* Until its holder leaves it, a job keeps its holder, its attempt and its lease: only a lease
\* that nobody uses runs out, and recovery looks at no other.
LEMMA HeldJobStays ==
    ASSUME ~Overrun, IndInv, HoldersHold, [Next]_vars, NEW v \in Workers, NEW r \in Runs,
           worker[v].run = r, worker'[v].run = r
    PROVE  /\ job'[r].status = "RUNNING" /\ job'[r].owner = v /\ job'[r].live
           /\ job'[r].attempts = worker[v].token
  <1> DEFINE Goal == /\ job'[r].status = "RUNNING" /\ job'[r].owner = v /\ job'[r].live
                     /\ job'[r].attempts = worker[v].token
  <1>1. /\ job \in [Runs -> JobRow] /\ job[r] \in JobRow /\ worker \in [Workers -> WorkerState]
        /\ UncreatedRunHasNoJob
    BY DEF IndInv, TypeOK
  <1>2. r # NoRun
    BY NoRunAssumption
  <1>3. /\ job[r].status = "RUNNING" /\ job[r].owner = v /\ job[r].live
        /\ job[r].attempts = worker[v].token
    BY <1>2 DEF HoldersHold, Owns
  <1>4. CASE job'[r] = job[r]
    BY <1>3, <1>4
  <1>5. ASSUME NEW w \in Workers, NEW q \in Runs, claimNextJob(w, q) PROVE Goal
    BY <1>1, <1>3, <1>4, <1>5 DEF claimNextJob
  <1>6. ASSUME NEW q \in Runs, NEW b \in BOOLEAN, createRunWithJob(q, b) PROVE Goal
    BY <1>1, <1>3, <1>4, <1>6 DEF createRunWithJob, UncreatedRunHasNoJob, NoJobRow
  <1>7. ASSUME NEW q \in Runs, LeaseRunsOut(q) PROVE Goal
    BY <1>1, <1>3, <1>4, <1>7 DEF LeaseRunsOut, Executing
  <1>8. ASSUME NEW q \in Runs, Recover(q) PROVE Goal
    BY <1>1, <1>3, <1>4, <1>8 DEF Recover, requeueExpiredJob, finishExpiredJob, Expired
  <1>9. ASSUME NEW w \in Workers, completeJob(w) \/ failCommits(w) PROVE Goal
    <2>1. worker'[w].run = NoRun
      BY <1>1, <1>9 DEF completeJob, failCommits, IdleWorker
    <2>2. w # v
      BY <1>2, <2>1
    <2>3. \/ job' = job
          \/ Owns(w) /\ \E x : job' = [job EXCEPT ![worker[w].run] = x]
      BY <1>9 DEF completeJob, failCommits, HasLease
    <2>4. Owns(w) => worker[w].run # r
      BY <1>3, <2>2 DEF Owns
    <2>5. QED
      BY <1>1, <1>4, <2>3, <2>4
  <1>10. ASSUME NEW w \in Workers, heartbeatRenews(w) \/ Store(w) PROVE Goal
    <2>1. job' = [job EXCEPT ![worker[w].run].live = TRUE]
      BY <1>10 DEF heartbeatRenews, Store, storeEvidence
    <2>2. LET row == [job[r] EXCEPT !.live = TRUE]
          IN  row.status = job[r].status /\ row.owner = job[r].owner
              /\ row.attempts = job[r].attempts /\ row.live
      BY <1>1 DEF JobRow
    <2>3. QED
      BY <1>1, <1>3, <2>1, <2>2
  <1>11. LET row == [job[r] EXCEPT !.cancel = TRUE]
         IN  row.status = job[r].status /\ row.owner = job[r].owner
             /\ row.attempts = job[r].attempts /\ row.live = job[r].live
    BY <1>1 DEF JobRow
  <1>12. ASSUME NEW q \in Runs, cancelWrites(q) PROVE Goal
    BY <1>1, <1>3, <1>4, <1>11, <1>12 DEF cancelWrites, buildCancelJobQuery
  <1>13. CASE stopTLineSchedule
    BY <1>1, <1>3, <1>11, <1>13 DEF stopTLineSchedule
  <1>14. ASSUME NEW w \in Workers, Execute(w) PROVE Goal
    BY <1>4, <1>9, <1>10, <1>14
       DEF Execute, loadRun, openRun, skipChampionship, checkCancellation, markChampionship,
           evidenceRefused, championshipError, failChampionship, readProgress, refreshRunProgress,
           sweepCancelled, resolveRun, finishRun, completionRefused, executorError, failBegins, failRefused, leave
  <1>15. CASE Environment
    BY <1>4, <1>6, <1>7, <1>10, <1>12, <1>13, <1>15
       DEF Environment, requestManualTLineRun, scheduleDueRun, cancelReads, heartbeatLost, crash
  <1>16. QED
    BY <1>4, <1>5, <1>8, <1>14, <1>15 DEF Next, vars

\* So whoever works on a run keeps holding its job.
LEMMA HoldersStep == ~Overrun /\ IndInv /\ HoldersHold /\ [Next]_vars => HoldersHold'
  <1> SUFFICES ASSUME ~Overrun, IndInv, HoldersHold, [Next]_vars, NEW v \in Workers, worker'[v].run # NoRun
               PROVE  Owns(v)' /\ job'[worker'[v].run].live
    BY DEF HoldersHold
  <1>1. TypeOK /\ job \in [Runs -> JobRow] /\ worker \in [Workers -> WorkerState]
    BY DEF IndInv, TypeOK
  <1>2. ASSUME NEW r \in Runs, claimNextJob(v, r)
        PROVE  Owns(v)' /\ job'[worker'[v].run].live
    <2>1. PICK row, s : /\ row = [job[r] EXCEPT !.status = "RUNNING", !.owner = v, !.live = TRUE,
                                              !.attempts = NextAttempt(r)]
                        /\ s = [IdleWorker EXCEPT !.pc = "load", !.run = r, !.token = NextAttempt(r)]
      OBVIOUS
    <2>2. /\ row.status = "RUNNING" /\ row.owner = v /\ row.live /\ row.attempts = NextAttempt(r)
          /\ s.run = r /\ s.token = NextAttempt(r)
      BY <1>1, <2>1 DEF JobRow, IdleWorker
    <2>3. job'[r] = row /\ worker'[v] = s
      BY <1>1, <1>2, <2>1 DEF claimNextJob
    <2>4. r # NoRun
      BY NoRunAssumption
    <2>5. QED
      BY <2>2, <2>3, <2>4 DEF Owns
  <1>3. CASE worker'[v].run = worker[v].run /\ worker'[v].token = worker[v].token
    <2>1. worker[v].run \in Runs
      BY <1>1, <1>3 DEF WorkerState
    <2>2. QED
      BY <1>3, <2>1, HeldJobStays DEF Owns
  <1>4. QED
    BY <1>1, <1>2, <1>3, HolderStep DEF IdleWorker


-----------------------------------------------------------------------------
(* Who changes a run, and who a worker.                                    *)

\* A worker changes only by its own steps, by a claim, by losing a heartbeat or by a crash.
LEMMA WorkerAside ==
    ASSUME TypeOK, [Next]_vars, NEW v \in Workers
    PROVE  \/ Execute(v)
           \/ \E r \in Runs : claimNextJob(v, r)
           \/ worker'[v] \in {worker[v], IdleWorker, [worker[v] EXCEPT !.aborted = TRUE]}
  <1> DEFINE Goal == \/ Execute(v)
                     \/ \E r \in Runs : claimNextJob(v, r)
                     \/ worker'[v] \in {worker[v], IdleWorker, [worker[v] EXCEPT !.aborted = TRUE]}
  <1>1. worker \in [Workers -> WorkerState]
    BY DEF TypeOK
  <1>2. CASE worker' = worker
    BY <1>2
  <1>3. ASSUME NEW w \in Workers, NEW x, worker' = [worker EXCEPT ![w] = x], w # v PROVE Goal
    BY <1>1, <1>3
  <1>4. ASSUME NEW w \in Workers, Execute(w), w # v PROVE worker'[v] = worker[v]
    <2>1. CASE Store(w)
      BY <1>1, <1>4, <2>1 DEF Store, storeEvidence
    <2>2. ASSUME NEW c \in Champs, skipChampionship(w, c) \/ checkCancellation(w, c)
          PROVE  worker'[v] = worker[v]
      BY <1>1, <1>4, <2>2 DEF skipChampionship, checkCancellation
    <2>3. CASE loadRun(w) \/ openRun(w) \/ markChampionship(w) \/ evidenceRefused(w) \/ championshipError(w)
               \/ failChampionship(w) \/ readProgress(w) \/ refreshRunProgress(w) \/ sweepCancelled(w)
      BY <1>1, <1>4, <2>3
         DEF loadRun, openRun, markChampionship, evidenceRefused, championshipError, failChampionship,
             readProgress, refreshRunProgress, sweepCancelled
    <2>4. CASE resolveRun(w) \/ finishRun(w) \/ completeJob(w) \/ completionRefused(w) \/ executorError(w)
               \/ failBegins(w) \/ failRefused(w) \/ failCommits(w) \/ leave(w)
      BY <1>1, <1>4, <2>4
         DEF resolveRun, finishRun, completeJob, completionRefused, executorError, failBegins,
             failRefused, failCommits, leave
    <2>5. QED
      BY <1>4, <2>1, <2>2, <2>3, <2>4 DEF Execute
  <1>5. ASSUME NEW w \in Workers, Execute(w) PROVE Goal
    BY <1>4, <1>5
  <1>6. ASSUME NEW w \in Workers, NEW r \in Runs, claimNextJob(w, r) PROVE Goal
    BY <1>3, <1>6 DEF claimNextJob
  <1>7. ASSUME NEW w \in Workers, heartbeatLost(w) \/ crash(w) PROVE Goal
    BY <1>1, <1>7 DEF heartbeatLost, crash
  <1>8. CASE Environment
    BY <1>2, <1>7, <1>8
       DEF Environment, requestManualTLineRun, scheduleDueRun, createRunWithJob, LeaseRunsOut,
           cancelReads, cancelWrites, heartbeatRenews, stopTLineSchedule
  <1>9. QED
    BY <1>2, <1>5, <1>6, <1>8 DEF Next, Recover, requeueExpiredJob, finishExpiredJob, vars

\* What a cancellation does to the championships of a run.
Cancelled(st, st2) ==
    \A c \in Champs : st2[c] = st[c] \/ (st[c] = "QUEUED" /\ st2[c] = "CANCELLED")

\* A run and its championships change only by its worker, by recovery, by creation, or by a
\* cancellation, which marks the run.
LEMMA RunAside ==
    ASSUME TypeOK, BusyWorkersHaveRun, [Next]_vars, NEW r \in Runs
    PROVE  \/ run'[r] = run[r] /\ champ'[r] = champ[r]
           \/ \E w \in Workers : Execute(w) /\ worker[w].run = r
           \/ finishExpiredJob(r)
           \/ \E b \in BOOLEAN : createRunWithJob(r, b)
           \/ run'[r].cancel /\ Cancelled(champ[r], champ'[r])
  <1> DEFINE Goal == \/ run'[r] = run[r] /\ champ'[r] = champ[r]
                     \/ \E w \in Workers : Execute(w) /\ worker[w].run = r
                     \/ finishExpiredJob(r)
                     \/ \E b \in BOOLEAN : createRunWithJob(r, b)
                     \/ run'[r].cancel /\ Cancelled(champ[r], champ'[r])
  <1>1. /\ run \in [Runs -> RunRow] /\ run[r] \in RunRow /\ champ \in [Runs -> [Champs -> Status]]
        /\ champ[r] \in [Champs -> Status] /\ worker \in [Workers -> WorkerState]
    BY DEF TypeOK
  <1>2. CASE run' = run /\ champ' = champ
    BY <1>2
  <1>3. ASSUME NEW w \in Workers, Execute(w), worker[w].run # r
        PROVE  run'[r] = run[r] /\ champ'[r] = champ[r]
    <2>1. ASSUME NEW q, NEW x, q # r,
                 \/ run' = run
                 \/ run' = [run EXCEPT ![q].status = x] \/ run' = [run EXCEPT ![q].processed = x]
          PROVE  run'[r] = run[r]
      BY <1>1, <2>1
    <2>2. ASSUME NEW q, NEW x, NEW c, q # r,
                 champ' = [champ EXCEPT ![q][c] = x] \/ champ' = [champ EXCEPT ![q] = x] \/ champ' = champ
          PROVE  champ'[r] = champ[r]
      BY <1>1, <2>2
    <2>3. ASSUME NEW q, NEW x, NEW closed, q # r, run' = CloseRun(q, x, closed)
          PROVE  run'[r] = run[r]
      BY <1>1, <2>3 DEF CloseRun
    <2>4. CASE Store(w)
      BY <1>3, <2>1, <2>2, <2>4 DEF Store, storeEvidence
    <2>5. CASE openRun(w) \/ refreshRunProgress(w) \/ finishRun(w)
      BY <1>3, <2>1, <2>2, <2>5 DEF openRun, refreshRunProgress, finishRun
    <2>6. CASE markChampionship(w) \/ failChampionship(w) \/ sweepCancelled(w)
      <3>1. CASE markChampionship(w)
        BY <1>3, <2>1, <2>2, <3>1 DEF markChampionship
      <3>2. CASE failChampionship(w)
        BY <1>3, <2>1, <2>2, <3>2 DEF failChampionship
      <3>3. CASE sweepCancelled(w)
        BY <1>3, <2>1, <2>2, <3>3 DEF sweepCancelled
      <3>4. QED
        BY <2>6, <3>1, <3>2, <3>3
    <2>7. CASE failCommits(w)
      BY <1>3, <2>2, <2>3, <2>7 DEF failCommits
    <2>8. QED
      BY <1>3, <2>4, <2>5, <2>6, <2>7
         DEF Execute, loadRun, skipChampionship, checkCancellation, evidenceRefused, championshipError,
             readProgress, resolveRun, completeJob, completionRefused, executorError, failBegins, failRefused, leave
  <1>4. ASSUME NEW q \in Runs, finishExpiredJob(q), q # r PROVE run'[r] = run[r] /\ champ'[r] = champ[r]
    BY <1>1, <1>4 DEF finishExpiredJob, CloseRun
  <1>5. ASSUME NEW q \in Runs, NEW b \in BOOLEAN, createRunWithJob(q, b), q # r
        PROVE  run'[r] = run[r] /\ champ'[r] = champ[r]
    BY <1>1, <1>5 DEF createRunWithJob
  <1>6. [run[r] EXCEPT !.status = "CANCELLED", !.cancel = TRUE].cancel /\ [run[r] EXCEPT !.cancel = TRUE].cancel
    BY <1>1 DEF RunRow
  <1>7. ASSUME NEW q \in Runs, cancelWrites(q) PROVE Goal
    <2>1. CASE q # r
      BY <1>1, <1>7, <2>1 DEF cancelWrites
    <2>2. CASE q = r
      <3>1. run'[r].cancel
        BY <1>1, <1>6, <1>7, <2>2 DEF cancelWrites
      <3>2. \A c \in Champs : champ'[r][c] = champ[r][c]
                              \/ (champ[r][c] = "QUEUED" /\ champ'[r][c] = "CANCELLED")
        <4>1. CASE champ' = champ
          BY <4>1
        <4>2. CASE champ' = [champ EXCEPT ![r] = [c \in Champs |-> IF champ[r][c] = "QUEUED"
                                                                  THEN "CANCELLED" ELSE champ[r][c]]]
          BY <1>1, <4>2
        <4>3. QED
          BY <1>7, <2>2, <4>1, <4>2 DEF cancelWrites
      <3>3. QED
        BY <3>1, <3>2 DEF Cancelled
    <2>3. QED
      BY <2>1, <2>2
  <1>8. CASE stopTLineSchedule
    <2>1. champ' = champ /\ run'[r] = IF Stoppable(r) THEN [run[r] EXCEPT !.cancel = TRUE] ELSE run[r]
      BY <1>8 DEF stopTLineSchedule
    <2>2. CASE Stoppable(r)
      <3>1. run'[r].cancel
        BY <1>6, <2>1, <2>2
      <3>2. QED
        BY <2>1, <3>1 DEF Cancelled
    <2>3. CASE ~Stoppable(r)
      BY <2>1, <2>3
    <2>4. QED
      BY <2>2, <2>3
  <1>9. CASE Environment
    BY <1>2, <1>5, <1>7, <1>8, <1>9
       DEF Environment, requestManualTLineRun, scheduleDueRun, LeaseRunsOut, cancelReads,
           heartbeatRenews, heartbeatLost, crash
  <1>10. QED
    BY <1>2, <1>3, <1>4, <1>9 DEF Next, Recover, requeueExpiredJob, claimNextJob, vars

\* The mark of a cancelled run stays, and no job is marked without its run.
LEMMA MarksStep ==
    ASSUME TypeOK, [Next]_vars, NEW r \in Runs
    PROVE  /\ run[r].cancel => run'[r].cancel
           /\ job'[r].cancel => job[r].cancel \/ run'[r].cancel
  <1> DEFINE Stays == run[r].cancel => run'[r].cancel
             Agrees == job'[r].cancel => job[r].cancel \/ run'[r].cancel
  <1>1. /\ run \in [Runs -> RunRow] /\ run[r] \in RunRow /\ job \in [Runs -> JobRow] /\ job[r] \in JobRow
    BY DEF TypeOK
  <1>2. ASSUME NEW st PROVE /\ [run[r] EXCEPT !.status = st].cancel = run[r].cancel
                            /\ [run[r] EXCEPT !.processed = st].cancel = run[r].cancel
    BY <1>1 DEF RunRow
  <1>3. ASSUME NEW st, NEW p PROVE /\ [run[r] EXCEPT !.status = st, !.processed = p].cancel = run[r].cancel
                                   /\ [run[r] EXCEPT !.status = st, !.scheduled = p].cancel = run[r].cancel
    BY <1>1 DEF RunRow
  <1>4. /\ [run[r] EXCEPT !.status = "CANCELLED", !.cancel = TRUE].cancel
        /\ [run[r] EXCEPT !.cancel = TRUE].cancel
    BY <1>1 DEF RunRow
  <1>5. ASSUME NEW a, NEW b, NEW c, NEW d
        PROVE  /\ [job[r] EXCEPT !.status = a].cancel = job[r].cancel
               /\ [job[r] EXCEPT !.live = a].cancel = job[r].cancel
               /\ [job[r] EXCEPT !.status = a, !.owner = b].cancel = job[r].cancel
               /\ [job[r] EXCEPT !.status = a, !.owner = b, !.live = c].cancel = job[r].cancel
               /\ [job[r] EXCEPT !.status = a, !.owner = b, !.live = c, !.attempts = d].cancel = job[r].cancel
    BY <1>1 DEF JobRow
  <1>6. ASSUME NEW q, NEW x, run' = [run EXCEPT ![q].status = x] \/ run' = [run EXCEPT ![q].processed = x]
        PROVE  Stays
    <2>1. run'[r] \in {run[r], [run[r] EXCEPT !.status = x], [run[r] EXCEPT !.processed = x]}
      BY <1>1, <1>6
    <2>2. QED
      BY <1>2, <2>1
  <1>7. ASSUME NEW q, NEW x, NEW closed, run' = CloseRun(q, x, closed) PROVE Stays
    BY <1>1, <1>3, <1>7 DEF CloseRun
  <1>8. ASSUME NEW w \in Workers, Execute(w) PROVE Stays /\ Agrees
    <2>1. CASE Store(w)
      BY <1>1, <1>5, <2>1 DEF Store, storeEvidence
    <2>2. CASE openRun(w) \/ refreshRunProgress(w) \/ finishRun(w)
      BY <1>6, <2>2 DEF openRun, refreshRunProgress, finishRun
    <2>3. CASE failCommits(w)
      <3>1. Stays
        BY <1>7, <2>3 DEF failCommits
      <3>2. Agrees
        BY <1>1, <1>5, <2>3 DEF failCommits
      <3>3. QED
        BY <3>1, <3>2
    <2>4. CASE completeJob(w)
      BY <1>1, <1>5, <2>4 DEF completeJob
    <2>5. QED
      BY <1>8, <2>1, <2>2, <2>3, <2>4
         DEF Execute, loadRun, skipChampionship, checkCancellation, evidenceRefused, championshipError,
             markChampionship, failChampionship, sweepCancelled,
             readProgress, resolveRun, completionRefused, executorError, failBegins, failRefused, leave
  <1>9. ASSUME NEW w \in Workers, NEW q \in Runs, claimNextJob(w, q) PROVE Stays /\ Agrees
    BY <1>1, <1>5, <1>9 DEF claimNextJob
  <1>10. ASSUME NEW q \in Runs, Recover(q) PROVE Stays /\ Agrees
    <2>1. CASE requeueExpiredJob(q)
      BY <1>1, <1>5, <2>1 DEF requeueExpiredJob
    <2>2. CASE finishExpiredJob(q)
      <3>1. Stays
        BY <1>7, <2>2 DEF finishExpiredJob
      <3>2. Agrees
        BY <1>1, <1>5, <2>2 DEF finishExpiredJob
      <3>3. QED
        BY <3>1, <3>2
    <2>3. QED
      BY <1>10, <2>1, <2>2 DEF Recover
  <1>11. ASSUME NEW q \in Runs, NEW b \in BOOLEAN, createRunWithJob(q, b) PROVE Stays /\ Agrees
    BY <1>1, <1>3, <1>5, <1>11 DEF createRunWithJob
  <1>12. ASSUME NEW q \in Runs, cancelWrites(q) PROVE Stays /\ Agrees
    <2>1. CASE q = r
      BY <1>1, <1>4, <1>12, <2>1 DEF cancelWrites
    <2>2. CASE q # r
      <3>1. run'[r] = run[r] /\ job'[r] = job[r]
        BY <1>1, <1>12, <2>2 DEF cancelWrites, buildCancelJobQuery
      <3>2. QED
        BY <3>1
    <2>3. QED
      BY <2>1, <2>2
  <1>13. CASE stopTLineSchedule
    BY <1>1, <1>4, <1>13 DEF stopTLineSchedule
  <1>14. ASSUME NEW q, heartbeatRenews(q) \/ LeaseRunsOut(q) PROVE Stays /\ Agrees
    <2>1. PICK x, b : job' = [job EXCEPT ![x].live = b] /\ run' = run
      BY <1>14 DEF heartbeatRenews, LeaseRunsOut
    <2>2. job'[r] \in {job[r], [job[r] EXCEPT !.live = b]}
      BY <1>1, <2>1
    <2>3. QED
      BY <1>5, <2>1, <2>2
  <1>15. CASE Environment
    BY <1>11, <1>12, <1>13, <1>14, <1>15
       DEF Environment, requestManualTLineRun, scheduleDueRun, cancelReads, heartbeatLost, crash
  <1>16. CASE UNCHANGED vars
    BY <1>16 DEF vars
  <1>17. QED
    BY <1>8, <1>9, <1>10, <1>15, <1>16 DEF Next

-----------------------------------------------------------------------------
(* The invariant.                                                          *)

\* A cancellation, a lost heartbeat and what others do leave a worker in order.
LEMMA OrderStays ==
    ASSUME NEW s \in WorkerState, NEW st \in [Champs -> Status], NEW row \in RunRow,
           InOrder(s, st, row), NEW t, t = s \/ t = [s EXCEPT !.aborted = TRUE],
           NEW st2, NEW row2,
           (st2 = st /\ row2 = row) \/ (row2.cancel /\ Cancelled(st, st2))
    PROVE  InOrder(t, st2, row2)
  <1>1. /\ t.pc = s.pc /\ t.todo = s.todo /\ t.skip = s.skip /\ t.cur = s.cur /\ t.final = s.final
        /\ t.cancelled = s.cancelled /\ t.seen = s.seen
    BY DEF WorkerState
  <1>2. InOrder(t, st, row)
    BY <1>1 DEF InOrder, SkipsStored, LoopCloses
  <1>3. CASE row2.cancel /\ Cancelled(st, st2)
    <2>1. \A c \in t.todo : st2[c] \in Completed <=> st[c] \in Completed
      BY <1>1, <1>3 DEF Cancelled, Completed, WorkerState
    <2>2. SkipsStored(t, st2)
      BY <1>2, <2>1 DEF InOrder, SkipsStored
    <2>3. QED
      BY <1>3, <2>2 DEF InOrder
  <1>4. QED
    BY <1>2, <1>3

\* A run that somebody holds is changed by its holder, or cancelled.
LEMMA HeldRunAside ==
    ASSUME IndInv, HoldersHold, [Next]_vars, NEW v \in Workers, NEW r \in Runs, worker[v].run = r,
           ~Execute(v)
    PROVE  \/ run'[r] = run[r] /\ champ'[r] = champ[r]
           \/ run'[r].cancel /\ Cancelled(champ[r], champ'[r])
  <1>1. r # NoRun /\ TypeOK /\ BusyWorkersHaveRun
    BY NoRunAssumption DEF IndInv
  <1>2. job[r].status = "RUNNING" /\ job[r].live /\ job[r].owner = v
    BY <1>1 DEF HoldersHold, Owns
  <1>3. ~finishExpiredJob(r)
    BY <1>2 DEF finishExpiredJob, Expired
  <1>4. \A b \in BOOLEAN : ~createRunWithJob(r, b)
    BY <1>2 DEF createRunWithJob, IndInv, UncreatedRunHasNoJob, NoJobRow
  <1>5. ~\E w \in Workers : Execute(w) /\ worker[w].run = r
    BY <1>1, <1>2 DEF HoldersHold, Owns
  <1>6. QED
    BY <1>1, <1>3, <1>4, <1>5, RunAside

\* Every worker stays in order: by its own step, by a claim, or because others leave its run alone.
LEMMA OrderStep == IndInv /\ HoldersHold /\ WorkersInOrder /\ [Next]_vars => WorkersInOrder'
  <1> SUFFICES ASSUME IndInv, HoldersHold, WorkersInOrder, [Next]_vars,
                      NEW v \in Workers, worker'[v].run # NoRun
               PROVE  InOrder(worker'[v], champ'[worker'[v].run], run'[worker'[v].run])
    BY DEF WorkersInOrder
  <1>1. TypeOK /\ BusyWorkersHaveRun /\ worker \in [Workers -> WorkerState] /\ worker[v] \in WorkerState
    BY DEF IndInv, TypeOK
  <1>2. ASSUME NEW q \in Runs, claimNextJob(v, q)
        PROVE  InOrder(worker'[v], champ'[worker'[v].run], run'[worker'[v].run])
    <2>1. PICK s, st, row : /\ s = [IdleWorker EXCEPT !.pc = "load", !.run = q, !.token = NextAttempt(q)]
                            /\ st = champ'[worker'[v].run] /\ row = run'[worker'[v].run]
      OBVIOUS
    <2>2. s.pc = "load" /\ s.cur = NoChamp /\ s.cancelled = FALSE
      BY <2>1 DEF IdleWorker
    <2>3. InOrder(s, st, row)
      BY <2>2 DEF InOrder, SkipsStored, LoopCloses
    <2>4. worker'[v] = s
      BY <1>1, <1>2, <2>1 DEF claimNextJob
    <2>5. QED
      BY <2>1, <2>3, <2>4
  <1>3. ASSUME worker'[v].run = worker[v].run
        PROVE  InOrder(worker'[v], champ'[worker'[v].run], run'[worker'[v].run])
    <2>1. PICK r \in Runs : r = worker[v].run
      BY <1>1, <1>3 DEF WorkerState
    <2>2. InOrder(worker[v], champ[r], run[r])
      BY <1>3, <2>1 DEF WorkersInOrder
    <2>3. CASE Execute(v)
      BY <1>3, <2>1, <2>2, <2>3, ExecuteInOrder
    <2>4. CASE ~Execute(v) /\ \E q \in Runs : claimNextJob(v, q)
      BY <1>2, <2>4
    <2>5. CASE ~Execute(v) /\ ~\E q \in Runs : claimNextJob(v, q)
      <3>1. worker'[v] \in {worker[v], [worker[v] EXCEPT !.aborted = TRUE]}
        BY <1>1, <2>5, WorkerAside DEF IdleWorker
      <3>2. PICK s \in WorkerState, st \in [Champs -> Status], row \in RunRow :
                s = worker[v] /\ st = champ[r] /\ row = run[r]
        BY <1>1 DEF TypeOK
      <3> PICK t, st2, row2 : t = worker'[v] /\ st2 = champ'[r] /\ row2 = run'[r]
        OBVIOUS
      <3>3. (st2 = st /\ row2 = row) \/ (row2.cancel /\ Cancelled(st, st2))
        BY <2>1, <2>5, <3>2, HeldRunAside
      <3>4. InOrder(s, st, row) /\ (t = s \/ t = [s EXCEPT !.aborted = TRUE])
        BY <2>2, <3>1, <3>2
      <3>5. InOrder(t, st2, row2)
        BY <3>3, <3>4, OrderStays
      <3>6. QED
        BY <1>3, <2>1, <3>2, <3>5
    <2>6. QED
      BY <2>3, <2>4, <2>5
  <1>4. QED
    BY <1>1, <1>2, <1>3, HolderStep DEF IdleWorker

\* What recovery and failure leave of a run: closed, with the status its job takes.
LEMMA ClosedByJob ==
    ASSUME TypeOK, NEW r \in Runs, run[r].status # "NONE", NEW to \in Terminal, NEW status \in Terminal,
           run' = CloseRun(r, status, CloseOut(champ[r], to)),
           champ' = [champ EXCEPT ![r] = CloseOut(champ[r], to)],
           run[r].status \in Terminal /\ ~run[r].cancel =>
               run[r].processed = Champs /\ AllClosed(champ[r])
    PROVE  ~run'[r].cancel => /\ run'[r].status = Settle(r, status) /\ run'[r].processed = Champs
                              /\ AllClosed(champ'[r])
  <1>1. PICK st \in [Champs -> Status], row \in RunRow : st = champ[r] /\ row = run[r]
    BY DEF TypeOK
  <1> PICK closed : closed = CloseOut(st, to)
    OBVIOUS
  <1>2. AllClosed(closed) /\ Processed(closed) = Champs
    BY <1>1, ClosedOut
  <1>3. champ'[r] = closed
    BY <1>1 DEF TypeOK
  <1>4. PICK shut : shut = [row EXCEPT !.status = status, !.processed = Processed(closed)]
    OBVIOUS
  <1>5. shut.status = status /\ shut.processed = Processed(closed) /\ shut.cancel = row.cancel
    BY <1>4 DEF RunRow
  <1>6. CASE row.status \in Active
    <2>1. run'[r] = shut /\ Settle(r, status) = status
      BY <1>1, <1>4, <1>6 DEF CloseRun, Settle, TypeOK
    <2>2. QED
      BY <1>2, <1>3, <1>5, <2>1
  <1>7. CASE row.status \notin Active
    <2>1. run'[r] = row /\ Settle(r, status) = row.status /\ row.status \in Terminal
      BY <1>1, <1>7 DEF CloseRun, Settle, RunRow, Status
    <2>2. QED
      BY <1>1, <1>2, <1>3, <2>1
  <1>8. QED
    BY <1>6, <1>7

\* The failure handler closes the championships and the run, and its job with the same status.
LEMMA FailureCloses ==
    ASSUME TypeOK, NEW w \in Workers, NEW r \in Runs, worker[w].run = r, failCommits(w)
    PROVE  \E status \in Terminal :
              /\ run' = CloseRun(r, status, CloseOut(champ[r], "FAILED"))
              /\ champ' = [champ EXCEPT ![r] = CloseOut(champ[r], "FAILED")]
              /\ job' # job => job'[r].status = Settle(r, status)
  <1>1. PICK status : status = resolveFailedRunStatus(CloseOut(champ[r], "FAILED"))
    OBVIOUS
  <1>2. status \in Terminal
    BY <1>1, FinalStatusType
  <1>3. /\ run' = CloseRun(r, status, CloseOut(champ[r], "FAILED"))
        /\ champ' = [champ EXCEPT ![r] = CloseOut(champ[r], "FAILED")]
    BY <1>1 DEF failCommits
  <1>4. job' # job => job' = [job EXCEPT ![r] = [job[r] EXCEPT !.status = Settle(r, status),
                                                               !.owner = Nobody, !.live = FALSE]]
    BY <1>1 DEF failCommits
  <1>5. [job[r] EXCEPT !.status = Settle(r, status), !.owner = Nobody, !.live = FALSE].status
            = Settle(r, status)
    BY DEF TypeOK, JobRow
  <1>6. job' # job => job'[r].status = Settle(r, status)
    BY <1>4, <1>5 DEF TypeOK
  <1>7. QED
    BY <1>2, <1>3, <1>6

\* So does recovery, with an outcome that is never a stored result.
LEMMA RecoveryCloses ==
    ASSUME TypeOK, NEW r \in Runs, finishExpiredJob(r)
    PROVE  \E to \in Terminal \ Completed, status \in Terminal :
              /\ run' = CloseRun(r, status, CloseOut(champ[r], to))
              /\ champ' = [champ EXCEPT ![r] = CloseOut(champ[r], to)]
              /\ job'[r].status = Settle(r, status)
  <1>1. PICK to : to = IF job[r].cancel THEN "CANCELLED" ELSE "FAILED"
    OBVIOUS
  <1>2. PICK status : status = IF job[r].cancel THEN "CANCELLED"
                               ELSE resolveRunFinalStatus(CloseOut(champ[r], to))
    OBVIOUS
  <1>3. to \in Terminal \ Completed /\ status \in Terminal
    BY <1>1, <1>2, FinalStatusType DEF Terminal, Completed
  <1>4. /\ run' = CloseRun(r, status, CloseOut(champ[r], to))
        /\ champ' = [champ EXCEPT ![r] = CloseOut(champ[r], to)]
        /\ job' = [job EXCEPT ![r] = [job[r] EXCEPT !.status = Settle(r, status), !.owner = Nobody]]
    BY <1>1, <1>2 DEF finishExpiredJob
  <1>5. [job[r] EXCEPT !.status = Settle(r, status), !.owner = Nobody].status = Settle(r, status)
    BY DEF TypeOK, JobRow
  <1>6. job'[r].status = Settle(r, status)
    BY <1>4, <1>5 DEF TypeOK
  <1>7. QED
    BY <1>3, <1>4, <1>6

\* A run ends closed: at the loop's own end, by the failure handler or by recovery.
LEMMA EndedStep == IndInv /\ SettleInv /\ [Next]_vars => EndedRunsClosed'
  <1> SUFFICES ASSUME IndInv, SettleInv, [Next]_vars,
                      NEW r \in Runs, run'[r].status \in Terminal, ~run'[r].cancel
               PROVE  run'[r].processed = Champs /\ AllClosed(champ'[r])
    BY DEF EndedRunsClosed, AllClosed
  <1> DEFINE Goal == run'[r].processed = Champs /\ AllClosed(champ'[r])
  <1>1. /\ TypeOK /\ BusyWorkersHaveRun /\ HoldersHold /\ WorkersInOrder /\ EndedRunsClosed
        /\ run[r] \in RunRow /\ run \in [Runs -> RunRow] /\ r # NoRun
        /\ ~run[r].cancel
    BY MarksStep, NoRunAssumption DEF IndInv, SettleInv, TypeOK
  <1>2. CASE run'[r] = run[r] /\ champ'[r] = champ[r]
    BY <1>1, <1>2 DEF EndedRunsClosed
  <1>3. run[r].status \in Terminal => run[r].processed = Champs /\ AllClosed(champ[r])
    BY <1>1 DEF EndedRunsClosed
  <1>4. ASSUME NEW w \in Workers, Execute(w), worker[w].run = r PROVE Goal
    <2>1. InOrder(worker[w], champ[r], run[r]) /\ LoopCloses(worker[w], champ[r], run[r])
      BY <1>1, <1>4 DEF WorkersInOrder, InOrder
    <2>2. CASE openRun(w)
      <3>1. [run[r] EXCEPT !.status = "RUNNING"].status = "RUNNING"
        BY <1>1 DEF RunRow
      <3>2. run' = run /\ champ' = champ
        BY <1>1, <1>4, <2>2, <3>1 DEF openRun, Terminal
      <3>3. QED
        BY <1>2, <3>2
    <2>3. CASE markChampionship(w) \/ Store(w) \/ failChampionship(w)
      <3>1. run' = run /\ worker[w].pc \in {"mark", "work", "failChamp"}
        BY <2>3 DEF markChampionship, Store, storeEvidence, failChampionship
      <3>2. QED
        BY <2>1, <3>1 DEF LoopCloses, Terminal
    <2>4. CASE sweepCancelled(w)
      BY <1>1, <2>1, <2>4 DEF sweepCancelled, InOrder
    <2>5. CASE refreshRunProgress(w)
      <3>1. [run[r] EXCEPT !.processed = worker[w].seen].status = run[r].status
        BY <1>1 DEF RunRow
      <3>2. run'[r].status = "RUNNING"
        BY <1>1, <1>4, <2>1, <2>5, <3>1 DEF refreshRunProgress, LoopCloses
      <3>3. QED
        BY <3>2 DEF Terminal
    <2>6. CASE finishRun(w)
      <3>1. [run[r] EXCEPT !.status = worker[w].final].processed = run[r].processed
        BY <1>1 DEF RunRow
      <3>2. run'[r].processed = Champs /\ champ' = champ
        BY <1>1, <1>4, <2>1, <2>6, <3>1 DEF finishRun, LoopCloses
      <3>3. AllClosed(champ[r])
        BY <2>1, <2>6 DEF finishRun, LoopCloses, AllClosed
      <3>4. QED
        BY <3>2, <3>3
    <2>7. CASE failCommits(w)
      <3>1. run[r].status # "NONE"
        BY <1>1, <1>4 DEF HoldersHold, Owns, IndInv, UncreatedRunHasNoJob, NoJobRow
      <3>2. PICK status \in Terminal :
                /\ run' = CloseRun(r, status, CloseOut(champ[r], "FAILED"))
                /\ champ' = [champ EXCEPT ![r] = CloseOut(champ[r], "FAILED")]
        BY <1>1, <1>4, <2>7, FailureCloses
      <3>3. "FAILED" \in Terminal
        BY DEF Terminal
      <3>4. QED
        BY <1>1, <1>3, <3>1, <3>2, <3>3, ClosedByJob
    <2>8. QED
      BY <1>2, <1>4, <2>2, <2>3, <2>4, <2>5, <2>6, <2>7
         DEF Execute, loadRun, skipChampionship, checkCancellation, evidenceRefused, championshipError,
             readProgress, resolveRun, completeJob, completionRefused, executorError, failBegins, failRefused, leave
  <1>5. CASE finishExpiredJob(r)
    <2>1. run[r].status # "NONE"
      BY <1>5 DEF finishExpiredJob, Expired, IndInv, UncreatedRunHasNoJob, NoJobRow
    <2>2. PICK to \in Terminal \ Completed, status \in Terminal :
              /\ run' = CloseRun(r, status, CloseOut(champ[r], to))
              /\ champ' = [champ EXCEPT ![r] = CloseOut(champ[r], to)]
      BY <1>1, <1>5, RecoveryCloses
    <2>3. QED
      BY <1>1, <1>3, <2>1, <2>2, ClosedByJob
  <1>6. ASSUME NEW b \in BOOLEAN, createRunWithJob(r, b) PROVE Goal
    <2>1. [run[r] EXCEPT !.status = "QUEUED", !.scheduled = b].status = "QUEUED"
      BY <1>1 DEF RunRow
    <2>2. QED
      BY <1>1, <1>6, <2>1 DEF createRunWithJob, Terminal
  <1>7. QED
    BY <1>1, <1>2, <1>4, <1>5, <1>6, RunAside

\* A job ends by its holder, by recovery or by a cancellation.
LEMMA JobEnds ==
    ASSUME IndInv, [Next]_vars, NEW r \in Runs, job'[r].status \in Terminal,
           job[r].status \notin Terminal
    PROVE  \/ \E w \in Workers : /\ worker[w].run = r /\ Execute(w)
                                 /\ completeJob(w) \/ (failCommits(w) /\ job' # job)
           \/ finishExpiredJob(r)
           \/ run'[r].cancel
  <1> DEFINE Goal == \/ \E w \in Workers : /\ worker[w].run = r /\ Execute(w)
                                           /\ completeJob(w) \/ (failCommits(w) /\ job' # job)
                     \/ finishExpiredJob(r)
                     \/ run'[r].cancel
  <1>1. /\ job \in [Runs -> JobRow] /\ job[r] \in JobRow /\ run \in [Runs -> RunRow] /\ run[r] \in RunRow
        /\ worker \in [Workers -> WorkerState]
    BY DEF IndInv, TypeOK
  <1>2. CASE job' = job
    BY <1>2
  <1>3. ASSUME NEW w \in Workers, NEW q \in Runs, claimNextJob(w, q) PROVE Goal
    <2>1. [job[r] EXCEPT !.status = "RUNNING", !.owner = w, !.live = TRUE,
                         !.attempts = NextAttempt(r)].status = "RUNNING"
      BY <1>1 DEF JobRow
    <2>2. QED
      BY <1>1, <1>3, <2>1 DEF claimNextJob, Terminal
  <1>4. ASSUME NEW x, NEW b, job' = [job EXCEPT ![x].live = b] PROVE Goal
    <2>1. job'[r] \in {job[r], [job[r] EXCEPT !.live = b]}
      BY <1>1, <1>4
    <2>2. [job[r] EXCEPT !.live = b].status = job[r].status
      BY <1>1 DEF JobRow
    <2>3. QED
      BY <2>1, <2>2
  <1>5. ASSUME NEW q \in Runs, Recover(q) PROVE Goal
    <2>1. [job[r] EXCEPT !.status = "QUEUED", !.owner = Nobody].status = "QUEUED"
      BY <1>1 DEF JobRow
    <2>2. CASE requeueExpiredJob(q)
      BY <1>1, <2>1, <2>2 DEF requeueExpiredJob, Terminal
    <2>3. CASE finishExpiredJob(q)
      BY <1>1, <2>3 DEF finishExpiredJob
    <2>4. QED
      BY <1>5, <2>2, <2>3 DEF Recover
  <1>6. ASSUME NEW q \in Runs, NEW b \in BOOLEAN, createRunWithJob(q, b) PROVE Goal
    <2>1. [job[r] EXCEPT !.status = "QUEUED"].status = "QUEUED"
      BY <1>1 DEF JobRow
    <2>2. QED
      BY <1>1, <1>6, <2>1 DEF createRunWithJob, Terminal
  <1>7. ASSUME NEW q \in Runs, cancelWrites(q) PROVE Goal
    <2>1. CASE q = r
      <3>1. [run[r] EXCEPT !.status = "CANCELLED", !.cancel = TRUE].cancel
            /\ [run[r] EXCEPT !.cancel = TRUE].cancel
        BY <1>1 DEF RunRow
      <3>2. QED
        BY <1>1, <1>7, <2>1, <3>1 DEF cancelWrites
    <2>2. CASE q # r
      BY <1>1, <1>7, <2>2 DEF cancelWrites, buildCancelJobQuery
    <2>3. QED
      BY <2>1, <2>2
  <1>8. CASE stopTLineSchedule
    <2>1. [job[r] EXCEPT !.cancel = TRUE].status = job[r].status
      BY <1>1 DEF JobRow
    <2>2. job'[r] \in {job[r], [job[r] EXCEPT !.cancel = TRUE]}
      BY <1>8 DEF stopTLineSchedule
    <2>3. QED
      BY <2>1, <2>2
  <1>9. ASSUME NEW w \in Workers, Execute(w) PROVE Goal
    <2>1. CASE Store(w)
      BY <1>4, <2>1 DEF Store, storeEvidence
    <2>2. CASE completeJob(w) \/ failCommits(w)
      <3>1. job' = job \/ \E x : job' = [job EXCEPT ![worker[w].run] = x]
        BY <2>2 DEF completeJob, failCommits
      <3>2. CASE worker[w].run # r
        BY <1>1, <3>1, <3>2
      <3>3. CASE worker[w].run = r
        BY <1>2, <1>9, <2>2, <3>3
      <3>4. QED
        BY <3>2, <3>3
    <2>3. QED
      BY <1>2, <1>9, <2>1, <2>2
         DEF Execute, loadRun, openRun, skipChampionship, checkCancellation, markChampionship,
             evidenceRefused, championshipError, failChampionship, readProgress, refreshRunProgress,
             sweepCancelled, resolveRun, finishRun, completionRefused, executorError, failBegins, failRefused, leave
  <1>10. CASE Environment
    <2>1. ASSUME NEW q, heartbeatRenews(q) \/ LeaseRunsOut(q) PROVE Goal
      BY <1>4, <2>1 DEF heartbeatRenews, LeaseRunsOut
    <2>2. QED
      BY <1>2, <1>6, <1>7, <1>8, <1>10, <2>1
         DEF Environment, requestManualTLineRun, scheduleDueRun, cancelReads, heartbeatLost, crash
  <1>11. QED
    BY <1>2, <1>3, <1>5, <1>9, <1>10 DEF Next, vars

\* A job ends together with its run, and what ended stays as it is.
LEMMA SettledStep == IndInv /\ SettleInv /\ [Next]_vars => SettledTogether'
  <1> SUFFICES ASSUME IndInv, SettleInv, [Next]_vars,
                      NEW r \in Runs, job'[r].status \in Terminal, ~run'[r].cancel
               PROVE  /\ run'[r].status = job'[r].status /\ run'[r].processed = Champs
                      /\ AllClosed(champ'[r])
    BY DEF SettledTogether, AllClosed
  <1> DEFINE Goal == /\ run'[r].status = job'[r].status /\ run'[r].processed = Champs
                     /\ AllClosed(champ'[r])
  <1>1. /\ TypeOK /\ BusyWorkersHaveRun /\ HoldersHold /\ WorkersInOrder /\ EndedRunsClosed /\ SettledTogether
        /\ run[r] \in RunRow /\ job \in [Runs -> JobRow] /\ job[r] \in JobRow /\ r # NoRun
        /\ ~run[r].cancel
    BY MarksStep, NoRunAssumption DEF IndInv, SettleInv, TypeOK
  <1>2. run[r].status \in Terminal => run[r].processed = Champs /\ AllClosed(champ[r])
    BY <1>1 DEF EndedRunsClosed
  <1>3. job[r].status # "NONE" => run[r].status # "NONE"
    BY DEF IndInv, UncreatedRunHasNoJob, NoJobRow
  <1>4. CASE job[r].status \in Terminal
    <2>1. job[r].status \notin Active /\ job[r].status # "NONE"
      BY <1>4 DEF Terminal, Active
    <2>2. job'[r] = job[r]
      BY <1>1, <1>3, <2>1, JobStep DEF claimNextJob, Active
    <2>3. ~\E w \in Workers : Execute(w) /\ worker[w].run = r
      BY <1>1, <2>1 DEF HoldersHold, Owns, Active
    <2>4. ~finishExpiredJob(r) /\ \A b \in BOOLEAN : ~createRunWithJob(r, b)
      BY <1>3, <2>1 DEF finishExpiredJob, Expired, createRunWithJob, Active
    <2>5. run'[r] = run[r] /\ champ'[r] = champ[r]
      BY <1>1, <2>3, <2>4, RunAside
    <2>6. QED
      BY <1>1, <1>4, <2>2, <2>5 DEF SettledTogether, AllClosed
  <1>5. CASE job[r].status \notin Terminal
    <2>1. ASSUME NEW w \in Workers, worker[w].run = r, Execute(w), completeJob(w) PROVE Goal
      <3>1. LoopCloses(worker[w], champ[r], run[r]) /\ worker[w].pc = "complete"
        BY <1>1, <2>1 DEF WorkersInOrder, InOrder, completeJob
      <3>2. [job[r] EXCEPT !.status = worker[w].final, !.owner = Nobody, !.live = FALSE].status = worker[w].final
        BY <1>1 DEF JobRow
      <3>3. job'[r].status = worker[w].final /\ run' = run /\ champ' = champ
        BY <1>1, <2>1, <3>2 DEF completeJob
      <3>4. QED
        BY <3>1, <3>3 DEF LoopCloses
    <2>2. ASSUME NEW w \in Workers, worker[w].run = r, Execute(w), failCommits(w), job' # job PROVE Goal
      <3>1. run[r].status # "NONE"
        BY <1>1, <1>3, <2>2 DEF HoldersHold, Owns
      <3>2. PICK status \in Terminal :
                /\ run' = CloseRun(r, status, CloseOut(champ[r], "FAILED"))
                /\ champ' = [champ EXCEPT ![r] = CloseOut(champ[r], "FAILED")]
                /\ job'[r].status = Settle(r, status)
        BY <1>1, <2>2, FailureCloses
      <3>3. "FAILED" \in Terminal
        BY DEF Terminal
      <3>4. QED
        BY <1>1, <1>2, <3>1, <3>2, <3>3, ClosedByJob
    <2>3. CASE finishExpiredJob(r)
      <3>1. run[r].status # "NONE"
        BY <1>3, <2>3 DEF finishExpiredJob, Expired
      <3>2. PICK to \in Terminal \ Completed, status \in Terminal :
                /\ run' = CloseRun(r, status, CloseOut(champ[r], to))
                /\ champ' = [champ EXCEPT ![r] = CloseOut(champ[r], to)]
                /\ job'[r].status = Settle(r, status)
        BY <1>1, <2>3, RecoveryCloses
      <3>3. QED
        BY <1>1, <1>2, <3>1, <3>2, ClosedByJob
    <2>4. QED
      BY <1>5, <2>1, <2>2, <2>3, JobEnds
  <1>6. QED
    BY <1>4, <1>5

\* Initially nobody works and nothing has ended.
LEMMA InitSettled == Init => SettleInv
  BY DEF Init, SettleInv, HoldersHold, MarksAgree, WorkersInOrder, EndedRunsClosed, SettledTogether,
         NoJobRow, IdleWorker, Terminal

\* With leases that outlive their holders the invariant holds throughout.
THEOREM SettlingInductive == ASSUME ~Overrun PROVE Spec => []SettleInv
  <1>1. IndInv /\ SettleInv /\ [Next]_vars => SettleInv'
    <2>1. IndInv /\ SettleInv /\ [Next]_vars => MarksAgree'
      BY MarksStep DEF IndInv, SettleInv, MarksAgree
    <2>2. QED
      BY <2>1, HoldersStep, OrderStep, EndedStep, SettledStep DEF SettleInv
  <1>2. QED
    BY <1>1, InitSettled, Inductive, PTL DEF Spec

\* Then a job that ends without a cancellation agrees with its run, all championships of which
\* are closed and counted.
THEOREM SettlesTogether == ASSUME ~Overrun PROVE Spec => []SettledTogether
  <1>1. SettleInv => SettledTogether
    BY DEF SettleInv
  <1>2. QED
    BY <1>1, SettlingInductive, PTL

\* And a championship whose result was stored keeps it through retries, failures, recovery and
\* cancellations.
THEOREM ResultsKept == ASSUME ~Overrun PROVE Spec => StoredResultsKept
  <1>1. IndInv /\ SettleInv /\ [Next]_vars =>
          [\A r \in Runs, c \in Champs : champ[r][c] \in Completed => champ'[r][c] = champ[r][c]]_vars
    <2> SUFFICES ASSUME IndInv, SettleInv, [Next]_vars,
                        NEW r \in Runs, NEW c \in Champs, champ[r][c] \in Completed
                 PROVE  champ'[r][c] = champ[r][c]
      OBVIOUS
    <2> DEFINE Goal == champ'[r][c] = champ[r][c]
    <2>1. /\ TypeOK /\ BusyWorkersHaveRun /\ WorkersInOrder /\ r # NoRun
          /\ champ \in [Runs -> [Champs -> Status]] /\ champ[r] \in [Champs -> Status]
      BY NoRunAssumption DEF IndInv, SettleInv, TypeOK
    <2>2. ASSUME NEW to \in Terminal, champ' = [champ EXCEPT ![r] = CloseOut(champ[r], to)] PROVE Goal
      BY <2>1, <2>2, ClosedOut
    <2>3. ASSUME NEW w \in Workers, Execute(w), worker[w].run = r PROVE Goal
      <3>1. SkipsStored(worker[w], champ[r])
        BY <2>1, <2>3 DEF WorkersInOrder, InOrder
      <3>2. CASE markChampionship(w) \/ Store(w) \/ failChampionship(w)
        <4>1. /\ worker[w].pc \in {"mark", "work", "failChamp"}
              /\ \E x : champ' = [champ EXCEPT ![r][worker[w].cur] = x]
          BY <2>3, <3>2 DEF markChampionship, Store, storeEvidence, failChampionship
        <4>2. worker[w].cur # c
          BY <3>1, <4>1 DEF SkipsStored
        <4>3. QED
          BY <2>1, <4>1, <4>2
      <3>3. CASE sweepCancelled(w)
        BY <2>2, <2>3, <3>3 DEF sweepCancelled, Terminal
      <3>4. CASE failCommits(w)
        BY <2>1, <2>2, <2>3, <3>4, FailureCloses DEF Terminal
      <3>5. QED
        BY <2>3, <3>2, <3>3, <3>4
           DEF Execute, loadRun, openRun, skipChampionship, checkCancellation, evidenceRefused,
               championshipError, readProgress, refreshRunProgress, resolveRun, finishRun, completeJob,
               completionRefused, executorError, failBegins, failRefused, leave
    <2>4. CASE finishExpiredJob(r)
      BY <2>1, <2>2, <2>4, RecoveryCloses
    <2>5. ASSUME NEW b \in BOOLEAN, createRunWithJob(r, b) PROVE Goal
      BY <2>5 DEF createRunWithJob
    <2>6. CASE Cancelled(champ[r], champ'[r])
      BY <2>6 DEF Cancelled, Completed
    <2>7. QED
      BY <2>1, <2>3, <2>4, <2>5, <2>6, RunAside
  <1>2. QED
    BY <1>1, SettlingInductive, Inductive, PTL DEF Spec, StoredResultsKept
=============================================================================
