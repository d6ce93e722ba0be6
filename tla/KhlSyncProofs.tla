---------------------------- MODULE KhlSyncProofs ----------------------------
(***************************************************************************)
(* The queue is in order, no work is lost over a crash and history is not   *)
(* closed over a gap, for any games, workers, requests and mishaps.         *)
(***************************************************************************)
EXTENDS KhlSync, WellFoundedInduction, TLAPS

Over == {g \in Games : game[g] \in {"over", "old"}}
Begun == {g \in Games : game[g] # "ahead"}

Extent(c) == c.windows \cup c.found
Handled(c) == c.found \ c.todo
Nothing(c) == c.windows = {} /\ c.found = {} /\ c.todo = {}

\* Candidates are finished games, once each, and none was handled without a trace.
Sound(c) ==
    /\ c.found \subseteq Over /\ c.windows \subseteq Begun
    /\ c.windows \cap c.found = {}
    /\ Handled(c) \subseteq stored \cup c.failed
    /\ c.failed # {} => c.retry

Advanced(old, new) ==
    /\ new.windows \subseteq old.windows
    /\ old.found \subseteq new.found
    /\ Handled(old) \subseteq Handled(new)
    /\ old.failed \subseteq new.failed
    /\ Extent(new) \subseteq Extent(old)

Saved(r) == run[r].checkpoint

\* What q found is found by a run with checkpoint c, unless that must be repeated anyway.
Covers(c, q) == c.retry \/ Saved(q).found \subseteq Extent(c) \cup stored

RowSound(r) == Sound(Saved(r)) /\ (run[r].scope.kind = "event" => Nothing(Saved(r)))

\* Runs are created and begun in the order of their numbers.
InOrder(q, r) ==
    /\ run[r].status # "NONE" => run[q].status # "NONE"
    /\ run[r].status \in {"RUNNING", "SUCCEEDED", "PARTIAL", "FAILED"} =>
           run[q].status \notin {"QUEUED", "RUNNING"}

\* A full run finds what the runs before it found.
FullCovers(q, r) ==
    run[r].full /\ run[r].status \in Active =>
        /\ Covers(Saved(r), q)
        /\ run[r].status = "QUEUED" => Extent(Saved(q)) \subseteq Saved(r).windows \cup stored

History ==
    /\ \A r \in Runs : RowSound(r)
    /\ \A q, r \in Runs : q < r => InOrder(q, r) /\ FullCovers(q, r)

Holds(w, r) == control.active = r /\ control.owner = w

Executes(w, p) ==
    /\ run[p.run].status \notin {"NONE", "QUEUED"}
    /\ p.cancelled \/ p.result = "stopped" => run[p.run].trigger = "AUTOMATIC"
    /\ run[p.run].scope.kind = "event" => Nothing(p.mine)
    /\ Holds(w, p.run) =>
          /\ Advanced(Saved(p.run), p.mine)
          /\ p.pc = "finish" /\ p.result = "complete" => p.mine.found = Saved(p.run).found
          /\ run[p.run].full => \A q \in Runs : q < p.run => Covers(p.mine, q)

\* A process p of worker w.
Process(w, p) ==
    /\ p.run = NoRun <=> p.pc \in {"idle", "claim"}
    /\ p.pc = "fetch" => p.cur \in Games
    /\ Sound(p.mine)
    /\ p.pc \in {"last", "finish"} /\ p.result = "complete" => p.mine.windows = {} /\ p.mine.todo = {}
    /\ p.run # NoRun => Executes(w, p)

SyncInv ==
    /\ TypeOK
    /\ RunningIsActive
    /\ QueueInOrder
    /\ stored \subseteq Over
    /\ History
    /\ \A w \in Workers : Process(w, worker[w])
    /\ CollectedOrReopened

Row == [Runs -> RunRow]

-----------------------------------------------------------------------------

\* The oldest of some runs is one of them, and none is older.
LEMMA OldestIsFirst ==
    ASSUME NEW S, S \subseteq Runs, S # {}
    PROVE  Oldest(S) \in S /\ \A q \in S : Oldest(S) <= q
<1>1. OpToRel(<, Nat) = {p \in Nat \X Nat : p[1] < p[2]}
    BY Zenon DEF OpToRel
<1>2. S \subseteq Nat
    BY QueueLimitAssumption DEF Runs
<1>3. PICK r \in S : \A q \in S : ~(<<q, r>> \in OpToRel(<, Nat))
    BY <1>2, NatLessThanWellFounded, WFMin
<1>4. ASSUME NEW q \in S PROVE r <= q
  <2>1. ~(<<q, r>> \in {p \in Nat \X Nat : p[1] < p[2]})
      BY <1>1, <1>3
  <2>2. q \in Nat /\ r \in Nat
      BY <1>2
  <2> QED BY <2>1, <2>2
<1> QED BY <1>4 DEF Oldest

LEMMA SyncInitInv == Init => SyncInv
<1> SUFFICES ASSUME Init PROVE SyncInv
    OBVIOUS
<1>1. TypeOK
  <2>1. NoRunRow \in RunRow /\ IdleWorker \in WorkerState
      BY DEF RunRow, Scopes, Checkpoint, WorkerState, Steps, NoRunRow, IdleWorker, Fresh, AllGames
  <2>2. control \in ControlRow /\ (control.owner = Nobody <=> control.active = NoRun)
      BY DEF ControlRow, Init
  <2>3. game \in [Games -> {"ahead", "live", "over", "old"}] /\ stored \subseteq Games /\ paused \in BOOLEAN
      BY DEF Init
  <2>4. mishaps \in 0..MaxMishaps
      BY QueueLimitAssumption DEF Init
  <2>5. run \in [Runs -> RunRow] /\ worker \in [Workers -> WorkerState]
      BY <2>1 DEF Init
  <2> QED BY <2>2, <2>3, <2>4, <2>5 DEF TypeOK
<1> USE QueueLimitAssumption, NobodyIsNoWorker DEF Init, NoRunRow, IdleWorker, Fresh, AllGames
<1>2. RunningIsActive /\ QueueInOrder /\ CollectedOrReopened
    BY DEF RunningIsActive, QueueInOrder, PausedQueueHasNoAutomatic, QueuedRunsDiffer,
           CollectedOrReopened, Runs, NoRun
<1>3. History
    BY DEF History, RowSound, Sound, Saved, Handled, Nothing, InOrder, FullCovers
<1>4. \A w \in Workers : Process(w, worker[w])
    BY DEF Process, Sound, Handled, NoRun
<1> QED BY <1>1, <1>2, <1>3, <1>4 DEF SyncInv

-----------------------------------------------------------------------------
(* Steps of one process that change neither rows nor the control row.       *)

LEMMA ProcessStep ==
    ASSUME SyncInv, NEW w \in Workers, NEW p \in WorkerState, worker' = [worker EXCEPT ![w] = p],
           UNCHANGED <<control, paused, run, stored, game>>, mishaps' \in 0..MaxMishaps, Process(w, p)
    PROVE  SyncInv'
<1>1. TypeOK' /\ worker \in [Workers -> WorkerState]
    BY DEF SyncInv, TypeOK
<1>2. RunningIsActive' /\ QueueInOrder' /\ CollectedOrReopened' /\ (stored \subseteq Over)'
    BY DEF SyncInv, RunningIsActive, QueueInOrder, PausedQueueHasNoAutomatic, QueuedRunsDiffer,
           CollectedOrReopened, Over
<1>3. History'
    BY DEF SyncInv, History, RowSound, Sound, Saved, Handled, Nothing, InOrder, FullCovers, Covers,
           Extent, Over, Begun
<1>4. ASSUME NEW v \in Workers PROVE Process(v, worker[v])'
  <2>1. Process(v, worker'[v])
      BY <1>1 DEF SyncInv
  <2> QED BY <2>1 DEF Process, Executes, Holds, Sound, Saved, Handled, Nothing, Advanced, Covers,
                      Extent, Over, Begun
<1> QED BY <1>1, <1>2, <1>3, <1>4 DEF SyncInv

\* What a process is and knows.
LEMMA ProcessFacts ==
    ASSUME SyncInv, NEW w \in Workers
    PROVE  /\ worker[w] \in WorkerState /\ Process(w, worker[w])
           /\ worker[w].run # NoRun => /\ worker[w].run \in Runs /\ run[worker[w].run] \in RunRow
                                       /\ RowSound(worker[w].run)
BY DEF SyncInv, TypeOK, History, WorkerState

LEMMA IdleIsSound == ASSUME NEW w \in Workers PROVE IdleWorker \in WorkerState /\ Process(w, IdleWorker)
BY DEF IdleWorker, WorkerState, Steps, Checkpoint, Fresh, Process, Sound, Handled, NoRun

\* A process that ends its tick, cut off or not.
LEMMA EndsTick ==
    ASSUME SyncInv, NEW w \in Workers, worker' = [worker EXCEPT ![w] = IdleWorker],
           UNCHANGED <<control, paused, run, stored, game>>, mishaps' \in 0..MaxMishaps
    PROVE  SyncInv'
BY IdleIsSound, ProcessStep

\* It goes on elsewhere with the same checkpoint: what it must know there is to be shown.
LEMMA MovesOn ==
    ASSUME SyncInv, NEW w \in Workers, worker[w].run # NoRun,
           NEW p \in WorkerState, worker' = [worker EXCEPT ![w] = p],
           p.run = worker[w].run, p.mine = worker[w].mine, p.pc \notin {"idle", "claim"},
           UNCHANGED <<control, paused, run, stored, game>>, mishaps' \in 0..MaxMishaps,
           p.pc = "fetch" => p.cur \in Games,
           p.cancelled \/ p.result = "stopped" =>
               worker[w].cancelled \/ worker[w].result = "stopped" \/ run[p.run].trigger = "AUTOMATIC",
           p.pc \in {"last", "finish"} /\ p.result = "complete" =>
               \/ p.pc = worker[w].pc /\ worker[w].result = "complete"
               \/ p.pc = "last" /\ p.mine.windows = {} /\ p.mine.todo = {}
    PROVE  SyncInv'
<1>1. Process(w, p)
    BY ProcessFacts DEF Process, Executes
<1> QED BY <1>1, ProcessStep

LEMMA BeginStep ==
    ASSUME SyncInv, NEW w \in Workers, begin(w)
    PROVE  SyncInv'
<1>1. worker[w].run # NoRun /\ UNCHANGED <<control, paused, run, stored, game, mishaps>>
    BY DEF begin, Asked
<1>2. worker[w] \in WorkerState /\ Process(w, worker[w]) /\ run[worker[w].run] \in RunRow
    BY <1>1, ProcessFacts
<1>3. mishaps' \in 0..MaxMishaps
    BY <1>1 DEF SyncInv, TypeOK
<1>4. CASE MustStop(w)
  <2> DEFINE p == [worker[w] EXCEPT !.pc = "finish", !.result = "stopped"]
  <2>1. worker' = [worker EXCEPT ![w] = p] /\ p \in WorkerState
      BY <1>2, <1>4 DEF begin, WorkerState, Steps
  <2>2. p.run = worker[w].run /\ p.mine = worker[w].mine /\ p.pc = "finish" /\ p.result = "stopped"
      BY <1>2 DEF WorkerState
  <2>3. run[p.run].trigger = "AUTOMATIC"
      BY <1>1, <1>2, <1>4, <2>2 DEF MustStop, Process, Executes
  <2> HIDE DEF p
  <2> QED BY <1>1, <1>3, <2>1, <2>2, <2>3, MovesOn
<1>5. CASE ~MustStop(w) /\ run[worker[w].run].scope.kind = "event"
  <2> DEFINE p == [worker[w] EXCEPT !.pc = "fetch", !.cur = run[worker[w].run].scope.game]
  <2>1. p.cur \in Games
      BY <1>2, <1>5 DEF WorkerState, RunRow, Scopes
  <2>2. worker' = [worker EXCEPT ![w] = p] /\ p \in WorkerState
      BY <1>2, <1>5, <2>1 DEF begin, WorkerState, Steps
  <2>3. /\ p.run = worker[w].run /\ p.mine = worker[w].mine /\ p.pc = "fetch"
        /\ p.result = worker[w].result /\ p.cancelled = worker[w].cancelled
      BY <1>2 DEF WorkerState
  <2> HIDE DEF p
  <2> QED BY <1>1, <1>3, <2>1, <2>2, <2>3, MovesOn
<1>6. CASE ~MustStop(w) /\ run[worker[w].run].scope.kind # "event"
  <2> DEFINE p == [worker[w] EXCEPT !.pc = "loop"]
  <2>1. worker' = [worker EXCEPT ![w] = p] /\ p \in WorkerState
      BY <1>2, <1>6 DEF begin, WorkerState, Steps
  <2>2. /\ p.run = worker[w].run /\ p.mine = worker[w].mine /\ p.pc = "loop"
        /\ p.result = worker[w].result /\ p.cancelled = worker[w].cancelled
      BY <1>2 DEF WorkerState
  <2> HIDE DEF p
  <2> QED BY <1>1, <1>3, <2>1, <2>2, MovesOn
<1> QED BY <1>4, <1>5, <1>6

LEMMA LoopStep ==
    ASSUME SyncInv, NEW w \in Workers, loop(w)
    PROVE  SyncInv'
<1>1. worker[w].run # NoRun /\ worker[w].pc = "loop" /\ UNCHANGED <<control, paused, run, stored, game, mishaps>>
    BY DEF loop, Asked
<1>2. worker[w] \in WorkerState /\ Process(w, worker[w]) /\ run[worker[w].run] \in RunRow
    BY <1>1, ProcessFacts
<1>3. mishaps' \in 0..MaxMishaps
    BY <1>1 DEF SyncInv, TypeOK
<1> DEFINE mine == worker[w].mine
<1>4. CASE MustStop(w)
  <2> DEFINE p == [worker[w] EXCEPT !.pc = "last", !.result = "stopped"]
  <2>1. worker' = [worker EXCEPT ![w] = p] /\ p \in WorkerState
      BY <1>2, <1>4 DEF loop, WorkerState, Steps
  <2>2. p.run = worker[w].run /\ p.mine = mine /\ p.pc = "last" /\ p.result = "stopped"
      BY <1>2 DEF WorkerState
  <2>3. run[p.run].trigger = "AUTOMATIC"
      BY <1>1, <1>2, <1>4, <2>2 DEF MustStop, Process, Executes
  <2> HIDE DEF p
  <2> QED BY <1>1, <1>3, <2>1, <2>2, <2>3, MovesOn
<1>5. CASE ~MustStop(w) /\ mine.windows # {}
  <2> DEFINE p == [worker[w] EXCEPT !.pc = "list"]
  <2>1. worker' = [worker EXCEPT ![w] = p] /\ p \in WorkerState
      BY <1>2, <1>5 DEF loop, WorkerState, Steps
  <2>2. /\ p.run = worker[w].run /\ p.mine = mine /\ p.pc = "list"
        /\ p.result = worker[w].result /\ p.cancelled = worker[w].cancelled
      BY <1>2 DEF WorkerState
  <2> HIDE DEF p
  <2> QED BY <1>1, <1>3, <2>1, <2>2, MovesOn
<1>6. CASE ~MustStop(w) /\ mine.windows = {} /\ mine.todo # {}
  <2>1. PICK g \in mine.todo : worker' = [worker EXCEPT ![w] = [@ EXCEPT !.pc = "fetch", !.cur = g]]
      BY <1>6 DEF loop
  <2> DEFINE p == [worker[w] EXCEPT !.pc = "fetch", !.cur = g]
  <2>2. g \in Games
      BY <1>2, <2>1 DEF WorkerState, Checkpoint
  <2>3. worker' = [worker EXCEPT ![w] = p] /\ p \in WorkerState
      BY <1>2, <2>1, <2>2 DEF WorkerState, Steps
  <2>4. /\ p.run = worker[w].run /\ p.mine = mine /\ p.pc = "fetch" /\ p.cur = g
        /\ p.result = worker[w].result /\ p.cancelled = worker[w].cancelled
      BY <1>2 DEF WorkerState
  <2> HIDE DEF p
  <2> QED BY <1>1, <1>3, <2>2, <2>3, <2>4, MovesOn
<1>7. CASE ~MustStop(w) /\ mine.windows = {} /\ mine.todo = {}
  <2> DEFINE p == [worker[w] EXCEPT !.pc = "last"]
  <2>1. worker' = [worker EXCEPT ![w] = p] /\ p \in WorkerState
      BY <1>2, <1>7 DEF loop, WorkerState, Steps
  <2>2. /\ p.run = worker[w].run /\ p.mine = mine /\ p.pc = "last"
        /\ p.result = worker[w].result /\ p.cancelled = worker[w].cancelled
      BY <1>2 DEF WorkerState
  <2> HIDE DEF p
  <2> QED BY <1>1, <1>3, <1>7, <2>1, <2>2, MovesOn
<1> QED BY <1>4, <1>5, <1>6, <1>7

\* A heartbeat leaves a note, of the pause or of its failure.
LEMMA NoteSteps ==
    ASSUME SyncInv, NEW w \in Workers, heartbeatSeesPause(w) \/ heartbeatFails(w)
    PROVE  SyncInv'
<1>1. /\ worker[w].run # NoRun /\ UNCHANGED <<control, paused, run, stored, game>>
      /\ mishaps' \in 0..MaxMishaps
    BY QueueLimitAssumption DEF SyncInv, TypeOK, heartbeatSeesPause, heartbeatFails, Mishap
<1>2. worker[w] \in WorkerState /\ Process(w, worker[w])
    BY ProcessFacts
<1>3. PICK p \in WorkerState :
          /\ worker' = [worker EXCEPT ![w] = p]
          /\ p.run = worker[w].run /\ p.mine = worker[w].mine /\ p.pc = worker[w].pc
          /\ p.cur = worker[w].cur /\ p.result = worker[w].result
          /\ p.cancelled = worker[w].cancelled \/ run[worker[w].run].trigger = "AUTOMATIC"
  <2>1. CASE heartbeatSeesPause(w)
    <3> DEFINE p == [worker[w] EXCEPT !.cancelled = TRUE]
    <3>1. p \in WorkerState /\ worker' = [worker EXCEPT ![w] = p]
        BY <1>2, <2>1 DEF heartbeatSeesPause, WorkerState
    <3>2. /\ p.run = worker[w].run /\ p.mine = worker[w].mine /\ p.pc = worker[w].pc
          /\ p.cur = worker[w].cur /\ p.result = worker[w].result
          /\ p.cancelled = worker[w].cancelled \/ run[worker[w].run].trigger = "AUTOMATIC"
        BY <1>2, <2>1 DEF heartbeatSeesPause, WorkerState
    <3> HIDE DEF p
    <3> QED BY <3>1, <3>2
  <2>2. CASE heartbeatFails(w)
    <3> DEFINE p == [worker[w] EXCEPT !.lost = TRUE]
    <3>1. p \in WorkerState /\ worker' = [worker EXCEPT ![w] = p]
        BY <1>2, <2>2 DEF heartbeatFails, WorkerState
    <3>2. /\ p.run = worker[w].run /\ p.mine = worker[w].mine /\ p.pc = worker[w].pc
          /\ p.cur = worker[w].cur /\ p.result = worker[w].result
          /\ p.cancelled = worker[w].cancelled \/ run[worker[w].run].trigger = "AUTOMATIC"
        BY <1>2, <2>2 DEF heartbeatFails, WorkerState
    <3> HIDE DEF p
    <3> QED BY <3>1, <3>2
  <2> QED BY <2>1, <2>2
<1> QED BY <1>1, <1>2, <1>3, MovesOn DEF Process

LEMMA CutOffSteps ==
    ASSUME SyncInv, NEW w \in Workers, leaseLost(w) \/ crash(w)
    PROVE  SyncInv'
BY QueueLimitAssumption, EndsTick DEF leaseLost, crash, Mishap, SyncInv, TypeOK

\* A process notes progress in its own checkpoint.
LEMMA Notes ==
    ASSUME SyncInv, NEW w \in Workers, worker[w].run # NoRun,
           NEW p \in WorkerState, worker' = [worker EXCEPT ![w] = p],
           p.run = worker[w].run, p.pc = "save", p.result = worker[w].result, p.cancelled = worker[w].cancelled,
           UNCHANGED <<control, paused, run, stored, game, mishaps>>,
           Sound(p.mine), Advanced(worker[w].mine, p.mine),
           ~Scanning(w) /\ Nothing(worker[w].mine) => Nothing(p.mine),
           \A q \in Runs : Covers(worker[w].mine, q) => Covers(p.mine, q)
    PROVE  SyncInv'
<1>1. Process(w, worker[w]) /\ Executes(w, worker[w])
    BY ProcessFacts DEF Process
<1>2. Holds(w, p.run) => Advanced(Saved(p.run), p.mine)
    BY <1>1 DEF Executes, Advanced
<1>3. Executes(w, p)
    BY <1>1, <1>2 DEF Executes, Scanning
<1>4. Process(w, p)
    BY <1>1, <1>3 DEF Process
<1>5. mishaps' \in 0..MaxMishaps
    BY DEF SyncInv, TypeOK
<1> QED BY <1>4, <1>5, ProcessStep

LEMMA ListStep ==
    ASSUME SyncInv, NEW w \in Workers, NEW window \in SUBSET Games,
           listEvents(w, window) \/ listFailed(w, window)
    PROVE  SyncInv'
<1> DEFINE mine == worker[w].mine
           finished == {g \in window : game[g] \in {"over", "old"}}
<1>1. worker[w] \in WorkerState /\ Process(w, worker[w]) /\ mine \in Checkpoint
    BY ProcessFacts DEF WorkerState
<1>2. /\ worker[w].pc = "list" /\ worker[w].run # NoRun
      /\ window # {} /\ window \subseteq mine.windows
      /\ UNCHANGED <<control, paused, run, stored, game, mishaps>>
    BY <1>1 DEF listEvents, listFailed, Process
<1>3. ~Nothing(mine)
    BY <1>2 DEF Nothing
<1>4. CASE listEvents(w, window)
  <2> DEFINE c == [mine EXCEPT !.windows = @ \ window, !.found = @ \cup finished, !.todo = @ \cup finished]
             p == [worker[w] EXCEPT !.pc = "save", !.mine = c]
  <2>1. c \in Checkpoint
      BY <1>1 DEF Checkpoint
  <2>2. /\ c.windows = mine.windows \ window /\ c.found = mine.found \cup finished
        /\ c.todo = mine.todo \cup finished /\ c.failed = mine.failed /\ c.retry = mine.retry
      BY <1>1 DEF Checkpoint
  <2>3. worker' = [worker EXCEPT ![w] = p]
      BY <1>4 DEF listEvents
  <2> HIDE DEF c
  <2>0. p \in WorkerState
      BY <1>1, <2>1 DEF WorkerState, Steps
  <2>4. /\ p.run = worker[w].run /\ p.mine = c /\ p.pc = "save"
        /\ p.result = worker[w].result /\ p.cancelled = worker[w].cancelled
      BY <1>1 DEF WorkerState
  <2> HIDE DEF p
  <2>5. finished \subseteq Over
      BY DEF Over
  <2>6. mine.windows \cap mine.found = {}
      BY <1>1 DEF Process, Sound
  <2>7. Handled(c) = Handled(mine)
      BY <1>2, <2>2, <2>6 DEF Handled
  <2>8. Sound(c)
      BY <1>1, <1>2, <2>2, <2>5, <2>6, <2>7 DEF Process, Sound
  <2>9. Advanced(mine, c)
      BY <1>2, <2>2, <2>7 DEF Advanced, Extent
  <2>10. ASSUME NEW q \in Runs, Covers(mine, q) PROVE Covers(c, q)
    <3>1. Saved(q).found \subseteq Over
        BY DEF SyncInv, History, RowSound, Sound
    <3>2. Saved(q).found \cap window \subseteq finished
        BY <3>1 DEF Over
    <3> QED BY <1>2, <2>2, <2>10, <3>2 DEF Covers, Extent
  <2> QED BY <1>2, <1>3, <2>0, <2>3, <2>4, <2>8, <2>9, <2>10, Notes
<1>5. CASE listFailed(w, window)
  <2> DEFINE c == [mine EXCEPT !.windows = @ \ window, !.retry = TRUE, !.reported = TRUE]
             p == [worker[w] EXCEPT !.pc = "save", !.mine = c]
  <2>1. c \in Checkpoint
      BY <1>1 DEF Checkpoint
  <2>2. /\ c.windows = mine.windows \ window /\ c.found = mine.found
        /\ c.todo = mine.todo /\ c.failed = mine.failed /\ c.retry
      BY <1>1 DEF Checkpoint
  <2>3. worker' = [worker EXCEPT ![w] = p]
      BY <1>5 DEF listFailed
  <2> HIDE DEF c
  <2>0. p \in WorkerState
      BY <1>1, <2>1 DEF WorkerState, Steps
  <2>4. /\ p.run = worker[w].run /\ p.mine = c /\ p.pc = "save"
        /\ p.result = worker[w].result /\ p.cancelled = worker[w].cancelled
      BY <1>1 DEF WorkerState
  <2> HIDE DEF p
  <2>5. Sound(c) /\ Advanced(mine, c)
      BY <1>1, <2>2 DEF Process, Sound, Advanced, Extent, Handled
  <2>6. \A q \in Runs : Covers(c, q)
      BY <2>2 DEF Covers
  <2> QED BY <1>2, <1>3, <2>0, <2>3, <2>4, <2>5, <2>6, Notes
<1> QED BY <1>4, <1>5

LEMMA CandidateFailedStep ==
    ASSUME SyncInv, NEW w \in Workers, candidateFailed(w)
    PROVE  SyncInv'
<1> DEFINE mine == worker[w].mine
           g == worker[w].cur
           c == [mine EXCEPT !.todo = @ \ {g}, !.failed = @ \cup {g}, !.retry = TRUE, !.reported = TRUE]
           p == [worker[w] EXCEPT !.pc = "save", !.cur = NoGame, !.mine = c]
<1>1. worker[w] \in WorkerState /\ Process(w, worker[w]) /\ mine \in Checkpoint
    BY ProcessFacts DEF WorkerState
<1>2. worker[w].run # NoRun /\ Scanning(w) /\ UNCHANGED <<control, paused, run, stored, game, mishaps>>
    BY <1>1 DEF candidateFailed, Process
<1>3. g \in Games
    BY <1>1 DEF candidateFailed, Process
<1>4. c \in Checkpoint
    BY <1>1, <1>3 DEF Checkpoint
<1>5. /\ c.windows = mine.windows /\ c.found = mine.found
      /\ c.todo = mine.todo \ {g} /\ c.failed = mine.failed \cup {g} /\ c.retry
    BY <1>1 DEF Checkpoint
<1>6. worker' = [worker EXCEPT ![w] = p]
    BY DEF candidateFailed
<1> HIDE DEF c
<1>0. p \in WorkerState
    BY <1>1, <1>4 DEF WorkerState, Steps
<1>7. /\ p.run = worker[w].run /\ p.mine = c /\ p.pc = "save"
      /\ p.result = worker[w].result /\ p.cancelled = worker[w].cancelled
    BY <1>1 DEF WorkerState
<1> HIDE DEF p
<1>8. Sound(c) /\ Advanced(mine, c)
    BY <1>1, <1>5 DEF Process, Sound, Advanced, Extent, Handled
<1>9. \A q \in Runs : Covers(c, q)
    BY <1>5 DEF Covers
<1> QED BY <1>0, <1>2, <1>6, <1>7, <1>8, <1>9, Notes

\* After an error nothing of the process's own view counts.
LEMMA ErrorStep ==
    ASSUME SyncInv, NEW w \in Workers, workerError(w)
    PROVE  SyncInv'
<1> DEFINE r == worker[w].run
           p == [worker[w] EXCEPT !.pc = "finish", !.cur = NoGame, !.mine = Saved(r),
                                  !.result = IF worker[w].cancelled THEN "stopped" ELSE "error"]
<1>1. /\ worker[w] \in WorkerState /\ Process(w, worker[w])
      /\ r \in Runs /\ r # NoRun /\ run[r] \in RunRow /\ RowSound(r)
    BY ProcessFacts DEF workerError
<1>2. worker' = [worker EXCEPT ![w] = p] /\ p \in WorkerState
    BY <1>1 DEF workerError, WorkerState, Steps, RunRow, Saved
<1>3. /\ p.run = r /\ p.mine = Saved(r) /\ p.pc = "finish" /\ p.result # "complete"
      /\ p.cancelled = worker[w].cancelled /\ (p.result = "stopped" => p.cancelled)
    BY <1>1 DEF WorkerState
<1> HIDE DEF p
<1>4. ASSUME Holds(w, r), run[r].full, NEW q \in Runs, q < r PROVE Covers(Saved(r), q)
  <2>1. run[r].status \in Active
      BY <1>1, <1>4 DEF SyncInv, RunningIsActive, Holds, Active
  <2> QED BY <1>1, <1>4, <2>1 DEF SyncInv, History, FullCovers
<1>5. Executes(w, p)
    BY <1>1, <1>3, <1>4 DEF Process, Executes, RowSound, Advanced
<1>6. Process(w, p)
    BY <1>1, <1>3, <1>5 DEF Process, RowSound
<1> QED BY <1>2, <1>6, ProcessStep DEF workerError, SyncInv, TypeOK

-----------------------------------------------------------------------------
(* A game is stored.                                                       *)

LEMMA IngestStep ==
    ASSUME SyncInv, NEW w \in Workers, NEW valid \in BOOLEAN, ingestKhlEventDetail(w, valid)
    PROVE  SyncInv'
<1> DEFINE mine == worker[w].mine
           g == worker[w].cur
<1>1. worker[w] \in WorkerState /\ Process(w, worker[w]) /\ mine \in Checkpoint
    BY ProcessFacts DEF WorkerState
<1>2. /\ worker[w].run # NoRun /\ g \in Games /\ g \in Over
      /\ UNCHANGED <<control, paused, run, game, mishaps>> /\ stored' = stored \cup {g}
    BY <1>1 DEF ingestKhlEventDetail, Process, Over
<1>3. PICK p \in WorkerState :
          /\ worker' = [worker EXCEPT ![w] = p]
          /\ p.run = worker[w].run /\ p.pc \in {"save", "finish"}
          /\ p.pc = "finish" => ~Scanning(w)
          /\ p.result = worker[w].result /\ p.cancelled = worker[w].cancelled
          /\ p.mine.windows = mine.windows /\ p.mine.found = mine.found /\ p.mine.todo = mine.todo \ {g}
          /\ p.mine.failed = mine.failed /\ p.mine.retry = mine.retry
  <2> DEFINE c == [mine EXCEPT !.todo = @ \ {g}, !.reported = @ \/ ~valid]
             p == [worker[w] EXCEPT !.pc = IF Scanning(w) THEN "save" ELSE "finish",
                                    !.cur = NoGame, !.mine = c]
  <2>1. c \in Checkpoint
      BY <1>1 DEF Checkpoint
  <2>2. c.windows = mine.windows /\ c.found = mine.found /\ c.todo = mine.todo \ {g}
        /\ c.failed = mine.failed /\ c.retry = mine.retry
      BY <1>1 DEF Checkpoint
  <2>3. worker' = [worker EXCEPT ![w] = p]
      BY DEF ingestKhlEventDetail
  <2> HIDE DEF c
  <2>4. p \in WorkerState
      BY <1>1, <2>1 DEF WorkerState, Steps
  <2>5. /\ p.run = worker[w].run /\ p.mine = c /\ p.pc \in {"save", "finish"}
        /\ p.pc = "finish" => ~Scanning(w)
        /\ p.result = worker[w].result /\ p.cancelled = worker[w].cancelled
      BY <1>1 DEF WorkerState
  <2> HIDE DEF p
  <2> QED BY <2>2, <2>3, <2>4, <2>5
<1>4. TypeOK' /\ (stored \subseteq Over)'
    BY <1>2, <1>3 DEF SyncInv, TypeOK, Over
<1>5. RunningIsActive' /\ QueueInOrder' /\ CollectedOrReopened'
    BY <1>2 DEF SyncInv, RunningIsActive, QueueInOrder, PausedQueueHasNoAutomatic, QueuedRunsDiffer,
                CollectedOrReopened
<1>6. History'
    BY <1>2 DEF SyncInv, History, RowSound, Sound, Saved, Handled, Nothing, InOrder, FullCovers, Covers,
                Extent, Over, Begun
<1>7. ASSUME NEW v \in Workers, v # w PROVE Process(v, worker[v])'
  <2>1. worker'[v] = worker[v] /\ Process(v, worker'[v])
      BY <1>3, <1>7 DEF SyncInv, TypeOK
  <2> QED BY <1>2, <2>1 DEF Process, Executes, Holds, Sound, Saved, Handled, Nothing, Advanced, Covers,
                            Extent, Over, Begun
<1>8. Process(w, worker[w])'
  <2>1. worker'[w] = p
      BY <1>3 DEF SyncInv, TypeOK
  <2>2. Sound(p.mine)'
      BY <1>1, <1>2, <1>3 DEF Process, Sound, Handled, Over, Begun
  <2>3. Executes(w, worker[w])
      BY <1>1, <1>2 DEF Process
  <2>4. ~Scanning(w) => Nothing(mine) /\ Nothing(p.mine) /\ Nothing(Saved(p.run))
      BY <1>2, <1>3, <2>3, ProcessFacts DEF Scanning, Executes, Nothing, RowSound
  <2>5. Holds(w, p.run) => Advanced(Saved(p.run), p.mine)
      BY <1>3, <2>3 DEF Executes, Advanced, Handled, Extent
  <2>6. ASSUME Holds(w, p.run), run[p.run].full, NEW q \in Runs, q < p.run PROVE Covers(p.mine, q)'
    <3>1. Covers(mine, q)
        BY <1>3, <2>3, <2>6 DEF Executes
    <3> QED BY <1>2, <1>3, <3>1 DEF Covers, Extent, Saved
  <2>7. /\ run[p.run].status \notin {"NONE", "QUEUED"}
        /\ p.cancelled \/ p.result = "stopped" => run[p.run].trigger = "AUTOMATIC"
        /\ run[p.run].scope.kind = "event" => Nothing(p.mine)
      BY <1>3, <2>3, <2>4 DEF Executes, Scanning
  <2>8. p.pc = "finish" => p.mine.found = Saved(p.run).found
      BY <1>3, <2>4 DEF Nothing
  <2>9. Executes(w, p)'
      BY <1>2, <2>5, <2>6, <2>7, <2>8 DEF Executes, Holds, Saved, Nothing, Advanced, Handled, Extent
  <2>10. p.pc = "finish" => p.mine.windows = {} /\ p.mine.todo = {}
      BY <1>3, <2>4 DEF Nothing
  <2> QED BY <1>2, <1>3, <2>1, <2>2, <2>9, <2>10 DEF Process
<1> QED BY <1>4, <1>5, <1>6, <1>7, <1>8 DEF SyncInv

-----------------------------------------------------------------------------
(* A checkpoint is saved.                                                  *)

LEMMA SaveStep ==
    ASSUME SyncInv, NEW w \in Workers, saveKhlSyncCheckpoint(w)
    PROVE  SyncInv'
<1> DEFINE r == worker[w].run
           mine == worker[w].mine
<1>1. /\ worker[w] \in WorkerState /\ Process(w, worker[w])
      /\ r \in Runs /\ r # NoRun /\ run[r] \in RunRow /\ RowSound(r)
    BY ProcessFacts DEF saveKhlSyncCheckpoint, Process
<1>2. Holds(w, r) /\ run[r].status = "RUNNING" /\ Executes(w, worker[w])
    BY <1>1 DEF saveKhlSyncCheckpoint, Owns, Holds, SyncInv, RunningIsActive, Process
<1>3. UNCHANGED <<control, paused, stored, game, mishaps>>
    BY DEF saveKhlSyncCheckpoint
<1>4. run' = [run EXCEPT ![r].checkpoint = mine] /\ run' \in Row
    BY <1>1 DEF saveKhlSyncCheckpoint, Save, SyncInv, TypeOK, Row, RunRow, WorkerState
<1>5. ASSUME NEW q \in Runs
      PROVE  /\ run'[q].status = run[q].status /\ run'[q].full = run[q].full
             /\ run'[q].scope = run[q].scope /\ run'[q].trigger = run[q].trigger
             /\ q # r => run'[q] = run[q]
    BY <1>4 DEF SyncInv, TypeOK, RunRow
<1>6. run'[r].checkpoint = mine
    BY <1>1, <1>4 DEF SyncInv, TypeOK, RunRow
<1>7. PICK p \in WorkerState :
          /\ worker' = [worker EXCEPT ![w] = p]
          /\ \/ p = IdleWorker
             \/ /\ p.run = r /\ p.mine = mine /\ p.result = worker[w].result
                /\ p.cancelled = worker[w].cancelled
                /\ p.pc = "loop" \/ (p.pc = "finish" /\ worker[w].pc = "last")
  <2>1. CASE worker[w].pc = "save"
    <3> DEFINE p == [worker[w] EXCEPT !.pc = "loop"]
    <3>1. p \in WorkerState /\ worker' = [worker EXCEPT ![w] = p]
        BY <1>1, <2>1 DEF saveKhlSyncCheckpoint, WorkerState, Steps
    <3>2. /\ p.run = r /\ p.mine = mine /\ p.result = worker[w].result
          /\ p.cancelled = worker[w].cancelled /\ p.pc = "loop"
        BY <1>1 DEF WorkerState
    <3> HIDE DEF p
    <3> QED BY <3>1, <3>2
  <2>2. CASE worker[w].pc = "last" /\ ~worker[w].lost
    <3> DEFINE p == [worker[w] EXCEPT !.pc = "finish"]
    <3>1. p \in WorkerState /\ worker' = [worker EXCEPT ![w] = p]
        BY <1>1, <2>2 DEF saveKhlSyncCheckpoint, WorkerState, Steps
    <3>2. /\ p.run = r /\ p.mine = mine /\ p.result = worker[w].result
          /\ p.cancelled = worker[w].cancelled /\ p.pc = "finish"
        BY <1>1 DEF WorkerState
    <3> HIDE DEF p
    <3> QED BY <2>2, <3>1, <3>2
  <2>3. CASE worker[w].pc = "last" /\ worker[w].lost
      BY <2>3, IdleIsSound DEF saveKhlSyncCheckpoint
  <2> QED BY <2>1, <2>2, <2>3 DEF saveKhlSyncCheckpoint
<1>8. TypeOK' /\ (stored \subseteq Over)'
    BY <1>3, <1>4, <1>7 DEF SyncInv, TypeOK, Row, Over
<1>9. RunningIsActive' /\ QueueInOrder'
    BY <1>3, <1>5 DEF SyncInv, RunningIsActive, QueueInOrder, PausedQueueHasNoAutomatic, QueuedRunsDiffer
<1>10. CollectedOrReopened'
  <2>1. ASSUME NEW q \in Runs, run[q].status \in {"SUCCEEDED", "PARTIAL", "FAILED"}
        PROVE  run'[q] = run[q]
      BY <1>2, <1>5, <2>1
  <2> QED BY <1>3, <1>5, <2>1 DEF SyncInv, CollectedOrReopened
<1>11. ASSUME NEW q \in Runs PROVE RowSound(q)'
  <2>1. CASE q = r
    <3>1. Saved(q)' = mine /\ run'[q].scope = run[r].scope
        BY <1>5, <1>6, <2>1 DEF Saved
    <3>2. Sound(mine) /\ (run[r].scope.kind = "event" => Nothing(mine))
        BY <1>1, <1>2 DEF Process, Executes
    <3>3. Sound(Saved(q))'
        BY <1>3, <3>1, <3>2 DEF Sound, Handled, Over, Begun
    <3>4. run'[q].scope.kind = "event" => Nothing(Saved(q))'
        BY <3>1, <3>2 DEF Nothing
    <3> QED BY <3>3, <3>4 DEF RowSound
  <2>2. CASE q # r
      BY <1>3, <1>5, <2>2
         DEF SyncInv, History, RowSound, Sound, Handled, Nothing, Saved, Over, Begun
  <2> QED BY <2>1, <2>2
<1>12. ASSUME NEW q \in Runs, NEW x \in Runs, q < x PROVE InOrder(q, x)' /\ FullCovers(q, x)'
  <2>1. InOrder(q, x)'
      BY <1>5, <1>12 DEF SyncInv, History, InOrder
  <2>2. CASE x = r
    <3>1. q # r /\ run'[q] = run[q]
        BY <1>5, <1>12, <2>2, QueueLimitAssumption DEF Runs
    <3>2. run[r].full => Covers(mine, q)
        BY <1>2, <1>12, <2>2 DEF Executes
    <3> QED BY <1>2, <1>3, <1>5, <1>6, <2>1, <2>2, <3>1, <3>2 DEF FullCovers, Covers, Saved, Extent
  <2>3. CASE x # r /\ q = r
    <3>1. run[x].status # "RUNNING"
        BY <1>2, <2>3 DEF SyncInv, RunningIsActive, Holds
    <3>2. Extent(mine) \subseteq Extent(Saved(r))
        BY <1>2 DEF Executes, Advanced
    <3>3. run[x].full /\ run[x].status \in Active => Extent(Saved(r)) \subseteq Saved(x).windows \cup stored
        BY <1>12, <2>3, <3>1 DEF SyncInv, History, FullCovers, Active
    <3> QED BY <1>3, <1>5, <1>6, <2>1, <2>3, <3>2, <3>3 DEF FullCovers, Covers, Saved, Extent
  <2>4. CASE x # r /\ q # r
      BY <1>3, <1>5, <1>12, <2>1, <2>4 DEF SyncInv, History, FullCovers, Covers, Saved, Extent
  <2> QED BY <2>2, <2>3, <2>4
<1>13. ASSUME NEW v \in Workers, v # w PROVE Process(v, worker[v])'
  <2>1. worker'[v] = worker[v] /\ Process(v, worker'[v]) /\ ~Holds(v, worker'[v].run)
      BY <1>2, <1>7, <1>13 DEF SyncInv, TypeOK, Holds
  <2>2. worker'[v].run # NoRun => worker'[v].run \in Runs
      BY <2>1, ProcessFacts
  <2> QED BY <1>3, <1>5, <2>1, <2>2 DEF Process, Executes, Holds, Sound, Handled, Nothing, Over, Begun
<1>14. Process(w, worker[w])'
  <2>1. worker'[w] = p
      BY <1>7 DEF SyncInv, TypeOK
  <2>2. CASE p = IdleWorker
    <3>1. Process(w, IdleWorker)
        BY IdleIsSound
    <3> QED BY <1>3, <2>1, <2>2, <3>1 DEF Process, Sound, Handled, Over, Begun, IdleWorker
  <2>3. CASE p # IdleWorker
    <3>1. Sound(mine) /\ Advanced(mine, mine)
        BY <1>1 DEF Process, Advanced
    <3>2. ASSUME run[r].full, NEW q \in Runs, q < r PROVE Covers(p.mine, q)'
      <4>1. q # r /\ run'[q] = run[q]
          BY <1>5, <3>2, QueueLimitAssumption DEF Runs
      <4> QED BY <1>2, <1>3, <1>7, <2>3, <3>2, <4>1 DEF Executes, Covers, Extent, Saved
    <3>3. Executes(w, p)'
        BY <1>1, <1>2, <1>3, <1>5, <1>6, <1>7, <2>3, <3>1, <3>2
           DEF Executes, Holds, Saved, Nothing, Advanced, Handled, Extent
    <3> QED BY <1>1, <1>3, <1>7, <2>1, <2>3, <3>1, <3>3 DEF Process, Sound, Handled, Over, Begun
  <2> QED BY <2>2, <2>3
<1> QED BY <1>8, <1>9, <1>10, <1>11, <1>12, <1>13, <1>14 DEF SyncInv, History

-----------------------------------------------------------------------------
(* A run is finished.                                                      *)

\* A run that completed without a failure stored every candidate it found.
LEMMA CompleteIsStored ==
    ASSUME SyncInv, NEW w \in Workers, worker[w].pc = "finish", worker[w].result = "complete",
           ~worker[w].mine.retry
    PROVE  worker[w].mine.found \subseteq stored
BY ProcessFacts DEF Process, Sound, Handled

LEMMA FinishStep ==
    ASSUME SyncInv, NEW w \in Workers, finishKhlSync(w)
    PROVE  SyncInv'
<1> DEFINE r == worker[w].run
           mine == worker[w].mine
<1>1. /\ worker[w] \in WorkerState /\ Process(w, worker[w]) /\ worker[w].pc = "finish"
      /\ r \in Runs /\ r # NoRun /\ run[r] \in RunRow /\ RowSound(r)
    BY ProcessFacts DEF finishKhlSync, Process
<1>2. Holds(w, r) /\ run[r].status = "RUNNING" /\ Executes(w, worker[w])
    BY <1>1 DEF finishKhlSync, Owns, Holds, SyncInv, RunningIsActive, Process
<1>3. UNCHANGED <<paused, stored, game, mishaps>> /\ worker' = [worker EXCEPT ![w] = IdleWorker]
    BY DEF finishKhlSync
<1>4. /\ EndStatus(w) \in {"SUCCEEDED", "PARTIAL", "FAILED", "CANCELLED"}
      /\ EndStatus(w) = "FAILED" => worker[w].result = "error"
      /\ EndStatus(w) \in {"SUCCEEDED", "PARTIAL"} => worker[w].result = "complete"
    BY <1>1 DEF EndStatus, WorkerState
<1>5. run' = [run EXCEPT ![r].status = EndStatus(w)] /\ run' \in Row
    BY <1>1, <1>4 DEF finishKhlSync, SyncInv, TypeOK, Row, RunRow, Ended
<1>6. ASSUME NEW q \in Runs
      PROVE  /\ run'[q].full = run[q].full /\ run'[q].scope = run[q].scope
             /\ run'[q].trigger = run[q].trigger /\ run'[q].checkpoint = run[q].checkpoint
             /\ q # r => run'[q] = run[q]
    BY <1>5 DEF SyncInv, TypeOK, RunRow
<1>7. run'[r].status = EndStatus(w)
    BY <1>1, <1>5 DEF SyncInv, TypeOK, RunRow
<1>8. /\ control' \in ControlRow /\ control'.active = NoRun /\ control'.owner = Nobody
      /\ control'.bootstrapped =>
            /\ ~Unresolved(w)
            /\ control.bootstrapped \/ (run[r].full /\ worker[w].result = "complete")
  <2>1. /\ Released \in ControlRow /\ Released.active = NoRun /\ Released.owner = Nobody
        /\ Released.bootstrapped = control.bootstrapped
      BY DEF Released, SyncInv, TypeOK, ControlRow
  <2> DEFINE b == ~Unresolved(w) /\ (Released.bootstrapped \/ (run[r].full /\ worker[w].result = "complete"))
  <2>2. control' = [Released EXCEPT !.bootstrapped = b] /\ b \in BOOLEAN
      BY DEF finishKhlSync
  <2> HIDE DEF b
  <2>3. control' \in ControlRow /\ control'.active = NoRun /\ control'.owner = Nobody /\ control'.bootstrapped = b
      BY <2>1, <2>2 DEF ControlRow
  <2> QED BY <2>1, <2>3 DEF b
<1>9. TypeOK' /\ (stored \subseteq Over)'
    BY <1>3, <1>5, <1>8, IdleIsSound DEF SyncInv, TypeOK, Row, Over
<1>10. RunningIsActive' /\ QueueInOrder'
  <2>1. ASSUME NEW q \in Runs PROVE run'[q].status # "RUNNING" /\ q # NoRun
      BY <1>2, <1>4, <1>6, <1>7, <2>1 DEF SyncInv, RunningIsActive, Holds, Runs, NoRun
  <2>2. ASSUME NEW q \in Runs, run'[q].status = "QUEUED" PROVE run'[q] = run[q]
      BY <1>4, <1>6, <1>7, <2>2
  <2> QED BY <1>3, <1>8, <2>1, <2>2 DEF SyncInv, RunningIsActive, QueueInOrder,
                                       PausedQueueHasNoAutomatic, QueuedRunsDiffer
<1>11. CollectedOrReopened'
  <2> SUFFICES ASSUME control'.bootstrapped, NEW q \in Runs,
                      run'[q].status \in {"SUCCEEDED", "PARTIAL", "FAILED"}
               PROVE  Saved(q).found \subseteq stored
      BY <1>3, <1>6 DEF CollectedOrReopened, Saved
  <2>1. worker[w].result = "complete" => mine.found \subseteq stored /\ ~mine.retry
      BY <1>1, <1>8, CompleteIsStored DEF Unresolved
  <2>2. CASE q = r
      BY <1>1, <1>2, <1>4, <1>7, <1>8, <2>1, <2>2 DEF Unresolved, Executes
  <2>3. CASE q # r /\ control.bootstrapped
      BY <1>6, <2>3 DEF SyncInv, CollectedOrReopened, Saved
  <2>4. CASE q # r /\ run[r].full /\ worker[w].result = "complete"
    <3>1. q < r \/ r < q
        BY <1>1, <2>4, QueueLimitAssumption DEF Runs
    <3>2. ~(r < q)
        BY <1>1, <1>2, <1>6, <2>4 DEF SyncInv, History, InOrder
    <3>3. Covers(mine, q)
        BY <1>2, <2>4, <3>1, <3>2 DEF Executes
    <3>4. mine.windows = {}
        BY <1>1, <2>4 DEF Process
    <3> QED BY <2>1, <2>4, <3>3, <3>4 DEF Covers, Extent
  <2> QED BY <1>8, <2>2, <2>3, <2>4
<1>12. ASSUME NEW q \in Runs PROVE RowSound(q)'
    BY <1>3, <1>6 DEF SyncInv, History, RowSound, Sound, Handled, Nothing, Saved, Over, Begun
<1>13. ASSUME NEW q \in Runs, NEW x \in Runs, q < x PROVE InOrder(q, x)' /\ FullCovers(q, x)'
  <2>1. InOrder(q, x) /\ FullCovers(q, x)
      BY <1>13 DEF SyncInv, History
  <2>2. InOrder(q, x)'
      BY <1>2, <1>4, <1>6, <1>7, <2>1 DEF InOrder
  <2>3. FullCovers(q, x)'
      BY <1>3, <1>4, <1>6, <1>7, <2>1 DEF FullCovers, Covers, Saved, Extent, Active
  <2> QED BY <2>2, <2>3
<1>14. ASSUME NEW v \in Workers PROVE Process(v, worker[v])'
  <2>1. Process(v, worker'[v])
      BY <1>3, IdleIsSound DEF SyncInv, TypeOK
  <2>2. worker'[v].run # NoRun => worker'[v].run \in Runs
      BY <1>3, ProcessFacts DEF SyncInv, TypeOK, IdleWorker
  <2> QED BY <1>3, <1>4, <1>6, <1>7, <1>8, <2>1, <2>2, NobodyIsNoWorker
          DEF Process, Executes, Holds, Sound, Handled, Nothing, Over, Begun
<1> QED BY <1>9, <1>10, <1>11, <1>12, <1>13, <1>14 DEF SyncInv, History

-----------------------------------------------------------------------------
(* A run is claimed.                                                       *)

LEMMA ClaimStep ==
    ASSUME SyncInv, NEW w \in Workers, claimKhlSync(w)
    PROVE  SyncInv'
<1>1. CASE (control.active # NoRun /\ control.live) \/ Claimable = {}
    BY <1>1, EndsTick DEF claimKhlSync, SyncInv, TypeOK
<1>2. CASE ~((control.active # NoRun /\ control.live) \/ Claimable = {})
  <2> DEFINE r == Oldest(Claimable)
  <2>1. /\ ~(control.active # NoRun /\ control.live) /\ Claimable # {}
        /\ run' = [run EXCEPT ![r].status = "RUNNING"]
        /\ control' = [control EXCEPT !.active = r, !.owner = w, !.live = TRUE]
        /\ worker' = [worker EXCEPT ![w] = [IdleWorker EXCEPT !.pc = "begin", !.run = r, !.mine = Saved(r)]]
        /\ UNCHANGED <<paused, stored, game, mishaps>>
      BY <1>2 DEF claimKhlSync, Resume, Saved
  <2>2. Claimable \subseteq Runs
      BY DEF Claimable, SyncInv, TypeOK, ControlRow
  <2>3. r \in Claimable /\ \A q \in Claimable : r <= q
      BY <2>1, <2>2, OldestIsFirst
  <2> HIDE DEF r
  <2>4. /\ r \in Runs /\ r # NoRun /\ run[r] \in RunRow /\ RowSound(r)
        /\ run[r].status \in {"QUEUED", "RUNNING"}
      BY <2>2, <2>3 DEF Claimable, SyncInv, TypeOK, History, Runs, NoRun
  <2>5. ASSUME NEW q \in Runs, run[q].status = "RUNNING" PROVE q = r
      BY <2>1, <2>3, <2>5 DEF SyncInv, RunningIsActive, Claimable, Runs, NoRun
  <2>6. ASSUME run[r].status = "QUEUED", NEW q \in Runs, q < r PROVE run[q].status # "QUEUED"
      BY <2>3, <2>4, <2>6, QueueLimitAssumption DEF Claimable, Runs
  <2>7. PICK p \in WorkerState :
            /\ worker' = [worker EXCEPT ![w] = p]
            /\ p.run = r /\ p.mine = Saved(r) /\ p.pc = "begin" /\ p.result = "complete" /\ ~p.cancelled
    <3> DEFINE p == [IdleWorker EXCEPT !.pc = "begin", !.run = r, !.mine = Saved(r)]
    <3>1. p \in WorkerState
        BY <2>4, IdleIsSound DEF IdleWorker, WorkerState, Steps, RunRow, Saved
    <3>2. /\ p.run = r /\ p.mine = Saved(r) /\ p.pc = "begin" /\ p.result = "complete" /\ ~p.cancelled
        BY DEF IdleWorker
    <3>3. worker' = [worker EXCEPT ![w] = p]
        BY <2>1
    <3> HIDE DEF p
    <3> QED BY <3>1, <3>2, <3>3
  <2>9. run' \in Row
      BY <2>1, <2>4 DEF SyncInv, TypeOK, Row, RunRow, Active
  <2>10. ASSUME NEW q \in Runs
         PROVE  /\ run'[q].full = run[q].full /\ run'[q].scope = run[q].scope
                /\ run'[q].trigger = run[q].trigger /\ run'[q].checkpoint = run[q].checkpoint
                /\ q # r => run'[q] = run[q]
      BY <2>1 DEF SyncInv, TypeOK, RunRow
  <2>11. run'[r].status = "RUNNING"
      BY <2>1, <2>4 DEF SyncInv, TypeOK, RunRow
  <2>12. /\ control' \in ControlRow /\ control'.active = r /\ control'.owner = w
         /\ control'.bootstrapped = control.bootstrapped
      BY <2>1, <2>4 DEF SyncInv, TypeOK, ControlRow
  <2>13. TypeOK' /\ (stored \subseteq Over)'
      BY <2>1, <2>4, <2>7, <2>9, <2>12, NobodyIsNoWorker DEF SyncInv, TypeOK, Row, Over
  <2>14. RunningIsActive' /\ QueueInOrder' /\ CollectedOrReopened'
      BY <2>1, <2>5, <2>10, <2>11, <2>12
         DEF SyncInv, RunningIsActive, QueueInOrder, PausedQueueHasNoAutomatic, QueuedRunsDiffer,
             CollectedOrReopened
  <2>15. ASSUME NEW q \in Runs PROVE RowSound(q)'
      BY <2>1, <2>10 DEF SyncInv, History, RowSound, Sound, Handled, Nothing, Saved, Over, Begun
  <2>16. ASSUME NEW q \in Runs, NEW x \in Runs, q < x PROVE InOrder(q, x)' /\ FullCovers(q, x)'
    <3>1. InOrder(q, x) /\ FullCovers(q, x)
        BY <2>16 DEF SyncInv, History
    <3>2. InOrder(q, x)'
      <4>1. CASE x = r
          BY <2>4, <2>5, <2>6, <2>10, <2>11, <2>16, <3>1, <4>1, QueueLimitAssumption DEF InOrder, Runs
      <4>2. CASE x # r
          BY <2>4, <2>10, <2>11, <3>1, <4>2 DEF InOrder
      <4> QED BY <4>1, <4>2
    <3>3. FullCovers(q, x)'
        BY <2>1, <2>4, <2>10, <2>11, <3>1 DEF FullCovers, Covers, Saved, Extent, Active
    <3> QED BY <3>2, <3>3
  <2>17. ASSUME NEW v \in Workers, v # w PROVE Process(v, worker[v])'
    <3>1. worker'[v] = worker[v] /\ Process(v, worker'[v])
        BY <2>1, <2>17 DEF SyncInv, TypeOK
    <3>2. worker'[v].run # NoRun => worker'[v].run \in Runs
        BY <3>1, ProcessFacts
    <3> QED BY <2>1, <2>10, <2>11, <2>12, <2>17, <3>1, <3>2
            DEF Process, Executes, Holds, Sound, Handled, Nothing, Over, Begun
  <2>18. Process(w, worker[w])'
    <3>1. worker'[w] = p
        BY <2>7 DEF SyncInv, TypeOK
    <3>2. p.run \in Runs /\ p.run # NoRun /\ run'[p.run].status = "RUNNING" /\ RowSound(p.run)
        BY <2>4, <2>7, <2>11
    <3>3. ASSUME run[p.run].full, NEW q \in Runs, q < p.run PROVE Covers(p.mine, q)'
        BY <2>1, <2>4, <2>7, <2>10, <3>3 DEF SyncInv, History, FullCovers, Covers, Extent, Saved, Active
    <3>4. Saved(p.run)' = p.mine /\ run'[p.run].scope = run[p.run].scope /\ run'[p.run].full = run[p.run].full
        BY <2>7, <2>10, <3>2 DEF Saved
    <3>5. Executes(w, p)'
        BY <2>7, <3>2, <3>3, <3>4 DEF Executes, RowSound, Advanced, Nothing, Saved
    <3>6. Sound(p.mine)'
        BY <2>1, <2>7, <3>2 DEF RowSound, Sound, Handled, Over, Begun
    <3> QED BY <2>7, <3>1, <3>2, <3>5, <3>6 DEF Process
  <2> QED BY <2>13, <2>14, <2>15, <2>16, <2>17, <2>18 DEF SyncInv, History
<1> QED BY <1>1, <1>2

-----------------------------------------------------------------------------
(* Requests, the schedule and time.                                        *)

\* What these steps have in common: lease and clock may change, no executor and no checkpoint.
Aside ==
    /\ control' \in ControlRow /\ control'.active = control.active /\ control'.owner = control.owner
    /\ control'.bootstrapped = control.bootstrapped
    /\ worker' \in [Workers -> WorkerState] /\ \A v \in Workers : Process(v, worker'[v])
    /\ paused' \in BOOLEAN /\ mishaps' \in 0..MaxMishaps
    /\ UNCHANGED stored

\* They leave every process what it was, as long as its run stays what it is.
LEMMA ProcessesStay ==
    ASSUME SyncInv, Aside, UNCHANGED game,
           \A q \in Runs : run[q].status \notin {"NONE", "QUEUED"} => run'[q] = run[q],
           \A q \in Runs : run[q].status # "NONE" => run'[q].checkpoint = run[q].checkpoint,
           \A q, x \in Runs : q < x /\ run[x].status # "NONE" => run[q].status # "NONE"
    PROVE  \A v \in Workers : Process(v, worker[v])'
<1> SUFFICES ASSUME NEW v \in Workers PROVE Process(v, worker[v])'
    OBVIOUS
<1>1. Process(v, worker'[v]) /\ worker'[v] \in WorkerState
    BY DEF Aside
<1>2. worker'[v].run # NoRun => /\ worker'[v].run \in Runs /\ Executes(v, worker'[v])
                                /\ run'[worker'[v].run] = run[worker'[v].run]
    BY <1>1 DEF Process, Executes, WorkerState
<1>3. ASSUME worker'[v].run # NoRun, Holds(v, worker'[v].run), run[worker'[v].run].full,
             NEW q \in Runs, q < worker'[v].run, Covers(worker'[v].mine, q)
      PROVE  Covers(worker[v].mine, q)'
  <2>1. run[q].status # "NONE"
      BY <1>2, <1>3 DEF Executes
  <2> QED BY <1>3, <2>1 DEF Covers, Extent, Saved, Aside
<1>4. worker'[v].run # NoRun => Executes(v, worker[v])'
    BY <1>1, <1>2, <1>3 DEF Executes, Holds, Saved, Advanced, Handled, Extent, Nothing, Aside
<1> QED BY <1>1, <1>4 DEF Process, Sound, Handled, Over, Begun, Aside

LEMMA CreatedInOrder ==
    ASSUME SyncInv, NEW q \in Runs, NEW x \in Runs, q < x, run[x].status # "NONE"
    PROVE  run[q].status # "NONE"
BY DEF SyncInv, History, InOrder

\* The queue stays as it is.
LEMMA QueueStays ==
    ASSUME SyncInv, Aside, UNCHANGED <<run, game>>, paused' => paused
    PROVE  SyncInv'
<1>1. TypeOK' /\ (stored \subseteq Over)'
    BY DEF SyncInv, TypeOK, Aside, Over
<1>2. RunningIsActive' /\ QueueInOrder' /\ CollectedOrReopened'
    BY DEF SyncInv, RunningIsActive, QueueInOrder, PausedQueueHasNoAutomatic, QueuedRunsDiffer,
           CollectedOrReopened, Aside
<1>3. History'
    BY DEF SyncInv, History, RowSound, Sound, Saved, Handled, Nothing, InOrder, FullCovers, Covers,
           Extent, Over, Begun, Aside
<1>4. \A v \in Workers : Process(v, worker[v])'
    BY ProcessesStay, CreatedInOrder
<1> QED BY <1>1, <1>2, <1>3, <1>4 DEF SyncInv

\* A waiting run changes its trigger or is withdrawn.
LEMMA WaitingChanges ==
    ASSUME SyncInv, Aside, UNCHANGED game, run' \in Row,
           \A q \in Runs :
               /\ run'[q].checkpoint = run[q].checkpoint
               /\ run'[q].full = run[q].full /\ run'[q].scope = run[q].scope
               /\ run[q].status # "QUEUED" => run'[q] = run[q]
               /\ run'[q].status = "QUEUED" =>
                     run[q].status = "QUEUED" /\ (run'[q].trigger = "AUTOMATIC" => run[q].trigger = "AUTOMATIC")
               /\ run'[q].status \in {run[q].status, "CANCELLED"},
           paused' => \A q \in Runs : ~(run'[q].status = "QUEUED" /\ run'[q].trigger = "AUTOMATIC")
    PROVE  SyncInv'
<1>1. TypeOK' /\ (stored \subseteq Over)'
    BY DEF SyncInv, TypeOK, Aside, Over, Row
<1>2. ASSUME NEW q \in Runs PROVE run'[q].status = "RUNNING" <=> run[q].status = "RUNNING"
    OBVIOUS
<1>3. ASSUME NEW q \in Runs, run'[q].status \in {"SUCCEEDED", "PARTIAL", "FAILED", "RUNNING", "NONE"}
      PROVE  run'[q] = run[q]
    BY <1>3
<1>4. RunningIsActive' /\ CollectedOrReopened'
    BY <1>2, <1>3 DEF SyncInv, RunningIsActive, CollectedOrReopened, Aside
<1>5. QueueInOrder'
    BY DEF SyncInv, QueueInOrder, PausedQueueHasNoAutomatic, QueuedRunsDiffer
<1>6. ASSUME NEW q \in Runs PROVE RowSound(q)'
    BY DEF SyncInv, History, RowSound, Sound, Handled, Nothing, Saved, Over, Begun, Aside
<1>7. ASSUME NEW q \in Runs, NEW x \in Runs, q < x PROVE InOrder(q, x)' /\ FullCovers(q, x)'
  <2>1. InOrder(q, x) /\ FullCovers(q, x)
      BY <1>7 DEF SyncInv, History
  <2>2. InOrder(q, x)'
      BY <2>1 DEF InOrder
  <2>3. FullCovers(q, x)'
      BY <2>1 DEF FullCovers, Covers, Saved, Extent, Active, Aside
  <2> QED BY <2>2, <2>3
<1>8. \A v \in Workers : Process(v, worker[v])'
    BY ProcessesStay, CreatedInOrder
<1> QED BY <1>1, <1>4, <1>5, <1>6, <1>7, <1>8 DEF SyncInv, History

\* A general run is created with every game that has begun, so it covers what was found before.
LEMMA NewRunIsSound ==
    ASSUME SyncInv, NEW scope \in Scopes, NEW trigger \in {"MANUAL", "AUTOMATIC"}, NEW wantFull \in BOOLEAN,
           wantFull => scope.kind = "all", scope.kind = "game" => scope.game \in stored
    PROVE  \E row \in RunRow :
              /\ row = NewRun(scope, trigger, wantFull)
              /\ row.status = "QUEUED" /\ row.trigger = trigger /\ row.scope = scope
              /\ wantFull => row.full
              /\ Sound(row.checkpoint)
              /\ scope.kind = "event" => Nothing(row.checkpoint)
              /\ row.full => row.checkpoint.windows = Begun
<1> DEFINE full == scope.kind = "all" /\ (wantFull \/ ~control.bootstrapped)
           c == CASE scope.kind = "all" -> Fresh(Period(full), {})
                  [] scope.kind = "game" -> Fresh({}, {scope.game})
                  [] scope.kind = "event" -> Fresh({}, {})
           row == [status |-> "QUEUED", trigger |-> trigger, scope |-> scope, full |-> full, checkpoint |-> c]
<1>1. row = NewRun(scope, trigger, wantFull)
    BY DEF NewRun
<1>2. Over \subseteq Begun /\ stored \subseteq Over
    BY DEF Over, Begun, SyncInv
<1>3. /\ c \in Checkpoint /\ Sound(c)
      /\ scope.kind = "event" => Nothing(c)
      /\ full => c.windows = Begun
  <2>1. CASE scope.kind = "all"
    <3>1. c = Fresh(Period(full), {})
        BY <2>1
    <3>2. Period(full) \subseteq Begun /\ (full => Period(full) = Begun) /\ Begun \subseteq Games
        BY DEF Period, Begun
    <3> QED BY <2>1, <3>1, <3>2 DEF Fresh, Checkpoint, Sound, Handled
  <2>2. CASE scope.kind = "game"
    <3>1. c = Fresh({}, {scope.game}) /\ scope.game \in Games /\ scope.game \in Over
        BY <1>2, <2>2 DEF Scopes
    <3> QED BY <2>2, <3>1 DEF Fresh, Checkpoint, Sound, Handled
  <2>3. CASE scope.kind = "event"
    <3>1. c = Fresh({}, {})
        BY <2>3
    <3> QED BY <2>3, <3>1 DEF Fresh, Checkpoint, Sound, Handled, Nothing
  <2> QED BY <2>1, <2>2, <2>3 DEF Scopes
<1> HIDE DEF c
<1>4. row \in RunRow
    BY <1>3 DEF RunRow, Active
<1>5. /\ row.status = "QUEUED" /\ row.trigger = trigger /\ row.scope = scope
      /\ row.checkpoint = c /\ row.full = full
    OBVIOUS
<1> HIDE DEF row
<1> QED BY <1>1, <1>3, <1>4, <1>5

LEMMA CreateStep ==
    ASSUME SyncInv, Aside, UNCHANGED game, paused' => paused,
           NEW scope \in Scopes, NEW trigger \in {"MANUAL", "AUTOMATIC"}, NEW wantFull \in BOOLEAN,
           wantFull => scope.kind = "all", scope.kind = "game" => scope.game \in stored,
           trigger = "AUTOMATIC" => ~paused',
           Reusable(scope, trigger, wantFull) = {}, Unused # {},
           run' = [run EXCEPT ![Oldest(Unused)] = NewRun(scope, trigger, wantFull)]
    PROVE  SyncInv'
<1>1. Oldest(Unused) \in Unused /\ \A q \in Unused : Oldest(Unused) <= q
    BY OldestIsFirst DEF Unused
<1>2. PICK r \in Runs : r = Oldest(Unused)
    BY <1>1 DEF Unused
<1>3. PICK row \in RunRow :
          /\ row = NewRun(scope, trigger, wantFull)
          /\ row.status = "QUEUED" /\ row.trigger = trigger /\ row.scope = scope
          /\ wantFull => row.full
          /\ Sound(row.checkpoint)
          /\ scope.kind = "event" => Nothing(row.checkpoint)
          /\ row.full => row.checkpoint.windows = Begun
    BY NewRunIsSound
<1>4. run' = [run EXCEPT ![r] = row] /\ run[r].status = "NONE"
    BY <1>1, <1>2, <1>3 DEF Unused
<1>5. run'[r] = row /\ \A q \in Runs : q # r => run'[q] = run[q]
    BY <1>4 DEF SyncInv, TypeOK
<1>6. TypeOK' /\ (stored \subseteq Over)'
    BY <1>4 DEF SyncInv, TypeOK, Aside, Over
<1>7. RunningIsActive' /\ CollectedOrReopened'
    BY <1>3, <1>4, <1>5 DEF SyncInv, RunningIsActive, CollectedOrReopened, Aside
<1>8. QueueInOrder'
  <2>1. PausedQueueHasNoAutomatic'
      BY <1>3, <1>5 DEF SyncInv, QueueInOrder, PausedQueueHasNoAutomatic
  <2>2. ASSUME NEW q \in Runs, run[q].status = "QUEUED", run[q].scope = row.scope
        PROVE  run[q].full # row.full
      BY <1>3, <2>2 DEF Reusable, ActiveRuns, Active
  <2>3. QueuedRunsDiffer'
      BY <1>5, <2>2 DEF SyncInv, QueueInOrder, QueuedRunsDiffer
  <2> QED BY <2>1, <2>3 DEF QueueInOrder
<1>9. ASSUME NEW q \in Runs PROVE RowSound(q)'
  <2>1. Sound(run'[q].checkpoint) /\ (run'[q].scope.kind = "event" => Nothing(run'[q].checkpoint))
      BY <1>3, <1>5 DEF SyncInv, History, RowSound, Saved
  <2> QED BY <2>1 DEF RowSound, Sound, Handled, Nothing, Saved, Over, Begun, Aside
<1>10. ASSUME NEW q \in Runs, NEW x \in Runs, q < x PROVE InOrder(q, x)' /\ FullCovers(q, x)'
  <2>1. InOrder(q, x) /\ FullCovers(q, x)
      BY <1>10 DEF SyncInv, History
  <2>2. CASE x = r
    <3>1. q # r /\ run[q].status # "NONE"
        BY <1>1, <1>2, <1>10, <2>2, QueueLimitAssumption DEF Unused, Runs
    <3>2. Extent(Saved(q)) \subseteq Begun
        BY DEF SyncInv, History, RowSound, Sound, Extent, Over, Begun
    <3> QED BY <1>3, <1>5, <2>2, <3>1, <3>2 DEF InOrder, FullCovers, Covers, Saved, Extent, Aside
  <2>3. CASE x # r
    <3>1. q = r => run'[x].status = "NONE"
        BY <1>4, <1>5, <2>1, <2>3 DEF InOrder
    <3> QED BY <1>3, <1>5, <2>1, <2>3, <3>1 DEF InOrder, FullCovers, Covers, Saved, Extent, Active, Aside
  <2> QED BY <2>2, <2>3
<1>11. \A v \in Workers : Process(v, worker[v])'
    BY <1>4, <1>5, ProcessesStay, CreatedInOrder
<1> QED BY <1>6, <1>7, <1>8, <1>9, <1>10, <1>11 DEF SyncInv, History

\* A request is merged into an active run or creates one.
LEMMA EnqueueStep ==
    ASSUME SyncInv, Aside, UNCHANGED game, paused' => paused,
           NEW scope \in Scopes, NEW trigger \in {"MANUAL", "AUTOMATIC"}, NEW wantFull \in BOOLEAN,
           wantFull => scope.kind = "all", scope.kind = "game" => scope.game \in stored,
           trigger = "AUTOMATIC" => ~paused',
           run' = enqueueLocked(scope, trigger, wantFull)
    PROVE  SyncInv'
<1> DEFINE reusable == Reusable(scope, trigger, wantFull)
<1>1. CASE reusable # {} /\ trigger = "MANUAL"
  <2>1. run' = [run EXCEPT ![Oldest(reusable)].trigger = "MANUAL"]
      BY <1>1 DEF enqueueLocked
  <2>2. Oldest(reusable) \in reusable
      BY <1>1, OldestIsFirst DEF Reusable, ActiveRuns
  <2>3. PICK r \in Runs : r = Oldest(reusable) /\ (run[r].trigger = "MANUAL" \/ run[r].status = "QUEUED")
      BY <1>1, <2>2 DEF Reusable, ActiveRuns
  <2>4. run' \in Row
      BY <2>1, <2>3 DEF SyncInv, TypeOK, Row, RunRow
  <2>5. ASSUME NEW q \in Runs
        PROVE  /\ run'[q].checkpoint = run[q].checkpoint /\ run'[q].status = run[q].status
               /\ run'[q].full = run[q].full /\ run'[q].scope = run[q].scope
               /\ run[q].status # "QUEUED" => run'[q] = run[q]
               /\ run'[q].trigger = "AUTOMATIC" => run[q].trigger = "AUTOMATIC"
      BY <2>1, <2>3 DEF SyncInv, TypeOK, RunRow
  <2> QED BY <2>4, <2>5, WaitingChanges DEF SyncInv, QueueInOrder, PausedQueueHasNoAutomatic
<1>2. CASE run' = run
    BY <1>2, QueueStays
<1>3. CASE reusable = {} /\ Unused # {}
    BY <1>3, CreateStep DEF enqueueLocked
<1> QED BY <1>1, <1>2, <1>3 DEF enqueueLocked

\* Nobody works differently.
LEMMA ProcessesAside ==
    ASSUME SyncInv, UNCHANGED worker
    PROVE  worker' \in [Workers -> WorkerState] /\ \A v \in Workers : Process(v, worker'[v])
BY DEF SyncInv, TypeOK

LEMMA AllGamesScope == AllGames \in Scopes /\ AllGames.kind = "all"
BY DEF AllGames, Scopes

LEMMA OperatorStep ==
    ASSUME SyncInv, Operator
    PROVE  SyncInv'
<1>1. ASSUME NEW scope \in Scopes, NEW wantFull \in BOOLEAN, enqueueKhlSync(scope, wantFull)
      PROVE  SyncInv'
  <2>1. Aside /\ UNCHANGED <<game, paused>>
      BY <1>1, ProcessesAside DEF enqueueKhlSync, Aside, SyncInv, TypeOK
  <2> QED BY <1>1, <2>1, EnqueueStep DEF enqueueKhlSync
<1>2. ASSUME pauseKhlSync PROVE SyncInv'
  <2>1. control' \in ControlRow /\ control'.active = control.active /\ control'.owner = control.owner
        /\ control'.bootstrapped = control.bootstrapped
      BY <1>2 DEF pauseKhlSync, SyncInv, TypeOK, ControlRow
  <2>2. Aside /\ UNCHANGED game
      BY <1>2, <2>1, ProcessesAside DEF pauseKhlSync, Aside, SyncInv, TypeOK
  <2>3. run' \in Row
      BY <1>2 DEF pauseKhlSync, SyncInv, TypeOK, Row, RunRow, Ended
  <2>4. ASSUME NEW q \in Runs
        PROVE  /\ run'[q].checkpoint = run[q].checkpoint
               /\ run'[q].full = run[q].full /\ run'[q].scope = run[q].scope
               /\ run[q].status # "QUEUED" => run'[q] = run[q]
               /\ run'[q].trigger = run[q].trigger
               /\ run'[q].status = "QUEUED" => run[q].status = "QUEUED" /\ run[q].trigger # "AUTOMATIC"
               /\ run'[q].status \in {run[q].status, "CANCELLED"}
      BY <1>2 DEF pauseKhlSync, SyncInv, TypeOK, RunRow
  <2> QED BY <2>2, <2>3, <2>4, WaitingChanges
<1>3. ASSUME resumeKhlSync PROVE SyncInv'
  <2>1. control' \in ControlRow /\ control'.active = control.active /\ control'.owner = control.owner
        /\ control'.bootstrapped = control.bootstrapped
      BY <1>3 DEF resumeKhlSync, SyncInv, TypeOK, ControlRow
  <2>2. Aside /\ UNCHANGED game /\ paused' = FALSE
      BY <1>3, <2>1, ProcessesAside DEF resumeKhlSync, Aside, SyncInv, TypeOK
  <2> QED BY <1>3, <2>2, AllGamesScope, EnqueueStep DEF resumeKhlSync
<1> QED BY <1>1, <1>2, <1>3 DEF Operator

LEMMA TickStep ==
    ASSUME SyncInv, NEW w \in Workers, tickKhlAutoSchedule(w)
    PROVE  SyncInv'
<1>1. worker[w] \in WorkerState /\ Process(w, worker[w]) /\ worker[w].pc = "idle" /\ worker[w].run = NoRun
    BY ProcessFacts DEF tickKhlAutoSchedule, Process
<1>2. PICK p \in WorkerState : worker' = [worker EXCEPT ![w] = p] /\ Process(w, p)
  <2> DEFINE p == [worker[w] EXCEPT !.pc = "claim"]
  <2>1. p \in WorkerState /\ worker' = [worker EXCEPT ![w] = p]
      BY <1>1 DEF tickKhlAutoSchedule, WorkerState, Steps
  <2>2. p.run = NoRun /\ p.pc = "claim" /\ p.mine = worker[w].mine
      BY <1>1 DEF WorkerState
  <2> HIDE DEF p
  <2>3. Process(w, p)
      BY <1>1, <2>2 DEF Process
  <2> QED BY <2>1, <2>3
<1>3. worker' \in [Workers -> WorkerState] /\ \A v \in Workers : Process(v, worker'[v])
    BY <1>2 DEF SyncInv, TypeOK
<1>4. control' \in ControlRow /\ control'.active = control.active /\ control'.owner = control.owner
      /\ control'.bootstrapped = control.bootstrapped
    BY DEF tickKhlAutoSchedule, SyncInv, TypeOK, ControlRow
<1>5. Aside /\ UNCHANGED <<paused, game>>
    BY <1>3, <1>4 DEF tickKhlAutoSchedule, Aside, SyncInv, TypeOK
<1>6. CASE WantsRun
  <2>1. run' = enqueueLocked(AllGames, "AUTOMATIC", FALSE) /\ ~paused'
      BY <1>5, <1>6 DEF tickKhlAutoSchedule, WantsRun
  <2> QED BY <1>5, <2>1, AllGamesScope, EnqueueStep
<1>7. CASE ~WantsRun
    BY <1>5, <1>7, QueueStays DEF tickKhlAutoSchedule
<1> QED BY <1>6, <1>7

LEMMA LeaseStep ==
    ASSUME SyncInv,
           abandonedLeaseExpires \/ stall \/ intervalPasses \/ \E w \in Workers : heartbeatKhlWorker(w)
    PROVE  SyncInv'
<1>1. control' \in ControlRow /\ control'.active = control.active /\ control'.owner = control.owner
      /\ control'.bootstrapped = control.bootstrapped
    BY DEF abandonedLeaseExpires, stall, intervalPasses, heartbeatKhlWorker, SyncInv, TypeOK, ControlRow
<1>2. UNCHANGED <<paused, run, stored, game, worker>> /\ mishaps' \in 0..MaxMishaps
    BY QueueLimitAssumption
       DEF abandonedLeaseExpires, stall, intervalPasses, heartbeatKhlWorker, Mishap, SyncInv, TypeOK
<1>3. Aside
    BY <1>1, <1>2, ProcessesAside DEF Aside, SyncInv, TypeOK
<1> QED BY <1>2, <1>3, QueueStays

\* A game that was over stays over.
LEMMA TimeStep ==
    ASSUME SyncInv, NEW g \in Games, timePasses(g)
    PROVE  SyncInv'
<1>1. game' \in [Games -> {"ahead", "live", "over", "old"}]
    BY DEF timePasses, SyncInv, TypeOK
<1>2. Over \subseteq Over' /\ Begun \subseteq Begun'
    BY DEF timePasses, SyncInv, TypeOK, Over, Begun
<1>3. UNCHANGED <<control, paused, run, stored, worker, mishaps>>
    BY DEF timePasses
<1>4. TypeOK' /\ (stored \subseteq Over)'
    BY <1>1, <1>2, <1>3 DEF SyncInv, TypeOK
<1>5. RunningIsActive' /\ QueueInOrder' /\ CollectedOrReopened'
    BY <1>3 DEF SyncInv, RunningIsActive, QueueInOrder, PausedQueueHasNoAutomatic, QueuedRunsDiffer,
                CollectedOrReopened
<1>6. History'
    BY <1>2, <1>3 DEF SyncInv, History, RowSound, Sound, Saved, Handled, Nothing, InOrder, FullCovers,
                      Covers, Extent
<1>7. ASSUME NEW v \in Workers PROVE Process(v, worker[v])'
  <2>1. Process(v, worker'[v])
      BY <1>3 DEF SyncInv
  <2> QED BY <1>2, <1>3, <2>1 DEF Process, Executes, Holds, Sound, Saved, Handled, Nothing, Advanced,
                                  Covers, Extent
<1> QED BY <1>4, <1>5, <1>6, <1>7 DEF SyncInv

LEMMA SyncStep ==
    ASSUME SyncInv, [Next]_vars
    PROVE  SyncInv'
<1>1. CASE UNCHANGED vars
  <2>1. Aside
      BY <1>1, ProcessesAside DEF vars, Aside, SyncInv, TypeOK
  <2> QED BY <1>1, <2>1, QueueStays DEF vars
<1>2. ASSUME NEW w \in Workers, Work(w) PROVE SyncInv'
    BY <1>2, TickStep, ClaimStep, CutOffSteps, BeginStep, LoopStep, ListStep, CandidateFailedStep,
       IngestStep, SaveStep, ErrorStep, FinishStep DEF Work
<1>3. CASE Environment
    BY <1>3, LeaseStep, NoteSteps, CutOffSteps, TimeStep DEF Environment
<1> QED BY <1>1, <1>2, <1>3, OperatorStep DEF Next

-----------------------------------------------------------------------------
(* Theorems.                                                               *)

\* The invariant of syncQueue.ts and syncWorker.ts: rows, processes and history fit together.
THEOREM SyncInductive == Spec => []SyncInv
BY SyncInitInv, SyncStep, PTL DEF Spec

\* A run whose executor died is the one the control row names, and its checkpoint passes over
\* no candidate, whoever stalls and comes back.
THEOREM DeadRunsResumable == Spec => []RunsResumable
<1>1. SyncInv => RunsResumable
    BY DEF SyncInv, RunsResumable, CheckpointsHonest, History, RowSound, Sound, Saved, Handled
<1> QED BY <1>1, SyncInductive, PTL

\* What waits is wanted and wanted once, in whatever order requests, ticks and pauses arrive.
THEOREM QueueStaysInOrder == Spec => []QueueInOrder
<1>1. SyncInv => QueueInOrder
    BY DEF SyncInv
<1> QED BY <1>1, SyncInductive, PTL

\* History is only closed when every candidate of the runs that ended is stored.
THEOREM HistoryClosesWhole == Spec => []CollectedOrReopened
<1>1. SyncInv => CollectedOrReopened
    BY DEF SyncInv
<1> QED BY <1>1, SyncInductive, PTL

-----------------------------------------------------------------------------
(* What a step may do to a row.                                            *)

\* A request touches no checkpoint and withdraws nothing.
LEMMA RequestTouches ==
    ASSUME SyncInv, NEW scope, NEW trigger, NEW wantFull, NEW r \in Runs,
           run' = enqueueLocked(scope, trigger, wantFull)
    PROVE  /\ run[r].status # "NONE" => run'[r].checkpoint = run[r].checkpoint
           /\ run'[r].status \in {run[r].status, "QUEUED"}
<1>1. CASE run' = run
    BY <1>1
<1>2. CASE \E q : run' = [run EXCEPT ![q].trigger = "MANUAL"]
    BY <1>2 DEF SyncInv, TypeOK, RunRow
<1>3. CASE Unused # {} /\ run' = [run EXCEPT ![Oldest(Unused)] = NewRun(scope, trigger, wantFull)]
  <2>1. run[Oldest(Unused)].status = "NONE"
      BY <1>3, OldestIsFirst DEF Unused
  <2>2. CASE r = Oldest(Unused)
      BY <1>3, <2>1, <2>2 DEF SyncInv, TypeOK, NewRun
  <2>3. CASE r # Oldest(Unused)
      BY <1>3, <2>3 DEF SyncInv, TypeOK
  <2> QED BY <2>2, <2>3
<1> QED BY <1>1, <1>2, <1>3 DEF enqueueLocked

LEMMA RowStep ==
    ASSUME SyncInv, [Next]_vars, NEW r \in Runs
    PROVE  /\ run[r].status # "NONE" =>
                 run'[r].checkpoint = Saved(r) \/ Advanced(Saved(r), run'[r].checkpoint)
           /\ run'[r].status = "CANCELLED" /\ run[r].status # "CANCELLED" => run[r].trigger = "AUTOMATIC"
<1>1. CASE \E scope, trigger, wantFull : run' = enqueueLocked(scope, trigger, wantFull)
    BY <1>1, RequestTouches DEF Saved
<1>2. CASE UNCHANGED run
    BY <1>2 DEF Saved
<1>3. CASE pauseKhlSync
    BY <1>3 DEF pauseKhlSync, SyncInv, TypeOK, RunRow, Saved
<1>4. ASSUME NEW w \in Workers, claimKhlSync(w) PROVE run'[r].checkpoint = Saved(r) /\ run'[r].status \in {run[r].status, "RUNNING"}
    BY <1>4 DEF claimKhlSync, SyncInv, TypeOK, RunRow, Saved
<1>5. ASSUME NEW w \in Workers, saveKhlSyncCheckpoint(w)
      PROVE  /\ run'[r].status = run[r].status
             /\ run'[r].checkpoint = Saved(r) \/ Advanced(Saved(r), run'[r].checkpoint)
  <2>1. /\ worker[w].run \in Runs /\ Executes(w, worker[w]) /\ Holds(w, worker[w].run)
      BY <1>5, ProcessFacts DEF saveKhlSyncCheckpoint, Owns, Holds, Process
  <2>2. CASE r = worker[w].run
    <3>1. run'[r].checkpoint = worker[w].mine /\ run'[r].status = run[r].status
        BY <1>5, <2>2 DEF saveKhlSyncCheckpoint, Save, SyncInv, TypeOK, RunRow
    <3> QED BY <2>1, <2>2, <3>1 DEF Executes
  <2>3. CASE r # worker[w].run
      BY <1>5, <2>3 DEF saveKhlSyncCheckpoint, Save, SyncInv, TypeOK, Saved
  <2> QED BY <2>2, <2>3
<1>6. ASSUME NEW w \in Workers, finishKhlSync(w)
      PROVE  /\ run'[r].checkpoint = Saved(r)
             /\ run'[r].status = "CANCELLED" /\ run[r].status # "CANCELLED" => run[r].trigger = "AUTOMATIC"
  <2>1. worker[w] \in WorkerState /\ Executes(w, worker[w])
      BY <1>6, ProcessFacts DEF finishKhlSync, Process
  <2>2. CASE r = worker[w].run
    <3>1. run'[r].checkpoint = Saved(r) /\ run'[r].status = EndStatus(w)
        BY <1>6, <2>2 DEF finishKhlSync, SyncInv, TypeOK, RunRow, Saved
    <3>2. EndStatus(w) = "CANCELLED" => worker[w].result = "stopped"
        BY <2>1 DEF EndStatus, WorkerState
    <3> QED BY <2>1, <2>2, <3>1, <3>2 DEF Executes
  <2>3. CASE r # worker[w].run
      BY <1>6, <2>3 DEF finishKhlSync, SyncInv, TypeOK, Saved
  <2> QED BY <2>2, <2>3
<1>7. ASSUME NEW w \in Workers, Work(w)
      PROVE  \/ UNCHANGED run \/ claimKhlSync(w) \/ saveKhlSyncCheckpoint(w) \/ finishKhlSync(w)
             \/ \E scope, trigger, wantFull : run' = enqueueLocked(scope, trigger, wantFull)
    BY <1>7 DEF Work, tickKhlAutoSchedule, leaseLost, begin, loop, listEvents, listFailed, candidateFailed,
                ingestKhlEventDetail, workerError
<1>8. CASE Environment
  <2>1. UNCHANGED run
      BY <1>8 DEF Environment, heartbeatKhlWorker, heartbeatSeesPause, heartbeatFails, crash,
                  abandonedLeaseExpires, stall, intervalPasses, timePasses
  <2> QED BY <1>2, <2>1
<1>9. CASE Operator
    BY <1>1, <1>3, <1>9 DEF Operator, enqueueKhlSync, resumeKhlSync
<1>10. CASE UNCHANGED vars
    BY <1>2, <1>10 DEF vars
<1> QED BY <1>1, <1>2, <1>4, <1>5, <1>6, <1>7, <1>8, <1>9, <1>10 DEF Next

\* A stalled executor never writes an older checkpoint over its successor's.
THEOREM CheckpointsNeverGoBack == Spec => CheckpointsAdvance
<1>1. SyncInv /\ [Next]_vars => [\A r \in Runs : run[r].status # "NONE" =>
          LET old == run[r].checkpoint
              new == run'[r].checkpoint
          IN  /\ new.windows \subseteq old.windows
              /\ old.found \subseteq new.found
              /\ old.found \ old.todo \subseteq new.found \ new.todo
              /\ old.failed \subseteq new.failed]_vars
    BY RowStep DEF Advanced, Handled, Saved
<1> QED BY <1>1, SyncInductive, PTL DEF Spec, CheckpointsAdvance

\* What was asked for by hand is not cancelled by a pause.
THEOREM ManualRunsStay == Spec => ManualRunsNotCancelled
<1>1. SyncInv /\ [Next]_vars => [\A r \in Runs :
          run'[r].status = "CANCELLED" /\ run[r].status # "CANCELLED" => run[r].trigger = "AUTOMATIC"]_vars
    BY RowStep
<1> QED BY <1>1, SyncInductive, PTL DEF Spec, ManualRunsNotCancelled
=============================================================================
