----------------------------- MODULE Consultant -----------------------------
(***************************************************************************)
(* The Telegram consultant (backend/src/consultant): one process that polls *)
(* the chat for updates, answers questions through a paid API within a     *)
(* daily budget, and writes offset and usage to state.json.                *)
(*                                                                         *)
(* Messages are what they ask for; an empty or oversized question is a     *)
(* command, since both get a message and no answer.  Of the three budgets  *)
(* that of requests is modelled: the two of tokens are read and written at *)
(* the same places.  An answer counts as paid when it arrives: what the    *)
(* provider charges for a request that failed is not known to the code.    *)
(***************************************************************************)
EXTENDS Naturals, Sequences, FiniteSets

CONSTANTS
    Asks,                \* [1..LastUpdate -> a question, "command" or "ignored"], in order of arrival
    LastUpdate,
    MaxRequestsPerDay,
    ResponseCacheLimit,
    LastDay,             \* bound: how often the date changes
    LastReport,          \* bound: how often the monitor reports
    MaxUnrecorded        \* bound: how often an answer is paid and not recorded

ASSUME ConsultantAssumption == LastUpdate \in Nat \ {0} /\ LastDay \in Nat /\ MaxRequestsPerDay \in Nat

Updates == 1..LastUpdate
NoOffset == LastUpdate + 2    \* nextUpdateId is null

VARIABLES
    arrived,     \* Telegram: updates 1..arrived were sent to the bot
    forgotten,   \* Telegram: updates 1..forgotten are confirmed and not returned any more
    day,         \* the date in Moscow
    report,      \* the run the monitor reported last
    stateFile,   \* state.json
    consultant,  \* the process: its step, its copy of the state, the batch, the question at hand
    cache,       \* the keys of the answers it remembers: a question and a report
    backlog,     \* history: updates 1..backlog were there before the first start that wrote the file
    handled,     \* history: updates that were ignored, got a message, or whose answer is recorded
    paid         \* history: the answers that arrived, whether they are recorded

consultantVars == <<arrived, forgotten, day, report, stateFile, consultant, cache, backlog, handled, paid>>

emptyDailyUsage(d) == [date |-> d, requests |-> 0]
normalizeDailyUsage(usage, d) == IF usage.date = d THEN usage ELSE emptyDailyUsage(d)

Down == [step |-> "down", next |-> NoOffset, usage |-> emptyDailyUsage(0),
         batch |-> <<>>, asked |-> emptyDailyUsage(0), key |-> <<>>]

ConsultantInit ==
    /\ arrived \in {0, 1} /\ forgotten = 0 /\ day = 0 /\ report = 0
    /\ stateFile = [next |-> NoOffset, usage |-> emptyDailyUsage(0)]
    /\ consultant = Down /\ cache = <<>>
    /\ backlog = 0 /\ handled = {} /\ paid = <<>>

AtStep(step) == consultant.step = step
Outside == <<arrived, day, report>>
History == <<backlog, handled, paid>>

\* A throw out of the loop's body: the batch is dropped, and after a delay the loop polls again.
PollsAgain == [consultant EXCEPT !.step = "poll", !.batch = <<>>, !.asked = Down.asked, !.key = <<>>]

\* readConsultantState and the webhook check, after which the process may end.
startConsultant ==
    /\ AtStep("down")
    /\ consultant' = [Down EXCEPT !.step = IF stateFile.next = NoOffset THEN "first" ELSE "poll",
                                  !.next = stateFile.next,
                                  !.usage = normalizeDailyUsage(stateFile.usage, day)]
    /\ UNCHANGED <<Outside, forgotten, stateFile, cache, History>>

\* Offset -1 asks for the last update and makes Telegram forget those before it.
discardBacklog ==
    /\ AtStep("first")
    /\ forgotten' = IF arrived > forgotten + 1 THEN arrived - 1 ELSE forgotten
    /\ backlog' = arrived
    /\ LET next == IF arrived > forgotten THEN arrived + 1 ELSE 0
       IN  \/ /\ stateFile' = [next |-> next, usage |-> consultant.usage]
              /\ consultant' = [consultant EXCEPT !.step = "poll", !.next = next]
           \/ UNCHANGED stateFile /\ consultant' = Down
    /\ UNCHANGED <<Outside, cache, handled, paid>>

\* getUpdates confirms what is below the offset, also when its answer is lost.
getUpdates ==
    /\ AtStep("poll")
    /\ forgotten' = IF consultant.next > forgotten + 1 THEN consultant.next - 1 ELSE forgotten
    /\ \/ consultant' = [consultant EXCEPT !.step = "update",
                            !.batch = [i \in 1..(arrived - forgotten') |-> forgotten' + i]]
       \/ UNCHANGED consultant
    /\ UNCHANGED <<Outside, stateFile, cache, History>>

-----------------------------------------------------------------------------
(* processConsultantUpdate *)

Current == Head(consultant.batch)
Question == Asks[Current]
responseCacheKey(q) == <<q, report>>
Remembered(q) == \E i \in DOMAIN cache : cache[i] = responseCacheKey(q)
Usage == normalizeDailyUsage(consultant.usage, day)

Processes(kind) == AtStep("update") /\ consultant.batch # <<>> /\ kind

ignore ==
    /\ Processes(Question = "ignored")
    /\ consultant' = [consultant EXCEPT !.step = "advance"]
    /\ handled' = handled \cup {Current}
    /\ UNCHANGED <<Outside, forgotten, stateFile, cache, backlog, paid>>

\* sendMessage: the update is handled, or it throws and the update will be read again.
Sends(state) ==
    \/ consultant' = [state EXCEPT !.step = "advance"] /\ handled' = handled \cup {Current}
    \/ consultant' = PollsAgain /\ UNCHANGED handled

\* checkTokenBudget
Allowed(usage) == usage.requests < MaxRequestsPerDay

IsQuestion == Question \notin {"ignored", "command"}

\* A command, or a question whose answer is remembered.
reply ==
    /\ Processes(Question = "command" \/ Remembered(Question))
    /\ Sends(consultant)
    /\ UNCHANGED <<Outside, forgotten, stateFile, cache, backlog, paid>>

refuse ==
    /\ Processes(IsQuestion /\ ~Remembered(Question) /\ ~Allowed(Usage))
    /\ Sends([consultant EXCEPT !.usage = Usage])
    /\ UNCHANGED <<Outside, forgotten, stateFile, cache, backlog, paid>>

ask ==
    /\ Processes(IsQuestion /\ ~Remembered(Question) /\ Allowed(Usage))
    /\ consultant' = [consultant EXCEPT !.step = "request", !.asked = Usage,
                                        !.key = responseCacheKey(Question)]
    /\ UNCHANGED <<Outside, forgotten, stateFile, cache, History>>

requestDeepSeekAnswer ==
    /\ AtStep("request")
    /\ \/ /\ consultant' = [consultant EXCEPT !.step = "record"]
          /\ paid' = Append(paid, [update |-> Current, date |-> consultant.asked.date, recorded |-> FALSE])
       \/ consultant' = [consultant EXCEPT !.step = "failed"] /\ UNCHANGED paid
    /\ UNCHANGED <<Outside, forgotten, stateFile, cache, backlog, handled>>

recordTokenUsage(usage) == [usage EXCEPT !.requests = @ + 1]

\* Mutant: the offset is left to the loop.
OffsetOfTheLoop == consultant.next

\* The offset that is written together with the usage.
OffsetRecorded == Current + 1

rememberResponse(key) == Append(IF Len(cache) >= ResponseCacheLimit THEN Tail(cache) ELSE cache, key)

\* Usage and offset are written before the answer is sent; that the answer could not be sent is logged.
persistAnswer ==
    /\ AtStep("record")
    /\ LET state == [next |-> OffsetRecorded, usage |-> recordTokenUsage(consultant.asked)]
       IN  /\ stateFile' = state
           /\ consultant' = [consultant EXCEPT !.step = "advance", !.next = state.next, !.usage = state.usage]
    /\ paid' = [paid EXCEPT ![Len(paid)].recorded = TRUE]
    /\ handled' = handled \cup {Current}
    /\ cache' = rememberResponse(consultant.key)
    /\ UNCHANGED <<Outside, forgotten, backlog>>

\* Bound: the last answer may go unrecorded.
MayLose == Cardinality({i \in DOMAIN paid : ~paid[i].recorded}) <= MaxUnrecorded

\* The state cannot be written: the answer is given up, and its usage with it.
persistFails ==
    /\ AtStep("record") /\ MayLose
    /\ consultant' = [consultant EXCEPT !.step = "failed"]
    /\ UNCHANGED <<Outside, forgotten, stateFile, cache, History>>

\* The request or the record failed: the chat is told, no request is counted.
sendFailure ==
    /\ AtStep("failed")
    /\ Sends([consultant EXCEPT !.usage = consultant.asked])
    /\ UNCHANGED <<Outside, forgotten, stateFile, cache, backlog, paid>>

-----------------------------------------------------------------------------
(* The loop. *)

\* The state in memory moves on, whether it can be written or not.
advance ==
    /\ AtStep("advance")
    /\ LET next == Current + 1
       IN  \/ /\ stateFile' = [next |-> next, usage |-> consultant.usage]
              /\ consultant' = [consultant EXCEPT !.step = "update", !.next = next, !.batch = Tail(@)]
           \/ UNCHANGED stateFile /\ consultant' = [PollsAgain EXCEPT !.next = next]
    /\ UNCHANGED <<Outside, forgotten, cache, History>>

endOfBatch ==
    /\ AtStep("update") /\ consultant.batch = <<>>
    /\ consultant' = [PollsAgain EXCEPT !.usage = Usage]
    /\ stateFile' \in {stateFile, [next |-> consultant.next, usage |-> Usage]}
    /\ UNCHANGED <<Outside, forgotten, cache, History>>

\* The process is stopped or dies, between any two steps.
crash ==
    /\ ~AtStep("down") /\ (AtStep("record") => MayLose)
    /\ consultant' = Down /\ cache' = <<>>
    /\ UNCHANGED <<Outside, forgotten, stateFile, History>>

newReport ==
    /\ report < LastReport
    /\ report' = report + 1
    /\ UNCHANGED <<arrived, forgotten, day, stateFile, consultant, cache, History>>

arrive ==
    /\ arrived < LastUpdate
    /\ arrived' = arrived + 1
    /\ UNCHANGED <<forgotten, day, report, stateFile, consultant, cache, History>>

midnight ==
    /\ day < LastDay
    /\ day' = day + 1
    /\ UNCHANGED <<arrived, forgotten, report, stateFile, consultant, cache, History>>

ConsultantNext ==
    \/ startConsultant \/ discardBacklog \/ getUpdates
    \/ ignore \/ reply \/ refuse \/ ask \/ requestDeepSeekAnswer \/ persistAnswer \/ persistFails \/ sendFailure
    \/ advance \/ endOfBatch \/ crash \/ newReport
    \/ arrive \/ midnight

ConsultantSpec == ConsultantInit /\ [][ConsultantNext]_consultantVars

-----------------------------------------------------------------------------
(* Properties. *)

\* What Telegram will not return again was handled, or was there before the first start.
NoneForgotten == \A u \in Updates : u <= forgotten => u \in handled \/ u <= backlog

\* An answer that is recorded is not paid for again.
PaidOnce == \A i, j \in DOMAIN paid : i < j /\ paid[i].recorded => paid[j].update # paid[i].update

RecordedFor(d) == {i \in DOMAIN paid : paid[i].recorded /\ paid[i].date = d}

\* The answers recorded for a date, as state.json counts them, stay within the budget of that date.
WithinBudget ==
    \A d \in 0..LastDay :
        /\ Cardinality(RecordedFor(d)) <= MaxRequestsPerDay
        /\ stateFile.usage.date = d => stateFile.usage.requests = Cardinality(RecordedFor(d))

\* Crashes, lost messages, a state file that cannot be written and midnight between any two steps:
\* no question is passed over, no recorded answer is paid for twice, and the file counts them all.
QuestionsSettled == NoneForgotten /\ PaidOnce /\ WithinBudget
=============================================================================
