--------------------------- MODULE LiquipediaClient ---------------------------
(***************************************************************************)
(* Requests to Liquipedia: the in-memory rate limiter with one promise      *)
(* chain per route, the API client that chooses a route, falls back to a     *)
(* direct connection, retries from inside its own turn, and the portal       *)
(* reader that asks the API when its page is refused.                       *)
(*                                                                         *)
(* The limiter has two pools of channels, generic and parse, with the same   *)
(* code; this is the one the portal's API requests share with the importer's *)
(* parse requests, with the channels of the portals next to it.  Proxies are *)
(* ranked by a score of past results; here any active proxy may come first.  *)
(* A request is one page: a portal page, or one parse request of an import.  *)
(*                                                                         *)
(* Time is abstracted to two facts per channel: a request began less than    *)
(* the minimal interval ago, and a cooldown runs.                           *)
(***************************************************************************)
EXTENDS Naturals, Sequences

CONSTANTS
    Requests,          \* bound: requests made, each once
    Slugs,             \* disciplines, each with the channel of its portal
    Proxies,           \* active rows of the proxy pool
    Direct,            \* key of the direct channel
    MaxRetries,        \* LIQUIPEDIA_API_MAX_RETRIES, 1 unless configured
    ImportMaxRetries,  \* LIQUIPEDIA_IMPORT_API_MAX_RETRIES, 0 unless configured
    DirectFallback     \* LIQUIPEDIA_DIRECT_FALLBACK_ENABLED

ASSUME RetriesAssumption == MaxRetries \in Nat /\ ImportMaxRetries \in 0..MaxRetries
ASSUME FallbackAssumption == DirectFallback \in BOOLEAN
ASSUME KeysAssumption == Slugs \cap (Proxies \cup {Direct}) = {} /\ Direct \notin Proxies

VARIABLES
    chain,    \* per channel, the calls whose promise is pending, oldest first
    cooling,  \* per channel, cooldownUntil is ahead
    recent,   \* per channel, lastRequestAt is less than the minimal interval ago
    request   \* where each request is

vars == <<chain, cooling, recent, request>>

Channels == Proxies \cup {Direct} \cup Slugs

Ended == {"done", "failed"}
Steps == {"new", "queued", "asleep", "fetch", "direct"} \cup Ended
RequestState == [pc : Steps, held : Seq(Channels), waits : SUBSET {"interval", "cooldown"},
                 aborted : BOOLEAN]

Init ==
    /\ chain = [ch \in Channels |-> <<>>]
    /\ cooling = [ch \in Channels |-> FALSE]
    /\ recent = [ch \in Channels |-> FALSE]
    /\ request = [q \in Requests |->
           [pc |-> "new", held |-> <<>>, waits |-> {}, aborted |-> FALSE]]

-----------------------------------------------------------------------------
(* The channels.                                                           *)

Depth(q) == Len(request[q].held)

\* The channel of the call a request is in.
Channel(q) == request[q].held[Depth(q)]

FromPortal(q) == request[q].held[1] \in Slugs

AtPortal(q) == Depth(q) = 1 /\ FromPortal(q)

\* Calls to the API made so far.
Attempts(q) == IF FromPortal(q) THEN Depth(q) - 1 ELSE Depth(q)

\* What the promise chain of a channel gives its newest call: the turn after all others.
Enter(q, key) ==
    /\ chain' = [chain EXCEPT ![key] = Append(@, <<q, Depth(q) + 1>>)]
    /\ request' = [request EXCEPT ![q].pc = "queued", ![q].held = Append(@, key)]

\* Mutant: a call does not wait for the ones before it.
AnyTurn(q) == request[q].pc = "queued"

HasTurn(q) == request[q].pc = "queued" /\ Head(chain[Channel(q)]) = <<q, Depth(q)>>

\* Mutant: a rejected call keeps its place.
SettleFulfilled(q, outcome) ==
    /\ chain' = [ch \in Channels |->
           IF outcome = "done" /\ \E i \in 1..Depth(q) : request[q].held[i] = ch
           THEN Tail(chain[ch]) ELSE chain[ch]]
    /\ request' = [request EXCEPT ![q].pc = outcome, ![q].held = <<>>]

\* The promise of the innermost call settles, and with it those that returned it.
Settle(q, outcome) ==
    /\ chain' = [ch \in Channels |->
           IF \E i \in 1..Depth(q) : request[q].held[i] = ch THEN Tail(chain[ch]) ELSE chain[ch]]
    /\ request' = [request EXCEPT ![q].pc = outcome, ![q].held = <<>>]

\* Mutant: only the interval is waited for.
IntervalOnly(q) == IF recent[Channel(q)] THEN {"interval"} ELSE {}

\* The wait is computed once, when the turn comes; what is registered later does not prolong it.
Wait(q) ==
    (IF recent[Channel(q)] THEN {"interval"} ELSE {})
        \cup (IF cooling[Channel(q)] THEN {"cooldown"} ELSE {})

\* lastRequestAt is set, then the work begins, unless the caller gave up meanwhile.
Begin(q) ==
    /\ recent' = [recent EXCEPT ![Channel(q)] = TRUE]
    /\ IF request[q].aborted THEN Settle(q, "failed")
       ELSE /\ request' = [request EXCEPT ![q].pc = "fetch"]
            /\ UNCHANGED chain
    /\ UNCHANGED cooling

turn(q) ==
    /\ HasTurn(q)
    /\ IF Wait(q) = {} THEN Begin(q)
       ELSE /\ request' = [request EXCEPT ![q].pc = "asleep", ![q].waits = Wait(q)]
            /\ UNCHANGED <<chain, cooling, recent>>

wake(q) ==
    /\ request[q].pc = "asleep"
    /\ request[q].waits = {}
    /\ Begin(q)

-----------------------------------------------------------------------------
(* The client.                                                             *)

\* selectProxyCandidate: a proxy if there is an active one, else the direct route.
Keys == IF Proxies = {} THEN {Direct} ELSE Proxies

\* Without proxies and without the fallback the client refuses before it fetches.
Refused(q) == Channel(q) = Direct /\ ~DirectFallback

\* The connection is open and nobody has aborted it.
Fetching(q) ==
    /\ request[q].pc \in {"fetch", "direct"}
    /\ ~request[q].aborted
    /\ AtPortal(q) \/ ~Refused(q)

fetchPortal(q) ==
    /\ request[q].pc = "new"
    /\ \E slug \in Slugs : Enter(q, slug)
    /\ UNCHANGED <<cooling, recent>>

apiRequest(q) ==
    /\ request[q].pc = "new"
    /\ \E key \in Keys : Enter(q, key)
    /\ UNCHANGED <<cooling, recent>>

\* The page of the portal is refused with 403 or 424: the API is asked within the same turn.
fetchHtmlViaMediaWikiApi(q) ==
    /\ Fetching(q)
    /\ AtPortal(q)
    /\ \E key \in Keys : Enter(q, key)
    /\ UNCHANGED <<cooling, recent>>

answered(q) ==
    /\ Fetching(q)
    /\ Settle(q, "done")
    /\ UNCHANGED <<cooling, recent>>

MaxAttempts(q) == 1 + (IF FromPortal(q) THEN MaxRetries ELSE ImportMaxRetries)

\* retryCount < maxRetries, where the first attempt has retryCount 0.
RetriesLeft(q) == Attempts(q) < MaxAttempts(q)

\* The retry is a call of its own, and the call that makes it waits for its result.
RetryOrFail(q) ==
    IF RetriesLeft(q) THEN \E key \in Keys : Enter(q, key) ELSE Settle(q, "failed")

\* The connection fails.  A proxied request is repeated directly, under the proxy's turn.
networkError(q) ==
    /\ Fetching(q)
    /\ ~AtPortal(q)
    /\ IF request[q].pc = "fetch" /\ DirectFallback /\ Channel(q) # Direct
       THEN /\ request' = [request EXCEPT ![q].pc = "direct"]
            /\ UNCHANGED chain
       ELSE RetryOrFail(q)
    /\ UNCHANGED <<cooling, recent>>

\* registerLiquipediaBackoff
Backoff(q) == cooling' = [cooling EXCEPT ![Channel(q)] = TRUE]

\* 403 or 424.
blocked(q) ==
    /\ Fetching(q)
    /\ ~AtPortal(q)
    /\ Backoff(q)
    /\ RetryOrFail(q)
    /\ UNCHANGED recent

\* 429, or an unexpected body that looks like a challenge.
rateLimited(q) ==
    /\ Fetching(q)
    /\ ~AtPortal(q)
    /\ Backoff(q)
    /\ Settle(q, "failed")
    /\ UNCHANGED recent

\* Any other failure: another status, a body that is too large or not JSON, a portal page that
\* cannot be read, no route at all; or the caller's signal, which ends the fetch it meets.
otherError(q) ==
    /\ request[q].pc \in {"fetch", "direct"}
    /\ Settle(q, "failed")
    /\ UNCHANGED <<cooling, recent>>

-----------------------------------------------------------------------------
(* Time.                                                                   *)

Elapsed(ch, what) ==
    request' = [q \in Requests |->
        IF request[q].pc = "asleep" /\ Channel(q) = ch
        THEN [request[q] EXCEPT !.waits = @ \ {what}] ELSE request[q]]

intervalPasses(ch) ==
    /\ recent[ch]
    /\ recent' = [recent EXCEPT ![ch] = FALSE]
    /\ Elapsed(ch, "interval")
    /\ UNCHANGED <<chain, cooling>>

cooldownPasses(ch) ==
    /\ cooling[ch]
    /\ cooling' = [cooling EXCEPT ![ch] = FALSE]
    /\ Elapsed(ch, "cooldown")
    /\ UNCHANGED <<chain, recent>>

\* The portal's timer aborts the signal that every call below it looks at.
portalTimeout(q) ==
    /\ request[q].pc \notin Ended \cup {"new"}
    /\ FromPortal(q)
    /\ ~request[q].aborted
    /\ request' = [request EXCEPT ![q].aborted = TRUE]
    /\ UNCHANGED <<chain, cooling, recent>>

-----------------------------------------------------------------------------

Respond(q) ==
    \/ fetchHtmlViaMediaWikiApi(q) \/ answered(q) \/ networkError(q)
    \/ blocked(q) \/ rateLimited(q) \/ otherError(q)

Serve(q) == turn(q) \/ wake(q) \/ Respond(q)

Time == \E ch \in Channels : intervalPasses(ch) \/ cooldownPasses(ch)

Next ==
    \/ \E q \in Requests : fetchPortal(q) \/ apiRequest(q) \/ Serve(q) \/ portalTimeout(q)
    \/ Time

Spec == Init /\ [][Next]_vars

(***************************************************************************)
(* Fairness.  A chain runs its next call, a timer fires, and a fetch ends    *)
(* because every one has a timeout; intervals and cooldowns elapse.         *)
(***************************************************************************)
Fairness ==
    /\ \A q \in Requests : WF_vars(Serve(q)) /\ WF_vars(portalTimeout(q))
    /\ \A ch \in Channels : WF_vars(intervalPasses(ch)) /\ WF_vars(cooldownPasses(ch))

FairSpec == Spec /\ Fairness

-----------------------------------------------------------------------------
(* Properties.                                                             *)

Types ==
    /\ chain \in [Channels -> Seq(Requests \X Nat)]
    /\ cooling \in [Channels -> BOOLEAN]
    /\ recent \in [Channels -> BOOLEAN]
    /\ request \in [Requests -> RequestState]

\* A pending call has its place in the chain of its channel.
PlacesKept ==
    \A q \in Requests : \A i \in 1..Depth(q) :
        \E k \in DOMAIN chain[request[q].held[i]] : chain[request[q].held[i]][k] = <<q, i>>

\* A chain holds pending calls only, in the order they came, each once.
PlacesPending ==
    \A ch \in Channels : \A k \in DOMAIN chain[ch] :
        \E q \in Requests : \E i \in 1..Depth(q) :
            chain[ch][k] = <<q, i>> /\ request[q].held[i] = ch

PlacesDistinct ==
    \A ch \in Channels : \A j, k \in DOMAIN chain[ch] : chain[ch][j] = chain[ch][k] => j = k

\* The types; a chain holds exactly the pending calls, each once, on the channel it entered.
TypeOK == Types /\ PlacesKept /\ PlacesPending /\ PlacesDistinct

Busy(q) == request[q].pc \in {"asleep", "fetch", "direct"}

\* No two requests work on one channel at a time, a call waiting for its own retry included:
\* what makes the interval between two requests through one proxy mean anything.
OneAtATimePerChannel ==
    \A q, r \in Requests : q # r /\ Busy(q) /\ Busy(r) =>
        \A i \in 1..Depth(r) : Channel(q) # request[r].held[i]

Begins(q) == request[q].pc \in {"queued", "asleep"} /\ request'[q].pc = "fetch"

\* A request starts on a channel only when the minimal interval since the last start there is
\* over, although the wait is computed once and never looked at again.
SpacedStarts == [][\A q \in Requests : Begins(q) => ~recent[Channel(q)]]_vars

\* After a refusal nothing starts on that channel before its cooldown is over, the calls already
\* queued behind the refused one included.
CooldownRespected == [][\A q \in Requests : Begins(q) => ~cooling[Channel(q)]]_vars

\* As long as nobody makes a retry every request ends: a portal that asks the API from within its
\* own turn waits for a channel no portal holds.
RequestsEnd ==
    [](\A q \in Requests : Depth(q) > 0 => Attempts(q) <= 1)
        => []<>(\A q \in Requests : request[q].pc \in Ended \cup {"new"})

-----------------------------------------------------------------------------
(* The inductive strengthening the proofs need.                            *)

\* A request is in some call exactly while its promise is pending.
PendingHasCall == \A q \in Requests : Depth(q) = 0 <=> request[q].pc \in Ended \cup {"new"}

Executing(q, i) == i < Depth(q) \/ Busy(q)

\* A call that executes, or waits for its own retry, is the first of its chain.
ExecutingIsFirst ==
    \A q \in Requests : \A i \in 1..Depth(q) :
        Executing(q, i) => chain[request[q].held[i]][1] = <<q, i>>

\* What a sleeping call does not wait for is over: nothing registers on its channel meanwhile.
SleepCoversAll ==
    \A q \in Requests : request[q].pc = "asleep" =>
        /\ recent[Channel(q)] => "interval" \in request[q].waits
        /\ cooling[Channel(q)] => "cooldown" \in request[q].waits

\* The invariant that is inductive: one at a time on a channel follows from the first place, and
\* that sleeps are long enough follows from one at a time.
IndInv == TypeOK /\ PendingHasCall /\ ExecutingIsFirst /\ SleepCoversAll

-----------------------------------------------------------------------------
(* What the repository's texts say and the code does not keep.             *)

\* A portal request that timed out ends.
TimedOutPortalsEnd == \A q \in Requests : request[q].aborted ~> request[q].pc \in Ended
=============================================================================
