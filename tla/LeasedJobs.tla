------------------------------ MODULE LeasedJobs ------------------------------
(***************************************************************************)
(* What a job queue with leases promises to the code around it, without     *)
(* workers, clocks or statuses: a job waits, is held for a bounded number   *)
(* of attempts and is over for good; what it records only grows, grows only *)
(* while the job is held, and no longer once somebody asked to stop it.     *)
(***************************************************************************)
EXTENDS Naturals

CONSTANTS Jobs, Items, MaxAttempts

VARIABLES
    phase,     \* "absent", "waiting", "held" or "over"
    attempts,  \* grants so far
    stopped,   \* a stop was requested
    record     \* items recorded for the job

vars == <<phase, attempts, stopped, record>>

Open == {"waiting", "held"}

Init ==
    /\ phase = [j \in Jobs |-> "absent"]
    /\ attempts = [j \in Jobs |-> 0]
    /\ stopped = [j \in Jobs |-> FALSE]
    /\ record = [j \in Jobs |-> {}]

Submit(j) ==
    /\ phase[j] = "absent"
    /\ phase' = [phase EXCEPT ![j] = "waiting"]
    /\ UNCHANGED <<attempts, stopped, record>>

Grant(j) ==
    /\ phase[j] = "waiting"
    /\ ~stopped[j]
    /\ attempts[j] < MaxAttempts
    /\ phase' = [phase EXCEPT ![j] = "held"]
    /\ attempts' = [attempts EXCEPT ![j] = @ + 1]
    /\ UNCHANGED <<stopped, record>>

Record(j, S) ==
    /\ phase[j] = "held"
    /\ ~stopped[j]
    /\ record' = [record EXCEPT ![j] = @ \cup S]
    /\ UNCHANGED <<phase, attempts, stopped>>

Requeue(j) ==
    /\ phase[j] = "held"
    /\ ~stopped[j]
    /\ attempts[j] < MaxAttempts
    /\ phase' = [phase EXCEPT ![j] = "waiting"]
    /\ UNCHANGED <<attempts, stopped, record>>

End(j) ==
    /\ phase[j] = "held"
    /\ phase' = [phase EXCEPT ![j] = "over"]
    /\ UNCHANGED <<attempts, stopped, record>>

\* Jobs of S are asked to stop; the waiting ones of W are over at once.
RequestStop(S, W) ==
    /\ \A j \in S : phase[j] \in Open
    /\ \A j \in W : j \in S /\ phase[j] = "waiting"
    /\ stopped' = [j \in Jobs |-> stopped[j] \/ j \in S]
    /\ phase' = [j \in Jobs |-> IF j \in W THEN "over" ELSE phase[j]]
    /\ UNCHANGED <<attempts, record>>

Next ==
    \/ \E j \in Jobs : Submit(j) \/ Grant(j) \/ Requeue(j) \/ End(j)
    \/ \E j \in Jobs, S \in SUBSET Items : Record(j, S)
    \/ \E S \in SUBSET Jobs, W \in SUBSET Jobs : RequestStop(S, W)

Spec == Init /\ [][Next]_vars
=============================================================================
