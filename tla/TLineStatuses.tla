---------------------------- MODULE TLineStatuses ----------------------------
(***************************************************************************)
(* The status vocabulary of TLine runs, championships and jobs, and the     *)
(* three places that fold championship statuses into one run status: the    *)
(* executor, failJobAndRun and the recovery statement.  They differ only in *)
(* what they answer for a run without championships.                        *)
(***************************************************************************)

Active == {"QUEUED", "RUNNING"}

Terminal == {"SUCCEEDED", "PARTIAL", "CANCELLED", "FAILED"}

Status == Active \cup Terminal

\* Statuses the executor skips when a run is executed again.
Completed == {"SUCCEEDED", "PARTIAL"}

\* What a non-empty map from championships to statuses amounts to.
Combined(st) ==
    LET seen == {st[c] : c \in DOMAIN st}
    IN  IF seen = {"FAILED"} THEN "FAILED"
        ELSE IF seen = {"CANCELLED"} THEN "CANCELLED"
        ELSE IF seen \cap {"FAILED", "PARTIAL"} # {} THEN "PARTIAL"
        ELSE "SUCCEEDED"

resolveRunFinalStatus(st) ==
    IF DOMAIN st = {} THEN "SUCCEEDED" ELSE Combined(st)

resolveFailedRunStatus(st) ==
    IF DOMAIN st = {} THEN "FAILED" ELSE Combined(st)

\* Championships that still wait or run take the status to; the others keep theirs.
CloseOut(st, to) ==
    [c \in DOMAIN st |-> IF st[c] \in Active THEN to ELSE st[c]]

\* The championships a progress counter counts as processed.
Processed(st) == {c \in DOMAIN st : st[c] \notin Active}
=============================================================================
