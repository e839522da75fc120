---------------------------- MODULE WorkerLease -----------------------------
(***************************************************************************)
(* How several processes share work that is kept in tables: a claim counts *)
(* an attempt, writes a fresh token and a lease, and only the holder of    *)
(* the token may write the outcome.  Reminders, meeting reminders, report  *)
(* jobs and malware scans are claimed this way and differ in which rows a  *)
(* claim takes.  The steps of an attempt are in Delivery and MediaUpload.  *)
(***************************************************************************)
EXTENDS Naturals, FiniteSets

CONSTANTS
    Job,
    Kind,          \* the kind of each job
    Worker,
    MaxAttempts    \* 8 for reminders, 5 for the others

Kinds == {"reminder", "meeting", "report", "scan"}

ASSUME LeaseAssumption ==
    /\ Kind \in [Job -> Kinds] /\ "none" \notin Job
    /\ IsFiniteSet(Worker)
    /\ MaxAttempts \in Nat \ {0}

VARIABLES
    jobs,    \* reminder_deliveries, chama_meetings, report_jobs, media_uploads
    work     \* the attempt each worker is in, with the token it was given

leaseVars == <<jobs, work>>

\* Attempts only grow, so the number of the claim serves as its token.
NoJob == [status |-> "none", attempts |-> 0, token |-> 0, live |-> FALSE]
Idle  == [job |-> "none", token |-> 0, place |-> "idle"]

LeaseInit ==
    /\ jobs = [j \in Job |-> NoJob]
    /\ work = [w \in Worker |-> Idle]

Open(j) == jobs[j].status = "open"
At(w, kind, place) ==
    /\ work[w] # Idle
    /\ Kind[work[w].job] = kind
    /\ work[w].place = place

-----------------------------------------------------------------------------
FreeAnyway(j) == TRUE

\* locked_until, reminder_claimed_until, scan_claimed_until
Free(j) == jobs[j].token = 0 \/ ~jobs[j].live

ClaimableBelowMax(j) == Open(j) /\ Free(j) /\ jobs[j].attempts < MaxAttempts

\* Reports and scans are only claimed below the maximum; a reminder is claimed
\* once more, to be marked failed, and a meeting until it starts.
Claimable(j) ==
    /\ Open(j)
    /\ Free(j)
    /\ Kind[j] \in {"report", "scan"} => jobs[j].attempts < MaxAttempts

Claim(w, j) ==
    LET token == jobs[j].attempts + 1 IN
    /\ work[w] = Idle
    /\ Claimable(j)
    /\ jobs' = [jobs EXCEPT ![j].attempts = token, ![j].token = token, ![j].live = TRUE]
    /\ work' = [work EXCEPT ![w] = [job |-> j, token |-> token, place |-> "claimed"]]

HoldsStatus(w) == Open(work[w].job)

\* WHERE lease_token = ...; every settlement clears the token.
Holds(w) == jobs[work[w].job].token = work[w].token

\* The scanner's claim must not have expired either.
HoldsLive(w) == Holds(w) /\ Open(work[w].job) /\ jobs[work[w].job].live

Outcome(w, status) ==
    [jobs EXCEPT ![work[w].job].status = status, ![work[w].job].token = 0,
                 ![work[w].job].live = FALSE]

Settle(w, status) ==
    /\ jobs' = IF Holds(w) THEN Outcome(w, status) ELSE jobs
    /\ work' = [work EXCEPT ![w] = Idle]

\* The job of an attempt that no worker is in any more.
Orphaned(j) == \A w \in Worker : work[w].job # j \/ work[w].token # jobs[j].token

\* The catch blocks: another attempt after a backoff, or the end.
AfterFailure(w) == IF work[w].token >= MaxAttempts THEN "failed" ELSE "open"
Retry(w) == Settle(w, AfterFailure(w))

Goto(w, place) == work' = [work EXCEPT ![w].place = place]

Dies(w) ==
    /\ work[w] # Idle
    /\ work' = [work EXCEPT ![w] = Idle]
    /\ UNCHANGED jobs

\* An attempt may outlive its lease, of 60 seconds or five minutes.
LeaseExpires(j) ==
    /\ jobs[j].live
    /\ jobs' = [jobs EXCEPT ![j].live = FALSE]
    /\ UNCHANGED work
=============================================================================
